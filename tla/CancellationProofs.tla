------------------------- MODULE CancellationProofs -------------------------
(***************************************************************************)
(* AtMostOnce, NothingOverlooked, OnlyWhenCanceled and ListExact for every *)
(* number of sources, registration objects, subscriptions and moves, when  *)
(* each object holds one registration in its life (MaxUses = 1).           *)
(*                                                                         *)
(* None of them is inductive.  What keeps them is that the right to call a *)
(* callback is in one place (FireRights): with the Register() that is not  *)
(* yet accepted, with the one object that is still listed, or with the     *)
(* call of Fire() that loaded it; and that the right to resume a handle is *)
(* m_armed of one object, or the call of Fire() that exchanged it          *)
(* (ResumeRights).  That needs an object to be in one place (Apart), a     *)
(* subscription to be in one object or in the two of a move (OneHolder),   *)
(* and a move to leave one of these two in the lists (Replaced).           *)
(***************************************************************************)
EXTENDS Cancellation, TLAPS

\* No entry of q is there twice.
Once(q) == \A m, n \in 1..Len(q) : q[m] = q[n] => m = n

\* Fire() is at work on the first entry.
Busy == {"call", "nested", "arm", "exec"}

\* The registrations a source still lists, and those its Cancel() took.
Listed(s) == Elements(list[s])
Taken(s) == Elements(local[s])

\* Fire() has begun on r.
Firing(s, r) == phase[s] \in Busy /\ r = Head(local[s])

\* r is still to be fired by s.
Waiting(s, r) == r \in Listed(s) \/ (r \in Taken(s) /\ ~Firing(s, r))

\* q is being moved into r.
Moves(r, q) == owner[r] \in {"moving", "finishing"} /\ arg[r] = q

\* The list is where m_index says, and Cancel() took each entry once.
Indexed ==
    \A s \in Source :
        /\ \A n \in 1..Len(list[s]) : index[list[s][n]] = n
        /\ Once(local[s])

\* How far Cancel() has come.
Phases ==
    \A s \in Source :
        /\ canceled[s] <=> phase[s] # "idle"
        /\ phase[s] \notin {"idle", "swap"} => list[s] = <<>>
        /\ phase[s] \in {"idle", "swap", "done"} => local[s] = <<>>
        /\ phase[s] \in Busy => local[s] # <<>>
        /\ phase[s] = "call" => got[s] \in Sub /\ got[s] \notin silent /\ target[got[s]] = s
        /\ phase[s] = "nested" => got[s] \in Sub /\ Link[got[s]] \in Source

\* One object is in one place.
Apart ==
    \A s, t \in Source, r \in Reg :
        /\ r \in Listed(s) => r \notin Taken(t) /\ (r \in Listed(t) => s = t)
        /\ r \in Taken(s) /\ r \in Taken(t) => s = t

\* What the fields of an object are while its owner is at each point.
Stages ==
    \A r \in Reg :
        /\ owner[r] = "empty" => sub[r] = None /\ state[r] = None
        /\ owner[r] # "empty" => uses[r] = 1
        /\ owner[r] \in {"filled", "held", "disarmed", "unregistered", "moving", "finishing"}
              => sub[r] \in Sub /\ state[r] \in Source /\ target[sub[r]] = state[r]
        /\ armed[r] => owner[r] \in {"filled", "held", "moving", "finishing"}
        /\ owner[r] \in {"refused", "nested"} =>
              /\ sub[r] = None /\ state[r] = None
              /\ arg[r] \in Sub /\ target[arg[r]] \in Source /\ canceled[target[arg[r]]]
        /\ owner[r] = "nested" => Link[arg[r]] \in Source
        /\ owner[r] \in {"moving", "finishing"} =>
              /\ arg[r] \in Reg /\ owner[arg[r]] = "moved" /\ sub[arg[r]] = sub[r]
              /\ sub[r] \in relocated
        /\ owner[r] = "moved" =>
              state[r] = None /\ sub[r] \in Sub /\ target[sub[r]] \in Source
        /\ owner[r] = "filled" => armed[r]

\* Which objects can be in a list.
Places ==
    \A s \in Source, r \in Reg :
        /\ r \in Listed(s) => owner[r] \in {"held", "disarmed", "moved", "finishing"}
        /\ r \in Taken(s) => uses[r] = 1 /\ owner[r] \notin {"filled", "refused", "nested",
           "moving"}
        /\ r \in Listed(s) \cup Taken(s) /\ sub[r] # None => target[sub[r]] = s

\* A subscription is in one object, or in the two of a move.
OneHolder ==
    \A r, q \in Reg : r # q /\ sub[r] = sub[q] /\ sub[r] # None => Moves(r, q) \/ Moves(q, r)

\* After the entry of q was replaced, q is in no list, and r and q are not
\* both there.
Replaced ==
    \A r \in Reg : owner[r] = "finishing" =>
        \A s, t \in Source :
            /\ arg[r] \notin Listed(s)
            /\ r \in Listed(s) \cup Taken(s) => arg[r] \notin Taken(t)

\* Nobody knows a subscription before its Register().
Unknown ==
    \A k \in Sub : target[k] = None =>
        /\ fired[k] = 0 /\ resumed[k] = 0 /\ k \notin relocated /\ k \notin silent
        /\ \A s \in Source : got[s] # k

\* Until TryRegister() accepts it, only its Register() knows a subscription.
Alone ==
    \A r \in Reg, k \in Sub :
        (owner[r] = "filled" /\ sub[r] = k) \/ (owner[r] = "refused" /\ arg[r] = k) =>
            /\ fired[k] = 0 /\ resumed[k] = 0
            /\ \A s \in Source : got[s] # k
            /\ \A q \in Reg \ {r} : sub[q] # k /\ (owner[q] = "refused" => arg[q] # k)

\* Who may still call the callback.
FireRights ==
    /\ \A s \in Source : phase[s] = "call" => fired[got[s]] = 0
    /\ \A s, t \in Source : phase[s] = "call" /\ phase[t] = "call" /\ got[s] = got[t] => s = t
    /\ \A s \in Source, r \in Reg : Waiting(s, r) /\ sub[r] # None =>
          /\ fired[sub[r]] = 0
          /\ \A t \in Source : phase[t] = "call" => got[t] # sub[r]

\* Who may still resume the coroutine.
ResumeRights ==
    /\ \A r \in Reg : armed[r] => resumed[sub[r]] = 0
    /\ \A s \in Source, r \in Reg : phase[s] = "exec" /\ r = Head(local[s]) /\ sub[r] # None =>
          /\ resumed[sub[r]] = 0
          /\ \A q \in Reg : armed[q] => sub[q] # sub[r]

\* What has fired, fired once, and its source is cancelled.
Counted ==
    \A k \in Sub :
        /\ fired[k] <= 1 /\ resumed[k] <= 1
        /\ fired[k] + resumed[k] > 0 => target[k] \in Source /\ canceled[target[k]]

\* Until the source is cancelled, a held registration is in its list.
Kept ==
    \A r \in Reg :
        /\ owner[r] \in {"held", "finishing"} /\ ~canceled[state[r]] => r \in Listed(state[r])
        /\ owner[r] = "moving" /\ ~canceled[state[r]] => arg[r] \in Listed(state[r])

\* Cancel() has fired a registration that was not moved, or is about to.
Reached(r, k, s) ==
    IF k \in silent
    THEN \/ resumed[k] = 1
         \/ armed[r] /\ Waiting(s, r)
         \/ armed[r] /\ phase[s] = "arm" /\ resume[s] /\ r = Head(local[s])
         \/ phase[s] = "exec" /\ r = Head(local[s])
    ELSE fired[k] = 1 \/ Waiting(s, r) \/ (phase[s] = "call" /\ got[s] = k)

\* Cancel() has fired, or is going to fire, every registration that is held.
Coming == \A r \in Reg : owner[r] = "held" /\ sub[r] \notin relocated => Reached(r, sub[r],
state[r])

Inv ==
    /\ CancellationTypeOK /\ Indexed /\ Phases /\ Apart /\ Stages /\ Places
    /\ OneHolder /\ Replaced /\ Unknown /\ Alone
    /\ FireRights /\ ResumeRights /\ Counted /\ Kept /\ Coming

-----------------------------------------------------------------------------
(* The lists                                                                *)

\* Accept() puts one entry at the end.
LEMMA ElementsAppend ==
    ASSUME NEW S, NEW q \in Seq(S), NEW r \in S
    PROVE  /\ Elements(Append(q, r)) = Elements(q) \cup {r}
           /\ Append(q, r) \in Seq(S)
           /\ Len(Append(q, r)) = Len(q) + 1
           /\ Append(q, r)[Len(q) + 1] = r
           /\ \A n \in 1..Len(q) : Append(q, r)[n] = q[n]
<1>1. Append(q, r) \in Seq(S) /\ Len(Append(q, r)) = Len(q) + 1 /\ Len(q) \in Nat
      /\ Append(q, r)[Len(q) + 1] = r /\ \A n \in 1..Len(q) : Append(q, r)[n] = q[n]
  OBVIOUS
<1>2. ASSUME NEW x PROVE x \in Elements(Append(q, r)) <=> x \in Elements(q) \cup {r}
  BY <1>1 DEF Elements
<1> QED BY <1>1, <1>2

\* Cancel() takes the first entry off.
LEMMA ElementsTail ==
    ASSUME NEW S, NEW q \in Seq(S), q # <<>>, Once(q)
    PROVE  /\ Head(q) \in Elements(q)
           /\ Tail(q) \in Seq(S)
           /\ Elements(Tail(q)) = Elements(q) \ {Head(q)}
           /\ Once(Tail(q))
<1>1. /\ Len(q) \in Nat /\ Len(q) >= 1 /\ Head(q) = q[1]
      /\ Tail(q) \in Seq(S) /\ Len(Tail(q)) = Len(q) - 1
      /\ \A n \in 1..Len(Tail(q)) : Tail(q)[n] = q[n + 1]
  OBVIOUS
<1>2. Once(Tail(q)) BY <1>1 DEF Once
<1>3. ASSUME NEW x \in Elements(Tail(q)) PROVE x \in Elements(q) \ {Head(q)}
  <2>1. PICK n \in 1..Len(Tail(q)) : x = q[n + 1] BY <1>1, <1>3 DEF Elements
  <2>2. n + 1 \in 1..Len(q) /\ n + 1 # 1 /\ 1 \in 1..Len(q) BY <1>1, <2>1
  <2> QED BY <1>1, <2>1, <2>2 DEF Elements, Once
<1>4. ASSUME NEW x \in Elements(q), x # Head(q) PROVE x \in Elements(Tail(q))
  <2>1. PICK n \in 1..Len(q) : x = q[n] BY <1>4 DEF Elements
  <2>2. n - 1 \in 1..Len(Tail(q)) /\ Tail(q)[n - 1] = q[n] BY <1>1, <1>4, <2>1
  <2> QED BY <2>1, <2>2 DEF Elements
<1>5. Head(q) \in Elements(q) BY <1>1 DEF Elements
<1> QED BY <1>1, <1>2, <1>3, <1>4, <1>5

\* Unregister() takes one entry out and puts the last one in its place.
LEMMA ElementsSwapRemove ==
    ASSUME NEW s, list[s] \in Seq(Reg), NEW n \in 1..Len(list[s]), Once(list[s])
    PROVE  /\ SwapRemove(s, n) \in Seq(Reg)
           /\ Len(SwapRemove(s, n)) = Len(list[s]) - 1
           /\ \A m \in 1..Len(SwapRemove(s, n)) :
                 SwapRemove(s, n)[m] = IF m = n THEN list[s][Len(list[s])] ELSE list[s][m]
           /\ Elements(SwapRemove(s, n)) = Elements(list[s]) \ {list[s][n]}
<1> DEFINE q == list[s]
<1> DEFINE p == SwapRemove(s, n)
<1>0. q \in Seq(Reg) /\ Once(q) /\ n \in 1..Len(q)
      /\ p = SubSeq([q EXCEPT ![n] = q[Len(q)]], 1, Len(q) - 1)
  BY DEF SwapRemove
<1> SUFFICES /\ p \in Seq(Reg)
             /\ Len(p) = Len(q) - 1
             /\ \A m \in 1..Len(p) : p[m] = IF m = n THEN q[Len(q)] ELSE q[m]
             /\ Elements(p) = Elements(q) \ {q[n]}
  OBVIOUS
<1> HIDE DEF q, p
<1> DEFINE e == [q EXCEPT ![n] = q[Len(q)]]
<1>1. Len(q) \in Nat /\ Len(q) >= 1 /\ q[Len(q)] \in Reg /\ q \in [1..Len(q) -> Reg] BY <1>0
<1>2. e \in Seq(Reg) /\ Len(e) = Len(q)
      /\ \A m \in 1..Len(q) : e[m] = IF m = n THEN q[Len(q)] ELSE q[m]
  BY <1>0, <1>1
<1> HIDE DEF e
<1>3. p = SubSeq(e, 1, Len(q) - 1) BY <1>0 DEF e
<1>4. /\ p \in Seq(Reg) /\ Len(p) = Len(q) - 1
      /\ \A m \in 1..Len(p) : p[m] = e[m]
  BY <1>1, <1>2, <1>3
<1>5. \A m \in 1..Len(p) : p[m] = IF m = n THEN q[Len(q)] ELSE q[m]
  BY <1>1, <1>2, <1>4
<1>6. ASSUME NEW x \in Elements(p) PROVE x \in Elements(q) \ {q[n]}
  <2>1. PICK m \in 1..Len(p) : x = p[m] BY <1>6 DEF Elements
  <2>2. m \in 1..Len(q) /\ Len(q) \in 1..Len(q) /\ m # Len(q)
    <3>1. Len(p) = Len(q) - 1 /\ Len(q) \in Nat /\ Len(q) >= 1 BY <1>1, <1>4
    <3> QED BY <3>1
  <2>3. CASE m = n BY <1>0, <1>5, <2>1, <2>2, <2>3 DEF Elements, Once
  <2>4. CASE m # n BY <1>0, <1>5, <2>1, <2>2, <2>4 DEF Elements, Once
  <2> QED BY <2>3, <2>4
<1>7. ASSUME NEW x \in Elements(q), x # q[n] PROVE x \in Elements(p)
  <2>1. PICK m \in 1..Len(q) : x = q[m] BY <1>7 DEF Elements
  <2>2. CASE m = Len(q)
    <3>1. n \in 1..Len(p) BY <1>0, <1>1, <1>4, <1>7, <2>1, <2>2
    <3> QED BY <1>5, <2>1, <2>2, <3>1 DEF Elements
  <2>3. CASE m # Len(q)
    <3>1. m \in 1..Len(p) /\ m # n BY <1>0, <1>1, <1>4, <1>7, <2>1, <2>3
    <3> QED BY <1>5, <2>1, <3>1 DEF Elements
  <2> QED BY <2>2, <2>3
<1> QED BY <1>4, <1>5, <1>6, <1>7

\* MoveEntry() replaces one entry.
LEMMA ElementsReplace ==
    ASSUME NEW S, NEW q \in Seq(S), NEW n \in 1..Len(q), Once(q), NEW r \in S,
           NEW p, p = [q EXCEPT ![n] = r]
    PROVE  /\ p \in Seq(S)
           /\ Len(p) = Len(q)
           /\ \A m \in 1..Len(p) : p[m] = IF m = n THEN r ELSE q[m]
           /\ Elements(p) = (Elements(q) \ {q[n]}) \cup {r}
<1>1. /\ Len(q) \in Nat /\ p \in Seq(S) /\ Len(p) = Len(q)
      /\ \A m \in 1..Len(p) : p[m] = IF m = n THEN r ELSE q[m]
  OBVIOUS
<1>2. ASSUME NEW x \in Elements(p), x # r PROVE x \in Elements(q) \ {q[n]}
  <2>1. PICK m \in 1..Len(p) : x = p[m] BY <1>2 DEF Elements
  <2> QED BY <1>1, <1>2, <2>1 DEF Elements, Once
<1>3. ASSUME NEW x \in Elements(q), x # q[n] PROVE x \in Elements(p)
  <2>1. PICK m \in 1..Len(q) : x = q[m] BY <1>3 DEF Elements
  <2> QED BY <1>1, <1>3, <2>1 DEF Elements
<1>4. r \in Elements(p) BY <1>1 DEF Elements
<1> QED BY <1>1, <1>2, <1>3, <1>4

\* The entries of a list are the objects it lists.
LEMMA EntryListed ==
    ASSUME CancellationTypeOK, NEW s \in Source, NEW n \in 1..Len(list[s])
    PROVE  list[s][n] \in Listed(s) /\ list[s][n] \in Reg
<1>1. list[s] \in Seq(Reg) BY DEF CancellationTypeOK
<1> QED BY <1>1 DEF Listed, Elements

\* What Fire() is called on is an object Cancel() took, and not one of the rest.
LEMMA FiringTaken ==
    ASSUME CancellationTypeOK, Indexed, Phases, NEW s \in Source, local[s] # <<>>
    PROVE  /\ Head(local[s]) \in Taken(s) /\ Head(local[s]) \in Reg
           /\ Tail(local[s]) \in Seq(Reg) /\ Once(Tail(local[s]))
           /\ Elements(Tail(local[s])) = Taken(s) \ {Head(local[s])}
<1>1. local[s] \in Seq(Reg) /\ Once(local[s]) BY DEF CancellationTypeOK, Indexed
<1> QED BY <1>1, ElementsTail DEF Taken

\* The empty list has no entry.
LEMMA EmptyList == Elements(<<>>) = {} /\ \A n \in 1..Len(<<>>) : FALSE
<1>1. Len(<<>>) = 0 OBVIOUS
<1>2. \A n \in 1..Len(<<>>) : FALSE BY <1>1
<1>3. ASSUME NEW x \in Elements(<<>>) PROVE FALSE BY <1>2, <1>3 DEF Elements
<1>4. Elements(<<>>) = {} BY <1>3
<1> QED BY <1>2, <1>4

-----------------------------------------------------------------------------
(* Every step keeps the invariant: Cancel() and Fire()                      *)

\* The exchange of Cancel() makes an idle source cancelled.
LEMMA CancelKeeps ==
    ASSUME Inv, MaxUses = 1, NEW s \in Source, Cancel(s)
    PROVE  Inv'
<1> USE NoneAssumption, LinkAssumption, ResumesAssumption
<1>e. \A t \in Source : Listed(t)' = Listed(t) /\ Taken(t)' = Taken(t)
  BY DEF Cancel, Phase, fields, history, Listed, Taken
<1>w. \A t \in Source, x \in Reg : Waiting(t, x)' <=> Waiting(t, x)
  BY <1>e DEF Inv, Waiting, Firing, Busy, Phases, CancellationTypeOK, Cancel, Phase, fields, history
<1>1. CancellationTypeOK'
  BY <1>e DEF Inv, CancellationTypeOK, Phases, Stages, Cancel, Phase, fields, history
<1>2. Indexed' BY <1>e DEF Inv, Indexed, CancellationTypeOK, Cancel, Phase, fields, history
<1>3. Phases' BY <1>e DEF Inv, Phases, CancellationTypeOK, Busy, Cancel, Phase, fields, history
<1>4. Apart' BY <1>e DEF Inv, Apart, CancellationTypeOK, Cancel, Phase, fields, history
<1>5. Stages' BY <1>e DEF Inv, Stages, CancellationTypeOK, Cancel, Phase, fields, history
<1>6. Places' BY <1>e DEF Inv, Places, CancellationTypeOK, Stages, Cancel, Phase, fields, history
<1>7. OneHolder'
  BY <1>e DEF Inv, OneHolder, CancellationTypeOK, Moves, Stages, Cancel, Phase, fields, history
<1>8. Replaced'
  BY <1>e DEF Inv, Replaced, CancellationTypeOK, Stages, Places, Cancel, Phase, fields, history
<1>9. Unknown'
  BY <1>e DEF Inv, Unknown, CancellationTypeOK, Stages, Cancel, Phase, fields, history
<1>10. Alone' BY <1>e DEF Inv, Alone, CancellationTypeOK, Stages, Cancel, Phase, fields, history
<1>11. FireRights'
  <2>1. \A t \in Source : phase'[t] = "call" => phase[t] = "call" BY DEF Inv, Cancel, Phase,
       CancellationTypeOK
  <2> QED BY <1>w, <2>1 DEF Inv, FireRights, Cancel, fields, history
<1>12. ResumeRights'
  BY <1>e DEF Inv, ResumeRights, CancellationTypeOK, Stages, Cancel, Phase, fields, history
<1>13. Counted'
  BY <1>e DEF Inv, Counted, CancellationTypeOK, Stages, Phases, Cancel, Phase, fields, history
<1>14. Kept' BY <1>e DEF Inv, Kept, CancellationTypeOK, Stages, Cancel, Phase, fields, history
<1>15. Coming'
  BY <1>e, <1>w DEF Inv, Coming, CancellationTypeOK, Stages, Phases, Reached, Cancel, Phase,
       fields, history
<1> QED BY <1>1, <1>2, <1>3, <1>4, <1>5, <1>6, <1>7, <1>8, <1>9, <1>10, <1>11, <1>12, <1>13,
     <1>14, <1>15 DEF Inv

\* The whole list becomes the local one.
LEMMA SwapKeeps ==
    ASSUME Inv, MaxUses = 1, NEW s \in Source, Swap(s)
    PROVE  Inv'
<1> USE NoneAssumption, LinkAssumption, ResumesAssumption
<1>c. /\ phase[s] = "swap" /\ local[s] = <<>> /\ s \in DOMAIN list /\ s \in DOMAIN local
      /\ phase' = [phase EXCEPT ![s] = "fire"]
      /\ local' = [local EXCEPT ![s] = list[s]]
      /\ list' = [list EXCEPT ![s] = <<>>]
      /\ UNCHANGED <<canceled, got, resume, state, sub, silent, index, armed, owner, arg, uses,
                     moves, target, released, relocated, fired, resumed>>
  BY DEF Inv, Swap, Phase, Phases, CancellationTypeOK, fields, history
<1>l. /\ \A t \in Source : list'[t] = (IF t = s THEN <<>> ELSE list[t])
      /\ \A t \in Source : local'[t] = (IF t = s THEN list[s] ELSE local[t])
      /\ Elements(<<>>) = {}
  BY <1>c DEF Inv, CancellationTypeOK, Elements
<1>e. /\ \A t \in Source : Listed(t)' = IF t = s THEN {} ELSE Listed(t)
      /\ \A t \in Source : Taken(t)' = IF t = s THEN Listed(s) ELSE Taken(t)
      /\ Taken(s) = {}
  <2>1. ASSUME NEW t \in Source, t # s PROVE Listed(t)' = Listed(t) /\ Taken(t)' = Taken(t)
    BY <1>l, <2>1 DEF Listed, Taken
  <2>2. Listed(s)' = {} /\ Taken(s)' = Listed(s) /\ Taken(s) = {}
    BY <1>c, <1>l DEF Listed, Taken
  <2> QED BY <2>1, <2>2
<1>w. \A t \in Source, x \in Reg : Waiting(t, x)' <=> Waiting(t, x)
  BY <1>c, <1>l, <1>e DEF Inv, Waiting, Firing, Busy, CancellationTypeOK
<1>1. CancellationTypeOK' BY <1>e, <1>c DEF Inv, CancellationTypeOK
<1>2. Indexed' BY <1>e, <1>l, <1>c DEF Inv, Indexed, Once
<1>3. Phases' BY <1>e, <1>l, <1>c DEF Inv, Phases, CancellationTypeOK, Busy
<1>4. Apart' BY <1>e, <1>c DEF Inv, Apart
<1>5. Stages' BY <1>e, <1>c DEF Inv, Stages, CancellationTypeOK
<1>6. Places'
  <2>1. \A t \in Source, x \in Reg : (x \in Listed(t)' => x \in Listed(t))
        /\ (x \in Taken(t)' => x \in Taken(t) \cup Listed(t))
    BY <1>e
  <2> QED BY <1>c, <2>1 DEF Inv, Places, Stages
<1>7. OneHolder' BY <1>e, <1>c DEF Inv, OneHolder, CancellationTypeOK, Moves, Stages
<1>8. Replaced' BY <1>e, <1>c DEF Inv, Replaced
<1>9. Unknown' BY <1>e, <1>c DEF Inv, Unknown, CancellationTypeOK, Stages
<1>10. Alone' BY <1>e, <1>c DEF Inv, Alone, CancellationTypeOK, Stages
<1>11. FireRights' BY <1>e, <1>w, <1>c DEF Inv, FireRights, CancellationTypeOK, Stages, Phases
<1>12. ResumeRights' BY <1>e, <1>l, <1>c DEF Inv, ResumeRights, CancellationTypeOK, Stages
<1>13. Counted' BY <1>e, <1>c DEF Inv, Counted, CancellationTypeOK, Stages, Phases
<1>14. Kept' BY <1>e, <1>c DEF Inv, Kept, Stages, Phases
<1>15. Coming'
  <2> SUFFICES ASSUME NEW x \in Reg, owner[x] = "held", sub[x] \notin relocated
      PROVE Reached(x, sub[x], state[x])'
    BY <1>c DEF Coming
  <2>1. Reached(x, sub[x], state[x]) /\ state[x] \in Source BY DEF Inv, Coming, Stages
  <2>2. \A t \in Source : IF t = s THEN phase[t] = "swap" ELSE phase'[t] = phase[t]
        /\ local'[t] = local[t]
    BY <1>c, <1>l DEF Inv, CancellationTypeOK
  <2> QED BY <1>c, <1>w, <2>1, <2>2 DEF Reached
<1> QED BY <1>1, <1>2, <1>3, <1>4, <1>5, <1>6, <1>7, <1>8, <1>9, <1>10, <1>11, <1>12, <1>13,
     <1>14, <1>15 DEF Inv

\* Nothing is left to fire when Cancel() returns.
LEMMA CancelReturnsKeeps ==
    ASSUME Inv, MaxUses = 1, NEW s \in Source, CancelReturns(s)
    PROVE  Inv'
<1> USE NoneAssumption, LinkAssumption, ResumesAssumption
<1>e. \A t \in Source : Listed(t)' = Listed(t) /\ Taken(t)' = Taken(t)
  BY DEF CancelReturns, Phase, fields, history, Listed, Taken
<1>w. \A t \in Source, x \in Reg : Waiting(t, x)' <=> Waiting(t, x)
  BY <1>e DEF Inv, Waiting, Firing, Busy, Phases, CancellationTypeOK, CancelReturns, Phase,
       fields, history
<1>1. CancellationTypeOK'
  BY <1>e DEF Inv, CancellationTypeOK, Phases, Stages, CancelReturns, Phase, fields, history
<1>2. Indexed' BY <1>e DEF Inv, Indexed, CancellationTypeOK, CancelReturns, Phase, fields, history
<1>3. Phases'
  BY <1>e DEF Inv, Phases, CancellationTypeOK, Busy, CancelReturns, Phase, fields, history
<1>4. Apart' BY <1>e DEF Inv, Apart, CancellationTypeOK, CancelReturns, Phase, fields, history
<1>5. Stages' BY <1>e DEF Inv, Stages, CancellationTypeOK, CancelReturns, Phase, fields, history
<1>6. Places'
  BY <1>e DEF Inv, Places, CancellationTypeOK, Stages, CancelReturns, Phase, fields, history
<1>7. OneHolder'
  BY <1>e DEF Inv, OneHolder, CancellationTypeOK, Moves, Stages, CancelReturns, Phase, fields,
       history
<1>8. Replaced'
  BY <1>e DEF Inv, Replaced, CancellationTypeOK, Stages, Places, CancelReturns, Phase, fields,
       history
<1>9. Unknown'
  BY <1>e DEF Inv, Unknown, CancellationTypeOK, Stages, CancelReturns, Phase, fields, history
<1>10. Alone'
  BY <1>e DEF Inv, Alone, CancellationTypeOK, Stages, CancelReturns, Phase, fields, history
<1>11. FireRights'
  BY <1>e, <1>w DEF Inv, FireRights, CancellationTypeOK, Stages, Phases, CancelReturns, Phase,
       fields, history
<1>12. ResumeRights'
  BY <1>e DEF Inv, ResumeRights, CancellationTypeOK, Stages, CancelReturns, Phase, fields, history
<1>13. Counted'
  BY <1>e DEF Inv, Counted, CancellationTypeOK, Stages, Phases, CancelReturns, Phase, fields,
       history
<1>14. Kept'
  BY <1>e DEF Inv, Kept, CancellationTypeOK, Stages, CancelReturns, Phase, fields, history
<1>15. Coming'
  BY <1>e, <1>w DEF Inv, Coming, CancellationTypeOK, Stages, Phases, Reached, CancelReturns,
       Phase, fields, history
<1> QED BY <1>1, <1>2, <1>3, <1>4, <1>5, <1>6, <1>7, <1>8, <1>9, <1>10, <1>11, <1>12, <1>13,
     <1>14, <1>15 DEF Inv

\* The right to call the callback passes from the entry to the call.
LEMMA FireLoadKeeps ==
    ASSUME Inv, MaxUses = 1, NEW s \in Source, FireLoad(s)
    PROVE  Inv'
<1> USE NoneAssumption, LinkAssumption, ResumesAssumption
<1> DEFINE h == Head(local[s])
<1>e. \A t \in Source : Listed(t)' = Listed(t) /\ Taken(t)' = Taken(t)
  BY DEF FireLoad, Listed, Taken
<1>h. h \in Taken(s) /\ h \in Reg
  <2>1. local[s] \in Seq(Reg) /\ local[s] # <<>> /\ Once(local[s])
    BY DEF Inv, FireLoad, CancellationTypeOK, Indexed
  <2> QED BY <2>1, ElementsTail DEF Taken
<1> HIDE DEF h
<1>c. /\ phase[s] = "fire" /\ h \in Taken(s) /\ h \in Reg /\ local[s] # <<>>
      /\ got' = [got EXCEPT ![s] = sub[h]]
      /\ phase' = [phase EXCEPT ![s] = IF sub[h] = None \/ sub[h] \in silent THEN "arm" ELSE "call"]
      /\ resume' = [resume EXCEPT ![s] = TRUE]
      /\ UNCHANGED <<canceled, list, local, state, sub, silent, index, armed, owner, arg, uses,
                     moves, target, released, relocated, fired, resumed>>
  BY <1>h DEF FireLoad, Phase, fields, history, h
<1>f. \A t \in Source : phase'[t] \in Busy <=> phase[t] \in Busy \/ t = s
  BY <1>c DEF Inv, CancellationTypeOK, Busy
<1>w. \A t \in Source, x \in Reg : Waiting(t, x)' <=> Waiting(t, x) /\ ~(t = s /\ x = h)
  BY <1>c, <1>e, <1>f, SMT DEF Inv, Waiting, Firing, h, Busy, Apart
<1>v. Waiting(s, h) BY <1>c DEF Waiting, Firing, Busy
<1>o. \A t \in Source, x \in Reg : Waiting(t, x) /\ x # h /\ sub[h] # None => sub[x] # sub[h]
  BY <1>c DEF Inv, OneHolder, Moves, Places, Replaced, Waiting
<1>1. CancellationTypeOK' BY <1>e, <1>c DEF Inv, CancellationTypeOK
<1>2. Indexed' BY <1>e, <1>c DEF Inv, Indexed, CancellationTypeOK
<1>3. Phases' BY <1>e, SMTT(30), <1>c DEF Inv, Phases, CancellationTypeOK, Busy, Places
<1>4. Apart' BY <1>e, <1>c DEF Inv, Apart, CancellationTypeOK
<1>5. Stages' BY <1>e, <1>c DEF Inv, Stages, CancellationTypeOK
<1>6. Places' BY <1>e, <1>c DEF Inv, Places, CancellationTypeOK, Stages
<1>7. OneHolder' BY <1>e, <1>c DEF Inv, OneHolder, CancellationTypeOK, Moves, Stages
<1>8. Replaced' BY <1>e, <1>c DEF Inv, Replaced, CancellationTypeOK, Stages, Places
<1>9. Unknown' BY <1>e, <1>c DEF Inv, Unknown, CancellationTypeOK, Stages, Places
<1>10. Alone' BY <1>e, <1>c DEF Inv, Alone, CancellationTypeOK, Stages, Places
<1>11. FireRights'
  <2>1. sub[h] # None => fired[sub[h]] = 0 /\ \A t \in Source : phase[t] = "call" => got[t] # sub[h]
    BY <1>c, <1>v DEF Inv, FireRights
  <2>2. \A t \in Source : phase'[t] = "call" => IF t = s THEN got'[t] = sub[h]
        /\ sub[h] # None ELSE phase[t] = "call" /\ got'[t] = got[t]
    BY <1>c DEF Inv, CancellationTypeOK
  <2>3. ASSUME NEW t \in Source, NEW u \in Source, phase'[t] = "call", phase'[u] = "call",
        got'[t] = got'[u]
      PROVE t = u
    BY <2>1, <2>2, <2>3 DEF Inv, FireRights
  <2>4. ASSUME NEW t \in Source, phase'[t] = "call" PROVE fired[got'[t]] = 0
    BY <2>1, <2>2, <2>4 DEF Inv, FireRights
  <2>5. ASSUME NEW t \in Source, NEW x \in Reg, Waiting(t, x)', sub[x] # None
        PROVE  fired[sub[x]] = 0 /\ \A u \in Source : phase'[u] = "call" => got'[u] # sub[x]
    <3>1. Waiting(t, x) /\ ~(t = s /\ x = h) BY <1>w, <2>5
    <3>2. x # h BY <1>c, <3>1 DEF Inv, Waiting, Apart
    <3> QED BY <1>o, <2>2, <2>5, <3>1, <3>2 DEF Inv, FireRights
  <2> QED BY <1>c, <2>3, <2>4, <2>5 DEF FireRights
<1>12. ResumeRights' BY <1>e, <1>c DEF Inv, ResumeRights, CancellationTypeOK, Stages
<1>13. Counted' BY <1>e, <1>c DEF Inv, Counted, CancellationTypeOK, Stages, Phases
<1>14. Kept' BY <1>e, <1>c DEF Inv, Kept, CancellationTypeOK, Stages
<1>15. Coming'
  <2> SUFFICES ASSUME NEW x \in Reg, owner[x] = "held", sub[x] \notin relocated
      PROVE Reached(x, sub[x], state[x])'
    BY <1>c DEF Coming
  <2>1. Reached(x, sub[x], state[x]) /\ state[x] \in Source BY DEF Inv, Coming, Stages
  <2>2. \A t \in Source : t # s => phase'[t] = phase[t] /\ got'[t] = got[t]
        /\ resume'[t] = resume[t]
    BY <1>c DEF Inv, CancellationTypeOK
  <2>3. CASE state[x] = s /\ x = h
    <3>1. sub[h] # None BY <2>3 DEF Inv, Stages
    <3>2. resume'[s] /\ phase'[s] = (IF sub[h] \in silent THEN "arm" ELSE "call")
          /\ got'[s] = sub[h]
      BY <1>c, <3>1 DEF Inv, CancellationTypeOK
    <3> QED BY <1>c, <2>1, <2>3, <3>2 DEF Reached, h
  <2>4. CASE ~(state[x] = s /\ x = h)
    BY <1>c, <1>w, <2>1, <2>2, <2>4 DEF Reached, h
  <2> QED BY <2>3, <2>4
<1> QED BY <1>1, <1>2, <1>3, <1>4, <1>5, <1>6, <1>7, <1>8, <1>9, <1>10, <1>11, <1>12, <1>13,
     <1>14, <1>15 DEF Inv

\* The callback is called.
LEMMA FireCallKeeps ==
    ASSUME Inv, MaxUses = 1, NEW s \in Source, FireCall(s)
    PROVE  Inv'
<1> USE NoneAssumption, LinkAssumption, ResumesAssumption
<1>e. \A t \in Source : Listed(t)' = Listed(t) /\ Taken(t)' = Taken(t)
  BY DEF FireCall, Phase, Count, fields, Listed, Taken
<1>w. \A t \in Source, x \in Reg : Waiting(t, x)' <=> Waiting(t, x)
  BY <1>e DEF Inv, Waiting, Firing, Busy, Phases, CancellationTypeOK, FireCall, Phase, Count, fields
<1>1. CancellationTypeOK'
  BY <1>e DEF Inv, CancellationTypeOK, Phases, Stages, FireCall, Phase, Count, fields
<1>2. Indexed' BY <1>e DEF Inv, Indexed, CancellationTypeOK, FireCall, Phase, Count, fields
<1>3. Phases' BY <1>e DEF Inv, Phases, CancellationTypeOK, Busy, FireCall, Phase, Count, fields
<1>4. Apart' BY <1>e DEF Inv, Apart, CancellationTypeOK, FireCall, Phase, Count, fields
<1>5. Stages' BY <1>e DEF Inv, Stages, CancellationTypeOK, FireCall, Phase, Count, fields
<1>6. Places' BY <1>e DEF Inv, Places, CancellationTypeOK, Stages, FireCall, Phase, Count, fields
<1>7. OneHolder'
  BY <1>e DEF Inv, OneHolder, CancellationTypeOK, Moves, Stages, FireCall, Phase, Count, fields
<1>8. Replaced'
  BY <1>e DEF Inv, Replaced, CancellationTypeOK, Stages, Places, FireCall, Phase, Count, fields
<1>9. Unknown'
  BY <1>e DEF Inv, Unknown, CancellationTypeOK, Stages, FireCall, Phase, Count, fields
<1>10. Alone' BY <1>e DEF Inv, Alone, CancellationTypeOK, Stages, FireCall, Phase, Count, fields
<1>11. FireRights'
  BY <1>e, <1>w DEF Inv, FireRights, CancellationTypeOK, Stages, Phases, FireCall, Phase, Count,
       fields
<1>12. ResumeRights'
  BY <1>e DEF Inv, ResumeRights, CancellationTypeOK, Stages, FireCall, Phase, Count, fields
<1>13. Counted'
  BY <1>e DEF Inv, Counted, CancellationTypeOK, Stages, Phases, FireRights, FireCall, Phase,
       Count, fields
<1>14. Kept' BY <1>e DEF Inv, Kept, CancellationTypeOK, Stages, FireCall, Phase, Count, fields
<1>15. Coming'
  BY <1>e, <1>w DEF Inv, Coming, CancellationTypeOK, Stages, Phases, Reached, FireRights,
       FireCall, Phase, Count, fields
<1> QED BY <1>1, <1>2, <1>3, <1>4, <1>5, <1>6, <1>7, <1>8, <1>9, <1>10, <1>11, <1>12, <1>13,
     <1>14, <1>15 DEF Inv

\* CancelLinkedSource() meets a child that is cancelled already.
LEMMA FireLinkAgainKeeps ==
    ASSUME Inv, MaxUses = 1, NEW s \in Source, FireLink(s), canceled[Link[got[s]]]
    PROVE  Inv'
<1> USE NoneAssumption, LinkAssumption, ResumesAssumption
<1>e. \A t \in Source : Listed(t)' = Listed(t) /\ Taken(t)' = Taken(t)
  BY DEF FireLink, Count, fields, Listed, Taken
<1>c. /\ got[s] \in Sub /\ Link[got[s]] \in Source /\ phase[s] = "call"
      /\ canceled' = canceled /\ phase' = [phase EXCEPT ![s] = "arm"]
      /\ fired' = [fired EXCEPT ![got[s]] = @ + 1]
      /\ resume' = [resume EXCEPT ![s] = FALSE]
      /\ UNCHANGED <<list, local, got, fields, owner, arg, uses, moves, target, released,
                     relocated, resumed>>
  <2>1. got[s] \in Sub /\ Link[got[s]] \in Source BY DEF Inv, FireLink, Phases
  <2>2. [canceled EXCEPT ![Link[got[s]]] = TRUE] = canceled BY <2>1 DEF Inv, CancellationTypeOK
  <2> QED BY <2>1, <2>2 DEF FireLink, Count
<1>f. \A t \in Source : phase'[t] \in Busy <=> phase[t] \in Busy BY <1>c DEF Inv, Busy,
     CancellationTypeOK, Phases
<1>w. \A t \in Source, x \in Reg : Waiting(t, x)' <=> Waiting(t, x)
  BY <1>c, <1>e, <1>f DEF Waiting, Firing
<1>1. CancellationTypeOK' BY <1>e, <1>c DEF Inv, CancellationTypeOK, fields
<1>2. Indexed' BY <1>e, <1>c DEF Inv, Indexed, CancellationTypeOK, fields
<1>3. Phases' BY <1>e, SMTT(30), <1>c DEF Inv, Phases, CancellationTypeOK, Busy, fields
<1>4. Apart' BY <1>e, <1>c DEF Inv, Apart, CancellationTypeOK, fields
<1>5. Stages' BY <1>e, <1>c DEF Inv, Stages, CancellationTypeOK, fields
<1>6. Places' BY <1>e, <1>c DEF Inv, Places, CancellationTypeOK, Stages, fields
<1>7. OneHolder' BY <1>e, <1>c DEF Inv, OneHolder, CancellationTypeOK, Moves, Stages, fields
<1>8. Replaced' BY <1>e, <1>c DEF Inv, Replaced, fields
<1>9. Unknown' BY <1>e, <1>c DEF Inv, Unknown, CancellationTypeOK, Stages, fields
<1>10. Alone' BY <1>e, <1>c DEF Inv, Alone, CancellationTypeOK, Stages, fields
<1>11. FireRights'
  BY <1>e, <1>w, <1>c DEF Inv, FireRights, CancellationTypeOK, Stages, Phases, fields
<1>12. ResumeRights' BY <1>e, <1>c DEF Inv, ResumeRights, CancellationTypeOK, Stages, fields
<1>13. Counted'
  BY <1>e, <1>c DEF Inv, Counted, CancellationTypeOK, Stages, Phases, FireRights, fields
<1>14. Kept' BY <1>e, <1>c DEF Inv, Kept, CancellationTypeOK, Stages, fields
<1>15. Coming'
  BY <1>e, <1>w, <1>c DEF Inv, Coming, CancellationTypeOK, Stages, Phases, Reached, FireRights,
       fields
<1> QED BY <1>1, <1>2, <1>3, <1>4, <1>5, <1>6, <1>7, <1>8, <1>9, <1>10, <1>11, <1>12, <1>13,
     <1>14, <1>15 DEF Inv

\* CancelLinkedSource() cancels its child.
LEMMA FireLinkFirstKeeps ==
    ASSUME Inv, MaxUses = 1, NEW s \in Source, FireLink(s), ~canceled[Link[got[s]]]
    PROVE  Inv'
<1> USE NoneAssumption, LinkAssumption, ResumesAssumption
<1>e. \A t \in Source : Listed(t)' = Listed(t) /\ Taken(t)' = Taken(t)
  BY DEF FireLink, Count, fields, Listed, Taken
<1> DEFINE c == Link[got[s]]
<1>a. /\ got[s] \in Sub /\ c \in Source /\ phase[s] = "call" /\ phase[c] = "idle" /\ c # s
  BY DEF Inv, FireLink, Phases
<1>b. /\ canceled' = [canceled EXCEPT ![c] = TRUE]
      /\ phase' = [phase EXCEPT ![s] = "nested", ![c] = "swap"]
      /\ fired' = [fired EXCEPT ![got[s]] = @ + 1]
      /\ resume' = [resume EXCEPT ![s] = FALSE]
      /\ UNCHANGED <<list, local, got, fields, owner, arg, uses, moves, target, released,
                     relocated, resumed>>
  BY DEF FireLink, Count
<1> HIDE DEF c
<1>c. /\ got[s] \in Sub /\ Link[got[s]] \in Source
      /\ c \in Source /\ phase[s] = "call" /\ phase[c] = "idle" /\ c # s
      /\ fired' = [fired EXCEPT ![got[s]] = @ + 1]
      /\ resume' = [resume EXCEPT ![s] = FALSE]
      /\ UNCHANGED <<list, local, got, fields, owner, arg, uses, moves, target, released,
                     relocated, resumed>>
      /\ canceled' \in [Source -> BOOLEAN]
      /\ phase' \in [Source -> {"idle", "swap", "fire", "call", "nested", "arm", "exec", "done"}]
      /\ \A t \in Source :
            /\ canceled'[t] <=> (t = c \/ canceled[t])
            /\ phase'[t] = IF t = s THEN "nested" ELSE IF t = c THEN "swap" ELSE phase[t]
  <2>1. Link[got[s]] \in Source BY <1>a DEF c
  <2> QED BY <1>a, <1>b, <2>1 DEF Inv, CancellationTypeOK
<1>f. \A t \in Source : phase'[t] \in Busy <=> phase[t] \in Busy BY <1>c DEF Busy
<1>w. \A t \in Source, x \in Reg : Waiting(t, x)' <=> Waiting(t, x)
  BY <1>c, <1>e, <1>f DEF Waiting, Firing
<1>1. CancellationTypeOK'
  <2>1. fired' \in [Sub -> Nat] /\ resume' \in [Source -> BOOLEAN]
    BY <1>c DEF Inv, CancellationTypeOK
  <2> QED BY <1>c, <2>1 DEF Inv, CancellationTypeOK, fields
<1>2. Indexed' BY <1>e, <1>c DEF Inv, Indexed, CancellationTypeOK, fields
<1>3. Phases'
  <2>1. ASSUME NEW t \in Source, t # s, t # c PROVE canceled'[t] <=> canceled[t]
    BY <1>c, <2>1
  <2>2. \A t \in Source : t # s /\ t # c => phase'[t] = phase[t] BY <1>c
  <2>3. phase'[s] = "nested" /\ canceled'[s] /\ phase'[c] = "swap" /\ canceled'[c]
        /\ canceled[s] /\ local[s] # <<>> /\ list[s] = <<>> /\ local[c] = <<>>
    BY <1>c DEF Inv, Phases, Busy
  <2> QED BY <1>c, <2>1, <2>2, <2>3 DEF Inv, Phases, Busy, fields
<1>4. Apart' BY <1>e, <1>c DEF Inv, Apart, CancellationTypeOK, fields
<1>5. Stages' BY <1>e, <1>c DEF Inv, Stages, CancellationTypeOK, fields
<1>6. Places' BY <1>e, <1>c DEF Inv, Places, CancellationTypeOK, Stages, fields
<1>7. OneHolder' BY <1>e, <1>c DEF Inv, OneHolder, CancellationTypeOK, Moves, Stages, fields
<1>8. Replaced' BY <1>e, <1>c DEF Inv, Replaced, fields
<1>9. Unknown' BY <1>e, <1>c DEF Inv, Unknown, CancellationTypeOK, Stages, fields
<1>10. Alone'
  <2>1. \A k \in Sub : k # got[s] => fired'[k] = fired[k] BY <1>c DEF Inv, CancellationTypeOK
  <2> QED BY <1>c, <2>1 DEF Inv, Alone, fields
<1>11. FireRights'
  <2>1. \A k \in Sub : fired'[k] = IF k = got[s] THEN fired[k] + 1 ELSE fired[k]
    BY <1>c DEF Inv, CancellationTypeOK
  <2>2. \A t \in Source : (phase[t] = "call" => got[t] \in Sub) /\ (phase'[t] = "call"
        => phase[t] = "call" /\ t # s)
    BY <1>c DEF Inv, Phases
  <2>3. \A x \in Reg : sub[x] # None => sub[x] \in Sub
    BY DEF Inv, CancellationTypeOK
  <2> QED BY <1>c, <1>w, <2>1, <2>2, <2>3 DEF Inv, FireRights, fields
<1>12. ResumeRights' BY <1>e, <1>c DEF Inv, ResumeRights, fields
<1>13. Counted'
  BY <1>e, <1>c DEF Inv, Counted, CancellationTypeOK, Stages, Phases, FireRights, fields
<1>14. Kept' BY <1>e, <1>c DEF Inv, Kept, CancellationTypeOK, Stages, fields
<1>15. Coming'
  BY <1>e, <1>w, <1>c DEF Inv, Coming, CancellationTypeOK, Stages, Phases, Reached, FireRights,
       fields
<1> QED BY <1>1, <1>2, <1>3, <1>4, <1>5, <1>6, <1>7, <1>8, <1>9, <1>10, <1>11, <1>12, <1>13,
     <1>14, <1>15 DEF Inv

\* The Cancel() of the child has returned.
LEMMA FireLinkedKeeps ==
    ASSUME Inv, MaxUses = 1, NEW s \in Source, FireLinked(s)
    PROVE  Inv'
<1> USE NoneAssumption, LinkAssumption, ResumesAssumption
<1>e. \A t \in Source : Listed(t)' = Listed(t) /\ Taken(t)' = Taken(t)
  BY DEF FireLinked, Phase, fields, history, Listed, Taken
<1>w. \A t \in Source, x \in Reg : Waiting(t, x)' <=> Waiting(t, x)
  BY <1>e DEF Inv, Waiting, Firing, Busy, Phases, CancellationTypeOK, FireLinked, Phase, fields,
       history
<1>1. CancellationTypeOK'
  BY <1>e DEF Inv, CancellationTypeOK, Phases, Stages, FireLinked, Phase, fields, history
<1>2. Indexed' BY <1>e DEF Inv, Indexed, CancellationTypeOK, FireLinked, Phase, fields, history
<1>3. Phases'
  BY <1>e, SMTT(30) DEF Inv, Phases, CancellationTypeOK, Busy, FireLinked, Phase, fields, history
<1>4. Apart' BY <1>e DEF Inv, Apart, CancellationTypeOK, FireLinked, Phase, fields, history
<1>5. Stages' BY <1>e DEF Inv, Stages, CancellationTypeOK, FireLinked, Phase, fields, history
<1>6. Places'
  BY <1>e DEF Inv, Places, CancellationTypeOK, Stages, FireLinked, Phase, fields, history
<1>7. OneHolder'
  BY <1>e DEF Inv, OneHolder, CancellationTypeOK, Moves, Stages, FireLinked, Phase, fields, history
<1>8. Replaced'
  BY <1>e DEF Inv, Replaced, CancellationTypeOK, Stages, Places, FireLinked, Phase, fields, history
<1>9. Unknown'
  BY <1>e DEF Inv, Unknown, CancellationTypeOK, Stages, FireLinked, Phase, fields, history
<1>10. Alone'
  BY <1>e DEF Inv, Alone, CancellationTypeOK, Stages, FireLinked, Phase, fields, history
<1>11. FireRights'
  BY <1>e, <1>w DEF Inv, FireRights, CancellationTypeOK, Stages, Phases, FireLinked, Phase,
       fields, history
<1>12. ResumeRights'
  BY <1>e DEF Inv, ResumeRights, CancellationTypeOK, Stages, FireLinked, Phase, fields, history
<1>13. Counted'
  BY <1>e DEF Inv, Counted, CancellationTypeOK, Stages, Phases, FireLinked, Phase, fields, history
<1>14. Kept' BY <1>e DEF Inv, Kept, CancellationTypeOK, Stages, FireLinked, Phase, fields, history
<1>15. Coming'
  BY <1>e, <1>w DEF Inv, Coming, CancellationTypeOK, Stages, Phases, Reached, FireLinked, Phase,
       fields, history
<1> QED BY <1>1, <1>2, <1>3, <1>4, <1>5, <1>6, <1>7, <1>8, <1>9, <1>10, <1>11, <1>12, <1>13,
     <1>14, <1>15 DEF Inv

\* The compare_exchange fails, or nothing is to be resumed.
LEMMA FireArmedPassKeeps ==
    ASSUME Inv, MaxUses = 1, NEW s \in Source, FireArmed(s), ~(armed[Head(local[s])] /\ resume[s])
    PROVE  Inv'
<1> USE NoneAssumption, LinkAssumption, ResumesAssumption
<1> DEFINE h == Head(local[s])
<1>h. h \in Taken(s) /\ h \in Reg /\ local[s] # <<>>
      /\ Tail(local[s]) \in Seq(Reg) /\ Once(Tail(local[s]))
      /\ Elements(Tail(local[s])) = Taken(s) \ {h}
  BY FiringTaken DEF Inv, FireArmed, Phases, Busy
<1> HIDE DEF h
<1>c. /\ phase[s] = "arm" /\ h \in Taken(s) /\ h \in Reg /\ ~(armed[h] /\ resume[s])
      /\ phase' = [phase EXCEPT ![s] = "fire"]
      /\ local' = [local EXCEPT ![s] = Tail(local[s])]
      /\ armed' = [armed EXCEPT ![h] = FALSE]
      /\ UNCHANGED <<canceled, list, got, resume, state, sub, silent, index, owner, arg, uses,
                     moves, target, released, relocated, fired, resumed>>
  BY <1>h DEF FireArmed, Phase, history, h
<1>l. \A t \in Source : local'[t] = IF t = s THEN Tail(local[s]) ELSE local[t]
  BY <1>c DEF Inv, CancellationTypeOK
<1>e. /\ \A t \in Source : Listed(t)' = Listed(t)
      /\ \A t \in Source : Taken(t)' = IF t = s THEN Taken(s) \ {h} ELSE Taken(t)
  <2>1. ASSUME NEW t \in Source, t # s PROVE Taken(t)' = Taken(t)
    BY <1>l, <2>1 DEF Taken
  <2>2. Taken(s)' = Taken(s) \ {h} BY <1>h, <1>l DEF Taken
  <2> QED BY <1>c, <2>1, <2>2 DEF Listed
<1>w. \A t \in Source, x \in Reg : Waiting(t, x)' <=> Waiting(t, x)
  BY <1>c, <1>l, <1>e DEF Inv, Waiting, Firing, Busy, CancellationTypeOK, h
<1>m. \A t \in Source, x \in Reg : (x \in Listed(t)' <=> x \in Listed(t)) /\ (x \in Taken(t)'
      => x \in Taken(t))
  BY <1>e
<1>n. ASSUME NEW t \in Source, t # s, phase[t] \in Busy
    PROVE Head(local[t]) # h /\ Head(local[t]) \in Taken(t) /\ Head(local[t]) \in Reg
  BY <1>h, <1>n, FiringTaken DEF Inv, Phases, Apart
<1>1. CancellationTypeOK' BY <1>e, <1>h, <1>c DEF Inv, CancellationTypeOK
<1>2. Indexed' BY <1>e, <1>l, <1>h, <1>c DEF Inv, Indexed, CancellationTypeOK
<1>3. Phases' BY <1>e, <1>l, <1>c DEF Inv, Phases, CancellationTypeOK, Busy
<1>4. Apart' BY <1>m DEF Inv, Apart
<1>5. Stages' BY <1>e, <1>c DEF Inv, Stages, CancellationTypeOK, Places
<1>6. Places' BY <1>c, <1>m DEF Inv, Places
<1>7. OneHolder' BY <1>e, <1>c DEF Inv, OneHolder, CancellationTypeOK, Moves, Stages
<1>8. Replaced' BY <1>c, <1>m DEF Inv, Replaced, Stages
<1>9. Unknown' BY <1>e, <1>c DEF Inv, Unknown, CancellationTypeOK, Stages
<1>10. Alone' BY <1>e, <1>c DEF Inv, Alone, CancellationTypeOK, Stages
<1>11. FireRights' BY <1>e, <1>w, <1>c DEF Inv, FireRights, CancellationTypeOK, Stages, Phases
<1>12. ResumeRights' BY <1>e, <1>l, <1>c DEF Inv, ResumeRights, CancellationTypeOK, Stages
<1>13. Counted' BY <1>e, <1>c DEF Inv, Counted, CancellationTypeOK, Stages, Phases
<1>14. Kept' BY <1>e, <1>c DEF Inv, Kept, CancellationTypeOK, Stages
<1>15. Coming'
  <2> SUFFICES ASSUME NEW x \in Reg, owner[x] = "held", sub[x] \notin relocated
      PROVE Reached(x, sub[x], state[x])'
    BY <1>c DEF Coming
  <2>1. Reached(x, sub[x], state[x]) /\ state[x] \in Source /\ sub[x] \in Sub
    BY DEF Inv, Coming, Stages
  <2>2. \A t \in Source : IF t = s THEN phase[t] = "arm" ELSE phase'[t] = phase[t]
        /\ local'[t] = local[t]
    BY <1>c, <1>l DEF Inv, CancellationTypeOK
  <2>3. CASE x = h
    <3>1. state[x] = s BY <1>c, <2>1, <2>3 DEF Inv, Places, Stages
    <3>2. ~Waiting(s, h) BY <1>c DEF Inv, Waiting, Firing, Busy, h, Apart
    <3> QED BY <1>c, <2>1, <2>2, <2>3, <3>1, <3>2 DEF Reached, h
  <2>4. CASE x # h
    <3>1. armed'[x] = armed[x] BY <1>c, <2>4 DEF Inv, CancellationTypeOK
    <3> QED BY <1>c, <1>w, <2>1, <2>2, <2>4, <3>1 DEF Reached, h
  <2> QED BY <2>3, <2>4
<1> QED BY <1>1, <1>2, <1>3, <1>4, <1>5, <1>6, <1>7, <1>8, <1>9, <1>10, <1>11, <1>12, <1>13,
     <1>14, <1>15 DEF Inv

\* The right to resume passes from m_armed to the call of Fire().
LEMMA FireArmedExecuteKeeps ==
    ASSUME Inv, MaxUses = 1, NEW s \in Source, FireArmed(s), armed[Head(local[s])] /\ resume[s]
    PROVE  Inv'
<1> USE NoneAssumption, LinkAssumption, ResumesAssumption
<1> DEFINE h == Head(local[s])
<1>h. h \in Taken(s) /\ h \in Reg /\ local[s] # <<>>
      /\ Tail(local[s]) \in Seq(Reg) /\ Once(Tail(local[s]))
      /\ Elements(Tail(local[s])) = Taken(s) \ {h}
  BY FiringTaken DEF Inv, FireArmed, Phases, Busy
<1> HIDE DEF h
<1>c. /\ phase[s] = "arm" /\ h \in Taken(s) /\ h \in Reg /\ armed[h] /\ local[s] # <<>>
      /\ phase' = [phase EXCEPT ![s] = "exec"]
      /\ armed' = [armed EXCEPT ![h] = FALSE]
      /\ UNCHANGED <<canceled, list, local, got, resume, state, sub, silent, index, owner, arg,
                     uses, moves, target, released, relocated, fired, resumed>>
  BY <1>h DEF FireArmed, Phase, history, h
<1>e. \A t \in Source : Listed(t)' = Listed(t) /\ Taken(t)' = Taken(t)
  BY <1>c DEF Listed, Taken
<1>w. \A t \in Source, x \in Reg : Waiting(t, x)' <=> Waiting(t, x)
  BY <1>c, <1>e DEF Inv, Waiting, Firing, Busy, CancellationTypeOK
<1>1. CancellationTypeOK' BY <1>e, <1>c DEF Inv, CancellationTypeOK
<1>2. Indexed' BY <1>e, <1>c DEF Inv, Indexed, CancellationTypeOK
<1>3. Phases' BY <1>e, SMTT(30), <1>c DEF Inv, Phases, CancellationTypeOK, Busy
<1>4. Apart' BY <1>e, <1>c DEF Inv, Apart, CancellationTypeOK
<1>5. Stages' BY <1>e, <1>c DEF Inv, Stages, CancellationTypeOK, Places
<1>6. Places' BY <1>e, <1>c DEF Inv, Places, CancellationTypeOK, Stages
<1>7. OneHolder' BY <1>e, <1>c DEF Inv, OneHolder, CancellationTypeOK, Moves, Stages
<1>8. Replaced' BY <1>e, <1>c DEF Inv, Replaced, CancellationTypeOK, Stages, Places
<1>9. Unknown' BY <1>e, <1>c DEF Inv, Unknown, CancellationTypeOK, Stages
<1>10. Alone' BY <1>e, <1>c DEF Inv, Alone, CancellationTypeOK, Stages
<1>11. FireRights' BY <1>e, <1>w, <1>c DEF Inv, FireRights, CancellationTypeOK, Stages, Phases
<1>12. ResumeRights'
  <2>1. \A x \in Reg : armed'[x] => armed[x] /\ x # h BY <1>c DEF Inv, CancellationTypeOK
  <2>2. \A t \in Source : phase'[t] = "exec" => t = s \/ phase[t] = "exec" BY <1>c DEF Inv,
       CancellationTypeOK
  <2>3. \A x \in Reg : armed[x] /\ x # h => sub[x] # sub[h]
    BY <1>c DEF Inv, OneHolder, Moves, Stages
  <2> QED BY <1>c, <2>1, <2>2, <2>3 DEF Inv, ResumeRights, h
<1>13. Counted' BY <1>e, <1>c DEF Inv, Counted, CancellationTypeOK, Stages, Phases
<1>14. Kept' BY <1>e, <1>c DEF Inv, Kept, CancellationTypeOK, Stages
<1>15. Coming'
  <2> SUFFICES ASSUME NEW x \in Reg, owner[x] = "held", sub[x] \notin relocated
      PROVE Reached(x, sub[x], state[x])'
    BY <1>c DEF Coming
  <2>1. Reached(x, sub[x], state[x]) /\ state[x] \in Source /\ sub[x] \in Sub
    BY DEF Inv, Coming, Stages
  <2>2. \A t \in Source : IF t = s THEN phase[t] = "arm" ELSE phase'[t] = phase[t]
        /\ local'[t] = local[t]
    BY <1>c DEF Inv, CancellationTypeOK
  <2>3. CASE x = h
    <3>1. state[x] = s BY <1>c, <2>1, <2>3 DEF Inv, Places, Stages
    <3>2. ~Waiting(s, h) BY <1>c DEF Inv, Waiting, Firing, Busy, h, Apart
    <3>3. phase'[s] = "exec" BY <1>c DEF Inv, CancellationTypeOK
    <3> QED BY <1>c, <2>1, <2>2, <2>3, <3>1, <3>2, <3>3 DEF Reached, h
  <2>4. CASE x # h
    <3>1. armed'[x] = armed[x] BY <1>c, <2>4 DEF Inv, CancellationTypeOK
    <3> QED BY <1>c, <1>w, <2>1, <2>2, <2>4, <3>1 DEF Reached, h
  <2> QED BY <2>3, <2>4
<1> QED BY <1>1, <1>2, <1>3, <1>4, <1>5, <1>6, <1>7, <1>8, <1>9, <1>10, <1>11, <1>12, <1>13,
     <1>14, <1>15 DEF Inv

\* The handle is resumed.
LEMMA FireExecuteKeeps ==
    ASSUME Inv, MaxUses = 1, NEW s \in Source, FireExecute(s)
    PROVE  Inv'
<1> USE NoneAssumption, LinkAssumption, ResumesAssumption
<1> DEFINE h == Head(local[s])
<1>h. h \in Taken(s) /\ h \in Reg /\ local[s] # <<>>
      /\ Tail(local[s]) \in Seq(Reg) /\ Once(Tail(local[s]))
      /\ Elements(Tail(local[s])) = Taken(s) \ {h}
  BY FiringTaken DEF Inv, FireExecute, Phases, Busy
<1> HIDE DEF h
<1>c. /\ phase[s] = "exec" /\ h \in Taken(s) /\ h \in Reg
      /\ phase' = [phase EXCEPT ![s] = "fire"]
      /\ local' = [local EXCEPT ![s] = Tail(local[s])]
      /\ resumed' = IF sub[h] \in Resumes THEN [resumed EXCEPT ![sub[h]] = @ + 1] ELSE resumed
      /\ UNCHANGED <<canceled, list, got, resume, state, sub, silent, index, armed, owner, arg,
                     uses, moves, target, released, relocated, fired>>
  BY <1>h DEF FireExecute, Phase, Count, fields, h
<1>l. \A t \in Source : local'[t] = IF t = s THEN Tail(local[s]) ELSE local[t]
  BY <1>c DEF Inv, CancellationTypeOK
<1>e. /\ \A t \in Source : Listed(t)' = Listed(t)
      /\ \A t \in Source : Taken(t)' = IF t = s THEN Taken(s) \ {h} ELSE Taken(t)
  <2>1. ASSUME NEW t \in Source, t # s PROVE Taken(t)' = Taken(t)
    BY <1>l, <2>1 DEF Taken
  <2>2. Taken(s)' = Taken(s) \ {h} BY <1>h, <1>l DEF Taken
  <2> QED BY <1>c, <2>1, <2>2 DEF Listed
<1>w. \A t \in Source, x \in Reg : Waiting(t, x)' <=> Waiting(t, x)
  BY <1>c, <1>l, <1>e DEF Inv, Waiting, Firing, Busy, CancellationTypeOK, h
<1>m. \A t \in Source, x \in Reg : (x \in Listed(t)' <=> x \in Listed(t)) /\ (x \in Taken(t)'
      => x \in Taken(t))
  BY <1>e
<1>n. ASSUME NEW t \in Source, t # s, phase[t] \in Busy
    PROVE Head(local[t]) # h /\ Head(local[t]) \in Taken(t) /\ Head(local[t]) \in Reg
  BY <1>h, <1>n, FiringTaken DEF Inv, Phases, Apart
<1>k. sub[h] \in Resumes => /\ sub[h] \in Sub /\ sub[h] # None /\ target[sub[h]] = s /\ canceled[s]
                             /\ resumed[sub[h]] = 0 /\ \A q \in Reg : armed[q] => sub[q] # sub[h]
  BY <1>c DEF Inv, Places, Phases, ResumeRights, h
<1>r. \A k \in Sub : resumed'[k] = IF k = sub[h] /\ k \in Resumes THEN 1 ELSE resumed[k]
  BY <1>c, <1>k DEF Inv, CancellationTypeOK
<1>1. CancellationTypeOK'
  <2>1. local' \in [Source -> Seq(Reg)] BY <1>c, <1>h DEF Inv, CancellationTypeOK
  <2>2. phase' \in [Source -> {"idle", "swap", "fire", "call", "nested", "arm", "exec", "done"}]
    BY <1>c DEF Inv, CancellationTypeOK
  <2>3. resumed' \in [Sub -> Nat] BY <1>c, <1>k DEF Inv, CancellationTypeOK
  <2> QED BY <1>c, <2>1, <2>2, <2>3 DEF Inv, CancellationTypeOK
<1>2. Indexed' BY <1>e, <1>l, <1>h, <1>c DEF Inv, Indexed, CancellationTypeOK
<1>3. Phases' BY <1>e, <1>l, <1>c DEF Inv, Phases, CancellationTypeOK, Busy
<1>4. Apart' BY <1>m DEF Inv, Apart
<1>5. Stages' BY <1>e, <1>c DEF Inv, Stages, CancellationTypeOK
<1>6. Places' BY <1>c, <1>m DEF Inv, Places
<1>7. OneHolder' BY <1>e, <1>c DEF Inv, OneHolder, CancellationTypeOK, Moves, Stages
<1>8. Replaced' BY <1>c, <1>m DEF Inv, Replaced, Stages
<1>9. Unknown' BY <1>c, <1>k, <1>r DEF Inv, Unknown
<1>10. Alone' BY <1>c, <1>k, <1>r DEF Inv, Alone, Stages, Places
<1>11. FireRights' BY <1>e, <1>w, <1>c DEF Inv, FireRights, CancellationTypeOK, Stages, Phases
<1>12. ResumeRights'
  <2>1. \A t \in Source : phase'[t] = "exec" => t # s /\ phase[t] = "exec" /\ local'[t] = local[t]
    BY <1>c, <1>l DEF Inv, CancellationTypeOK
  <2>2. ASSUME NEW t \in Source, t # s, phase[t] = "exec", sub[h] # None
      PROVE sub[Head(local[t])] # sub[h]
    BY <1>c, <1>n, <2>2 DEF Inv, OneHolder, Moves, Places, Replaced, Busy
  <2>3. \A q \in Reg : (sub[q] # None => sub[q] \in Sub) /\ (armed[q] => sub[q] \in Sub)
    BY DEF Inv, CancellationTypeOK, Stages
  <2> QED BY <1>c, <1>k, <1>r, <2>1, <2>2, <2>3 DEF Inv, ResumeRights
<1>13. Counted' BY <1>c, <1>k, <1>r DEF Inv, Counted, CancellationTypeOK
<1>14. Kept' BY <1>e, <1>c DEF Inv, Kept, CancellationTypeOK, Stages
<1>15. Coming'
  <2> SUFFICES ASSUME NEW x \in Reg, owner[x] = "held", sub[x] \notin relocated
      PROVE Reached(x, sub[x], state[x])'
    BY <1>c DEF Coming
  <2>1. Reached(x, sub[x], state[x]) /\ state[x] \in Source /\ sub[x] \in Sub
    BY DEF Inv, Coming, Stages
  <2>2. \A t \in Source : IF t = s THEN phase[t] = "exec" ELSE phase'[t] = phase[t]
        /\ local'[t] = local[t]
    BY <1>c, <1>l DEF Inv, CancellationTypeOK
  <2>3. resumed[sub[x]] = 1 => resumed'[sub[x]] = 1 BY <1>r, <2>1
  <2>4. sub[x] \in silent /\ x = h => resumed'[sub[x]] = 1 BY <1>r, <2>1 DEF Inv, CancellationTypeOK
  <2> QED BY <1>c, <1>w, <2>1, <2>2, <2>3, <2>4 DEF Reached, h
<1> QED BY <1>1, <1>2, <1>3, <1>4, <1>5, <1>6, <1>7, <1>8, <1>9, <1>10, <1>11, <1>12, <1>13,
     <1>14, <1>15 DEF Inv

-----------------------------------------------------------------------------
(* Every step keeps the invariant: Register()                               *)

\* A new subscription, which nobody knows, is put in an unused object.
LEMMA RegisterKeeps ==
    ASSUME Inv, MaxUses = 1, NEW r \in Reg, NEW k \in Sub, NEW t \in Source, Register(r, k, t)
    PROVE  Inv'
<1> USE NoneAssumption, LinkAssumption, ResumesAssumption
<1>e. \A s \in Source : Listed(s)' = Listed(s) /\ Taken(s)' = Taken(s)
  BY DEF Register, sources, Listed, Taken
<1>c. /\ owner[r] = "empty" /\ uses[r] = 0 /\ target[k] = None
      /\ state' = [state EXCEPT ![r] = t]
      /\ sub' = [sub EXCEPT ![r] = k]
      /\ silent' \subseteq silent \cup ({k} \cap Resumes) /\ silent \subseteq silent'
      /\ armed' = [armed EXCEPT ![r] = TRUE]
      /\ uses' = [uses EXCEPT ![r] = 1]
      /\ target' = [target EXCEPT ![k] = t]
      /\ owner' = [owner EXCEPT ![r] = "filled"]
      /\ UNCHANGED <<canceled, list, phase, local, got, resume, index, arg, moves, released,
                     relocated, fired, resumed>>
  <2>1. uses[r] \in 0..1 /\ uses[r] < 1 BY DEF Inv, Register, CancellationTypeOK
  <2>2. silent' \subseteq silent \cup ({k} \cap Resumes) /\ silent \subseteq silent'
    BY DEF Register
  <2>4. uses[r] = 0 BY <2>1
  <2>3. uses' = [uses EXCEPT ![r] = 1] BY <2>4 DEF Inv, Register, Count, CancellationTypeOK
  <2> QED BY <2>4, <2>2, <2>3 DEF Register, Owner, sources
<1>k. /\ \A x \in Reg : sub[x] # k /\ (owner[x] \in {"refused", "nested"} => arg[x] # k)
      /\ \A s \in Source : r \notin Listed(s) /\ r \notin Taken(s)
      /\ ~armed[r]
      /\ fired[k] = 0 /\ resumed[k] = 0 /\ k \notin relocated /\ k \notin silent
      /\ \A s \in Source : got[s] # k
  <2>1. ASSUME NEW x \in Reg PROVE sub[x] # k /\ (owner[x] \in {"refused", "nested"} => arg[x] # k)
    <3>1. owner[x] \in {"empty", "filled", "refused", "nested", "held", "disarmed",
                        "unregistered", "moving", "moved", "finishing"}
      BY DEF Inv, CancellationTypeOK
    <3>2. sub[x] = None \/ target[sub[x]] \in Source BY <3>1 DEF Inv, Stages
    <3>3. owner[x] \in {"refused", "nested"} => target[arg[x]] \in Source BY DEF Inv, Stages
    <3> QED BY <1>c, <3>2, <3>3
  <2>2. \A s \in Source : r \notin Listed(s) /\ r \notin Taken(s) BY <1>c DEF Inv, Places
  <2>3. ~armed[r] BY <1>c DEF Inv, Stages
  <2> QED BY <1>c, <2>1, <2>2, <2>3 DEF Inv, Unknown
<1>w. \A s \in Source, x \in Reg : Waiting(s, x)' <=> Waiting(s, x)
  BY <1>c, <1>e DEF Waiting, Firing
<1>1. CancellationTypeOK' BY <1>e, UsesAssumption, <1>c DEF Inv, CancellationTypeOK
<1>2. Indexed' BY <1>c DEF Inv, Indexed
<1>3. Phases' BY <1>e, <1>k, <1>c DEF Inv, Phases, CancellationTypeOK, Busy
<1>4. Apart' BY <1>e, <1>c DEF Inv, Apart, CancellationTypeOK
<1>5. Stages' BY <1>e, <1>k, <1>c DEF Inv, Stages, CancellationTypeOK
<1>6. Places' BY <1>e, <1>k, <1>c DEF Inv, Places, CancellationTypeOK, Stages
<1>7. OneHolder' BY <1>e, <1>k, <1>c DEF Inv, OneHolder, CancellationTypeOK, Moves, Stages
<1>8. Replaced' BY <1>e, <1>k, <1>c DEF Inv, Replaced, Stages, Places
<1>9. Unknown' BY <1>e, <1>k, <1>c DEF Inv, Unknown, CancellationTypeOK, Stages
<1>10. Alone' BY <1>e, <1>k, <1>c DEF Inv, Alone, CancellationTypeOK, Stages
<1>11. FireRights'
  BY <1>e, <1>k, <1>w, <1>c DEF Inv, FireRights, CancellationTypeOK, Stages, Phases
<1>12. ResumeRights'
  <2>1. \A x \in Reg : IF x = r THEN sub'[x] = k /\ armed'[x] ELSE sub'[x] = sub[x]
        /\ (armed'[x] <=> armed[x])
    BY <1>c DEF Inv, CancellationTypeOK
  <2>2. \A s \in Source : phase[s] = "exec" => r # Head(local[s])
    BY <1>k, FiringTaken DEF Inv, Phases, Busy
  <2> QED BY <1>c, <1>k, <2>1, <2>2 DEF Inv, ResumeRights, Stages
<1>13. Counted' BY <1>e, <1>k, <1>c DEF Inv, Counted, CancellationTypeOK, Stages, Phases
<1>14. Kept' BY <1>e, <1>k, <1>c DEF Inv, Kept, CancellationTypeOK, Stages
<1>15. Coming'
  BY <1>e, <1>k, <1>w, <1>c DEF Inv, Coming, CancellationTypeOK, Stages, Phases, Reached
<1> QED BY <1>1, <1>2, <1>3, <1>4, <1>5, <1>6, <1>7, <1>8, <1>9, <1>10, <1>11, <1>12, <1>13,
     <1>14, <1>15 DEF Inv

\* TryRegister() appends the object.
LEMMA AcceptKeeps ==
    ASSUME Inv, MaxUses = 1, NEW r \in Reg, TryRegister(r), ~canceled[state[r]]
    PROVE  Inv'
<1> USE NoneAssumption, LinkAssumption, ResumesAssumption
<1>a. PICK s \in Source : s = state[r] /\ list[s] \in Seq(Reg) /\ owner[r] = "filled"
  BY DEF Inv, TryRegister, TryRegisterIf, Stages, CancellationTypeOK
<1>c. /\ owner[r] = "filled" /\ s = state[r] /\ s \in Source /\ ~canceled[s]
         /\ phase[s] = "idle" /\ armed[r]
      /\ list' = [list EXCEPT ![s] = Append(list[s], r)]
      /\ index' = [index EXCEPT ![r] = Len(list[s]) + 1]
      /\ owner' = [owner EXCEPT ![r] = "held"]
      /\ UNCHANGED <<canceled, phase, local, got, resume, state, sub, silent, armed, arg, uses,
                     moves, target, released, relocated, fired, resumed>>
  BY <1>a DEF Inv, TryRegister, TryRegisterIf, Accept, Size, Owner, history, Phases, Stages
<1>l. /\ \A t \in Source : list'[t] = IF t = s THEN Append(list[s], r) ELSE list[t]
      /\ Append(list[s], r) \in Seq(Reg) /\ Len(Append(list[s], r)) = Len(list[s]) + 1
      /\ Elements(Append(list[s], r)) = Listed(s) \cup {r}
      /\ Append(list[s], r)[Len(list[s]) + 1] = r
      /\ \A n \in 1..Len(list[s]) : Append(list[s], r)[n] = list[s][n]
  BY <1>a, <1>c, ElementsAppend DEF Inv, Listed, CancellationTypeOK
<1>e. /\ \A t \in Source : Taken(t)' = Taken(t)
      /\ \A t \in Source : Listed(t)' = IF t = s THEN Listed(s) \cup {r} ELSE Listed(t)
  <2>1. ASSUME NEW t \in Source, t # s PROVE Listed(t)' = Listed(t)
    BY <1>l, <2>1 DEF Listed
  <2>2. Listed(s)' = Listed(s) \cup {r} BY <1>a, <1>l DEF Listed
  <2> QED BY <1>c, <2>1, <2>2 DEF Taken
<1>p. \A t \in Source : r \notin Listed(t) /\ r \notin Taken(t)
  BY <1>c DEF Inv, Places
<1>w. \A t \in Source, x \in Reg : Waiting(t, x)' <=> Waiting(t, x) \/ (t = s /\ x = r)
  BY <1>c, <1>e, <1>p DEF Waiting, Firing
<1>1. CancellationTypeOK' BY <1>e, <1>l, <1>c DEF Inv, CancellationTypeOK
<1>2. Indexed'
  <2>1. ASSUME NEW t \in Source, NEW n \in 1..Len(list'[t]) PROVE index'[list'[t][n]] = n
    <3>1. CASE t = s /\ n = Len(list[s]) + 1 BY <1>c, <1>l, <3>1 DEF Inv, CancellationTypeOK
    <3>2. CASE ~(t = s /\ n = Len(list[s]) + 1)
      <4>1. n \in 1..Len(list[t]) /\ list'[t][n] = list[t][n]
        <5>1. CASE t = s
          <6>1. list'[t] = Append(list[s], r) BY <1>l, <5>1
          <6>2. n \in 1..(Len(list[s]) + 1) /\ n # Len(list[s]) + 1 /\ Len(list[s]) \in Nat
            BY <1>a, <1>l, <3>2, <5>1, <6>1
          <6>3. n \in 1..Len(list[s]) BY <6>2
          <6> QED BY <1>l, <5>1, <6>1, <6>3
        <5>2. CASE t # s BY <1>l, <5>2
        <5> QED BY <5>1, <5>2
      <4>2. list[t][n] # r /\ list[t][n] \in Reg BY <1>p, <4>1, EntryListed DEF Inv
      <4> QED BY <1>c, <4>1, <4>2 DEF Inv, Indexed, CancellationTypeOK
    <3> QED BY <3>1, <3>2
  <2> QED BY <1>c, <2>1 DEF Inv, Indexed
<1>3. Phases' BY <1>e, <1>l, <1>c DEF Inv, Phases, CancellationTypeOK, Busy
<1>4. Apart' BY <1>e, <1>p, <1>c DEF Inv, Apart
<1>5. Stages' BY <1>e, <1>c DEF Inv, Stages, CancellationTypeOK
<1>6. Places'
  <2>1. \A t \in Source, x \in Reg : x \in Listed(t)' => x \in Listed(t) \/ (x = r /\ t = s) BY <1>e
  <2>2. \A t \in Source, x \in Reg : x \in Taken(t)' => x \in Taken(t) /\ x # r BY <1>e, <1>p
  <2>3. \A x \in Reg : owner'[x] = IF x = r THEN "held" ELSE owner[x] BY <1>c DEF Inv,
       CancellationTypeOK
  <2>4. target[sub[r]] = s BY <1>c DEF Inv, Stages
  <2> QED BY <1>c, <2>1, <2>2, <2>3, <2>4 DEF Inv, Places
<1>7. OneHolder' BY <1>e, <1>c DEF Inv, OneHolder, CancellationTypeOK, Moves, Stages
<1>8. Replaced' BY <1>e, <1>p, <1>c DEF Inv, Replaced, Stages, Places
<1>9. Unknown' BY <1>e, <1>c DEF Inv, Unknown, CancellationTypeOK, Stages
<1>10. Alone' BY <1>e, <1>c DEF Inv, Alone, CancellationTypeOK, Stages
<1>11. FireRights'
  <2>1. fired[sub[r]] = 0 /\ \A t \in Source : got[t] # sub[r]
    BY <1>c DEF Inv, Alone, Stages
  <2> QED BY <1>c, <1>w, <2>1 DEF Inv, FireRights
<1>12. ResumeRights' BY <1>e, <1>c DEF Inv, ResumeRights, CancellationTypeOK, Stages
<1>13. Counted' BY <1>e, <1>c DEF Inv, Counted, CancellationTypeOK, Stages, Phases
<1>14. Kept'
  <2>1. \A t \in Source, x \in Reg : x \in Listed(t) => x \in Listed(t)' BY <1>e
  <2>2. r \in Listed(s)' BY <1>e
  <2>3. \A x \in Reg : owner'[x] = IF x = r THEN "held" ELSE owner[x] BY <1>c DEF Inv,
       CancellationTypeOK
  <2> QED BY <1>c, <2>1, <2>2, <2>3 DEF Inv, Kept, Stages
<1>15. Coming'
  BY <1>e, <1>p, <1>w, <1>c DEF Inv, Coming, CancellationTypeOK, Stages, Phases, Reached
<1> QED BY <1>1, <1>2, <1>3, <1>4, <1>5, <1>6, <1>7, <1>8, <1>9, <1>10, <1>11, <1>12, <1>13,
     <1>14, <1>15 DEF Inv

\* TryRegister() refuses: the right stays with the caller of Register().
LEMMA RefuseKeeps ==
    ASSUME Inv, MaxUses = 1, NEW r \in Reg, TryRegister(r), canceled[state[r]]
    PROVE  Inv'
<1> USE NoneAssumption, LinkAssumption, ResumesAssumption
<1>e. \A t \in Source : Listed(t)' = Listed(t) /\ Taken(t)' = Taken(t)
  BY DEF TryRegister, TryRegisterIf, Refuse, Listed, Taken
<1>c. /\ owner[r] = "filled"
      /\ arg' = [arg EXCEPT ![r] = sub[r]]
      /\ state' = [state EXCEPT ![r] = None]
      /\ sub' = [sub EXCEPT ![r] = None]
      /\ armed' = [armed EXCEPT ![r] = FALSE]
      /\ owner' = [owner EXCEPT ![r] = "refused"]
      /\ UNCHANGED <<canceled, list, phase, local, got, resume, silent, index, uses, moves,
                     target, released, relocated, fired, resumed>>
  BY DEF TryRegister, TryRegisterIf, Refuse, Owner, history
<1>w. \A t \in Source, x \in Reg : Waiting(t, x)' <=> Waiting(t, x)
  BY <1>c, <1>e DEF Waiting, Firing
<1>1. CancellationTypeOK' BY <1>e, <1>c DEF Inv, CancellationTypeOK
<1>2. Indexed' BY <1>e, <1>c DEF Inv, Indexed, CancellationTypeOK
<1>3. Phases' BY <1>e, <1>c DEF Inv, Phases, CancellationTypeOK, Busy
<1>4. Apart' BY <1>e, <1>c DEF Inv, Apart, CancellationTypeOK
<1>5. Stages' BY <1>e, <1>c DEF Inv, Stages, CancellationTypeOK
<1>6. Places' BY <1>e, <1>c DEF Inv, Places, CancellationTypeOK, Stages
<1>7. OneHolder' BY <1>e, <1>c DEF Inv, OneHolder, CancellationTypeOK, Moves, Stages
<1>8. Replaced' BY <1>e, <1>c DEF Inv, Replaced, CancellationTypeOK, Stages, Places
<1>9. Unknown' BY <1>e, <1>c DEF Inv, Unknown, CancellationTypeOK, Stages
<1>10. Alone' BY <1>e, <1>c DEF Inv, Alone, CancellationTypeOK, Stages, OneHolder, Moves
<1>11. FireRights' BY <1>e, <1>w, <1>c DEF Inv, FireRights, CancellationTypeOK, Stages, Phases
<1>12. ResumeRights' BY <1>e, <1>c DEF Inv, ResumeRights, CancellationTypeOK, Stages
<1>13. Counted' BY <1>e, <1>c DEF Inv, Counted, CancellationTypeOK, Stages, Phases
<1>14. Kept' BY <1>e, <1>c DEF Inv, Kept, CancellationTypeOK, Stages
<1>15. Coming' BY <1>e, <1>w, <1>c DEF Inv, Coming, CancellationTypeOK, Stages, Phases, Reached
<1> QED BY <1>1, <1>2, <1>3, <1>4, <1>5, <1>6, <1>7, <1>8, <1>9, <1>10, <1>11, <1>12, <1>13,
     <1>14, <1>15 DEF Inv

\* A refused Register() calls the callback itself.
LEMMA RefusedCallKeeps ==
    ASSUME Inv, MaxUses = 1, NEW r \in Reg, RefusedCall(r)
    PROVE  Inv'
<1> USE NoneAssumption, LinkAssumption, ResumesAssumption
<1>e. \A t \in Source : Listed(t)' = Listed(t) /\ Taken(t)' = Taken(t)
  BY DEF RefusedCall, Owner, Count, sources, fields, Listed, Taken
<1>w. \A t \in Source, x \in Reg : Waiting(t, x)' <=> Waiting(t, x)
  BY <1>e DEF Inv, Waiting, Firing, Busy, Phases, CancellationTypeOK, RefusedCall, Owner, Count,
       sources, fields
<1>1. CancellationTypeOK'

  <2>1. arg[r] \in Sub BY DEF Inv, RefusedCall, Stages
  <2>2. fired' \in [Sub -> Nat] /\ resumed' \in [Sub -> Nat]
    BY <2>1 DEF Inv, RefusedCall, Count, CancellationTypeOK
  <2> QED BY <2>2 DEF Inv, RefusedCall, Owner, sources, fields, CancellationTypeOK
<1>2. Indexed'
  BY <1>e DEF Inv, Indexed, CancellationTypeOK, RefusedCall, Owner, Count, sources, fields
<1>3. Phases'
  BY <1>e DEF Inv, Phases, CancellationTypeOK, Busy, RefusedCall, Owner, Count, sources, fields
<1>4. Apart'
  BY <1>e DEF Inv, Apart, CancellationTypeOK, RefusedCall, Owner, Count, sources, fields
<1>5. Stages'
  BY <1>e DEF Inv, Stages, CancellationTypeOK, RefusedCall, Owner, Count, sources, fields
<1>6. Places'
  BY <1>e DEF Inv, Places, CancellationTypeOK, Stages, RefusedCall, Owner, Count, sources, fields
<1>7. OneHolder'
  BY <1>e DEF Inv, OneHolder, CancellationTypeOK, Moves, Stages, RefusedCall, Owner, Count,
       sources, fields
<1>8. Replaced'
  BY <1>e DEF Inv, Replaced, CancellationTypeOK, RefusedCall, Owner, Count, sources, fields
<1>9. Unknown'
  BY <1>e DEF Inv, Unknown, CancellationTypeOK, Stages, RefusedCall, Owner, Count, sources, fields
<1>10. Alone'
  BY <1>e DEF Inv, Alone, CancellationTypeOK, Stages, RefusedCall, Owner, Count, sources, fields
<1>11. FireRights'
  BY <1>e, <1>w DEF Inv, FireRights, CancellationTypeOK, Stages, Phases, Alone, RefusedCall,
       Owner, Count, sources, fields
<1>12. ResumeRights'
  BY <1>e DEF Inv, ResumeRights, CancellationTypeOK, Stages, Alone, RefusedCall, Owner, Count,
       sources, fields
<1>13. Counted'
  BY <1>e DEF Inv, Counted, CancellationTypeOK, Stages, Phases, Alone, RefusedCall, Owner, Count,
       sources, fields
<1>14. Kept'
  BY <1>e DEF Inv, Kept, CancellationTypeOK, Stages, RefusedCall, Owner, Count, sources, fields
<1>15. Coming'
  BY <1>e, <1>w DEF Inv, Coming, CancellationTypeOK, Stages, Phases, Reached, Alone, RefusedCall,
       Owner, Count, sources, fields
<1> QED BY <1>1, <1>2, <1>3, <1>4, <1>5, <1>6, <1>7, <1>8, <1>9, <1>10, <1>11, <1>12, <1>13,
     <1>14, <1>15 DEF Inv

\* A refused link meets a child that is cancelled already.
LEMMA RefusedLinkAgainKeeps ==
    ASSUME Inv, MaxUses = 1, NEW r \in Reg, RefusedLink(r), canceled[Link[arg[r]]]
    PROVE  Inv'
<1> USE NoneAssumption, LinkAssumption, ResumesAssumption
<1>e. \A t \in Source : Listed(t)' = Listed(t) /\ Taken(t)' = Taken(t)
  BY DEF RefusedLink, Owner, Phase, Count, fields, Listed, Taken
<1>c. /\ arg[r] \in Sub /\ Link[arg[r]] \in Source /\ owner[r] = "refused"
      /\ canceled' = canceled /\ phase' = phase
      /\ fired' = [fired EXCEPT ![arg[r]] = @ + 1]
      /\ owner' = [owner EXCEPT ![r] = "empty"]
      /\ arg' = [arg EXCEPT ![r] = None]
      /\ UNCHANGED <<list, local, got, resume, fields, uses, moves, target, released, relocated,
                     resumed>>
  <2>1. arg[r] \in Sub /\ Link[arg[r]] \in Source BY DEF Inv, RefusedLink, Stages
  <2>2. [canceled EXCEPT ![Link[arg[r]]] = TRUE] = canceled BY <2>1 DEF Inv, CancellationTypeOK
  <2> QED BY <2>1, <2>2 DEF RefusedLink, Owner, Count
<1>f. \A t \in Source : phase'[t] \in Busy <=> phase[t] \in Busy BY <1>c DEF Inv, Busy,
     CancellationTypeOK, Phases
<1>w. \A t \in Source, x \in Reg : Waiting(t, x)' <=> Waiting(t, x)
  BY <1>c, <1>e, <1>f DEF Waiting, Firing
<1>1. CancellationTypeOK' BY <1>e, <1>c DEF Inv, CancellationTypeOK, fields
<1>2. Indexed' BY <1>e, <1>c DEF Inv, Indexed, CancellationTypeOK, fields
<1>3. Phases' BY <1>e, <1>c DEF Inv, Phases, CancellationTypeOK, Busy, fields
<1>4. Apart' BY <1>e, <1>c DEF Inv, Apart, CancellationTypeOK, fields
<1>5. Stages' BY <1>e, <1>c DEF Inv, Stages, CancellationTypeOK, fields
<1>6. Places' BY <1>e, <1>c DEF Inv, Places, CancellationTypeOK, Stages, fields
<1>7. OneHolder' BY <1>e, <1>c DEF Inv, OneHolder, CancellationTypeOK, Moves, Stages, fields
<1>8. Replaced' BY <1>e, <1>c DEF Inv, Replaced, CancellationTypeOK, fields
<1>9. Unknown' BY <1>e, <1>c DEF Inv, Unknown, CancellationTypeOK, Stages, fields
<1>10. Alone' BY <1>e, <1>c DEF Inv, Alone, CancellationTypeOK, Stages, fields
<1>11. FireRights'
  BY <1>e, <1>w, <1>c DEF Inv, FireRights, CancellationTypeOK, Stages, Phases, Alone, fields
<1>12. ResumeRights'
  BY <1>e, <1>c DEF Inv, ResumeRights, CancellationTypeOK, Stages, Alone, fields
<1>13. Counted' BY <1>e, <1>c DEF Inv, Counted, CancellationTypeOK, Stages, Phases, Alone, fields
<1>14. Kept' BY <1>e, <1>c DEF Inv, Kept, CancellationTypeOK, Stages, fields
<1>15. Coming'
  BY <1>e, <1>w, <1>c DEF Inv, Coming, CancellationTypeOK, Stages, Phases, Reached, Alone, fields
<1> QED BY <1>1, <1>2, <1>3, <1>4, <1>5, <1>6, <1>7, <1>8, <1>9, <1>10, <1>11, <1>12, <1>13,
     <1>14, <1>15 DEF Inv

\* A refused link cancels its child.
LEMMA RefusedLinkFirstKeeps ==
    ASSUME Inv, MaxUses = 1, NEW r \in Reg, RefusedLink(r), ~canceled[Link[arg[r]]]
    PROVE  Inv'
<1> USE NoneAssumption, LinkAssumption, ResumesAssumption
<1>e. \A t \in Source : Listed(t)' = Listed(t) /\ Taken(t)' = Taken(t)
  BY DEF RefusedLink, Owner, Phase, Count, fields, Listed, Taken
<1>c. /\ arg[r] \in Sub /\ Link[arg[r]] \in Source /\ owner[r] = "refused"
      /\ phase[Link[arg[r]]] = "idle"
      /\ canceled' = [canceled EXCEPT ![Link[arg[r]]] = TRUE]
      /\ fired' = [fired EXCEPT ![arg[r]] = @ + 1]
      /\ owner' = [owner EXCEPT ![r] = "nested"]
      /\ phase' = [phase EXCEPT ![Link[arg[r]]] = "swap"]
      /\ UNCHANGED arg
      /\ UNCHANGED <<list, local, got, resume, fields, uses, moves, target, released, relocated,
                     resumed>>
  BY DEF Inv, RefusedLink, Stages, Owner, Phase, Count, Phases
<1>f. \A t \in Source : phase'[t] \in Busy <=> phase[t] \in Busy BY <1>c DEF Inv, Busy,
     CancellationTypeOK, Phases
<1>w. \A t \in Source, x \in Reg : Waiting(t, x)' <=> Waiting(t, x)
  BY <1>c, <1>e, <1>f DEF Waiting, Firing
<1>1. CancellationTypeOK' BY <1>e, <1>c DEF Inv, CancellationTypeOK, fields
<1>2. Indexed' BY <1>e, <1>c DEF Inv, Indexed, CancellationTypeOK, fields
<1>3. Phases' BY <1>e, <1>c DEF Inv, Phases, CancellationTypeOK, Busy, fields
<1>4. Apart' BY <1>e, <1>c DEF Inv, Apart, CancellationTypeOK, fields
<1>5. Stages' BY <1>e, <1>c DEF Inv, Stages, CancellationTypeOK, fields
<1>6. Places' BY <1>e, <1>c DEF Inv, Places, CancellationTypeOK, Stages, fields
<1>7. OneHolder' BY <1>e, <1>c DEF Inv, OneHolder, CancellationTypeOK, Moves, Stages, fields
<1>8. Replaced' BY <1>e, <1>c DEF Inv, Replaced, CancellationTypeOK, Stages, Places, fields
<1>9. Unknown' BY <1>e, <1>c DEF Inv, Unknown, CancellationTypeOK, Stages, fields
<1>10. Alone' BY <1>e, <1>c DEF Inv, Alone, CancellationTypeOK, Stages, fields
<1>11. FireRights'
  BY <1>e, <1>w, <1>c DEF Inv, FireRights, CancellationTypeOK, Stages, Phases, Alone, fields
<1>12. ResumeRights'
  BY <1>e, <1>c DEF Inv, ResumeRights, CancellationTypeOK, Stages, Alone, fields
<1>13. Counted' BY <1>e, <1>c DEF Inv, Counted, CancellationTypeOK, Stages, Phases, Alone, fields
<1>14. Kept' BY <1>e, <1>c DEF Inv, Kept, CancellationTypeOK, Stages, fields
<1>15. Coming'
  BY <1>e, <1>w, <1>c DEF Inv, Coming, CancellationTypeOK, Stages, Phases, Reached, Alone, fields
<1> QED BY <1>1, <1>2, <1>3, <1>4, <1>5, <1>6, <1>7, <1>8, <1>9, <1>10, <1>11, <1>12, <1>13,
     <1>14, <1>15 DEF Inv

\* ... whose Cancel() has returned.
LEMMA RefusedLinkedKeeps ==
    ASSUME Inv, MaxUses = 1, NEW r \in Reg, RefusedLinked(r)
    PROVE  Inv'
<1> USE NoneAssumption, LinkAssumption, ResumesAssumption
<1>e. \A t \in Source : Listed(t)' = Listed(t) /\ Taken(t)' = Taken(t)
  BY DEF RefusedLinked, Owner, sources, fields, history, Listed, Taken
<1>w. \A t \in Source, x \in Reg : Waiting(t, x)' <=> Waiting(t, x)
  BY <1>e DEF Inv, Waiting, Firing, Busy, Phases, CancellationTypeOK, RefusedLinked, Owner,
       sources, fields, history
<1>1. CancellationTypeOK'
  BY <1>e DEF Inv, CancellationTypeOK, Phases, Stages, RefusedLinked, Owner, sources, fields,
       history
<1>2. Indexed'
  BY <1>e DEF Inv, Indexed, CancellationTypeOK, RefusedLinked, Owner, sources, fields, history
<1>3. Phases'
  BY <1>e DEF Inv, Phases, CancellationTypeOK, Busy, RefusedLinked, Owner, sources, fields, history
<1>4. Apart'
  BY <1>e DEF Inv, Apart, CancellationTypeOK, RefusedLinked, Owner, sources, fields, history
<1>5. Stages'
  BY <1>e DEF Inv, Stages, CancellationTypeOK, RefusedLinked, Owner, sources, fields, history
<1>6. Places'
  BY <1>e DEF Inv, Places, CancellationTypeOK, Stages, RefusedLinked, Owner, sources, fields,
       history
<1>7. OneHolder'
  BY <1>e DEF Inv, OneHolder, CancellationTypeOK, Moves, Stages, RefusedLinked, Owner, sources,
       fields, history
<1>8. Replaced'
  BY <1>e DEF Inv, Replaced, CancellationTypeOK, RefusedLinked, Owner, sources, fields, history
<1>9. Unknown'
  BY <1>e DEF Inv, Unknown, CancellationTypeOK, Stages, RefusedLinked, Owner, sources, fields,
       history
<1>10. Alone'
  BY <1>e DEF Inv, Alone, CancellationTypeOK, Stages, RefusedLinked, Owner, sources, fields, history
<1>11. FireRights'
  BY <1>e, <1>w DEF Inv, FireRights, CancellationTypeOK, Stages, Phases, RefusedLinked, Owner,
       sources, fields, history
<1>12. ResumeRights'
  BY <1>e DEF Inv, ResumeRights, CancellationTypeOK, Stages, RefusedLinked, Owner, sources,
       fields, history
<1>13. Counted'
  BY <1>e DEF Inv, Counted, CancellationTypeOK, Stages, Phases, RefusedLinked, Owner, sources,
       fields, history
<1>14. Kept'
  BY <1>e DEF Inv, Kept, CancellationTypeOK, Stages, RefusedLinked, Owner, sources, fields, history
<1>15. Coming'
  BY <1>e, <1>w DEF Inv, Coming, CancellationTypeOK, Stages, Phases, Reached, RefusedLinked,
       Owner, sources, fields, history
<1> QED BY <1>1, <1>2, <1>3, <1>4, <1>5, <1>6, <1>7, <1>8, <1>9, <1>10, <1>11, <1>12, <1>13,
     <1>14, <1>15 DEF Inv

-----------------------------------------------------------------------------
(* Every step keeps the invariant: Reset()                                  *)

\* Reset() disarms the object.
LEMMA ResetKeeps ==
    ASSUME Inv, MaxUses = 1, NEW r \in Reg, Reset(r)
    PROVE  Inv'
<1> USE NoneAssumption, LinkAssumption, ResumesAssumption
<1>e. \A t \in Source : Listed(t)' = Listed(t) /\ Taken(t)' = Taken(t)
  BY DEF Reset, Owner, sources, Listed, Taken
<1>w. \A t \in Source, x \in Reg : Waiting(t, x)' <=> Waiting(t, x)
  BY <1>e DEF Inv, Waiting, Firing, Busy, Phases, CancellationTypeOK, Reset, Owner, sources
<1>1. CancellationTypeOK'
  BY <1>e, SMTT(30) DEF Inv, CancellationTypeOK, Stages, Reset, Owner, sources
<1>2. Indexed' BY <1>e DEF Inv, Indexed, CancellationTypeOK, Reset, Owner, sources
<1>3. Phases' BY <1>e DEF Inv, Phases, CancellationTypeOK, Busy, Reset, Owner, sources
<1>4. Apart' BY <1>e DEF Inv, Apart, CancellationTypeOK, Reset, Owner, sources
<1>5. Stages' BY <1>e DEF Inv, Stages, CancellationTypeOK, Reset, Owner, sources
<1>6. Places' BY <1>e DEF Inv, Places, CancellationTypeOK, Stages, Reset, Owner, sources
<1>7. OneHolder'
  BY <1>e DEF Inv, OneHolder, CancellationTypeOK, Moves, Stages, Reset, Owner, sources
<1>8. Replaced' BY <1>e DEF Inv, Replaced, CancellationTypeOK, Reset, Owner, sources
<1>9. Unknown' BY <1>e DEF Inv, Unknown, CancellationTypeOK, Stages, Reset, Owner, sources
<1>10. Alone' BY <1>e DEF Inv, Alone, CancellationTypeOK, Stages, Reset, Owner, sources
<1>11. FireRights'
  BY <1>e, <1>w DEF Inv, FireRights, CancellationTypeOK, Stages, Phases, Reset, Owner, sources
<1>12. ResumeRights'
  BY <1>e DEF Inv, ResumeRights, CancellationTypeOK, Stages, Reset, Owner, sources
<1>13. Counted'
  BY <1>e DEF Inv, Counted, CancellationTypeOK, Stages, Phases, Reset, Owner, sources
<1>14. Kept' BY <1>e DEF Inv, Kept, CancellationTypeOK, Stages, Reset, Owner, sources
<1>15. Coming'
  BY <1>e, <1>w DEF Inv, Coming, CancellationTypeOK, Stages, Phases, Reached, Reset, Owner, sources
<1> QED BY <1>1, <1>2, <1>3, <1>4, <1>5, <1>6, <1>7, <1>8, <1>9, <1>10, <1>11, <1>12, <1>13,
     <1>14, <1>15 DEF Inv

\* Unregister() finds the object in the list.
LEMMA UnregisterListedKeeps ==
    ASSUME Inv, MaxUses = 1, NEW r \in Reg, Unregister(r), r \in Listed(state[r])
    PROVE  Inv'
<1> USE NoneAssumption, LinkAssumption, ResumesAssumption
<1>a. PICK s \in Source : s = state[r] /\ list[s] \in Seq(Reg) /\ owner[r] = "disarmed"
      /\ Once(list[s])
  <2>1. state[r] \in Source /\ owner[r] = "disarmed" BY DEF Inv, Unregister, Stages
  <2>2. list[state[r]] \in Seq(Reg) BY <2>1 DEF Inv, CancellationTypeOK
  <2>3. Once(list[state[r]]) BY <2>1 DEF Inv, Indexed, Once
  <2> QED BY <2>1, <2>2, <2>3
<1>n. PICK n \in 1..Len(list[s]) : n = Position(s, r) /\ list[s][n] = r
  BY <1>a DEF Position, Listed, Elements
<1> DEFINE last == list[s][Len(list[s])]
<1>c. /\ owner[r] = "disarmed" /\ s = state[r]
      /\ list' = [list EXCEPT ![s] = SwapRemove(s, n)]
      /\ index' = [index EXCEPT ![last] = n]
      /\ owner' = [owner EXCEPT ![r] = "unregistered"]
      /\ UNCHANGED <<canceled, phase, local, got, resume, state, sub, silent, armed, arg, uses,
                     moves, target, released, relocated, fired, resumed>>
  BY <1>a, <1>n DEF Unregister, Owner, history, Listed
<1>q. /\ SwapRemove(s, n) \in Seq(Reg) /\ Len(SwapRemove(s, n)) = Len(list[s]) - 1
      /\ \A m \in 1..Len(SwapRemove(s, n)) : SwapRemove(s, n)[m] = IF m = n THEN last
         ELSE list[s][m]
      /\ Elements(SwapRemove(s, n)) = Listed(s) \ {r}
      /\ last \in Reg /\ Len(list[s]) \in Nat /\ Len(list[s]) \in 1..Len(list[s])
  <2>1. Len(list[s]) \in Nat /\ Len(list[s]) \in 1..Len(list[s]) BY <1>a, <1>n
  <2>2. last \in Reg BY <1>a, <2>1
  <2>3. /\ SwapRemove(s, n) \in Seq(Reg) /\ Len(SwapRemove(s, n)) = Len(list[s]) - 1
        /\ \A m \in 1..Len(SwapRemove(s, n)) :
              SwapRemove(s, n)[m] = IF m = n THEN list[s][Len(list[s])] ELSE list[s][m]
        /\ Elements(SwapRemove(s, n)) = Elements(list[s]) \ {list[s][n]}
    BY <1>a, <1>n, ElementsSwapRemove
  <2> QED BY <1>n, <2>1, <2>2, <2>3 DEF Listed
<1> HIDE DEF last
<1>l. \A t \in Source : list'[t] = IF t = s THEN SwapRemove(s, n) ELSE list[t]
  BY <1>c DEF Inv, CancellationTypeOK
<1>e. /\ \A t \in Source : Taken(t)' = Taken(t)
      /\ \A t \in Source : Listed(t)' = IF t = s THEN Listed(s) \ {r} ELSE Listed(t)
  <2>1. ASSUME NEW t \in Source, t # s PROVE Listed(t)' = Listed(t)
    BY <1>l, <2>1 DEF Listed
  <2>2. list'[s] = SwapRemove(s, n) BY <1>a, <1>l
  <2>3. Listed(s)' = Listed(s) \ {r}
    BY <1>q, <2>2 DEF Listed
  <2> QED BY <1>c, <2>1, <2>3 DEF Taken
<1>p. r \in Listed(s) /\ \A t \in Source : r \notin Taken(t) /\ (r \in Listed(t) => t = s)
  BY <1>a DEF Inv, Apart
<1>m. /\ \A t \in Source, x \in Reg : x \in Listed(t)' <=> x \in Listed(t) /\ x # r
      /\ \A t \in Source, x \in Reg : x \in Taken(t)' <=> x \in Taken(t)
  BY <1>e, <1>p
<1>w. \A t \in Source, x \in Reg : Waiting(t, x)' <=> Waiting(t, x) /\ x # r
  BY <1>c, <1>m, <1>p DEF Waiting, Firing
<1>o. \A x \in Reg : owner'[x] = IF x = r THEN "unregistered" ELSE owner[x]
  BY <1>c DEF Inv, CancellationTypeOK
<1>1. CancellationTypeOK' BY <1>e, <1>q, <1>c DEF Inv, CancellationTypeOK
<1>2. Indexed'
  <2>1. ASSUME NEW t \in Source, NEW m \in 1..Len(list'[t]) PROVE index'[list'[t][m]] = m
    <3>1. CASE t # s
      <4>1. list'[t] = list[t] /\ list[t][m] \in Listed(t) /\ list[t][m] \in Reg
        BY <1>l, <2>1, <3>1, EntryListed DEF Inv
      <4>2. last \in Listed(s) BY <1>q DEF Listed, Elements, last
      <4>3. list[t][m] # last BY <1>a, <3>1, <4>1, <4>2 DEF Inv, Apart
      <4> QED BY <1>c, <2>1, <4>1, <4>3 DEF Inv, Indexed, CancellationTypeOK
    <3>2. CASE t = s
      <4>1. list'[s] = SwapRemove(s, n) BY <1>l
      <4>2. m \in 1..Len(list[s]) /\ m # Len(list[s]) /\ list'[s][m] = IF m = n THEN last
            ELSE list[s][m]
        BY <1>q, <2>1, <3>2, <4>1
      <4>3. CASE m = n BY <1>c, <1>q, <3>2, <4>2, <4>3 DEF Inv, CancellationTypeOK
      <4>4. CASE m # n
        <5>1. list[s][m] \in Reg /\ list[s][m] # last
          BY <1>a, <1>q, <4>2, EntryListed DEF Inv, Once, last
        <5> QED BY <1>c, <3>2, <4>2, <4>4, <5>1 DEF Inv, Indexed, CancellationTypeOK
      <4> QED BY <4>3, <4>4
    <3> QED BY <3>1, <3>2
  <2> QED BY <1>c, <2>1 DEF Inv, Indexed
<1>3. Phases' BY <1>c, <1>l, <1>n, EmptyList DEF Inv, Phases, Busy
<1>4. Apart' BY <1>m DEF Inv, Apart
<1>5. Stages' BY <1>e, <1>c DEF Inv, Stages, CancellationTypeOK
<1>6. Places' BY <1>c, <1>m, <1>o DEF Inv, Places
<1>7. OneHolder' BY <1>e, <1>c DEF Inv, OneHolder, CancellationTypeOK, Moves, Stages
<1>8. Replaced' BY <1>c, <1>m, <1>o DEF Inv, Replaced, Stages
<1>9. Unknown' BY <1>e, <1>c DEF Inv, Unknown, CancellationTypeOK, Stages
<1>10. Alone' BY <1>c, <1>o DEF Inv, Alone
<1>11. FireRights' BY <1>c, <1>w DEF Inv, FireRights
<1>12. ResumeRights' BY <1>e, <1>c DEF Inv, ResumeRights, CancellationTypeOK, Stages
<1>13. Counted' BY <1>e, <1>c DEF Inv, Counted, CancellationTypeOK, Stages, Phases
<1>14. Kept' BY <1>c, <1>m, <1>o DEF Inv, Kept, Stages
<1>15. Coming' BY <1>c, <1>w, <1>o DEF Inv, Coming, Reached, Stages
<1> QED BY <1>1, <1>2, <1>3, <1>4, <1>5, <1>6, <1>7, <1>8, <1>9, <1>10, <1>11, <1>12, <1>13,
     <1>14, <1>15 DEF Inv

\* Unregister() comes after Cancel() took the list.
LEMMA UnregisterTakenKeeps ==
    ASSUME Inv, MaxUses = 1, NEW r \in Reg, Unregister(r), r \notin Listed(state[r])
    PROVE  Inv'
<1> USE NoneAssumption, LinkAssumption, ResumesAssumption
<1>c. /\ owner[r] = "disarmed" /\ list' = list /\ index' = index
      /\ owner' = [owner EXCEPT ![r] = "unregistered"]
      /\ UNCHANGED <<canceled, phase, local, got, resume, state, sub, silent, armed, arg, uses,
                     moves, target, released, relocated, fired, resumed>>
  BY DEF Unregister, Owner, history, Listed
<1>e. \A t \in Source : Listed(t)' = Listed(t) /\ Taken(t)' = Taken(t)
  BY <1>c DEF Listed, Taken
<1>p. \A t \in Source : r \notin Listed(t)
  BY <1>c DEF Inv, Places, Stages
<1>w. \A t \in Source, x \in Reg : Waiting(t, x)' <=> Waiting(t, x)
  BY <1>c, <1>e DEF Waiting, Firing
<1>1. CancellationTypeOK' BY <1>e, <1>c DEF Inv, CancellationTypeOK
<1>2. Indexed' BY <1>e, <1>c DEF Inv, Indexed, CancellationTypeOK
<1>3. Phases' BY <1>e, <1>c DEF Inv, Phases, CancellationTypeOK, Busy
<1>4. Apart' BY <1>e, <1>c DEF Inv, Apart, CancellationTypeOK
<1>5. Stages' BY <1>e, <1>c DEF Inv, Stages, CancellationTypeOK
<1>6. Places' BY <1>e, <1>p, <1>c DEF Inv, Places, CancellationTypeOK, Stages
<1>7. OneHolder' BY <1>e, <1>c DEF Inv, OneHolder, CancellationTypeOK, Moves, Stages
<1>8. Replaced' BY <1>e, <1>c DEF Inv, Replaced, CancellationTypeOK, Stages, Places
<1>9. Unknown' BY <1>e, <1>c DEF Inv, Unknown, CancellationTypeOK, Stages
<1>10. Alone' BY <1>e, <1>c DEF Inv, Alone, CancellationTypeOK, Stages
<1>11. FireRights' BY <1>e, <1>w, <1>c DEF Inv, FireRights, CancellationTypeOK, Stages, Phases
<1>12. ResumeRights' BY <1>e, <1>c DEF Inv, ResumeRights, CancellationTypeOK, Stages
<1>13. Counted' BY <1>e, <1>c DEF Inv, Counted, CancellationTypeOK, Stages, Phases
<1>14. Kept' BY <1>e, <1>c DEF Inv, Kept, CancellationTypeOK, Stages
<1>15. Coming' BY <1>e, <1>w, <1>c DEF Inv, Coming, CancellationTypeOK, Stages, Phases, Reached
<1> QED BY <1>1, <1>2, <1>3, <1>4, <1>5, <1>6, <1>7, <1>8, <1>9, <1>10, <1>11, <1>12, <1>13,
     <1>14, <1>15 DEF Inv

\* An unregistered object is cleared.
LEMMA ClearKeeps ==
    ASSUME Inv, MaxUses = 1, NEW r \in Reg, Clear(r)
    PROVE  Inv'
<1> USE NoneAssumption, LinkAssumption, ResumesAssumption
<1>e. \A t \in Source : Listed(t)' = Listed(t) /\ Taken(t)' = Taken(t)
  BY DEF Clear, Owner, sources, history, Listed, Taken
<1>1. CancellationTypeOK'
  BY <1>e DEF Inv, CancellationTypeOK, Phases, Stages, Clear, Owner, sources, history
<1>2. Indexed'
  <2>1. ASSUME NEW t \in Source, NEW n \in 1..Len(list[t])
      PROVE list[t][n] # r /\ list[t][n] \in Reg
    BY EntryListed DEF Inv, Clear, Places
  <2> QED BY <2>1 DEF Inv, Indexed, CancellationTypeOK, Clear, sources, history
<1>3. Phases' BY <1>e DEF Inv, Phases, CancellationTypeOK, Busy, Clear, Owner, sources, history
<1>4. Apart' BY <1>e DEF Inv, Apart, CancellationTypeOK, Clear, Owner, sources, history
<1>5. Stages' BY <1>e DEF Inv, Stages, CancellationTypeOK, Clear, Owner, sources, history
<1>6. Places' BY <1>e DEF Inv, Places, CancellationTypeOK, Stages, Clear, Owner, sources, history
<1>7. OneHolder'
  BY <1>e DEF Inv, OneHolder, CancellationTypeOK, Moves, Stages, Clear, Owner, sources, history
<1>8. Replaced'
  BY <1>e DEF Inv, Replaced, CancellationTypeOK, Stages, Places, Clear, Owner, sources, history
<1>9. Unknown'
  BY <1>e DEF Inv, Unknown, CancellationTypeOK, Stages, Clear, Owner, sources, history
<1>10. Alone' BY <1>e DEF Inv, Alone, CancellationTypeOK, Stages, Clear, Owner, sources, history
<1>11. FireRights'
  BY <1>e DEF Inv, FireRights, CancellationTypeOK, Stages, Phases, Waiting, Firing, Busy, Clear,
       Owner, sources, history
<1>12. ResumeRights'
  BY <1>e DEF Inv, ResumeRights, CancellationTypeOK, Stages, Clear, Owner, sources, history
<1>13. Counted'
  BY <1>e DEF Inv, Counted, CancellationTypeOK, Stages, Phases, Clear, Owner, sources, history
<1>14. Kept' BY <1>e DEF Inv, Kept, CancellationTypeOK, Stages, Clear, Owner, sources, history
<1>15. Coming'
  BY <1>e DEF Inv, Coming, CancellationTypeOK, Stages, Phases, Reached, Waiting, Firing, Busy,
       Clear, Owner, sources, history
<1> QED BY <1>1, <1>2, <1>3, <1>4, <1>5, <1>6, <1>7, <1>8, <1>9, <1>10, <1>11, <1>12, <1>13,
     <1>14, <1>15 DEF Inv

-----------------------------------------------------------------------------
(* Every step keeps the invariant: MoveFrom()                               *)

\* The fields move to another object; the entry stays with the old one.
LEMMA MoveKeeps ==
    ASSUME Inv, MaxUses = 1, NEW r \in Reg, NEW q \in Reg, Move(r, q)
    PROVE  Inv'
<1> USE NoneAssumption, LinkAssumption, ResumesAssumption
<1>e. \A t \in Source : Listed(t)' = Listed(t) /\ Taken(t)' = Taken(t)
  BY DEF Move, sources, Listed, Taken
<1>u. uses[r] = 0
  <2>1. uses[r] \in 0..1 /\ uses[r] < 1 BY DEF Inv, Move, CancellationTypeOK
  <2> QED BY <2>1
<1>c. /\ owner[r] = "empty" /\ owner[q] = "held" /\ uses[r] = 0 /\ moves < MaxMoves /\ r # q
      /\ state' = [state EXCEPT ![r] = state[q], ![q] = None]
      /\ sub' = [sub EXCEPT ![r] = sub[q]]
      /\ index' = [index EXCEPT ![r] = index[q]]
      /\ armed' = [armed EXCEPT ![r] = armed[q], ![q] = FALSE]
      /\ arg' = [arg EXCEPT ![r] = q]
      /\ owner' = [owner EXCEPT ![r] = "moving", ![q] = "moved"]
      /\ uses' = [uses EXCEPT ![r] = 1]
      /\ moves' = moves + 1
      /\ relocated' = relocated \cup {sub[q]}
      /\ UNCHANGED <<canceled, list, phase, local, got, resume, silent, target, released, fired,
                     resumed>>
  BY <1>u DEF Inv, Move, Count, sources, CancellationTypeOK
<1>d. /\ sub[q] \in Sub /\ state[q] \in Source /\ target[sub[q]] = state[q]
      /\ \A x \in Reg : sub[x] = sub[q] => x = q
      /\ \A t \in Source : r \notin Listed(t) /\ r \notin Taken(t)
  BY <1>c DEF Inv, Stages, OneHolder, Moves, Places
<1>o. \A x \in Reg : owner'[x] = IF x = r THEN "moving" ELSE IF x = q THEN "moved" ELSE owner[x]
  BY <1>c DEF Inv, CancellationTypeOK
<1>s. \A x \in Reg : sub'[x] = IF x = r THEN sub[q] ELSE sub[x]
  BY <1>c DEF Inv, CancellationTypeOK
<1>t. \A x \in Reg : state'[x] = IF x = r THEN state[q] ELSE IF x = q THEN None ELSE state[x]
  BY <1>c DEF Inv, CancellationTypeOK
<1>a. \A x \in Reg : armed'[x] <=> (x = r /\ armed[q]) \/ (x # r /\ x # q /\ armed[x])
  BY <1>c DEF Inv, CancellationTypeOK
<1>g. \A x \in Reg : arg'[x] = IF x = r THEN q ELSE arg[x]
  BY <1>c DEF Inv, CancellationTypeOK
<1>n. \A x \in Reg : uses'[x] = IF x = r THEN 1 ELSE uses[x]
  BY <1>c DEF Inv, CancellationTypeOK
<1>x. \A x \in Reg : index'[x] = IF x = r THEN index[q] ELSE index[x]
  BY <1>c DEF Inv, CancellationTypeOK
<1>k. UNCHANGED <<canceled, list, phase, local, got, resume, silent, target, released, fired,
                  resumed>>
      /\ relocated' = relocated \cup {sub[q]} /\ owner[r] = "empty" /\ owner[q] = "held"
         /\ uses[r] = 0 /\ r # q
  BY <1>c
<1>w. \A t \in Source, x \in Reg : Waiting(t, x)' <=> Waiting(t, x)
  BY <1>c, <1>e DEF Waiting, Firing
<1>z. \A t \in Source : ~Waiting(t, r) BY <1>d DEF Waiting
<1>y. \A t \in Source : phase[t] = "exec" => r # Head(local[t])
  BY <1>d, FiringTaken DEF Inv, Phases, Busy
<1>1. CancellationTypeOK'
  <2>1. moves' \in 0..MaxMoves BY <1>c, UsesAssumption DEF Inv, CancellationTypeOK
  <2>2. owner' \in [Reg -> {"empty", "filled", "refused", "nested", "held", "disarmed",
                          "unregistered", "moving", "moved", "finishing"}]
        /\ armed' \in [Reg -> BOOLEAN]
    BY <1>c DEF Inv, CancellationTypeOK
  <2>3. state' \in [Reg -> Source \cup {None}] /\ sub' \in [Reg -> Sub \cup {None}]
        /\ index' \in [Reg -> Nat]
    BY <1>c DEF Inv, CancellationTypeOK
  <2>4. arg' \in [Reg -> Sub \cup Reg \cup {None}] /\ uses' \in [Reg -> 0..MaxUses]
        /\ relocated' \in SUBSET Sub
    BY <1>c, <1>d DEF Inv, CancellationTypeOK
  <2> QED BY <1>k, <2>1, <2>2, <2>3, <2>4 DEF Inv, CancellationTypeOK
<1>2. Indexed'
  <2>1. \A t \in Source : \A n \in 1..Len(list[t]) : list[t][n] # r /\ list[t][n] \in Reg
    BY <1>d, EntryListed DEF Inv
  <2> QED BY <1>k, <1>x, <2>1 DEF Inv, Indexed
<1>3. Phases' BY <1>k DEF Inv, Phases
<1>4. Apart' BY <1>e DEF Inv, Apart
<1>5. Stages'
  <2>1. /\ owner'[r] = "moving" /\ sub'[r] = sub[q] /\ state'[r] = state[q] /\ arg'[r] = q
           /\ uses'[r] = 1
        /\ owner'[q] = "moved" /\ sub'[q] = sub[q] /\ state'[q] = None /\ ~armed'[q]
           /\ uses'[q] = uses[q]
    BY <1>k, <1>o, <1>s, <1>t, <1>a, <1>g, <1>n
  <2>2. \A x \in Reg : x # r /\ x # q =>
           /\ owner'[x] = owner[x] /\ sub'[x] = sub[x] /\ state'[x] = state[x] /\ arg'[x] = arg[x]
           /\ uses'[x] = uses[x] /\ (armed'[x] <=> armed[x])
    BY <1>o, <1>s, <1>t, <1>a, <1>g, <1>n
  <2>3. \A x \in Reg : x # r /\ x # q /\ owner[x] \in {"moving", "finishing"} => arg[x] # r
        /\ arg[x] # q
    BY <1>k DEF Inv, Stages
  <2>4. uses[q] = 1 BY <1>k DEF Inv, Stages
  <2> QED BY <1>k, <1>d, <2>1, <2>2, <2>3, <2>4 DEF Inv, Stages
<1>6. Places' BY <1>k, <1>d, <1>e, <1>o, <1>s, <1>n DEF Inv, Places
<1>7. OneHolder' BY <1>k, <1>d, <1>o, <1>s, <1>g DEF Inv, OneHolder, Moves
<1>8. Replaced' BY <1>k, <1>e, <1>o, <1>g, <1>d DEF Inv, Replaced
<1>9. Unknown' BY <1>k, <1>d DEF Inv, Unknown
<1>10. Alone' BY <1>k, <1>d, <1>o, <1>s, <1>g DEF Inv, Alone
<1>11. FireRights' BY <1>k, <1>w, <1>s, <1>z DEF Inv, FireRights
<1>12. ResumeRights' BY <1>k, <1>d, <1>s, <1>a, <1>y DEF Inv, ResumeRights, Stages
<1>13. Counted' BY <1>k DEF Inv, Counted
<1>14. Kept'
  <2>1. ~canceled[state[q]] => q \in Listed(state[q]) BY <1>k DEF Inv, Kept
  <2>2. \A x \in Reg : owner'[x] \in {"held", "finishing", "moving"}
        => x = r \/ (owner'[x] = owner[x] /\ state'[x] = state[x] /\ arg'[x] = arg[x])
    BY <1>o, <1>t, <1>g
  <2>3. owner'[r] = "moving" /\ state'[r] = state[q] /\ arg'[r] = q BY <1>o, <1>t, <1>g
  <2>4. \A x \in Reg : owner[x] \in {"held", "finishing", "moving"} => state[x] \in Source BY DEF
       Inv, Stages
  <2> QED BY <1>k, <1>d, <1>e, <2>1, <2>2, <2>3, <2>4 DEF Inv, Kept
<1>15. Coming'
  <2> SUFFICES ASSUME NEW x \in Reg, owner'[x] = "held", sub'[x] \notin relocated'
      PROVE Reached(x, sub[x], state[x])'
    BY DEF Coming
  <2>1. owner[x] = "held" /\ sub'[x] = sub[x] /\ state'[x] = state[x]
        /\ (armed'[x] <=> armed[x]) /\ sub[x] \notin relocated
    BY <1>k, <1>o, <1>s, <1>t, <1>a
  <2>2. Reached(x, sub[x], state[x]) /\ state[x] \in Source BY <2>1 DEF Inv, Coming, Stages
  <2> QED BY <1>k, <1>w, <2>1, <2>2 DEF Reached
<1> QED BY <1>1, <1>2, <1>3, <1>4, <1>5, <1>6, <1>7, <1>8, <1>9, <1>10, <1>11, <1>12, <1>13,
     <1>14, <1>15 DEF Inv

\* The entry follows.
LEMMA MoveEntryListedKeeps ==
    ASSUME Inv, MaxUses = 1, NEW r \in Reg, MoveEntry(r), arg[r] \in Listed(state[r])
    PROVE  Inv'
<1> USE NoneAssumption, LinkAssumption, ResumesAssumption
<1>a. PICK s \in Source : s = state[r] /\ list[s] \in Seq(Reg) /\ owner[r] = "moving"
      /\ Once(list[s])
  <2>1. state[r] \in Source /\ owner[r] = "moving" BY DEF Inv, MoveEntry, Stages
  <2>2. list[state[r]] \in Seq(Reg) BY <2>1 DEF Inv, CancellationTypeOK
  <2>3. Once(list[state[r]]) BY <2>1 DEF Inv, Indexed, Once
  <2> QED BY <2>1, <2>2, <2>3
<1>b. PICK q \in Reg : q = arg[r] /\ owner[q] = "moved" /\ sub[q] = sub[r] /\ sub[r] \in Sub
      /\ target[sub[r]] = s
  BY <1>a DEF Inv, Stages
<1>n. PICK n \in 1..Len(list[s]) : n = Position(s, q) /\ list[s][n] = q
  BY <1>a, <1>b DEF Position, Listed, Elements
<1> DEFINE p == [list[s] EXCEPT ![n] = r]
<1>c. /\ owner[r] = "moving" /\ s = state[r] /\ q = arg[r] /\ r # q
      /\ list' = [list EXCEPT ![s] = p]
      /\ index' = [index EXCEPT ![r] = n]
      /\ owner' = [owner EXCEPT ![r] = "finishing"]
      /\ UNCHANGED <<canceled, phase, local, got, resume, state, sub, silent, armed, arg, uses,
                     moves, target, released, relocated, fired, resumed>>
  BY <1>a, <1>b, <1>n DEF MoveEntry, Owner, history, Listed
<1>q. /\ p \in Seq(Reg) /\ Len(p) = Len(list[s])
      /\ \A m \in 1..Len(p) : p[m] = IF m = n THEN r ELSE list[s][m]
      /\ Elements(p) = (Listed(s) \ {q}) \cup {r}
  BY <1>a, <1>n, ElementsReplace DEF Listed
<1> HIDE DEF p
<1>l. \A t \in Source : list'[t] = IF t = s THEN p ELSE list[t]
  BY <1>c DEF Inv, CancellationTypeOK
<1>e. /\ \A t \in Source : Taken(t)' = Taken(t)
      /\ \A t \in Source : Listed(t)' = IF t = s THEN (Listed(s) \ {q}) \cup {r} ELSE Listed(t)
  <2>1. ASSUME NEW t \in Source, t # s PROVE Listed(t)' = Listed(t)
    BY <1>l, <2>1 DEF Listed
  <2>2. list'[s] = p BY <1>a, <1>l
  <2>3. Listed(s)' = (Listed(s) \ {q}) \cup {r}
    BY <1>q, <2>2 DEF Listed
  <2> QED BY <1>c, <2>1, <2>3 DEF Taken
<1>p. /\ q \in Listed(s) /\ \A t \in Source : q \notin Taken(t) /\ (q \in Listed(t) => t = s)
      /\ \A t \in Source : r \notin Listed(t) /\ r \notin Taken(t)
  BY <1>a, <1>b, <1>c DEF Inv, Apart, Places
<1>m. /\ \A t \in Source, x \in Reg : x \in Listed(t)' <=> (x \in Listed(t)
         /\ x # q) \/ (x = r /\ t = s)
      /\ \A t \in Source, x \in Reg : x \in Taken(t)' <=> x \in Taken(t)
  BY <1>e, <1>p
<1>w. \A t \in Source, x \in Reg : Waiting(t, x)' <=> (Waiting(t, x) /\ x # q) \/ (x = r /\ t = s)
  BY <1>c, <1>m, <1>p DEF Waiting, Firing
<1>o. \A x \in Reg : owner'[x] = IF x = r THEN "finishing" ELSE owner[x]
  BY <1>c DEF Inv, CancellationTypeOK
<1>1. CancellationTypeOK' BY <1>e, <1>q, <1>c DEF Inv, CancellationTypeOK
<1>2. Indexed'
  <2>1. ASSUME NEW t \in Source, NEW m \in 1..Len(list'[t]) PROVE index'[list'[t][m]] = m
    <3>1. CASE ~(t = s /\ m = n)
      <4>1. m \in 1..Len(list[t]) /\ list'[t][m] = list[t][m]
        BY <1>l, <1>q, <2>1, <3>1
      <4>2. list[t][m] # r /\ list[t][m] \in Reg BY <1>p, <4>1, EntryListed DEF Inv
      <4> QED BY <1>c, <4>1, <4>2 DEF Inv, Indexed, CancellationTypeOK
    <3>2. CASE t = s /\ m = n
      <4>1. list'[t][m] = r BY <1>l, <1>q, <1>n, <3>2
      <4> QED BY <1>c, <3>2, <4>1 DEF Inv, CancellationTypeOK
    <3> QED BY <3>1, <3>2
  <2> QED BY <1>c, <2>1 DEF Inv, Indexed
<1>3. Phases' BY <1>c, <1>l, <1>n, EmptyList DEF Inv, Phases, Busy
<1>4. Apart' BY <1>m, <1>p DEF Inv, Apart
<1>5. Stages' BY <1>b, <1>c, <1>o DEF Inv, Stages
<1>6. Places' BY <1>b, <1>c, <1>m, <1>o, <1>p DEF Inv, Places
<1>7. OneHolder' BY <1>e, <1>c DEF Inv, OneHolder, CancellationTypeOK, Moves, Stages
<1>8. Replaced' BY <1>c, <1>m, <1>o, <1>p, <1>b DEF Inv, Replaced, Stages
<1>9. Unknown' BY <1>e, <1>c DEF Inv, Unknown, CancellationTypeOK, Stages
<1>10. Alone' BY <1>c, <1>o DEF Inv, Alone
<1>11. FireRights'
  <2>1. Waiting(s, q) BY <1>p DEF Waiting
  <2> QED BY <1>b, <1>c, <1>w, <2>1 DEF Inv, FireRights
<1>12. ResumeRights' BY <1>e, <1>c DEF Inv, ResumeRights, CancellationTypeOK, Stages
<1>13. Counted' BY <1>e, <1>c DEF Inv, Counted, CancellationTypeOK, Stages, Phases
<1>14. Kept' BY <1>c, <1>m, <1>o, <1>b DEF Inv, Kept, Stages, OneHolder, Moves
<1>15. Coming' BY <1>b, <1>c, <1>w, <1>o DEF Inv, Coming, Reached, Stages
<1> QED BY <1>1, <1>2, <1>3, <1>4, <1>5, <1>6, <1>7, <1>8, <1>9, <1>10, <1>11, <1>12, <1>13,
     <1>14, <1>15 DEF Inv

\* Cancel() took the entry before: it stays with the old object.
LEMMA MoveEntryTakenKeeps ==
    ASSUME Inv, MaxUses = 1, NEW r \in Reg, MoveEntry(r), arg[r] \notin Listed(state[r])
    PROVE  Inv'
<1> USE NoneAssumption, LinkAssumption, ResumesAssumption
<1>c. /\ owner[r] = "moving" /\ list' = list /\ index' = index
      /\ owner' = [owner EXCEPT ![r] = "finishing"]
      /\ UNCHANGED <<canceled, phase, local, got, resume, state, sub, silent, armed, arg, uses,
                     moves, target, released, relocated, fired, resumed>>
  BY DEF MoveEntry, Owner, history, Listed
<1>e. \A t \in Source : Listed(t)' = Listed(t) /\ Taken(t)' = Taken(t)
  BY <1>c DEF Listed, Taken
<1>o. \A x \in Reg : owner'[x] = IF x = r THEN "finishing" ELSE owner[x]
  BY <1>c DEF Inv, CancellationTypeOK
<1>p. \A t \in Source : arg[r] \notin Listed(t) /\ r \notin Listed(t) /\ r \notin Taken(t)
  BY <1>c DEF Inv, Places, Stages
<1>w. \A t \in Source, x \in Reg : Waiting(t, x)' <=> Waiting(t, x)
  BY <1>c, <1>e DEF Waiting, Firing
<1>1. CancellationTypeOK' BY <1>e, <1>c DEF Inv, CancellationTypeOK
<1>2. Indexed' BY <1>e, <1>c DEF Inv, Indexed, CancellationTypeOK
<1>3. Phases' BY <1>e, <1>c DEF Inv, Phases, CancellationTypeOK, Busy
<1>4. Apart' BY <1>e, <1>c DEF Inv, Apart, CancellationTypeOK
<1>5. Stages' BY <1>e, <1>c DEF Inv, Stages, CancellationTypeOK
<1>6. Places' BY <1>e, <1>c DEF Inv, Places, CancellationTypeOK, Stages
<1>7. OneHolder' BY <1>e, <1>c DEF Inv, OneHolder, CancellationTypeOK, Moves, Stages
<1>8. Replaced' BY <1>c, <1>e, <1>o, <1>p DEF Inv, Replaced
<1>9. Unknown' BY <1>e, <1>c DEF Inv, Unknown, CancellationTypeOK, Stages
<1>10. Alone' BY <1>e, <1>c DEF Inv, Alone, CancellationTypeOK, Stages
<1>11. FireRights' BY <1>e, <1>w, <1>c DEF Inv, FireRights, CancellationTypeOK, Stages, Phases
<1>12. ResumeRights' BY <1>e, <1>c DEF Inv, ResumeRights, CancellationTypeOK, Stages
<1>13. Counted' BY <1>e, <1>c DEF Inv, Counted, CancellationTypeOK, Stages, Phases
<1>14. Kept' BY <1>e, <1>p, <1>c DEF Inv, Kept, CancellationTypeOK, Stages
<1>15. Coming' BY <1>e, <1>w, <1>c DEF Inv, Coming, CancellationTypeOK, Stages, Phases, Reached
<1> QED BY <1>1, <1>2, <1>3, <1>4, <1>5, <1>6, <1>7, <1>8, <1>9, <1>10, <1>11, <1>12, <1>13,
     <1>14, <1>15 DEF Inv

\* The old object is cleared.
LEMMA MoveFinishKeeps ==
    ASSUME Inv, MaxUses = 1, NEW r \in Reg, MoveFinish(r)
    PROVE  Inv'
<1> USE NoneAssumption, LinkAssumption, ResumesAssumption
<1>e. \A t \in Source : Listed(t)' = Listed(t) /\ Taken(t)' = Taken(t)
  BY DEF MoveFinish, sources, history, Listed, Taken
<1>w. \A t \in Source, x \in Reg : Waiting(t, x)' <=> Waiting(t, x)
  BY <1>e DEF Inv, Waiting, Firing, Busy, Phases, CancellationTypeOK, MoveFinish, sources, history
<1>1. CancellationTypeOK'
  BY <1>e DEF Inv, CancellationTypeOK, Phases, Stages, MoveFinish, sources, history
<1>2. Indexed'
  <2>1. ASSUME NEW t \in Source, NEW n \in 1..Len(list[t])
      PROVE list[t][n] # arg[r] /\ list[t][n] \in Reg
    BY EntryListed DEF Inv, MoveFinish, Replaced
  <2> QED BY <2>1 DEF Inv, Indexed, CancellationTypeOK, MoveFinish, sources, history
<1>3. Phases' BY <1>e DEF Inv, Phases, CancellationTypeOK, Busy, MoveFinish, sources, history
<1>4. Apart' BY <1>e DEF Inv, Apart, CancellationTypeOK, MoveFinish, sources, history
<1>5. Stages'
  BY <1>e, SMTT(30) DEF Inv, Stages, CancellationTypeOK, OneHolder, Moves, MoveFinish, sources,
       history
<1>6. Places'
  BY <1>e DEF Inv, Places, CancellationTypeOK, Stages, Replaced, MoveFinish, sources, history
<1>7. OneHolder'
  BY <1>e DEF Inv, OneHolder, CancellationTypeOK, Moves, Stages, MoveFinish, sources, history
<1>8. Replaced'
  <2>1. \A x \in Reg : owner'[x] = "finishing" => owner[x] = "finishing" /\ arg'[x] = arg[x]
    BY DEF Inv, MoveFinish, CancellationTypeOK, Stages
  <2> QED BY <1>e, <2>1 DEF Inv, Replaced
<1>9. Unknown' BY <1>e DEF Inv, Unknown, CancellationTypeOK, Stages, MoveFinish, sources, history
<1>10. Alone' BY <1>e DEF Inv, Alone, CancellationTypeOK, Stages, MoveFinish, sources, history
<1>11. FireRights'
  BY <1>e, <1>w DEF Inv, FireRights, CancellationTypeOK, Stages, Phases, MoveFinish, sources,
       history
<1>12. ResumeRights'
  BY <1>e DEF Inv, ResumeRights, CancellationTypeOK, Stages, MoveFinish, sources, history
<1>13. Counted'
  BY <1>e DEF Inv, Counted, CancellationTypeOK, Stages, Phases, MoveFinish, sources, history
<1>14. Kept' BY <1>e DEF Inv, Kept, CancellationTypeOK, Stages, MoveFinish, sources, history
<1>15. Coming'
  BY <1>e, <1>w DEF Inv, Coming, CancellationTypeOK, Stages, Phases, Reached, MoveFinish, sources,
       history
<1> QED BY <1>1, <1>2, <1>3, <1>4, <1>5, <1>6, <1>7, <1>8, <1>9, <1>10, <1>11, <1>12, <1>13,
     <1>14, <1>15 DEF Inv

-----------------------------------------------------------------------------
(* The theorems                                                             *)

\* Initially nothing is registered.
LEMMA InitInv == CancellationInit => Inv
<1> SUFFICES ASSUME CancellationInit PROVE Inv OBVIOUS
<1> USE NoneAssumption, UsesAssumption
<1>1. CancellationTypeOK BY DEF CancellationInit, CancellationTypeOK
<1>0. \A s \in Source : list[s] = <<>> /\ local[s] = <<>> BY DEF CancellationInit
<1>2. \A s \in Source : Listed(s) = {} /\ Taken(s) = {}
  <2>1. ASSUME NEW s \in Source PROVE Listed(s) = {} /\ Taken(s) = {}
    <3>1. list[s] = <<>> /\ local[s] = <<>> BY <1>0
    <3>2. Listed(s) = Elements(<<>>) /\ Taken(s) = Elements(<<>>) BY <3>1 DEF Listed, Taken
    <3> QED BY <3>2, EmptyList
  <2> QED BY <2>1
<1>3. ASSUME NEW s \in Source, NEW n \in 1..Len(<<>>) PROVE FALSE BY <1>3, EmptyList
<1>10. Indexed BY <1>0, <1>3 DEF Indexed, Once
<1>4. Phases BY DEF CancellationInit, Phases, Busy
<1>5. Apart /\ Places /\ Replaced BY <1>2 DEF CancellationInit, Apart, Places, Replaced
<1>6. Stages BY DEF CancellationInit, Stages
<1>7. OneHolder /\ Unknown /\ Alone BY DEF CancellationInit, OneHolder, Unknown, Alone
<1>8. FireRights /\ ResumeRights BY <1>2 DEF CancellationInit, FireRights, ResumeRights, Waiting
<1>9. Counted /\ Kept /\ Coming BY DEF CancellationInit, Counted, Kept, Coming
<1> QED BY <1>1, <1>10, <1>4, <1>5, <1>6, <1>7, <1>8, <1>9 DEF Inv

\* Every step of the specification keeps the invariant.
LEMMA StepInv == ASSUME MaxUses = 1, Inv, [CancellationNext]_cancellation PROVE Inv'
<1>1. CASE UNCHANGED cancellation
  BY <1>1 DEF cancellation, sources, fields, history, Inv, CancellationTypeOK, Indexed, Phases,
       Apart, Stages, Places, OneHolder, Replaced, Unknown, Alone, FireRights, ResumeRights,
       Counted, Kept, Coming, Reached, Waiting, Firing, Listed, Taken, Moves
<1>2. ASSUME NEW s \in Source, Cancel(s) \/ CancelStep(s) PROVE Inv'
  <2>1. CASE FireLink(s)
    BY <2>1, FireLinkAgainKeeps, FireLinkFirstKeeps
  <2>2. CASE FireArmed(s)
    BY <2>2, FireArmedPassKeeps, FireArmedExecuteKeeps
  <2>3. CASE Cancel(s) BY <2>3, CancelKeeps
  <2>4. CASE Swap(s) BY <2>4, SwapKeeps
  <2>5. CASE CancelReturns(s) BY <2>5, CancelReturnsKeeps
  <2>6. CASE FireLoad(s) BY <2>6, FireLoadKeeps
  <2>7. CASE FireCall(s) BY <2>7, FireCallKeeps
  <2>8. CASE FireLinked(s) BY <2>8, FireLinkedKeeps
  <2>9. CASE FireExecute(s) BY <2>9, FireExecuteKeeps
  <2> QED BY <1>2, <2>1, <2>2, <2>3, <2>4, <2>5, <2>6, <2>7, <2>8, <2>9 DEF CancelStep
<1>3. ASSUME NEW r \in Reg, OwnerCall(r) \/ OwnerStep(r) PROVE Inv'
  <2>1. ASSUME NEW k \in Sub, NEW s \in Source, Register(r, k, s) PROVE Inv' BY <2>1, RegisterKeeps
  <2>2. ASSUME NEW q \in Reg, Move(r, q) PROVE Inv' BY <2>2, MoveKeeps
  <2>3. CASE Reset(r) BY <2>3, ResetKeeps
  <2>4. CASE TryRegister(r) BY <2>4, AcceptKeeps, RefuseKeeps
  <2>5. CASE RefusedCall(r) BY <2>5, RefusedCallKeeps
  <2>6. CASE RefusedLink(r) BY <2>6, RefusedLinkAgainKeeps, RefusedLinkFirstKeeps
  <2>7. CASE RefusedLinked(r) BY <2>7, RefusedLinkedKeeps
  <2>8. CASE Unregister(r) BY <2>8, UnregisterListedKeeps, UnregisterTakenKeeps
  <2>9. CASE Clear(r) BY <2>9, ClearKeeps
  <2>10. CASE MoveEntry(r) BY <2>10, MoveEntryListedKeeps, MoveEntryTakenKeeps
  <2>11. CASE MoveFinish(r) BY <2>11, MoveFinishKeeps
  <2> QED BY <1>3, <2>1, <2>2, <2>3, <2>4, <2>5, <2>6, <2>7, <2>8, <2>9, <2>10, <2>11
          DEF OwnerCall, OwnerStep
<1> QED BY <1>1, <1>2, <1>3 DEF CancellationNext

\* The invariant holds in every behaviour in which no object is used twice.
LEMMA AlwaysInv == ASSUME MaxUses = 1 PROVE CancellationSpec => []Inv
<1>1. Inv /\ [CancellationNext]_cancellation => Inv' BY StepInv
<1> QED BY <1>1, InitInv, PTL DEF CancellationSpec

\* However Register(), Cancel(), Reset() and moves of any number of owners
\* and sources interleave, no callback is called twice and no coroutine is
\* resumed twice, as long as no registration object is used again.
THEOREM CallbackAtMostOnce == ASSUME MaxUses = 1 PROVE CancellationSpec => []AtMostOnce
<1>1. Inv => AtMostOnce BY DEF Inv, Counted, AtMostOnce
<1> QED BY <1>1, AlwaysInv, PTL

\* Cancel() fires every registration it finds: when it has returned, each
\* one that its owner still holds where it was registered has been called.
THEOREM CancelOverlooksNothing == ASSUME MaxUses = 1 PROVE CancellationSpec => []NothingOverlooked
<1>1. ASSUME Inv PROVE NothingOverlooked
  <2> SUFFICES ASSUME NEW r \in Reg, owner[r] = "held", phase[state[r]] = "done",
  sub[r] \notin relocated
               PROVE  (IF sub[r] \in silent THEN resumed[sub[r]] ELSE fired[sub[r]]) = 1
    BY DEF NothingOverlooked
  <2>1. state[r] \in Source BY <1>1 DEF Inv, Stages
  <2>2. list[state[r]] = <<>> /\ local[state[r]] = <<>> BY <1>1, <2>1 DEF Inv, Phases
  <2>3. ~Waiting(state[r], r) BY <2>2, EmptyList DEF Waiting, Listed, Taken, Elements
  <2> QED BY <1>1, <2>3 DEF Inv, Coming, Reached
<1> QED BY <1>1, AlwaysInv, PTL

\* Nothing fires before the source it was registered with is cancelled.
THEOREM FiresOnlyWhenCanceled == ASSUME MaxUses = 1 PROVE CancellationSpec => []OnlyWhenCanceled
<1>1. Inv => OnlyWhenCanceled BY DEF Inv, Counted, OnlyWhenCanceled
<1> QED BY <1>1, AlwaysInv, PTL

\* No order of registrations, moves and swap-with-last removals leaves a
\* stale pointer, a wrong m_index or a missing entry in the list of a source.
THEOREM ListStaysExact == ASSUME MaxUses = 1 PROVE CancellationSpec => []ListExact
<1>1. ASSUME Inv PROVE ListExact
  <2>1. ASSUME NEW s \in Source, NEW n \in 1..Len(list[s])
        PROVE  index[list[s][n]] = n /\ owner[list[s][n]] \in {"held", "disarmed", "moved",
        "finishing"}
    BY <1>1, EntryListed DEF Inv, Indexed, Places
  <2>2. ASSUME NEW s \in Source, NEW r \in Reg, owner[r] = "held", state[r] = s, ~canceled[s]
        PROVE  r \in Elements(list[s])
    BY <1>1, <2>2 DEF Inv, Kept, Listed
  <2> QED BY <2>1, <2>2 DEF ListExact
<1> QED BY <1>1, AlwaysInv, PTL
=============================================================================
