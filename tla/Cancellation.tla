---------------------------- MODULE Cancellation ----------------------------
(***************************************************************************)
(* Cancellation sources, tokens, registrations and linked sources          *)
(* (include/NGIN/Async/Cancellation.hpp).                                  *)
(*                                                                         *)
(* A registration object belongs to one owner, who registers, moves and    *)
(* resets it; any thread may cancel a source.  Every critical section of   *)
(* CancellationState::lock, every atomic access and every run of unlocked  *)
(* field accesses is one action, so that Reset() and MoveFrom() interleave *)
(* with a Cancel() that already took the list.  A subscription is the      *)
(* callback with its context, executor and coroutine handle: what one call *)
(* of Register() passes in.                                                *)
(*                                                                         *)
(* Only the first Cancel() of a source gets past its exchange, so the      *)
(* state of that call is kept with the source.  The callback of a linked   *)
(* source cancels its child inside Fire(); the outer call goes on when the *)
(* inner one has returned.                                                 *)
(***************************************************************************)
EXTENDS Naturals, Sequences

CONSTANTS
    Source,         \* cancellation states
    Reg,            \* CancellationRegistration objects
    Fillable,       \* bound: those given to Register(); the others are moved into
    Sub,            \* subscriptions
    Link,           \* subscriptions that are CancelLinkedSource of a source; they have no handle
    Resumes,        \* subscriptions that have an executor and a handle
    MaxUses,        \* bound: how often an object receives a registration
    MaxMoves,       \* bound: calls of MoveFrom()
    None

ASSUME LinkAssumption == Link \in [Sub -> Source \cup {None}]
ASSUME ResumesAssumption == Resumes \subseteq {k \in Sub : Link[k] = None}
ASSUME UsesAssumption == MaxUses \in Nat /\ MaxMoves \in Nat /\ Fillable \subseteq Reg
ASSUME NoneAssumption == None \notin Source \cup Reg \cup Sub

VARIABLES
    canceled,       \* CancellationState::canceled
    list,           \* CancellationState::registrations
    phase,          \* progress of the one Cancel() that does the work
    local,          \* Cancel(): the registrations it took and has not fired
    got,            \* Fire(): m_callback as loaded
    resume,         \* Fire(): shouldResume
    state,          \* m_state of each registration
    silent,         \* subscriptions registered with a null callback
    sub,            \* m_callback, m_callbackCtx, m_exec and m_handle
    index,          \* m_index, counted from 1; 0 is static_cast<UIntSize>(-1)
    armed,          \* m_armed
    owner,          \* what the owner of each registration is doing
    arg,            \* the subscription or source object its call is about
    uses, moves,    \* history: registrations and moves so far
    target,         \* history: the source of each subscription, or None
    released,       \* history: subscriptions whose Reset() has begun
    relocated,      \* history: subscriptions moved to another object
    fired, resumed  \* history: callback calls and Execute(handle) calls

sources == <<canceled, list, phase, local, got, resume>>
fields == <<state, sub, silent, index, armed>>
history == <<uses, moves, target, released, relocated, fired, resumed>>
cancellation == <<sources, fields, owner, arg, history>>

Elements(s) == {s[n] : n \in 1..Len(s)}

CancellationInit ==
    /\ canceled = [s \in Source |-> FALSE]
    /\ list = [s \in Source |-> <<>>]
    /\ phase = [s \in Source |-> "idle"]
    /\ local = [s \in Source |-> <<>>]
    /\ got = [s \in Source |-> None]
    /\ resume = [s \in Source |-> FALSE]
    /\ state = [r \in Reg |-> None]
    /\ sub = [r \in Reg |-> None]
    /\ silent = {}
    /\ index = [r \in Reg |-> 0]
    /\ armed = [r \in Reg |-> FALSE]
    /\ owner = [r \in Reg |-> "empty"]
    /\ arg = [r \in Reg |-> None]
    /\ uses = [r \in Reg |-> 0]
    /\ moves = 0
    /\ target = [k \in Sub |-> None]
    /\ released = {} /\ relocated = {}
    /\ fired = [k \in Sub |-> 0]
    /\ resumed = [k \in Sub |-> 0]

Owner(r, l) == owner' = [owner EXCEPT ![r] = l]
Phase(s, l) == phase' = [phase EXCEPT ![s] = l]
Count(f, k) == [f EXCEPT ![k] = @ + 1]

-----------------------------------------------------------------------------
(* CancellationState::Cancel() and CancellationRegistration::Fire()         *)

\* Cancel() by any thread: the exchange.  A later call returns at once.
Cancel(s) ==
    /\ ~canceled[s]
    /\ canceled' = [canceled EXCEPT ![s] = TRUE]
    /\ Phase(s, "swap")
    /\ UNCHANGED <<list, local, got, resume, fields, owner, arg, history>>

\* Cancel(): the list is taken under the lock.
Swap(s) ==
    /\ phase[s] = "swap"
    /\ local' = [local EXCEPT ![s] = list[s]]
    /\ list' = [list EXCEPT ![s] = <<>>]
    /\ Phase(s, "fire")
    /\ UNCHANGED <<canceled, got, resume, fields, owner, arg, history>>

\* Cancel(): no registration is left to fire.
CancelReturns(s) ==
    /\ phase[s] = "fire"
    /\ local[s] = <<>>
    /\ Phase(s, "done")
    /\ UNCHANGED <<canceled, list, local, got, resume, fields, owner, arg, history>>

\* Fire(): loads m_callback of the registration it is called on.
FireLoad(s) ==
    /\ phase[s] = "fire"
    /\ local[s] # <<>>
    /\ LET k == sub[Head(local[s])] IN
         /\ got' = [got EXCEPT ![s] = k]
         /\ Phase(s, IF k = None \/ k \in silent THEN "arm" ELSE "call")
    /\ resume' = [resume EXCEPT ![s] = TRUE]
    /\ UNCHANGED <<canceled, list, local, fields, owner, arg, history>>

\* Fire(): calls a callback of the user, which asks for a resumption or not.
FireCall(s) ==
    /\ phase[s] = "call"
    /\ Link[got[s]] = None
    /\ fired' = Count(fired, got[s])
    /\ \E b \in BOOLEAN : resume' = [resume EXCEPT ![s] = b]
    /\ Phase(s, "arm")
    /\ UNCHANGED <<canceled, list, local, got, fields, owner, arg,
                   uses, moves, target, released, relocated, resumed>>

\* Fire(): CancelLinkedSource() calls Cancel() on the child: the exchange.
FireLink(s) ==
    /\ phase[s] = "call"
    /\ LET child == Link[got[s]] IN
         /\ child # None
         /\ canceled' = [canceled EXCEPT ![child] = TRUE]
         /\ phase' = IF canceled[child] THEN [phase EXCEPT ![s] = "arm"]
                     ELSE [phase EXCEPT ![s] = "nested", ![child] = "swap"]
    /\ fired' = Count(fired, got[s])
    /\ resume' = [resume EXCEPT ![s] = FALSE]
    /\ UNCHANGED <<list, local, got, fields, owner, arg,
                   uses, moves, target, released, relocated, resumed>>

\* Fire(): the Cancel() of the child has returned.
FireLinked(s) ==
    /\ phase[s] = "nested"
    /\ phase[Link[got[s]]] = "done"
    /\ Phase(s, "arm")
    /\ UNCHANGED <<canceled, list, local, got, resume, fields, owner, arg, history>>

\* Mutant: a failed compare_exchange starts the call again.
FireArmed_Retry(s) ==
    /\ phase[s] = "arm"
    /\ LET r == Head(local[s]) IN
         /\ armed' = [armed EXCEPT ![r] = FALSE]
         /\ Phase(s, IF armed[r] /\ resume[s] THEN "exec" ELSE "fire")
         /\ local' = IF armed[r] /\ ~resume[s] THEN [local EXCEPT ![s] = Tail(@)] ELSE local
    /\ UNCHANGED <<canceled, list, got, resume, state, sub, silent, index, owner, arg, history>>

\* Fire(): compare_exchange on m_armed.
FireArmed(s) ==
    /\ phase[s] = "arm"
    /\ LET r == Head(local[s]) IN
         /\ armed' = [armed EXCEPT ![r] = FALSE]
         /\ IF armed[r] /\ resume[s]
            THEN Phase(s, "exec") /\ UNCHANGED local
            ELSE Phase(s, "fire") /\ local' = [local EXCEPT ![s] = Tail(@)]
    /\ UNCHANGED <<canceled, list, got, resume, state, sub, silent, index, owner, arg, history>>

\* Fire(): m_exec.Execute(m_handle), when both are set.
FireExecute(s) ==
    /\ phase[s] = "exec"
    /\ LET k == sub[Head(local[s])] IN
         resumed' = IF k \in Resumes THEN Count(resumed, k) ELSE resumed
    /\ local' = [local EXCEPT ![s] = Tail(@)]
    /\ Phase(s, "fire")
    /\ UNCHANGED <<canceled, list, got, resume, fields, owner, arg,
                   uses, moves, target, released, relocated, fired>>

-----------------------------------------------------------------------------
(* CancellationToken::Register()                                            *)

\* The fields are filled in.  A subscription with a handle may come without a
\* callback; one with neither returns before it registers anything.
Register(r, k, s) ==
    /\ owner[r] = "empty"
    /\ r \in Fillable /\ uses[r] < MaxUses
    /\ target[k] = None
    /\ Link[k] # s
    /\ state' = [state EXCEPT ![r] = s]
    /\ sub' = [sub EXCEPT ![r] = k]
    /\ silent' \in {silent} \cup {silent \cup {k} : j \in {k} \cap Resumes}
    /\ armed' = [armed EXCEPT ![r] = TRUE]
    /\ uses' = Count(uses, r)
    /\ target' = [target EXCEPT ![k] = s]
    /\ Owner(r, "filled")
    /\ UNCHANGED <<sources, index, arg, moves, released, relocated, fired, resumed>>

\* The registration is appended; its position is recorded as n.
Accept(r, n) ==
    /\ list' = [list EXCEPT ![state[r]] = Append(@, r)]
    /\ index' = [index EXCEPT ![r] = n]
    /\ Owner(r, "held")
    /\ UNCHANGED <<state, sub, armed, arg>>

\* The registration is refused and its fields are cleared.
Refuse(r) ==
    /\ arg' = [arg EXCEPT ![r] = sub[r]]
    /\ state' = [state EXCEPT ![r] = None]
    /\ sub' = [sub EXCEPT ![r] = None]
    /\ armed' = [armed EXCEPT ![r] = FALSE]
    /\ Owner(r, "refused")
    /\ UNCHANGED <<list, index>>

Size(r) == Len(list[state[r]])

TryRegisterIf(r, refused, n) ==
    /\ owner[r] = "filled"
    /\ IF refused THEN Refuse(r) ELSE Accept(r, n)
    /\ UNCHANGED <<canceled, phase, local, got, resume, silent, history>>

\* Mutant: the canceled flag is not tested under the lock.
TryRegister_Unchecked(r) == TryRegisterIf(r, FALSE, Size(r) + 1)

\* TryRegister(), under the lock.
TryRegister(r) == TryRegisterIf(r, canceled[state[r]], Size(r) + 1)

\* A refused Register() calls the callback itself and resumes the handle.
RefusedCall(r) ==
    /\ owner[r] = "refused"
    /\ LET k == arg[r] IN
         /\ Link[k] = None
         /\ fired' = IF k \in silent THEN fired ELSE Count(fired, k)
         /\ \/ k \in Resumes /\ resumed' = Count(resumed, k)
            \/ k \notin silent /\ UNCHANGED resumed
    /\ Owner(r, "empty")
    /\ arg' = [arg EXCEPT ![r] = None]
    /\ UNCHANGED <<sources, fields, uses, moves, target, released, relocated>>

\* A refused Register() whose callback is CancelLinkedSource(): the exchange.
RefusedLink(r) ==
    /\ owner[r] = "refused"
    /\ LET child == Link[arg[r]] IN
         /\ child # None
         /\ canceled' = [canceled EXCEPT ![child] = TRUE]
         /\ IF canceled[child] THEN Owner(r, "empty") /\ UNCHANGED phase
            ELSE Owner(r, "nested") /\ Phase(child, "swap")
         /\ arg' = IF canceled[child] THEN [arg EXCEPT ![r] = None] ELSE arg
    /\ fired' = Count(fired, arg[r])
    /\ UNCHANGED <<list, local, got, resume, fields, uses, moves, target, released, relocated, resumed>>

\* ... and its Cancel() has returned.
RefusedLinked(r) ==
    /\ owner[r] = "nested"
    /\ phase[Link[arg[r]]] = "done"
    /\ Owner(r, "empty")
    /\ arg' = [arg EXCEPT ![r] = None]
    /\ UNCHANGED <<sources, fields, history>>

-----------------------------------------------------------------------------
(* CancellationRegistration::Reset(), also run by the destructor            *)

\* m_armed is cleared.
Reset(r) ==
    /\ owner[r] = "held"
    /\ armed' = [armed EXCEPT ![r] = FALSE]
    /\ released' = released \cup {sub[r]}
    /\ Owner(r, "disarmed")
    /\ UNCHANGED <<sources, state, sub, silent, index, arg, uses, moves, target, relocated, fired, resumed>>

\* The position of r in s, found through m_index or by the search.
Position(s, r) == CHOOSE n \in 1..Len(list[s]) : list[s][n] = r

\* The list of s without position n: the last entry takes its place.
SwapRemove(s, n) ==
    SubSeq([list[s] EXCEPT ![n] = list[s][Len(list[s])]], 1, Len(list[s]) - 1)

\* Unregister(), under the lock.
Unregister(r) ==
    /\ owner[r] = "disarmed"
    /\ LET s == state[r] IN
         IF r \in Elements(list[s])
         THEN LET n == Position(s, r) IN
              /\ list' = [list EXCEPT ![s] = SwapRemove(s, n)]
              /\ index' = [index EXCEPT ![list[s][Len(list[s])]] = n]
         ELSE UNCHANGED <<list, index>>
    /\ Owner(r, "unregistered")
    /\ UNCHANGED <<canceled, phase, local, got, resume, state, sub, silent, armed, arg, history>>

\* The other fields are cleared; the object may be destroyed or used again.
Clear(r) ==
    /\ owner[r] = "unregistered"
    /\ state' = [state EXCEPT ![r] = None]
    /\ sub' = [sub EXCEPT ![r] = None]
    /\ index' = [index EXCEPT ![r] = 0]
    /\ Owner(r, "empty")
    /\ UNCHANGED <<sources, silent, armed, arg, history>>

-----------------------------------------------------------------------------
(* CancellationRegistration::MoveFrom(), into an empty object               *)

\* The fields are taken from the source object q.
Move(r, q) ==
    /\ owner[r] = "empty" /\ owner[q] = "held"
    /\ uses[r] < MaxUses /\ moves < MaxMoves
    /\ state' = [state EXCEPT ![r] = state[q], ![q] = None]
    /\ sub' = [sub EXCEPT ![r] = sub[q]]
    /\ index' = [index EXCEPT ![r] = index[q]]
    /\ armed' = [armed EXCEPT ![r] = armed[q], ![q] = FALSE]
    /\ arg' = [arg EXCEPT ![r] = q]
    /\ owner' = [owner EXCEPT ![r] = "moving", ![q] = "moved"]
    /\ uses' = Count(uses, r)
    /\ moves' = moves + 1
    /\ relocated' = relocated \cup {sub[q]}
    /\ UNCHANGED <<sources, silent, target, released, fired, resumed>>

\* Under the lock, the list entry of q is replaced, if it is still there.
MoveEntry(r) ==
    /\ owner[r] = "moving"
    /\ LET s == state[r] IN
         IF arg[r] \in Elements(list[s])
         THEN LET n == Position(s, arg[r]) IN
              /\ list' = [list EXCEPT ![s][n] = r]
              /\ index' = [index EXCEPT ![r] = n]
         ELSE UNCHANGED <<list, index>>
    /\ Owner(r, "finishing")
    /\ UNCHANGED <<canceled, phase, local, got, resume, state, sub, silent, armed, arg, history>>

\* The fields of q are cleared.
MoveFinish(r) ==
    /\ owner[r] = "finishing"
    /\ sub' = [sub EXCEPT ![arg[r]] = None]
    /\ index' = [index EXCEPT ![arg[r]] = 0]
    /\ owner' = [owner EXCEPT ![r] = "held", ![arg[r]] = "empty"]
    /\ arg' = [arg EXCEPT ![r] = None]
    /\ UNCHANGED <<sources, state, silent, armed, history>>

-----------------------------------------------------------------------------
CancelStep(s) ==
    \/ Swap(s) \/ CancelReturns(s)
    \/ FireLoad(s) \/ FireCall(s) \/ FireLink(s) \/ FireLinked(s)
    \/ FireArmed(s) \/ FireExecute(s)

\* The rest of a call that the owner has begun.
OwnerStep(r) ==
    \/ TryRegister(r) \/ RefusedCall(r) \/ RefusedLink(r) \/ RefusedLinked(r)
    \/ Unregister(r) \/ Clear(r) \/ MoveEntry(r) \/ MoveFinish(r)

OwnerCall(r) ==
    \/ \E k \in Sub, s \in Source : Register(r, k, s)
    \/ Reset(r)
    \/ \E q \in Reg : Move(r, q)

CancellationNext ==
    \/ \E s \in Source : Cancel(s) \/ CancelStep(s)
    \/ \E r \in Reg : OwnerCall(r) \/ OwnerStep(r)

CancellationSpec == CancellationInit /\ [][CancellationNext]_cancellation

\* Threads that are inside a call go on; nobody has to call anything.
CancellationFairness ==
    /\ \A s \in Source : WF_cancellation(CancelStep(s))
    /\ \A r \in Reg : WF_cancellation(OwnerStep(r))

-----------------------------------------------------------------------------
CancellationTypeOK ==
    /\ canceled \in [Source -> BOOLEAN]
    /\ list \in [Source -> Seq(Reg)] /\ local \in [Source -> Seq(Reg)]
    /\ phase \in [Source -> {"idle", "swap", "fire", "call", "nested", "arm", "exec", "done"}]
    /\ got \in [Source -> Sub \cup {None}]
    /\ resume \in [Source -> BOOLEAN]
    /\ state \in [Reg -> Source \cup {None}]
    /\ sub \in [Reg -> Sub \cup {None}]
    /\ silent \in SUBSET Resumes
    /\ index \in [Reg -> Nat]
    /\ armed \in [Reg -> BOOLEAN]
    /\ owner \in [Reg -> {"empty", "filled", "refused", "nested", "held", "disarmed",
                          "unregistered", "moving", "moved", "finishing"}]
    /\ arg \in [Reg -> Sub \cup Reg \cup {None}]
    /\ uses \in [Reg -> 0..MaxUses] /\ moves \in 0..MaxMoves
    /\ target \in [Sub -> Source \cup {None}]
    /\ released \in SUBSET Sub /\ relocated \in SUBSET Sub
    /\ fired \in [Sub -> Nat] /\ resumed \in [Sub -> Nat]

\* The list of a source is exact: each entry is there once, is found at its
\* m_index, and is an object that still holds a registration, so that no
\* sequence of registrations, moves and swap-with-last removals leaves a
\* pointer behind for Cancel() to take; and until the source is cancelled
\* every registration its owner holds is in it.
ListExact ==
    \A s \in Source :
        /\ \A n \in 1..Len(list[s]) :
              index[list[s][n]] = n /\ owner[list[s][n]] \in {"held", "disarmed", "moved", "finishing"}
        /\ \A r \in Reg : owner[r] = "held" /\ state[r] = s /\ ~canceled[s]
                             => r \in Elements(list[s])

\* A callback runs at most once, and its coroutine is resumed at most once,
\* although Register(), Cancel() of the source and Reset() race for it.
AtMostOnce == \A k \in Sub : fired[k] <= 1 /\ resumed[k] <= 1

\* Nothing fires before its own source was cancelled.
OnlyWhenCanceled ==
    \A k \in Sub : fired[k] + resumed[k] > 0 => canceled[target[k]]

\* Cancel() never overlooks a registration: when it has returned, and the
\* owner still holds the registration in the object it registered, the
\* callback has run, or the handle of a registration without one was resumed.
\* (MoveFrom() while Cancel() fires is not covered: the registration is lost.)
NothingOverlooked ==
    \A r \in Reg :
        owner[r] = "held" /\ phase[state[r]] = "done" /\ sub[r] \notin relocated
            => (IF sub[r] \in silent THEN resumed[sub[r]] ELSE fired[sub[r]]) = 1

\* A cancelled source reaches every registration its owner keeps, through a
\* chain of linked sources too, and a registration that was refused.
CancelReaches ==
    \A k \in Sub :
        (\E s \in Source : target[k] = s /\ canceled[s])
            ~> fired[k] + resumed[k] > 0 \/ k \in released \cup relocated

\* Cancel() returns, also when its callbacks cancel further sources.
CancelTerminates == \A s \in Source : canceled[s] ~> phase[s] = "done"
=============================================================================
