--------------------------- MODULE StringInterner ---------------------------
(***************************************************************************)
(* NGIN::Utilities::StringInterner: two interners that strings are put     *)
(* into and that are moved into each other.  Each operation holds the      *)
(* interner's mutex from its beginning to its end and is one step.  The    *)
(* bytes are kept in pages; any allocation on the way may fail.  strings   *)
(* is what each interner should hold, in the order of the identifiers.     *)
(***************************************************************************)
EXTENDS Integers, Sequences, FiniteSetsExt
CONSTANTS Text,              \* strings, as sequences of characters
          HashOf(_),         \* FNV1a64
          MinPageCapacity,   \* 4 KiB
          Word,              \* values of a UInt32
          MaxInternOps       \* operations of a behaviour
VARIABLES interner, strings, answer, outstanding, internOps
vars == <<interner, strings, answer, outstanding, internOps>>

Interner == {"a", "b"}
InvalidId == Word - 1
Hash == {HashOf(s) : s \in Text}

Empty == [pages |-> <<>>, entries |-> <<>>, buckets |-> [h \in Hash |-> <<>>], totalBytes |-> 0,
          nextPageCapacity |-> MinPageCapacity]

Init ==
    /\ interner = [i \in Interner |-> Empty]
    /\ strings = [i \in Interner |-> <<>>]
    /\ answer = [got |-> InvalidId, due |-> InvalidId]
    /\ outstanding = 0              \* bytes the allocators have given out
    /\ internOps = 0

-----------------------------------------------------------------------------
(* Lookup.  Identifiers count from zero.                                   *)

GetEntry(t, id) == t.entries[id + 1]
HasEntry(t, id) == id # InvalidId /\ id < Len(t.entries)
ViewOf(t, id) ==
    IF ~HasEntry(t, id) THEN <<>>
    ELSE LET e == GetEntry(t, id) IN SubSeq(t.pages[e.page].data, e.offset + 1, e.offset + e.length)

\* The first entry of the bucket with this length and these bytes.
FindId(t, value) ==
    LET bucket == t.buckets[HashOf(value)]
        hits == {k \in DOMAIN bucket : /\ HasEntry(t, bucket[k])
                                       /\ GetEntry(t, bucket[k]).length = Len(value)
                                       /\ ViewOf(t, bucket[k]) = value}
    IN  IF hits = {} THEN InvalidId ELSE bucket[Min(hits)]

-----------------------------------------------------------------------------
(* Insertion                                                               *)

\* The capacity is doubled until it is enough, or taken as asked where doubling would wrap.
RECURSIVE Grow(_, _)
Grow(capacity, minCapacity) ==
    IF capacity >= minCapacity THEN capacity
    ELSE IF capacity > (Word - 1) \div 2 THEN minCapacity ELSE Grow(capacity * 2, minCapacity)

NewPage(t, minCapacity) ==
    [data |-> <<>>, capacity |-> Grow(Max({MinPageCapacity, t.nextPageCapacity}), minCapacity)]
AllocatePage(t, minCapacity) ==
    LET page == NewPage(t, minCapacity)
    IN  [t EXCEPT !.pages = Append(@, page), !.nextPageCapacity = (page.capacity * 2) % Word]

Last(t) == t.pages[Len(t.pages)]
RemainingInLastPage(t) == IF t.pages = <<>> THEN 0 ELSE Last(t).capacity - Len(Last(t).data)
NeedsPage(t, byteCount) == t.pages = <<>> \/ RemainingInLastPage(t) < byteCount
\* Mutant: a page that has no room is written to.
AllocateBytes_Late(t, byteCount) ==
    IF t.pages = <<>> THEN AllocatePage(t, Max({t.nextPageCapacity, byteCount})) ELSE t

\* Room for the bytes in the last page.
AllocateBytes(t, byteCount) ==
    IF NeedsPage(t, byteCount) THEN AllocatePage(t, Max({t.nextPageCapacity, byteCount})) ELSE t

\* The copy of the string with its terminator (0), the entry and the bucket's identifier.
Stored(t, value) ==
    LET n == Len(t.pages)
        id == Len(t.entries)
        entry == [page |-> n, offset |-> Len(Last(t).data), length |-> Len(value)]
    IN  [t EXCEPT !.pages[n].data = @ \o value \o <<0>>, !.entries = Append(@, entry),
                  !.buckets[HashOf(value)] = Append(@, id), !.totalBytes = @ + Len(value)]

\* fail is the step that fails: the allocator returns null, or a vector or the map throws.  When the entry
\* or the identifier cannot be stored the bytes are taken back, and what is left is room in a page.
InsertOrGetLocked(t, value, fail) ==
    LET byteCount == (Len(value) + 1) % Word
        room == AllocateBytes(t, byteCount)
        paged == NeedsPage(t, byteCount)
    IN  CASE FindId(t, value) # InvalidId -> [t |-> t, id |-> FindId(t, value)]
          [] FindId(t, value) = InvalidId /\ (byteCount = 0 \/ (paged /\ fail \in {"allocate", "pages"})) ->
               [t |-> t, id |-> InvalidId]
          [] FindId(t, value) = InvalidId /\ byteCount # 0 /\ fail \in {"entries", "buckets"} ->
               [t |-> room, id |-> InvalidId]
          [] OTHER -> [t |-> Stored(room, value), id |-> Len(t.entries)]

-----------------------------------------------------------------------------
(* Operations                                                              *)

CapacityOf(t) == MapThenSumSet(LAMBDA k : t.pages[k].capacity, DOMAIN t.pages)
IndexOf(s, value) == IF \E k \in DOMAIN s : s[k] = value THEN (CHOOSE k \in DOMAIN s : s[k] = value) - 1 ELSE InvalidId
Step == internOps < MaxInternOps /\ internOps' = internOps + 1

InsertOrGet(i, value, fail) ==
    /\ Step
    /\ LET done == InsertOrGetLocked(interner[i], value, fail)
           known == IndexOf(strings[i], value)
       IN  /\ interner' = [interner EXCEPT ![i] = done.t]
           /\ outstanding' = outstanding + CapacityOf(done.t) - CapacityOf(interner[i])
           /\ answer' = [got |-> done.id,
                         due |-> IF known # InvalidId THEN known
                                 ELSE IF done.id = InvalidId THEN InvalidId ELSE Len(strings[i])]
           /\ strings' = IF known = InvalidId /\ done.id # InvalidId THEN [strings EXCEPT ![i] = Append(@, value)]
                         ELSE strings

TryGetId(i, value) ==
    /\ Step
    /\ answer' = [got |-> FindId(interner[i], value), due |-> IndexOf(strings[i], value)]
    /\ UNCHANGED <<interner, strings, outstanding>>

\* Every page is deallocated with its capacity.
ReleasePages(t) == CapacityOf(t)
Clear(i) ==
    /\ Step
    /\ outstanding' = outstanding - ReleasePages(interner[i])
    /\ interner' = [interner EXCEPT ![i] = Empty]
    /\ strings' = [strings EXCEPT ![i] = <<>>]
    /\ UNCHANGED answer

\* The pages change owner; the source begins again.
MoveFrom(i, j) == interner' = [interner EXCEPT ![i] = interner[j], ![j] = Empty]
MoveAssign(i, j) ==
    /\ Step
    /\ IF i = j THEN UNCHANGED <<interner, strings, outstanding>>
       ELSE /\ outstanding' = outstanding - ReleasePages(interner[i])
            /\ MoveFrom(i, j)
            /\ strings' = [strings EXCEPT ![i] = strings[j], ![j] = <<>>]
    /\ UNCHANGED answer

Next ==
    \E i \in Interner :
        \/ \E value \in Text : \/ \E fail \in {"none", "allocate", "pages", "entries", "buckets"} : InsertOrGet(i, value, fail)
                               \/ TryGetId(i, value)
        \/ Clear(i)
        \/ \E j \in Interner : MoveAssign(i, j)
Spec == Init /\ [][Next]_vars

-----------------------------------------------------------------------------

\* A string has one identifier, and the identifier gives the string back, whatever was
\* inserted, failed half-way or moved since; every page has one owner and is as large
\* as what is in it.
InternerExact ==
    /\ answer.got = answer.due
    /\ \A i \in Interner :
         LET t == interner[i] IN
         /\ Len(t.entries) = Len(strings[i])
         /\ \A id \in 0..Len(strings[i]) :
              ViewOf(t, id) = IF id < Len(strings[i]) THEN strings[i][id + 1] ELSE <<>>
         /\ \A value \in Text : FindId(t, value) = IndexOf(strings[i], value)
         /\ t.totalBytes = MapThenSumSet(LAMBDA k : Len(strings[i][k]), DOMAIN strings[i])
         /\ \A k \in DOMAIN t.pages : Len(t.pages[k].data) <= t.pages[k].capacity
    /\ outstanding = CapacityOf(interner["a"]) + CapacityOf(interner["b"])
=============================================================================
