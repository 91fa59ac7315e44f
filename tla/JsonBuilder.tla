----------------------------- MODULE JsonBuilder -----------------------------
(***************************************************************************)
(* JSON::Builder: values are added bottom up and frozen into a document.   *)
(* An array or object is a range of a table that all of them share; a      *)
(* value may be used in several places.                                    *)
(*                                                                         *)
(* Identifiers count from 1.  The history variable given records what each *)
(* node was built from.                                                    *)
(***************************************************************************)
EXTENDS Integers, Sequences
CONSTANTS MaxNodes,      \* limits.maxNodes
          MaxMembers,    \* limits.maxMembers
          Keys,          \* keys of members
          MaxArity       \* bound on the values of a call

VARIABLES nodes, elements, members, valueViews, root, done, given
vars == <<nodes, elements, members, valueViews, root, done, given>>

Init ==
    /\ nodes = <<>> /\ elements = <<>> /\ members = <<>> /\ valueViews = <<>>
    /\ root = 0 /\ done = FALSE
    /\ given = <<>>

Valid(id) == id \in 1 .. Len(nodes)

\* Impl::Add: no room, no memory and the memory limit all refuse the node, and
\* then it is not in the table.
HasRoom == Len(nodes) < MaxNodes
Add(node, content) == nodes' = Append(nodes, node) /\ given' = Append(given, content)

Scalar ==
    /\ ~done /\ HasRoom
    /\ Add([kind |-> "Scalar", begin |-> 0, count |-> 0], <<>>)
    /\ UNCHANGED <<elements, members, valueViews, root, done>>

\* The end of the table moves back to where a failing call found it.
Rollback(stored, table) == SubSeq(stored, 1, Len(table))

\* Array() checks the handles, stores the values and then asks for a node.
ArrayStores(values, added) ==
    /\ ~done /\ \A i \in DOMAIN values : Valid(values[i])
    /\ IF added
       THEN /\ HasRoom
            /\ Add([kind |-> "Array", begin |-> Len(elements), count |-> Len(values)], values)
            /\ elements' = elements \o values
       ELSE /\ elements' = Rollback(elements \o values, elements)
            /\ UNCHANGED <<nodes, given>>
    /\ UNCHANGED <<members, valueViews, root, done>>

\* Mutant: the members stored before an invalid handle stay.
ObjectFails_Keeps(ms, count) ==
    /\ ~done /\ Len(ms) <= MaxMembers - Len(members)
    /\ \A i, j \in DOMAIN ms : i # j => ms[i][1] # ms[j][1]
    /\ members' = members \o SubSeq(ms, 1, count)
    /\ UNCHANGED <<nodes, elements, valueViews, root, done, given>>

\* Object() checks the keys first and each handle just before it is stored.
ObjectFails(ms, count) ==
    /\ ~done /\ Len(ms) <= MaxMembers - Len(members)
    /\ \A i, j \in DOMAIN ms : i # j => ms[i][1] # ms[j][1]
    /\ members' = Rollback(members \o SubSeq(ms, 1, count), members)
    /\ UNCHANGED <<nodes, elements, valueViews, root, done, given>>

Object(ms) ==
    /\ ~done /\ Len(ms) <= MaxMembers - Len(members)
    /\ \A i, j \in DOMAIN ms : i # j => ms[i][1] # ms[j][1]
    /\ \A i \in DOMAIN ms : Valid(ms[i][2])
    /\ HasRoom
    /\ Add([kind |-> "Object", begin |-> Len(members), count |-> Len(ms)], ms)
    /\ members' = members \o ms
    /\ UNCHANGED <<elements, valueViews, root, done>>

\* Finish(): the root is set and the views are made before the memory limit is
\* looked at; a builder that failed there may be used and finished again.
Views == [id \in 1 .. Len(nodes) |-> id]
Finish(id, within) ==
    /\ ~done /\ Valid(id)
    /\ root' = id
    /\ valueViews' = Views
    /\ done' = within
    /\ UNCHANGED <<nodes, elements, members, given>>

Next ==
    \/ Scalar
    \/ \E c \in 0 .. MaxArity :
          \/ \E values \in [1 .. c -> 1 .. MaxNodes], added \in BOOLEAN : ArrayStores(values, added)
          \/ \E ms \in [1 .. c -> Keys \X (1 .. MaxNodes)] :
                Object(ms) \/ \E count \in 0 .. c : ObjectFails(ms, count)
    \/ \E id \in 1 .. MaxNodes, within \in BOOLEAN : Finish(id, within)
Spec == Init /\ [][Next]_vars

-----------------------------------------------------------------------------
(* Properties *)

Range(n) == SubSeq(IF nodes[n].kind = "Array" THEN elements ELSE members,
                   nodes[n].begin + 1, nodes[n].begin + nodes[n].count)
Ends(kind, table) ==
    LET own == {n \in DOMAIN nodes : nodes[n].kind = kind}
    IN  IF own = {} THEN table = <<>>
        ELSE \E n \in own : /\ \A k \in own : k <= n
                            /\ nodes[n].begin + nodes[n].count = Len(table)

\* Every array and object reads as it was built, whatever was added or failed
\* after it; it refers to values older than itself, so no value contains
\* itself; the tables hold nothing else; and a document has a view of each of
\* its values.
BuiltDocument ==
    /\ \A n \in DOMAIN nodes : nodes[n].kind # "Scalar" => Range(n) = given[n]
    /\ \A n \in DOMAIN nodes : \A i \in DOMAIN given[n] :
          (IF nodes[n].kind = "Array" THEN given[n][i] ELSE given[n][i][2]) < n
    /\ Ends("Array", elements) /\ Ends("Object", members)
    /\ done => root \in DOMAIN nodes /\ valueViews = [id \in DOMAIN nodes |-> id]
=============================================================================
