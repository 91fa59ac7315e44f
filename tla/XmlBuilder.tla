----------------------------- MODULE XmlBuilder -----------------------------
(***************************************************************************)
(* XML::Builder: nodes are added bottom up and frozen into a document.     *)
(* The children of an element are not a list of their own but a chain      *)
(* through the nextSibling field of the children's node records, so a node *)
(* can be a child only once: attached remembers which nodes are.           *)
(*                                                                         *)
(* Identifiers count from 1, and 0 is the code's UInt32(-1).  The history  *)
(* variable given records the children each element was built with.        *)
(***************************************************************************)
EXTENDS Integers, Sequences
CONSTANTS MaxNodes,      \* limits.maxNodes
          MaxMembers,    \* limits.maxMembers
          Names,         \* attribute names
          MaxArity       \* bound on the attributes and children of a call

VARIABLES nodes, attached, elements, attributes, childCount, root, done, given
vars == <<nodes, attached, elements, attributes, childCount, root, done, given>>

Leaves == {"Text", "CData", "Comment", "ProcessingInstruction"}
NoSibling == 0

Init ==
    /\ nodes = <<>> /\ attached = <<>> /\ elements = <<>> /\ attributes = <<>>
    /\ childCount = 0 /\ root = 0 /\ done = FALSE
    /\ given = <<>>

Valid(id) == id \in 1 .. Len(nodes)

\* Impl::Add with room for one node more; storage may run out all the same.
HasRoom == Len(nodes) < MaxNodes
Node(kind, element) == [kind |-> kind, element |-> element, nextSibling |-> NoSibling]

\* Text(), CData(), Comment(), ProcessingInstruction() of valid content.  With
\* invalid content, without room or without memory they change nothing.
AddLeaf(kind) ==
    /\ ~done /\ HasRoom
    /\ nodes' = Append(nodes, Node(kind, 0))
    /\ attached' = Append(attached, FALSE)
    /\ UNCHANGED <<elements, attributes, childCount, root, done, given>>

\* The checks of Element() before anything is stored.
Distinct(s) == \A i, j \in DOMAIN s : i # j => s[i] # s[j]

\* Mutant: a node that has a parent is accepted again.
Attachable_Twice(children) ==
    /\ \A i \in DOMAIN children : Valid(children[i])
    /\ Distinct(children)

Attachable(children) ==
    /\ \A i \in DOMAIN children : Valid(children[i]) /\ ~attached[children[i]]
    /\ Distinct(children)
Admissible(names, children) ==
    /\ Len(names) <= MaxMembers - Len(attributes)
    /\ Len(children) <= MaxMembers - childCount
    /\ Distinct(names)
    /\ Attachable(children)

\* attributes.resize(attributeBegin) on the way out of a failure.
Rollback(stored) == SubSeq(stored, 1, Len(attributes))

\* Element() that runs out of memory when count attributes are stored, or that
\* finds no room for its node when all are.
ElementFails(names, children, count) ==
    /\ ~done /\ Admissible(names, children)
    /\ attributes' = Rollback(attributes \o SubSeq(names, 1, count))
    /\ UNCHANGED <<nodes, attached, elements, childCount, root, done, given>>

\* The node that follows children[i].
Sibling(children, i) == IF i < Len(children) THEN children[i + 1] ELSE NoSibling
Position(children, id) == CHOOSE i \in DOMAIN children : children[i] = id
IsChild(children, id) == \E i \in DOMAIN children : children[i] = id

Element(names, children) ==
    /\ ~done /\ Admissible(names, children) /\ HasRoom
    /\ elements' = Append(elements,
          [begin |-> Len(attributes), count |-> Len(names),
           first |-> IF children = <<>> THEN NoSibling ELSE children[1],
           size  |-> Len(children)])
    /\ attributes' = attributes \o names
    /\ nodes' = Append([id \in 1 .. Len(nodes) |->
                          IF IsChild(children, id)
                          THEN [nodes[id] EXCEPT !.nextSibling = Sibling(children, Position(children, id))]
                          ELSE nodes[id]],
                       Node("Element", Len(elements) + 1))
    /\ attached' = Append([id \in 1 .. Len(nodes) |-> attached[id] \/ IsChild(children, id)], FALSE)
    /\ childCount' = childCount + Len(children)
    /\ given' = Append(given, children)
    /\ UNCHANGED <<root, done>>

\* Finish(): the root is set before the memory limit is looked at.
Finish(id, within) ==
    /\ ~done /\ Valid(id) /\ nodes[id].kind = "Element" /\ ~attached[id]
    /\ root' = id
    /\ done' = within
    /\ attached' = IF within THEN <<>> ELSE attached
    /\ UNCHANGED <<nodes, elements, attributes, childCount, given>>

\* A caller names the children it built before, in any order.
Next ==
    \/ \E kind \in Leaves : AddLeaf(kind)
    \/ \E a, c \in 0 .. MaxArity : \E names \in [1 .. a -> Names], children \in [1 .. c -> 1 .. MaxNodes] :
          \/ Element(names, children)
          \/ \E count \in 0 .. Len(names) : ElementFails(names, children, count)
    \/ \E id \in 1 .. MaxNodes, within \in BOOLEAN : Finish(id, within)
Spec == Init /\ [][Next]_vars

-----------------------------------------------------------------------------
(* Properties *)

\* Following first and nextSibling visits the children the element was built
\* with, in order, and stops after the last: no later call can bend the chain
\* of an element that exists.
ChainExact ==
    \A e \in DOMAIN elements :
        /\ elements[e].size = Len(given[e])
        /\ elements[e].first = IF given[e] = <<>> THEN NoSibling ELSE given[e][1]
        /\ \A i \in DOMAIN given[e] : nodes[given[e][i]].nextSibling = Sibling(given[e], i)

\* A node is a child of at most one element, at one place, and of an element
\* made after it; while building, attached marks exactly the children, and
\* the root of a document is nobody's child.
Forest ==
    /\ \A e, f \in DOMAIN given : \A i \in DOMAIN given[e], j \in DOMAIN given[f] :
          given[e][i] = given[f][j] => e = f /\ i = j
    /\ \A n \in DOMAIN nodes : nodes[n].kind = "Element" =>
          /\ nodes[n].element \in DOMAIN given
          /\ \A i \in DOMAIN given[nodes[n].element] : given[nodes[n].element][i] < n
    /\ ~done => \A n \in DOMAIN nodes :
          attached[n] <=> \E e \in DOMAIN given : \E i \in DOMAIN given[e] : given[e][i] = n
    /\ done => \A e \in DOMAIN given : \A i \in DOMAIN given[e] : given[e][i] # root

\* The attributes of the elements lie in the table one after the other,
\* without gaps and with nothing behind the last, whatever calls failed.
AttributesTile ==
    /\ elements = <<>> => attributes = <<>>
    /\ \A e \in DOMAIN elements :
          /\ elements[e].begin = IF e = 1 THEN 0 ELSE elements[e - 1].begin + elements[e - 1].count
          /\ e = Len(elements) => elements[e].begin + elements[e].count = Len(attributes)

\* What Builder promises: what was built is a tree, and reads as it was built.
BuiltTree == ChainExact /\ Forest /\ AttributesTile
=============================================================================
