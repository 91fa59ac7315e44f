-------------------------- MODULE XmlBuilderProofs --------------------------
(***************************************************************************)
(* XML::Builder builds trees, for every limit and every number of calls.   *)
(*                                                                         *)
(* BuiltTree is not inductive: it says nothing of the sizes of the tables. *)
(* IInv adds them (Shape): the records of nodes and of attached go in step *)
(* while building, those of elements and of given always, and the children *)
(* of an element are nodes that exist.                                     *)
(***************************************************************************)
EXTENDS XmlBuilder, TLAPS

NodeRecord    == [kind : Leaves \cup {"Element"}, element : Nat, nextSibling : Nat]
ElementRecord == [begin : Nat, count : Nat, first : Nat, size : Nat]

Shape ==
    /\ nodes \in Seq(NodeRecord)
    /\ elements \in Seq(ElementRecord)
    /\ attributes \in Seq(Names)
    /\ given \in Seq(Seq(Nat))
    /\ done \in BOOLEAN
    /\ ~done => attached \in Seq(BOOLEAN) /\ Len(attached) = Len(nodes)
    /\ Len(given) = Len(elements)
    /\ \A e \in DOMAIN given : \A i \in DOMAIN given[e] : given[e][i] \in 1 .. Len(nodes)

IInv == Shape /\ BuiltTree

\* A call's arguments are sequences.
LEMMA FunctionsAreSequences ==
    ASSUME NEW n \in Nat, NEW S, NEW f \in [1 .. n -> S]
    PROVE  f \in Seq(S) /\ Len(f) = n
OBVIOUS

\* push_back().
LEMMA Appended ==
    ASSUME NEW S, NEW s \in Seq(S), NEW x \in S
    PROVE  /\ Append(s, x) \in Seq(S) /\ Len(Append(s, x)) = Len(s) + 1
           /\ \A n \in 1 .. Len(s) : Append(s, x)[n] = s[n]
           /\ Append(s, x)[Len(s) + 1] = x
OBVIOUS

\* insert() at the end.
LEMMA Concatenated ==
    ASSUME NEW S, NEW s \in Seq(S), NEW t \in Seq(S)
    PROVE  s \o t \in Seq(S) /\ Len(s \o t) = Len(s) + Len(t)
OBVIOUS

\* resize() to the size before restores the table (Element()'s error paths).
LEMMA RollbackRestores ==
    ASSUME NEW S, NEW s \in Seq(S), NEW t \in Seq(S)
    PROVE  SubSeq(s \o t, 1, Len(s)) = s
OBVIOUS

\* The beginning of a sequence is one.
LEMMA PrefixIsSequence ==
    ASSUME NEW S, NEW t \in Seq(S), NEW c \in 0 .. Len(t)
    PROVE  SubSeq(t, 1, c) \in Seq(S)
OBVIOUS

LEMMA Initial == Init => IInv
<1> SUFFICES ASSUME Init PROVE IInv
    OBVIOUS
<1>1. Shape
  <2>1. nodes \in Seq(NodeRecord) /\ elements \in Seq(ElementRecord) /\ attributes \in Seq(Names)
      BY DEF Init
  <2>2. given \in Seq(Seq(Nat)) /\ DOMAIN given = {}
      BY DEF Init
  <2>3. attached \in Seq(BOOLEAN) /\ Len(attached) = Len(nodes) /\ Len(given) = Len(elements) /\ done = FALSE
      BY DEF Init
  <2> QED
      BY <2>1, <2>2, <2>3 DEF Shape
<1>2. ChainExact
    BY DEF Init, ChainExact
<1>3. Forest
    BY DEF Init, Forest
<1>4. AttributesTile
    BY DEF Init, AttributesTile
<1> QED
    BY <1>1, <1>2, <1>3, <1>4 DEF IInv, BuiltTree

\* Text(), CData(), Comment() and ProcessingInstruction().
LEMMA LeafStep ==
    ASSUME IInv, NEW kind \in Leaves, AddLeaf(kind)
    PROVE  IInv'
<1> USE DEF IInv, BuiltTree
<1>1. /\ ~done /\ ~done' /\ given' = given /\ elements' = elements /\ attributes' = attributes
      /\ nodes \in Seq(NodeRecord) /\ attached \in Seq(BOOLEAN) /\ Len(attached) = Len(nodes)
      /\ given \in Seq(Seq(Nat)) /\ Len(given) = Len(elements)
      /\ \A e \in DOMAIN given : \A i \in DOMAIN given[e] : given[e][i] \in 1 .. Len(nodes)
    BY DEF AddLeaf, Shape
<1>2. Node(kind, 0) \in NodeRecord
    BY DEF Node, NodeRecord, NoSibling, Leaves
<1>3. /\ nodes' \in Seq(NodeRecord) /\ Len(nodes') = Len(nodes) + 1
      /\ attached' \in Seq(BOOLEAN) /\ Len(attached') = Len(nodes) + 1
      /\ \A n \in 1 .. Len(nodes) : nodes'[n] = nodes[n] /\ attached'[n] = attached[n]
      /\ nodes'[Len(nodes) + 1] = Node(kind, 0) /\ attached'[Len(nodes) + 1] = FALSE
  <2>1. nodes' = Append(nodes, Node(kind, 0)) /\ attached' = Append(attached, FALSE)
      BY DEF AddLeaf
  <2>2. FALSE \in BOOLEAN
      OBVIOUS
  <2> HIDE DEF IInv, BuiltTree
  <2>3. /\ nodes' \in Seq(NodeRecord) /\ Len(nodes') = Len(nodes) + 1
        /\ \A n \in 1 .. Len(nodes) : nodes'[n] = nodes[n]
        /\ nodes'[Len(nodes) + 1] = Node(kind, 0)
      BY <1>1, <1>2, <2>1, Appended
  <2>4. /\ attached' \in Seq(BOOLEAN) /\ Len(attached') = Len(attached) + 1
        /\ \A n \in 1 .. Len(attached) : attached'[n] = attached[n]
        /\ attached'[Len(attached) + 1] = FALSE
      BY <1>1, <2>1, <2>2, Appended, Zenon
  <2> QED
      BY <1>1, <2>3, <2>4
<1>4. Shape'
    BY <1>1, <1>3 DEF Shape, AddLeaf
<1>5. ChainExact'
    BY <1>1, <1>3 DEF ChainExact, Sibling
<1>6. Forest'
  <2>1. \A n \in DOMAIN nodes' : nodes'[n].kind = "Element" => n \in DOMAIN nodes
      BY <1>1, <1>3 DEF Node, Leaves
  <2>2. \A n \in DOMAIN nodes' : nodes'[n].kind = "Element" =>
          /\ nodes'[n].element \in DOMAIN given'
          /\ \A i \in DOMAIN given'[nodes'[n].element] : given'[nodes'[n].element][i] < n
      BY <2>1, <1>1, <1>3 DEF Forest
  <2>3. \A n \in DOMAIN nodes' :
          attached'[n] <=> \E e \in DOMAIN given' : \E i \in DOMAIN given'[e] : given'[e][i] = n
      BY <1>1, <1>3 DEF Forest
  <2> QED
      BY <2>2, <2>3, <1>1 DEF Forest
<1>7. AttributesTile'
    BY <1>1 DEF AttributesTile
<1> QED
    BY <1>4, <1>5, <1>6, <1>7

\* Element() that fails on the way restores what it found.
LEMMA FailedElementStep ==
    ASSUME IInv, NEW a \in Nat, NEW c \in Nat, NEW names \in [1 .. a -> Names],
           NEW children \in [1 .. c -> 1 .. MaxNodes], NEW count \in 0 .. Len(names),
           ElementFails(names, children, count)
    PROVE  IInv'
<1>1. names \in Seq(Names) /\ Len(names) = a
    BY FunctionsAreSequences
<1>2. attributes \in Seq(Names)
    BY DEF IInv, Shape
<1>3. attributes' = attributes
    BY <1>1, <1>2, PrefixIsSequence, RollbackRestores DEF ElementFails, Rollback
<1>4. UNCHANGED vars
    BY <1>3 DEF ElementFails, vars
<1> QED
    BY <1>4 DEF IInv, Shape, BuiltTree, ChainExact, Forest, AttributesTile, vars

\* Finish(): the root has no parent, and nothing else changes.
LEMMA FinishStep ==
    ASSUME IInv, NEW id, NEW within \in BOOLEAN, Finish(id, within)
    PROVE  IInv'
<1> USE DEF IInv, BuiltTree
<1>1. /\ UNCHANGED <<nodes, elements, attributes, given>>
      /\ ~done /\ done' = within /\ root' = id
      /\ id \in DOMAIN nodes /\ ~attached[id]
      /\ (~within => attached' = attached)
    BY DEF Finish, Valid, Shape
<1>2. Shape'
    BY <1>1 DEF Shape
<1>3. ChainExact' /\ AttributesTile'
    BY <1>1 DEF ChainExact, AttributesTile
<1>4. \A e \in DOMAIN given : \A i \in DOMAIN given[e] : given[e][i] # id
    BY <1>1 DEF Forest
<1>5. Forest'
    BY <1>1, <1>4 DEF Forest
<1> QED
    BY <1>2, <1>3, <1>5

\* Element(): the children had no parent, so that no other chain runs through
\* the records it writes to.
LEMMA ElementStep ==
    ASSUME IInv, NEW a \in Nat, NEW c \in Nat, NEW names \in [1 .. a -> Names],
           NEW children \in [1 .. c -> 1 .. MaxNodes], Element(names, children)
    PROVE  IInv'
<1> DEFINE N   == Len(nodes)
           E   == Len(elements)
           new == [begin |-> Len(attributes), count |-> Len(names),
                   first |-> IF children = <<>> THEN NoSibling ELSE children[1],
                   size  |-> Len(children)]
           linked == [id \in 1 .. N |-> IF IsChild(children, id)
                          THEN [nodes[id] EXCEPT !.nextSibling = Sibling(children, Position(children, id))]
                          ELSE nodes[id]]
           marked == [id \in 1 .. N |-> attached[id] \/ IsChild(children, id)]
<1>1. nodes \in Seq(NodeRecord) /\ N \in Nat /\ DOMAIN nodes = 1 .. N
    BY DEF IInv, Shape
<1>a. elements \in Seq(ElementRecord) /\ E \in Nat /\ DOMAIN elements = 1 .. E
    BY DEF IInv, Shape
<1>b. attributes \in Seq(Names) /\ Len(attributes) \in Nat
    BY DEF IInv, Shape
<1>c. given \in Seq(Seq(Nat)) /\ Len(given) = E /\ DOMAIN given = 1 .. E
    BY <1>a DEF IInv, Shape
<1>d. \A e \in 1 .. E : \A i \in DOMAIN given[e] : given[e][i] \in 1 .. N
    BY <1>c DEF IInv, Shape
<1>e. ~done /\ ~done'
    BY DEF Element
<1>2. names \in Seq(Names) /\ Len(names) = a
    BY FunctionsAreSequences
<1>3. Len(children) = c /\ DOMAIN children = 1 .. c
    BY FunctionsAreSequences
<1>4. \A i \in 1 .. c : children[i] \in 1 .. N /\ ~attached[children[i]]
    BY <1>3 DEF Element, Admissible, Attachable, Valid
<1>5. \A i, j \in 1 .. c : children[i] = children[j] => i = j
    BY <1>3 DEF Element, Admissible, Attachable, Distinct
<1>6. children \in Seq(Nat)
    BY <1>3, <1>4, <1>1
<1>7. \A i \in 1 .. c : Position(children, children[i]) = i
    BY <1>3, <1>5 DEF Position
<1>8. \A id : IsChild(children, id) <=> \E i \in 1 .. c : children[i] = id
    BY <1>3 DEF IsChild
<1>9. \A i \in 1 .. c : Sibling(children, i) \in Nat
    BY <1>3, <1>4, <1>1 DEF Sibling, NoSibling
<1>10. \A id \in 1 .. N : IsChild(children, id) => Sibling(children, Position(children, id)) \in Nat
    BY <1>7, <1>8, <1>9
<1>11. linked \in Seq(NodeRecord) /\ Len(linked) = N
  <2>1. \A id \in 1 .. N : nodes[id] \in NodeRecord
      BY <1>1
  <2>2. \A id \in 1 .. N : linked[id] \in NodeRecord
      BY <2>1, <1>10 DEF NodeRecord
  <2>3. N \in Nat
      BY <1>1
  <2>4. linked \in [1 .. N -> NodeRecord]
      BY <2>2
  <2> QED
      BY <2>3, <2>4, FunctionsAreSequences
<1>12. marked \in Seq(BOOLEAN) /\ Len(marked) = N
  <2>1. marked \in [1 .. N -> BOOLEAN]
      OBVIOUS
  <2>2. N \in Nat
      BY <1>1
  <2> HIDE DEF N, marked
  <2> QED
      BY <2>1, <2>2, FunctionsAreSequences, Zenon
<1>13. /\ nodes' = Append(linked, Node("Element", E + 1))
       /\ attached' = Append(marked, FALSE)
       /\ elements' = Append(elements, new)
       /\ attributes' = attributes \o names
       /\ given' = Append(given, children)
       /\ done' = done
    BY DEF Element
<1>14. new \in ElementRecord
    BY <1>b, <1>1, <1>2, <1>3, <1>4 DEF ElementRecord, NoSibling
<1>15. Node("Element", E + 1) \in NodeRecord
    BY <1>a DEF Node, NodeRecord, NoSibling
\* What IInv says of the state before.
<1>16. \A e \in 1 .. E :
          /\ elements[e].size = Len(given[e])
          /\ elements[e].first = IF given[e] = <<>> THEN NoSibling ELSE given[e][1]
          /\ \A i \in DOMAIN given[e] : nodes[given[e][i]].nextSibling = Sibling(given[e], i)
    BY <1>a DEF IInv, BuiltTree, ChainExact
<1>17. \A e, f \in 1 .. E : \A i \in DOMAIN given[e], j \in DOMAIN given[f] :
          given[e][i] = given[f][j] => e = f /\ i = j
    BY <1>c DEF IInv, BuiltTree, Forest
<1>18. \A n \in 1 .. N : nodes[n].kind = "Element" =>
          /\ nodes[n].element \in 1 .. E
          /\ \A i \in DOMAIN given[nodes[n].element] : given[nodes[n].element][i] < n
    BY <1>1, <1>c DEF IInv, BuiltTree, Forest
<1>19. \A n \in 1 .. N : attached[n] <=> \E e \in 1 .. E : \E i \in DOMAIN given[e] : given[e][i] = n
    BY <1>1, <1>c, <1>e DEF IInv, BuiltTree, Forest
<1>20. /\ E = 0 => attributes = <<>>
       /\ \A e \in 1 .. E :
          /\ elements[e].begin = IF e = 1 THEN 0 ELSE elements[e - 1].begin + elements[e - 1].count
          /\ e = E => elements[e].begin + elements[e].count = Len(attributes)
  <2>1. E = 0 => elements = <<>>
      BY <1>a
  <2> QED
      BY <2>1, <1>a DEF IInv, BuiltTree, AttributesTile
\* The tables afterwards, row by row.
<1>21. \A n \in 1 .. N : /\ ~IsChild(children, n) => linked[n] = nodes[n]
                         /\ linked[n].kind = nodes[n].kind
                         /\ linked[n].element = nodes[n].element
    BY <1>1, <1>10 DEF NodeRecord
<1>22. \A i \in 1 .. c : linked[children[i]].nextSibling = Sibling(children, i)
    BY <1>1, <1>4, <1>7, <1>8, <1>9 DEF NodeRecord
<1>23. \A n \in 1 .. N : marked[n] <=> attached[n] \/ IsChild(children, n)
    OBVIOUS
<1>24. /\ new.size = Len(children) /\ new.begin = Len(attributes) /\ new.count = Len(names)
       /\ new.first = IF children = <<>> THEN NoSibling ELSE children[1]
    OBVIOUS
<1>25. E = Len(elements) /\ N = Len(nodes)
    OBVIOUS
<1> HIDE DEF N, E, new, linked, marked
<1>26. /\ nodes' \in Seq(NodeRecord) /\ Len(nodes') = N + 1 /\ DOMAIN nodes' = 1 .. N + 1
       /\ \A n \in 1 .. N : nodes'[n] = linked[n]
       /\ nodes'[N + 1] = Node("Element", E + 1)
    BY <1>1, <1>11, <1>13, <1>15, Appended
<1>27. /\ attached' \in Seq(BOOLEAN) /\ Len(attached') = Len(marked) + 1
       /\ \A n \in 1 .. Len(marked) : attached'[n] = marked[n]
       /\ attached'[Len(marked) + 1] = FALSE
  <2>1. attached' = Append(marked, FALSE)
      BY <1>13
  <2>2. marked \in Seq(BOOLEAN) /\ FALSE \in BOOLEAN
      BY <1>12
  <2>3. /\ Append(marked, FALSE) \in Seq(BOOLEAN) /\ Len(Append(marked, FALSE)) = Len(marked) + 1
        /\ \A n \in 1 .. Len(marked) : Append(marked, FALSE)[n] = marked[n]
        /\ Append(marked, FALSE)[Len(marked) + 1] = FALSE
      BY <2>2, Appended, Zenon
  <2> QED
      BY <2>1, <2>3, Zenon
<1>28. /\ elements' \in Seq(ElementRecord) /\ Len(elements') = E + 1 /\ DOMAIN elements' = 1 .. E + 1
       /\ \A e \in 1 .. E : elements'[e] = elements[e]
       /\ elements'[E + 1] = new
    BY <1>a, <1>13, <1>14, <1>25, Appended
<1>29. /\ given' \in Seq(Seq(Nat)) /\ Len(given') = E + 1 /\ DOMAIN given' = 1 .. E + 1
       /\ \A e \in 1 .. E : given'[e] = given[e]
       /\ given'[E + 1] = children
    BY <1>a, <1>c, <1>6, <1>13, Appended
<1>30. attributes' \in Seq(Names) /\ Len(attributes') = Len(attributes) + Len(names)
    BY <1>b, <1>2, <1>13, Concatenated
<1>31. \A n \in 1 .. N : attached'[n] <=> attached[n] \/ IsChild(children, n)
    BY <1>12, <1>23, <1>27
<1>32. ~attached'[N + 1] /\ Len(attached') = N + 1
    BY <1>12, <1>27
<1>f. \A e \in 1 .. E : elements'[e] = elements[e] /\ given'[e] = given[e]
    BY <1>28, <1>29
<1>g. \A n \in 1 .. N : nodes'[n] = linked[n]
    BY <1>26
<1>h. \A e \in DOMAIN given' : \A i \in DOMAIN given'[e] : given'[e][i] \in 1 .. N
  <2>1. \A e \in 1 .. E : \A i \in DOMAIN given'[e] : given'[e][i] \in 1 .. N
      BY <1>d, <1>29
  <2>2. \A i \in DOMAIN given'[E + 1] : given'[E + 1][i] \in 1 .. N
      BY <1>3, <1>4, <1>29
  <2>3. \A e \in DOMAIN given' : e \in 1 .. E \/ e = E + 1
      BY <1>a, <1>29
  <2> QED
      BY <2>1, <2>2, <2>3
<1>33. Shape'
  <2>1. \A e \in DOMAIN given' : \A i \in DOMAIN given'[e] : given'[e][i] \in 1 .. Len(nodes')
    <3>1. 1 .. N \subseteq 1 .. Len(nodes')
        BY <1>1, <1>26
    <3>2. \A e \in DOMAIN given' : \A i \in DOMAIN given'[e] : given'[e][i] \in 1 .. N
        BY <1>h
    <3> QED
        BY <3>1, <3>2
  <2>2. Len(attached') = Len(nodes') /\ Len(given') = Len(elements')
      BY <1>26, <1>28, <1>29, <1>32
  <2>3. done' \in BOOLEAN
      BY <1>13 DEF IInv, Shape
  <2> QED
      BY <1>26, <1>27, <1>28, <1>29, <1>30, <2>1, <2>2, <2>3 DEF Shape
\* An old child is attached, hence not among the new ones.
<1>34. \A e \in 1 .. E : \A i \in DOMAIN given[e] : ~IsChild(children, given[e][i])
    BY <1>d, <1>19, <1>4, <1>8
<1>35. ChainExact'
  <2>1. \A e \in 1 .. E :
          /\ elements'[e].size = Len(given'[e])
          /\ elements'[e].first = IF given'[e] = <<>> THEN NoSibling ELSE given'[e][1]
          /\ \A i \in DOMAIN given'[e] : nodes'[given'[e][i]].nextSibling = Sibling(given'[e], i)
    <3> SUFFICES ASSUME NEW e \in 1 .. E
                 PROVE  /\ elements[e].size = Len(given[e])
                        /\ elements[e].first = IF given[e] = <<>> THEN NoSibling ELSE given[e][1]
                        /\ \A i \in DOMAIN given[e] : nodes'[given[e][i]].nextSibling = Sibling(given[e], i)
        BY <1>f
    <3>1. ASSUME NEW i \in DOMAIN given[e] PROVE nodes'[given[e][i]] = nodes[given[e][i]]
      <4>1. given[e][i] \in 1 .. N
          BY <1>d
      <4>2. ~IsChild(children, given[e][i])
          BY <1>34
      <4> QED
          BY <4>1, <4>2, <1>21, <1>g
    <3> QED
        BY <3>1, <1>16
  <2>2. /\ elements'[E + 1].size = Len(given'[E + 1])
        /\ elements'[E + 1].first = IF given'[E + 1] = <<>> THEN NoSibling ELSE given'[E + 1][1]
      BY <1>24, <1>28, <1>29
  <2>3. \A i \in DOMAIN given'[E + 1] : nodes'[given'[E + 1][i]].nextSibling = Sibling(given'[E + 1], i)
      BY <1>3, <1>4, <1>22, <1>26, <1>29
  <2>4. \A e \in DOMAIN elements' : e \in 1 .. E \/ e = E + 1
      BY <1>a, <1>28
  <2> QED
      BY <2>1, <2>2, <2>3, <2>4 DEF ChainExact, Sibling
<1>36. Forest'
  <2>1. \A e \in DOMAIN given' : e \in 1 .. E \/ e = E + 1
      BY <1>a, <1>29
  <2>2. \A e, f \in DOMAIN given' : \A i \in DOMAIN given'[e], j \in DOMAIN given'[f] :
          given'[e][i] = given'[f][j] => e = f /\ i = j
    <3> SUFFICES ASSUME NEW e \in DOMAIN given', NEW f \in DOMAIN given', NEW i \in DOMAIN given'[e],
                        NEW j \in DOMAIN given'[f], given'[e][i] = given'[f][j]
                 PROVE  e = f /\ i = j
        OBVIOUS
    <3>1. CASE e \in 1 .. E /\ f \in 1 .. E
      <4>1. given'[e] = given[e] /\ given'[f] = given[f]
          BY <3>1, <1>f
      <4>2. i \in DOMAIN given[e] /\ j \in DOMAIN given[f] /\ given[e][i] = given[f][j]
          BY <4>1
      <4> QED
          BY <3>1, <4>2, <1>17
    <3>2. CASE e = E + 1 /\ f = E + 1
        BY <3>2, <1>3, <1>5, <1>29
    <3>3. CASE e \in 1 .. E /\ f = E + 1
        BY <3>3, <1>3, <1>8, <1>29, <1>34
    <3>4. CASE e = E + 1 /\ f \in 1 .. E
        BY <3>4, <1>3, <1>8, <1>29, <1>34
    <3> QED
        BY <3>1, <3>2, <3>3, <3>4, <2>1
  <2>3. \A n \in DOMAIN nodes' : nodes'[n].kind = "Element" =>
          /\ nodes'[n].element \in DOMAIN given'
          /\ \A i \in DOMAIN given'[nodes'[n].element] : given'[nodes'[n].element][i] < n
    <3>1. nodes'[N + 1].element = E + 1
        BY <1>26 DEF Node
    <3>2. \A n \in DOMAIN nodes' : n \in 1 .. N \/ n = N + 1
        BY <1>1, <1>26
    <3>3. \A i \in DOMAIN given'[E + 1] : given'[E + 1][i] < N + 1
        BY <1>1, <1>3, <1>4, <1>29
    <3>4. \A n \in 1 .. N : nodes'[n].kind = nodes[n].kind /\ nodes'[n].element = nodes[n].element
        BY <1>21, <1>26
    <3>5. E + 1 \in DOMAIN given' /\ 1 .. E \subseteq DOMAIN given'
        BY <1>a, <1>29
    <3> QED
        BY <3>1, <3>2, <3>3, <3>4, <3>5, <1>18, <1>29
  <2>4. \A n \in DOMAIN nodes' :
          attached'[n] <=> \E e \in DOMAIN given' : \E i \in DOMAIN given'[e] : given'[e][i] = n
    <3>1. \A n \in 1 .. N : attached'[n] <=>
            \E e \in DOMAIN given' : \E i \in DOMAIN given'[e] : given'[e][i] = n
      <4>1. \A n \in 1 .. N : attached[n] <=> \E e \in 1 .. E : \E i \in DOMAIN given'[e] : given'[e][i] = n
        <5> SUFFICES ASSUME NEW n \in 1 .. N
                     PROVE  attached[n] <=> \E e \in 1 .. E : \E i \in DOMAIN given'[e] : given'[e][i] = n
            OBVIOUS
        <5>1. (\E e \in 1 .. E : \E i \in DOMAIN given[e] : given[e][i] = n)
              <=> \E e \in 1 .. E : \E i \in DOMAIN given'[e] : given'[e][i] = n
            BY <1>f
        <5> QED
            BY <5>1, <1>19
      <4>2. \A n : IsChild(children, n) <=> \E i \in DOMAIN given'[E + 1] : given'[E + 1][i] = n
          BY <1>3, <1>8, <1>29
      <4>3. E + 1 \in DOMAIN given' /\ 1 .. E \subseteq DOMAIN given'
          BY <1>a, <1>29
      <4> QED
          BY <4>1, <4>2, <4>3, <2>1, <1>31
    <3>2. \A e \in DOMAIN given' : \A i \in DOMAIN given'[e] : given'[e][i] # N + 1
        BY <1>1, <1>h
    <3>3. \A n \in DOMAIN nodes' : n \in 1 .. N \/ n = N + 1
        BY <1>1, <1>26
    <3> QED
        BY <3>1, <3>2, <3>3, <1>32
  <2> QED
      BY <2>2, <2>3, <2>4, <1>e DEF Forest
<1>37. AttributesTile'
  <2>1. elements' # <<>>
      BY <1>a, <1>28
  <2>2. \A e \in DOMAIN elements' : e \in 1 .. E \/ e = E + 1
      BY <1>a, <1>28
  <2>3. elements'[E + 1].begin = IF E + 1 = 1 THEN 0 ELSE elements'[E].begin + elements'[E].count
      BY <1>a, <1>20, <1>24, <1>28
  <2>4. elements'[E + 1].begin + elements'[E + 1].count = Len(attributes')
      BY <1>24, <1>28, <1>30
  <2>5. \A e \in 1 .. E : elements'[e].begin
                          = IF e = 1 THEN 0 ELSE elements'[e - 1].begin + elements'[e - 1].count
      BY <1>a, <1>20, <1>28
  <2> QED
      BY <1>a, <2>1, <2>2, <2>3, <2>4, <2>5, <1>28 DEF AttributesTile
<1> QED
    BY <1>33, <1>35, <1>36, <1>37 DEF IInv, BuiltTree

\* Every call keeps the invariant.
LEMMA Inductive == IInv /\ [Next]_vars => IInv'
<1> SUFFICES ASSUME IInv, [Next]_vars PROVE IInv'
    OBVIOUS
<1>1. ASSUME NEW kind \in Leaves, AddLeaf(kind) PROVE IInv'
    BY <1>1, LeafStep
<1>2. ASSUME NEW a \in 0 .. MaxArity, NEW c \in 0 .. MaxArity, NEW names \in [1 .. a -> Names],
             NEW children \in [1 .. c -> 1 .. MaxNodes],
             \/ Element(names, children)
             \/ \E count \in 0 .. Len(names) : ElementFails(names, children, count)
      PROVE  IInv'
  <2>1. a \in Nat /\ c \in Nat
      OBVIOUS
  <2> QED
      BY <1>2, <2>1, ElementStep, FailedElementStep
<1>3. ASSUME NEW id \in 1 .. MaxNodes, NEW within \in BOOLEAN, Finish(id, within) PROVE IInv'
    BY <1>3, FinishStep
<1>4. CASE UNCHANGED vars
    BY <1>4 DEF IInv, Shape, BuiltTree, ChainExact, Forest, AttributesTile, vars
<1> QED
    BY <1>1, <1>2, <1>3, <1>4 DEF Next

\* XML::Builder builds trees: the chain through nextSibling is what Element()
\* was given, no node has two parents or contains itself, and the attribute
\* table has no gaps, whatever calls are made and whichever of them fail.
THEOREM BuilderBuildsTrees == Spec => []BuiltTree
<1>1. IInv => BuiltTree
    BY DEF IInv
<1> QED
    BY <1>1, Initial, Inductive, PTL DEF Spec
=============================================================================
