------------------------ MODULE MultirangeWire_proofs ------------------------
(***************************************************************************)
(* Proofs about the arrays of a module and about the ranges of one wire.   *)
(*                                                                         *)
(* Memories: what check_memories finds, in every module whose wires are    *)
(* all arrays with one range of each kind and none of which is in a block: *)
(* the wires that a name stands for in the language, as long as the        *)
(* function around both is the same.  In such a module the path of a wire  *)
(* is its table or, if that is none, its scope, so that the scopes the     *)
(* walk searches, from the innermost one outwards, are the paths in which  *)
(* the language looks a name up.                                           *)
(*                                                                         *)
(* MultirangeWire: every number of ranges, all bounds and directions and   *)
(* every select.  The idea: the wire has a layout, the numbers of bits of  *)
(* its elements at each level.  SetDimension adds a level to it; every     *)
(* index of a select goes one level down.  That a layout exists is part of *)
(* the invariant.  Before that, the node of the wire is what its objects   *)
(* visited so far make of it.                                              *)
(***************************************************************************)
EXTENDS MultirangeWire, FunctionTheorems, FiniteSetTheorems, WellFoundedInduction, TLAPS

------------------------------------------------------------------------------
(***************************************************************************)
(* Induction                                                               *)
(***************************************************************************)
\* A set of naturals has a least element.
LEMMA Least ==
    ASSUME NEW T \in SUBSET Nat, T # {}
    PROVE  \E n \in T : \A m \in T : n <= m
PROOF
<1>1. PICK n \in T : \A m \in T : <<m, n>> \notin OpToRel(<, Nat)
  <2> DEFINE R == OpToRel(<, Nat)
  <2>1. IsWellFoundedOn(R, Nat)
    BY NatLessThanWellFounded
  <2> HIDE DEF R
  <2>2. \E n \in T : \A m \in T : ~(<<m, n>> \in R)
    BY <2>1, WFMin
  <2> QED
    BY <2>2 DEF R
<1>2. \A m \in T : ~(m < n)
  BY <1>1 DEF OpToRel
<1>3. \A m \in T : m \in Nat /\ n \in Nat
  OBVIOUS
<1> QED
  BY <1>2, <1>3

\* Induction: what holds of 0 and of the next number holds of all.
LEMMA Induct ==
    ASSUME NEW T, 0 \in T, \A k \in Nat : k \in T => k + 1 \in T
    PROVE  \A n \in Nat : n \in T
PROOF
<1> DEFINE Others == Nat \ T
<1>1. SUFFICES ASSUME Others # {} PROVE FALSE
  OBVIOUS
<1>2. PICK n \in Others : \A m \in Others : n <= m
  <2>1. Others \in SUBSET Nat
    OBVIOUS
  <2> HIDE DEF Others
  <2> QED
    BY <1>1, <2>1, Least
<1>3. n - 1 \in Nat /\ n - 1 \notin Others
  BY <1>2
<1> QED
  BY <1>2, <1>3

------------------------------------------------------------------------------
(***************************************************************************)
(* Paths                                                                   *)
(***************************************************************************)
NoBlock(p) == \A i \in DOMAIN p : p[i][1] # "block"

\* A path begins with its generate blocks.
LEMMA ScopeOf ==
    ASSUME NEW p \in Path
    PROVE  \E g \in 0 .. Len(p) : /\ Scope(p) = SubSeq(p, 1, g)
                                  /\ \A i \in DOMAIN p : p[i][1] = "generate" <=> i <= g
PROOF
<1> DEFINE Split(n) == \A i \in DOMAIN p : p[i][1] = "generate" <=> i <= n
           T == {n \in Nat : n <= Len(p) /\ \A i \in DOMAIN p : n < i => p[i][1] # "generate"}
<1>1. Len(p) \in Nat /\ DOMAIN p = 1 .. Len(p)
  BY DEF Path
<1>2. Len(p) \in T
  BY <1>1
<1>3. PICK g \in T : \A m \in T : g <= m
  <2> HIDE DEF T
  <2>1. T \in SUBSET Nat
    BY DEF T
  <2> QED
    BY <1>2, <2>1, Least
<1>4. g \in 0 .. Len(p) /\ \A i \in DOMAIN p : g < i => p[i][1] # "generate"
  BY <1>1, <1>3
<1>5. ASSUME NEW i \in DOMAIN p, i <= g
      PROVE  p[i][1] = "generate"
  <2>1. g \in DOMAIN p /\ g - 1 \in Nat /\ g - 1 <= Len(p) /\ g - 1 \notin T
    BY <1>1, <1>3, <1>4, <1>5
  <2>2. PICK j \in DOMAIN p : g - 1 < j /\ p[j][1] = "generate"
    BY <2>1
  <2>3. j = g
    BY <1>1, <1>4, <2>2
  <2> QED
    BY <1>5, <2>1, <2>2, <2>3 DEF Path
<1>6. Split(g)
  BY <1>1, <1>4, <1>5
<1> HIDE DEF T
<1> DEFINE c == CHOOSE n \in 0 .. Len(p) : Split(n)
<1>7. c \in 0 .. Len(p) /\ Split(c)
  BY <1>4, <1>6
<1>8. Scope(p) = SubSeq(p, 1, c)
  BY DEF Scope
<1> QED
  BY <1>7, <1>8

\* The table of a path ends with its only function; behind that are blocks.
LEMMA TableOf ==
    ASSUME NEW p \in Path
    PROVE  \/ /\ Table(p) = <<>>
              /\ \A i \in DOMAIN p : p[i][1] # "function"
           \/ \E f \in DOMAIN p : /\ Table(p) = SubSeq(p, 1, f)
                                  /\ p[f][1] = "function"
                                  /\ \A i \in DOMAIN p : f < i => p[i][1] = "block"
PROOF
<1> DEFINE at == {i \in DOMAIN p : p[i][1] = "function"}
<1>1. Len(p) \in Nat /\ DOMAIN p = 1 .. Len(p)
  BY DEF Path
<1>2. CASE at = {}
  BY <1>2 DEF Table
<1>3. ASSUME NEW f \in at
      PROVE  \E g \in DOMAIN p : /\ Table(p) = SubSeq(p, 1, g)
                                 /\ p[g][1] = "function"
                                 /\ \A i \in DOMAIN p : g < i => p[i][1] = "block"
  <2>1. \A i, j \in DOMAIN p : i < j /\ p[j][1] # "block" => p[i][1] = "generate"
    BY DEF Path
  <2>2. \A i \in DOMAIN p : f < i => p[i][1] = "block"
    BY <2>1, <1>3
  <2>3. \A j \in at : j = f
    BY <1>1, <2>1
  <2>4. (CHOOSE i \in at : \A j \in at : j <= i) = f
    <3>1. \A j \in at : j <= f
      BY <1>1, <2>3
    <3> QED
      BY <2>3, <3>1
  <2>5. Table(p) = SubSeq(p, 1, f)
    BY <1>3, <2>4 DEF Table
  <2> QED
    BY <2>2, <2>5
<1> QED
  BY <1>2, <1>3

LEMMA PathType ==
    ASSUME NEW p \in Path
    PROVE  /\ p \in Seq({"generate", "function", "block"} \X STRING)
           /\ Len(p) \in Nat /\ DOMAIN p = 1 .. Len(p)
           /\ \A i \in DOMAIN p : p[i][1] \in {"generate", "function", "block"}
BY DEF Path

\* A path without blocks is its table, or its scope if it has none.
LEMMA WithoutBlocks ==
    ASSUME NEW p \in Path, NoBlock(p)
    PROVE  p = IF Table(p) = <<>> THEN Scope(p) ELSE Table(p)
PROOF
<1>1. /\ p \in Seq({"generate", "function", "block"} \X STRING)
      /\ Len(p) \in Nat /\ DOMAIN p = 1 .. Len(p)
      /\ \A i \in DOMAIN p : p[i][1] \in {"generate", "function", "block"}
  BY PathType
<1>2. SubSeq(p, 1, Len(p)) = p
  BY <1>1
<1>3. PICK g \in 0 .. Len(p) : /\ Scope(p) = SubSeq(p, 1, g)
                               /\ \A i \in DOMAIN p : p[i][1] = "generate" <=> i <= g
  BY ScopeOf
<1>4. CASE Table(p) = <<>> /\ \A i \in DOMAIN p : p[i][1] # "function"
  <2>1. \A i \in DOMAIN p : p[i][1] = "generate"
    BY <1>1, <1>4 DEF NoBlock
  <2>2. g = Len(p)
    <3>1. CASE Len(p) = 0
      BY <3>1
    <3>2. CASE Len(p) # 0
      <4>1. Len(p) \in DOMAIN p
        BY <1>1, <3>2
      <4>2. Len(p) <= g
        BY <1>3, <2>1, <4>1
      <4>3. Len(p) \in Nat
        BY <1>1
      <4> QED
        BY <4>2, <4>3
    <3> QED
      BY <3>1, <3>2
  <2> QED
    BY <1>2, <1>3, <1>4, <2>2
<1>5. ASSUME NEW f \in DOMAIN p, Table(p) = SubSeq(p, 1, f), p[f][1] = "function",
             \A i \in DOMAIN p : f < i => p[i][1] = "block"
      PROVE  p = Table(p) /\ Table(p) # <<>>
  <2>1. f = Len(p)
    <3>1. Len(p) \in DOMAIN p /\ f \in Nat /\ f <= Len(p)
      BY <1>1, <1>5
    <3>2. ~(f < Len(p))
      BY <1>5, <3>1 DEF NoBlock
    <3> QED
      BY <1>1, <3>1, <3>2
  <2>2. p # <<>>
    BY <1>1
  <2> QED
    BY <1>2, <1>5, <2>1, <2>2
<1> QED
  BY <1>4, <1>5, TableOf

\* A path without blocks that the walk finds from q is around q.
LEMMA FoundIsAround ==
    ASSUME NEW p \in Path, NoBlock(p), NEW q \in Path, Table(p) = Table(q),
           NEW n \in 0 .. Len(Scope(q)), Scope(p) = SubSeq(Scope(q), 1, n)
    PROVE  IsPrefixOf(p, q) /\ (Table(q) = <<>> => Len(p) = n)
PROOF
<1>1. Len(q) \in Nat /\ DOMAIN q = 1 .. Len(q)
      /\ q \in Seq({"generate", "function", "block"} \X STRING)
  BY PathType
<1>2. CASE Table(q) = <<>>
  <2>1. PICK g \in 0 .. Len(q) : Scope(q) = SubSeq(q, 1, g)
    BY ScopeOf
  <2>2. Len(Scope(q)) = g
    BY <1>1, <2>1
  <2>3. SubSeq(SubSeq(q, 1, g), 1, n) = SubSeq(q, 1, n)
    BY <1>1, <2>1, <2>2
  <2>4. p = SubSeq(q, 1, n)
    BY <1>2, <2>1, <2>3, WithoutBlocks
  <2>5. Len(p) = n /\ n <= Len(q)
    BY <1>1, <2>1, <2>2, <2>4
  <2> QED
    BY <2>4, <2>5 DEF IsPrefixOf
<1>3. CASE Table(q) # <<>>
  <2>1. PICK f \in DOMAIN q : Table(q) = SubSeq(q, 1, f)
    BY <1>3, TableOf
  <2>2. p = SubSeq(q, 1, f)
    BY <1>3, <2>1, WithoutBlocks
  <2>3. Len(p) = f /\ f <= Len(q)
    BY <1>1, <2>1, <2>2
  <2> QED
    BY <1>3, <2>2, <2>3 DEF IsPrefixOf
<1> QED
  BY <1>2, <1>3

\* What a path without blocks around q is to the walk.
LEMMA AroundIsFound ==
    ASSUME NEW p \in Path, NoBlock(p), NEW q \in Path, IsPrefixOf(p, q)
    PROVE  /\ Len(Scope(p)) \in 0 .. Len(Scope(q))
           /\ Scope(p) = SubSeq(Scope(q), 1, Len(Scope(p)))
           /\ Table(q) = <<>> => Table(p) = <<>> /\ Len(p) = Len(Scope(p))
           /\ Table(q) # <<>> => Len(p) <= Len(Table(q))
PROOF
<1>1. /\ Len(q) \in Nat /\ DOMAIN q = 1 .. Len(q)
      /\ q \in Seq({"generate", "function", "block"} \X STRING)
      /\ Len(p) \in Nat /\ DOMAIN p = 1 .. Len(p)
      /\ p \in Seq({"generate", "function", "block"} \X STRING)
  BY PathType
<1>2. Len(p) <= Len(q) /\ \A i \in DOMAIN p : i \in DOMAIN q /\ p[i] = q[i]
  <2>1. Len(p) <= Len(q) /\ p = SubSeq(q, 1, Len(p))
    BY DEF IsPrefixOf
  <2>2. \A i \in 1 .. Len(p) : SubSeq(q, 1, Len(p))[i] = q[i]
    BY <1>1, <2>1
  <2> QED
    BY <1>1, <2>1, <2>2
<1>3. PICK g \in 0 .. Len(p) : /\ Scope(p) = SubSeq(p, 1, g)
                               /\ \A i \in DOMAIN p : p[i][1] = "generate" <=> i <= g
  BY ScopeOf
<1>4. PICK h \in 0 .. Len(q) : /\ Scope(q) = SubSeq(q, 1, h)
                               /\ \A i \in DOMAIN q : q[i][1] = "generate" <=> i <= h
  BY ScopeOf
<1>5. Len(Scope(p)) = g /\ Len(Scope(q)) = h
  BY <1>1, <1>3, <1>4
<1>6. g <= h
  <2>1. CASE g = 0
    BY <1>4, <2>1
  <2>2. CASE g # 0
    <3>1. g \in DOMAIN p
      BY <1>1, <1>3, <2>2
    <3>2. p[g][1] = "generate"
      BY <1>1, <1>3, <3>1
    <3>3. g \in DOMAIN q /\ q[g][1] = "generate"
      BY <1>2, <3>1, <3>2
    <3> QED
      BY <1>4, <3>3
  <2> QED
    BY <2>1, <2>2
<1>7. SubSeq(p, 1, g) = SubSeq(SubSeq(q, 1, h), 1, g)
  <2>1. \A i \in 1 .. g : SubSeq(p, 1, g)[i] = p[i] /\ SubSeq(q, 1, h)[i] = q[i]
    BY <1>1, <1>2, <1>3, <1>4, <1>6
  <2>2. SubSeq(q, 1, h) \in Seq({"generate", "function", "block"} \X STRING) /\ Len(SubSeq(q, 1, h)) = h
    BY <1>1, <1>4
  <2>3. \A i \in 1 .. g : SubSeq(SubSeq(q, 1, h), 1, g)[i] = SubSeq(q, 1, h)[i]
    <3> DEFINE r == SubSeq(q, 1, h)
    <3>1. r \in Seq({"generate", "function", "block"} \X STRING) /\ Len(r) = h
      BY <2>2
    <3> HIDE DEF r
    <3>2. \A i \in 1 .. g : SubSeq(r, 1, g)[i] = r[i]
      BY <1>3, <1>6, <3>1
    <3> QED
      BY <3>2 DEF r
  <2>4. /\ SubSeq(p, 1, g) = [i \in 1 .. g |-> p[i]]
        /\ SubSeq(SubSeq(q, 1, h), 1, g) = [i \in 1 .. g |-> SubSeq(q, 1, h)[i]]
    BY <1>1, <1>3, <1>4, <1>6, <2>2
  <2>5. \A i \in 1 .. g : p[i] = SubSeq(q, 1, h)[i]
    <3>1. \A i \in 1 .. g : i \in DOMAIN p
      BY <1>1
    <3>2. \A i \in 1 .. g : p[i] = q[i]
      BY <1>2, <3>1
    <3> QED
      BY <2>1, <3>2
  <2> QED
    BY <2>4, <2>5
<1>8. ASSUME Table(q) = <<>>, \A i \in DOMAIN q : q[i][1] # "function"
      PROVE  Table(p) = <<>> /\ Len(p) = Len(Scope(p))
  <2>1. \A i \in DOMAIN p : p[i][1] # "function"
    BY <1>2, <1>8
  <2>2. Table(p) = <<>>
    BY <2>1, TableOf
  <2> QED
    BY <1>8, <2>2, WithoutBlocks
<1>9. ASSUME NEW f \in DOMAIN q, Table(q) = SubSeq(q, 1, f),
             \A i \in DOMAIN q : f < i => q[i][1] = "block"
      PROVE  Table(q) # <<>> /\ Len(p) <= Len(Table(q))
  <2>1. Len(Table(q)) = f
    BY <1>1, <1>9
  <2>2. Len(p) <= f
    <3>1. f \in Nat
      BY <1>1
    <3>2. CASE Len(p) = 0
      BY <3>1, <3>2
    <3>3. CASE Len(p) # 0
      <4>1. Len(p) \in DOMAIN p
        BY <1>1, <3>3
      <4>2. Len(p) \in DOMAIN q /\ q[Len(p)][1] # "block"
        BY <1>2, <4>1 DEF NoBlock
      <4>3. ~(f < Len(p))
        BY <1>9, <4>2
      <4> QED
        BY <1>1, <3>1, <4>3
    <3> QED
      BY <3>2, <3>3
  <2> QED
    BY <1>1, <2>1, <2>2
<1>10. Len(Scope(p)) \in 0 .. Len(Scope(q)) /\ Scope(p) = SubSeq(Scope(q), 1, Len(Scope(p)))
  BY <1>3, <1>4, <1>5, <1>6, <1>7
<1>11. \/ Table(q) = <<>> /\ \A i \in DOMAIN q : q[i][1] # "function"
       \/ Table(q) # <<>> /\ Len(p) <= Len(Table(q))
  BY <1>9, TableOf
<1> QED
  BY <1>8, <1>10, <1>11

------------------------------------------------------------------------------
(***************************************************************************)
(* The walk                                                                *)
(***************************************************************************)
\* All wires can be memories, and none is in a block.
Clear(nodes) ==
    \A j \in DOMAIN nodes : nodes[j].type = "wire" => NoBlock(nodes[j].path) /\ nodes[j].memory

\* The memories among the first n nodes, those one of which is accessed as a
\* whole, and those a $readmemh keeps.
SeenAt(nodes, n) == {nodes[j] : j \in {k \in 1 .. n : nodes[k].type = "wire"}}
ForcedAt(nodes, n) ==
    UNION {{w.id : w \in Found(SeenAt(nodes, i - 1), nodes[i])} : i \in {k \in 1 .. n : WholeUse(nodes[k])}}
KeptAt(nodes, n) ==
    UNION {{w.id : w \in {v \in SeenAt(nodes, i - 1) : Key(v) = Key(nodes[i])}} :
           i \in {k \in 1 .. n : nodes[k].type = "$readmemh"}}

WalkAt(nodes, n) ==
    [seen |-> SeenAt(nodes, n), forced |-> ForcedAt(nodes, n), kept |-> KeptAt(nodes, n),
     collided |-> FALSE]

LEMMA NodeFacts ==
    ASSUME NEW nodes \in ModuleNodes, NEW i \in DOMAIN nodes
    PROVE  /\ nodes[i].path \in Path
           /\ nodes[i].type \in {"wire", "identifier", "$readmemh"}
PROOF
<1>1. nodes[i] \in MemoryNode
  BY DEF ModuleNodes
<1> QED
  BY <1>1 DEF MemoryNode, WireNode, IdentifierNode, ReadmemhNode

LEMMA ModuleFacts ==
    ASSUME NEW nodes \in ModuleNodes
    PROVE  /\ nodes \in Seq(MemoryNode) /\ Len(nodes) \in Nat /\ DOMAIN nodes = 1 .. Len(nodes)
           /\ \A i, j \in DOMAIN nodes :
                 nodes[i].type = "wire" /\ nodes[j].type = "wire" /\ i # j =>
                     /\ nodes[i].id # nodes[j].id
                     /\ nodes[i].path # nodes[j].path \/ nodes[i].str # nodes[j].str
           /\ \A i, j \in DOMAIN nodes :
                 /\ nodes[i].type # "wire" /\ nodes[j].type = "wire"
                 /\ i < j /\ IsPrefixOf(nodes[j].path, nodes[i].path)
                 => nodes[j].path = <<>>
PROOF
<1>1. nodes \in Seq(MemoryNode)
  BY DEF ModuleNodes
<1>2. Len(nodes) \in Nat /\ DOMAIN nodes = 1 .. Len(nodes)
  BY <1>1
<1>3. ASSUME NEW i \in DOMAIN nodes, NEW j \in DOMAIN nodes,
             nodes[i].type = "wire", nodes[j].type = "wire", i # j
      PROVE  /\ nodes[i].id # nodes[j].id
             /\ nodes[i].path # nodes[j].path \/ nodes[i].str # nodes[j].str
  BY <1>3 DEF ModuleNodes
<1>4. ASSUME NEW i \in DOMAIN nodes, NEW j \in DOMAIN nodes,
             nodes[i].type # "wire", nodes[j].type = "wire",
             i < j, IsPrefixOf(nodes[j].path, nodes[i].path)
      PROVE  nodes[j].path = <<>>
  BY <1>4 DEF ModuleNodes
<1> QED
  BY <1>1, <1>2, <1>3, <1>4

\* Two wires never have the same key, so the walk does not stop.
LEMMA KeysDiffer ==
    ASSUME NEW nodes \in ModuleNodes, Clear(nodes),
           NEW i \in DOMAIN nodes, NEW j \in DOMAIN nodes, i # j,
           nodes[i].type = "wire", nodes[j].type = "wire"
    PROVE  Key(nodes[i]) # Key(nodes[j])
PROOF
<1>1. /\ nodes[i].path \in Path /\ nodes[j].path \in Path
      /\ NoBlock(nodes[i].path) /\ NoBlock(nodes[j].path)
  BY NodeFacts DEF Clear
<1>2. SUFFICES ASSUME Key(nodes[i]) = Key(nodes[j]) PROVE FALSE
  OBVIOUS
<1>3. /\ Table(nodes[i].path) = Table(nodes[j].path)
      /\ Scope(nodes[i].path) = Scope(nodes[j].path)
      /\ nodes[i].str = nodes[j].str
  BY <1>2 DEF Key
<1>4. nodes[i].path = nodes[j].path
  BY <1>1, <1>3, WithoutBlocks
<1> QED
  BY <1>3, <1>4, ModuleFacts

\* One node more.
LEMMA VisitIs ==
    ASSUME NEW nodes \in ModuleNodes, Clear(nodes), NEW n \in Nat, n < Len(nodes)
    PROVE  Visit(WalkAt(nodes, n), nodes[n + 1]) = WalkAt(nodes, n + 1)
PROOF
<1> DEFINE node == nodes[n + 1]
           seen == SeenAt(nodes, n)
           found == {w.id : w \in Found(seen, node)}
           same == {w.id : w \in {v \in seen : Key(v) = Key(node)}}
<1>1. Len(nodes) \in Nat /\ DOMAIN nodes = 1 .. Len(nodes)
  BY ModuleFacts
<1>2. n + 1 \in DOMAIN nodes /\ (n + 1) - 1 = n
  BY <1>1
<1>3. SeenAt(nodes, n + 1) = IF node.type = "wire" THEN seen \cup {node} ELSE seen
  <2>1. \A k : k \in 1 .. n + 1 <=> k \in 1 .. n \/ k = n + 1
    OBVIOUS
  <2> QED
    BY <2>1 DEF SeenAt
<1>4. ForcedAt(nodes, n + 1) =
          IF WholeUse(node) THEN ForcedAt(nodes, n) \cup found ELSE ForcedAt(nodes, n)
  <2>1. \A k : k \in 1 .. n + 1 <=> k \in 1 .. n \/ k = n + 1
    OBVIOUS
  <2> DEFINE F(i) == {w.id : w \in Found(SeenAt(nodes, i - 1), nodes[i])}
  <2>2. F(n + 1) = found
    BY <1>2
  <2>3. \A m, x : x \in ForcedAt(nodes, m) <=> \E i \in 1 .. m : WholeUse(nodes[i]) /\ x \in F(i)
    BY DEF ForcedAt
  <2> HIDE DEF F, found
  <2>4. \A x : x \in ForcedAt(nodes, n + 1) <=> x \in ForcedAt(nodes, n) \/ (WholeUse(node) /\ x \in found)
    BY <2>1, <2>2, <2>3
  <2> QED
    BY <2>4
<1>5. KeptAt(nodes, n + 1) =
          IF node.type = "$readmemh" THEN KeptAt(nodes, n) \cup same ELSE KeptAt(nodes, n)
  <2>1. \A k : k \in 1 .. n + 1 <=> k \in 1 .. n \/ k = n + 1
    OBVIOUS
  <2> DEFINE F(i) == {w.id : w \in {v \in SeenAt(nodes, i - 1) : Key(v) = Key(nodes[i])}}
  <2>2. F(n + 1) = same
    BY <1>2
  <2>3. \A m, x : x \in KeptAt(nodes, m) <=>
                     \E i \in 1 .. m : nodes[i].type = "$readmemh" /\ x \in F(i)
    BY DEF KeptAt
  <2> HIDE DEF F, same
  <2>4. \A x : x \in KeptAt(nodes, n + 1) <=>
                  x \in KeptAt(nodes, n) \/ (node.type = "$readmemh" /\ x \in same)
    BY <2>1, <2>2, <2>3
  <2> QED
    BY <2>4
<1> DEFINE walk == WalkAt(nodes, n)
<1>6. /\ walk = [seen |-> seen, forced |-> ForcedAt(nodes, n), kept |-> KeptAt(nodes, n),
                 collided |-> FALSE]
      /\ walk.seen = seen
  BY DEF WalkAt
<1>7. CASE node.type = "wire"
  <2>1. node.memory /\ ~WholeUse(node)
    BY <1>2, <1>7 DEF Clear, WholeUse
  <2>2. \A w \in seen : Key(w) # Key(node)
    <3>1. \A j \in 1 .. n : j \in DOMAIN nodes /\ j # n + 1
      BY <1>1
    <3>2. \A j \in 1 .. n : nodes[j].type = "wire" => Key(nodes[j]) # Key(node)
      BY <1>2, <1>7, <3>1, KeysDiffer
    <3> QED
      BY <3>2 DEF SeenAt
  <2>3. {w \in seen : Key(w) # Key(node)} \cup {node} = seen \cup {node}
    BY <2>2
  <2>4. Visit(walk, node) = [walk EXCEPT !.collided = @ \/ \E w \in walk.seen : Key(w) = Key(node),
                                         !.seen = {w \in @ : Key(w) # Key(node)} \cup {node}]
    BY <1>7, <2>1 DEF Visit
  <2>5. Visit(walk, node) = [seen |-> seen \cup {node}, forced |-> ForcedAt(nodes, n),
                             kept |-> KeptAt(nodes, n), collided |-> FALSE]
    <3> DEFINE again == \E w \in seen : Key(w) = Key(node)
               more == seen \cup {node}
    <3>1. Visit(walk, node) = [walk EXCEPT !.collided = @ \/ again, !.seen = more]
      BY <1>6, <2>3, <2>4
    <3>2. again = FALSE
      BY <2>2
    <3> HIDE DEF again, more, walk, seen
    <3> QED
      BY <1>6, <3>1, <3>2 DEF more
  <2> QED
    BY <1>3, <1>4, <1>5, <1>7, <2>1, <2>5 DEF WalkAt
<1>8. CASE node.type = "identifier" /\ node.index = "element"
  <2>1. Visit(walk, node) = walk /\ ~WholeUse(node)
    BY <1>8 DEF Visit, WholeUse
  <2> QED
    BY <1>3, <1>4, <1>5, <1>8, <2>1 DEF WalkAt
<1> DEFINE forced == [seen |-> seen, forced |-> ForcedAt(nodes, n) \cup found,
                      kept |-> KeptAt(nodes, n), collided |-> FALSE]
<1>9. ForceConversion(walk, node) = forced
  <2>1. ForceConversion(walk, node) = [walk EXCEPT !.forced = @ \cup found]
    BY <1>6 DEF ForceConversion
  <2> HIDE DEF walk, found, seen
  <2> QED
    BY <1>6, <2>1
<1>10. CASE node.type = "identifier" /\ node.index # "element"
  <2>1. Visit(walk, node) = forced /\ WholeUse(node)
    BY <1>9, <1>10 DEF Visit, WholeUse
  <2> QED
    BY <1>3, <1>4, <1>5, <1>10, <2>1 DEF WalkAt
<1>11. CASE node.type = "$readmemh"
  <2>1. WholeUse(node)
    BY <1>11 DEF WholeUse
  <2>2. Visit(walk, node) = [ForceConversion(walk, node) EXCEPT
                                 !.kept = @ \cup {w.id : w \in {v \in walk.seen : Key(v) = Key(node)}}]
    BY <1>11 DEF Visit
  <2>3. Visit(walk, node) = [forced EXCEPT !.kept = @ \cup same]
    BY <1>6, <1>9, <2>2
  <2>4. Visit(walk, node) = [seen |-> seen, forced |-> ForcedAt(nodes, n) \cup found,
                             kept |-> KeptAt(nodes, n) \cup same, collided |-> FALSE]
    <3> HIDE DEF same, found, seen
    <3> QED
      BY <2>3
  <2> QED
    BY <1>3, <1>4, <1>5, <1>11, <2>1, <2>4 DEF WalkAt
<1> QED
  BY <1>2, <1>7, <1>8, <1>10, <1>11, NodeFacts

\* f is what the walk has found after each of the first n nodes.
WalkTo(f, n, nodes) ==
    f = [k \in 0 .. n |-> IF k = 0 THEN Nothing ELSE Visit(f[k - 1], nodes[k])]

LEMMA WalkExists ==
    ASSUME NEW nodes
    PROVE  \A n \in Nat : \E f : WalkTo(f, n, nodes)
PROOF
<1> DEFINE T == {n \in Nat : \E f : WalkTo(f, n, nodes)}
<1>1. 0 \in T
  <2> DEFINE f == [k \in 0 .. 0 |-> Nothing]
  <2>1. f = [k \in 0 .. 0 |-> IF k = 0 THEN Nothing ELSE Visit(f[k - 1], nodes[k])]
    BY \A k \in 0 .. 0 : k = 0
  <2>2. WalkTo(f, 0, nodes)
    BY <2>1 DEF WalkTo
  <2> QED
    BY <2>2
<1>2. ASSUME NEW n \in Nat, n \in T
      PROVE  n + 1 \in T
  <2>1. PICK f : WalkTo(f, n, nodes)
    BY <1>2
  <2> DEFINE e == Visit(f[n], nodes[n + 1])
             h == [k \in 0 .. n + 1 |-> IF k = n + 1 THEN e ELSE f[k]]
  <2>2. \A k \in 0 .. n : h[k] = f[k]
    OBVIOUS
  <2>3. h[n + 1] = e
    OBVIOUS
  <2>4. h = [k \in 0 .. n + 1 |-> h[k]]
    OBVIOUS
  <2> HIDE DEF h
  <2>5. ASSUME NEW k \in 0 .. n + 1
        PROVE  h[k] = IF k = 0 THEN Nothing ELSE Visit(h[k - 1], nodes[k])
    <3>1. CASE k = n + 1
      <4>1. k # 0 /\ k - 1 = n /\ n \in 0 .. n
        BY <3>1
      <4> QED
        BY <2>2, <2>3, <3>1, <4>1
    <3>2. CASE k # n + 1
      <4>1. k \in 0 .. n /\ (k # 0 => k - 1 \in 0 .. n)
        BY <3>2
      <4>2. f[k] = IF k = 0 THEN Nothing ELSE Visit(f[k - 1], nodes[k])
        BY <2>1, <4>1 DEF WalkTo
      <4> QED
        BY <2>2, <4>1, <4>2
    <3> QED
      BY <3>1, <3>2
  <2>6. WalkTo(h, n + 1, nodes)
    BY <2>4, <2>5 DEF WalkTo
  <2> QED
    BY <2>6
<1> HIDE DEF T
<1>3. \A n \in Nat : n \in T
  BY <1>1, <1>2, Induct
<1> QED
  BY <1>3 DEF T

\* The whole walk.
LEMMA Walked ==
    ASSUME NEW nodes \in ModuleNodes, Clear(nodes)
    PROVE  CheckMemories(nodes) = WalkAt(nodes, Len(nodes))
PROOF
<1> DEFINE N == Len(nodes)
           after == CHOOSE f : WalkTo(f, N, nodes)
           T == {n \in Nat : n <= N => after[n] = WalkAt(nodes, n)}
<1>1. N \in Nat
  BY ModuleFacts
<1>2. WalkTo(after, N, nodes)
  BY <1>1, WalkExists
<1>3. CheckMemories(nodes) = after[N]
  BY DEF CheckMemories, WalkTo
<1> HIDE DEF after
<1>4. 0 \in T
  <2>1. after[0] = Nothing
    BY <1>1, <1>2 DEF WalkTo
  <2>2. {k \in 1 .. 0 : nodes[k].type = "wire"} = {} /\ {k \in 1 .. 0 : WholeUse(nodes[k])} = {}
        /\ {k \in 1 .. 0 : nodes[k].type = "$readmemh"} = {}
    OBVIOUS
  <2>3. SeenAt(nodes, 0) = {} /\ ForcedAt(nodes, 0) = {} /\ KeptAt(nodes, 0) = {}
    BY <2>2 DEF SeenAt, ForcedAt, KeptAt
  <2> QED
    BY <2>1, <2>3 DEF WalkAt, Nothing
<1>5. ASSUME NEW n \in Nat, n \in T
      PROVE  n + 1 \in T
  <2>1. SUFFICES ASSUME n + 1 <= N PROVE after[n + 1] = WalkAt(nodes, n + 1)
    OBVIOUS
  <2>2. n < N /\ n + 1 \in 0 .. N /\ n + 1 # 0 /\ (n + 1) - 1 = n
    BY <1>1, <2>1
  <2>3. after[n + 1] = Visit(after[n], nodes[n + 1])
    BY <1>2, <2>2 DEF WalkTo
  <2>4. after[n] = WalkAt(nodes, n)
    BY <1>1, <1>5, <2>2
  <2> HIDE DEF N
  <2>5. Visit(WalkAt(nodes, n), nodes[n + 1]) = WalkAt(nodes, n + 1)
    BY <2>2, VisitIs DEF N
  <2> QED
    BY <2>3, <2>4, <2>5
<1> HIDE DEF T
<1>6. N \in T
  BY <1>1, <1>4, <1>5, Induct
<1> QED
  BY <1>1, <1>3, <1>6 DEF T

------------------------------------------------------------------------------
(***************************************************************************)
(* What the walk finds                                                     *)
(***************************************************************************)
LEMMA Greatest ==
    ASSUME NEW N \in Nat, NEW T \in SUBSET (0 .. N), T # {}
    PROVE  \E n \in T : \A m \in T : m <= n
PROOF
<1> DEFINE U == {k \in Nat : k <= N /\ N - k \in T}
<1>1. U \in SUBSET Nat /\ U # {}
  <2>1. PICK n \in T : TRUE
    OBVIOUS
  <2>2. n \in 0 .. N /\ N - n \in Nat /\ N - n <= N /\ N - (N - n) = n
    BY <2>1
  <2>3. N - n \in U
    BY <2>1, <2>2
  <2> QED
    BY <2>3
<1>2. PICK k \in U : \A m \in U : k <= m
  <2> HIDE DEF U
  <2> QED
    BY <1>1, Least
<1>3. \A m \in T : m \in 0 .. N /\ N - m \in Nat /\ N - m <= N /\ N - (N - m) = m
  OBVIOUS
<1>4. \A m \in T : m <= N - k
  <2>1. \A m \in T : N - m \in U
    BY <1>3
  <2>2. k \in Nat
    BY <1>1, <1>2
  <2> QED
    BY <1>2, <1>3, <2>1, <2>2
<1> QED
  BY <1>2, <1>4

\* The wire that a node names for the walk.
FoundAt(nodes, i) == Found(SeenAt(nodes, i - 1), nodes[i])

InScopeAt(nodes, i, n) == InScope(SeenAt(nodes, i - 1), nodes[i], n)
HasAt(nodes, i) == {n \in 0 .. Len(Scope(nodes[i].path)) : InScopeAt(nodes, i, n) # {}}

Visible(nodes, i) ==
    {j \in DOMAIN nodes : /\ nodes[j].type = "wire" /\ nodes[j].str = nodes[i].str
                          /\ IsPrefixOf(nodes[j].path, nodes[i].path)}

LEMMA ScopeType ==
    ASSUME NEW p \in Path
    PROVE  Len(Scope(p)) \in Nat /\ SubSeq(Scope(p), 1, Len(Scope(p))) = Scope(p)
PROOF
<1>1. p \in Seq({"generate", "function", "block"} \X STRING)
  BY PathType
<1>2. PICK g \in 0 .. Len(p) : Scope(p) = SubSeq(p, 1, g)
  BY ScopeOf
<1>3. Scope(p) \in Seq({"generate", "function", "block"} \X STRING)
  BY <1>1, <1>2
<1> QED
  BY <1>3

\* The wires the walk finds n scopes down.
LEMMA InScopeFacts ==
    ASSUME NEW nodes \in ModuleNodes, Clear(nodes),
           NEW i \in DOMAIN nodes, NEW n \in 0 .. Len(Scope(nodes[i].path)),
           NEW w \in InScopeAt(nodes, i, n)
    PROVE  \E k \in Visible(nodes, i) :
              /\ w = nodes[k] /\ k < i
              /\ Table(w.path) = Table(nodes[i].path)
              /\ Scope(w.path) = SubSeq(Scope(nodes[i].path), 1, n)
              /\ Table(nodes[i].path) = <<>> => Len(w.path) = n
PROOF
<1>1. Len(nodes) \in Nat /\ DOMAIN nodes = 1 .. Len(nodes)
  BY ModuleFacts
<1>2. w \in SeenAt(nodes, i - 1)
      /\ Key(w) = <<Table(nodes[i].path), SubSeq(Scope(nodes[i].path), 1, n), nodes[i].str>>
  BY DEF InScopeAt, InScope
<1>3. PICK k \in 1 .. i - 1 : w = nodes[k] /\ nodes[k].type = "wire"
  BY <1>2 DEF SeenAt
<1>4. k \in DOMAIN nodes /\ k < i
  BY <1>1, <1>3
<1>5. /\ Table(w.path) = Table(nodes[i].path)
      /\ Scope(w.path) = SubSeq(Scope(nodes[i].path), 1, n)
      /\ w.str = nodes[i].str
  BY <1>2 DEF Key
<1>6. w.path \in Path /\ NoBlock(w.path) /\ nodes[i].path \in Path
  BY <1>3, <1>4, NodeFacts DEF Clear
<1>7. IsPrefixOf(w.path, nodes[i].path) /\ (Table(nodes[i].path) = <<>> => Len(w.path) = n)
  BY <1>5, <1>6, FoundIsAround
<1> QED
  BY <1>3, <1>4, <1>5, <1>7 DEF Visible

\* A wire the language sees is in one of the scopes the walk searches.
LEMMA VisibleFacts ==
    ASSUME NEW nodes \in ModuleNodes, Clear(nodes),
           NEW i \in DOMAIN nodes, NEW k \in Visible(nodes, i), k < i,
           Table(nodes[k].path) = Table(nodes[i].path)
    PROVE  /\ Len(Scope(nodes[k].path)) \in HasAt(nodes, i)
           /\ nodes[k] \in InScopeAt(nodes, i, Len(Scope(nodes[k].path)))
PROOF
<1>1. Len(nodes) \in Nat /\ DOMAIN nodes = 1 .. Len(nodes)
  BY ModuleFacts
<1>2. /\ k \in 1 .. i - 1 /\ nodes[k].type = "wire" /\ nodes[k].str = nodes[i].str
      /\ IsPrefixOf(nodes[k].path, nodes[i].path)
  BY <1>1 DEF Visible
<1>3. nodes[k].path \in Path /\ NoBlock(nodes[k].path) /\ nodes[i].path \in Path
  BY <1>1, <1>2, NodeFacts DEF Clear, Visible
<1>4. /\ Len(Scope(nodes[k].path)) \in 0 .. Len(Scope(nodes[i].path))
      /\ Scope(nodes[k].path) = SubSeq(Scope(nodes[i].path), 1, Len(Scope(nodes[k].path)))
  BY <1>2, <1>3, AroundIsFound
<1>5. nodes[k] \in SeenAt(nodes, i - 1)
  BY <1>2 DEF SeenAt
<1>6. nodes[k] \in InScopeAt(nodes, i, Len(Scope(nodes[k].path)))
  BY <1>2, <1>4, <1>5 DEF InScopeAt, InScope, Key
<1> QED
  BY <1>4, <1>6 DEF HasAt

\* The walk takes the innermost scope that has one.
LEMMA FoundInnermost ==
    ASSUME NEW nodes \in ModuleNodes, NEW i \in DOMAIN nodes
    PROVE  IF HasAt(nodes, i) = {} THEN FoundAt(nodes, i) = {}
           ELSE \E m \in HasAt(nodes, i) : /\ \A n \in HasAt(nodes, i) : n <= m
                                           /\ FoundAt(nodes, i) = InScopeAt(nodes, i, m)
PROOF
<1> DEFINE has == HasAt(nodes, i)
           m == CHOOSE n \in has : \A k \in has : k <= n
<1>1. FoundAt(nodes, i) = IF has = {} THEN {} ELSE InScopeAt(nodes, i, m)
  BY DEF FoundAt, Found, HasAt, InScopeAt
<1>2. ASSUME has # {}
      PROVE  m \in has /\ \A n \in has : n <= m
  <2>1. Len(Scope(nodes[i].path)) \in Nat
    BY NodeFacts, ScopeType
  <2>2. has \in SUBSET (0 .. Len(Scope(nodes[i].path)))
    BY DEF HasAt
  <2> HIDE DEF has
  <2>3. \E n \in has : \A k \in has : k <= n
    BY <1>2, <2>1, <2>2, Greatest
  <2> QED
    BY <2>3
<1> QED
  BY <1>1, <1>2

\* What the walk finds is what the name stands for in the language.
LEMMA FoundIsDenoted ==
    ASSUME NEW nodes \in ModuleNodes, Clear(nodes),
           NEW i \in DOMAIN nodes, nodes[i].type # "wire", NEW w \in FoundAt(nodes, i)
    PROVE  \E j \in DOMAIN nodes : /\ w = nodes[j] /\ j < i /\ nodes[j].type = "wire"
                                   /\ Table(w.path) = Table(nodes[i].path)
                                   /\ Denotes(nodes[i], w.id, nodes)
PROOF
<1> DEFINE q == nodes[i].path
<1>1. PICK m \in HasAt(nodes, i) : /\ \A n \in HasAt(nodes, i) : n <= m
                                   /\ w \in InScopeAt(nodes, i, m)
  BY FoundInnermost
<1>2. m \in 0 .. Len(Scope(q)) /\ q \in Path /\ m \in Nat
  BY <1>1, NodeFacts DEF HasAt
<1>3. PICK j \in Visible(nodes, i) : /\ w = nodes[j] /\ j < i
                                     /\ Table(w.path) = Table(q)
                                     /\ Table(q) = <<>> => Len(w.path) = m
  BY <1>1, <1>2, InScopeFacts
<1>4. ASSUME NEW k \in Visible(nodes, i)
      PROVE  Len(nodes[k].path) <= Len(w.path)
  <2>1. /\ k \in DOMAIN nodes /\ nodes[k].type = "wire" /\ IsPrefixOf(nodes[k].path, q)
        /\ nodes[k].path \in Path /\ NoBlock(nodes[k].path)
    BY NodeFacts DEF Visible, Clear
  <2>2. w.path \in Path /\ NoBlock(w.path) /\ Len(w.path) \in Nat
    BY <1>3, NodeFacts, PathType DEF Visible, Clear
  <2>3. CASE i < k
    <3>1. nodes[k].path = <<>>
      BY <2>1, <2>3, ModuleFacts
    <3> QED
      BY <2>2, <3>1
  <2>4. CASE k < i /\ Table(q) = <<>>
    <3>1. Table(nodes[k].path) = <<>> /\ Len(nodes[k].path) = Len(Scope(nodes[k].path))
      BY <1>2, <2>1, <2>4, AroundIsFound
    <3>2. Len(Scope(nodes[k].path)) \in HasAt(nodes, i)
      BY <2>4, <3>1, VisibleFacts
    <3> QED
      BY <1>1, <1>3, <2>4, <3>1, <3>2
  <2>5. CASE Table(q) # <<>>
    <3>1. Len(nodes[k].path) <= Len(Table(q))
      BY <1>2, <2>1, <2>5, AroundIsFound
    <3>2. w.path = Table(q)
      BY <1>3, <2>2, <2>5, WithoutBlocks
    <3> QED
      BY <3>1, <3>2
  <2>6. i \in Nat /\ k \in Nat /\ k # i
    BY <2>1, ModuleFacts
  <2> QED
    BY <2>3, <2>4, <2>5, <2>6
<1>5. Denotes(nodes[i], w.id, nodes)
  BY <1>3, <1>4 DEF Denotes, Visible
<1> QED
  BY <1>3, <1>5 DEF Visible

\* Conversely for a wire in the same function that the walk has met.
LEMMA DenotedIsFound ==
    ASSUME NEW nodes \in ModuleNodes, Clear(nodes),
           NEW i \in DOMAIN nodes, NEW j \in DOMAIN nodes, nodes[j].type = "wire", j < i,
           Table(nodes[j].path) = Table(nodes[i].path), Denotes(nodes[i], nodes[j].id, nodes)
    PROVE  nodes[j] \in FoundAt(nodes, i)
PROOF
<1> DEFINE q == nodes[i].path
<1>1. j \in Visible(nodes, i) /\ \A k \in Visible(nodes, i) : Len(nodes[k].path) <= Len(nodes[j].path)
  <2>1. PICK l \in Visible(nodes, i) : /\ nodes[l].id = nodes[j].id
                                       /\ \A k \in Visible(nodes, i) : Len(nodes[k].path) <= Len(nodes[l].path)
    BY DEF Denotes, Visible
  <2>2. l = j
    BY <2>1, ModuleFacts DEF Visible
  <2> QED
    BY <2>1, <2>2
<1>2. /\ Len(Scope(nodes[j].path)) \in HasAt(nodes, i)
      /\ nodes[j] \in InScopeAt(nodes, i, Len(Scope(nodes[j].path)))
  BY <1>1, VisibleFacts
<1>3. PICK m \in HasAt(nodes, i) : /\ \A n \in HasAt(nodes, i) : n <= m
                                   /\ FoundAt(nodes, i) = InScopeAt(nodes, i, m)
  BY <1>2, FoundInnermost
<1>4. PICK w : w \in InScopeAt(nodes, i, m)
  BY <1>3 DEF HasAt
<1>5. m \in 0 .. Len(Scope(q)) /\ m \in Nat /\ q \in Path
  BY <1>3, NodeFacts DEF HasAt
<1>6. PICK k \in Visible(nodes, i) : /\ w = nodes[k]
                                     /\ Table(w.path) = Table(q)
                                     /\ Scope(w.path) = SubSeq(Scope(q), 1, m)
                                     /\ Table(q) = <<>> => Len(w.path) = m
  BY <1>4, <1>5, InScopeFacts
<1>7. /\ nodes[j].path \in Path /\ NoBlock(nodes[j].path) /\ IsPrefixOf(nodes[j].path, q)
      /\ w.path \in Path /\ NoBlock(w.path)
  BY <1>1, <1>6, NodeFacts DEF Visible, Clear
<1>8. CASE Table(q) = <<>>
  <2>1. Len(nodes[j].path) = Len(Scope(nodes[j].path)) /\ Len(Scope(nodes[j].path)) \in Nat
    BY <1>5, <1>7, <1>8, AroundIsFound, ScopeType
  <2>2. m <= Len(Scope(nodes[j].path)) /\ Len(Scope(nodes[j].path)) <= m
    BY <1>1, <1>2, <1>3, <1>6, <1>8, <2>1
  <2>3. Len(Scope(nodes[j].path)) = m
    BY <1>5, <2>1, <2>2
  <2> QED
    BY <1>2, <1>3, <2>3
<1>9. CASE Table(q) # <<>>
  <2>1. w.path = nodes[j].path
    BY <1>6, <1>7, <1>9, WithoutBlocks
  <2>2. Scope(nodes[j].path) = SubSeq(Scope(q), 1, m)
    BY <1>6, <2>1
  <2>3. nodes[j] \in SeenAt(nodes, i - 1) /\ nodes[j].str = nodes[i].str
    BY <1>1, <1>2 DEF InScopeAt, InScope, Visible
  <2> QED
    BY <1>3, <2>2, <2>3 DEF InScopeAt, InScope, Key
<1> QED
  BY <1>8, <1>9

\* A wire with the very key of a node is what the node names.
LEMMA KeptIsDenoted ==
    ASSUME NEW nodes \in ModuleNodes, Clear(nodes),
           NEW i \in DOMAIN nodes, nodes[i].type # "wire",
           NEW j \in DOMAIN nodes, nodes[j].type = "wire", j < i,
           Key(nodes[j]) = Key(nodes[i])
    PROVE  Denotes(nodes[i], nodes[j].id, nodes)
PROOF
<1> DEFINE S == Scope(nodes[i].path)
<1>1. Len(S) \in Nat /\ SubSeq(S, 1, Len(S)) = S
  BY NodeFacts, ScopeType
<1>2. nodes[j] \in SeenAt(nodes, i - 1)
  BY ModuleFacts DEF SeenAt
<1>3. nodes[j] \in InScopeAt(nodes, i, Len(S))
  BY <1>1, <1>2 DEF InScopeAt, InScope, Key
<1>4. Len(S) \in HasAt(nodes, i) /\ \A n \in HasAt(nodes, i) : n \in Nat /\ n <= Len(S)
  BY <1>1, <1>3 DEF HasAt
<1> HIDE DEF S
<1>5. PICK m \in HasAt(nodes, i) : /\ \A n \in HasAt(nodes, i) : n <= m
                                   /\ FoundAt(nodes, i) = InScopeAt(nodes, i, m)
  BY <1>4, FoundInnermost
<1>6. m = Len(S)
  BY <1>1, <1>4, <1>5
<1>7. nodes[j] \in FoundAt(nodes, i)
  BY <1>3, <1>5, <1>6
<1> QED
  BY <1>7, FoundIsDenoted

\* The decision of the walk about a wire, in terms of the language.
LEMMA Decided ==
    ASSUME NEW nodes \in ModuleNodes, Clear(nodes)
    PROVE  /\ ~Collides(nodes)
           /\ \A id : ForceConvert(nodes, id) =>
                 \E j \in DOMAIN nodes : nodes[j].type = "wire" /\ nodes[j].id = id
           /\ \A j \in DOMAIN nodes : nodes[j].type = "wire" =>
                 LET uses == {i \in DOMAIN nodes : /\ nodes[i].type # "wire" /\ j < i
                                                   /\ Denotes(nodes[i], nodes[j].id, nodes)}
                 IN  ForceConvert(nodes, nodes[j].id) <=>
                        /\ \E i \in uses : /\ WholeUse(nodes[i])
                                            /\ Table(nodes[i].path) = Table(nodes[j].path)
                        /\ ~\E i \in uses : /\ nodes[i].type = "$readmemh"
                                             /\ Key(nodes[j]) = Key(nodes[i])
PROOF
<1> DEFINE N == Len(nodes)
<1>1. N \in Nat /\ DOMAIN nodes = 1 .. N
  BY ModuleFacts
<1>2. /\ CheckMemories(nodes).collided = FALSE
      /\ CheckMemories(nodes).forced = ForcedAt(nodes, N)
      /\ CheckMemories(nodes).kept = KeptAt(nodes, N)
  BY Walked DEF WalkAt
<1>3. \A id : ForceConvert(nodes, id) <=> id \in ForcedAt(nodes, N) /\ id \notin KeptAt(nodes, N)
  BY <1>2 DEF ForceConvert
<1>4. \A id : id \in ForcedAt(nodes, N) <=>
             \E i \in 1 .. N : WholeUse(nodes[i]) /\ \E w \in FoundAt(nodes, i) : w.id = id
  BY DEF ForcedAt, FoundAt
<1>5. \A id : id \in KeptAt(nodes, N) <=>
             \E i \in 1 .. N : /\ nodes[i].type = "$readmemh"
                               /\ \E w \in SeenAt(nodes, i - 1) : Key(w) = Key(nodes[i]) /\ w.id = id
  BY DEF KeptAt
<1>6. \A i \in DOMAIN nodes : WholeUse(nodes[i]) => nodes[i].type # "wire"
  BY DEF WholeUse
<1>7. ASSUME NEW id, ForceConvert(nodes, id)
      PROVE  \E j \in DOMAIN nodes : nodes[j].type = "wire" /\ nodes[j].id = id
  <2>1. PICK i \in DOMAIN nodes : WholeUse(nodes[i]) /\ \E w \in FoundAt(nodes, i) : w.id = id
    BY <1>1, <1>3, <1>4, <1>7
  <2> QED
    BY <1>6, <2>1, FoundIsDenoted
<1>8. ASSUME NEW j \in DOMAIN nodes, nodes[j].type = "wire"
      PROVE  LET uses == {i \in DOMAIN nodes : /\ nodes[i].type # "wire" /\ j < i
                                               /\ Denotes(nodes[i], nodes[j].id, nodes)}
             IN  /\ nodes[j].id \in ForcedAt(nodes, N) <=>
                       \E i \in uses : /\ WholeUse(nodes[i])
                                        /\ Table(nodes[i].path) = Table(nodes[j].path)
                 /\ nodes[j].id \in KeptAt(nodes, N) <=>
                       \E i \in uses : /\ nodes[i].type = "$readmemh"
                                        /\ Key(nodes[j]) = Key(nodes[i])
  <2> DEFINE id == nodes[j].id
             uses == {i \in DOMAIN nodes : /\ nodes[i].type # "wire" /\ j < i
                                           /\ Denotes(nodes[i], id, nodes)}
  <2>1. \A k \in DOMAIN nodes : nodes[k].type = "wire" /\ nodes[k].id = id => k = j
    BY <1>8, ModuleFacts
  <2>2. ASSUME id \in ForcedAt(nodes, N)
        PROVE  \E i \in uses : WholeUse(nodes[i]) /\ Table(nodes[i].path) = Table(nodes[j].path)
    <3>1. PICK i \in DOMAIN nodes : WholeUse(nodes[i]) /\ \E w \in FoundAt(nodes, i) : w.id = id
      BY <1>1, <1>4, <2>2
    <3>2. PICK w \in FoundAt(nodes, i) : w.id = id
      BY <3>1
    <3>3. PICK k \in DOMAIN nodes : /\ w = nodes[k] /\ k < i /\ nodes[k].type = "wire"
                                    /\ Table(w.path) = Table(nodes[i].path)
                                    /\ Denotes(nodes[i], w.id, nodes)
      BY <1>6, <3>1, <3>2, FoundIsDenoted
    <3>4. k = j
      BY <2>1, <3>2, <3>3
    <3> QED
      BY <1>6, <3>1, <3>2, <3>3, <3>4
  <2>3. ASSUME NEW i \in uses, WholeUse(nodes[i]), Table(nodes[i].path) = Table(nodes[j].path)
        PROVE  id \in ForcedAt(nodes, N)
    <3>1. nodes[j] \in FoundAt(nodes, i)
      BY <1>8, <2>3, DenotedIsFound
    <3> QED
      BY <1>1, <1>4, <2>3, <3>1
  <2>4. ASSUME id \in KeptAt(nodes, N)
        PROVE  \E i \in uses : nodes[i].type = "$readmemh" /\ Key(nodes[j]) = Key(nodes[i])
    <3>1. PICK i \in DOMAIN nodes :
              /\ nodes[i].type = "$readmemh"
              /\ \E w \in SeenAt(nodes, i - 1) : Key(w) = Key(nodes[i]) /\ w.id = id
      BY <1>1, <1>5, <2>4
    <3>2. PICK k \in 1 .. i - 1 : nodes[k].type = "wire" /\ Key(nodes[k]) = Key(nodes[i]) /\ nodes[k].id = id
      BY <3>1 DEF SeenAt
    <3>3. k \in DOMAIN nodes /\ k < i
      BY <1>1, <3>2
    <3>4. k = j
      BY <2>1, <3>2, <3>3
    <3>5. Denotes(nodes[i], id, nodes)
      BY <3>1, <3>2, <3>3, <3>4, KeptIsDenoted
    <3> QED
      BY <3>1, <3>2, <3>3, <3>4, <3>5
  <2>5. ASSUME NEW i \in uses, nodes[i].type = "$readmemh", Key(nodes[j]) = Key(nodes[i])
        PROVE  id \in KeptAt(nodes, N)
    <3>1. nodes[j] \in SeenAt(nodes, i - 1)
      BY <1>1, <1>8 DEF SeenAt
    <3> QED
      BY <1>1, <1>5, <2>5, <3>1
  <2> QED
    BY <2>2, <2>3, <2>4, <2>5
<1> QED
  BY <1>2, <1>3, <1>7, <1>8 DEF Collides

------------------------------------------------------------------------------
(***************************************************************************)
(* The wire and its layout                                                 *)
(***************************************************************************)

AfterVariables(d) ==
    IF "variable" \in d.objects THEN AddOrReplace(NoNode, Variable(d)) ELSE NoNode
AfterPorts(d) ==
    IF d.direction # "none" THEN AddOrReplace(AfterVariables(d), Port(d)) ELSE AfterVariables(d)
AfterNets(d) ==
    IF "net" \in d.objects THEN AddOrReplace(AfterPorts(d), Net(d)) ELSE AfterPorts(d)

Early == pc \in {"variables", "ports", "nets"}

\* The node of the wire, which nothing else has looked at before it is complete.
Building ==
    /\ declared \in Declaration /\ wire \in Node
    /\ pc = "variables" => wire = NoNode
    /\ pc = "ports" => wire = AfterVariables(declared.source)
    /\ pc = "nets" => wire = AfterPorts(declared.source)
    /\ ~Early => wire = AfterNets(declared.source)
    /\ Early => dimensions = <<>> /\ size = 1

\* The k-th of the first n ranges stored, in the order a select names them.
Among(n, k) ==
    LET unpacked == IF n <= NoPacked THEN 0 ELSE n - NoPacked
    IN  IF k <= unpacked THEN wire.unpacked[k] ELSE wire.packed[k - unpacked]

\* e[k] is the number of bits of an element named by k indices, if only the
\* first n ranges are stored.
Layout(e, n) ==
    /\ e \in [0 .. n -> Nat \ {0}] /\ e[0] = size /\ e[n] = 1
    /\ \A k \in 1 .. n : e[k - 1] = e[k] * Width(Among(n, k))

\* b[k] is the first bit of the element that the first k indices of s name.
Bases(b, e, s, n) ==
    /\ b[0] = 0
    /\ \A k \in 1 .. n : b[k] = b[k - 1] + (s[k].right - Low(Evaluated(k))) * e[k]

\* The bits of the elements `range` names, not yet in order, in an array of
\* elements of e bits with the indices from `low` on that starts at bit `base`.
Element(bits, base, e, low, range) ==
    /\ bits.right = base + (range.right - low) * e
    /\ bits.left + 1 = base + (range.left - low + 1) * e

\* The bits the first n indices of s are converted to.
StandsFor(bits, e, s, n) ==
    IF n = 0 THEN bits = [left |-> size - 1, right |-> 0]
    ELSE \E b \in [0 .. n -> Int] :
            Bases(b, e, s, n) /\ Element(bits, b[n - 1], e[n], Low(Evaluated(n)), s[n])

\* The bits a whole select is converted to.
Placed(bits, e, s) ==
    \E raw \in Bounds : StandsFor(raw, e, s, Len(s)) /\ bits = Annotated(raw)

\* Every range has a place in `dimensions` before a select is converted, and
\* its lowest index is there.
DimensionsAreLow ==
    /\ Len(dimensions) <= NoRanges
    /\ \A j \in 1 .. Len(dimensions) : dimensions[j].low = Low(Stored(j))
    /\ pc \in {"flat", "select"} => Len(dimensions) = NoRanges

\* All that is converted is where one layout of the wire has it.
LaidOut(e) ==
    /\ Layout(e, Len(dimensions))
    /\ pc = "select" =>
          /\ Legal(select) /\ next <= Len(select) + 1
          /\ elem = e[next - 1]
          /\ StandsFor(result, e, select, next - 1)
    /\ \A c \in Selects : Legal(c.ranges) /\ Placed(c.bits, e, c.ranges)

IInv ==
    /\ TypeOK /\ DimensionsAreLow
    /\ \E e \in [0 .. Len(dimensions) -> Nat \ {0}] : LaidOut(e)

------------------------------------------------------------------------------
(***************************************************************************)
(* The node of a wire                                                      *)
(***************************************************************************)
LEMMA NodeType ==
    ASSUME NEW d \in Source
    PROVE  /\ NoNode \in Node /\ Variable(d) \in Node /\ Port(d) \in Node /\ Net(d) \in Node
           /\ \A old, child \in Node : AddOrReplace(old, child) \in Node
PROOF
<1>1. d.packed \in Seq(Bounds) /\ d.unpacked \in Seq(Bounds) /\ LogicTypespec(d) \in Seq(Bounds)
  <2>1. d.packed \in Seq(Bounds) /\ d.unpacked \in Seq(Bounds)
    BY DEF Source
  <2>2. [left |-> 0, right |-> 0] \in Bounds
    BY DEF Bounds
  <2>3. <<[left |-> 0, right |-> 0]>> \in Seq(Bounds)
    BY <2>2
  <2> QED
    BY <2>1, <2>3 DEF LogicTypespec
<1>2. NoNode \in Node
  BY DEF NoNode, Node
<1>3. \A old, child \in Node : AddOrReplace(old, child) \in Node
  BY DEF AddOrReplace, TakenOver, Node
<1>4. Variable(d) \in Node
  BY <1>1 DEF Variable, ArrayVar, LogicVar, Copied, NodeOf, Node, Source
<1>5. Port(d) \in Node
  BY <1>1 DEF Port, Node, Source
<1>6. Net(d) \in Node
  BY <1>1 DEF Net, ArrayNet, LogicNet, Copied, NodeOf, Node, Source
<1> QED
  BY <1>2, <1>3, <1>4, <1>5, <1>6

LEMMA Merged ==
    ASSUME NEW old \in Node, NEW child \in Node
    PROVE  LET node == AddOrReplace(old, child)
               ranges == old.attributes /\ child.attributes
               port == old.direction # "none"
           IN  /\ node.packed = TakenOver(old.packed, child.packed, ranges)
               /\ node.unpacked = TakenOver(old.unpacked, child.unpacked, ranges)
               /\ node.attributes <=> child.attributes
               /\ node.direction = IF port THEN old.direction ELSE child.direction
               /\ node.port_id = IF port THEN old.port_id ELSE child.port_id
               /\ node.signed <=> (child.signed \/ old.signed)
  BY DEF AddOrReplace, Node

\* The node after all objects: every one of them says the declaration, or leaves
\* the place empty for the one before it.
LEMMA NodeAsDeclared ==
    ASSUME NEW d \in Source, Described(d)
    PROVE  LET node == AfterNets(d) IN
           /\ node.packed = d.packed \/ (d.packed = <<>> /\ node.packed = LogicTypespec(d))
           /\ node.unpacked = d.unpacked
           /\ node.direction = d.direction
           /\ node.port_id # 0 <=> d.direction # "none"
           /\ node.signed <=> d.signed /\ (IsArray(d) => "net" \in d.objects)
PROOF
<1> DEFINE v == AfterVariables(d)
           p == AfterPorts(d)
           Says(packed) == packed = d.packed \/ (d.packed = <<>> /\ packed = LogicTypespec(d))
<1>1. /\ "variable" \in d.objects \/ "net" \in d.objects
      /\ d.signed \in BOOLEAN /\ d.typespec \in BOOLEAN
      /\ d.objects = {"variable"} => "net" \notin d.objects
  BY DEF Source
<1>2. NoNode \in Node /\ Variable(d) \in Node /\ Port(d) \in Node /\ Net(d) \in Node
  BY NodeType
<1>3. /\ NoNode.packed = <<>> /\ NoNode.unpacked = <<>> /\ ~NoNode.attributes
      /\ NoNode.direction = "none" /\ NoNode.port_id = 0 /\ ~NoNode.signed
  BY DEF NoNode
<1>4. LET c == Variable(d) IN
      /\ c.direction = "none" /\ c.port_id = 0 /\ c.unpacked = d.unpacked /\ Says(c.packed)
      /\ c.signed <=> (d.signed /\ ~IsArray(d))
      /\ c.attributes \/ (c.packed = <<>> /\ c.unpacked = <<>> /\ d.packed = <<>>)
  <2>1. CASE IsArray(d)
    <3>1. Variable(d) = ArrayVar(d)
      BY <2>1 DEF Variable
    <3>2. /\ ArrayVar(d).direction = "none" /\ ArrayVar(d).port_id = 0
          /\ ArrayVar(d).unpacked = d.unpacked /\ ~ArrayVar(d).signed /\ ArrayVar(d).attributes
      BY DEF ArrayVar, NodeOf
    <3>3. Says(ArrayVar(d).packed)
      BY DEF ArrayVar, NodeOf, LogicTypespec
    <3> QED
      BY <2>1, <3>1, <3>2, <3>3
  <2>2. CASE ~IsArray(d)
    BY <1>1, <2>2 DEF Variable, LogicVar, Copied, NodeOf, IsArray, LogicTypespec, Described
  <2> QED
    BY <2>1, <2>2
<1>5. LET c == Port(d) IN
      /\ c.direction = d.direction /\ c.port_id = 1 /\ c.attributes
      /\ c.packed = IF IsArray(d) THEN <<>> ELSE d.packed
      /\ c.unpacked = IF "variable" \in d.objects THEN d.unpacked ELSE <<>>
      /\ c.signed <=> (d.signed /\ ~IsArray(d))
  BY DEF Port
<1>6. LET c == Net(d) IN
      /\ c.direction = "none" /\ c.port_id = 0 /\ c.unpacked = d.unpacked /\ Says(c.packed)
      /\ c.signed <=> d.signed
      /\ c.attributes \/ (c.packed = <<>> /\ c.unpacked = <<>> /\ d.packed = <<>>)
  <2>1. CASE IsArray(d)
    BY <1>1, <2>1 DEF Net, ArrayNet, NodeOf
  <2>2. CASE ~IsArray(d)
    BY <1>1, <2>2 DEF Net, LogicNet, Copied, NodeOf, IsArray, LogicTypespec, Described
  <2> QED
    BY <2>1, <2>2
<1> HIDE DEF Says
<1>7. /\ v \in Node /\ v.direction = "none" /\ v.port_id = 0
      /\ "variable" \in d.objects =>
            /\ v.unpacked = d.unpacked /\ Says(v.packed)
            /\ v.signed <=> (d.signed /\ ~IsArray(d))
            /\ v.attributes \/ (v.packed = <<>> /\ v.unpacked = <<>> /\ d.packed = <<>>)
      /\ "variable" \notin d.objects =>
            /\ v.unpacked = <<>> /\ v.packed = <<>> /\ ~v.signed
  <2>1. CASE "variable" \in d.objects
    <3>1. v = AddOrReplace(NoNode, Variable(d)) /\ v \in Node
      BY <1>2, <2>1, NodeType DEF AfterVariables
    <3> QED
      BY <1>2, <1>3, <1>4, <2>1, <3>1, Merged DEF TakenOver
  <2>2. CASE "variable" \notin d.objects
    BY <1>2, <1>3, <2>2 DEF AfterVariables
  <2> QED
    BY <2>1, <2>2
<1> HIDE DEF v
<1>8. /\ p \in Node /\ p.direction = d.direction
      /\ p.port_id # 0 <=> d.direction # "none"
      /\ "variable" \in d.objects =>
            /\ p.unpacked = d.unpacked /\ Says(p.packed)
            /\ p.signed <=> (d.signed /\ ~IsArray(d))
      /\ "variable" \notin d.objects => (p.signed => d.signed)
      /\ p.packed = <<>> \/ Says(p.packed)
      /\ p.unpacked = <<>> \/ p.unpacked = d.unpacked
  <2>1. CASE d.direction # "none"
    <3>1. p = AddOrReplace(v, Port(d)) /\ p \in Node
      BY <1>7, <2>1, NodeType DEF AfterPorts, v
    <3>2. /\ p.packed = TakenOver(v.packed, Port(d).packed, v.attributes /\ Port(d).attributes)
          /\ p.unpacked = TakenOver(v.unpacked, Port(d).unpacked, v.attributes /\ Port(d).attributes)
          /\ p.direction = d.direction /\ p.port_id = 1
          /\ p.signed <=> (Port(d).signed \/ v.signed)
      BY <1>2, <1>5, <1>7, <3>1, Merged
    <3>3. p.unpacked = <<>> \/ p.unpacked = d.unpacked
      BY <1>5, <1>7, <3>2 DEF TakenOver
    <3>4. p.packed = <<>> \/ Says(p.packed)
      BY <1>5, <1>7, <3>2 DEF TakenOver, Says
    <3>5. "variable" \in d.objects => p.unpacked = d.unpacked /\ Says(p.packed)
      BY <1>5, <1>7, <3>2 DEF TakenOver, Says
    <3> QED
      BY <1>1, <1>5, <1>7, <2>1, <3>1, <3>2, <3>3, <3>4, <3>5
  <2>2. CASE d.direction = "none"
    BY <1>7, <2>2 DEF AfterPorts, v
  <2> QED
    BY <2>1, <2>2
<1> HIDE DEF p
<1> DEFINE n == AfterNets(d)
<1>9. CASE "net" \in d.objects
  <2>1. n = AddOrReplace(p, Net(d))
    BY <1>9 DEF AfterNets, p
  <2>2. /\ n.packed = TakenOver(p.packed, Net(d).packed, p.attributes /\ Net(d).attributes)
        /\ n.unpacked = TakenOver(p.unpacked, Net(d).unpacked, p.attributes /\ Net(d).attributes)
        /\ n.direction = d.direction
        /\ n.port_id # 0 <=> d.direction # "none"
        /\ n.signed <=> (d.signed \/ p.signed)
    BY <1>2, <1>6, <1>8, <2>1, Merged
  <2>3. n.unpacked = d.unpacked
    BY <1>6, <1>8, <2>2 DEF TakenOver
  <2>4. Says(n.packed)
    BY <1>6, <1>8, <2>2 DEF TakenOver
  <2>5. n.signed <=> d.signed
    BY <1>1, <1>8, <2>2
  <2> QED
    BY <1>1, <1>9, <2>2, <2>3, <2>4, <2>5 DEF Says
<1>10. CASE "net" \notin d.objects
  BY <1>1, <1>8, <1>10 DEF AfterNets, p, Says
<1> QED
  BY <1>9, <1>10

LEMMA InitBuilding == Init => Building
PROOF
<1> SUFFICES ASSUME Init PROVE Building
  OBVIOUS
<1>1. declared \in Declaration /\ wire = NoNode /\ pc = "variables"
  BY DeclarationsAssumption DEF Init
<1>2. NoNode \in Node
  BY DEF NoNode, Node
<1> QED
  BY <1>1, <1>2 DEF Init, Building, Early

LEMMA NextBuilding == Building /\ [Next]_vars => Building'
PROOF
<1> SUFFICES ASSUME Building, [Next]_vars PROVE Building'
  OBVIOUS
<1> DEFINE d == declared.source
<1>1. d \in Source /\ wire \in Node
  BY DEF Building, Declaration
<1>2. /\ AddOrReplace(wire, Variable(d)) \in Node
      /\ AddOrReplace(wire, Port(d)) \in Node
      /\ AddOrReplace(wire, Net(d)) \in Node
  BY <1>1, NodeType
<1>3. CASE VisitVariables
  BY <1>1, <1>2, <1>3 DEF VisitVariables, Building, Early, AfterVariables
<1>4. CASE VisitPorts
  BY <1>1, <1>2, <1>4 DEF VisitPorts, Building, Early, AfterPorts
<1>5. CASE VisitNets
  <2>1. pc' \in {"stopped", "wire"}
    BY <1>5 DEF VisitNets
  <2> QED
    BY <1>1, <1>2, <1>5, <2>1 DEF VisitNets, Building, Early, AfterNets
<1>6. CASE UNCHANGED <<declared, wire>> /\ ~Early /\ ~Early'
  BY <1>6 DEF Building, Early
<1>7. CASE SetDimension \/ Flatten \/ KeepRanges
  <2>1. UNCHANGED <<declared, wire>> /\ ~Early /\ ~Early'
    BY <1>7 DEF SetDimension, Flatten, KeepRanges, Early
  <2> QED
    BY <2>1, <1>6
<1>8. CASE BeginSelect \/ ConvertIndex \/ EndSelect
  <2>1. UNCHANGED <<declared, wire>> /\ ~Early /\ ~Early'
    BY <1>8 DEF BeginSelect, ConvertIndex, EndSelect, Early
  <2> QED
    BY <2>1, <1>6
<1>9. CASE UNCHANGED vars
  BY <1>9 DEF vars, Building, Early
<1> QED
  BY <1>3, <1>4, <1>5, <1>7, <1>8, <1>9 DEF Next

LEMMA WireIsBuilt == Spec => []Building
  BY InitBuilding, NextBuilding, PTL DEF Spec

\* Every declaration, in whatever way Surelog describes it: once all objects of
\* the wire are visited its node says what the declaration does
\* (add_or_replace_child).
THEOREM DeclarationKept == Spec => []WireAsDeclared
PROOF
<1>1. Building => WireAsDeclared
  BY NodeAsDeclared DEF Building, Early, Declaration, WireAsDeclared
<1> QED
  BY <1>1, WireIsBuilt, PTL

------------------------------------------------------------------------------
(***************************************************************************)
(* Memories                                                                *)
(***************************************************************************)
\* What was decided about the wire when its objects had been visited.
Judged ==
    /\ pc = "memory" => ~Converts
    /\ pc \in {"flat", "select"} => Converts
    /\ pc = "stopped" => Collides(declared.module)

LEMMA InitJudged == Init => Judged
  BY DEF Init, Judged

LEMMA NextJudged == Judged /\ [Next]_vars => Judged'
PROOF
<1> USE DEF Judged
<1> SUFFICES ASSUME Judged, [Next]_vars PROVE Judged'
  OBVIOUS
<1>1. ASSUME UNCHANGED <<declared, wire>> PROVE Converts' <=> Converts
  BY <1>1 DEF Converts, IsPort, NoRanges, NoPacked, NoUnpacked
<1>2. CASE UNCHANGED vars
  BY <1>1, <1>2 DEF vars
<1>3. CASE VisitVariables
  BY <1>3 DEF VisitVariables
<1>4. CASE VisitPorts
  BY <1>4 DEF VisitPorts
<1>5. CASE VisitNets
  BY <1>5 DEF VisitNets
<1>6. CASE SetDimension
  BY <1>6 DEF SetDimension
<1>7. CASE Flatten
  <2>1. Converts' <=> Converts
    BY <1>1, <1>7 DEF Flatten
  <2> QED
    BY <1>7, <2>1 DEF Flatten
<1>8. CASE KeepRanges
  <2>1. Converts' <=> Converts
    BY <1>1, <1>8 DEF KeepRanges
  <2> QED
    BY <1>8, <2>1 DEF KeepRanges
<1>9. CASE BeginSelect
  <2>1. Converts' <=> Converts
    BY <1>1, <1>9 DEF BeginSelect
  <2> QED
    BY <1>9, <2>1 DEF BeginSelect
<1>10. CASE ConvertIndex
  <2>1. Converts' <=> Converts
    BY <1>1, <1>10 DEF ConvertIndex
  <2> QED
    BY <1>10, <2>1 DEF ConvertIndex
<1>11. CASE EndSelect
  <2>1. Converts' <=> Converts
    BY <1>1, <1>11 DEF EndSelect
  <2> QED
    BY <1>11, <2>1 DEF EndSelect
<1> QED
  BY <1>2, <1>3, <1>4, <1>5, <1>6, <1>7, <1>8, <1>9, <1>10, <1>11 DEF Next

LEMMA JudgedMemories == Building /\ Judged => MemoriesAreIndexed
PROOF
<1> SUFFICES ASSUME Building, Judged PROVE MemoriesAreIndexed
  OBVIOUS
<1> DEFINE nodes == declared.module
           node(i) == nodes[i]
           whole == {i \in Uses : WholeUse(node(i)) /\ \A j \in Here : Table(node(i).path) = Table(node(j).path)}
           kept == \E i \in Uses, j \in Here : node(i).type = "$readmemh" /\ Key(node(j)) = Key(node(i))
           clear == \A j \in Wires : ~InBlock(node(j)) /\ node(j).memory
<1>1. nodes \in ModuleNodes
  BY DEF Building, Declaration
<1>2. SUFFICES ASSUME clear
               PROVE  /\ ~Collides(nodes)
                      /\ ForceConvert(nodes, This) <=> whole # {} /\ ~kept
  BY <1>2 DEF Judged, Converts, MemoriesAreIndexed
<1> HIDE DEF nodes
<1>3. Clear(nodes)
  BY <1>2 DEF Clear, NoBlock, InBlock, Wires, Nodes, nodes
<1>4. ~Collides(nodes)
  BY <1>1, <1>3, Decided
<1>5. CASE Here = {}
  <2>1. ~ForceConvert(nodes, This)
    BY <1>1, <1>3, <1>5, Decided DEF Here, Wires, Nodes, nodes
  <2>2. Uses = {}
    BY <1>5 DEF Uses
  <2> QED
    BY <1>4, <2>1, <2>2
<1>6. ASSUME NEW j \in Here
      PROVE  ForceConvert(nodes, This) <=> whole # {} /\ ~kept
  <2>1. j \in DOMAIN nodes /\ nodes[j].type = "wire" /\ nodes[j].id = This
    BY DEF Here, Wires, Nodes, nodes
  <2>2. Here = {j}
    BY <1>1, <2>1, ModuleFacts DEF Here, Wires, Nodes, nodes
  <2> DEFINE uses == {i \in DOMAIN nodes : /\ nodes[i].type # "wire" /\ j < i
                                           /\ Denotes(nodes[i], This, nodes)}
  <2>3. uses = Uses
    BY <2>2 DEF Uses, Wires, Nodes, nodes
  <2>4. ForceConvert(nodes, This) <=>
           /\ \E i \in uses : WholeUse(nodes[i]) /\ Table(nodes[i].path) = Table(nodes[j].path)
           /\ ~\E i \in uses : nodes[i].type = "$readmemh" /\ Key(nodes[j]) = Key(nodes[i])
    BY <1>1, <1>3, <2>1, Decided
  <2>5. whole # {} <=> \E i \in uses : WholeUse(nodes[i]) /\ Table(nodes[i].path) = Table(nodes[j].path)
    BY <2>2, <2>3
  <2>6. kept <=> \E i \in uses : nodes[i].type = "$readmemh" /\ Key(nodes[j]) = Key(nodes[i])
    BY <2>2, <2>3
  <2> QED
    BY <2>4, <2>5, <2>6
<1> QED
  BY <1>4, <1>5, <1>6

\* For every module whose wires are all arrays with a range of each kind,
\* outside blocks, however its generate blocks and functions nest and share
\* names: an array stays a memory exactly if every access that the walk meets
\* after it and that is in its function is to one element, or a $readmemh keeps
\* it (check_memories).
THEOREM MemoriesIndexed == Spec => []MemoriesAreIndexed
PROOF
<1>1. Spec => []Judged
  BY InitJudged, NextJudged, PTL DEF Spec
<1> QED
  BY <1>1, JudgedMemories, WireIsBuilt, PTL

------------------------------------------------------------------------------
(***************************************************************************)
(* Arithmetic                                                              *)
(***************************************************************************)
LEMMA RangeBounds ==
    ASSUME NEW range \in Bounds
    PROVE  /\ Low(range) \in Int /\ High(range) \in Int
           /\ Low(range) <= High(range)
           /\ Width(range) \in Nat \ {0}
           /\ Width(range) = High(range) - Low(range) + 1
  BY DEF Bounds, Low, High, Width

LEMMA Monotone ==
    ASSUME NEW a \in Int, NEW b \in Int, NEW e \in Nat, a <= b
    PROVE  a * e \in Int /\ b * e \in Int /\ a * e <= b * e
PROOF
<1>1. PICK d \in Nat : b = a + d
  <2>1. b - a \in Nat /\ b = a + (b - a)
    OBVIOUS
  <2> QED
    BY <2>1
<1>2. (a + d) * e = a * e + d * e
  OBVIOUS
<1>3. d * e \in Nat /\ a * e \in Int
  OBVIOUS
<1> QED
  BY <1>1, <1>2, <1>3

LEMMA Plus1 ==
    ASSUME NEW a \in Int, NEW e \in Nat
    PROVE  a * e \in Int /\ (a + 1) * e = a * e + e
  OBVIOUS

\* The i-th of w parts of e bits each begins and ends in the whole.
LEMMA PartInWhole ==
    ASSUME NEW e \in Nat, NEW w \in Int, NEW i \in Int, 0 <= i, i < w
    PROVE  i * e \in Int /\ w * e \in Int /\ 0 <= i * e /\ i * e + e <= w * e
PROOF
<1>1. 0 * e <= i * e /\ 0 * e = 0 /\ i * e \in Int
  BY Monotone
<1>2. (i + 1) * e <= w * e /\ w * e \in Int
  BY Monotone
<1>3. (i + 1) * e = i * e + e
  BY Plus1
<1> QED
  BY <1>1, <1>2, <1>3

------------------------------------------------------------------------------
(***************************************************************************)
(* The ranges of a wire                                                    *)
(***************************************************************************)
LEMMA RangesOfWire ==
    ASSUME wire \in Node
    PROVE  /\ NoPacked \in Nat /\ NoUnpacked \in Nat /\ NoRanges \in Nat
           /\ \A k \in 1 .. NoRanges :
                 /\ Stored(k) \in Bounds
                 /\ Evaluated(k) \in Bounds
                 /\ Evaluated(k) = Selected(k)
                 /\ Position(k) \in 1 .. NoRanges
                 /\ Stored(Position(k)) = Evaluated(k)
PROOF
<1>1. wire.packed \in Seq(Bounds) /\ wire.unpacked \in Seq(Bounds)
  BY DEF Node
<1>2. NoPacked \in Nat /\ NoUnpacked \in Nat /\ NoRanges \in Nat
  <2>1. NoPacked \in Nat
    BY <1>1 DEF NoPacked
  <2>2. NoUnpacked \in Nat
    BY <1>1 DEF NoUnpacked
  <2> QED
    BY <2>1, <2>2 DEF NoRanges
<1> SUFFICES ASSUME NEW k \in 1 .. NoRanges
             PROVE  /\ Stored(k) \in Bounds
                    /\ Evaluated(k) \in Bounds
                    /\ Evaluated(k) = Selected(k)
                    /\ Position(k) \in 1 .. NoRanges
                    /\ Stored(Position(k)) = Evaluated(k)
  BY <1>2
<1>3. \A j \in 1 .. NoPacked : wire.packed[j] \in Bounds
  BY <1>1 DEF NoPacked
<1>4. \A j \in 1 .. NoUnpacked : wire.unpacked[j] \in Bounds
  BY <1>1 DEF NoUnpacked
<1>5. Stored(k) \in Bounds
  BY <1>2, <1>3, <1>4 DEF Stored, NoRanges
<1>6. Evaluated(k) \in Bounds /\ Evaluated(k) = Selected(k)
  BY <1>2, <1>3, <1>4 DEF Evaluated, Selected, NoRanges
<1>7. Position(k) \in 1 .. NoRanges
  BY <1>2 DEF Position, NoRanges
<1>8. Stored(Position(k)) = Evaluated(k)
  BY <1>2 DEF Position, NoRanges, Stored, Evaluated
<1> QED
  BY <1>5, <1>6, <1>7, <1>8

LEMMA LegalSelect ==
    ASSUME wire \in Node, NEW s \in Seq(Bounds), Legal(s)
    PROVE  /\ Len(s) \in 1 .. NoRanges
           /\ \A k \in 1 .. Len(s) :
                 /\ k \in 1 .. NoRanges /\ s[k] \in Bounds
                 /\ Low(Evaluated(k)) <= s[k].left /\ s[k].left <= High(Evaluated(k))
                 /\ Low(Evaluated(k)) <= s[k].right /\ s[k].right <= High(Evaluated(k))
                 /\ k < Len(s) => s[k].left = s[k].right
PROOF
<1>1. NoRanges \in Nat /\ Len(s) \in 1 .. NoRanges
  BY RangesOfWire DEF Legal
<1> SUFFICES ASSUME NEW k \in 1 .. Len(s)
             PROVE  /\ k \in 1 .. NoRanges /\ s[k] \in Bounds
                    /\ Low(Evaluated(k)) <= s[k].left /\ s[k].left <= High(Evaluated(k))
                    /\ Low(Evaluated(k)) <= s[k].right /\ s[k].right <= High(Evaluated(k))
                    /\ k < Len(s) => s[k].left = s[k].right
  BY <1>1
<1>2. k \in 1 .. NoRanges /\ s[k] \in Bounds
  BY <1>1
<1>3. Evaluated(k) \in Bounds /\ Evaluated(k) = Selected(k)
  BY <1>2, RangesOfWire
<1>4. Low(Selected(k)) \in Int /\ High(Selected(k)) \in Int
  BY <1>3, RangeBounds
<1>5. /\ {s[k].left, s[k].right} \subseteq Low(Selected(k)) .. High(Selected(k))
      /\ k < Len(s) => s[k].left = s[k].right
  BY DEF Legal
<1> QED
  BY <1>2, <1>3, <1>4, <1>5

------------------------------------------------------------------------------
(***************************************************************************)
(* Layouts                                                                 *)
(***************************************************************************)
\* No range: an element is the bit.
LEMMA LayoutOfNone ==
    ASSUME wire \in Node, size = 1
    PROVE  \E e \in [0 .. 0 -> Nat \ {0}] : Layout(e, 0)
PROOF
<1> DEFINE e == [k \in 0 .. 0 |-> 1]
<1>1. e \in [0 .. 0 -> Nat \ {0}] /\ e[0] = 1
  OBVIOUS
<1> HIDE DEF e
<1>2. Layout(e, 0)
  BY <1>1 DEF Layout
<1> QED
  BY <1>1, <1>2

\* Where the range stored next is named among those stored already.
Place(n) == IF n < NoPacked THEN n + 1 ELSE n - NoPacked + 1

LEMMA AmongMore ==
    ASSUME wire \in Node, NEW n \in Nat, n < NoRanges
    PROVE  /\ Place(n) \in 1 .. n + 1
           /\ \A k \in 1 .. n + 1 :
                 Among(n + 1, k) = IF k < Place(n) THEN Among(n, k)
                                   ELSE IF k = Place(n) THEN Stored(n + 1)
                                   ELSE Among(n, k - 1)
PROOF
<1>1. NoPacked \in Nat /\ NoUnpacked \in Nat /\ NoRanges = NoPacked + NoUnpacked
  BY RangesOfWire DEF NoRanges
<1>2. CASE n < NoPacked
  BY <1>1, <1>2 DEF Place, Among, Stored
<1>3. CASE n >= NoPacked
  BY <1>1, <1>3 DEF Place, Among, Stored
<1> QED
  BY <1>1, <1>2, <1>3

\* One range more multiplies the elements around it, and leaves those in it.
LEMMA LayoutOfMore ==
    ASSUME wire \in Node, NEW n \in Nat, n < NoRanges,
           NEW e, Layout(e, n), wire' = wire, size' = size * Width(Stored(n + 1))
    PROVE  \E f \in [0 .. n + 1 -> Nat \ {0}] : Layout(f, n + 1)'
PROOF
<1> DEFINE w == Width(Stored(n + 1))
           q == Place(n)
           f == [k \in 0 .. n + 1 |-> IF k < q THEN e[k] * w ELSE e[k - 1]]
           W(k) == Width(Among(n, k))
<1>1. Stored(n + 1) \in Bounds /\ w \in Nat \ {0}
  <2>1. n + 1 \in 1 .. NoRanges
    BY RangesOfWire
  <2> QED
    BY <2>1, RangesOfWire, RangeBounds
<1>2. /\ q \in 1 .. n + 1
      /\ \A k \in 1 .. n + 1 :
            Width(Among(n + 1, k)) = IF k < q THEN W(k) ELSE IF k = q THEN w ELSE W(k - 1)
  BY AmongMore
<1>3. /\ e \in [0 .. n -> Nat \ {0}] /\ e[0] = size /\ e[n] = 1
      /\ \A k \in 1 .. n : e[k - 1] = e[k] * W(k)
  BY DEF Layout
<1>4. \A k \in 1 .. n : Among(n, k) \in Bounds /\ W(k) \in Nat \ {0}
  <2> SUFFICES ASSUME NEW k \in 1 .. n PROVE Among(n, k) \in Bounds
    BY RangeBounds
  <2>1. NoPacked \in Nat /\ NoUnpacked \in Nat /\ NoRanges = NoPacked + NoUnpacked
    BY RangesOfWire DEF NoRanges
  <2>2. wire.packed \in Seq(Bounds) /\ wire.unpacked \in Seq(Bounds)
    BY DEF Node
  <2>3. \A j \in 1 .. NoPacked : wire.packed[j] \in Bounds
    BY <2>2 DEF NoPacked
  <2>4. \A j \in 1 .. NoUnpacked : wire.unpacked[j] \in Bounds
    BY <2>2 DEF NoUnpacked
  <2> QED
    BY <2>1, <2>3, <2>4 DEF Among
<1> HIDE DEF w, q, W
<1>5. f \in [0 .. n + 1 -> Nat \ {0}]
  <2>1. \A a, b \in Nat \ {0} : a * b \in Nat \ {0}
    OBVIOUS
  <2>2. ASSUME NEW k \in 0 .. n + 1
        PROVE  (IF k < q THEN e[k] * w ELSE e[k - 1]) \in Nat \ {0}
    <3>1. CASE k < q
      <4>1. k \in 0 .. n
        BY <1>2, <3>1
      <4>2. e[k] \in Nat \ {0}
        BY <1>3, <4>1
      <4> QED
        BY <1>1, <2>1, <3>1, <4>2
    <3>2. CASE k >= q
      BY <1>2, <1>3, <3>2
    <3> QED
      BY <1>2, <3>1, <3>2
  <2> QED
    BY <2>2
<1>6. f[0] = size'
  BY <1>1, <1>2, <1>3 DEF w
<1>7. f[n + 1] = 1
  BY <1>2, <1>3
<1>8. ASSUME NEW k \in 1 .. n + 1
      PROVE  f[k - 1] = f[k] * Width(Among(n + 1, k))
  <2>0. \A a, b \in Nat : (a * b) * w = (a * w) * b
    BY <1>1
  <2>1. CASE k < q
    <3>1. k \in 1 .. n /\ k - 1 \in 0 .. n + 1 /\ k \in 0 .. n + 1 /\ k - 1 < q
      BY <1>2, <2>1
    <3>2. f[k - 1] = e[k - 1] * w /\ f[k] = e[k] * w /\ e[k - 1] = e[k] * W(k)
      BY <1>3, <2>1, <3>1
    <3>3. e[k] \in Nat /\ W(k) \in Nat
      BY <1>3, <1>4, <3>1
    <3> HIDE DEF f
    <3>4. (e[k] * W(k)) * w = (e[k] * w) * W(k)
      BY <2>0, <3>3
    <3> QED
      BY <1>2, <2>1, <3>2, <3>4
  <2>2. CASE k = q
    <3>1. f[k - 1] = e[k - 1] * w /\ f[k] = e[k - 1]
      BY <1>2, <2>2
    <3> QED
      BY <1>2, <2>2, <3>1
  <2>3. CASE k > q
    <3>1. k - 1 \in 1 .. n /\ k \in 0 .. n + 1 /\ k - 1 \in 0 .. n + 1
      BY <1>2, <2>3
    <3>2. f[k - 1] = e[k - 2] /\ f[k] = e[k - 1]
      BY <1>2, <2>3, <3>1
    <3>3. e[(k - 1) - 1] = e[k - 1] * W(k - 1)
      BY <1>3, <3>1
    <3>4. (k - 1) - 1 = k - 2
      OBVIOUS
    <3> QED
      BY <1>2, <2>3, <3>2, <3>3, <3>4
  <2> QED
    BY <1>2, <2>1, <2>2, <2>3
<1>9. \A k : Among(n + 1, k)' = Among(n + 1, k)
  BY DEF Among, NoPacked
<1>10. PICK g \in [0 .. n + 1 -> Nat \ {0}] :
           /\ g[0] = size' /\ g[n + 1] = 1
           /\ \A k \in 1 .. n + 1 : g[k - 1] = g[k] * Width(Among(n + 1, k))
  <2> HIDE DEF f
  <2> QED
    BY <1>5, <1>6, <1>7, <1>8
<1>11. Layout(g, n + 1)'
  BY <1>9, <1>10 DEF Layout, Width, Low, High
<1> QED
  BY <1>11

LEMMA AmongAll ==
    ASSUME wire \in Node, NEW k \in 1 .. NoRanges
    PROVE  Among(NoRanges, k) = Evaluated(k)
PROOF
<1>1. NoPacked \in Nat /\ NoUnpacked \in Nat /\ NoRanges = NoPacked + NoUnpacked
  BY RangesOfWire DEF NoRanges
<1> QED
  BY <1>1 DEF Among, Evaluated

\* An element named by k - 1 indices is made of those named by k.
LEMMA Parts ==
    ASSUME wire \in Node, NEW e, Layout(e, NoRanges), NEW k \in 1 .. NoRanges
    PROVE  /\ e[k] \in Nat \ {0} /\ e[k - 1] \in Nat \ {0}
           /\ Evaluated(k) \in Bounds
           /\ Low(Evaluated(k)) \in Int /\ High(Evaluated(k)) \in Int
           /\ e[k - 1] = (High(Evaluated(k)) - Low(Evaluated(k)) + 1) * e[k]
           /\ e[k - 1] \div Width(Evaluated(k)) = e[k]
PROOF
<1>1. NoRanges \in Nat /\ Evaluated(k) \in Bounds
  BY RangesOfWire
<1>2. e[k] \in Nat \ {0} /\ e[k - 1] \in Nat \ {0} /\ e[k - 1] = e[k] * Width(Evaluated(k))
  BY <1>1, AmongAll DEF Layout
<1>3. /\ Low(Evaluated(k)) \in Int /\ High(Evaluated(k)) \in Int
      /\ Width(Evaluated(k)) \in Nat \ {0}
      /\ Width(Evaluated(k)) = High(Evaluated(k)) - Low(Evaluated(k)) + 1
  BY <1>1, RangeBounds
<1>4. \A a, w \in Nat \ {0} : (a * w) \div w = a /\ a * w = w * a
  OBVIOUS
<1>5. e[k - 1] \div Width(Evaluated(k)) = e[k] /\ e[k - 1] = Width(Evaluated(k)) * e[k]
  BY <1>2, <1>3, <1>4
<1> QED
  BY <1>1, <1>2, <1>3, <1>5

\* The elements named by more and more indices lie in one another.
LEMMA Nested ==
    ASSUME wire \in Node, NEW e, Layout(e, NoRanges),
           NEW s \in Seq(Bounds), Legal(s), NEW m \in 0 .. Len(s),
           NEW b \in [0 .. m -> Int], Bases(b, e, s, m),
           NEW n \in 0 .. m, NEW k \in 0 .. n
    PROVE  b[k] <= b[n] /\ b[n] + e[n] <= b[k] + e[k]
PROOF
<1> DEFINE Outside == {j \in Nat : j \in k .. n /\ ~(b[k] <= b[j] /\ b[j] + e[j] <= b[k] + e[k])}
<1>1. Len(s) \in Nat /\ NoRanges \in Nat /\ Len(s) <= NoRanges
  BY LegalSelect, RangesOfWire
<1>2. e \in [0 .. NoRanges -> Nat \ {0}]
  BY DEF Layout
<1>3. \A j \in k .. n : b[j] \in Int /\ e[j] \in Int
  BY <1>1, <1>2
<1>4. SUFFICES ASSUME Outside # {} PROVE FALSE
  <2>1. n \in Nat /\ n \in k .. n
    BY <1>1
  <2> QED
    BY <2>1
<1>5. PICK j \in Outside : \A i \in Outside : j <= i
  BY <1>4, Least
<1>6. j \in k .. n /\ j # k
  BY <1>3
<1>7. j \in 1 .. n /\ j - 1 \in k .. n /\ j - 1 \in Nat
  BY <1>1, <1>6
<1>8. b[k] <= b[j - 1] /\ b[j - 1] + e[j - 1] <= b[k] + e[k]
  <2>1. j - 1 \notin Outside
    BY <1>5, <1>7
  <2> QED
    BY <1>7, <2>1
<1> HIDE DEF Outside
<1> DEFINE low == Low(Evaluated(j))
           high == High(Evaluated(j))
           i == s[j].right - low
<1>9. j \in 1 .. NoRanges /\ j \in 1 .. Len(s)
  BY <1>1, <1>7
<1>10. /\ e[j] \in Nat \ {0} /\ low \in Int /\ high \in Int
       /\ e[j - 1] = (high - low + 1) * e[j]
  BY <1>9, Parts
<1>11. i \in Int /\ 0 <= i /\ i < high - low + 1
  <2>1. s[j] \in Bounds /\ low <= s[j].right /\ s[j].right <= high
    BY <1>9, LegalSelect
  <2> HIDE DEF low, high
  <2>2. s[j].right \in Int
    BY <2>1 DEF Bounds
  <2> QED
    BY <1>10, <2>1, <2>2
<1>12. b[j] = b[j - 1] + i * e[j]
  <2>1. j \in 1 .. m
    BY <1>1, <1>7
  <2> QED
    BY <2>1 DEF Bases, i, low
<1> HIDE DEF i, low, high
<1> DEFINE part == i * e[j]
<1>13. part \in Int /\ 0 <= part /\ part + e[j] <= e[j - 1]
  <2>1. high - low + 1 \in Int /\ e[j] \in Nat
    BY <1>10
  <2> QED
    BY <1>10, <1>11, <2>1, PartInWhole
<1>14. b[j - 1] \in Int /\ e[j - 1] \in Int /\ b[j] \in Int /\ e[j] \in Int /\ b[k] \in Int /\ e[k] \in Int
  <2>1. k \in k .. n
    BY <1>1
  <2> QED
    BY <1>3, <1>6, <1>7, <2>1
<1>15. b[j] = b[j - 1] + part
  BY <1>12
<1> HIDE DEF part
<1>16. b[k] <= b[j] /\ b[j] + e[j] <= b[k] + e[k]
  <2> DEFINE bj == b[j]  bi == b[j - 1]  bk == b[k]  ej == e[j]  ei == e[j - 1]  ek == e[k]
  <2>1. bj \in Int /\ bi \in Int /\ bk \in Int /\ ej \in Int /\ ei \in Int /\ ek \in Int
    BY <1>14
  <2>2. /\ bk <= bi /\ bi + ei <= bk + ek /\ bj = bi + part
        /\ part \in Int /\ 0 <= part /\ part + ej <= ei
    BY <1>8, <1>13, <1>15
  <2> HIDE DEF bj, bi, bk, ej, ei, ek
  <2>3. bk <= bj /\ bj + ej <= bk + ek
    BY <2>1, <2>2
  <2> QED
    BY <2>3 DEF bj, bk, ej, ek
<1> QED
  BY <1>16 DEF Outside

\* Selects that agree in their first indices name elements with the same base.
LEMMA SameBase ==
    ASSUME NEW e, NEW s, NEW t, NEW m \in Nat, NEW n \in Nat, NEW k \in Nat, k <= m, k <= n,
           NEW b, Bases(b, e, s, m), NEW c, Bases(c, e, t, n),
           \A j \in 1 .. k : s[j].right = t[j].right
    PROVE  b[k] = c[k]
PROOF
<1> DEFINE Differ == {j \in Nat : j <= k /\ b[j] # c[j]}
<1>1. SUFFICES ASSUME Differ # {} PROVE FALSE
  OBVIOUS
<1>2. PICK j \in Differ : \A i \in Differ : j <= i
  BY <1>1, Least
<1>3. j # 0
  BY DEF Bases
<1>4. j - 1 \in Nat /\ j - 1 \notin Differ /\ j - 1 <= k
  BY <1>2, <1>3
<1>5. b[j - 1] = c[j - 1]
  BY <1>4
<1>6. j \in 1 .. m /\ j \in 1 .. n /\ j \in 1 .. k
  BY <1>3
<1>7. b[j] = c[j]
  BY <1>5, <1>6 DEF Bases
<1> QED
  BY <1>2, <1>7

------------------------------------------------------------------------------
(***************************************************************************)
(* Where a select is                                                       *)
(***************************************************************************)
\* The bits reach into the elements `first` and `last` of e bits each, from
\* `base` on, and not beyond.
Reaches(bits, base, e, first, last) ==
    /\ base + first * e <= bits.right /\ bits.right < base + first * e + e
    /\ base + last * e <= bits.left /\ bits.left < base + last * e + e

\* The bits are all of these elements.
Covers(bits, base, e, first, last) ==
    bits.right = base + first * e /\ bits.left + 1 = base + last * e + e

FirstOf(s, k) == Low(s[k]) - Low(Evaluated(k))
LastOf(s, k) == High(s[k]) - Low(Evaluated(k))

\* Where the last index of a select leads.
LEMMA Ends ==
    ASSUME NEW e \in Nat \ {0}, NEW base \in Int, NEW low \in Int, NEW range \in Bounds,
           NEW raw \in Bounds,
           Element(raw, base, e, low, range),
           NEW bits, bits = Annotated(raw)
    PROVE  /\ bits \in Bounds /\ bits.right <= bits.left
           /\ Reaches(bits, base, e, Low(range) - low, High(range) - low)
           /\ ~Upwards(range) => Covers(bits, base, e, Low(range) - low, High(range) - low)
PROOF
<1> DEFINE l == range.left - low
           r == range.right - low
           p == r * e
           q == l * e
<1>1. /\ range.left \in Int /\ range.right \in Int /\ raw.left \in Int /\ raw.right \in Int
      /\ l \in Int /\ r \in Int
  BY DEF Bounds
<1>2. p \in Int /\ q \in Int
  BY <1>1
<1>3. (range.left - low + 1) * e = q + e
  BY <1>1, Plus1
<1>4. raw.right = base + p /\ raw.left + 1 = base + q + e
  BY <1>2, <1>3 DEF Element
<1>5. CASE range.left < range.right
  <2>1. l < r /\ r < r + 1
    BY <1>1, <1>5
  <2>2. q + e <= p
    <3>1. (l + 1) * e <= r * e /\ (l + 1) * e = l * e + e
      BY <1>1, <2>1, Monotone, Plus1
    <3> QED
      BY <3>1
  <2>3. raw.left < raw.right
    BY <1>1, <1>2, <1>4, <2>2
  <2>4. Low(range) = range.left /\ High(range) = range.right
    BY <1>5 DEF Low, High
  <2>5. Annotated(raw) = [left |-> raw.right, right |-> raw.left]
    BY <2>3 DEF Annotated, Low, High
  <2> HIDE DEF p, q
  <2>6. /\ base + q <= raw.left /\ raw.left < base + q + e
        /\ base + p <= raw.right /\ raw.right < base + p + e
    BY <1>1, <1>2, <1>4, <2>2
  <2> QED
    BY <1>1, <1>5, <2>3, <2>4, <2>5, <2>6 DEF Reaches, Upwards, Bounds, p, q
<1>6. CASE ~(range.left < range.right)
  <2>1. r <= l
    BY <1>1, <1>6
  <2>2. p <= q
    BY <1>1, <2>1, Monotone
  <2> HIDE DEF p, q
  <2>3. raw.right <= raw.left
    BY <1>1, <1>2, <1>4, <2>2
  <2>4. Low(range) = range.right /\ High(range) = range.left
    BY <1>6 DEF Low, High
  <2>5. Annotated(raw) = raw
    BY <1>1, <2>3 DEF Annotated, Low, High, Bounds
  <2>6. /\ base + p <= raw.right /\ raw.right < base + p + e
        /\ base + q <= raw.left /\ raw.left < base + q + e
    BY <1>1, <1>2, <1>4, <2>2
  <2> QED
    BY <1>1, <1>4, <2>3, <2>4, <2>5, <2>6 DEF Reaches, Covers, p, q
<1> QED
  BY <1>5, <1>6

\* What reaches elements of an array is in the array.
LEMMA InWhole ==
    ASSUME NEW bits \in Bounds, NEW base \in Int, NEW e \in Nat \ {0}, NEW w \in Int,
           NEW first \in Int, NEW last \in Int, Reaches(bits, base, e, first, last),
           0 <= first, first < w, 0 <= last, last < w
    PROVE  base <= bits.right /\ bits.left < base + w * e
PROOF
<1>1. 0 <= first * e /\ last * e + e <= w * e
  BY PartInWhole
<1>2. base + first * e <= bits.right /\ bits.left < base + last * e + e
  BY DEF Reaches
<1>3. first * e \in Int /\ last * e \in Int /\ w * e \in Int /\ bits.left \in Int /\ bits.right \in Int
  BY DEF Bounds
<1> QED
  BY <1>1, <1>2, <1>3

\* A select reaches the elements its k-th index names, and no other ones.
LEMMA Reach ==
    ASSUME wire \in Node, NEW e, Layout(e, NoRanges),
           NEW s \in Seq(Bounds), Legal(s), NEW n \in 1 .. Len(s),
           NEW b \in [0 .. n -> Int], Bases(b, e, s, n),
           NEW raw \in Bounds, Element(raw, b[n - 1], e[n], Low(Evaluated(n)), s[n]),
           NEW bits, bits = Annotated(raw),
           NEW k \in 1 .. n
    PROVE  /\ bits \in Bounds /\ bits.right <= bits.left
           /\ Reaches(bits, b[k - 1], e[k], FirstOf(s, k), LastOf(s, k))
           /\ k = n /\ ~Upwards(s[n]) => Covers(bits, b[n - 1], e[n], FirstOf(s, n), LastOf(s, n))
PROOF
<1>1. n \in Nat /\ n \in 1 .. NoRanges /\ n \in 1 .. n /\ n - 1 \in 0 .. n /\ NoRanges \in Nat
  BY LegalSelect, RangesOfWire
<1>2. /\ e[n] \in Nat \ {0} /\ e[n - 1] \in Nat \ {0} /\ b[n - 1] \in Int
      /\ Low(Evaluated(n)) \in Int /\ High(Evaluated(n)) \in Int
      /\ e[n - 1] = (High(Evaluated(n)) - Low(Evaluated(n)) + 1) * e[n]
  BY <1>1, Parts
<1>3. s[n] \in Bounds /\ b[n] = b[n - 1] + (s[n].right - Low(Evaluated(n))) * e[n]
  BY <1>1 DEF Bases
<1>4. /\ bits \in Bounds /\ bits.right <= bits.left
      /\ Reaches(bits, b[n - 1], e[n], FirstOf(s, n), LastOf(s, n))
      /\ ~Upwards(s[n]) => Covers(bits, b[n - 1], e[n], FirstOf(s, n), LastOf(s, n))
  <2> DEFINE low == Low(Evaluated(n))
             base == b[n - 1]
             en == e[n]
             range == s[n]
  <2>1. /\ en \in Nat \ {0} /\ base \in Int /\ low \in Int /\ range \in Bounds
        /\ Element(raw, base, en, low, range)
        /\ raw \in Bounds /\ bits = Annotated(raw)
    BY <1>2, <1>3
  <2> HIDE DEF low, base, en, range
  <2>2. /\ bits \in Bounds /\ bits.right <= bits.left
        /\ Reaches(bits, base, en, Low(range) - low, High(range) - low)
        /\ ~Upwards(range) => Covers(bits, base, en, Low(range) - low, High(range) - low)
    BY <2>1, Ends
  <2> QED
    BY <2>2 DEF FirstOf, LastOf, low, base, en, range
<1>5. CASE k = n
  BY <1>4, <1>5
<1>6. CASE k < n
  <2>1. b[n - 1] <= bits.right /\ bits.left < b[n - 1] + e[n - 1]
    <3> DEFINE low == Low(Evaluated(n))
               high == High(Evaluated(n))
               first == FirstOf(s, n)
               last == LastOf(s, n)
    <3>1. /\ first \in Int /\ 0 <= first /\ first < high - low + 1
          /\ last \in Int /\ 0 <= last /\ last < high - low + 1
      <4>1. /\ s[n] \in Bounds /\ low <= s[n].left /\ s[n].left <= high
            /\ low <= s[n].right /\ s[n].right <= high
        BY <1>1, LegalSelect
      <4>2. /\ low <= Low(s[n]) /\ Low(s[n]) <= high /\ Low(s[n]) \in Int
            /\ low <= High(s[n]) /\ High(s[n]) <= high /\ High(s[n]) \in Int
        BY <4>1 DEF Low, High, Bounds
      <4> HIDE DEF low, high
      <4>3. first = Low(s[n]) - low /\ last = High(s[n]) - low /\ low \in Int /\ high \in Int
        BY <1>2 DEF FirstOf, LastOf, low, high
      <4> HIDE DEF first, last
      <4> QED
        BY <4>2, <4>3
    <3> DEFINE en == e[n]  base == b[n - 1]  w == high - low + 1
    <3>2. /\ w \in Int /\ en \in Nat \ {0} /\ base \in Int /\ e[n - 1] = w * en
          /\ bits \in Bounds /\ Reaches(bits, base, en, first, last)
          /\ first \in Int /\ 0 <= first /\ first < w
          /\ last \in Int /\ 0 <= last /\ last < w
      BY <1>2, <1>4, <3>1
    <3> HIDE DEF en, base, w, first, last
    <3>3. base <= bits.right /\ bits.left < base + w * en
      BY <3>2, InWhole
    <3> QED
      BY <3>2, <3>3 DEF base
  <2>2. b[k] <= b[n - 1] /\ b[n - 1] + e[n - 1] <= b[k] + e[k]
    <3>1. k \in 0 .. n - 1 /\ n \in 0 .. Len(s)
      BY <1>1, <1>6
    <3> QED
      BY <1>1, <3>1, Nested
  <2>3. /\ FirstOf(s, k) = s[k].right - Low(Evaluated(k))
        /\ LastOf(s, k) = FirstOf(s, k)
    <3>1. s[k].left = s[k].right
      BY <1>1, <1>6, LegalSelect
    <3> QED
      BY <3>1 DEF FirstOf, LastOf, Low, High
  <2>4. b[k] = b[k - 1] + FirstOf(s, k) * e[k]
    BY <1>1, <2>3 DEF Bases
  <2>5. b[k] \in Int /\ e[k] \in Nat /\ bits.left \in Int /\ bits.right \in Int
    <3>1. k \in 1 .. NoRanges /\ k \in 0 .. n
      BY <1>1
    <3> QED
      BY <1>4, <3>1, Parts DEF Bounds
  <2>6. b[k] <= bits.right /\ bits.right < b[k] + e[k] /\ b[k] <= bits.left /\ bits.left < b[k] + e[k]
    <3> DEFINE bk == b[k]  ek == e[k]  bn == b[n - 1]  en == e[n - 1]  l == bits.left  r == bits.right
    <3>1. /\ bk \in Int /\ ek \in Int /\ bn \in Int /\ en \in Int /\ l \in Int /\ r \in Int
          /\ bn <= r /\ r <= l /\ l < bn + en /\ bk <= bn /\ bn + en <= bk + ek
      BY <1>2, <1>4, <2>1, <2>2, <2>5
    <3> HIDE DEF bk, ek, bn, en, l, r
    <3>2. bk <= r /\ r < bk + ek /\ bk <= l /\ l < bk + ek
      BY <3>1
    <3> QED
      BY <3>2 DEF bk, ek, l, r
  <2>7. Reaches(bits, b[k - 1], e[k], FirstOf(s, k), LastOf(s, k))
    BY <2>3, <2>4, <2>6 DEF Reaches
  <2> QED
    BY <1>4, <1>6, <2>7
<1> QED
  BY <1>1, <1>5, <1>6

\* Selects to elements in order are bits in order.
LEMMA Apart ==
    ASSUME NEW c \in Bounds, NEW d \in Bounds, NEW base \in Int, NEW e \in Nat \ {0},
           NEW p \in Int, NEW q \in Int, NEW u \in Int, NEW v \in Int,
           Reaches(c, base, e, p, q), Reaches(d, base, e, u, v), q < u
    PROVE  c.left < d.right
PROOF
<1>1. (q + 1) * e <= u * e /\ (q + 1) * e = q * e + e
  BY Monotone, Plus1
<1>2. c.left < base + q * e + e /\ base + u * e <= d.right
  BY DEF Reaches
<1>3. c.left \in Int /\ d.right \in Int /\ q * e \in Int /\ u * e \in Int
  BY DEF Bounds
<1> QED
  BY <1>1, <1>2, <1>3

\* A whole select is reached by any that reaches one of its elements.
LEMMA Meet ==
    ASSUME NEW c \in Bounds, NEW d \in Bounds, NEW base \in Int, NEW e \in Nat \ {0},
           NEW p \in Int, NEW q \in Int, NEW u \in Int, NEW v \in Int,
           Covers(c, base, e, p, q),
           Reaches(d, base, e, u, v), p <= v, u <= q
    PROVE  c.right <= d.left /\ d.right <= c.left
PROOF
<1>1. p * e <= v * e /\ u * e <= q * e
  BY Monotone
<1>2. /\ base + v * e <= d.left /\ d.right < base + u * e + e
      /\ c.right = base + p * e /\ c.left + 1 = base + q * e + e
  BY DEF Reaches, Covers
<1>3. /\ c.left \in Int /\ c.right \in Int /\ d.left \in Int /\ d.right \in Int
      /\ p * e \in Int /\ q * e \in Int /\ u * e \in Int /\ v * e \in Int
  BY DEF Bounds
<1> QED
  BY <1>1, <1>2, <1>3

LEMMA Overlap ==
    ASSUME NEW c \in Bounds, NEW d \in Bounds, c.right <= c.left, d.right <= d.left
    PROVE  (c.right .. c.left) \cap (d.right .. d.left) # {} <=> c.right <= d.left /\ d.right <= c.left
PROOF
<1>1. c.right \in Int /\ c.left \in Int /\ d.right \in Int /\ d.left \in Int
  BY DEF Bounds
<1>2. ASSUME c.right <= d.left, d.right <= c.left
      PROVE  (c.right .. c.left) \cap (d.right .. d.left) # {}
  <2>1. CASE c.right <= d.right
    <3>1. d.right \in (c.right .. c.left) \cap (d.right .. d.left)
      BY <1>1, <1>2, <2>1
    <3> QED
      BY <3>1
  <2>2. CASE d.right <= c.right
    <3>1. c.right \in (c.right .. c.left) \cap (d.right .. d.left)
      BY <1>1, <1>2, <2>2
    <3> QED
      BY <3>1
  <2> QED
    BY <1>1, <2>1, <2>2
<1> QED
  BY <1>1, <1>2

LEMMA SpansMeet ==
    ASSUME wire \in Node, NEW e, Layout(e, NoRanges),
           NEW s \in Seq(Bounds), Legal(s), ~HasUpwardsSlice(s), NEW c, Placed(c, e, s),
           NEW t \in Seq(Bounds), Legal(t), NEW d, Placed(d, e, t),
           Len(s) <= Len(t)
    PROVE  (c.right .. c.left) \cap (d.right .. d.left) # {} <=> HaveCommonElement(s, t)
PROOF
<1> DEFINE m == Len(s)
           n == Len(t)
<1>1. /\ m \in Nat /\ n \in Nat /\ NoRanges \in Nat
      /\ m \in 1 .. NoRanges /\ n \in 1 .. NoRanges /\ m <= n
      /\ m \in 1 .. Len(s) /\ n \in 1 .. Len(t)
  BY LegalSelect, RangesOfWire
<1>2. PICK p \in Bounds, b \in [0 .. m -> Int] :
         /\ c = Annotated(p) /\ Bases(b, e, s, m)
         /\ Element(p, b[m - 1], e[m], Low(Evaluated(m)), s[m])
  BY <1>1 DEF Placed, StandsFor
<1>3. PICK q \in Bounds, a \in [0 .. n -> Int] :
         /\ d = Annotated(q) /\ Bases(a, e, t, n)
         /\ Element(q, a[n - 1], e[n], Low(Evaluated(n)), t[n])
  BY <1>1 DEF Placed, StandsFor
<1>4. ASSUME NEW k \in 1 .. m
      PROVE  /\ c \in Bounds /\ c.right <= c.left
             /\ Reaches(c, b[k - 1], e[k], FirstOf(s, k), LastOf(s, k))
             /\ k = m => Covers(c, b[k - 1], e[k], FirstOf(s, k), LastOf(s, k))
             /\ d \in Bounds /\ d.right <= d.left
             /\ Reaches(d, a[k - 1], e[k], FirstOf(t, k), LastOf(t, k))
             /\ e[k] \in Nat \ {0} /\ b[k - 1] \in Int
  <2>1. /\ c \in Bounds /\ c.right <= c.left
        /\ Reaches(c, b[k - 1], e[k], FirstOf(s, k), LastOf(s, k))
        /\ k = m /\ ~Upwards(s[m]) => Covers(c, b[m - 1], e[m], FirstOf(s, m), LastOf(s, m))
    BY <1>1, <1>2, Reach
  <2>2. ~Upwards(s[m])
    BY <1>1 DEF HasUpwardsSlice
  <2>3. k \in 1 .. n /\ k \in 1 .. NoRanges
    BY <1>1
  <2>4. /\ d \in Bounds /\ d.right <= d.left
        /\ Reaches(d, a[k - 1], e[k], FirstOf(t, k), LastOf(t, k))
    BY <1>1, <1>3, <2>3, Reach
  <2>5. e[k] \in Nat \ {0}
    BY <2>3, Parts
  <2>6. b[k - 1] \in Int
    BY <1>1, <1>2
  <2> QED
    BY <2>1, <2>2, <2>4, <2>5, <2>6
<1>5. ASSUME NEW k \in 1 .. m
      PROVE  /\ FirstOf(s, k) \in Int /\ LastOf(s, k) \in Int /\ FirstOf(t, k) \in Int /\ LastOf(t, k) \in Int
             /\ FirstOf(s, k) <= LastOf(t, k) <=> Low(s[k]) <= High(t[k])
             /\ FirstOf(t, k) <= LastOf(s, k) <=> Low(t[k]) <= High(s[k])
             /\ k < m => Low(s[k]) = s[k].right /\ High(s[k]) = s[k].right
                         /\ Low(t[k]) = t[k].right /\ High(t[k]) = t[k].right
                         /\ s[k].right \in Int /\ t[k].right \in Int
  <2>1. k \in 1 .. n /\ k \in 1 .. NoRanges
    BY <1>1
  <2>2. s[k] \in Bounds /\ t[k] \in Bounds /\ Evaluated(k) \in Bounds
    BY <2>1, LegalSelect, Parts
  <2>3. /\ Low(s[k]) \in Int /\ High(s[k]) \in Int /\ Low(t[k]) \in Int /\ High(t[k]) \in Int
        /\ Low(Evaluated(k)) \in Int
    BY <2>2, RangeBounds
  <2>4. k < m => s[k].left = s[k].right /\ t[k].left = t[k].right
    <3>1. k \in 1 .. Len(s) /\ k \in 1 .. Len(t) /\ (k < m => k < Len(s) /\ k < Len(t))
      BY <1>1
    <3>2. k < Len(s) => s[k].left = s[k].right
      BY <3>1, LegalSelect
    <3>3. k < Len(t) => t[k].left = t[k].right
      BY <3>1, LegalSelect
    <3> QED
      BY <3>1, <3>2, <3>3
  <2>5. /\ FirstOf(s, k) \in Int /\ LastOf(s, k) \in Int /\ FirstOf(t, k) \in Int /\ LastOf(t, k) \in Int
        /\ FirstOf(s, k) <= LastOf(t, k) <=> Low(s[k]) <= High(t[k])
        /\ FirstOf(t, k) <= LastOf(s, k) <=> Low(t[k]) <= High(s[k])
    BY <2>3 DEF FirstOf, LastOf
  <2>6. s[k].right \in Int /\ t[k].right \in Int
    BY <2>2 DEF Bounds
  <2> QED
    BY <2>4, <2>5, <2>6 DEF Low, High
<1>6. c \in Bounds /\ c.right <= c.left /\ d \in Bounds /\ d.right <= d.left
  BY <1>1, <1>4
<1>7. HaveCommonElement(s, t) <=>
        \A k \in 1 .. m : FirstOf(s, k) <= LastOf(t, k) /\ FirstOf(t, k) <= LastOf(s, k)
  <2>1. DOMAIN s \cap DOMAIN t = 1 .. m
    BY <1>1
  <2> QED
    BY <1>5, <2>1 DEF HaveCommonElement
<1>8. ASSUME NEW k \in 1 .. m,
             \A j \in 1 .. k - 1 : FirstOf(s, j) <= LastOf(t, j) /\ FirstOf(t, j) <= LastOf(s, j)
      PROVE  b[k - 1] = a[k - 1]
  <2>1. \A j \in 1 .. k - 1 : s[j].right = t[j].right
    <3> SUFFICES ASSUME NEW j \in 1 .. k - 1 PROVE s[j].right = t[j].right
      OBVIOUS
    <3>1. j \in 1 .. m /\ j < m
      BY <1>1
    <3> QED
      BY <1>5, <1>8, <3>1
  <2>2. k - 1 \in Nat /\ k - 1 <= m /\ k - 1 <= n
    BY <1>1
  <2> QED
    BY <1>1, <1>2, <1>3, <2>1, <2>2, SameBase
<1>9. ASSUME HaveCommonElement(s, t)
      PROVE  c.right <= d.left /\ d.right <= c.left
  <2>1. m \in 1 .. m
    BY <1>1
  <2>2. b[m - 1] = a[m - 1]
    <3>1. \A j \in 1 .. m - 1 : FirstOf(s, j) <= LastOf(t, j) /\ FirstOf(t, j) <= LastOf(s, j)
      BY <1>1, <1>7, <1>9
    <3> QED
      BY <1>8, <2>1, <3>1
  <2>3. /\ FirstOf(s, m) <= LastOf(t, m) /\ FirstOf(t, m) <= LastOf(s, m)
        /\ Covers(c, b[m - 1], e[m], FirstOf(s, m), LastOf(s, m))
        /\ Reaches(d, b[m - 1], e[m], FirstOf(t, m), LastOf(t, m))
    BY <1>4, <1>7, <1>9, <2>1, <2>2
  <2> QED
    BY <1>4, <1>5, <1>6, <2>1, <2>3, Meet
<1>10. ASSUME ~HaveCommonElement(s, t)
       PROVE  c.left < d.right \/ d.left < c.right
  <2> DEFINE Disjoint == {k \in Nat : k \in 1 .. m /\ ~(FirstOf(s, k) <= LastOf(t, k) /\ FirstOf(t, k) <= LastOf(s, k))}
  <2>1. Disjoint # {} /\ Disjoint \in SUBSET Nat
    <3>1. PICK k \in 1 .. m : ~(FirstOf(s, k) <= LastOf(t, k) /\ FirstOf(t, k) <= LastOf(s, k))
      BY <1>7, <1>10
    <3>2. k \in Nat
      BY <1>1
    <3> QED
      BY <3>1, <3>2
  <2>2. PICK k \in Disjoint : \A j \in Disjoint : k <= j
    BY <2>1, Least
  <2>3. k \in 1 .. m /\ (LastOf(t, k) < FirstOf(s, k) \/ LastOf(s, k) < FirstOf(t, k))
    BY <1>5, <2>2
  <2>4. b[k - 1] = a[k - 1]
    <3>1. \A j \in 1 .. k - 1 : FirstOf(s, j) <= LastOf(t, j) /\ FirstOf(t, j) <= LastOf(s, j)
      <4> SUFFICES ASSUME NEW j \in 1 .. k - 1
                   PROVE  FirstOf(s, j) <= LastOf(t, j) /\ FirstOf(t, j) <= LastOf(s, j)
        OBVIOUS
      <4>1. j \in 1 .. m /\ j < k /\ j \in Nat /\ k \in Nat
        BY <1>1, <2>3
      <4>2. j \notin Disjoint
        <5> HIDE DEF Disjoint
        <5> QED
          BY <2>2, <4>1
      <4> QED
        BY <4>1, <4>2
    <3> QED
      BY <1>8, <2>3, <3>1
  <2> HIDE DEF Disjoint
  <2>5. CASE LastOf(s, k) < FirstOf(t, k)
    BY <1>4, <1>5, <1>6, <2>3, <2>4, <2>5, Apart
  <2>6. CASE LastOf(t, k) < FirstOf(s, k)
    BY <1>4, <1>5, <1>6, <2>3, <2>4, <2>6, Apart
  <2> QED
    BY <2>3, <2>5, <2>6
<1>11. c.right \in Int /\ c.left \in Int /\ d.right \in Int /\ d.left \in Int
  BY <1>6 DEF Bounds
<1> QED
  BY <1>6, <1>9, <1>10, <1>11, Overlap

------------------------------------------------------------------------------
(***************************************************************************)
(* The invariant                                                           *)
(***************************************************************************)
LEMMA SameWire ==
    ASSUME UNCHANGED <<wire, size>>
    PROVE  /\ NoRanges' = NoRanges
           /\ \A j : Stored(j)' = Stored(j) /\ Selected(j)' = Selected(j) /\ Evaluated(j)' = Evaluated(j)
           /\ \A e, n : Layout(e, n)' <=> Layout(e, n)
           /\ \A s : Legal(s)' <=> Legal(s)
           /\ \A bits, e, s, n : StandsFor(bits, e, s, n)' <=> StandsFor(bits, e, s, n)
           /\ \A bits, e, s : Placed(bits, e, s)' <=> Placed(bits, e, s)
PROOF
<1>1. /\ NoPacked' = NoPacked /\ NoUnpacked' = NoUnpacked /\ NoRanges' = NoRanges
      /\ \A j : Stored(j)' = Stored(j) /\ Selected(j)' = Selected(j) /\ Evaluated(j)' = Evaluated(j)
  BY DEF NoPacked, NoUnpacked, NoRanges, Stored, Selected, Evaluated
<1>2. \A n, k : Among(n, k)' = Among(n, k)
  BY <1>1 DEF Among
<1>3. \A e, n : Layout(e, n)' <=> Layout(e, n)
  BY <1>2 DEF Layout
<1>4. \A s : Legal(s)' <=> Legal(s)
  BY <1>1 DEF Legal
<1>5. \A b, e, s, n : Bases(b, e, s, n)' <=> Bases(b, e, s, n)
  BY <1>1 DEF Bases
<1>6. \A bits, e, s, n : StandsFor(bits, e, s, n)' <=> StandsFor(bits, e, s, n)
  BY <1>1, <1>5 DEF StandsFor
<1>7. \A bits, e, s : Placed(bits, e, s)' <=> Placed(bits, e, s)
  BY <1>6 DEF Placed
<1> QED
  BY <1>1, <1>3, <1>4, <1>6, <1>7

\* One index more.
LEMMA OneIndex ==
    ASSUME wire \in Node, NEW e, Layout(e, NoRanges),
           NEW s \in Seq(Bounds), Legal(s), NEW n \in Nat, n < Len(s),
           NEW bits \in Bounds, StandsFor(bits, e, s, n),
           NEW more, more = Bits(bits.right, s[n + 1], Low(Evaluated(n + 1)), e[n + 1])
    PROVE  more \in Bounds /\ StandsFor(more, e, s, n + 1)
PROOF
<1>1. n + 1 \in 1 .. Len(s) /\ n + 1 \in 1 .. NoRanges /\ Len(s) \in Nat
  BY LegalSelect
<1> DEFINE low == Low(Evaluated(n + 1))
           w == e[n + 1]
           range == s[n + 1]
           l == (range.left - low + 1) * w
           r == (range.right - low) * w
<1>2. low \in Int /\ w \in Int /\ range \in Bounds
  BY <1>1, Parts
<1>3. range.left \in Int /\ range.right \in Int /\ bits.right \in Int
  <2> HIDE DEF range
  <2> QED
    BY <1>2 DEF Bounds
<1>4. l \in Int /\ r \in Int
  <2> HIDE DEF low, w, range
  <2> QED
    BY <1>2, <1>3
<1>5. more = [left |-> bits.right + r + ((l - r) - 1), right |-> bits.right + r]
  BY DEF Bits
<1>6. more \in Bounds /\ more.right = bits.right + r /\ more.left + 1 = bits.right + l
  <2> DEFINE x == bits.right
  <2>1. x \in Int /\ more = [left |-> x + r + ((l - r) - 1), right |-> x + r]
    BY <1>3, <1>5
  <2> HIDE DEF l, r, x
  <2>2. x + r \in Int /\ x + r + ((l - r) - 1) \in Int /\ x + r + ((l - r) - 1) + 1 = x + l
    BY <1>4, <2>1
  <2>3. more \in Bounds /\ more.right = x + r /\ more.left = x + r + ((l - r) - 1)
    BY <2>1, <2>2 DEF Bounds
  <2> QED
    BY <2>2, <2>3 DEF x
<1>7. PICK b \in [0 .. n -> Int] : Bases(b, e, s, n) /\ b[n] = bits.right
  <2>1. CASE n = 0
    <3> DEFINE b == [k \in 0 .. n |-> 0]
    <3>1. b \in [0 .. n -> Int] /\ b[0] = 0 /\ 1 .. n = {} /\ bits.right = 0
      BY <2>1 DEF StandsFor
    <3> HIDE DEF b
    <3>2. Bases(b, e, s, n)
      BY <3>1 DEF Bases
    <3> QED
      BY <2>1, <3>1, <3>2
  <2>2. CASE n # 0
    <3>1. PICK b \in [0 .. n -> Int] :
             Bases(b, e, s, n) /\ Element(bits, b[n - 1], e[n], Low(Evaluated(n)), s[n])
      BY <2>2 DEF StandsFor
    <3>2. n \in 1 .. n
      BY <2>2
    <3>3. b[n] = b[n - 1] + (s[n].right - Low(Evaluated(n))) * e[n]
      BY <3>1, <3>2 DEF Bases
    <3> QED
      BY <3>1, <3>3 DEF Element
  <2> QED
    BY <2>1, <2>2
<1> DEFINE f == [k \in 0 .. n + 1 |-> IF k <= n THEN b[k] ELSE b[n] + r]
<1>8. f \in [0 .. n + 1 -> Int] /\ f[n] = b[n] /\ f[n + 1] = b[n] + r
  <2> HIDE DEF r
  <2> QED
    BY <1>4
<1>9. Bases(f, e, s, n + 1)
  <2>1. f[0] = 0
    BY <1>7 DEF Bases
  <2>2. ASSUME NEW k \in 1 .. n + 1
        PROVE  f[k] = f[k - 1] + (s[k].right - Low(Evaluated(k))) * e[k]
    <3>1. CASE k = n + 1
      <4>1. k - 1 = n
        BY <3>1
      <4> HIDE DEF f
      <4> QED
        BY <1>8, <3>1, <4>1
    <3>2. CASE k <= n
      <4>1. k \in 1 .. n /\ k - 1 \in 0 .. n + 1 /\ k \in 0 .. n + 1 /\ k - 1 <= n
        BY <3>2
      <4>2. f[k] = b[k] /\ f[k - 1] = b[k - 1]
        BY <3>2, <4>1
      <4> HIDE DEF f
      <4> QED
        BY <1>7, <4>1, <4>2 DEF Bases
    <3> QED
      BY <3>1, <3>2
  <2> HIDE DEF f
  <2> QED
    BY <2>1, <2>2 DEF Bases
<1>10. Element(more, f[(n + 1) - 1], w, low, range)
  <2>1. (n + 1) - 1 = n
    OBVIOUS
  <2> HIDE DEF f
  <2> QED
    BY <1>6, <1>7, <1>8, <2>1 DEF Element
<1>11. StandsFor(more, e, s, n + 1)
  <2>1. n + 1 # 0
    OBVIOUS
  <2> HIDE DEF f
  <2> QED
    BY <1>8, <1>9, <1>10, <2>1 DEF StandsFor
<1> QED
  BY <1>6, <1>11

LEMMA InitIInv == Init => IInv
PROOF
<1> SUFFICES ASSUME Init PROVE IInv
  OBVIOUS
<1>1. wire \in Node /\ declared \in Declaration
  BY DeclarationsAssumption DEF Init, NoNode, Node
<1>2. TypeOK
  BY <1>1 DEF Init, TypeOK, Bounds
<1>3. DimensionsAreLow /\ Len(dimensions) = 0
  <2>1. NoRanges \in Nat
    BY <1>1, RangesOfWire
  <2> QED
    BY <2>1 DEF Init, DimensionsAreLow
<1>4. PICK e \in [0 .. 0 -> Nat \ {0}] : Layout(e, 0)
  BY <1>1, LayoutOfNone DEF Init
<1>5. LaidOut(e)
  BY <1>3, <1>4 DEF Init, LaidOut, Selects
<1> QED
  BY <1>2, <1>3, <1>4, <1>5 DEF IInv

LEMMA Appended ==
    ASSUME NEW S, NEW s \in Seq(S), NEW e \in S
    PROVE  /\ Len(s) \in Nat /\ Len(Append(s, e)) = Len(s) + 1
           /\ Append(s, e)[Len(s) + 1] = e
           /\ \A j \in 1 .. Len(s) : Append(s, e)[j] = s[j]
  OBVIOUS

\* An object more of the wire, which nothing has been made of yet.
LEMMA VisitStep ==
    IInv /\ Building /\ Building' /\ (VisitVariables \/ VisitPorts \/ VisitNets) => IInv'
PROOF
<1> SUFFICES ASSUME IInv, Building, Building', VisitVariables \/ VisitPorts \/ VisitNets
             PROVE  IInv'
  OBVIOUS
<1>1. /\ Early /\ pc' \in {"ports", "nets", "wire", "stopped"}
      /\ UNCHANGED <<declared, dimensions, size, select, next, elem, result, converted>>
  BY DEF VisitVariables, VisitPorts, VisitNets, Early
<1>2. /\ wire' \in Node /\ declared' \in Declaration
      /\ dimensions = <<>> /\ size = 1 /\ converted = <<>>
  BY <1>1 DEF Building, Early, IInv, TypeOK
<1>3. TypeOK'
  BY <1>1, <1>2 DEF IInv, TypeOK
<1>4. DimensionsAreLow' /\ Len(dimensions') = 0
  <2>1. NoRanges' \in Nat
    <3>1. wire'.packed \in Seq(Bounds) /\ wire'.unpacked \in Seq(Bounds)
      BY <1>2 DEF Node
    <3>2. PICK m \in Nat, n \in Nat : m = Len(wire'.packed) /\ n = Len(wire'.unpacked)
      BY <3>1
    <3>3. NoRanges' = m + n
      BY <3>2 DEF NoRanges, NoPacked, NoUnpacked
    <3>4. m + n \in Nat
      OBVIOUS
    <3> QED
      BY <3>3, <3>4
  <2> QED
    BY <1>1, <1>2, <2>1 DEF DimensionsAreLow
<1>5. PICK e \in [0 .. 0 -> Nat \ {0}] : Layout(e, 0)'
  <2> DEFINE e == [k \in 0 .. 0 |-> 1]
  <2>1. e \in [0 .. 0 -> Nat \ {0}] /\ e[0] = 1
    OBVIOUS
  <2> HIDE DEF e
  <2>2. Layout(e, 0)'
    BY <1>1, <1>2, <2>1 DEF Layout
  <2> QED
    BY <2>1, <2>2
<1>6. LaidOut(e)'
  BY <1>1, <1>2, <1>4, <1>5 DEF LaidOut, Selects
<1> QED
  BY <1>3, <1>4, <1>5, <1>6 DEF IInv

LEMMA SetDimensionStep == IInv /\ SetDimension => IInv'
PROOF
<1> SUFFICES ASSUME IInv, SetDimension PROVE IInv'
  OBVIOUS
<1> DEFINE k == Len(dimensions) + 1
<1>1. wire \in Node /\ pc = "wire" /\ converted = <<>>
  BY DEF IInv, TypeOK, SetDimension
<1>2. NoRanges \in Nat /\ Len(dimensions) \in Nat /\ k \in 1 .. NoRanges /\ Stored(k) \in Bounds
  <2>1. NoRanges \in Nat /\ Len(dimensions) \in Nat /\ Len(dimensions) < NoRanges
    BY <1>1, RangesOfWire DEF IInv, TypeOK, SetDimension
  <2>2. k \in 1 .. NoRanges
    BY <2>1
  <2> QED
    BY <1>1, <2>1, <2>2, RangesOfWire
<1>3. Low(Stored(k)) \in Int /\ Width(Stored(k)) \in Nat \ {0}
  BY <1>2, RangeBounds
<1>4. /\ dimensions' = Append(dimensions, [low |-> Low(Stored(k)), width |-> Width(Stored(k))])
      /\ size' = size * Width(Stored(k))
      /\ UNCHANGED <<declared, wire, pc, select, next, elem, result, converted>>
  BY DEF SetDimension
<1>5. TypeOK'
  <2>1. dimensions' \in Seq([low : Int, width : Nat \ {0}])
    BY <1>3, <1>4 DEF IInv, TypeOK
  <2>2. size' \in Nat \ {0}
    <3>1. \A a, b \in Nat \ {0} : a * b \in Nat \ {0}
      OBVIOUS
    <3> QED
      BY <1>3, <1>4, <3>1 DEF IInv, TypeOK
  <2> QED
    BY <1>4, <2>1, <2>2 DEF IInv, TypeOK
<1>6. /\ Len(dimensions') = k /\ dimensions'[k].low = Low(Stored(k))
      /\ \A j \in 1 .. Len(dimensions) : dimensions'[j] = dimensions[j]
  <2> DEFINE e == [low |-> Low(Stored(k)), width |-> Width(Stored(k))]
  <2>1. e \in [low : Int, width : Nat \ {0}] /\ e.low = Low(Stored(k))
    BY <1>3
  <2>2. dimensions \in Seq([low : Int, width : Nat \ {0}]) /\ dimensions' = Append(dimensions, e)
    BY <1>4 DEF IInv, TypeOK
  <2> HIDE DEF e
  <2> QED
    BY <2>1, <2>2, Appended
<1>7. DimensionsAreLow'
  <2>1. NoRanges' = NoRanges /\ \A j \in 1 .. k : Stored(j)' = Stored(j)
    BY <1>4 DEF NoRanges, NoPacked, NoUnpacked, Stored
  <2>2. \A j \in 1 .. k : dimensions'[j].low = Low(Stored(j))
    BY <1>2, <1>6 DEF IInv, DimensionsAreLow
  <2> QED
    BY <1>1, <1>2, <1>4, <1>6, <2>1, <2>2 DEF DimensionsAreLow
<1>8. PICK n \in Nat : n = Len(dimensions)
  BY <1>2
<1>9. PICK e \in [0 .. n + 1 -> Nat \ {0}] : Layout(e, n + 1)'
  <2>1. PICK e : Layout(e, n)
    BY <1>8 DEF IInv, LaidOut
  <2>2. n < NoRanges /\ wire' = wire /\ size' = size * Width(Stored(n + 1))
    BY <1>2, <1>4, <1>8
  <2> QED
    BY <1>1, <1>8, <2>1, <2>2, LayoutOfMore
<1>10. LaidOut(e)'
  <2>1. Selects' = {} /\ pc' # "select"
    BY <1>1, <1>4 DEF Selects
  <2>2. Len(dimensions') = n + 1
    BY <1>6, <1>8
  <2>3. Layout(e, Len(dimensions))'
    BY <1>9, <2>2 DEF Layout
  <2> QED
    BY <2>1, <2>3 DEF LaidOut
<1> QED
  BY <1>5, <1>6, <1>7, <1>8, <1>9, <1>10 DEF IInv

LEMMA EndOfWireStep == IInv /\ (Flatten \/ KeepRanges) => IInv'
PROOF
<1> SUFFICES ASSUME IInv, Flatten \/ KeepRanges PROVE IInv'
  OBVIOUS
<1>1. /\ pc = "wire" /\ converted = <<>> /\ pc' \in {"flat", "plain", "memory"}
      /\ pc' = "flat" => Len(dimensions) = NoRanges
      /\ UNCHANGED <<declared, wire, dimensions, size, select, next, elem, result, converted>>
  BY DEF IInv, TypeOK, Flatten, KeepRanges
<1>2. TypeOK'
  BY <1>1 DEF IInv, TypeOK
<1>3. DimensionsAreLow'
  BY <1>1, SameWire DEF IInv, DimensionsAreLow
<1>4. PICK e \in [0 .. Len(dimensions) -> Nat \ {0}] : LaidOut(e)
  BY DEF IInv
<1>5. LaidOut(e)'
  <2>1. Layout(e, Len(dimensions))'
    BY <1>1, <1>4, SameWire DEF LaidOut, Layout, Among, NoPacked, Width, Low, High
  <2> QED
    BY <1>1, <2>1 DEF LaidOut, Selects
<1> QED
  BY <1>1, <1>2, <1>3, <1>4, <1>5 DEF IInv

LEMMA BeginSelectStep == IInv /\ BeginSelect => IInv'
PROOF
<1> SUFFICES ASSUME IInv, BeginSelect PROVE IInv'
  OBVIOUS
<1>1. /\ wire \in Node /\ pc = "flat" /\ pc' = "select" /\ next' = 1
      /\ elem' = size /\ result' = [left |-> size - 1, right |-> 0]
      /\ UNCHANGED <<declared, wire, dimensions, size, converted>>
      /\ size \in Nat \ {0}
  BY DEF IInv, TypeOK, BeginSelect
<1>2. select' \in Seq(Bounds) /\ Legal(select')
  <2>1. PICK n \in 1 .. NoRanges : \E index \in [1 .. n -> Indices], right \in Indices :
            LET s == [k \in 1 .. n |-> [left |-> index[k],
                                        right |-> IF k = n THEN right ELSE index[k]]]
            IN  Legal(s) /\ select' = s
    BY DEF BeginSelect
  <2>2. PICK index \in [1 .. n -> Indices], right \in Indices :
            LET s == [k \in 1 .. n |-> [left |-> index[k],
                                        right |-> IF k = n THEN right ELSE index[k]]]
            IN  Legal(s) /\ select' = s
    BY <2>1
  <2>3. n \in Nat
    BY <1>1, RangesOfWire
  <2>4. select' \in [1 .. n -> Bounds]
    BY <2>2, IndicesAssumption DEF Bounds
  <2> QED
    BY <2>2, <2>3, <2>4
<1>3. TypeOK'
  <2>1. result' \in Bounds
    BY <1>1 DEF Bounds
  <2> QED
    BY <1>1, <1>2, <2>1 DEF IInv, TypeOK
<1>4. DimensionsAreLow' /\ Len(dimensions) = NoRanges
  BY <1>1, SameWire DEF IInv, DimensionsAreLow
<1>5. PICK e \in [0 .. Len(dimensions) -> Nat \ {0}] : LaidOut(e)
  BY DEF IInv
<1>6. LaidOut(e)'
  <2>1. Layout(e, NoRanges) /\ Layout(e, NoRanges)' /\ NoRanges' = NoRanges
    BY <1>1, <1>4, <1>5, SameWire DEF LaidOut
  <2>2. elem' = e[next' - 1]
    BY <1>1, <2>1 DEF Layout
  <2>3. Legal(select)'
    BY <1>1, <1>2, SameWire DEF Legal
  <2>4. next' <= Len(select') + 1
    <3>1. Len(select') \in Nat
      BY <1>2
    <3> QED
      BY <1>1, <3>1
  <2>5. StandsFor(result, e, select, next - 1)'
    BY <1>1 DEF StandsFor
  <2>6. \A c \in Selects' : Legal(c.ranges)' /\ Placed(c.bits, e, c.ranges)'
    BY <1>1, <1>5, SameWire DEF LaidOut, Selects
  <2>7. Layout(e, Len(dimensions))'
    BY <1>1, <1>4, <2>1 DEF Layout
  <2> QED
    BY <2>2, <2>3, <2>4, <2>5, <2>6, <2>7 DEF LaidOut
<1> QED
  BY <1>1, <1>3, <1>4, <1>5, <1>6 DEF IInv

LEMMA ConvertIndexStep == IInv /\ ConvertIndex => IInv'
PROOF
<1> SUFFICES ASSUME IInv, ConvertIndex PROVE IInv'
  OBVIOUS
<1>1. PICK e \in [0 .. Len(dimensions) -> Nat \ {0}] : LaidOut(e)
  BY DEF IInv
<1>2. PICK n \in Nat : next = n + 1
  <2>1. next \in Nat \ {0}
    BY DEF IInv, TypeOK
  <2> QED
    BY <2>1
<1>3. /\ wire \in Node /\ pc = "select" /\ n + 1 \in 1 .. Len(select) /\ n < Len(select)
      /\ select \in Seq(Bounds) /\ Legal(select) /\ elem = e[n] /\ result \in Bounds
      /\ StandsFor(result, e, select, n) /\ Len(dimensions) = NoRanges /\ Layout(e, NoRanges)
  <2>1. /\ wire \in Node /\ pc = "select" /\ next <= Len(select)
        /\ select \in Seq(Bounds) /\ Legal(select) /\ elem = e[next - 1] /\ result \in Bounds
        /\ StandsFor(result, e, select, next - 1) /\ Len(dimensions) = NoRanges
        /\ Layout(e, Len(dimensions))
    BY <1>1 DEF IInv, TypeOK, DimensionsAreLow, LaidOut, ConvertIndex
  <2>2. next - 1 = n /\ Len(select) \in Nat
    BY <1>2, <2>1
  <2> QED
    BY <1>2, <2>1, <2>2
<1>4. n + 1 \in 1 .. NoRanges /\ (n + 1) - 1 = n
  BY <1>3, LegalSelect
<1>5. Offset(n + 1) = Low(Evaluated(n + 1))
  <2>1. /\ Position(n + 1) \in 1 .. NoRanges
        /\ Stored(Position(n + 1)) = Evaluated(n + 1)
    BY <1>3, <1>4, RangesOfWire
  <2> QED
    BY <1>3, <2>1 DEF Offset, IInv, DimensionsAreLow
<1>6. /\ elem' = e[n + 1] /\ next' = n + 2
      /\ result' = Bits(result.right, select[n + 1], Low(Evaluated(n + 1)), e[n + 1])
      /\ UNCHANGED <<declared, wire, dimensions, size, pc, select, converted>>
  <2>1. e[n] \div Width(Evaluated(n + 1)) = e[n + 1]
    BY <1>3, <1>4, Parts
  <2> QED
    BY <1>2, <1>3, <1>5, <2>1 DEF ConvertIndex
<1>7. result' \in Bounds /\ StandsFor(result', e, select, n + 1)
  BY <1>3, <1>6, OneIndex
<1>8. TypeOK'
  <2>1. next' \in Nat \ {0}
    BY <1>6
  <2>2. elem' \in Nat
    BY <1>3, <1>4, <1>6, Parts
  <2> QED
    BY <1>6, <1>7, <2>1, <2>2 DEF IInv, TypeOK
<1>9. DimensionsAreLow'
  BY <1>6, SameWire DEF IInv, DimensionsAreLow
<1>10. LaidOut(e)'
  <2>1. Layout(e, Len(dimensions))'
    <3>1. Layout(e, NoRanges)' /\ NoRanges' = NoRanges
      BY <1>3, <1>6, SameWire
    <3> QED
      BY <1>3, <1>6, <3>1 DEF Layout
  <2>2. Legal(select)'
    BY <1>3, <1>6, SameWire DEF Legal
  <2>3. next' <= Len(select') + 1 /\ next' - 1 = n + 1
    <3>1. Len(select) \in Nat
      BY <1>3
    <3> QED
      BY <1>3, <1>6, <3>1
  <2>4. StandsFor(result, e, select, next - 1)'
    BY <1>6, <1>7, <2>3 DEF StandsFor, Bases, Evaluated, NoUnpacked
  <2>5. \A c \in Selects' : Legal(c.ranges)' /\ Placed(c.bits, e, c.ranges)'
    BY <1>1, <1>6, SameWire DEF LaidOut, Selects
  <2> QED
    BY <1>6, <2>1, <2>2, <2>3, <2>4, <2>5 DEF LaidOut
<1> QED
  BY <1>1, <1>6, <1>8, <1>9, <1>10 DEF IInv

LEMMA EndSelectStep == IInv /\ EndSelect => IInv'
PROOF
<1> SUFFICES ASSUME IInv, EndSelect PROVE IInv'
  OBVIOUS
<1> DEFINE c == [ranges |-> select, bits |-> Annotated(result)]
<1>1. /\ pc = "select" /\ pc' = "flat" /\ converted' = Append(converted, c)
      /\ select' = <<>> /\ next' = 1 /\ elem' = 0 /\ result' = [left |-> 0, right |-> 0]
      /\ UNCHANGED <<declared, wire, dimensions, size>> /\ next > Len(select)
  BY DEF EndSelect
<1>2. PICK e \in [0 .. Len(dimensions) -> Nat \ {0}] : LaidOut(e)
  BY DEF IInv
<1>3. /\ converted \in Seq([ranges : Seq(Bounds), bits : Bounds])
      /\ select \in Seq(Bounds) /\ result \in Bounds /\ next \in Nat \ {0}
      /\ Legal(select) /\ next <= Len(select) + 1 /\ StandsFor(result, e, select, next - 1)
  BY <1>1, <1>2 DEF IInv, TypeOK, LaidOut
<1>4. c \in [ranges : Seq(Bounds), bits : Bounds] /\ c.ranges = select /\ c.bits = Annotated(result)
  <2>1. Annotated(result) \in Bounds
    BY <1>3 DEF Annotated, Low, High, Bounds
  <2> QED
    BY <1>3, <2>1
<1>5. Placed(c.bits, e, c.ranges)
  <2>1. next - 1 = Len(select)
    <3>1. Len(select) \in Nat
      BY <1>3
    <3> QED
      BY <1>1, <1>3, <3>1
  <2> HIDE DEF c
  <2> QED
    BY <1>3, <1>4, <2>1 DEF Placed
<1>6. TypeOK'
  <2>1. converted' \in Seq([ranges : Seq(Bounds), bits : Bounds])
    <3> HIDE DEF c
    <3> QED
      BY <1>1, <1>3, <1>4
  <2>2. select' \in Seq(Bounds) /\ result' \in Bounds
    BY <1>1 DEF Bounds
  <2> QED
    BY <1>1, <2>1, <2>2 DEF IInv, TypeOK
<1>7. DimensionsAreLow'
  BY <1>1, SameWire DEF IInv, DimensionsAreLow
<1>8. Selects' = Selects \cup {c}
  <2>1. /\ Len(converted) \in Nat /\ Len(converted') = Len(converted) + 1
        /\ converted'[Len(converted) + 1] = c
        /\ \A i \in 1 .. Len(converted) : converted'[i] = converted[i]
    <3> HIDE DEF c
    <3> QED
      BY <1>1, <1>3, <1>4, Appended
  <2> HIDE DEF c
  <2> QED
    BY <2>1 DEF Selects
<1>9. LaidOut(e)'
  <2>1. Layout(e, Len(dimensions))'
    <3>1. Layout(e, Len(dimensions))
      BY <1>2 DEF LaidOut
    <3> QED
      BY <1>1, <3>1 DEF Layout, Among, NoPacked
  <2>2. \A d \in Selects' : Legal(d.ranges)' /\ Placed(d.bits, e, d.ranges)'
    <3>1. \A d \in Selects : Legal(d.ranges) /\ Placed(d.bits, e, d.ranges)
      BY <1>2 DEF LaidOut
    <3>2. Legal(c.ranges) /\ Placed(c.bits, e, c.ranges)
      BY <1>3, <1>4, <1>5
    <3> HIDE DEF c
    <3> QED
      BY <1>1, <1>8, <3>1, <3>2, SameWire
  <2> QED
    BY <1>1, <2>1, <2>2 DEF LaidOut
<1> QED
  BY <1>1, <1>2, <1>6, <1>7, <1>9 DEF IInv

LEMMA StutterStep == IInv /\ UNCHANGED vars => IInv'
PROOF
<1> SUFFICES ASSUME IInv, UNCHANGED vars PROVE IInv'
  OBVIOUS
<1>1. UNCHANGED <<declared, wire, dimensions, size, pc, select, next, elem, result, converted>>
  BY DEF vars
<1>2. TypeOK' /\ DimensionsAreLow'
  BY <1>1, SameWire DEF IInv, TypeOK, DimensionsAreLow
<1>3. PICK e \in [0 .. Len(dimensions) -> Nat \ {0}] : LaidOut(e)
  BY DEF IInv
<1>4. LaidOut(e)'
  <2>1. Layout(e, Len(dimensions))'
    BY <1>1, <1>3 DEF LaidOut, Layout, Among, NoPacked
  <2>2. pc = "select" => Legal(select)' /\ StandsFor(result, e, select, next - 1)'
    BY <1>1, <1>3 DEF LaidOut, Legal, Selected, NoRanges, NoPacked, NoUnpacked,
                      StandsFor, Bases, Evaluated
  <2>3. \A c \in Selects' : Legal(c.ranges)' /\ Placed(c.bits, e, c.ranges)'
    BY <1>1, <1>3, SameWire DEF LaidOut, Selects
  <2> QED
    BY <1>1, <1>3, <2>1, <2>2, <2>3 DEF LaidOut
<1> QED
  BY <1>1, <1>2, <1>3, <1>4 DEF IInv

LEMMA NextIInv == IInv /\ Building /\ Building' /\ [Next]_vars => IInv'
  BY VisitStep, SetDimensionStep, EndOfWireStep, BeginSelectStep, ConvertIndexStep, EndSelectStep,
     StutterStep DEF Next

------------------------------------------------------------------------------
(***************************************************************************)
(* The theorems                                                            *)
(***************************************************************************)
LEMMA Invariance == Spec => []IInv
  BY InitIInv, NextIInv, WireIsBuilt, PTL DEF Spec

\* Where a select has been converted, the wire has one layout.
LEMMA OneLayout ==
    ASSUME IInv, pc \in {"flat", "select"} \/ Selects # {}
    PROVE  \E e : LaidOut(e) /\ Layout(e, NoRanges) /\ wire \in Node
PROOF
<1>1. pc \in {"flat", "select"}
  <2>1. converted = <<>> => Selects = {}
    BY DEF Selects
  <2> QED
    BY <2>1 DEF IInv, TypeOK
<1>2. Len(dimensions) = NoRanges
  BY <1>1 DEF IInv, DimensionsAreLow
<1> QED
  BY <1>2 DEF IInv, LaidOut, TypeOK

LEMMA ConvertedTypes ==
    ASSUME TypeOK, NEW c \in Selects
    PROVE  c.ranges \in Seq(Bounds) /\ c.bits \in Bounds
PROOF
<1>1. PICK i \in 1 .. Len(converted) : c = converted[i]
  BY DEF Selects
<1> DEFINE S == [ranges : Seq(Bounds), bits : Bounds]
<1>2. converted \in Seq(S)
  BY DEF TypeOK
<1>3. c \in S
  <2> HIDE DEF S
  <2> QED
    BY <1>1, <1>2
<1> QED
  BY <1>3

\* The variables have their types, and only a flattened wire has selects
\* converted.
THEOREM TypeCorrect == Spec => []TypeOK
PROOF
<1>1. IInv => TypeOK
  BY DEF IInv
<1> QED
  BY <1>1, Invariance, PTL

\* What the first n indices are converted to is in the wire.
LEMMA StaysInside ==
    ASSUME wire \in Node, NEW e, Layout(e, NoRanges),
           NEW s \in Seq(Bounds), Legal(s), NEW n \in 1 .. Len(s),
           NEW raw \in Bounds, StandsFor(raw, e, s, n),
           NEW bits, bits = Annotated(raw)
    PROVE  bits \in Bounds /\ 0 <= bits.right /\ bits.right <= bits.left /\ bits.left < size
PROOF
<1>1. n \in Nat /\ n # 0 /\ 1 \in 1 .. n /\ 1 \in 1 .. Len(s) /\ 1 \in 1 .. NoRanges
  BY LegalSelect, RangesOfWire
<1>2. PICK b \in [0 .. n -> Int] :
         Bases(b, e, s, n) /\ Element(raw, b[n - 1], e[n], Low(Evaluated(n)), s[n])
  BY <1>1 DEF StandsFor
<1> DEFINE w == High(Evaluated(1)) - Low(Evaluated(1)) + 1
           p == FirstOf(s, 1)
           q == LastOf(s, 1)
           e1 == e[1]
           base == b[1 - 1]
<1>3. bits \in Bounds /\ bits.right <= bits.left /\ Reaches(bits, base, e1, p, q)
  BY <1>1, <1>2, Reach
<1>4. base = 0 /\ e[1 - 1] = size
  BY <1>2 DEF Bases, Layout
<1>5. /\ e1 \in Nat \ {0} /\ w \in Int /\ size = w * e1
      /\ Low(Evaluated(1)) \in Int /\ High(Evaluated(1)) \in Int
  BY <1>1, <1>4, Parts
<1>6. p \in Int /\ 0 <= p /\ p < w /\ q \in Int /\ 0 <= q /\ q < w
  <2> DEFINE low == Low(Evaluated(1))
             high == High(Evaluated(1))
             range == s[1]
  <2>1. range \in Bounds /\ low <= range.left /\ range.left <= high /\ low <= range.right /\ range.right <= high
    BY <1>1, LegalSelect
  <2>2. low \in Int /\ high \in Int
    BY <1>5
  <2> HIDE DEF low, high, range
  <2>3. /\ Low(range) \in Int /\ low <= Low(range) /\ Low(range) <= high
        /\ High(range) \in Int /\ low <= High(range) /\ High(range) <= high
    BY <2>1 DEF Low, High, Bounds
  <2>4. p = Low(range) - low /\ q = High(range) - low /\ w = high - low + 1
    BY DEF FirstOf, LastOf, low, high, range
  <2> HIDE DEF p, q, w
  <2> QED
    BY <2>2, <2>3, <2>4
<1> HIDE DEF w, p, q, e1, base
<1>7. base <= bits.right /\ bits.left < base + w * e1
  <2>1. base \in Int
    BY <1>4
  <2> QED
    BY <1>3, <1>5, <1>6, <2>1, InWhole
<1> QED
  BY <1>1, <1>3, <1>4, <1>5, <1>7

LEMMA Inside == IInv => InsideWire
PROOF
<1> SUFFICES ASSUME IInv PROVE InsideWire
  OBVIOUS
<1>1. size \in Nat \ {0} /\ select \in Seq(Bounds) /\ result \in Bounds
  BY DEF IInv, TypeOK
<1>2. ASSUME NEW c \in Selects
      PROVE  0 <= c.bits.right /\ c.bits.right <= c.bits.left /\ c.bits.left < size
  <2>1. PICK e : LaidOut(e) /\ Layout(e, NoRanges) /\ wire \in Node
    BY OneLayout
  <2>2. c.ranges \in Seq(Bounds) /\ Legal(c.ranges) /\ Placed(c.bits, e, c.ranges)
    BY <2>1, ConvertedTypes DEF IInv, LaidOut
  <2>3. PICK raw \in Bounds : StandsFor(raw, e, c.ranges, Len(c.ranges)) /\ c.bits = Annotated(raw)
    BY <2>2 DEF Placed
  <2>4. Len(c.ranges) \in 1 .. Len(c.ranges)
    BY <2>1, <2>2, LegalSelect
  <2> QED
    BY <2>1, <2>2, <2>3, <2>4, StaysInside
<1>3. ASSUME pc = "select" PROVE {result.left, result.right} \subseteq 0 .. size - 1
  <2>1. PICK e : LaidOut(e) /\ Layout(e, NoRanges) /\ wire \in Node
    BY <1>3, OneLayout
  <2>2. PICK n \in 0 .. Len(select) : StandsFor(result, e, select, n) /\ Legal(select)
    <3>1. next \in Nat \ {0} /\ next <= Len(select) + 1 /\ Len(select) \in Nat
      BY <1>1, <1>3, <2>1 DEF IInv, TypeOK, LaidOut
    <3>2. next - 1 \in 0 .. Len(select)
      BY <3>1
    <3> QED
      BY <1>3, <2>1, <3>2 DEF LaidOut
  <2>3. CASE n = 0
    <3>1. result = [left |-> size - 1, right |-> 0]
      BY <2>2, <2>3 DEF StandsFor
    <3> QED
      BY <1>1, <3>1
  <2>4. CASE n # 0
    <3> DEFINE bits == Annotated(result)
    <3>1. n \in 1 .. Len(select)
      BY <1>1, <2>4
    <3>2. bits \in Bounds /\ 0 <= bits.right /\ bits.right <= bits.left /\ bits.left < size
      BY <1>1, <2>1, <2>2, <3>1, StaysInside
    <3>3. {result.left, result.right} = {bits.left, bits.right}
      BY DEF Annotated, Low, High
    <3>4. bits.left \in Int /\ bits.right \in Int
      BY <3>2 DEF Bounds
    <3>5. bits.left \in 0 .. size - 1 /\ bits.right \in 0 .. size - 1
      <4> DEFINE l == bits.left  r == bits.right
      <4>1. l \in Int /\ r \in Int /\ 0 <= r /\ r <= l /\ l < size
        BY <3>2, <3>4
      <4> HIDE DEF l, r
      <4>2. l \in 0 .. size - 1 /\ r \in 0 .. size - 1
        BY <1>1, <4>1
      <4> QED
        BY <4>2 DEF l, r
    <3> HIDE DEF bits
    <3> QED
      BY <3>3, <3>5
  <2> QED
    BY <2>3, <2>4
<1> QED
  BY <1>2, <1>3 DEF InsideWire

\* However many ranges a wire has, whatever their bounds and directions: a
\* legal select is converted to bits of the wire (convert_range).
THEOREM SelectsInsideWire == Spec => []InsideWire
  BY Inside, Invariance, PTL

LEMMA Shared == IInv => SharedBitsAreShared
PROOF
<1> SUFFICES ASSUME IInv, NEW c \in Selects, NEW d \in Selects,
                    ~HasUpwardsSlice(c.ranges),
                    HasUpwardsSlice(d.ranges) => Len(c.ranges) <= Len(d.ranges)
             PROVE  BitsOf(c) \cap BitsOf(d) # {} <=> HaveCommonElement(c.ranges, d.ranges)
  BY DEF SharedBitsAreShared
<1>1. PICK e : LaidOut(e) /\ Layout(e, NoRanges) /\ wire \in Node
  BY OneLayout
<1>2. /\ c.ranges \in Seq(Bounds) /\ Legal(c.ranges) /\ Placed(c.bits, e, c.ranges)
      /\ d.ranges \in Seq(Bounds) /\ Legal(d.ranges) /\ Placed(d.bits, e, d.ranges)
  BY <1>1, ConvertedTypes DEF IInv, LaidOut
<1>3. Len(c.ranges) \in Nat /\ Len(d.ranges) \in Nat
  BY <1>2
<1>4. CASE Len(c.ranges) <= Len(d.ranges)
  BY <1>1, <1>2, <1>4, SpansMeet DEF BitsOf
<1>5. CASE Len(d.ranges) <= Len(c.ranges) /\ ~HasUpwardsSlice(d.ranges)
  <2>1. BitsOf(d) \cap BitsOf(c) # {} <=> HaveCommonElement(d.ranges, c.ranges)
    BY <1>1, <1>2, <1>5, SpansMeet DEF BitsOf
  <2>2. HaveCommonElement(d.ranges, c.ranges) <=> HaveCommonElement(c.ranges, d.ranges)
    BY DEF HaveCommonElement
  <2> QED
    BY <2>1, <2>2
<1> QED
  BY <1>3, <1>4, <1>5

\* For every wire and any two legal selects on it: they share a bit exactly if
\* they name a common element (convert_range, set_dimensions).  Where they part
\* for the first time, they part for good; where they never do, the bits of the
\* shorter one hold those of the longer one.
THEOREM SharedBits == Spec => []SharedBitsAreShared
  BY Shared, Invariance, PTL
------------------------------------------------------------------------------
(***************************************************************************)
(* The bits of a select are the ones SystemVerilog lays its elements out   *)
(* at: the first bit of an element of one bit counts the elements to its   *)
(* right.                                                                  *)
(***************************************************************************)
\* The select of the one element u, and the bit it is converted to.
Single(u) == [k \in 1 .. NoRanges |-> [left |-> u[k], right |-> u[k]]]

BasesOf(e, u) == CHOOSE b \in [0 .. NoRanges -> Int] : Bases(b, e, Single(u), NoRanges)

Bit(e, u) == BasesOf(e, u)[NoRanges]

AllDescend == \A k \in 1 .. NoRanges : ~Upwards(Selected(k))

LEMMA ElementIndices ==
    ASSUME wire \in Node
    PROVE  \A u : u \in Elements <=>
              /\ u \in [1 .. NoRanges -> Int]
              /\ \A k \in 1 .. NoRanges : Low(Evaluated(k)) <= u[k] /\ u[k] <= High(Evaluated(k))
PROOF
<1> DEFINE indices(k) == Low(Selected(k)) .. High(Selected(k))
           all == UNION {indices(k) : k \in 1 .. NoRanges}
<1>1. \A k \in 1 .. NoRanges :
         /\ Low(Evaluated(k)) \in Int /\ High(Evaluated(k)) \in Int
         /\ Evaluated(k) = Selected(k)
  BY RangesOfWire, RangeBounds
<1>2. Elements = {t \in [1 .. NoRanges -> all] : \A k \in 1 .. NoRanges : t[k] \in indices(k)}
  BY DEF Elements
<1>3. all \subseteq Int
  BY <1>1
<1>4. \A k \in 1 .. NoRanges : indices(k) \subseteq all
  OBVIOUS
<1>5. \A u, k : u \in [1 .. NoRanges -> Int] /\ k \in 1 .. NoRanges =>
         (u[k] \in indices(k) <=> Low(Evaluated(k)) <= u[k] /\ u[k] <= High(Evaluated(k)))
  BY <1>1
<1> HIDE DEF indices, all
<1>6. ASSUME NEW u \in Elements
      PROVE  u \in [1 .. NoRanges -> Int] /\ \A k \in 1 .. NoRanges : u[k] \in indices(k)
  BY <1>2, <1>3
<1>7. ASSUME NEW u \in [1 .. NoRanges -> Int], \A k \in 1 .. NoRanges : u[k] \in indices(k)
      PROVE  u \in Elements
  <2>1. u \in [1 .. NoRanges -> all]
    BY <1>4, <1>7
  <2> QED
    BY <1>2, <1>7, <2>1
<1> QED
  BY <1>5, <1>6, <1>7

LEMMA SingleIsLegal ==
    ASSUME wire \in Node, NoRanges # 0, NEW u \in Elements
    PROVE  /\ Single(u) \in Seq(Bounds) /\ Len(Single(u)) = NoRanges
           /\ Legal(Single(u)) /\ ~HasUpwardsSlice(Single(u))
           /\ \A k \in 1 .. NoRanges :
                 /\ Single(u)[k].right = u[k]
                 /\ FirstOf(Single(u), k) = u[k] - Low(Evaluated(k))
                 /\ LastOf(Single(u), k) = u[k] - Low(Evaluated(k))
PROOF
<1>1. NoRanges \in Nat /\ NoRanges \in 1 .. NoRanges
  BY RangesOfWire
<1>2. /\ u \in [1 .. NoRanges -> Int]
      /\ \A k \in 1 .. NoRanges : Low(Evaluated(k)) <= u[k] /\ u[k] <= High(Evaluated(k))
  BY ElementIndices
<1>3. Single(u) \in [1 .. NoRanges -> Bounds]
  BY <1>2 DEF Single, Bounds
<1>4. Single(u) \in Seq(Bounds) /\ Len(Single(u)) = NoRanges
  BY <1>1, <1>3
<1>5. \A k \in 1 .. NoRanges : Single(u)[k] = [left |-> u[k], right |-> u[k]] /\ u[k] \in Int
  BY <1>2 DEF Single
<1>6. Legal(Single(u))
  <2> SUFFICES ASSUME NEW k \in 1 .. NoRanges
               PROVE  u[k] \in Low(Selected(k)) .. High(Selected(k))
    BY <1>1, <1>4, <1>5 DEF Legal
  <2>1. Evaluated(k) = Selected(k) /\ Low(Evaluated(k)) \in Int /\ High(Evaluated(k)) \in Int
    BY RangesOfWire, RangeBounds
  <2> QED
    BY <1>2, <2>1
<1>7. ~HasUpwardsSlice(Single(u))
  BY <1>4, <1>5 DEF HasUpwardsSlice, Upwards
<1>8. \A k \in 1 .. NoRanges : Low(Single(u)[k]) = u[k] /\ High(Single(u)[k]) = u[k]
  <2> SUFFICES ASSUME NEW k \in 1 .. NoRanges
               PROVE  Low(Single(u)[k]) = u[k] /\ High(Single(u)[k]) = u[k]
    OBVIOUS
  <2>1. Single(u)[k].left = u[k] /\ Single(u)[k].right = u[k]
    BY DEF Single
  <2> QED
    BY <2>1 DEF Low, High
<1> QED
  BY <1>4, <1>5, <1>6, <1>7, <1>8 DEF FirstOf, LastOf

\* Every select is converted to some bits.
LEMMA IsConverted ==
    ASSUME wire \in Node, size \in Nat \ {0}, NEW e, Layout(e, NoRanges),
           NEW s \in Seq(Bounds), Legal(s), NEW n \in 0 .. Len(s)
    PROVE  \E raw \in Bounds : StandsFor(raw, e, s, n)
PROOF
<1> DEFINE Missing == {j \in Nat : j <= Len(s) /\ ~\E raw \in Bounds : StandsFor(raw, e, s, j)}
<1>1. Len(s) \in Nat
  OBVIOUS
<1>2. SUFFICES ASSUME Missing # {} PROVE FALSE
  BY <1>1
<1>3. PICK j \in Missing : \A i \in Missing : j <= i
  BY <1>2, Least
<1>4. j # 0
  <2>1. [left |-> size - 1, right |-> 0] \in Bounds
    BY DEF Bounds
  <2>2. StandsFor([left |-> size - 1, right |-> 0], e, s, 0)
    BY DEF StandsFor
  <2> QED
    BY <2>1, <2>2
<1>5. j - 1 \in Nat /\ j - 1 < Len(s) /\ j - 1 <= Len(s) /\ j - 1 \notin Missing /\ (j - 1) + 1 = j
  BY <1>1, <1>3, <1>4
<1>6. PICK raw \in Bounds : StandsFor(raw, e, s, j - 1)
  BY <1>5
<1>7. \E more \in Bounds : StandsFor(more, e, s, (j - 1) + 1)
  BY <1>5, <1>6, OneIndex
<1> QED
  BY <1>3, <1>5, <1>7

LEMMA BasesOfElement ==
    ASSUME wire \in Node, NoRanges # 0, size \in Nat \ {0},
           NEW e, Layout(e, NoRanges), NEW u \in Elements
    PROVE  /\ BasesOf(e, u) \in [0 .. NoRanges -> Int]
           /\ Bases(BasesOf(e, u), e, Single(u), NoRanges)
           /\ Bit(e, u) \in 0 .. size - 1 /\ Bit(e, u) \in Int
           /\ [left |-> Bit(e, u), right |-> Bit(e, u)] \in Bounds
           /\ Placed([left |-> Bit(e, u), right |-> Bit(e, u)], e, Single(u))
PROOF
<1> DEFINE s == Single(u)
           n == NoRanges
           b == BasesOf(e, u)
           bit == [left |-> Bit(e, u), right |-> Bit(e, u)]
<1>1. s \in Seq(Bounds) /\ Len(s) = n /\ Legal(s) /\ n \in Nat /\ n \in 1 .. n /\ n \in 0 .. Len(s)
  BY SingleIsLegal, RangesOfWire
<1>2. PICK raw \in Bounds : StandsFor(raw, e, s, n)
  BY <1>1, IsConverted
<1>3. \E c \in [0 .. n -> Int] : Bases(c, e, s, n)
  BY <1>2 DEF StandsFor
<1>4. b \in [0 .. n -> Int] /\ Bases(b, e, s, n)
  BY <1>3 DEF BasesOf
<1>5. e[0] = size /\ e[n] = 1 /\ b[0] = 0
  BY <1>4 DEF Layout, Bases
<1>6. b[0] <= b[n] /\ b[n] + e[n] <= b[0] + e[0]
  <2>1. n \in 0 .. n /\ 0 \in 0 .. n
    BY <1>1
  <2> HIDE DEF s, n, b
  <2>2. \A k \in 0 .. n : b[k] <= b[n] /\ b[n] + e[n] <= b[k] + e[k]
    <3>1. Layout(e, NoRanges)
      OBVIOUS
    <3> QED
      BY <1>1, <1>4, <2>1, <3>1, Nested
  <2> QED
    BY <2>1, <2>2
<1>7. Bit(e, u) = b[n] /\ b[n] \in Int
  BY <1>1, <1>4 DEF Bit
<1>8. Bit(e, u) \in 0 .. size - 1
  BY <1>5, <1>6, <1>7
<1>9. bit \in Bounds /\ bit = Annotated(bit)
  BY <1>8 DEF Bounds, Annotated, Low, High
<1>10. Element(bit, b[n - 1], e[n], Low(Evaluated(n)), s[n])
  <2>1. b[n] = b[n - 1] + (s[n].right - Low(Evaluated(n))) * e[n]
    BY <1>1, <1>4 DEF Bases
  <2>2. s[n].left = s[n].right /\ s[n].right \in Int
    <3>1. u[n] \in Int /\ s[n] = [left |-> u[n], right |-> u[n]]
      BY <1>1, ElementIndices DEF Single
    <3> QED
      BY <3>1
  <2>3. Low(Evaluated(n)) \in Int /\ b[n - 1] \in Int
    BY <1>1, <1>4, RangesOfWire, RangeBounds
  <2> DEFINE r == s[n].right  low == Low(Evaluated(n))  base == b[n - 1]
  <2>4. bit.right = base + (r - low) * 1 /\ bit.left = base + (r - low) * 1 /\ r \in Int /\ low \in Int /\ base \in Int
    BY <1>5, <1>7, <2>1, <2>2, <2>3
  <2> HIDE DEF r, low, base
  <2>5. bit.right = base + (r - low) * 1 /\ bit.left + 1 = base + (r - low + 1) * 1
    BY <2>4
  <2> QED
    BY <1>5, <2>2, <2>5 DEF Element, r, low, base
<1>11. StandsFor(bit, e, s, n)
  BY <1>1, <1>4, <1>10 DEF StandsFor
<1>12. Placed(bit, e, s)
  <2>1. Len(s) = n
    BY <1>1
  <2> HIDE DEF bit, s, n
  <2> QED
    BY <1>9, <1>11, <2>1 DEF Placed
<1> QED
  BY <1>4, <1>7, <1>8, <1>9, <1>12

\* Elements that agree in their first indices have the same base there, and each
\* lies in the element named by them.
LEMMA PathOf ==
    ASSUME wire \in Node, NoRanges # 0, size \in Nat \ {0},
           NEW e, Layout(e, NoRanges), NEW u \in Elements, NEW k \in 1 .. NoRanges
    PROVE  LET b == BasesOf(e, u) IN
           /\ b[k - 1] \in Int /\ b[k] \in Int /\ b[0] = 0
           /\ b[k] = b[k - 1] + (u[k] - Low(Evaluated(k))) * e[k]
           /\ b[k] <= Bit(e, u) /\ Bit(e, u) < b[k] + e[k]
           /\ \A v \in Elements :
                 (\A j \in 1 .. k - 1 : u[j] = v[j]) => BasesOf(e, v)[k - 1] = b[k - 1]
PROOF
<1> DEFINE b == BasesOf(e, u)
           n == NoRanges
<1>1. n \in Nat /\ k - 1 \in 0 .. n /\ k \in 0 .. n /\ n \in 0 .. n /\ k - 1 \in Nat /\ k - 1 <= n
  BY RangesOfWire
<1>2. b \in [0 .. n -> Int] /\ Bases(b, e, Single(u), n)
  BY BasesOfElement
<1>3. b[k - 1] \in Int /\ b[k] \in Int /\ b[0] = 0
  BY <1>1, <1>2 DEF Bases
<1>4. b[k] = b[k - 1] + (u[k] - Low(Evaluated(k))) * e[k]
  BY <1>2, SingleIsLegal DEF Bases
<1>5. b[k] <= b[n] /\ b[n] + e[n] <= b[k] + e[k]
  <2>1. Single(u) \in Seq(Bounds) /\ Legal(Single(u)) /\ n \in 0 .. Len(Single(u))
    BY <1>1, SingleIsLegal
  <2> HIDE DEF b, n
  <2>2. Layout(e, NoRanges) /\ n = NoRanges
    BY DEF n
  <2> QED
    BY <1>1, <1>2, <2>1, <2>2, Nested
<1>6. b[k] <= Bit(e, u) /\ Bit(e, u) < b[k] + e[k]
  <2>1. Bit(e, u) = b[n] /\ e[n] = 1 /\ b[n] \in Int /\ e[k] \in Int
    BY <1>1, <1>2, Parts DEF Bit, Layout
  <2> QED
    BY <1>3, <1>5, <2>1
<1>7. ASSUME NEW v \in Elements, \A j \in 1 .. k - 1 : u[j] = v[j]
      PROVE  BasesOf(e, v)[k - 1] = b[k - 1]
  <2>1. Bases(BasesOf(e, v), e, Single(v), n)
    BY BasesOfElement
  <2>2. \A j \in 1 .. k - 1 : Single(u)[j].right = Single(v)[j].right
    <3> SUFFICES ASSUME NEW j \in 1 .. k - 1 PROVE Single(u)[j].right = Single(v)[j].right
      OBVIOUS
    <3>1. j \in 1 .. NoRanges
      BY <1>1
    <3>2. Single(u)[j].right = u[j] /\ Single(v)[j].right = v[j]
      BY <3>1, SingleIsLegal
    <3> QED
      BY <1>7, <3>2
  <2> HIDE DEF b, n
  <2> QED
    BY <1>1, <1>2, <2>1, <2>2, SameBase
<1> QED
  BY <1>3, <1>4, <1>6, <1>7

\* An element with a lower index, where two part, is at a lower bit.
LEMMA InOrder ==
    ASSUME wire \in Node, NoRanges # 0, size \in Nat \ {0},
           NEW e, Layout(e, NoRanges), NEW t \in Elements, NEW u \in Elements,
           NEW k \in 1 .. NoRanges, \A j \in 1 .. k - 1 : t[j] = u[j], t[k] < u[k]
    PROVE  Bit(e, t) < Bit(e, u)
PROOF
<1> DEFINE base == BasesOf(e, t)[k - 1]
           low == Low(Evaluated(k))
           w == e[k]
           i == t[k] - low
           j == u[k] - low
           p == i * w
           q == j * w
<1>1. /\ base \in Int /\ Bit(e, t) < base + p + w
      /\ BasesOf(e, u)[k - 1] = base
      /\ BasesOf(e, u)[k] = base + q /\ BasesOf(e, u)[k] <= Bit(e, u)
  BY PathOf
<1>2. w \in Nat \ {0} /\ low \in Int
  BY Parts
<1>3. t[k] \in Int /\ u[k] \in Int
  BY ElementIndices
<1>4. i \in Int /\ j \in Int /\ i + 1 <= j
  <2> HIDE DEF low
  <2> QED
    BY <1>2, <1>3
<1> HIDE DEF w, i, j
<1>5. p + w <= q /\ p \in Int /\ q \in Int
  <2>1. i + 1 \in Int
    BY <1>4
  <2>2. (i + 1) * w <= j * w
    BY <1>2, <1>4, <2>1, Monotone
  <2>3. (i + 1) * w = i * w + w /\ i * w \in Int
    BY <1>2, <1>4, Plus1
  <2>4. j * w \in Int
    BY <1>2, <1>4
  <2> QED
    BY <2>2, <2>3, <2>4
<1>6. Bit(e, t) \in Int /\ Bit(e, u) \in Int
  BY BasesOfElement
<1> HIDE DEF p, q, base
<1> QED
  BY <1>1, <1>2, <1>5, <1>6

LEMMA RightIsLower ==
    ASSUME wire \in Node, NoRanges # 0, size \in Nat \ {0}, AllDescend,
           NEW e, Layout(e, NoRanges), NEW t \in Elements, NEW u \in Elements
    PROVE  /\ RightOf(t, u) <=> Bit(e, t) < Bit(e, u)
           /\ Bit(e, t) = Bit(e, u) => t = u
PROOF
<1>1. NoRanges \in Nat /\ t \in [1 .. NoRanges -> Int] /\ u \in [1 .. NoRanges -> Int]
  BY RangesOfWire, ElementIndices
<1>2. RightOf(t, u) <=>
        \E k \in 1 .. NoRanges : (\A j \in 1 .. k - 1 : t[j] = u[j]) /\ t[k] < u[k]
  BY DEF RightOf, AllDescend
<1>3. Bit(e, t) \in Int /\ Bit(e, u) \in Int
  BY BasesOfElement
<1>4. ASSUME RightOf(t, u) PROVE Bit(e, t) < Bit(e, u)
  BY <1>2, <1>4, InOrder
<1>5. ASSUME t # u
      PROVE  RightOf(t, u) \/ Bit(e, u) < Bit(e, t)
  <2> DEFINE Differ == {k \in Nat : k \in 1 .. NoRanges /\ t[k] # u[k]}
  <2>1. Differ # {}
    <3>1. PICK k \in 1 .. NoRanges : t[k] # u[k]
      BY <1>1, <1>5
    <3>2. k \in Nat
      BY <1>1
    <3> QED
      BY <3>1, <3>2
  <2>2. PICK k \in Differ : \A j \in Differ : k <= j
    BY <2>1, Least
  <2>3. k \in 1 .. NoRanges /\ t[k] # u[k] /\ t[k] \in Int /\ u[k] \in Int
    BY <1>1, <2>2
  <2>4. \A j \in 1 .. k - 1 : t[j] = u[j]
    <3> SUFFICES ASSUME NEW j \in 1 .. k - 1 PROVE t[j] = u[j]
      OBVIOUS
    <3>1. j \in 1 .. NoRanges /\ j \in Nat /\ k \in Nat /\ j < k
      BY <1>1, <2>3
    <3> QED
      BY <2>2, <3>1
  <2> HIDE DEF Differ
  <2>5. CASE t[k] < u[k]
    BY <1>2, <2>3, <2>4, <2>5
  <2>6. CASE u[k] < t[k]
    <3>1. \A j \in 1 .. k - 1 : u[j] = t[j]
      BY <2>4
    <3> QED
      BY <2>3, <2>6, <3>1, InOrder
  <2> QED
    BY <2>3, <2>5, <2>6
<1> QED
  BY <1>3, <1>4, <1>5

LEMMA SomeElement ==
    ASSUME wire \in Node
    PROVE  [k \in 1 .. NoRanges |-> Low(Evaluated(k))] \in Elements
PROOF
<1> DEFINE u == [k \in 1 .. NoRanges |-> Low(Evaluated(k))]
<1>1. \A k \in 1 .. NoRanges :
         /\ Low(Evaluated(k)) \in Int
         /\ Low(Evaluated(k)) <= Low(Evaluated(k)) /\ Low(Evaluated(k)) <= High(Evaluated(k))
  BY RangesOfWire, RangeBounds
<1>2. u \in [1 .. NoRanges -> Int] /\ \A k \in 1 .. NoRanges : u[k] = Low(Evaluated(k))
  BY <1>1
<1> HIDE DEF u
<1>3. u \in Elements
  BY <1>1, <1>2, ElementIndices
<1> QED
  BY <1>3 DEF u

\* Which of w parts of e bits each a bit is in.
LEMMA PartOf ==
    ASSUME NEW e \in Nat \ {0}, NEW w \in Int, NEW x \in Int, 0 <= x, x < w * e
    PROVE  \E i \in Int : 0 <= i /\ i < w /\ i * e <= x /\ x < i * e + e
PROOF
<1> DEFINE i == x \div e
<1>1. i \in Int /\ i * e <= x /\ x < i * e + e /\ 0 <= i
  OBVIOUS
<1>2. i < w
  <2>1. SUFFICES ASSUME w <= i PROVE FALSE
    BY <1>1
  <2>2. w * e <= i * e
    BY <1>1, <2>1, Monotone
  <2>3. w * e \in Int /\ i * e \in Int
    BY <1>1
  <2> QED
    BY <1>1, <2>2, <2>3
<1> QED
  BY <1>1, <1>2

\* Every bit of the wire is an element.
LEMMA EveryBit ==
    ASSUME wire \in Node, NoRanges # 0, size \in Nat \ {0},
           NEW e, Layout(e, NoRanges), NEW x \in 0 .. size - 1
    PROVE  \E u \in Elements : Bit(e, u) = x
PROOF
<1> DEFINE Near(n) == \E u \in Elements : BasesOf(e, u)[n] <= x /\ x < BasesOf(e, u)[n] + e[n]
           Far == {n \in Nat : n <= NoRanges /\ ~Near(n)}
<1>1. NoRanges \in Nat /\ x \in Int
  BY RangesOfWire
<1>2. Near(NoRanges)
  <2>1. SUFFICES ASSUME Far # {} PROVE FALSE
    BY <1>1
  <2>2. PICK n \in Far : \A m \in Far : n <= m
    BY <2>1, Least
  <2>3. n # 0
    <3>1. PICK u \in Elements : TRUE
      BY SomeElement
    <3>2. BasesOf(e, u)[0] = 0 /\ e[0] = size
      <4>1. 1 \in 1 .. NoRanges
        BY <1>1
      <4> QED
        BY <4>1, PathOf DEF Layout
    <3>3. Near(0)
      BY <3>2
    <3> QED
      BY <2>2, <3>3
  <2>4. n \in Nat /\ n \in 1 .. NoRanges /\ n - 1 \in Nat /\ n - 1 <= NoRanges /\ n - 1 < n
    BY <1>1, <2>2, <2>3
  <2>5. Near(n - 1)
    <3>1. n - 1 \notin Far
      <4> HIDE DEF Far
      <4> QED
        BY <2>2, <2>4
    <3> QED
      BY <2>4, <3>1
  <2>6. PICK u \in Elements : BasesOf(e, u)[n - 1] <= x /\ x < BasesOf(e, u)[n - 1] + e[n - 1]
    BY <2>5
  <2> DEFINE base == BasesOf(e, u)[n - 1]
             low == Low(Evaluated(n))
             high == High(Evaluated(n))
             en == e[n]
             w == high - low + 1
  <2>7. /\ base \in Int /\ en \in Nat \ {0} /\ low \in Int /\ high \in Int /\ w \in Int
        /\ e[n - 1] = w * en
    BY <2>4, Parts, PathOf
  <2>8. PICK i \in Int : 0 <= i /\ i < w /\ i * en <= x - base /\ x - base < i * en + en
    <3>1. x - base \in Int /\ 0 <= x - base /\ x - base < w * en
      <4>1. base <= x /\ x < base + w * en /\ w * en \in Int
        BY <2>6, <2>7
      <4> HIDE DEF base, w, en
      <4> QED
        BY <1>1, <2>7, <4>1
    <3> HIDE DEF base, w, en
    <3> QED
      BY <2>7, <3>1, PartOf
  <2> DEFINE v == [u EXCEPT ![n] = low + i]
  <2>9. /\ v \in Elements /\ v[n] = low + i
        /\ \A j \in 1 .. n - 1 : u[j] = v[j]
    <3>1. /\ u \in [1 .. NoRanges -> Int]
          /\ \A k \in 1 .. NoRanges : Low(Evaluated(k)) <= u[k] /\ u[k] <= High(Evaluated(k))
      BY ElementIndices
    <3>2. low + i \in Int /\ low <= low + i /\ low + i <= high
      <4> HIDE DEF low, high
      <4> QED
        BY <2>7, <2>8
    <3>3. v \in [1 .. NoRanges -> Int] /\ v[n] = low + i /\ \A j \in 1 .. NoRanges : j # n => v[j] = u[j]
      BY <2>4, <3>1, <3>2
    <3> HIDE DEF v
    <3>4. \A k \in 1 .. NoRanges : Low(Evaluated(k)) <= v[k] /\ v[k] <= High(Evaluated(k))
      BY <3>1, <3>2, <3>3
    <3>5. \A j \in 1 .. n - 1 : u[j] = v[j]
      BY <1>1, <2>4, <3>3
    <3> QED
      BY <3>3, <3>4, <3>5, ElementIndices
  <2> HIDE DEF v
  <2>10. BasesOf(e, v)[n - 1] = base
    BY <2>4, <2>9, PathOf
  <2>11. BasesOf(e, v)[n] = base + i * en
    <3>1. BasesOf(e, v)[n] = BasesOf(e, v)[n - 1] + (v[n] - low) * en
      BY <2>4, <2>9, PathOf
    <3>2. v[n] - low = i
      <4> HIDE DEF low
      <4> QED
        BY <2>7, <2>9
    <3> QED
      BY <2>10, <3>1, <3>2
  <2>12. BasesOf(e, v)[n] <= x /\ x < BasesOf(e, v)[n] + en
    <3>1. i * en \in Int
      BY <2>7
    <3> HIDE DEF base, en
    <3> QED
      BY <1>1, <2>7, <2>8, <2>11, <3>1
  <2>13. Near(n)
    BY <2>9, <2>12
  <2> QED
    BY <2>2, <2>13
<1>3. PICK u \in Elements : BasesOf(e, u)[NoRanges] <= x /\ x < BasesOf(e, u)[NoRanges] + e[NoRanges]
  BY <1>2
<1>4. Bit(e, u) = BasesOf(e, u)[NoRanges] /\ Bit(e, u) \in Int /\ e[NoRanges] = 1
  BY BasesOfElement DEF Bit, Layout
<1>5. Bit(e, u) = x
  BY <1>1, <1>3, <1>4
<1> QED
  BY <1>5

\* The first bit of an element counts the elements to its right.
LEMMA BitCounts ==
    ASSUME wire \in Node, NoRanges # 0, size \in Nat \ {0}, AllDescend,
           NEW e, Layout(e, NoRanges), NEW u \in Elements
    PROVE  Cardinality({t \in Elements : RightOf(t, u)}) = Bit(e, u)
PROOF
<1> DEFINE Right == {t \in Elements : RightOf(t, u)}
           Lower == 0 .. Bit(e, u) - 1
           f == [t \in Right |-> Bit(e, t)]
<1>1. Bit(e, u) \in 0 .. size - 1 /\ Bit(e, u) \in Int
  BY BasesOfElement
<1>2. \A t \in Elements : RightOf(t, u) <=> Bit(e, t) < Bit(e, u)
  BY RightIsLower
<1>3. \A t \in Elements : Bit(e, t) \in 0 .. size - 1 /\ Bit(e, t) \in Int
  BY BasesOfElement
<1>4. \A t \in Right : Bit(e, t) \in Lower
  <2> SUFFICES ASSUME NEW t \in Right PROVE Bit(e, t) \in Lower
    OBVIOUS
  <2>1. Bit(e, t) < Bit(e, u) /\ 0 <= Bit(e, t) /\ Bit(e, t) \in Int
    BY <1>2, <1>3
  <2> QED
    BY <1>1, <2>1
<1>5. f \in [Right -> Lower]
  BY <1>4
<1>6. ASSUME NEW s \in Right, NEW t \in Right, f[s] = f[t] PROVE s = t
  <2>1. Bit(e, s) = Bit(e, t) /\ s \in Elements /\ t \in Elements
    BY <1>6
  <2> QED
    BY <2>1, RightIsLower
<1>7. ASSUME NEW x \in Lower PROVE \E t \in Right : f[t] = x
  <2>1. x \in 0 .. size - 1 /\ x < Bit(e, u)
    BY <1>1
  <2>2. PICK t \in Elements : Bit(e, t) = x
    BY <2>1, EveryBit
  <2>3. t \in Right
    BY <1>2, <2>1, <2>2
  <2> QED
    BY <2>2, <2>3
<1> HIDE DEF f, Right
<1>8. f \in Injection(Right, Lower)
  BY <1>5, <1>6 DEF Injection, IsInjective
<1>9. f \in Surjection(Right, Lower)
  BY <1>5, <1>7 DEF Surjection
<1>10. ExistsBijection(Right, Lower)
  BY <1>8, <1>9 DEF ExistsBijection, Bijection
<1>11. IsFiniteSet(Lower) /\ Cardinality(Lower) = Bit(e, u)
  <2>1. 0 \in Int /\ Bit(e, u) - 1 \in Int
    BY <1>1
  <2> HIDE DEF Right
  <2>2. /\ IsFiniteSet(0 .. Bit(e, u) - 1)
        /\ Cardinality(0 .. Bit(e, u) - 1) =
              IF 0 > Bit(e, u) - 1 THEN 0 ELSE (Bit(e, u) - 1) - 0 + 1
    BY <2>1, FS_Interval
  <2> QED
    BY <1>1, <2>2
<1>12. ExistsBijection(Lower, Right)
  BY <1>10, Fun_ExistsBijSymmetric
<1>13. Cardinality(Right) = Cardinality(Lower)
  <2> HIDE DEF Lower
  <2> QED
    BY <1>11, <1>12, FS_Bijection
<1> QED
  BY <1>11, <1>13 DEF Right

LEMMA Declared == IInv => BitsAsDeclared
PROOF
<1> SUFFICES ASSUME IInv, pc = "flat", converted # <<>>,
                    \A k \in 1 .. NoRanges : ~Upwards(Selected(k)),
                    NEW c, c = converted[Len(converted)]
             PROVE  BitsOf(c) = DeclaredBits(c.ranges)
  BY DEF BitsAsDeclared
<1> DEFINE s == c.ranges
<1>1. c \in Selects
  <2>1. converted \in Seq([ranges : Seq(Bounds), bits : Bounds])
    BY DEF IInv, TypeOK
  <2>2. Len(converted) \in 1 .. Len(converted)
    BY <2>1
  <2> QED
    BY <2>2 DEF Selects
<1>2. PICK e : LaidOut(e) /\ Layout(e, NoRanges) /\ wire \in Node
  BY OneLayout
<1>3. s \in Seq(Bounds) /\ c.bits \in Bounds /\ Legal(s) /\ Placed(c.bits, e, s)
  BY <1>1, <1>2, ConvertedTypes DEF IInv, LaidOut
<1>4. /\ AllDescend /\ size \in Nat \ {0} /\ NoRanges \in Nat /\ NoRanges # 0
      /\ Len(s) \in Nat /\ Len(s) \in 1 .. Len(s) /\ Len(s) <= NoRanges
  BY <1>2, <1>3, LegalSelect, RangesOfWire DEF AllDescend, IInv, TypeOK
<1>5. ~HasUpwardsSlice(s)
  <2> SUFFICES ASSUME NEW k \in 1 .. Len(s), Upwards(s[k]) PROVE FALSE
    BY DEF HasUpwardsSlice
  <2>1. k \in 1 .. NoRanges /\ s[k] \in Bounds
    BY <1>2, <1>3, LegalSelect
  <2>2. s[k].left # s[k].right
    <3>1. s[k].left \in Int /\ s[k].right \in Int /\ s[k].left < s[k].right
      BY <2>1 DEF Bounds, Upwards
    <3> QED
      BY <3>1
  <2>3. Upwards(Selected(k))
    BY <1>3, <2>2 DEF Legal
  <2> QED
    BY <2>1, <2>3
<1>6. 0 <= c.bits.right /\ c.bits.left < size /\ c.bits.right \in Int /\ c.bits.left \in Int
  <2>1. InsideWire
    BY Inside
  <2> QED
    BY <1>1, <1>3, <2>1 DEF InsideWire, Bounds
<1>7. ASSUME NEW u \in Elements
      PROVE  Bit(e, u) \in BitsOf(c) <=> Names(s, u)
  <2> DEFINE bit == [left |-> Bit(e, u), right |-> Bit(e, u)]
             t == Single(u)
  <2>1. Bit(e, u) \in Int /\ Placed(bit, e, t)
    BY <1>2, <1>4, BasesOfElement
  <2>2. t \in Seq(Bounds) /\ Legal(t) /\ Len(t) = NoRanges
    BY <1>2, <1>4, SingleIsLegal
  <2>3. (c.bits.right .. c.bits.left) \cap (bit.right .. bit.left) # {} <=> HaveCommonElement(s, t)
    <3> DEFINE x == c.bits  r == c.ranges
    <3> HIDE DEF bit, t, x, r
    <3>1. r \in Seq(Bounds) /\ Legal(r) /\ ~HasUpwardsSlice(r) /\ Placed(x, e, r) /\ Len(r) <= Len(t)
      BY <1>3, <1>4, <1>5, <2>2 DEF x, r
    <3>2. (x.right .. x.left) \cap (bit.right .. bit.left) # {} <=> HaveCommonElement(r, t)
      BY <1>2, <2>1, <2>2, <3>1, SpansMeet
    <3> QED
      BY <3>2 DEF x, r
  <2>4. (c.bits.right .. c.bits.left) \cap (bit.right .. bit.left) # {} <=> Bit(e, u) \in BitsOf(c)
    <3>1. bit.right .. bit.left = {Bit(e, u)}
      BY <2>1
    <3> QED
      BY <3>1 DEF BitsOf
  <2>5. HaveCommonElement(s, t) <=> Names(s, u)
    <3>1. DOMAIN s \cap DOMAIN t = 1 .. Len(s)
      BY <1>3, <1>4, <2>2
    <3>2. \A k \in 1 .. Len(s) : Low(t[k]) = u[k] /\ High(t[k]) = u[k]
      <4> SUFFICES ASSUME NEW k \in 1 .. Len(s) PROVE Low(t[k]) = u[k] /\ High(t[k]) = u[k]
        OBVIOUS
      <4>1. k \in 1 .. NoRanges
        BY <1>4
      <4>2. t[k].left = u[k] /\ t[k].right = u[k]
        BY <4>1 DEF Single
      <4> QED
        BY <4>2 DEF Low, High
    <3> HIDE DEF s, t
    <3> QED
      BY <3>1, <3>2 DEF HaveCommonElement, Names, Within
  <2> QED
    BY <2>3, <2>4, <2>5
<1>8. DeclaredBits(s) = {Bit(e, u) : u \in {v \in Elements : Names(s, v)}}
  <2>1. \A u \in Elements : Cardinality({t \in Elements : RightOf(t, u)}) = Bit(e, u)
    BY <1>2, <1>4, BitCounts
  <2> HIDE DEF s
  <2> QED
    BY <2>1 DEF DeclaredBits
<1>9. ASSUME NEW x \in BitsOf(c) PROVE x \in DeclaredBits(s)
  <2>1. x \in 0 .. size - 1
    BY <1>4, <1>6 DEF BitsOf
  <2>2. PICK u \in Elements : Bit(e, u) = x
    BY <1>2, <1>4, <2>1, EveryBit
  <2>3. Names(s, u)
    BY <1>7, <2>2
  <2> HIDE DEF s
  <2> QED
    BY <1>8, <2>2, <2>3
<1>10. ASSUME NEW x \in DeclaredBits(s) PROVE x \in BitsOf(c)
  <2>1. PICK u \in Elements : Names(s, u) /\ x = Bit(e, u)
    <3> HIDE DEF s
    <3> QED
      BY <1>8
  <2> QED
    BY <1>7, <2>1
<1> QED
  BY <1>9, <1>10

\* For every wire with descending ranges: the bits a select is converted to are
\* exactly the ones SystemVerilog lays its elements out at (convert_range).
THEOREM DeclaredLayout == Spec => []BitsAsDeclared
  BY Declared, Invariance, PTL
=============================================================================
