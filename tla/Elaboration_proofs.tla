-------------------------- MODULE Elaboration_proofs --------------------------
(***************************************************************************)
(* For every tree Surelog may deliver: the state is well typed, a cell     *)
(* names a module made from an instance of the same definition and         *)
(* parameters, every instance gets its module although repeated ones are   *)
(* skipped, and variables find the typedefs of their anonymous enums.      *)
(***************************************************************************)
EXTENDS Elaboration, TLAPS

\* A module stands under the name of the instance it was made from, and an
\* instance whose body is visited has its module.
NamesInv ==
    /\ \A n \in DOMAIN top_nodes : NameOf(top_nodes[n]) = n
    /\ \A u \in Units : phase[u] = "body" => NameOf(u) \in DOMAIN top_nodes

\* A cell has the name of its instance, and that module exists.
CellsInv ==
    \A c \in cells :
        \/ source.def[c.unit] \in Undefined
        \/ c.module = NameOf(c.unit) /\ c.module \in DOMAIN top_nodes

\* The module around an instance; a top module has the package around it.
Around(u) == IF IsTop(u) THEN PackageName ELSE NameOf(source.parent[u])

\* Where typedefs go is what the nesting of the walk says, although it is set
\* and put back in the middle of the visits.
TopInv ==
    /\ at = NoUnit => current_top_node = PackageName
    /\ \A u \in Units : at = u =>
          current_top_node = IF phase[u] = "body" THEN NameOf(u) ELSE Around(u)
    /\ \A u \in Units : phase[u] = "body" => saved[u] = Around(u)

\* Typedefs are in modules that exist or in the package.
NodesInv == \A t \in typedefs : t.node \in DOMAIN top_nodes \cup {PackageName}

\* Where the typedefs are that an instance names, whether it has its module,
\* has been deleted in favour of another, or is being visited.
UsesInv ==
    \A u \in Units : \A use \in uses[u] :
        /\ use.phase = "body" => DefinedIn(use.id, {NameOf(u), Unparametrized(NameOf(u))})
        /\ use.phase = "early" /\ IsTop(u) => DefinedIn(use.id, {PackageName})

\* The walk is in one instance, and the instances around it are in their bodies.
WalkInv ==
    /\ at \in Units => phase[at] \in {"early", "body"}
    /\ \A u \in Units :
          phase[u] \in {"early", "body"} /\ ~IsTop(u) => phase[source.parent[u]] = "body"

IInv ==
    /\ TypeOK /\ source \in Sources
    /\ WalkInv /\ TopInv /\ NodesInv
    /\ NamesInv /\ CellsInv /\ UsesInv

------------------------------------------------------------------------------
\* Names of modules are in the set of names.
LEMMA NameType ==
    ASSUME source \in Trees, NEW u \in Units
    PROVE  NameOf(u) \in Names /\ Plain(source.def[u]) \in Names
BY DEF NameOf, Names, Plain, Derived, Trees

\* Typedefs go to a module that exists or to the package.
LEMMA CurrentTopExists ==
    ASSUME IInv, NEW u \in Units, at = u
    PROVE  current_top_node \in DOMAIN top_nodes \cup {PackageName}
<1>1. phase[u] = "early" /\ ~IsTop(u) => source.parent[u] \in Units /\ phase[source.parent[u]] = "body"
  BY DEF IInv, WalkInv, IsTop, TypeOK, Trees
<1>2. phase[u] \in {"early", "body"}
  BY DEF IInv, WalkInv
<1> QED
  BY <1>1, <1>2 DEF IInv, TopInv, NamesInv, Around

\* Instances of different definitions or parameterizations have different names.
LEMMA NamesTellModulesApart ==
    ASSUME source \in Sources, NEW u \in Units, NEW v \in Units, NameOf(u) = NameOf(v)
    PROVE  SameModule(u, v)
<1>1. Consistent(source)
  BY ConstantsAssumption
<1>2. source.def[u] = source.def[v]
  BY DEF NameOf, Plain, Derived
<1>3. CASE IsTop(u) /\ IsTop(v)
  BY <1>1, <1>2, <1>3 DEF Consistent, IsTop, SameModule
<1>4. CASE IsTop(u) /\ ~IsTop(v)
  <2>1. source.params[v] # NoParams /\ source.def[v] \notin Boxed
    BY <1>1, <1>2, <1>4 DEF Consistent, IsTop
  <2> QED
    BY <1>4, <2>1 DEF NameOf, Plain, Derived
<1>5. CASE ~IsTop(u) /\ IsTop(v)
  <2>1. source.params[u] # NoParams /\ source.def[u] \notin Boxed
    BY <1>1, <1>2, <1>5 DEF Consistent, IsTop
  <2> QED
    BY <1>5, <2>1 DEF NameOf, Plain, Derived
<1>6. CASE ~IsTop(u) /\ ~IsTop(v)
  BY <1>2, <1>6 DEF NameOf, Plain, Derived, SameModule
<1> QED
  BY <1>3, <1>4, <1>5, <1>6

\* What a lookup finds is in the module or in the unparametrized one.
LEMMA FoundIsNear ==
    ASSUME NEW name, NEW enum, NEW t \in Found(name, enum)
    PROVE  t \in typedefs /\ t.node \in {name, Unparametrized(name)}
BY DEF Found, Known

\* A typedef stays where it is.
LEMMA TypedefsStay ==
    ASSUME typedefs \subseteq typedefs', NEW id, NEW names, DefinedIn(id, names)
    PROVE  DefinedIn(id, names)'
BY DEF DefinedIn

------------------------------------------------------------------------------
LEMMA InitInv == Init => IInv
<1> SUFFICES ASSUME Init PROVE IInv
  OBVIOUS
<1>1. TypeOK /\ source \in Sources
  BY ConstantsAssumption DEF Init, TypeOK, FirstTop, PackageName, Plain, Names
<1>2. WalkInv /\ TopInv /\ NodesInv
  BY ConstantsAssumption DEF Init, WalkInv, TopInv, NodesInv, FirstTop
<1>3. NamesInv /\ CellsInv /\ UsesInv
  BY DEF Init, NamesInv, CellsInv, UsesInv
<1> QED
  BY <1>1, <1>2, <1>3 DEF IInv

LEMMA StepInv == IInv /\ [Next]_vars => IInv'
<1> SUFFICES ASSUME IInv, [Next]_vars PROVE IInv'
  OBVIOUS
<1> USE DEF IInv
<1>a. ASSUME source' = source
      PROVE  /\ \A u : NameOf(u)' = NameOf(u)
             /\ \A u : IsTop(u)' = IsTop(u)
             /\ \A u : Around(u)' = Around(u)
  BY <1>a DEF NameOf, IsTop, Around
<1>b. ASSUME NEW u \in Units, Enter(u), phase[u] # "body",
             ~IsTop(u) => source.parent[u] \in Units /\ phase[source.parent[u]] = "body",
             current_top_node = Around(u),
             UNCHANGED <<source, tops, typedefs, next_id, uses, cells>>
      PROVE  IInv'
  <2> USE DEF tops
  <2>6. TopInv'
    BY <1>a, <1>b, ConstantsAssumption DEF TopInv, Enter, TypeOK
  <2>7. NodesInv'
    BY <1>b DEF NodesInv
  <2>5. WalkInv'
    BY <1>a, <1>b DEF WalkInv, Enter, TypeOK
  <2>1. TypeOK'
    BY <1>b DEF TypeOK, Enter, Trees
  <2>2. NamesInv'
    BY <1>a, <1>b DEF NamesInv, Enter, TypeOK
  <2>3. CellsInv'
    BY <1>a, <1>b DEF CellsInv
  <2>4. UsesInv'
    BY <1>a, <1>b, TypedefsStay DEF UsesInv
  <2> QED
    BY <1>b, <2>1, <2>2, <2>3, <2>4, <2>5, <2>6, <2>7
<1>c. ASSUME NEW u \in Units, phase' = [phase EXCEPT ![u] = "left"], at' = source.parent[u],
             current_top_node' = Around(u), at' \in Units => phase'[at'] = "body",
             UNCHANGED <<source, saved>>
      PROVE  TopInv'
  <2>1. at' = NoUnit => current_top_node' = PackageName
    BY <1>c DEF Around, IsTop
  <2>2. ASSUME NEW v \in Units, at' = v PROVE current_top_node' = NameOf(v) /\ phase'[v] = "body"
    BY <1>c, <2>2, ConstantsAssumption DEF Around, IsTop
  <2>3. \A v \in Units : phase'[v] = "body" => saved[v] = Around(v)
    BY <1>c DEF TopInv, TypeOK
  <2> QED
    BY <1>a, <1>c, <2>1, <2>2, <2>3 DEF TopInv
<1>1. ASSUME NEW u \in Units, NEW enum \in Enums, VisitEnum(u, enum) PROVE IInv'
  <2> USE <1>1
  <2>a. source' = source /\ phase' = phase /\ tops' = tops /\ cells' = cells
        /\ at' = at /\ at = u /\ typedefs \subseteq typedefs'
    BY DEF VisitEnum
  <2> USE DEF tops
  <2>b. PICK id \in Nat :
          /\ uses' = [uses EXCEPT ![u] = @ \cup Use(u, enum, id)]
          /\ \E t \in typedefs' :
               t.id = id /\ t.node \in {current_top_node, Unparametrized(current_top_node)}
          /\ NodesInv'
    <3>1. CASE Found(current_top_node, enum) # {}
      <4>1. PICK t \in Found(current_top_node, enum) :
              uses' = [uses EXCEPT ![u] = @ \cup Use(u, enum, t.id)] /\ typedefs' = typedefs
        BY <3>1 DEF VisitEnum
      <4>2. t \in typedefs /\ t.node \in {current_top_node, Unparametrized(current_top_node)}
        BY FoundIsNear
      <4>3. t.id \in Nat
        BY <4>2 DEF TypeOK
      <4>4. NodesInv'
        BY <2>a, <4>1 DEF NodesInv
      <4> QED
        BY <4>1, <4>2, <4>3, <4>4
    <3>2. CASE Found(current_top_node, enum) = {}
      <4> DEFINE new == [node |-> current_top_node, enum |-> enum, id |-> next_id]
      <4>1. /\ typedefs' = typedefs \cup {new}
            /\ uses' = [uses EXCEPT ![u] = @ \cup Use(u, enum, next_id)]
        BY <3>2 DEF VisitEnum
      <4>2. new \in typedefs' /\ new.id = next_id /\ new.node = current_top_node
        BY <4>1
      <4>3. NodesInv'
        BY <2>a, <4>1, CurrentTopExists DEF NodesInv
      <4>4. next_id \in Nat
        BY DEF TypeOK
      <4> QED
        BY <4>1, <4>2, <4>3, <4>4
    <3> QED
      BY <3>1, <3>2
  <2>c. Use(u, enum, id) \subseteq [id : Nat, phase : {"early", "body"}]
        /\ \A use \in Use(u, enum, id) : use.id = id /\ use.phase = phase[u]
    <3>1. phase[u] \in {"early", "body"}
      BY DEF VisitEnum, WalkInv
    <3> QED
      BY <3>1 DEF Use
  <2>1. TypeOK'
    <3>1. uses' \in [Units -> SUBSET [id : Nat, phase : {"early", "body"}]]
      BY <2>b, <2>c DEF TypeOK
    <3>2. typedefs' \subseteq [node : Names, enum : Enums, id : Nat] /\ next_id' \in Nat
      BY DEF VisitEnum, TypeOK
    <3>3. todo' \in [Units -> SUBSET Enums]
      BY DEF VisitEnum, TypeOK
    <3> QED
      BY <2>a, <3>1, <3>2, <3>3 DEF TypeOK
  <2>2. NamesInv'
    BY <1>a, <2>a DEF NamesInv
  <2>3. CellsInv'
    BY <1>a, <2>a DEF CellsInv
  <2>4. UsesInv'
    <3> SUFFICES ASSUME NEW v \in Units, NEW use \in uses'[v]
                 PROVE  /\ use.phase = "body" => DefinedIn(use.id, {NameOf(v), Unparametrized(NameOf(v))})'
                        /\ use.phase = "early" /\ IsTop(v) => DefinedIn(use.id, {PackageName})'
      BY <1>a, <2>a DEF UsesInv, Unparametrized, PackageName
    <3>1. CASE use \in uses[v]
      BY <1>a, <2>a, <3>1, TypedefsStay DEF UsesInv, Unparametrized
    <3>2. CASE use \notin uses[v]
      <4>1. v = u /\ use \in Use(u, enum, id)
        BY <2>b, <3>2 DEF TypeOK
      <4>2. use.id = id /\ use.phase = phase[u]
        BY <2>c, <4>1
      <4>3. phase[u] = "body" => current_top_node = NameOf(u)
        BY <2>a DEF TopInv
      <4>4. phase[u] = "early" /\ IsTop(u) => current_top_node = PackageName
        BY <2>a DEF TopInv, Around
      <4>5. Unparametrized(PackageName) = PackageName
        BY DEF Unparametrized, PackageName, Plain
      <4> QED
        BY <1>a, <2>a, <2>b, <4>1, <4>2, <4>3, <4>4, <4>5 DEF DefinedIn, Unparametrized
    <3> QED
      BY <3>1, <3>2
  <2>5. WalkInv'
    BY <1>a, <2>a DEF WalkInv
  <2>6. TopInv'
    BY <1>a, <2>a DEF TopInv
  <2> QED
    BY <2>a, <2>b, <2>1, <2>2, <2>3, <2>4, <2>5, <2>6
<1>2. ASSUME NEW u \in Units, StartTop(u) PROVE IInv'
  BY <1>b, <1>2 DEF StartTop, TopInv, Around
<1>3. ASSUME NEW u \in Units, Instantiate(u) PROVE IInv'
  <2>1. at = source.parent[u] /\ at \in Units /\ phase[at] = "body" /\ ~IsTop(u)
    BY <1>3, ConstantsAssumption DEF Instantiate, Below, IsTop
  <2>2. current_top_node = Around(u)
    BY <2>1 DEF TopInv, Around
  <2> QED
    BY <1>b, <1>3, <2>1, <2>2 DEF Instantiate, Below
<1>4. ASSUME NEW u \in Units, InstantiateUndefined(u) PROVE IInv'
  <2> USE <1>4 DEF InstantiateUndefined, tops
  <2>1. TypeOK'
    BY NameType DEF TypeOK, Cell
  <2>2. NamesInv'
    BY <1>a DEF NamesInv, TypeOK
  <2>3. CellsInv'
    BY <1>a DEF CellsInv, Cell
  <2>4. UsesInv'
    BY <1>a, TypedefsStay DEF UsesInv
  <2>5. WalkInv'
    BY <1>a DEF WalkInv, TypeOK, Trees, IsTop, Below
  <2>6. TopInv'
    <3>1. phase[u] = "new" /\ phase' = [phase EXCEPT ![u] = "left"] /\ at \in Units /\ phase[at] = "body"
      BY DEF Below
    <3> QED
      BY <1>a, <3>1 DEF TopInv, TypeOK
  <2>7. NodesInv'
    BY DEF NodesInv
  <2> QED
    BY <2>1, <2>2, <2>3, <2>4, <2>5, <2>6, <2>7
<1>5. ASSUME NEW u \in Units, Reuse(u) PROVE IInv'
  <2> USE <1>5 DEF Reuse, tops
  <2>1. TypeOK'
    <3>1. source.parent[u] \in Units \cup {NoUnit}
      BY DEF TypeOK, Trees
    <3> QED
      BY <3>1, NameType DEF TypeOK, Cell
  <2>2. NamesInv'
    BY <1>a DEF NamesInv, TypeOK
  <2>3. CellsInv'
    BY <1>a DEF CellsInv, Cell
  <2>4. UsesInv'
    <3>1. \A v \in Units : uses'[v] \subseteq uses[v]
      BY DEF TypeOK
    <3> QED
      BY <1>a, <3>1, TypedefsStay DEF UsesInv
  <2>5. WalkInv'
    <3>1. source.parent[u] \in Units \cup {NoUnit} /\ phase \in [Units -> {"new", "early", "body", "left"}]
      BY DEF TypeOK, Trees
    <3>2. \A v \in Units : v # u => phase'[v] = phase[v]
      BY <3>1
    <3>3. phase'[u] = "left" /\ at' = source.parent[u]
      BY <3>1
    <3>4. ~IsTop(u) => source.parent[u] \in Units /\ phase[source.parent[u]] = "body"
      BY <3>1 DEF WalkInv, IsTop, Named
    <3>5. ASSUME NEW v \in Units, phase'[v] \in {"early", "body"}, ~IsTop(v)
          PROVE  phase'[source.parent[v]] = "body"
      <4>1. source.parent[v] \in Units
        BY <3>5 DEF TypeOK, Trees, IsTop
      <4> QED
        BY <3>2, <3>3, <3>4, <3>5, <4>1 DEF WalkInv, Named
    <3>6. at' \in Units => phase'[at'] \in {"early", "body"}
      BY <3>2, <3>3, <3>4, ConstantsAssumption DEF IsTop, Named
    <3> QED
      BY <1>a, <3>5, <3>6 DEF WalkInv
  <2>6. TopInv'
    <3>1. phase' = [phase EXCEPT ![u] = "left"] /\ at' = source.parent[u] /\ at = u
      BY DEF Named
    <3>2. current_top_node' = Around(u)
      BY <3>1 DEF TopInv, Named
    <3>3. at' \in Units => phase'[at'] = "body"
      BY <3>1, ConstantsAssumption DEF WalkInv, Named, IsTop, TypeOK, Trees
    <3> QED
      BY <1>c, <3>1, <3>2, <3>3
  <2>7. NodesInv'
    BY DEF NodesInv
  <2> QED
    BY <2>1, <2>2, <2>3, <2>4, <2>5, <2>6, <2>7
<1>6. ASSUME NEW u \in Units, Register(u) PROVE IInv'
  <2> USE <1>6 DEF Register
  <2>1. TypeOK'
    BY NameType DEF TypeOK, Trees
  <2>2. NamesInv'
    BY <1>a DEF NamesInv, TypeOK
  <2>3. CellsInv'
    BY <1>a DEF CellsInv
  <2>4. UsesInv'
    BY <1>a, TypedefsStay DEF UsesInv
  <2>5. WalkInv'
    <3>1. source.parent[u] \in Units \cup {NoUnit} /\ phase \in [Units -> {"new", "early", "body", "left"}]
      BY DEF TypeOK, Trees
    <3>2. \A v \in Units : v # u => phase'[v] = phase[v]
      BY <3>1
    <3>3. phase'[u] = "body" /\ at' = u
      BY <3>1 DEF Named
    <3>4. ~IsTop(u) => source.parent[u] \in Units /\ phase[source.parent[u]] = "body"
      BY <3>1 DEF WalkInv, IsTop, Named
    <3>5. ASSUME NEW v \in Units, phase'[v] \in {"early", "body"}, ~IsTop(v)
          PROVE  phase'[source.parent[v]] = "body"
      <4>1. source.parent[v] \in Units
        BY <3>5 DEF TypeOK, Trees, IsTop
      <4> QED
        BY <3>2, <3>3, <3>4, <3>5, <4>1 DEF WalkInv, Named
    <3>6. at' \in Units => phase'[at'] \in {"early", "body"}
      BY <3>2, <3>3, <3>4, ConstantsAssumption DEF IsTop, Named
    <3> QED
      BY <1>a, <3>5, <3>6 DEF WalkInv
  <2>6. TopInv'
    <3>1. phase' = [phase EXCEPT ![u] = "body"] /\ at' = u /\ phase[u] = "early" /\ at = u
      BY DEF Named
    <3>2. current_top_node' = NameOf(u) /\ saved' = [saved EXCEPT ![u] = Around(u)]
      BY <3>1 DEF TopInv
    <3> QED
      BY <1>a, <3>1, <3>2, ConstantsAssumption DEF TopInv, TypeOK
  <2>7. NodesInv'
    BY DEF NodesInv
  <2> QED
    BY <2>1, <2>2, <2>3, <2>4, <2>5, <2>6, <2>7
<1>7. ASSUME NEW u \in Units, Leave(u) PROVE IInv'
  <2> USE <1>7 DEF Leave, Finished
  <2>1. TypeOK'
    <3>1. source.parent[u] \in Units \cup {NoUnit}
      BY DEF TypeOK, Trees
    <3> QED
      BY <3>1, NameType DEF TypeOK, Cell
  <2>2. NamesInv'
    BY <1>a DEF NamesInv, TypeOK
  <2>3. CellsInv'
    BY <1>a DEF CellsInv, NamesInv, Cell
  <2>4. UsesInv'
    BY <1>a, TypedefsStay DEF UsesInv
  <2>5. WalkInv'
    <3>1. source.parent[u] \in Units \cup {NoUnit} /\ phase \in [Units -> {"new", "early", "body", "left"}]
      BY DEF TypeOK, Trees
    <3>2. \A v \in Units : v # u => phase'[v] = phase[v]
      BY <3>1
    <3>3. phase'[u] = "left" /\ at' = source.parent[u]
      BY <3>1
    <3>4. ~IsTop(u) => source.parent[u] \in Units /\ phase[source.parent[u]] = "body"
      BY <3>1 DEF WalkInv, IsTop, Named
    <3>5. ASSUME NEW v \in Units, phase'[v] \in {"early", "body"}, ~IsTop(v)
          PROVE  phase'[source.parent[v]] = "body"
      <4>1. source.parent[v] \in Units
        BY <3>5 DEF TypeOK, Trees, IsTop
      <4> QED
        BY <3>2, <3>3, <3>4, <3>5, <4>1 DEF WalkInv, Named
    <3>6. at' \in Units => phase'[at'] \in {"early", "body"}
      BY <3>2, <3>3, <3>4, ConstantsAssumption DEF IsTop, Named
    <3> QED
      BY <1>a, <3>5, <3>6 DEF WalkInv
  <2>6. TopInv'
    <3>1. phase' = [phase EXCEPT ![u] = "left"] /\ at' = source.parent[u] /\ at = u
      BY DEF Leave
    <3>2. current_top_node' = Around(u)
      BY <3>1 DEF TopInv
    <3>3. at' \in Units => phase'[at'] = "body"
      BY <3>1, ConstantsAssumption DEF WalkInv, IsTop, TypeOK, Trees
    <3> QED
      BY <1>c, <3>1, <3>2, <3>3
  <2>7. NodesInv'
    BY DEF NodesInv
  <2> QED
    BY <2>1, <2>2, <2>3, <2>4, <2>5, <2>6, <2>7
<1>8. CASE UNCHANGED vars
  <2> USE <1>8 DEF vars, tops
  <2>1. TypeOK'
    BY DEF TypeOK
  <2>2. WalkInv' /\ TopInv' /\ NodesInv'
    BY <1>a DEF WalkInv, TopInv, NodesInv
  <2>3. NamesInv' /\ CellsInv'
    BY <1>a DEF NamesInv, CellsInv
  <2>4. UsesInv'
    BY <1>a, TypedefsStay DEF UsesInv, Unparametrized
  <2> QED
    BY <2>1, <2>2, <2>3, <2>4
<1> QED
  BY <1>1, <1>2, <1>3, <1>4, <1>5, <1>6, <1>7, <1>8 DEF Next

\* The type invariant, and the names behind the two properties below.
THEOREM ElaborationInvariant == Spec => []IInv
BY InitInv, StepInv, PTL DEF Spec

\* Type correctness of the walk, for every tree.
THEOREM TypeCorrect == Spec => []TypeOK
<1>1. IInv => TypeOK
  BY DEF IInv
<1> QED
  BY <1>1, ElaborationInvariant, PTL

\* A cell always names a module made from an instance of the same definition
\* with the same parameters, however many instances were skipped, for every
\* tree and every rule for hashed names.
THEOREM FaithfulCells == Spec => []CellsAreFaithful
<1>1. IInv => CellsAreFaithful
  <2> SUFFICES ASSUME IInv, NEW c \in cells, source.def[c.unit] \notin Undefined
               PROVE  /\ c.module \in DOMAIN top_nodes
                      /\ SameModule(c.unit, top_nodes[c.module])
    BY DEF CellsAreFaithful
  <2>1. /\ c.module = NameOf(c.unit)
        /\ c.module \in DOMAIN top_nodes
    BY DEF IInv, CellsInv
  <2>2. NameOf(top_nodes[c.module]) = c.module
    BY <2>1 DEF IInv, NamesInv
  <2>3. c.unit \in Units /\ top_nodes[c.module] \in Units
    BY <2>1 DEF IInv, TypeOK
  <2> QED
    BY <2>1, <2>2, <2>3, NamesTellModulesApart DEF IInv
<1> QED
  BY <1>1, ElaborationInvariant, PTL

\* A variable of an anonymous enum names a typedef that is in scope when its
\* module is simplified: that of the module itself, wherever the walk was in
\* between, or one of the package.  It holds for every tree, except for
\* typedefs met before a module below the top is registered and for hashed
\* names with an unparametrized module beside them.
THEOREM ResolvedVariables == Spec => []VariablesResolve
<1>1. IInv => VariablesResolve
  <2> SUFFICES ASSUME IInv, NEW n \in DOMAIN top_nodes, NEW use \in uses[top_nodes[n]],
                      use.phase = "early" => IsTop(top_nodes[n]), ~MayUseOther(n)
               PROVE  DefinedIn(use.id, InScope(n))
    BY DEF VariablesResolve
  <2>1. top_nodes[n] \in Units /\ NameOf(top_nodes[n]) = n
    BY DEF IInv, TypeOK, NamesInv
  <2>2. use.phase \in {"early", "body"}
    BY <2>1 DEF IInv, TypeOK
  <2>3. CASE use.phase = "early"
    BY <2>1, <2>3 DEF IInv, UsesInv, DefinedIn, InScope
  <2>4. CASE use.phase = "body"
    <3>1. PICK t \in typedefs : t.id = use.id /\ t.node \in {n, Unparametrized(n)}
      BY <2>1, <2>4 DEF IInv, UsesInv, DefinedIn
    <3>2. t.node \in DOMAIN top_nodes \cup {PackageName}
      BY DEF IInv, NodesInv
    <3>3. t.node \in {n, PackageName}
      BY <3>1, <3>2 DEF Unparametrized, MayUseOther
    <3> QED
      BY <3>1, <3>3 DEF DefinedIn, InScope
  <2> QED
    BY <2>2, <2>3, <2>4
<1> QED
  BY <1>1, ElaborationInvariant, PTL

------------------------------------------------------------------------------
(* Every parameterization has its module                                   *)

\* An instance that was left has its module, and all below an instance that
\* became a module were left before it.
LeftInv ==
    /\ \A u \in Units : phase[u] = "left" /\ source.def[u] \notin Undefined => NameOf(u) \in DOMAIN top_nodes
    /\ \A n \in DOMAIN top_nodes :
          /\ phase[top_nodes[n]] \in {"body", "left"}
          /\ phase[top_nodes[n]] = "left" =>
                \A v \in Units : source.parent[v] = top_nodes[n] => phase[v] = "left"

LEMMA InitLeft == Init => LeftInv
BY DEF Init, LeftInv

\* What was left stays left, and only Leave ends the body of a module.
LEMMA NextLeft == IInv /\ LeftInv /\ [Next]_vars => LeftInv'
<1> SUFFICES ASSUME IInv, LeftInv, [Next]_vars PROVE LeftInv'
  OBVIOUS
<1>a. /\ phase \in [Units -> {"new", "early", "body", "left"}]
      /\ \A n \in DOMAIN top_nodes : top_nodes[n] \in Units
  BY DEF IInv, TypeOK
<1>b. ASSUME source' = source
      PROVE  \A u : NameOf(u)' = NameOf(u)
  BY <1>b DEF NameOf, IsTop
<1>c. ASSUME NEW u \in Units, phase[u] \in {"new", "early"}, \A v \in Units : v # u => phase'[v] = phase[v],
             phase'[u] = "left" /\ source.def[u] \notin Undefined => NameOf(u) \in DOMAIN top_nodes,
             UNCHANGED <<source, top_nodes>>
      PROVE  LeftInv'
  <2>1. \A n \in DOMAIN top_nodes : top_nodes[n] # u
    BY <1>c DEF LeftInv
  <2>2. \A v \in Units : phase[v] = "left" => phase'[v] = "left"
    BY <1>a, <1>c
  <2> QED
    BY <1>a, <1>b, <1>c, <2>1, <2>2 DEF LeftInv
<1>1. ASSUME NEW u \in Units, NEW enum \in Enums, VisitEnum(u, enum) PROVE LeftInv'
  BY <1>1, <1>b DEF VisitEnum, tops, LeftInv
<1>2. ASSUME NEW u \in Units, StartTop(u) \/ Instantiate(u) PROVE LeftInv'
  <2>1. /\ phase[u] = "new" /\ phase'[u] = "early"
        /\ \A v \in Units : v # u => phase'[v] = phase[v]
        /\ UNCHANGED <<source, top_nodes>>
    BY <1>a, <1>2 DEF StartTop, Instantiate, Below, Enter, tops
  <2> QED
    BY <2>1, <1>c
<1>3. ASSUME NEW u \in Units, InstantiateUndefined(u) PROVE LeftInv'
  <2>1. /\ phase[u] = "new" /\ source.def[u] \in Undefined
        /\ \A v \in Units : v # u => phase'[v] = phase[v]
        /\ UNCHANGED <<source, top_nodes>>
    BY <1>a, <1>3 DEF InstantiateUndefined, Below, tops
  <2> QED
    BY <2>1, <1>c
<1>4. ASSUME NEW u \in Units, Reuse(u) PROVE LeftInv'
  <2>1. /\ phase[u] = "early" /\ NameOf(u) \in DOMAIN top_nodes
        /\ \A v \in Units : v # u => phase'[v] = phase[v]
        /\ UNCHANGED <<source, top_nodes>>
    BY <1>a, <1>4 DEF Reuse, Named, tops
  <2> QED
    BY <2>1, <1>c
<1>5. ASSUME NEW u \in Units, Register(u) PROVE LeftInv'
  <2>1. /\ top_nodes' = [n \in DOMAIN top_nodes \cup {NameOf(u)} |->
                            IF n = NameOf(u) THEN u ELSE top_nodes[n]]
        /\ phase[u] = "early" /\ phase' = [phase EXCEPT ![u] = "body"] /\ source' = source
    BY <1>5 DEF Register, Named
  <2>2. \A n \in DOMAIN top_nodes : top_nodes[n] # u
    BY <2>1 DEF LeftInv
  <2>3. \A v \in Units : phase'[v] = "left" <=> phase[v] = "left"
    BY <1>a, <2>1
  <2> QED
    BY <1>a, <1>b, <2>1, <2>2, <2>3 DEF LeftInv
<1>6. ASSUME NEW u \in Units, Leave(u) PROVE LeftInv'
  <2>1. /\ phase[u] = "body" /\ phase' = [phase EXCEPT ![u] = "left"]
        /\ \A v \in Units : source.parent[v] = u => phase[v] = "left"
        /\ UNCHANGED <<source, top_nodes>>
    BY <1>6 DEF Leave, Finished
  <2>2. NameOf(u) \in DOMAIN top_nodes
    BY <2>1 DEF IInv, NamesInv
  <2>3. \A v \in Units : phase'[v] = IF v = u THEN "left" ELSE phase[v]
    BY <1>a, <2>1
  <2> QED
    BY <1>a, <1>b, <2>1, <2>2, <2>3 DEF LeftInv
<1>7. CASE UNCHANGED vars
  BY <1>7, <1>b DEF vars, tops, LeftInv
<1> QED
  BY <1>1, <1>2, <1>3, <1>4, <1>5, <1>6, <1>7 DEF Next

\* In the end no instance is half visited: the topmost that were would be in a
\* body that is visited, or be a top module.
LEMMA NoneHalfVisited ==
    ASSUME IInv, Done
    PROVE  \A u \in Units : phase[u] \in {"new", "left"}
<1> DEFINE half == {u \in Units : phase[u] \in {"early", "body"}}
<1> SUFFICES ASSUME NEW w \in Units, phase[w] \notin {"new", "left"}
             PROVE  FALSE
  OBVIOUS
<1>0. w \in half
  BY DEF IInv, TypeOK
<1>1. PICK u \in half : source.parent[u] \notin half
  BY <1>0, ConstantsAssumption DEF IInv, IsTree
<1>2. ~IsTop(u)
  BY DEF Done
<1>3. source.parent[u] \in Units
  BY <1>2 DEF IInv, TypeOK, Trees, IsTop
<1> QED
  BY <1>1, <1>2, <1>3 DEF IInv, WalkInv

\* Below an instance that has a module each has one too: the instance its
\* module was made from has the same instances below it, and they were left.
LEMMA ModuleBelow ==
    ASSUME IInv, LeftInv, Done, NEW u \in Units, ~IsTop(u), source.def[u] \notin Undefined,
           NEW n \in DOMAIN top_nodes, SameModule(source.parent[u], top_nodes[n])
    PROVE  \E k \in DOMAIN top_nodes : SameModule(u, top_nodes[k])
<1> DEFINE p == source.parent[u]
           v == top_nodes[n]
<1>1. Consistent(source)
  BY ConstantsAssumption DEF IInv
<1>2. p \in Units /\ v \in Units
  BY DEF IInv, TypeOK, Trees, IsTop
<1>3. phase[v] = "left"
  BY <1>2, NoneHalfVisited DEF LeftInv
<1>4. source.def[p] = source.def[v] /\ source.params[p] = source.params[v]
  <2>1. source.def[p] \notin Boxed
    BY <1>1, <1>2 DEF Consistent
  <2> QED
    BY <2>1 DEF SameModule
<1>5. PICK d \in Units : source.parent[d] = v /\ source.def[d] = source.def[u] /\ source.params[d] = source.params[u]
  BY <1>1, <1>2, <1>4 DEF Consistent
<1>6. phase[d] = "left"
  BY <1>3, <1>5 DEF LeftInv
<1>7. NameOf(d) \in DOMAIN top_nodes
  BY <1>5, <1>6 DEF LeftInv
<1>8. top_nodes[NameOf(d)] \in Units /\ NameOf(top_nodes[NameOf(d)]) = NameOf(d)
  BY <1>7 DEF IInv, TypeOK, NamesInv
<1>9. SameModule(d, top_nodes[NameOf(d)])
  BY <1>8, NamesTellModulesApart DEF IInv
<1> QED
  BY <1>5, <1>7, <1>9 DEF SameModule

\* No instance is without a module: of those that were, one would be a top
\* module or below an instance that has one.
LEMMA NoneMissing == IInv /\ LeftInv => EveryModuleMade
<1> DEFINE Made(u) == \E n \in DOMAIN top_nodes : SameModule(u, top_nodes[n])
           missing == {u \in Units : source.def[u] \notin Undefined /\ ~Made(u)}
<1> SUFFICES ASSUME IInv, LeftInv, Done, missing # {}
             PROVE  FALSE
  BY DEF EveryModuleMade
<1>1. PICK u \in missing : source.parent[u] \notin missing
  BY ConstantsAssumption DEF IInv, IsTree
<1>2. CASE IsTop(u)
  <2>1. NameOf(u) \in DOMAIN top_nodes
    BY <1>2 DEF Done, LeftInv
  <2>2. top_nodes[NameOf(u)] \in Units /\ NameOf(top_nodes[NameOf(u)]) = NameOf(u)
    BY <2>1 DEF IInv, TypeOK, NamesInv
  <2>3. SameModule(u, top_nodes[NameOf(u)])
    BY <2>2, NamesTellModulesApart DEF IInv
  <2> QED
    BY <2>1, <2>3
<1>3. CASE ~IsTop(u)
  <2>1. source.parent[u] \in Units
    BY <1>3 DEF IInv, TypeOK, Trees, IsTop
  <2>2. source.def[source.parent[u]] \notin Undefined
    BY <2>1, ConstantsAssumption DEF IInv, Consistent
  <2>3. PICK n \in DOMAIN top_nodes : SameModule(source.parent[u], top_nodes[n])
    BY <1>1, <2>1, <2>2
  <2> QED
    BY <1>3, <2>3, ModuleBelow
<1> QED
  BY <1>2, <1>3

\* Although nothing below a repeated instance is visited, in the end every
\* definition has a module for each of its parameterizations, for every tree
\* in which equal instances have equal instances below them.
THEOREM NoModuleIsMissing == Spec => []EveryModuleMade
<1>1. Spec => []LeftInv
  BY InitLeft, NextLeft, ElaborationInvariant, PTL DEF Spec
<1> QED
  BY <1>1, ElaborationInvariant, NoneMissing, PTL
==============================================================================
