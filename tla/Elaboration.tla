----------------------------- MODULE Elaboration -----------------------------
(***************************************************************************)
(* How UhdmAst turns the tree of module instances that Surelog elaborated  *)
(* into one AST module per parameterization: process_design,               *)
(* process_module, and the typedefs process_enum_typespec makes for        *)
(* anonymous enums.  The tree is walked in depth; an instance whose module *)
(* is already in shared.top_nodes only becomes a cell.                     *)
(*                                                                         *)
(* A unit is one instance in Surelog's tree.  Of its contents the model    *)
(* keeps the instances below it and the anonymous enums: those in typedefs, *)
(* met before the module is registered, those in variables, nets and       *)
(* ports, met after it, and those in functions, met twice.  Enums that     *)
(* compare equal are one value.  Interfaces, primitives and named types    *)
(* are left out.                                                           *)
(***************************************************************************)
EXTENDS Integers, FiniteSets

CONSTANTS
    Units, Defs, Params, Enums,
    NoUnit,      \* no instance: the design itself
    NoParams,    \* the module has no parameter that is part of its name
    Package,     \* the name of the package visited last
    Boxed,       \* definitions with the attribute `blackbox`
    Undefined,   \* definitions Surelog does not know
    Hashed,      \* parameters that make the name too long to be spelled out
    Sources      \* the trees Surelog may deliver

\* What Surelog's elaboration guarantees: instances of one definition have the
\* same parameters, those with the same values have the same instances below
\* them, boxes have none, and a top module is not instantiated without
\* parameters (only several -top options could make one that is).
Consistent(s) ==
    \A u, v \in Units : s.def[u] = s.def[v] =>
        /\ s.params[u] = NoParams <=> s.params[v] = NoParams
        /\ s.params[u] = s.params[v] =>
              \A c \in Units : s.parent[c] = u =>
                  \E d \in Units : s.parent[d] = v /\ s.def[d] = s.def[c] /\ s.params[d] = s.params[c]
        /\ s.parent[u] = NoUnit /\ s.parent[v] # NoUnit =>
              s.params[v] # NoParams /\ s.def[v] \notin Boxed
        /\ s.parent[u] = NoUnit /\ s.parent[v] = NoUnit => u = v
        /\ s.parent[u] = NoUnit => s.def[u] \notin Undefined
        /\ s.def[u] \in Boxed \cup Undefined => \A c \in Units : s.parent[c] # u

Trees ==
    [parent : [Units -> Units \cup {NoUnit}], def : [Units -> Defs],
     params : [Units -> Params \cup {NoParams}],
     types : [Units -> SUBSET Enums],   \* enums in typedefs
     funcs : [Units -> SUBSET Enums],   \* in functions
     vars : [Units -> SUBSET Enums]]    \* in variables, nets and ports

\* No instance is below itself: every set of instances has one that is not
\* directly below another of the set.
IsTree(s) == \A below \in SUBSET Units : below # {} => \E u \in below : s.parent[u] \notin below

ASSUME ConstantsAssumption ==
    /\ NoUnit \notin Units
    /\ NoParams \notin Params
    /\ Sources \subseteq Trees
    /\ \A s \in Sources : Consistent(s) /\ IsTree(s)

VARIABLES
    source,     \* the tree
    at,         \* the instance process_module works on
    phase,      \* of each instance: "new", "early", "body" or "left"
    todo,       \* anonymous enums it has still to meet before or after that
    current_top_node,  \* name of the module or package new typedefs go to
    saved,      \* of each instance: the name its ScopedValueChanger puts back
    top_nodes,  \* name of a module |-> the instance it was made from
    typedefs,   \* typedefs of anonymous enums: [node, enum, id]
    next_id,    \* next_anonymous_enum_typedef_id
    uses,       \* typedefs named by what was made of an instance: [id, phase]
    cells       \* the cells made: instance and name of its module

tops == <<top_nodes, current_top_node, saved>>
vars == <<source, at, phase, todo, tops, typedefs, next_id, uses, cells>>

Plain(def) == [def |-> def, form |-> "plain", params |-> NoParams]
PackageName == Plain(Package)

\* Mutant: a package puts back what current_top_node was, like a module.
FirstTop_Unset == NoUnit

\* What shared.current_top_node is when no module is visited: process_package
\* leaves its package there.
FirstTop == PackageName

Init ==
    /\ source \in Sources
    /\ at = NoUnit
    /\ phase = [u \in Units |-> "new"]
    /\ todo = [u \in Units |-> {}]
    /\ top_nodes = <<>>
    /\ current_top_node = FirstTop
    /\ saved = [u \in Units |-> FirstTop]
    /\ typedefs = {}
    /\ next_id = 0
    /\ uses = [u \in Units |-> {}]
    /\ cells = {}

------------------------------------------------------------------------------
(* Names of modules *)

\* Mutant: the name says that there are parameters, not their values.
Derived_Cut(def, params) == [def |-> def, form |-> "listed", params |-> NoParams]

\* AST::derived_module_name: $paramod\def\P=V or, if that is too long,
\* $paramod$hash\def.
Derived(def, params) ==
    [def |-> def, form |-> IF params \in Hashed THEN "hashed" ELSE "listed", params |-> params]

IsTop(u) == source.parent[u] = NoUnit

NameOf(u) ==
    IF IsTop(u) \/ source.params[u] = NoParams \/ source.def[u] \in Boxed
    THEN Plain(source.def[u]) ELSE Derived(source.def[u], source.params[u])

------------------------------------------------------------------------------
(* Anonymous enums *)

\* The second name looked up.  `params` at line 2814 is a truth value, so the
\* spelled-out form is cut down to "\", a name no module has.
Unparametrized(name) == IF name.form = "hashed" THEN Plain(name.def) ELSE name

Known(name, enum) == {t \in typedefs : t.node = name /\ t.enum = enum}

\* What check_created_anonymous_enums finds, in the module or else in the
\* unparametrized one.
Found(name, enum) ==
    IF Known(name, enum) # {} THEN Known(name, enum) ELSE Known(Unparametrized(name), enum)

\* The first visit of the functions is for nothing: the second replaces them.
Use(u, enum, id) ==
    IF phase[u] = "early" /\ enum \notin source.types[u] THEN {} ELSE {[id |-> id, phase |-> phase[u]]}

VisitEnum(u, enum) ==
    /\ at = u
    /\ enum \in todo[u]
    /\ todo' = [todo EXCEPT ![u] = @ \ {enum}]
    /\ \/ \E t \in Found(current_top_node, enum) :
             /\ uses' = [uses EXCEPT ![u] = @ \cup Use(u, enum, t.id)]
             /\ UNCHANGED <<typedefs, next_id>>
       \/ /\ Found(current_top_node, enum) = {}
          /\ typedefs' = typedefs \cup
                {[node |-> current_top_node, enum |-> enum, id |-> next_id]}
          /\ uses' = [uses EXCEPT ![u] = @ \cup Use(u, enum, next_id)]
          /\ next_id' = next_id + 1
    /\ UNCHANGED <<source, at, phase, tops, cells>>

------------------------------------------------------------------------------
(* process_design and process_module *)

Enter(u) ==
    /\ at' = u
    /\ phase' = [phase EXCEPT ![u] = "early"]
    /\ todo' = [todo EXCEPT ![u] = source.types[u] \cup source.funcs[u]]

StartTop(u) ==
    /\ at = NoUnit
    /\ IsTop(u)
    /\ phase[u] = "new"
    /\ Enter(u)
    /\ UNCHANGED <<source, tops, typedefs, next_id, uses, cells>>

Below(u) ==
    /\ at \in Units
    /\ at = source.parent[u]
    /\ phase[at] = "body"
    /\ phase[u] = "new"

Instantiate(u) ==
    /\ Below(u)
    /\ source.def[u] \notin Undefined
    /\ Enter(u)
    /\ UNCHANGED <<source, tops, typedefs, next_id, uses, cells>>

Cell(u, name) == [unit |-> u, module |-> name]

\* A cell with its parameters, of a module nobody makes.
InstantiateUndefined(u) ==
    /\ Below(u)
    /\ source.def[u] \in Undefined
    /\ phase' = [phase EXCEPT ![u] = "left"]
    /\ cells' = cells \cup {Cell(u, Plain(source.def[u]))}
    /\ UNCHANGED <<source, at, todo, tops, typedefs, next_id, uses>>

Named(u) == at = u /\ phase[u] = "early" /\ todo[u] = {}

\* Mutant: any module of the same definition will do.
Reuse_ByDef(u) ==
    /\ Named(u)
    /\ ~IsTop(u)
    /\ \E n \in DOMAIN top_nodes : n.def = source.def[u]
    /\ phase' = [phase EXCEPT ![u] = "left"]
    /\ uses' = [uses EXCEPT ![u] = {}]
    /\ cells' = cells \cup {Cell(u, NameOf(u))}
    /\ at' = source.parent[u]
    /\ UNCHANGED <<source, todo, tops, typedefs, next_id>>

\* The module is there already: what was made of this one is deleted.
Reuse(u) ==
    /\ Named(u)
    /\ ~IsTop(u)
    /\ NameOf(u) \in DOMAIN top_nodes
    /\ phase' = [phase EXCEPT ![u] = "left"]
    /\ uses' = [uses EXCEPT ![u] = {}]
    /\ cells' = cells \cup {Cell(u, NameOf(u))}
    /\ at' = source.parent[u]
    /\ UNCHANGED <<source, todo, tops, typedefs, next_id>>

\* A top module takes its name even from a module that has it.  Only now do
\* typedefs go to the module itself; what was met before went to the module
\* around it.
Register(u) ==
    /\ Named(u)
    /\ IsTop(u) \/ NameOf(u) \notin DOMAIN top_nodes
    /\ top_nodes' = [n \in DOMAIN top_nodes \cup {NameOf(u)} |->
                        IF n = NameOf(u) THEN u ELSE top_nodes[n]]
    /\ current_top_node' = NameOf(u)
    /\ saved' = [saved EXCEPT ![u] = current_top_node]
    /\ phase' = [phase EXCEPT ![u] = "body"]
    /\ todo' = [todo EXCEPT ![u] = source.vars[u] \cup source.funcs[u]]
    /\ UNCHANGED <<source, at, typedefs, next_id, uses, cells>>

Finished(u) ==
    /\ at = u
    /\ phase[u] = "body"
    /\ todo[u] = {}
    /\ \A v \in Units : source.parent[v] = u => phase[v] = "left"

\* Mutant: current_top_node is assigned, as process_package does, and stays.
Leave_TopStays(u) ==
    /\ Finished(u)
    /\ phase' = [phase EXCEPT ![u] = "left"]
    /\ cells' = IF IsTop(u) THEN cells ELSE cells \cup {Cell(u, NameOf(u))}
    /\ at' = source.parent[u]
    /\ UNCHANGED <<source, todo, tops, typedefs, next_id, uses>>

Leave(u) ==
    /\ Finished(u)
    /\ phase' = [phase EXCEPT ![u] = "left"]
    /\ cells' = IF IsTop(u) THEN cells ELSE cells \cup {Cell(u, NameOf(u))}
    /\ current_top_node' = saved[u]
    /\ at' = source.parent[u]
    /\ UNCHANGED <<source, todo, top_nodes, saved, typedefs, next_id, uses>>

Next ==
    \E u \in Units :
        \/ \E enum \in Enums : VisitEnum(u, enum)
        \/ StartTop(u) \/ Instantiate(u) \/ InstantiateUndefined(u)
        \/ Reuse(u) \/ Register(u) \/ Leave(u)

Spec == Init /\ [][Next]_vars

Done == at = NoUnit /\ \A u \in Units : IsTop(u) => phase[u] = "left"

------------------------------------------------------------------------------
Names == [def : Defs \cup {Package}, form : {"plain", "listed", "hashed"},
          params : Params \cup {NoParams}]

TypeOK ==
    /\ source \in Trees
    /\ at \in Units \cup {NoUnit}
    /\ phase \in [Units -> {"new", "early", "body", "left"}]
    /\ todo \in [Units -> SUBSET Enums]
    /\ DOMAIN top_nodes \subseteq Names
    /\ \A n \in DOMAIN top_nodes : top_nodes[n] \in Units
    /\ current_top_node \in Names
    /\ saved \in [Units -> Names]
    /\ typedefs \subseteq [node : Names, enum : Enums, id : Nat]
    /\ next_id \in Nat
    /\ uses \in [Units -> SUBSET [id : Nat, phase : {"early", "body"}]]
    /\ cells \subseteq [unit : Units, module : Names]

\* A blackbox has one module whatever its parameters are.
SameModule(u, v) ==
    /\ source.def[u] = source.def[v]
    /\ source.def[u] \in Boxed \/ source.params[u] = source.params[v]

\* Whatever was visited before, a cell names a module that exists and that was
\* made from an instance of the same definition with the same parameters.
CellsAreFaithful ==
    \A c \in cells :
        \/ source.def[c.unit] \in Undefined
        \/ /\ c.module \in DOMAIN top_nodes
           /\ SameModule(c.unit, top_nodes[c.module])

\* Although nothing below an instance of a module that exists is visited, in
\* the end every definition has a module for each of its parameterizations.
EveryModuleMade ==
    Done => \A u \in Units : source.def[u] \notin Undefined =>
                \E n \in DOMAIN top_nodes : SameModule(u, top_nodes[n])

DefinedIn(id, names) == \E t \in typedefs : t.id = id /\ t.node \in names

\* The nodes whose typedefs setup_current_scope makes known to the module when
\* it is simplified.
InScope(n) == {n, PackageName}

\* check_created_anonymous_enums may have answered with the typedef of the
\* unparametrized module.
MayUseOther(n) == n.form = "hashed" /\ Plain(n.def) \in DOMAIN top_nodes

\* A variable of an anonymous enum names a typedef that is in scope when its
\* module is simplified, not one put into another module the walk was in
\* before or came back from.  Left out are the two cases in which the code
\* does not see to it: typedefs met before a module below the top is
\* registered, and hashed names with an unparametrized module beside them.
VariablesResolve ==
    \A n \in DOMAIN top_nodes : \A use \in uses[top_nodes[n]] :
        \/ use.phase = "early" /\ ~IsTop(top_nodes[n])
        \/ MayUseOther(n)
        \/ DefinedIn(use.id, InScope(n))
==============================================================================
