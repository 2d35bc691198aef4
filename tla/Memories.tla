------------------------------- MODULE Memories -------------------------------
(***************************************************************************)
(* check_memories: which of the arrays with one packed and one unpacked    *)
(* range are turned into bits, because something accesses them as a whole  *)
(* or by a slice, which an AST_MEMORY has no way to do.                    *)
(*                                                                         *)
(* A module is the sequence of the nodes the walk of its tree looks at, in *)
(* the order of the walk.  The path of a node is the sequence of what is   *)
(* around it, <<kind, name>> with the kind "generate", "function" or       *)
(* "block"; a task is a "block", for the walk sees neither.                *)
(***************************************************************************)
EXTENDS Naturals, Sequences

\* Only generate blocks are around generate blocks and functions.
Path == {p \in Seq({"generate", "function", "block"} \X STRING) :
            \A i, j \in DOMAIN p : i < j /\ p[j][1] # "block" => p[i][1] = "generate"}

\* `memory`: the wire has one range of each kind.
WireNode == [type : {"wire"}, id : Nat, str : STRING, path : Path, memory : BOOLEAN]
IdentifierNode == [type : {"identifier"}, str : STRING, path : Path,
                   index : {"whole", "slice", "element"}]
ReadmemhNode == [type : {"$readmemh"}, str : STRING, path : Path]
MemoryNode == WireNode \cup IdentifierNode \cup ReadmemhNode

IsPrefixOf(p, q) == Len(p) <= Len(q) /\ SubSeq(q, 1, Len(p)) = p

\* A scope has one wire of a name, which the walk meets before what uses it; but
\* the functions and tasks of the module come before its wires (process_module).
ModuleNodes ==
    {nodes \in Seq(MemoryNode) :
        \A i, j \in DOMAIN nodes : nodes[j].type = "wire" =>
            IF nodes[i].type = "wire"
            THEN i # j => /\ nodes[i].id # nodes[j].id
                          /\ <<nodes[i].path, nodes[i].str>> # <<nodes[j].path, nodes[j].str>>
            ELSE i < j /\ IsPrefixOf(nodes[j].path, nodes[i].path) =>
                    /\ nodes[j].path = <<>>
                    /\ nodes[i].path # <<>> /\ nodes[i].path[1][1] # "generate"}

\* The walk extends its scope at generate blocks only, and has a table of
\* memories of its own in each function.
Scope(path) ==
    SubSeq(path, 1, CHOOSE n \in 0 .. Len(path) :
                        \A i \in DOMAIN path : path[i][1] = "generate" <=> i <= n)
Table(path) ==
    LET at == {i \in DOMAIN path : path[i][1] = "function"}
    IN  IF at = {} THEN <<>> ELSE SubSeq(path, 1, CHOOSE i \in at : \A j \in at : j <= i)
Key(n) == <<Table(n.path), Scope(n.path), n.str>>

\* What the walk has found: the memories seen, those that something accesses
\* as a whole, those of a $readmemh, and whether two have had the same key.
Nothing == [seen |-> {}, forced |-> {}, kept |-> {}, collided |-> FALSE]

\* The memories in a table that have the name, n scopes down from the top.
InScope(seen, node, n) ==
    {w \in seen : Key(w) = <<Table(node.path), SubSeq(Scope(node.path), 1, n), node.str>>}

\* Mutant: outer scopes are not searched.
Found_OwnScope(seen, node) == InScope(seen, node, Len(Scope(node.path)))

\* The memory of the innermost scope that has one of the name.
Found(seen, node) ==
    LET has == {n \in 0 .. Len(Scope(node.path)) : InScope(seen, node, n) # {}}
    IN  IF has = {} THEN {} ELSE InScope(seen, node, CHOOSE n \in has : \A m \in has : m <= n)

\* add_force_convert_attribute(memory, 1)
ForceConversion(walk, node) == [walk EXCEPT !.forced = @ \cup {w.id : w \in Found(walk.seen, node)}]

\* The memory a $readmemh fills is an operand of it, visited before: it is
\* forced, and then kept if it has the very scope of the call.
Visit(walk, node) ==
    CASE node.type = "wire" ->
            IF node.memory
            THEN [walk EXCEPT !.collided = @ \/ \E w \in walk.seen : Key(w) = Key(node),
                              !.seen = {w \in @ : Key(w) # Key(node)} \cup {node}]
            ELSE walk
      [] node.type = "identifier" -> IF node.index = "element" THEN walk ELSE ForceConversion(walk, node)
      [] node.type = "$readmemh" ->
            [ForceConversion(walk, node) EXCEPT !.kept = @ \cup {w.id : w \in {v \in walk.seen : Key(v) = Key(node)}}]

CheckMemories(nodes) ==
    LET after[n \in 0 .. Len(nodes)] == IF n = 0 THEN Nothing ELSE Visit(after[n - 1], nodes[n])
    IN  after[Len(nodes)]

\* The attribute force_convert of a wire after the walk.
ForceConvert(nodes, id) == LET walk == CheckMemories(nodes) IN id \in walk.forced \ walk.kept

\* The walk ends the program on a second memory with the same key.
Collides(nodes) == CheckMemories(nodes).collided

-----------------------------------------------------------------------------
(* The language: a name stands for the wire of the innermost path around it. *)

Denotes(node, wire, nodes) ==
    LET visible == {i \in DOMAIN nodes : /\ nodes[i].type = "wire" /\ nodes[i].str = node.str
                                         /\ IsPrefixOf(nodes[i].path, node.path)}
    IN  \E i \in visible : /\ nodes[i].id = wire
                           /\ \A j \in visible : Len(nodes[j].path) <= Len(nodes[i].path)

WholeUse(node) == node.type = "$readmemh" \/ (node.type = "identifier" /\ node.index # "element")

InBlock(node) == \E i \in DOMAIN node.path : node.path[i][1] = "block"
=============================================================================
