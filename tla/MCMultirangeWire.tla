-------------------------- MODULE MCMultirangeWire --------------------------
(* Wires with up to three ranges, ascending and descending, that start below, *)
(* at and above 0, split into packed and unpacked ones in every way; with     *)
(* three ranges each has two elements.                                        *)
EXTENDS MultirangeWire

Bound(left, right) == [left |-> left, right |-> right]

Pairs == {Bound(1, 0), Bound(2, 3), Bound(0, -1)}
Others == {Bound(1, 0), Bound(1, 3), Bound(1, -1), Bound(2, 2)}

Declare(ranges, noPacked, noUnpacked, port, modules) ==
    {[source |-> [packed |-> p, unpacked |-> u, signed |-> FALSE, objects |-> {"net"}, typespec |-> TRUE,
                  direction |-> IF port THEN "input" ELSE "none"],
      module |-> m] :
        p \in [1 .. noPacked -> ranges], u \in [1 .. noUnpacked -> ranges], m \in modules}

\* Wires of one bit, described in every way.
Descriptions ==
    {[source |-> s, module |-> <<>>] :
        s \in {t \in [packed : {<<>>, <<Bound(2, 2)>>, <<Bound(2, 2), Bound(0, 0)>>},
                      unpacked : {<<>>, <<Bound(3, 3)>>}, signed : BOOLEAN,
                      direction : {"none", "input", "output", "inout"},
                      objects : (SUBSET {"variable", "net"}) \ {{}}, typespec : BOOLEAN] : Described(t)}}

G == <<"generate", "g">>
H == <<"generate", "h">>
F == <<"function", "f">>
B == <<"block", "b">>
C == <<"block", "c">>
Paths == {<<>>, <<G>>, <<G, H>>, <<F>>, <<G, F>>, <<B>>, <<G, B>>, <<C>>}

Memory(id, path, memory) == [type |-> "wire", id |-> id, str |-> "m", path |-> path, memory |-> memory]
UsesAt(path) ==
    {[type |-> "identifier", str |-> "m", path |-> path, index |-> i] : i \in {"whole", "slice", "element"}}
    \cup {[type |-> "$readmemh", str |-> "m", path |-> path]}

\* Modules with the wire, another one of its name, and uses of them in any
\* place that sees one of them.
NodesAt == UNION {UsesAt(p) : p \in Paths}
Resolved(nodes) ==
    /\ nodes \in ModuleNodes
    /\ \A i \in DOMAIN nodes : nodes[i].type # "wire" =>
          \E j \in DOMAIN nodes : nodes[j].type = "wire" /\ IsPrefixOf(nodes[j].path, nodes[i].path)
Modules ==
    {m \in {<<Memory(1, p, TRUE), n>> : p \in Paths, n \in NodesAt} : Resolved(m)}
    \cup UNION {{m \in {<<Memory(1, p, TRUE), n, o>>, <<n, Memory(1, p, TRUE), o>>} : Resolved(m)} :
                 p \in {<<>>, <<G>>, <<F>>}, n \in NodesAt, o \in NodesAt}
    \cup UNION {{m \in {<<Memory(1, p, TRUE), Memory(2, q, b), n>>, <<Memory(1, p, TRUE), n, Memory(2, q, b)>>,
                       <<Memory(2, q, b), Memory(1, p, TRUE), n>>} : Resolved(m)} :
                 p \in Paths, q \in Paths, b \in BOOLEAN, n \in NodesAt}

\* A port of one range of each kind is converted whatever accesses it.
MCDeclarations ==
    UNION {Declare(Pairs, n, 3 - n, FALSE, {<<>>}) : n \in 0 .. 3}
    \cup UNION {Declare(Others, n, 2 - n, FALSE, {<<>>}) : n \in 0 .. 2}
    \cup UNION {Declare(Others, 1, n, TRUE, {<<>>}) : n \in 0 .. 1}
    \cup Declare(Others, 1, 1, FALSE, {<<Memory(1, <<>>, TRUE), n>> : n \in UsesAt(<<>>)})
    \cup Declare(Others, 0, 1, FALSE, {<<>>})
    \cup Declare({Bound(2, 2)}, 1, 1, FALSE, Modules)
    \cup Descriptions

MCIndices == -1 .. 3
=============================================================================
