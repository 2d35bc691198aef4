-------------------------------- MODULE MCEdif --------------------------------
(* Designs of three modules with any instantiation relation, and designs of *)
(* one module with three aliased wires of any attributes; some of the       *)
(* identifiers need a new name and one looks like a generated one.          *)
EXTENDS Edif

Mod(marked, box, unmapped, wires, aliases, cells) ==
    [top |-> marked, box |-> box, unmapped |-> unmapped, wires |-> wires, aliases |-> aliases, cells |-> cells]

NoWires == << >>
Inst(t) == [type |-> t, pins |-> << >>]
MCModules == {"top", "id1", "$b"}

Hierarchies ==
    {[m \in MCModules |->
        Mod(m \in tops, m = box, m = bad, NoWires, {}, [t \in deps[m] |-> Inst(t)])]
     : deps \in {d \in [MCModules -> SUBSET (MCModules \cup {"LUT"})] :
                   /\ "LUT" \notin d["top"] /\ Cardinality(d["top"]) < 3
                   /\ Cardinality(d["id1"]) < 3 /\ Cardinality(d["$b"]) < 2},
       box \in {"none", "$b"}, bad \in {"none", "id1"},
       tops \in {{}, {"id1", "$b"}}}

W(keep, public, attrs, port) ==
    [width |-> 1, keep |-> keep, public |-> public, attrs |-> attrs, port |-> port, input |-> port = 1]
WireKinds == {W(TRUE, FALSE, 0, 0), W(FALSE, TRUE, 0, 2), W(FALSE, TRUE, 1, 0), W(FALSE, TRUE, 0, 1),
              W(TRUE, TRUE, 0, 0)}
Pin(bits, out) == [bits |-> bits, out |-> out]

Flats ==
    {[m \in {"top"} |->
        Mod(FALSE, FALSE, FALSE,
            [w \in {"id1", "$w", "v"} |-> IF w = "id1" THEN k1 ELSE IF w = "$w" THEN k2
                                     ELSE [W(FALSE, TRUE, 0, 3) EXCEPT !.width = 2]],
            al,
            [c \in {"$c"} |-> [type |-> "LUT",
                pins |-> [p \in {"I", "O"} |->
                    IF p = "O" THEN Pin(<< <<"v", 1>> >>, TRUE)
                    ELSE Pin(<< <<"id1", 0>>, <<"$w", 0>>, <<"x">> >>, FALSE)]]])]
     : k1 \in WireKinds, k2 \in WireKinds,
       al \in {{}, {{<<"id1", 0>>, <<"$w", 0>>}}, {{<<"id1", 0>>, <<"$w", 0>>, <<"v", 1>>}},
               {{<<"id1", 0>>, <<"0">>}, {<<"v", 0>>, <<"x">>}, {<<"v", 1>>, <<"$w", 0>>}},
               {{<<"id1", 0>>, <<"1">>}, {<<"v", 0>>, <<"z">>}}}}

MCDesigns == Hierarchies \cup Flats
MCPlain == {"top", "id1", "id2", "LUT", "v", "I", "O", "GND_NET", "VCC_NET"}
MCGenName(n) == <<"id1", "id2", "id3", "id4", "id5", "id6", "id7", "id8">>[n]
=============================================================================
