--------------------------- MODULE MCStructMember ---------------------------
(* Structs and unions of one to three members, with members that are structs, *)
(* arrays of structs and unions, and wires with up to two dimensions.         *)
EXTENDS StructMember

Item(ranges) == Type("item", ranges, <<>>)
Bit == Item(<<>>)
Down == Item(<<Bound(1, 0)>>)
Up == Item(<<Bound(1, 3)>>)
Square == Item(<<Bound(2, 1), Bound(0, 1)>>)

Inner(ranges) == Type("struct", ranges, <<Up, Bit>>)
Deep == Type("struct", <<Bound(2, 1)>>, <<Bit, Inner(<<Bound(0, 1)>>)>>)
Even == Type("union", <<>>, <<Square, Type("struct", <<>>, <<Bit, Up>>)>>)
Uneven == Type("union", <<>>, <<Down, Up>>)

Members == {Bit, Down, Square, Inner(<<>>), Inner(<<Bound(1, 0), Bound(0, 1)>>), Deep, Even, Uneven}

MCTypes ==
    {Type(kind, <<>>, <<m>>) : kind \in {"struct", "union"}, m \in Members}
    \cup {Type(kind, <<>>, <<m, n>>) : kind \in {"struct", "union"}, m \in Members, n \in Members}
    \cup {Type("struct", <<>>, <<m, Up, n>>) : m \in {Bit, Square}, n \in {Even, Down}}

MCArrays ==
    {<<>>, <<Bound(1, 0)>>, <<Bound(0, 1)>>, <<Bound(2, 1), Bound(1, 0)>>}
=============================================================================
