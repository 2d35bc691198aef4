---------------------------- MODULE StructMember ----------------------------
(***************************************************************************)
(* Packed structs and unions in the UHDM translator: their members are     *)
(* given places (simplify_sv and simplify_struct), and a select with dots, *)
(* x[1].a[0].b[2:1], becomes a select of bits (convert_dot).               *)
(*                                                                         *)
(* One type and one array of it are declared, the members are placed, and  *)
(* one select is converted access by access.  What is recursive over types *)
(* is a function of the height of the type.                                *)
(***************************************************************************)
EXTENDS Integers, Sequences, SequencesExt, FiniteSetsExt

CONSTANTS
    Types,   \* structs and unions
    Height,  \* bound: their height
    Arrays   \* ranges of the wire, in the order a select names them

\* A range [left:right], and a dimension as it is stored.
Ranges == [left : Int, right : Int]
Dimension == [low : Int, width : Nat \ {0}, swapped : BOOLEAN]

Bound(left, right) == [left |-> left, right |-> right]
Low(range) == Min({range.left, range.right})
High(range) == Max({range.left, range.right})
Upwards(range) == range.left < range.right

Dimensions(ranges) ==
    [k \in DOMAIN ranges |-> [low |-> Low(ranges[k]), width |-> High(ranges[k]) - Low(ranges[k]) + 1,
                              swapped |-> Upwards(ranges[k])]]

\* The number of elements in dimensions dims, and in the first k of them.
Products(dims) ==
    LET product[k \in 0 .. Len(dims)] == IF k = 0 THEN 1 ELSE product[k - 1] * dims[k].width
    IN  product
Elements(dims) == Products(dims)[Len(dims)]

\* A type: kind "item", "struct" or "union".  Its node, of a member or of the
\* wire: `left` and `right` are range_left and range_right.
Type(kind, ranges, members) == [kind |-> kind, ranges |-> ranges, members |-> members]
Node(kind, ranges, members) ==
    [kind |-> kind, ranges |-> ranges, members |-> members,
     dims |-> <<>>, left |-> -1, right |-> 0]

Aggregates == {"struct", "union"}
Items == [kind : {"item"}, ranges : Seq(Ranges), members : {<<>>}]
ItemNodes == [kind : {"item"}, ranges : Seq(Ranges), members : {<<>>},
              dims : Seq(Dimension), left : Int, right : Nat]

\* The types of a height, and their nodes, with one member at least.
Some(inner) == Seq(inner) \ {<<>>}
Declarations[d \in Nat] ==
    Items \cup IF d = 0 THEN {}
              ELSE [kind : Aggregates, ranges : Seq(Ranges), members : Some(Declarations[d - 1])]
Nodes[d \in Nat] ==
    ItemNodes \cup IF d = 0 THEN {}
                  ELSE [kind : Aggregates, ranges : Seq(Ranges), members : Some(Nodes[d - 1]),
                        dims : Seq(Dimension), left : Int, right : Nat]

ASSUME TypesAssumption ==
    /\ Height \in Nat
    /\ \A t \in Types : t \in Declarations[Height] /\ t.kind # "item" /\ t.ranges = <<>>
ASSUME ArraysAssumption == Arrays \subseteq Seq(Ranges)

------------------------------------------------------------------------------
(***************************************************************************)
(* The places of the members                                               *)
(***************************************************************************)
\* An AST_STRUCT_ITEM gets its dimensions from its ranges.
ConvertItem(item) == [item EXCEPT !.dims = Dimensions(item.ranges), !.ranges = <<>>]

ItemWidth(item) ==
    IF item.left < 0 THEN Elements(item.dims) ELSE item.left - item.right + 1

At(node, right, width) == [node EXCEPT !.right = right, !.left = right + width - 1]

Placed(node, width, ok) == [node |-> node, width |-> width, ok |-> ok]

\* Mutant: an array of structs is as wide as one element.
PlaceMember_OneElement(place, m, right) ==
    IF m.kind = "item"
    THEN Placed(At(m, right, ItemWidth(m)), ItemWidth(m), TRUE)
    ELSE LET inner == place[m][right]
         IN  Placed(At(inner.node, right, inner.width), inner.width, inner.ok)

\* A member that starts at bit `right` of the outermost struct.
PlaceMember(place, m, right) ==
    IF m.kind = "item"
    THEN Placed(At(m, right, ItemWidth(m)), ItemWidth(m), TRUE)
    ELSE LET inner == place[m][right]
             width == inner.width * Elements(inner.node.dims)
         IN  Placed(At(inner.node, right, width), width, inner.ok)

\* Members are placed from the last to the first, those of a union on top of
\* each other: the offset after the last k members.
Offsets(place, s, base) ==
    LET offset[k \in 0 .. Len(s.members)] ==
            IF k = 0 \/ s.kind = "union" THEN 0
            ELSE offset[k - 1] + PlaceMember(place, s.members[Len(s.members) - k + 1], base + offset[k - 1]).width
    IN  offset

\* Mutant: a member of a union may be narrower than its last one.
Fits_Narrower(width, m) == m.width <= width

\* packed_width is the width of the member that is placed first.
Fits(width, m) == m.width = width

\* simplify_struct.  The width of the result is that of one element.
PlaceMembers(place, s, base) ==
    LET n == Len(s.members)
        offset == Offsets(place, s, base)
        members == [k \in 1 .. n |-> PlaceMember(place, s.members[k], base + offset[n - k])]
    IN  Placed([s EXCEPT !.members = [k \in 1 .. n |-> members[k].node],
                         !.dims = @ \o Dimensions(s.ranges), !.ranges = <<>>],
               IF s.kind = "union" THEN members[n].width ELSE offset[n],
               \A k \in 1 .. n : /\ members[k].ok
                                 /\ s.kind = "union" => Fits(members[n].width, members[k]))

Place[d \in Nat] ==
    [s \in Nodes[d] \ ItemNodes |-> [base \in Nat |-> PlaceMembers(Place[d - 1], s, base)]]

\* simplify_sv: the members first, each as if it stood alone, so that embedded
\* structs are placed once for every struct around them.
SimplifyMembers(simplify, place, t) ==
    LET members == [k \in DOMAIN t.members |-> simplify[t.members[k]]]
        s == place[Node(t.kind, t.ranges, [k \in DOMAIN members |-> members[k].node])][0]
    IN  [s EXCEPT !.ok = @ /\ \A k \in DOMAIN members : members[k].ok]

Simplify[d \in Nat] ==
    [t \in Declarations[d] |->
        IF t.kind = "item" THEN Placed(ConvertItem(Node("item", t.ranges, <<>>)), 0, TRUE)
        ELSE SimplifyMembers(Simplify[d - 1], Place[d], t)]

------------------------------------------------------------------------------
(***************************************************************************)
(* A select                                                                *)
(***************************************************************************)
VARIABLES
    type,      \* the type, as declared
    arrays,    \* the ranges of the wire
    pc,        \* "declared", "select", "done" or "error"
    wire,      \* the wire: what is accessed first
    node,      \* what the access in hand selects from
    previous,  \* previous_offset
    bits,      \* the bits selected so far
    path,      \* history: the indices and members named so far
    indirect   \* history: a slice followed a variable index

vars == <<type, arrays, pc, wire, node, previous, bits, path, indirect>>

\* Dimensions of a wire of a struct type, outermost last, with the struct itself
\* as the first (resolve_wiretype).
WireDimensions(width) ==
    <<[low |-> 0, width |-> width, swapped |-> FALSE]>> \o Reverse(Dimensions(arrays))

WireOf(placed) ==
    LET dims == WireDimensions(placed.width) IN
    At([placed.node EXCEPT !.dims = dims], 0, Elements(dims))

NoNode == Node("item", <<>>, <<>>)

Init ==
    /\ type \in Types
    /\ arrays \in Arrays
    /\ pc = "declared"
    /\ wire = NoNode /\ node = NoNode
    /\ previous = 0
    /\ bits = Bound(0, 0)
    /\ path = <<>> /\ indirect = FALSE

SimplifyStruct ==
    /\ pc = "declared"
    /\ LET placed == Simplify[Height][type] IN
       IF placed.ok
       THEN pc' = "select" /\ wire' = WireOf(placed) /\ node' = wire'
       ELSE pc' = "error" /\ UNCHANGED <<wire, node>>
    /\ UNCHANGED <<type, arrays, previous, bits, path, indirect>>

\* The dimensions an access with n ranges uses.  Those of the wire are taken in
\* the opposite order, without the struct, and as if they all descended.
Accessed(n) ==
    IF path # <<>>
    THEN SubSeq(node.dims, 1, n)
    ELSE [k \in 1 .. n |-> [Reverse(node.dims)[k] EXCEPT !.swapped = FALSE]]

\* Mutant: every dimension is taken to descend.
FromRight_Descending(dim, index) == index - dim.low

\* Mutant: every dimension is taken to start at 0.
FromRight_FromZero(dim, index) ==
    IF dim.swapped THEN dim.width - index - 1 ELSE index

\* An index counted from the right-hand end of its dimension.
FromRight(dim, index) ==
    IF dim.swapped THEN dim.width - (index - dim.low) - 1 ELSE index - dim.low

\* What the last range of an access selects in its dimension.  After a variable
\* index the bounds of a slice are terms, which are not compared but taken in
\* the order of the dimension.
LastRange(dim, range, variable) ==
    LET left == FromRight(dim, range.left)
        right == FromRight(dim, range.right)
    IN  IF ~variable
        THEN Bound(Max({left, right}), Min({left, right}))
        ELSE IF range.left = range.right THEN Bound(left, right)
        ELSE IF dim.swapped THEN Bound(right, left) ELSE Bound(left, right)

\* The offset of the first k indices, the last of them at `last`.
Indexed(dims, ranges, last) ==
    LET n == Len(ranges)
        index(k) == IF k = n THEN last ELSE FromRight(dims[k], ranges[k].left)
        offset[k \in 0 .. n] == IF k = 0 THEN 0 ELSE offset[k - 1] * dims[k].width + index(k)
    IN  offset

\* Offset and width of an access in `unit`, the size of what it selects.
TraverseDimensions(dims, ranges, unit, variable) ==
    IF ranges = <<>>
    THEN [offset |-> 0, width |-> unit]
    ELSE LET n == Len(ranges)
             last == LastRange(dims[n], ranges[n], variable)
         IN  [offset |-> Indexed(dims, ranges, last.right)[n] * unit,
              width |-> (last.left - last.right + 1) * unit]

Span(dim) == dim.low .. dim.low + dim.width - 1

\* The ranges SystemVerilog allows on dimensions dims: indices in bounds, and in
\* the last access the last one may be a slice in the direction of its dimension.
Legal(dims, last) ==
    LET n == Len(dims)
        indices == UNION {Span(dims[k]) : k \in 1 .. n}
    IN  {ranges \in [1 .. n -> [left : indices, right : indices]] :
            \A k \in 1 .. n :
                /\ {ranges[k].left, ranges[k].right} \subseteq Span(dims[k])
                /\ \/ ranges[k].left = ranges[k].right
                   \/ last /\ k = n /\ (Upwards(ranges[k]) <=> dims[k].swapped)}

Declared == IF path = <<>> THEN Dimensions(arrays) ELSE node.dims

\* One iteration of convert_dot: an access to the wire or to a member, with
\* constant or with variable indices.
Access(ranges, variable) ==
    LET dims == Accessed(Len(ranges))
        unit == (node.left - node.right + 1) \div Elements(dims)
        t == TraverseDimensions(dims, ranges, unit, variable)
        right == bits.right + t.offset + (node.right - previous)
    IN  /\ bits' = Bound(right + t.width - 1, right)
        /\ previous' = node.right
        /\ UNCHANGED <<type, arrays, wire>>

\* An access that is not the last names an element.
Enter ==
    /\ pc = "select" /\ node.kind # "item"
    /\ \E ranges \in Legal(Declared, FALSE), m \in DOMAIN node.members :
          /\ Access(ranges, FALSE)
          /\ node' = node.members[m]
          /\ path' = path \o ranges \o <<Bound(m, m)>>
    /\ UNCHANGED <<pc, indirect>>

Finish ==
    /\ pc = "select" /\ path # <<>>
    /\ \E n \in 0 .. Len(Declared), variable \in BOOLEAN :
       \E ranges \in Legal(SubSeq(Declared, 1, n), TRUE) :
          /\ n < 2 => ~variable
          /\ Access(ranges, variable)
          /\ path' = path \o ranges
          /\ indirect' = (variable /\ ranges[n].left # ranges[n].right)
    /\ pc' = "done"
    /\ UNCHANGED node

Next == SimplifyStruct \/ Enter \/ Finish

Spec == Init /\ [][Next]_vars

------------------------------------------------------------------------------
(***************************************************************************)
(* What SystemVerilog says                                                 *)
(***************************************************************************)
\* The layout of a type: its size in bits and, for each bit, counted from the
\* least significant one, its names, as sequences of indices and members.  Only
\* unions give a bit several names.
OneBit == [size |-> 1, names |-> {<<0, <<>>>>}]

Under(x, offset, names) == {<<offset + bit[1], <<x>> \o bit[2]>> : bit \in names}

\* The right-hand index of a range is the least significant element.
ToTheRight(range, index) ==
    IF Upwards(range) THEN range.right - index ELSE index - range.right

Array(range, part) ==
    [size |-> (High(range) - Low(range) + 1) * part.size,
     names |-> UNION {Under(i, ToTheRight(range, i) * part.size, part.names) : i \in Low(range) .. High(range)}]

\* The layout of the last k dimensions.
Arrayed(ranges, element) ==
    LET array[k \in 0 .. Len(ranges)] ==
            IF k = 0 THEN element ELSE Array(ranges[Len(ranges) - k + 1], array[k - 1])
    IN  array
ArrayLayout(ranges, element) == Arrayed(ranges, element)[Len(ranges)]

\* The first member of a struct is the most significant one; the members of a
\* union share their bits.  The size of the last k members of a struct.
Sizes(layout, members) ==
    LET size[k \in 0 .. Len(members)] ==
            IF k = 0 THEN 0 ELSE size[k - 1] + layout[members[Len(members) - k + 1]].size
    IN  size

Lowest(layout, t, m) ==
    IF t.kind = "union" THEN 0 ELSE Sizes(layout, t.members)[Len(t.members) - m]

ElementLayout(layout, t) ==
    IF t.kind = "item" THEN OneBit
    ELSE LET n == Len(t.members) IN
         [size |-> IF t.kind = "union" THEN layout[t.members[n]].size ELSE Sizes(layout, t.members)[n],
          names |-> UNION {Under(m, Lowest(layout, t, m), layout[t.members[m]].names) : m \in 1 .. n}]

Layout[d \in Nat] ==
    [t \in Declarations[d] |-> ArrayLayout(t.ranges, ElementLayout(Layout[d - 1], t))]

\* The bits whose name begins as a select says.
Names(pattern, name) ==
    /\ Len(pattern) <= Len(name)
    /\ \A k \in DOMAIN pattern : Low(pattern[k]) <= name[k] /\ name[k] <= High(pattern[k])

Selected(layout, pattern) == {bit[1] : bit \in {b \in layout.names : Names(pattern, b[2])}}

DeclaredBits == Selected(ArrayLayout(arrays, Layout[Height][type]), path)

\* The members of every union in a type are equally large.
Uniform[d \in Nat] ==
    [t \in Declarations[d] |->
        \A m \in DOMAIN t.members :
           /\ Uniform[d - 1][t.members[m]]
           /\ t.kind = "union" =>
                 \A k \in DOMAIN t.members :
                    Layout[d - 1][t.members[k]].size = Layout[d - 1][t.members[m]].size]

------------------------------------------------------------------------------
(***************************************************************************)
(* Properties                                                              *)
(***************************************************************************)
\* Positions and offsets, unsigned in convert_dot, are numbers of bits.  What is
\* selected is a part of the wire, and an error stops the select.
TypeOK ==
    /\ pc \in {"declared", "select", "done", "error"}
    /\ previous \in Nat
    /\ bits.right \in Nat /\ bits.left \in Int
    /\ path # <<>> /\ ~indirect => bits.right <= bits.left /\ bits.left <= wire.left
    /\ pc \in {"declared", "error"} => wire = NoNode /\ path = <<>>

\* A select with dots is the bits SystemVerilog lays the member out at, through
\* structs in structs, arrays of structs, unions and dimensions of either
\* direction (convert_dot, simplify_struct).  Not for a wire whose own
\* dimensions ascend, which are taken as descending ones, and not for a slice of
\* an ascending dimension after a variable index, whose bounds are exchanged
\* twice (uhdm_ast.cc:1052).
SelectIsMember ==
    pc = "done" /\ (\A k \in DOMAIN arrays : ~Upwards(arrays[k])) /\ ~indirect
        => bits.right .. bits.left = DeclaredBits

\* What an access selects is part of what the accesses before it selected.
AccessesNarrow ==
    [][path # <<>> => bits'.right .. bits'.left \subseteq bits.right .. bits.left]_vars

\* A union is rejected exactly if its members differ in width, however deep it
\* is and however often simplify_struct visits it.
UnevenUnionsRejected ==
    /\ pc = "error" => ~Uniform[Height][type]
    /\ pc \in {"select", "done"} => Uniform[Height][type]
=============================================================================
