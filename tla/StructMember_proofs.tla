------------------------- MODULE StructMember_proofs -------------------------
(***************************************************************************)
(* Proofs about StructMember.  First the recursive functions are shown to  *)
(* have the equations that define them; then, by induction on the height   *)
(* of a type, that the layout gives every bit a name and that the members  *)
(* are placed where the layout has them (Placing, Simplifying), however    *)
(* often a pass before has placed them (Versions); then that an access     *)
(* selects what its ranges name (FinishSelects), and that the accesses of  *)
(* one select follow the layout from the wire down to a member (IInv).     *)
(***************************************************************************)
EXTENDS StructMember, WellFoundedInduction, TLAPS

------------------------------------------------------------------------------
(***************************************************************************)
(* Recursion                                                               *)
(***************************************************************************)
\* A set of naturals has a least element.
LEMMA Least ==
    ASSUME NEW T \in SUBSET Nat, T # {}
    PROVE  \E n \in T : \A m \in T : n <= m
PROOF
<1>1. PICK n \in T : \A m \in T : <<m, n>> \notin OpToRel(<, Nat)
  <2> DEFINE R == OpToRel(<, Nat)
  <2>1. IsWellFoundedOn(R, Nat)
    BY NatLessThanWellFounded
  <2> HIDE DEF R
  <2>2. \E n \in T : \A m \in T : ~(<<m, n>> \in R)
    BY <2>1, WFMin
  <2> QED
    BY <2>2 DEF R
<1>2. \A m \in T : ~(m < n)
  BY <1>1 DEF OpToRel
<1>3. \A m \in T : m \in Nat /\ n \in Nat
  OBVIOUS
<1> QED
  BY <1>2, <1>3

\* Induction: what holds of 0 and of the next number holds of all.
LEMMA Induct ==
    ASSUME NEW T, 0 \in T, \A k \in Nat : k \in T => k + 1 \in T
    PROVE  \A n \in Nat : n \in T
PROOF
<1> DEFINE Others == Nat \ T
<1>1. SUFFICES ASSUME Others # {} PROVE FALSE
  OBVIOUS
<1>2. PICK n \in Others : \A m \in Others : n <= m
  <2>1. Others \in SUBSET Nat
    OBVIOUS
  <2> HIDE DEF Others
  <2> QED
    BY <1>1, <2>1, Least
<1>3. n - 1 \in Nat /\ n - 1 \notin Others
  BY <1>2
<1> QED
  BY <1>2, <1>3

PlaceTypes(d, place) ==
    [s \in Nodes[d] \ ItemNodes |-> [base \in Nat |-> PlaceMembers(place, s, base)]]

SimplifyTypes(d, simplify) ==
    [t \in Declarations[d] |->
        IF t.kind = "item" THEN Placed(ConvertItem(Node("item", t.ranges, <<>>)), 0, TRUE)
        ELSE SimplifyMembers(simplify, Place[d], t)]

LayoutTypes(d, layout) ==
    [t \in Declarations[d] |-> ArrayLayout(t.ranges, ElementLayout(layout, t))]

UniformTypes(d, uniform) ==
    [t \in Declarations[d] |->
        \A m \in DOMAIN t.members :
           /\ uniform[t.members[m]]
           /\ t.kind = "union" =>
                 \A k \in DOMAIN t.members :
                    Layout[d - 1][t.members[k]].size = Layout[d - 1][t.members[m]].size]

\* n is a node of type t, as it was made or as placing left it.
VersionOf(below, n, t) ==
    /\ n.kind = t.kind
    /\ n.dims \o Dimensions(n.ranges) = Dimensions(t.ranges)
    /\ n.kind = "item" => n.ranges = <<>> /\ (n.left < 0 \/ n.left - n.right + 1 = Elements(n.dims))
    /\ n.kind # "item" => /\ Len(n.members) = Len(t.members)
                          /\ \A k \in 1 .. Len(t.members) : <<n.members[k], t.members[k]>> \in below

VersionTypes(d, below) == {p \in Nodes[d] \X Declarations[d] : VersionOf(below, p[1], p[2])}

Versions[d \in Nat] == {p \in Nodes[d] \X Declarations[d] : VersionOf(Versions[d - 1], p[1], p[2])}

\* n has type t and its members are where they belong if its lowest bit is base.
LaidOver(d, below, n, t, base) ==
    /\ <<n, t>> \in Versions[d]
    /\ n.ranges = <<>>
    /\ \A k \in 1 .. Len(t.members) :
          /\ n.members[k].right = base + Lowest(Layout[d - 1], t, k)
          /\ n.members[k].left = n.members[k].right + Layout[d - 1][t.members[k]].size - 1
          /\ <<n.members[k], t.members[k], n.members[k].right>> \in below

LaidTypes(d, below) == {p \in Nodes[d] \X Declarations[d] \X Nat : LaidOver(d, below, p[1], p[2], p[3])}

Laid[d \in Nat] ==
    {p \in Nodes[d] \X Declarations[d] \X Nat : LaidOver(d, Laid[d - 1], p[1], p[2], p[3])}

ProductStep(dims, k, below) == IF k = 0 THEN 1 ELSE below * dims[k].width

OffsetStep(place, s, base, k, below) ==
    IF k = 0 \/ s.kind = "union" THEN 0
    ELSE below + PlaceMember(place, s.members[Len(s.members) - k + 1], base + below).width

IndexStep(dims, ranges, last, k, below) ==
    IF k = 0 THEN 0
    ELSE below * dims[k].width + IF k = Len(ranges) THEN last ELSE FromRight(dims[k], ranges[k].left)

ArrayStep(ranges, element, k, below) ==
    IF k = 0 THEN element ELSE Array(ranges[Len(ranges) - k + 1], below)

SizeStep(layout, members, k, below) ==
    IF k = 0 THEN 0 ELSE below + layout[members[Len(members) - k + 1]].size

DeclarationStep(k, below) ==
    Items \cup IF k = 0 THEN {} ELSE [kind : Aggregates, ranges : Seq(Ranges), members : Some(below)]

NodeStep(k, below) ==
    ItemNodes \cup IF k = 0 THEN {}
                   ELSE [kind : Aggregates, ranges : Seq(Ranges), members : Some(below),
                         dims : Seq(Dimension), left : Int, right : Nat]

\* What each recursive definition is at k, from what it is below.
Step(what, given, k, below) ==
    CASE what = "product" -> ProductStep(given, k, below)
      [] what = "offset" -> OffsetStep(given.place, given.s, given.base, k, below)
      [] what = "index" -> IndexStep(given.dims, given.ranges, given.last, k, below)
      [] what = "array" -> ArrayStep(given.ranges, given.element, k, below)
      [] what = "size" -> SizeStep(given.layout, given.members, k, below)
      [] what = "declarations" -> DeclarationStep(k, below)
      [] what = "nodes" -> NodeStep(k, below)
      [] what = "place" -> PlaceTypes(k, below)
      [] what = "simplify" -> SimplifyTypes(k, below)
      [] what = "layout" -> LayoutTypes(k, below)
      [] what = "version" -> VersionTypes(k, below)
      [] what = "laid" -> LaidTypes(k, below)
      [] what = "uniform" -> UniformTypes(k, below)

Follows(f, what, given) == f = [k \in Nat |-> Step(what, given, k, f[k - 1])]

UpTo(f, n, what, given) == f = [k \in 0 .. n |-> Step(what, given, k, f[k - 1])]

\* Up to a height, a recursive function exists.
LEMMA UpToExists ==
    ASSUME NEW what, NEW given, \A p, q : Step(what, given, 0, p) = Step(what, given, 0, q)
    PROVE  \A n \in Nat : \E f : UpTo(f, n, what, given)
PROOF
<1> DEFINE T == {n \in Nat : \E f : UpTo(f, n, what, given)}
<1>1. 0 \in T
  <2> DEFINE f == [k \in 0 .. 0 |-> Step(what, given, 0, 0)]
  <2>1. f = [k \in 0 .. 0 |-> Step(what, given, k, f[k - 1])]
    <3>1. \A k \in 0 .. 0 : k = 0
      OBVIOUS
    <3>2. Step(what, given, 0, 0) = Step(what, given, 0, f[0 - 1])
      OBVIOUS
    <3> QED
      BY <3>1, <3>2
  <2>2. UpTo(f, 0, what, given)
    BY <2>1 DEF UpTo
  <2> QED
    BY <2>2
<1>2. ASSUME NEW n \in Nat, n \in T
      PROVE  n + 1 \in T
  <2>1. PICK f : UpTo(f, n, what, given)
    BY <1>2
  <2> DEFINE e == Step(what, given, n + 1, f[n])
             h == [k \in 0 .. n + 1 |-> IF k = n + 1 THEN e ELSE f[k]]
  <2>2. \A k \in 0 .. n : h[k] = f[k]
    OBVIOUS
  <2>3. h[n + 1] = e
    OBVIOUS
  <2>4. h = [k \in 0 .. n + 1 |-> h[k]]
    OBVIOUS
  <2> HIDE DEF h
  <2>5. ASSUME NEW k \in 0 .. n + 1
        PROVE  h[k] = Step(what, given, k, h[k - 1])
    <3>1. CASE k = n + 1
      <4>1. k - 1 = n /\ n \in 0 .. n
        BY <3>1
      <4> QED
        BY <2>2, <2>3, <3>1, <4>1
    <3>2. CASE k # n + 1 /\ k # 0
      <4>1. k \in 0 .. n /\ k - 1 \in 0 .. n
        BY <3>2
      <4>2. f[k] = Step(what, given, k, f[k - 1])
        BY <2>1, <4>1 DEF UpTo
      <4> QED
        BY <2>2, <4>1, <4>2
    <3>3. CASE k = 0
      <4>1. f[0] = Step(what, given, 0, f[0 - 1])
        BY <2>1 DEF UpTo
      <4>2. h[0] = f[0]
        BY <2>2
      <4>3. Step(what, given, 0, f[0 - 1]) = Step(what, given, 0, h[0 - 1])
        OBVIOUS
      <4> QED
        BY <3>3, <4>1, <4>2, <4>3
    <3> QED
      BY <3>1, <3>2, <3>3
  <2>6. UpTo(h, n + 1, what, given)
    BY <2>4, <2>5 DEF UpTo
  <2> QED
    BY <2>6
<1> HIDE DEF T
<1>3. \A n \in Nat : n \in T
  BY <1>1, <1>2, Induct
<1> QED
  BY <1>3 DEF T

\* Up to a height, it is unique.
LEMMA UpToAlike ==
    ASSUME NEW what, NEW given, \A p, q : Step(what, given, 0, p) = Step(what, given, 0, q),
           NEW n \in Nat, NEW f, UpTo(f, n, what, given),
           NEW i \in Nat, NEW h, UpTo(h, i, what, given)
    PROVE  \A k \in Nat : k <= n /\ k <= i => f[k] = h[k]
PROOF
<1> DEFINE T == {k \in Nat : k <= n /\ k <= i => f[k] = h[k]}
<1>1. 0 \in T
  <2>1. f[0] = Step(what, given, 0, f[0 - 1]) /\ h[0] = Step(what, given, 0, h[0 - 1])
    BY DEF UpTo
  <2>2. Step(what, given, 0, f[0 - 1]) = Step(what, given, 0, h[0 - 1])
    OBVIOUS
  <2> QED
    BY <2>1, <2>2
<1>2. ASSUME NEW k \in Nat, k \in T
      PROVE  k + 1 \in T
  <2>1. SUFFICES ASSUME k + 1 <= n, k + 1 <= i PROVE f[k + 1] = h[k + 1]
    OBVIOUS
  <2>2. f[k + 1] = Step(what, given, k + 1, f[k]) /\ h[k + 1] = Step(what, given, k + 1, h[k])
    <3>1. k + 1 \in 0 .. n /\ k + 1 \in 0 .. i /\ (k + 1) - 1 = k
      BY <2>1
    <3>2. f[k + 1] = Step(what, given, k + 1, f[(k + 1) - 1])
      BY <3>1 DEF UpTo
    <3>3. h[k + 1] = Step(what, given, k + 1, h[(k + 1) - 1])
      BY <3>1 DEF UpTo
    <3> QED
      BY <3>1, <3>2, <3>3
  <2>3. f[k] = h[k]
    BY <1>2, <2>1
  <2> QED
    BY <2>2, <2>3
<1> HIDE DEF T
<1>3. \A k \in Nat : k \in T
  BY <1>1, <1>2, Induct
<1> QED
  BY <1>3 DEF T

\* If level 0 needs nothing below it, there is a function of all heights.
LEMMA Recursion ==
    ASSUME NEW what, NEW given, \A p, q : Step(what, given, 0, p) = Step(what, given, 0, q)
    PROVE  \E f : Follows(f, what, given)
PROOF
<1> DEFINE g(n) == CHOOSE f : UpTo(f, n, what, given)
           f == [n \in Nat |-> g(n)[n]]
<1>1. \A n \in Nat : UpTo(g(n), n, what, given)
  BY UpToExists
<1>2. \A n \in Nat : f[n] = g(n)[n]
  OBVIOUS
<1>3. f = [n \in Nat |-> f[n]]
  OBVIOUS
<1> HIDE DEF f, g
<1>4. ASSUME NEW n \in Nat
      PROVE  f[n] = Step(what, given, n, f[n - 1])
  <2>1. g(n)[n] = Step(what, given, n, g(n)[n - 1])
    BY <1>1 DEF UpTo
  <2>2. CASE n = 0
    <3>1. Step(what, given, 0, g(n)[n - 1]) = Step(what, given, 0, f[n - 1])
      OBVIOUS
    <3> QED
      BY <1>2, <2>1, <2>2, <3>1
  <2>3. CASE n # 0
    <3>1. n - 1 \in Nat /\ n - 1 <= n
      BY <2>3
    <3>2. UpTo(g(n), n, what, given) /\ UpTo(g(n - 1), n - 1, what, given)
      BY <1>1, <3>1
    <3>3. g(n)[n - 1] = g(n - 1)[n - 1]
      BY <3>1, <3>2, UpToAlike
    <3> QED
      BY <1>2, <2>1, <3>1, <3>3
  <2> QED
    BY <2>2, <2>3
<1>5. Follows(f, what, given)
  BY <1>3, <1>4 DEF Follows
<1> QED
  BY <1>5

\* The products of widths, one by one.
LEMMA ProductRecursion ==
    ASSUME NEW dims, Len(dims) \in Nat
    PROVE  /\ Products(dims)[0] = 1
           /\ \A k \in Nat : k < Len(dims) => Products(dims)[k + 1] = Products(dims)[k] * dims[k + 1].width
PROOF
<1> DEFINE given == dims
           Over(k, p) == ProductStep(dims, k, p)
           f == Products(dims)
<1>1. \A k, p : Step("product", given, k, p) = Over(k, p)
  BY DEF Step
<1>2. \A p, q : Step("product", given, 0, p) = Step("product", given, 0, q)
  BY <1>1 DEF ProductStep
<1> HIDE DEF given
<1>3. PICK g : UpTo(g, Len(dims), "product", given)
  BY <1>2, UpToExists
<1>4. \E h : h = [k \in 0 .. Len(dims) |-> Over(k, h[k - 1])]
  <2>1. g = [k \in 0 .. Len(dims) |-> Over(k, g[k - 1])]
    <3> HIDE DEF Over
    <3> QED
      BY <1>1, <1>3 DEF UpTo
  <2> QED
    BY <2>1
<1>5. f = [k \in 0 .. Len(dims) |-> Over(k, f[k - 1])]
  BY <1>4, Zenon DEF Products, ProductStep
<1> HIDE DEF f
<1>6. f[0] = 1
  BY <1>5 DEF ProductStep
<1>7. ASSUME NEW k \in Nat, k < Len(dims)
      PROVE  f[k + 1] = f[k] * dims[k + 1].width
  <2>1. k + 1 \in 0 .. Len(dims) /\ k + 1 # 0 /\ (k + 1) - 1 = k
    BY <1>7
  <2>2. f[k + 1] = Over(k + 1, f[k])
    <3> HIDE DEF Over
    <3> QED
      BY <1>5, <2>1
  <2> QED
    BY <1>7, <2>1, <2>2 DEF ProductStep
<1> QED
  BY <1>6, <1>7 DEF f

\* Offsets after the members of a struct.
LEMMA OffsetRecursion ==
    ASSUME NEW place, NEW s, NEW base, Len(s.members) \in Nat
    PROVE  /\ Offsets(place, s, base)[0] = 0
           /\ \A k \in Nat : k < Len(s.members) => Offsets(place, s, base)[k + 1] = IF s.kind = "union" THEN 0
                   ELSE Offsets(place, s, base)[k] + PlaceMember(place, s.members[Len(s.members) - k], base + Offsets(place, s, base)[k]).width
PROOF
<1> DEFINE given == [place |-> place, s |-> s, base |-> base]
           Over(k, p) == OffsetStep(place, s, base, k, p)
           f == Offsets(place, s, base)
<1>1. \A k, p : Step("offset", given, k, p) = Over(k, p)
  BY DEF Step
<1>2. \A p, q : Step("offset", given, 0, p) = Step("offset", given, 0, q)
  BY <1>1 DEF OffsetStep
<1> HIDE DEF given
<1>3. PICK g : UpTo(g, Len(s.members), "offset", given)
  BY <1>2, UpToExists
<1>4. \E h : h = [k \in 0 .. Len(s.members) |-> Over(k, h[k - 1])]
  <2>1. g = [k \in 0 .. Len(s.members) |-> Over(k, g[k - 1])]
    <3> HIDE DEF Over
    <3> QED
      BY <1>1, <1>3 DEF UpTo
  <2> QED
    BY <2>1
<1>5. f = [k \in 0 .. Len(s.members) |-> Over(k, f[k - 1])]
  BY <1>4, Zenon DEF Offsets, OffsetStep
<1> HIDE DEF f
<1>6. f[0] = 0
  BY <1>5 DEF OffsetStep
<1>7. ASSUME NEW k \in Nat, k < Len(s.members)
      PROVE  f[k + 1] = IF s.kind = "union" THEN 0
                   ELSE f[k] + PlaceMember(place, s.members[Len(s.members) - k], base + f[k]).width
  <2>1. k + 1 \in 0 .. Len(s.members) /\ k + 1 # 0 /\ (k + 1) - 1 = k
    BY <1>7
  <2>2. f[k + 1] = Over(k + 1, f[k])
    <3> HIDE DEF Over
    <3> QED
      BY <1>5, <2>1
  <2> QED
    BY <1>7, <2>1, <2>2 DEF OffsetStep
<1> QED
  BY <1>6, <1>7 DEF f

\* The offset of an access, index by index.
LEMMA IndexRecursion ==
    ASSUME NEW dims, NEW ranges, NEW last, Len(ranges) \in Nat
    PROVE  /\ Indexed(dims, ranges, last)[0] = 0
           /\ \A k \in Nat : k < Len(ranges) => Indexed(dims, ranges, last)[k + 1] = Indexed(dims, ranges, last)[k] * dims[k + 1].width
                   + IF k + 1 = Len(ranges) THEN last ELSE FromRight(dims[k + 1], ranges[k + 1].left)
PROOF
<1> DEFINE given == [dims |-> dims, ranges |-> ranges, last |-> last]
           Over(k, p) == IndexStep(dims, ranges, last, k, p)
           f == Indexed(dims, ranges, last)
<1>1. \A k, p : Step("index", given, k, p) = Over(k, p)
  BY DEF Step
<1>2. \A p, q : Step("index", given, 0, p) = Step("index", given, 0, q)
  BY <1>1 DEF IndexStep
<1> HIDE DEF given
<1>3. PICK g : UpTo(g, Len(ranges), "index", given)
  BY <1>2, UpToExists
<1>4. \E h : h = [k \in 0 .. Len(ranges) |-> Over(k, h[k - 1])]
  <2>1. g = [k \in 0 .. Len(ranges) |-> Over(k, g[k - 1])]
    <3> HIDE DEF Over
    <3> QED
      BY <1>1, <1>3 DEF UpTo
  <2> QED
    BY <2>1
<1>5. f = [k \in 0 .. Len(ranges) |-> Over(k, f[k - 1])]
  BY <1>4, Zenon DEF Indexed, IndexStep
<1> HIDE DEF f
<1>6. f[0] = 0
  BY <1>5 DEF IndexStep
<1>7. ASSUME NEW k \in Nat, k < Len(ranges)
      PROVE  f[k + 1] = f[k] * dims[k + 1].width
                   + IF k + 1 = Len(ranges) THEN last ELSE FromRight(dims[k + 1], ranges[k + 1].left)
  <2>1. k + 1 \in 0 .. Len(ranges) /\ k + 1 # 0 /\ (k + 1) - 1 = k
    BY <1>7
  <2>2. f[k + 1] = Over(k + 1, f[k])
    <3> HIDE DEF Over
    <3> QED
      BY <1>5, <2>1
  <2> QED
    BY <1>7, <2>1, <2>2 DEF IndexStep
<1> QED
  BY <1>6, <1>7 DEF f

\* Layouts of arrays, dimension by dimension.
LEMMA ArrayRecursion ==
    ASSUME NEW ranges, NEW element, Len(ranges) \in Nat
    PROVE  /\ Arrayed(ranges, element)[0] = element
           /\ \A k \in Nat : k < Len(ranges) => Arrayed(ranges, element)[k + 1] = Array(ranges[Len(ranges) - k], Arrayed(ranges, element)[k])
PROOF
<1> DEFINE given == [ranges |-> ranges, element |-> element]
           Over(k, p) == ArrayStep(ranges, element, k, p)
           f == Arrayed(ranges, element)
<1>1. \A k, p : Step("array", given, k, p) = Over(k, p)
  BY DEF Step
<1>2. \A p, q : Step("array", given, 0, p) = Step("array", given, 0, q)
  BY <1>1 DEF ArrayStep
<1> HIDE DEF given
<1>3. PICK g : UpTo(g, Len(ranges), "array", given)
  BY <1>2, UpToExists
<1>4. \E h : h = [k \in 0 .. Len(ranges) |-> Over(k, h[k - 1])]
  <2>1. g = [k \in 0 .. Len(ranges) |-> Over(k, g[k - 1])]
    <3> HIDE DEF Over
    <3> QED
      BY <1>1, <1>3 DEF UpTo
  <2> QED
    BY <2>1
<1>5. f = [k \in 0 .. Len(ranges) |-> Over(k, f[k - 1])]
  BY <1>4, Zenon DEF Arrayed, ArrayStep
<1> HIDE DEF f
<1>6. f[0] = element
  BY <1>5 DEF ArrayStep
<1>7. ASSUME NEW k \in Nat, k < Len(ranges)
      PROVE  f[k + 1] = Array(ranges[Len(ranges) - k], f[k])
  <2>1. k + 1 \in 0 .. Len(ranges) /\ k + 1 # 0 /\ (k + 1) - 1 = k
    BY <1>7
  <2>2. f[k + 1] = Over(k + 1, f[k])
    <3> HIDE DEF Over
    <3> QED
      BY <1>5, <2>1
  <2> QED
    BY <1>7, <2>1, <2>2 DEF ArrayStep
<1> QED
  BY <1>6, <1>7 DEF f

\* Sizes of the last members of a struct.
LEMMA SizeRecursion ==
    ASSUME NEW layout, NEW members, Len(members) \in Nat
    PROVE  /\ Sizes(layout, members)[0] = 0
           /\ \A k \in Nat : k < Len(members) => Sizes(layout, members)[k + 1] = Sizes(layout, members)[k] + layout[members[Len(members) - k]].size
PROOF
<1> DEFINE given == [layout |-> layout, members |-> members]
           Over(k, p) == SizeStep(layout, members, k, p)
           f == Sizes(layout, members)
<1>1. \A k, p : Step("size", given, k, p) = Over(k, p)
  BY DEF Step
<1>2. \A p, q : Step("size", given, 0, p) = Step("size", given, 0, q)
  BY <1>1 DEF SizeStep
<1> HIDE DEF given
<1>3. PICK g : UpTo(g, Len(members), "size", given)
  BY <1>2, UpToExists
<1>4. \E h : h = [k \in 0 .. Len(members) |-> Over(k, h[k - 1])]
  <2>1. g = [k \in 0 .. Len(members) |-> Over(k, g[k - 1])]
    <3> HIDE DEF Over
    <3> QED
      BY <1>1, <1>3 DEF UpTo
  <2> QED
    BY <2>1
<1>5. f = [k \in 0 .. Len(members) |-> Over(k, f[k - 1])]
  BY <1>4, Zenon DEF Sizes, SizeStep
<1> HIDE DEF f
<1>6. f[0] = 0
  BY <1>5 DEF SizeStep
<1>7. ASSUME NEW k \in Nat, k < Len(members)
      PROVE  f[k + 1] = f[k] + layout[members[Len(members) - k]].size
  <2>1. k + 1 \in 0 .. Len(members) /\ k + 1 # 0 /\ (k + 1) - 1 = k
    BY <1>7
  <2>2. f[k + 1] = Over(k + 1, f[k])
    <3> HIDE DEF Over
    <3> QED
      BY <1>5, <2>1
  <2> QED
    BY <1>7, <2>1, <2>2 DEF SizeStep
<1> QED
  BY <1>6, <1>7 DEF f

\* The types of height 0 and of each further height.
LEMMA DeclarationHeights == Declarations[0] = Items /\ \A d \in Nat : Declarations[d + 1] = Items \cup [kind : Aggregates, ranges : Seq(Ranges), members : Some(Declarations[d])]
PROOF
<1> DEFINE Over(d, p) == DeclarationStep(d, p)
<1>1. \A d, p : Step("declarations", 0, d, p) = Over(d, p)
  BY DEF Step
<1>2. \A p, q : Step("declarations", 0, 0, p) = Step("declarations", 0, 0, q)
  BY <1>1 DEF DeclarationStep
<1>3. \E f : Follows(f, "declarations", 0)
  BY <1>2, Recursion
<1>4. \E f : f = [d \in Nat |-> Over(d, f[d - 1])]
  <2> HIDE DEF Over
  <2> QED
    BY <1>1, <1>3 DEF Follows
<1>5. Declarations = [d \in Nat |-> Over(d, Declarations[d - 1])]
  BY <1>4, Zenon DEF Declarations, DeclarationStep
<1>6. Declarations[0] = Items
  <2>1. Declarations[0] = Over(0, Declarations[0 - 1])
    <3> HIDE DEF Over
    <3> QED
      BY <1>5
  <2> QED
    BY <2>1 DEF DeclarationStep
<1>7. ASSUME NEW d \in Nat
      PROVE  Declarations[d + 1] = Items \cup [kind : Aggregates, ranges : Seq(Ranges), members : Some(Declarations[d])]
  <2>1. d + 1 \in Nat /\ d + 1 # 0 /\ (d + 1) - 1 = d
    OBVIOUS
  <2>2. Declarations[d + 1] = Over(d + 1, Declarations[(d + 1) - 1])
    <3> HIDE DEF Over
    <3> QED
      BY <1>5, <2>1
  <2>3. Declarations[d + 1] = DeclarationStep(d + 1, Declarations[d])
    BY <2>1, <2>2
  <2> QED
    BY <2>1, <2>3, Zenon DEF DeclarationStep
<1> QED
  BY <1>6, <1>7

\* The nodes of height 0 and of each further height.
LEMMA NodeHeights == Nodes[0] = ItemNodes /\ \A d \in Nat : Nodes[d + 1] = ItemNodes \cup [kind : Aggregates, ranges : Seq(Ranges), members : Some(Nodes[d]),
                                    dims : Seq(Dimension), left : Int, right : Nat]
PROOF
<1> DEFINE Over(d, p) == NodeStep(d, p)
<1>1. \A d, p : Step("nodes", 0, d, p) = Over(d, p)
  BY DEF Step
<1>2. \A p, q : Step("nodes", 0, 0, p) = Step("nodes", 0, 0, q)
  BY <1>1 DEF NodeStep
<1>3. \E f : Follows(f, "nodes", 0)
  BY <1>2, Recursion
<1>4. \E f : f = [d \in Nat |-> Over(d, f[d - 1])]
  <2> HIDE DEF Over
  <2> QED
    BY <1>1, <1>3 DEF Follows
<1>5. Nodes = [d \in Nat |-> Over(d, Nodes[d - 1])]
  BY <1>4, Zenon DEF Nodes, NodeStep
<1>6. Nodes[0] = ItemNodes
  <2>1. Nodes[0] = Over(0, Nodes[0 - 1])
    <3> HIDE DEF Over
    <3> QED
      BY <1>5
  <2> QED
    BY <2>1 DEF NodeStep
<1>7. ASSUME NEW d \in Nat
      PROVE  Nodes[d + 1] = ItemNodes \cup [kind : Aggregates, ranges : Seq(Ranges), members : Some(Nodes[d]),
                                    dims : Seq(Dimension), left : Int, right : Nat]
  <2>1. d + 1 \in Nat /\ d + 1 # 0 /\ (d + 1) - 1 = d
    OBVIOUS
  <2>2. Nodes[d + 1] = Over(d + 1, Nodes[(d + 1) - 1])
    <3> HIDE DEF Over
    <3> QED
      BY <1>5, <2>1
  <2>3. Nodes[d + 1] = NodeStep(d + 1, Nodes[d])
    BY <2>1, <2>2
  <2> QED
    BY <2>1, <2>3, Zenon DEF NodeStep
<1> QED
  BY <1>6, <1>7

\* What is recursive over types is, at a height, made from what it is below.
LEMMA PlaceEquation == \A d \in Nat : Place[d] = PlaceTypes(d, Place[d - 1])
PROOF
<1>1. \A d, p : Step("place", 0, d, p) = PlaceTypes(d, p)
  BY DEF Step
<1>2. \A p, q : PlaceTypes(0, p) = PlaceTypes(0, q)
  <2>1. \A p : PlaceTypes(0, p) = [s \in {} |-> [base \in Nat |-> PlaceMembers(p, s, base)]]
    <3>1. Nodes[0] \ ItemNodes = {}
      BY NodeHeights
    <3> QED
      BY <3>1 DEF PlaceTypes
  <2>2. \A p, q : [s \in {} |-> [base \in Nat |-> PlaceMembers(p, s, base)]]
                  = [s \in {} |-> [base \in Nat |-> PlaceMembers(q, s, base)]]
    OBVIOUS
  <2> QED
    BY <2>1, <2>2
<1>3. \E f : Follows(f, "place", 0)
  <2>1. \A p, q : Step("place", 0, 0, p) = Step("place", 0, 0, q)
    BY <1>1, <1>2
  <2> QED
    BY <2>1, Recursion
<1>4. \E f : f = [d \in Nat |-> PlaceTypes(d, f[d - 1])]
  BY <1>1, <1>3 DEF Follows
<1>5. Place = [d \in Nat |-> PlaceTypes(d, Place[d - 1])]
  BY <1>4, Zenon DEF Place, PlaceTypes
<1> QED
  BY <1>5

\* The recursive functions over types.
LEMMA SimplifyEquation == \A d \in Nat : Simplify[d] = SimplifyTypes(d, Simplify[d - 1])
PROOF
<1>1. \A d, p : Step("simplify", 0, d, p) = SimplifyTypes(d, p)
  BY DEF Step
<1>2. \A p, q : SimplifyTypes(0, p) = SimplifyTypes(0, q)
  <2>1. \A t \in Declarations[0] : t.kind = "item"
    BY DeclarationHeights DEF Items
  <2> QED
    BY <2>1 DEF SimplifyTypes
<1>3. \E f : Follows(f, "simplify", 0)
  <2>1. \A p, q : Step("simplify", 0, 0, p) = Step("simplify", 0, 0, q)
    BY <1>1, <1>2
  <2> QED
    BY <2>1, Recursion
<1>4. \E f : f = [d \in Nat |-> SimplifyTypes(d, f[d - 1])]
  BY <1>1, <1>3 DEF Follows
<1>5. Simplify = [d \in Nat |-> SimplifyTypes(d, Simplify[d - 1])]
  BY <1>4, Zenon DEF Simplify, SimplifyTypes
<1> QED
  BY <1>5

LEMMA LayoutEquation == \A d \in Nat : Layout[d] = LayoutTypes(d, Layout[d - 1])
PROOF
<1>1. \A d, p : Step("layout", 0, d, p) = LayoutTypes(d, p)
  BY DEF Step
<1>2. \A p, q : LayoutTypes(0, p) = LayoutTypes(0, q)
  <2>1. \A t \in Declarations[0] : t.kind = "item"
    BY DeclarationHeights DEF Items
  <2>2. \A p, q : \A t \in Declarations[0] : ElementLayout(p, t) = ElementLayout(q, t)
    BY <2>1 DEF ElementLayout
  <2> QED
    BY <2>2 DEF LayoutTypes
<1>3. \E f : Follows(f, "layout", 0)
  <2>1. \A p, q : Step("layout", 0, 0, p) = Step("layout", 0, 0, q)
    BY <1>1, <1>2
  <2> QED
    BY <2>1, Recursion
<1>4. \E f : f = [d \in Nat |-> LayoutTypes(d, f[d - 1])]
  BY <1>1, <1>3 DEF Follows
<1>5. Layout = [d \in Nat |-> LayoutTypes(d, Layout[d - 1])]
  BY <1>4, Zenon DEF Layout, LayoutTypes
<1> QED
  BY <1>5

LEMMA UniformEquation == \A d \in Nat : Uniform[d] = UniformTypes(d, Uniform[d - 1])
PROOF
<1>1. \A d, p : Step("uniform", 0, d, p) = UniformTypes(d, p)
  BY DEF Step
<1>2. \A p, q : UniformTypes(0, p) = UniformTypes(0, q)
  <2>1. \A t \in Declarations[0] : DOMAIN t.members = {}
    BY DeclarationHeights DEF Items
  <2> DEFINE Over(p, t) ==
                 \A m \in DOMAIN t.members :
                    /\ p[t.members[m]]
                    /\ t.kind = "union" =>
                          \A k \in DOMAIN t.members :
                             Layout[0 - 1][t.members[k]].size = Layout[0 - 1][t.members[m]].size
  <2>2. \A p, q : \A t \in Declarations[0] : Over(p, t) = Over(q, t)
    BY <2>1
  <2>3. \A p : UniformTypes(0, p) = [t \in Declarations[0] |-> Over(p, t)]
    BY DEF UniformTypes
  <2> HIDE DEF Over
  <2> QED
    BY <2>2, <2>3
<1>3. \E f : Follows(f, "uniform", 0)
  <2>1. \A p, q : Step("uniform", 0, 0, p) = Step("uniform", 0, 0, q)
    BY <1>1, <1>2
  <2> QED
    BY <2>1, Recursion
<1>4. \E f : f = [d \in Nat |-> UniformTypes(d, f[d - 1])]
  BY <1>1, <1>3 DEF Follows
<1>5. Uniform = [d \in Nat |-> UniformTypes(d, Uniform[d - 1])]
  BY <1>4, Zenon DEF Uniform, UniformTypes
<1> QED
  BY <1>5

LEMMA VersionEquation == \A d \in Nat : Versions[d] = VersionTypes(d, Versions[d - 1])
PROOF
<1>1. \A d, p : Step("version", 0, d, p) = VersionTypes(d, p)
  BY DEF Step
<1>2. \A p, q : VersionTypes(0, p) = VersionTypes(0, q)
  <2>1. \A p \in Nodes[0] \X Declarations[0] : p[1].kind = "item"
    BY NodeHeights DEF ItemNodes
  <2>2. \A p, q : \A x \in Nodes[0] \X Declarations[0] : VersionOf(p, x[1], x[2]) <=> VersionOf(q, x[1], x[2])
    BY <2>1 DEF VersionOf
  <2> QED
    BY <2>2 DEF VersionTypes
<1>3. \E f : Follows(f, "version", 0)
  <2>1. \A p, q : Step("version", 0, 0, p) = Step("version", 0, 0, q)
    BY <1>1, <1>2
  <2> QED
    BY <2>1, Recursion
<1>4. \E f : f = [d \in Nat |-> VersionTypes(d, f[d - 1])]
  BY <1>1, <1>3 DEF Follows
<1>5. Versions = [d \in Nat |-> VersionTypes(d, Versions[d - 1])]
  BY <1>4, Zenon DEF Versions, VersionTypes
<1> QED
  BY <1>5

LEMMA LaidEquation == \A d \in Nat : Laid[d] = LaidTypes(d, Laid[d - 1])
PROOF
<1>1. \A d, p : Step("laid", 0, d, p) = LaidTypes(d, p)
  BY DEF Step
<1>2. \A p, q : LaidTypes(0, p) = LaidTypes(0, q)
  <2>1. \A x \in Nodes[0] \X Declarations[0] \X Nat : Len(x[2].members) = 0
    BY DeclarationHeights DEF Items
  <2>2. \A p, q : \A x \in Nodes[0] \X Declarations[0] \X Nat :
           LaidOver(0, p, x[1], x[2], x[3]) <=> LaidOver(0, q, x[1], x[2], x[3])
    BY <2>1 DEF LaidOver
  <2> QED
    BY <2>2 DEF LaidTypes
<1>3. \E f : Follows(f, "laid", 0)
  <2>1. \A p, q : Step("laid", 0, 0, p) = Step("laid", 0, 0, q)
    BY <1>1, <1>2
  <2> QED
    BY <2>1, Recursion
<1>4. \E f : f = [d \in Nat |-> LaidTypes(d, f[d - 1])]
  BY <1>1, <1>3 DEF Follows
<1>5. Laid = [d \in Nat |-> LaidTypes(d, Laid[d - 1])]
  BY <1>4, Zenon DEF Laid, LaidTypes
<1> QED
  BY <1>5

------------------------------------------------------------------------------
(***************************************************************************)
(* Types and nodes                                                         *)
(***************************************************************************)
LEMMA RangeBounds ==
    ASSUME NEW r \in Ranges
    PROVE  /\ Low(r) \in Int /\ High(r) \in Int /\ Low(r) <= High(r)
           /\ Upwards(r) => Low(r) = r.left /\ High(r) = r.right
           /\ ~Upwards(r) => Low(r) = r.right /\ High(r) = r.left
           /\ r.left \in Int /\ r.right \in Int /\ Upwards(r) \in BOOLEAN
PROOF
<1>1. r.left \in Int /\ r.right \in Int
  BY DEF Ranges
<1>2. CASE Upwards(r)
  <2>1. \A x \in {r.left, r.right} : r.left <= x /\ x <= r.right
    BY <1>1, <1>2 DEF Upwards
  <2>2. Low(r) \in {r.left, r.right} /\ \A y \in {r.left, r.right} : Low(r) <= y
    BY <2>1 DEF Low, Min
  <2>3. High(r) \in {r.left, r.right} /\ \A y \in {r.left, r.right} : High(r) >= y
    BY <1>1, <2>1 DEF High, Max
  <2> QED
    BY <1>1, <1>2, <2>2, <2>3 DEF Upwards
<1>3. CASE ~Upwards(r)
  <2>1. \A x \in {r.left, r.right} : r.right <= x /\ x <= r.left
    BY <1>1, <1>3 DEF Upwards
  <2>2. Low(r) \in {r.left, r.right} /\ \A y \in {r.left, r.right} : Low(r) <= y
    BY <2>1 DEF Low, Min
  <2>3. High(r) \in {r.left, r.right} /\ \A y \in {r.left, r.right} : High(r) >= y
    BY <1>1, <2>1 DEF High, Max
  <2> QED
    BY <1>1, <1>3, <2>2, <2>3 DEF Upwards
<1> QED
  BY <1>1, <1>2, <1>3 DEF Upwards

\* Ranges give as many dimensions, each of one element at least.
LEMMA DimensionsType ==
    ASSUME NEW rs \in Seq(Ranges)
    PROVE  /\ Dimensions(rs) \in Seq(Dimension) /\ Len(Dimensions(rs)) = Len(rs)
           /\ \A k \in 1 .. Len(rs) :
                 Dimensions(rs)[k] = [low |-> Low(rs[k]), width |-> High(rs[k]) - Low(rs[k]) + 1,
                                      swapped |-> Upwards(rs[k])]
PROOF
<1>1. Len(rs) \in Nat /\ DOMAIN rs = 1 .. Len(rs) /\ \A k \in 1 .. Len(rs) : rs[k] \in Ranges
  OBVIOUS
<1>2. \A k \in 1 .. Len(rs) :
         [low |-> Low(rs[k]), width |-> High(rs[k]) - Low(rs[k]) + 1, swapped |-> Upwards(rs[k])] \in Dimension
  BY <1>1, RangeBounds DEF Dimension
<1> QED
  BY <1>1, <1>2 DEF Dimensions

\* A product of numbers that are not 0.
LEMMA Times ==
    ASSUME NEW a \in Nat \ {0}, NEW b \in Nat \ {0}
    PROVE  a * b \in Nat \ {0}
PROOF
<1>1. a * b \in Nat
  OBVIOUS
<1>2. a * b # 0
  OBVIOUS
<1> QED
  BY <1>1, <1>2

LEMMA ProductsType ==
    ASSUME NEW dims \in Seq(Dimension)
    PROVE  \A k \in Nat : k <= Len(dims) => Products(dims)[k] \in Nat \ {0}
PROOF
<1> DEFINE T == {k \in Nat : k <= Len(dims) => Products(dims)[k] \in Nat \ {0}}
<1>1. Len(dims) \in Nat
  OBVIOUS
<1>2. 0 \in T
  BY <1>1, ProductRecursion
<1>3. ASSUME NEW k \in Nat, k \in T
      PROVE  k + 1 \in T
  <2>1. SUFFICES ASSUME k + 1 <= Len(dims) PROVE Products(dims)[k + 1] \in Nat \ {0}
    OBVIOUS
  <2>2. Products(dims)[k] \in Nat \ {0}
    BY <1>1, <1>3, <2>1
  <2>3. dims[k + 1].width \in Nat \ {0}
    <3>1. k + 1 \in 1 .. Len(dims)
      BY <2>1
    <3>2. dims[k + 1] \in Dimension
      BY <3>1
    <3> QED
      BY <3>2 DEF Dimension
  <2>4. Products(dims)[k + 1] = Products(dims)[k] * dims[k + 1].width
    BY <1>1, <2>1, ProductRecursion
  <2> HIDE DEF T
  <2> QED
    BY <2>2, <2>3, <2>4, Times
<1> HIDE DEF T
<1>4. \A k \in Nat : k \in T
  BY <1>2, <1>3, Induct
<1> QED
  BY <1>4 DEF T

LEMMA ElementsType ==
    ASSUME NEW dims \in Seq(Dimension)
    PROVE  Elements(dims) \in Nat \ {0}
PROOF
<1>1. Len(dims) \in Nat
  OBVIOUS
<1> QED
  BY <1>1, ProductsType DEF Elements

\* The fields of a type.
LEMMA DeclarationFacts ==
    ASSUME NEW d \in Nat, NEW t \in Declarations[d]
    PROVE  /\ t.ranges \in Seq(Ranges)
           /\ t.kind \in {"item"} \cup Aggregates
           /\ t.kind = "item" => t.members = <<>>
           /\ t.kind # "item" => /\ d - 1 \in Nat /\ t.members \in Seq(Declarations[d - 1])
                                 /\ Len(t.members) \in Nat \ {0}
                                 /\ DOMAIN t.members = 1 .. Len(t.members)
                                 /\ \A k \in 1 .. Len(t.members) : t.members[k] \in Declarations[d - 1]
PROOF
<1>1. CASE t \in Items
  BY <1>1 DEF Items
<1>2. CASE t \notin Items
  <2>1. d # 0
    BY <1>2, DeclarationHeights
  <2>2. d - 1 \in Nat /\ d = (d - 1) + 1
    BY <2>1
  <2>3. t \in [kind : Aggregates, ranges : Seq(Ranges), members : Some(Declarations[d - 1])]
    <3>1. Declarations[(d - 1) + 1] = Items \cup [kind : Aggregates, ranges : Seq(Ranges), members : Some(Declarations[d - 1])]
      BY <2>2, DeclarationHeights
    <3> QED
      BY <1>2, <2>2, <3>1
  <2>4. t.members \in Seq(Declarations[d - 1]) /\ t.members # <<>>
    BY <2>3 DEF Some
  <2>5. Len(t.members) \in Nat \ {0}
    BY <2>4
  <2> QED
    BY <2>2, <2>3, <2>4, <2>5 DEF Aggregates
<1> QED
  BY <1>1, <1>2

\* The fields of a node.
LEMMA NodeFacts ==
    ASSUME NEW d \in Nat, NEW n \in Nodes[d]
    PROVE  /\ n.kind = "item" <=> n \in ItemNodes
           /\ n \in [kind : {"item"} \cup Aggregates, ranges : Seq(Ranges), members : {n.members},
                     dims : Seq(Dimension), left : Int, right : Nat]
           /\ n.kind = "item" => n.members = <<>>
           /\ n.kind # "item" => /\ d - 1 \in Nat /\ n.members \in Seq(Nodes[d - 1])
                                 /\ Len(n.members) \in Nat \ {0}
                                 /\ DOMAIN n.members = 1 .. Len(n.members)
                                 /\ \A k \in 1 .. Len(n.members) : n.members[k] \in Nodes[d - 1]
PROOF
<1>1. CASE n \in ItemNodes
  BY <1>1 DEF ItemNodes
<1>2. CASE n \notin ItemNodes
  <2>1. d # 0
    BY <1>2, NodeHeights
  <2>2. d - 1 \in Nat /\ d = (d - 1) + 1
    BY <2>1
  <2>3. n \in [kind : Aggregates, ranges : Seq(Ranges), members : Some(Nodes[d - 1]),
               dims : Seq(Dimension), left : Int, right : Nat]
    <3>1. Nodes[(d - 1) + 1] = ItemNodes \cup [kind : Aggregates, ranges : Seq(Ranges), members : Some(Nodes[d - 1]),
                                              dims : Seq(Dimension), left : Int, right : Nat]
      BY <2>2, NodeHeights
    <3> QED
      BY <1>2, <2>2, <3>1
  <2>4. n.members \in Seq(Nodes[d - 1]) /\ n.members # <<>>
    BY <2>3 DEF Some
  <2>5. Len(n.members) \in Nat \ {0}
    BY <2>4
  <2> QED
    BY <1>2, <2>2, <2>3, <2>4, <2>5 DEF Aggregates
<1> QED
  BY <1>1, <1>2

\* What makes a node of height d.
LEMMA NodeMade ==
    ASSUME NEW d \in Nat, d # 0, NEW kind \in Aggregates, NEW members \in Some(Nodes[d - 1]),
           NEW ranges \in Seq(Ranges), NEW dims \in Seq(Dimension), NEW left \in Int, NEW right \in Nat
    PROVE  [kind |-> kind, ranges |-> ranges, members |-> members,
            dims |-> dims, left |-> left, right |-> right] \in Nodes[d]
PROOF
<1>1. d - 1 \in Nat /\ d = (d - 1) + 1
  OBVIOUS
<1>2. [kind : Aggregates, ranges : Seq(Ranges), members : Some(Nodes[d - 1]),
       dims : Seq(Dimension), left : Int, right : Nat] \subseteq Nodes[(d - 1) + 1]
  BY <1>1, NodeHeights
<1> QED
  BY <1>1, <1>2

LEMMA PlaceIs ==
    ASSUME NEW d \in Nat, NEW s \in Nodes[d], s.kind # "item", NEW base \in Nat
    PROVE  Place[d][s][base] = PlaceMembers(Place[d - 1], s, base)
PROOF
<1>1. s \in Nodes[d] \ ItemNodes
  BY NodeFacts
<1>2. Place[d] = [n \in Nodes[d] \ ItemNodes |-> [b \in Nat |-> PlaceMembers(Place[d - 1], n, b)]]
  BY PlaceEquation, Zenon DEF PlaceTypes
<1>3. Place[d][s] = [b \in Nat |-> PlaceMembers(Place[d - 1], s, b)]
  BY <1>1, <1>2, Zenon
<1> QED
  BY <1>3, Zenon

LEMMA SimplifyIs ==
    ASSUME NEW d \in Nat, NEW t \in Declarations[d]
    PROVE  /\ t.kind = "item" =>
                 Simplify[d][t] = Placed(ConvertItem(Node("item", t.ranges, <<>>)), 0, TRUE)
           /\ t.kind # "item" => Simplify[d][t] = SimplifyMembers(Simplify[d - 1], Place[d], t)
PROOF
<1>1. Simplify[d] = [s \in Declarations[d] |->
                        IF s.kind = "item" THEN Placed(ConvertItem(Node("item", s.ranges, <<>>)), 0, TRUE)
                        ELSE SimplifyMembers(Simplify[d - 1], Place[d], s)]
  BY SimplifyEquation, Zenon DEF SimplifyTypes
<1>2. Simplify[d][t] = IF t.kind = "item" THEN Placed(ConvertItem(Node("item", t.ranges, <<>>)), 0, TRUE)
                       ELSE SimplifyMembers(Simplify[d - 1], Place[d], t)
  BY <1>1, Zenon
<1> QED
  BY <1>2

LEMMA LayoutIs ==
    ASSUME NEW d \in Nat, NEW t \in Declarations[d]
    PROVE  Layout[d][t] = ArrayLayout(t.ranges, ElementLayout(Layout[d - 1], t))
PROOF
<1>1. Layout[d] = [s \in Declarations[d] |-> ArrayLayout(s.ranges, ElementLayout(Layout[d - 1], s))]
  BY LayoutEquation, Zenon DEF LayoutTypes
<1> QED
  BY <1>1, Zenon

LEMMA UniformIs ==
    ASSUME NEW d \in Nat, NEW t \in Declarations[d]
    PROVE  Uniform[d][t] <=> \A m \in DOMAIN t.members :
                                /\ Uniform[d - 1][t.members[m]]
                                /\ t.kind = "union" =>
                                      \A k \in DOMAIN t.members :
                                         Layout[d - 1][t.members[k]].size = Layout[d - 1][t.members[m]].size
PROOF
<1> DEFINE Over(s) == \A m \in DOMAIN s.members :
                         /\ Uniform[d - 1][s.members[m]]
                         /\ s.kind = "union" =>
                               \A k \in DOMAIN s.members :
                                  Layout[d - 1][s.members[k]].size = Layout[d - 1][s.members[m]].size
<1>1. Uniform[d] = [s \in Declarations[d] |-> Over(s)]
  BY UniformEquation, Zenon DEF UniformTypes
<1>2. Uniform[d][t] = Over(t)
  <2> HIDE DEF Over
  <2> QED
    BY <1>1
<1> QED
  BY <1>2

------------------------------------------------------------------------------
(***************************************************************************)
(* Sizes                                                                   *)
(***************************************************************************)
LEMMA Monotone ==
    ASSUME NEW a \in Int, NEW b \in Int, NEW e \in Nat, a <= b
    PROVE  a * e \in Int /\ b * e \in Int /\ a * e <= b * e
PROOF
<1>1. PICK d \in Nat : b = a + d
  <2>1. b - a \in Nat /\ b = a + (b - a)
    OBVIOUS
  <2> QED
    BY <2>1
<1>2. (a + d) * e = a * e + d * e
  OBVIOUS
<1>3. d * e \in Nat /\ a * e \in Int
  OBVIOUS
<1> QED
  BY <1>1, <1>2, <1>3

LEMMA Plus1 ==
    ASSUME NEW a \in Int, NEW e \in Nat
    PROVE  a * e \in Int /\ (a + 1) * e = a * e + e
  OBVIOUS

\* The i-th of w parts of e bits each begins and ends in the whole.
LEMMA PartInWhole ==
    ASSUME NEW e \in Nat, NEW w \in Int, NEW i \in Int, 0 <= i, i < w
    PROVE  i * e \in Nat /\ w * e \in Nat /\ i * e + e <= w * e
PROOF
<1>1. 0 * e <= i * e /\ 0 * e = 0 /\ i * e \in Int
  BY Monotone
<1>2. (i + 1) * e <= w * e /\ w * e \in Int
  BY Monotone
<1>3. (i + 1) * e = i * e + e
  BY Plus1
<1> QED
  BY <1>1, <1>2, <1>3

LayoutType == [size : Nat \ {0}, names : SUBSET (Nat \X Seq(Int))]

LEMMA UnderType ==
    ASSUME NEW x \in Int, NEW offset \in Nat, NEW names \in SUBSET (Nat \X Seq(Int))
    PROVE  Under(x, offset, names) \in SUBSET (Nat \X Seq(Int))
PROOF
<1>1. ASSUME NEW bit \in names
      PROVE  <<offset + bit[1], <<x>> \o bit[2]>> \in Nat \X Seq(Int)
  <2>1. bit[1] \in Nat /\ bit[2] \in Seq(Int)
    OBVIOUS
  <2>2. <<x>> \in Seq(Int)
    OBVIOUS
  <2>3. <<x>> \o bit[2] \in Seq(Int) /\ offset + bit[1] \in Nat
    BY <2>1, <2>2
  <2> QED
    BY <2>3
<1> QED
  BY <1>1 DEF Under

LEMMA ToTheRightType ==
    ASSUME NEW r \in Ranges, NEW i \in Low(r) .. High(r)
    PROVE  ToTheRight(r, i) \in Nat /\ ToTheRight(r, i) < High(r) - Low(r) + 1
  BY RangeBounds DEF ToTheRight

LEMMA ArrayType ==
    ASSUME NEW r \in Ranges, NEW part \in LayoutType
    PROVE  /\ Array(r, part) \in LayoutType
           /\ Array(r, part).size = (High(r) - Low(r) + 1) * part.size
           /\ Array(r, part).names
              = UNION {Under(i, ToTheRight(r, i) * part.size, part.names) : i \in Low(r) .. High(r)}
PROOF
<1>1. part.size \in Nat \ {0} /\ part.names \in SUBSET (Nat \X Seq(Int))
  BY DEF LayoutType
<1>2. High(r) - Low(r) + 1 \in Nat \ {0}
  BY RangeBounds
<1>3. (High(r) - Low(r) + 1) * part.size \in Nat \ {0}
  BY <1>1, <1>2, Times
<1>4. ASSUME NEW i \in Low(r) .. High(r)
      PROVE  Under(i, ToTheRight(r, i) * part.size, part.names) \in SUBSET (Nat \X Seq(Int))
  <2>1. ToTheRight(r, i) * part.size \in Nat
    <3>1. ToTheRight(r, i) \in Nat
      BY ToTheRightType
    <3> QED
      BY <1>1, <3>1
  <2>2. i \in Int
    BY RangeBounds
  <2> QED
    BY <1>1, <2>1, <2>2, UnderType
<1>5. UNION {Under(i, ToTheRight(r, i) * part.size, part.names) : i \in Low(r) .. High(r)}
      \in SUBSET (Nat \X Seq(Int))
  BY <1>4
<1> QED
  BY <1>3, <1>5 DEF Array, LayoutType

\* The layout of an array, as large as all its elements.
LEMMA ArrayedType ==
    ASSUME NEW rs \in Seq(Ranges), NEW element \in LayoutType
    PROVE  \A k \in Nat : k <= Len(rs) =>
              /\ Arrayed(rs, element)[k] \in LayoutType
              /\ Products(Dimensions(rs))[Len(rs) - k] * Arrayed(rs, element)[k].size
                 = Elements(Dimensions(rs)) * element.size
PROOF
<1> DEFINE dims == Dimensions(rs)
           array == Arrayed(rs, element)
           n == Len(rs)
           T == {k \in Nat : k <= n => /\ array[k] \in LayoutType
                                       /\ Products(dims)[n - k] * array[k].size = Elements(dims) * element.size}
<1>1. n \in Nat /\ dims \in Seq(Dimension) /\ Len(dims) = n
  BY DimensionsType
<1>2. 0 \in T
  <2>1. array[0] = element
    BY <1>1, ArrayRecursion
  <2> QED
    BY <1>1, <2>1 DEF Elements
<1>3. ASSUME NEW k \in Nat, k \in T
      PROVE  k + 1 \in T
  <2>1. SUFFICES ASSUME k + 1 <= n
                 PROVE  /\ array[k + 1] \in LayoutType
                        /\ Products(dims)[n - (k + 1)] * array[k + 1].size = Elements(dims) * element.size
    OBVIOUS
  <2> DEFINE r == rs[n - k]
             w == High(r) - Low(r) + 1
             j == n - (k + 1)
  <2>2. j \in Nat /\ j + 1 = n - k /\ j < n /\ n - k \in 1 .. n
    BY <1>1, <2>1
  <2>3. r \in Ranges
    BY <2>2
  <2>4. array[k] \in LayoutType /\ Products(dims)[n - k] * array[k].size = Elements(dims) * element.size
    BY <1>1, <1>3, <2>1
  <2>5. array[k + 1] = Array(r, array[k])
    BY <1>1, <2>1, ArrayRecursion
  <2>6. array[k + 1] \in LayoutType /\ array[k + 1].size = w * array[k].size
    BY <2>3, <2>4, <2>5, ArrayType
  <2>7. Products(dims)[n - k] = Products(dims)[j] * w
    <3>1. dims[j + 1].width = w
      <4>1. j + 1 \in 1 .. n /\ rs[j + 1] = r
        BY <2>2
      <4>2. dims[j + 1] = [low |-> Low(rs[j + 1]), width |-> High(rs[j + 1]) - Low(rs[j + 1]) + 1,
                           swapped |-> Upwards(rs[j + 1])]
        BY <4>1, DimensionsType
      <4> QED
        BY <4>1, <4>2
    <3>2. Products(dims)[j + 1] = Products(dims)[j] * dims[j + 1].width
      BY <1>1, <2>2, ProductRecursion
    <3> QED
      BY <2>2, <3>1, <3>2
  <2>8. Products(dims)[j] \in Nat /\ w \in Int /\ array[k].size \in Nat
    <3>1. Products(dims)[j] \in Nat \ {0}
      <4>1. j \in Nat /\ j <= Len(dims)
        BY <1>1, <2>2
      <4> HIDE DEF dims, j
      <4> QED
        BY <1>1, <4>1, ProductsType
    <3>2. w \in Int
      BY <2>3, RangeBounds
    <3>3. array[k].size \in Nat
      <4> HIDE DEF array
      <4> QED
        BY <2>4 DEF LayoutType
    <3> QED
      BY <3>1, <3>2, <3>3
  <2>9. \A x, z \in Nat, y \in Int : x * (y * z) = (x * y) * z
    OBVIOUS
  <2>10. Products(dims)[j] * (w * array[k].size) = (Products(dims)[j] * w) * array[k].size
    <3> HIDE DEF w, j, array, dims
    <3> QED
      BY <2>8, <2>9
  <2> QED
    BY <2>4, <2>6, <2>7, <2>10
<1> HIDE DEF T
<1>4. \A k \in Nat : k \in T
  BY <1>2, <1>3, Induct
<1> QED
  BY <1>4 DEF T

LEMMA ArrayLayoutType ==
    ASSUME NEW rs \in Seq(Ranges), NEW element \in LayoutType
    PROVE  /\ ArrayLayout(rs, element) \in LayoutType
           /\ ArrayLayout(rs, element).size = Elements(Dimensions(rs)) * element.size
PROOF
<1>1. Len(rs) \in Nat /\ Len(Dimensions(rs)) = Len(rs) /\ Len(rs) - Len(rs) = 0
  BY DimensionsType
<1>2. Products(Dimensions(rs))[0] = 1
  BY <1>1, ProductRecursion
<1>3. /\ Arrayed(rs, element)[Len(rs)] \in LayoutType
      /\ Products(Dimensions(rs))[Len(rs) - Len(rs)] * Arrayed(rs, element)[Len(rs)].size
         = Elements(Dimensions(rs)) * element.size
  BY <1>1, ArrayedType
<1>4. Arrayed(rs, element)[Len(rs)].size \in Nat
  BY <1>3 DEF LayoutType
<1>5. 1 * Arrayed(rs, element)[Len(rs)].size = Arrayed(rs, element)[Len(rs)].size
  BY <1>4
<1> QED
  BY <1>1, <1>2, <1>3, <1>5 DEF ArrayLayout

Sized(layout, members) == \A k \in 1 .. Len(members) : layout[members[k]] \in LayoutType

LEMMA SizesType ==
    ASSUME NEW layout, NEW members, Len(members) \in Nat, Sized(layout, members)
    PROVE  \A k \in Nat : k <= Len(members) =>
              /\ Sizes(layout, members)[k] \in Nat
              /\ k # 0 => Sizes(layout, members)[k] # 0
PROOF
<1> DEFINE T == {k \in Nat : k <= Len(members) => /\ Sizes(layout, members)[k] \in Nat
                                                  /\ k # 0 => Sizes(layout, members)[k] # 0}
<1>1. 0 \in T
  BY SizeRecursion
<1>2. ASSUME NEW k \in Nat, k \in T
      PROVE  k + 1 \in T
  <2>1. SUFFICES ASSUME k + 1 <= Len(members)
                 PROVE  Sizes(layout, members)[k + 1] \in Nat \ {0}
    OBVIOUS
  <2>2. Len(members) - k \in 1 .. Len(members)
    BY <2>1
  <2>3. layout[members[Len(members) - k]].size \in Nat \ {0}
    BY <2>2 DEF Sized, LayoutType
  <2>4. Sizes(layout, members)[k] \in Nat
    BY <1>2, <2>1
  <2>5. Sizes(layout, members)[k + 1]
        = Sizes(layout, members)[k] + layout[members[Len(members) - k]].size
    BY <2>1, SizeRecursion
  <2> QED
    BY <2>3, <2>4, <2>5
<1> HIDE DEF T
<1>3. \A k \in Nat : k \in T
  BY <1>1, <1>2, Induct
<1> QED
  BY <1>3 DEF T

\* Further members need more bits.
LEMMA SizesGrow ==
    ASSUME NEW layout, NEW members, Len(members) \in Nat, Sized(layout, members),
           NEW k \in Nat, NEW j \in Nat, k <= j, j <= Len(members)
    PROVE  Sizes(layout, members)[k] <= Sizes(layout, members)[j]
PROOF
<1> DEFINE T == {i \in Nat : k + i <= Len(members)
                             => Sizes(layout, members)[k] <= Sizes(layout, members)[k + i]}
<1>1. 0 \in T
  BY SizesType
<1>2. ASSUME NEW i \in Nat, i \in T
      PROVE  i + 1 \in T
  <2>1. SUFFICES ASSUME k + (i + 1) <= Len(members)
                 PROVE  Sizes(layout, members)[k] <= Sizes(layout, members)[k + (i + 1)]
    OBVIOUS
  <2>2. k + i \in Nat /\ k + i < Len(members) /\ (k + i) + 1 = k + (i + 1) /\ k <= Len(members)
        /\ Len(members) - (k + i) \in 1 .. Len(members)
    BY <2>1
  <2>3. layout[members[Len(members) - (k + i)]].size \in Nat
    BY <2>2 DEF Sized, LayoutType
  <2>4. Sizes(layout, members)[k + i] \in Nat /\ Sizes(layout, members)[k] \in Nat
    BY <2>2, SizesType
  <2>5. Sizes(layout, members)[(k + i) + 1]
        = Sizes(layout, members)[k + i] + layout[members[Len(members) - (k + i)]].size
    BY <2>2, SizeRecursion
  <2>6. Sizes(layout, members)[k] <= Sizes(layout, members)[k + i]
    BY <1>2, <2>2
  <2> QED
    BY <2>2, <2>3, <2>4, <2>5, <2>6
<1> HIDE DEF T
<1>3. \A i \in Nat : i \in T
  BY <1>1, <1>2, Induct
<1>4. j - k \in Nat /\ k + (j - k) = j
  OBVIOUS
<1> QED
  BY <1>3, <1>4 DEF T

\* The layout of one element of a type has a size and names.
LEMMA ElementType ==
    ASSUME NEW layout, NEW t, t.kind \in {"item"} \cup Aggregates,
           t.kind # "item" => Len(t.members) \in Nat \ {0} /\ Sized(layout, t.members)
    PROVE  /\ ElementLayout(layout, t) \in LayoutType
           /\ t.kind = "item" => ElementLayout(layout, t) = OneBit
           /\ t.kind = "struct" => ElementLayout(layout, t).size = Sizes(layout, t.members)[Len(t.members)]
           /\ t.kind = "union" => ElementLayout(layout, t).size = layout[t.members[Len(t.members)]].size
           /\ t.kind # "item" =>
                 ElementLayout(layout, t).names
                 = UNION {Under(m, Lowest(layout, t, m), layout[t.members[m]].names) : m \in 1 .. Len(t.members)}
PROOF
<1>1. CASE t.kind = "item"
  <2>1. OneBit \in LayoutType
    <3>1. <<>> \in Seq(Int) /\ 0 \in Nat
      OBVIOUS
    <3>2. <<0, <<>>>> \in Nat \X Seq(Int)
      BY <3>1
    <3> QED
      BY <3>2 DEF OneBit, LayoutType
  <2> QED
    BY <1>1, <2>1 DEF ElementLayout
<1>2. CASE t.kind # "item"
  <2> DEFINE n == Len(t.members)
             size == IF t.kind = "union" THEN layout[t.members[n]].size ELSE Sizes(layout, t.members)[n]
             names == UNION {Under(m, Lowest(layout, t, m), layout[t.members[m]].names) : m \in 1 .. n}
  <2>1. ElementLayout(layout, t) = [size |-> size, names |-> names]
    BY <1>2 DEF ElementLayout
  <2>2. n \in Nat \ {0} /\ Sized(layout, t.members) /\ n \in 1 .. n
    BY <1>2
  <2>3. size \in Nat \ {0}
    <3>1. layout[t.members[n]].size \in Nat \ {0}
      BY <2>2 DEF Sized, LayoutType
    <3>2. Sizes(layout, t.members)[n] \in Nat \ {0}
      BY <2>2, SizesType
    <3> QED
      BY <3>1, <3>2
  <2>4. ASSUME NEW m \in 1 .. n
        PROVE  Under(m, Lowest(layout, t, m), layout[t.members[m]].names) \in SUBSET (Nat \X Seq(Int))
    <3>1. n - m \in Nat /\ n - m <= n /\ m \in Int
      BY <2>2
    <3>2. Lowest(layout, t, m) \in Nat
      BY <2>2, <3>1, SizesType DEF Lowest
    <3>3. layout[t.members[m]].names \in SUBSET (Nat \X Seq(Int))
      BY <2>2 DEF Sized, LayoutType
    <3> QED
      BY <3>1, <3>2, <3>3, UnderType
  <2>5. names \in SUBSET (Nat \X Seq(Int))
    BY <2>4
  <2> HIDE DEF size, names
  <2>6. [size |-> size, names |-> names] \in LayoutType
    BY <2>3, <2>5 DEF LayoutType
  <2> QED
    BY <1>2, <2>1, <2>6 DEF size, names, Aggregates
<1> QED
  BY <1>1, <1>2

\* Every type has a layout.
LEMMA LayoutTyped == \A d \in Nat : \A t \in Declarations[d] : Layout[d][t] \in LayoutType
PROOF
<1> DEFINE T == {d \in Nat : \A t \in Declarations[d] : Layout[d][t] \in LayoutType}
<1>1. ASSUME NEW d \in Nat, d # 0 => d - 1 \in T, NEW t \in Declarations[d]
      PROVE  Layout[d][t] \in LayoutType
  <2>1. t.kind \in {"item"} \cup Aggregates /\ t.ranges \in Seq(Ranges)
    BY DeclarationFacts
  <2>2. t.kind # "item" => Len(t.members) \in Nat \ {0} /\ Sized(Layout[d - 1], t.members)
    <3>1. SUFFICES ASSUME t.kind # "item"
                   PROVE  Len(t.members) \in Nat \ {0} /\ Sized(Layout[d - 1], t.members)
      OBVIOUS
    <3>2. d - 1 \in Nat /\ Len(t.members) \in Nat \ {0}
          /\ \A k \in 1 .. Len(t.members) : t.members[k] \in Declarations[d - 1]
      BY <3>1, DeclarationFacts
    <3>3. d - 1 \in T
      BY <1>1, <3>2
    <3> QED
      BY <3>2, <3>3 DEF Sized
  <2>3. ElementLayout(Layout[d - 1], t) \in LayoutType
    BY <2>1, <2>2, ElementType
  <2> HIDE DEF T
  <2> QED
    BY <2>1, <2>3, ArrayLayoutType, LayoutIs
<1>2. 0 \in T
  BY <1>1
<1>3. ASSUME NEW d \in Nat, d \in T
      PROVE  d + 1 \in T
  <2>1. d + 1 \in Nat /\ (d + 1) - 1 = d
    OBVIOUS
  <2>2. \A t \in Declarations[d + 1] : Layout[d + 1][t] \in LayoutType
    <3> HIDE DEF T
    <3> QED
      BY <1>1, <1>3, <2>1
  <2> QED
    BY <2>1, <2>2
<1> HIDE DEF T
<1>4. \A d \in Nat : d \in T
  BY <1>2, <1>3, Induct
<1> QED
  BY <1>4 DEF T

\* Bits of one element of a type.
ElementSize(d, t) == ElementLayout(Layout[d - 1], t).size

LEMMA MembersSized ==
    ASSUME NEW d \in Nat, NEW t \in Declarations[d], t.kind # "item"
    PROVE  Sized(Layout[d - 1], t.members)
PROOF
<1>1. d - 1 \in Nat /\ \A k \in 1 .. Len(t.members) : t.members[k] \in Declarations[d - 1]
  BY DeclarationFacts
<1> QED
  BY <1>1, LayoutTyped DEF Sized

LEMMA Element ==
    ASSUME NEW d \in Nat, NEW t \in Declarations[d]
    PROVE  /\ ElementLayout(Layout[d - 1], t) \in LayoutType
           /\ ElementSize(d, t) \in Nat \ {0}
           /\ t.kind = "item" => ElementSize(d, t) = 1
           /\ t.kind = "struct" => ElementSize(d, t) = Sizes(Layout[d - 1], t.members)[Len(t.members)]
           /\ t.kind = "union" => ElementSize(d, t) = Layout[d - 1][t.members[Len(t.members)]].size
           /\ Layout[d][t].size = Elements(Dimensions(t.ranges)) * ElementSize(d, t)
PROOF
<1>1. t.kind \in {"item"} \cup Aggregates /\ t.ranges \in Seq(Ranges)
      /\ (t.kind # "item" => Len(t.members) \in Nat \ {0} /\ Sized(Layout[d - 1], t.members))
  BY DeclarationFacts, MembersSized
<1>2. /\ ElementLayout(Layout[d - 1], t) \in LayoutType
      /\ t.kind = "item" => ElementLayout(Layout[d - 1], t) = OneBit
      /\ t.kind = "struct" => ElementSize(d, t) = Sizes(Layout[d - 1], t.members)[Len(t.members)]
      /\ t.kind = "union" => ElementSize(d, t) = Layout[d - 1][t.members[Len(t.members)]].size
  BY <1>1, ElementType DEF ElementSize
<1>3. ElementSize(d, t) \in Nat \ {0}
  BY <1>2 DEF ElementSize, LayoutType
<1>4. Layout[d][t].size = Elements(Dimensions(t.ranges)) * ElementSize(d, t)
  BY <1>1, <1>2, ArrayLayoutType, LayoutIs DEF ElementSize
<1>5. t.kind = "item" => ElementSize(d, t) = 1
  BY <1>2 DEF ElementSize, OneBit
<1> QED
  BY <1>2, <1>3, <1>4, <1>5

------------------------------------------------------------------------------
(***************************************************************************)
(* Placing                                                                 *)
(***************************************************************************)
LEMMA VersionIs ==
    ASSUME NEW d \in Nat, NEW n, NEW t
    PROVE  <<n, t>> \in Versions[d]
           <=> n \in Nodes[d] /\ t \in Declarations[d] /\ VersionOf(Versions[d - 1], n, t)
PROOF
<1>1. Versions[d] = {p \in Nodes[d] \X Declarations[d] : VersionOf(Versions[d - 1], p[1], p[2])}
  BY VersionEquation, Zenon DEF VersionTypes
<1>2. <<n, t>> \in Nodes[d] \X Declarations[d] <=> n \in Nodes[d] /\ t \in Declarations[d]
  OBVIOUS
<1>3. <<n, t>>[1] = n /\ <<n, t>>[2] = t
  OBVIOUS
<1>4. <<n, t>> \in Versions[d] <=> /\ <<n, t>> \in Nodes[d] \X Declarations[d]
                                   /\ VersionOf(Versions[d - 1], <<n, t>>[1], <<n, t>>[2])
  BY <1>1, Zenon
<1> QED
  BY <1>2, <1>3, <1>4, Zenon

LEMMA LaidIs ==
    ASSUME NEW d \in Nat, NEW n, NEW t, NEW base
    PROVE  <<n, t, base>> \in Laid[d]
           <=> /\ n \in Nodes[d] /\ t \in Declarations[d] /\ base \in Nat
               /\ LaidOver(d, Laid[d - 1], n, t, base)
PROOF
<1>1. Laid[d] = {p \in Nodes[d] \X Declarations[d] \X Nat : LaidOver(d, Laid[d - 1], p[1], p[2], p[3])}
  BY LaidEquation, Zenon DEF LaidTypes
<1>2. <<n, t, base>> \in Nodes[d] \X Declarations[d] \X Nat
      <=> n \in Nodes[d] /\ t \in Declarations[d] /\ base \in Nat
  OBVIOUS
<1>3. <<n, t, base>>[1] = n /\ <<n, t, base>>[2] = t /\ <<n, t, base>>[3] = base
  OBVIOUS
<1>4. <<n, t, base>> \in Laid[d]
      <=> /\ <<n, t, base>> \in Nodes[d] \X Declarations[d] \X Nat
          /\ LaidOver(d, Laid[d - 1], <<n, t, base>>[1], <<n, t, base>>[2], <<n, t, base>>[3])
  BY <1>1, Zenon
<1> QED
  BY <1>2, <1>3, <1>4, Zenon

\* m is n, moved to the width bits from bit right.
Moved(d, n, m, right, width) ==
    /\ m \in Nodes[d]
    /\ m.kind = n.kind /\ m.ranges = n.ranges /\ m.members = n.members /\ m.dims = n.dims
    /\ m.right = right /\ m.left = right + width - 1

LEMMA AtIs ==
    ASSUME NEW d \in Nat, NEW n \in Nodes[d], NEW right \in Nat, NEW width \in Nat \ {0}
    PROVE  Moved(d, n, At(n, right, width), right, width)
PROOF
<1> DEFINE m == At(n, right, width)
<1>1. /\ n \in [kind : {"item"} \cup Aggregates, ranges : Seq(Ranges), members : {n.members},
                dims : Seq(Dimension), left : Int, right : Nat]
      /\ n.kind = "item" <=> n \in ItemNodes
      /\ n.kind = "item" => n.members = <<>>
      /\ n.kind # "item" => d - 1 \in Nat /\ n.members \in Some(Nodes[d - 1])
  BY NodeFacts DEF Some
<1>2. m = [kind |-> n.kind, ranges |-> n.ranges, members |-> n.members,
           dims |-> n.dims, left |-> right + width - 1, right |-> right]
  <2>1. n = [kind |-> n.kind, ranges |-> n.ranges, members |-> n.members,
             dims |-> n.dims, left |-> n.left, right |-> n.right]
    BY <1>1
  <2>2. m = [n EXCEPT !.right = right, !.left = right + width - 1]
    BY DEF At
  <2> HIDE DEF m
  <2> QED
    BY <2>1, <2>2
<1>3. right + width - 1 \in Int
  OBVIOUS
<1>4. m \in Nodes[d]
  <2>1. CASE n.kind = "item"
    <3>1. m \in ItemNodes
      <4>1. n.kind \in {"item"} /\ n.ranges \in Seq(Ranges) /\ n.members \in {<<>>}
            /\ n.dims \in Seq(Dimension) /\ right \in Nat
        BY <1>1, <2>1
      <4> HIDE DEF m
      <4> QED
        BY <1>2, <1>3, <4>1 DEF ItemNodes
    <3>2. ItemNodes \subseteq Nodes[d]
      <4>1. CASE d = 0
        BY <4>1, NodeHeights
      <4>2. CASE d # 0
        <5>1. d - 1 \in Nat /\ d = (d - 1) + 1
          BY <4>2
        <5>2. ItemNodes \subseteq Nodes[(d - 1) + 1]
          BY <5>1, NodeHeights
        <5> QED
          BY <5>1, <5>2
      <4> QED
        BY <4>1, <4>2
    <3> QED
      BY <3>1, <3>2
  <2>2. CASE n.kind # "item"
    <3>1. d # 0 /\ n.kind \in Aggregates /\ n.ranges \in Seq(Ranges) /\ n.dims \in Seq(Dimension)
      BY <1>1, <2>2
    <3>2. n.members \in Some(Nodes[d - 1])
      BY <1>1, <2>2
    <3>3. [kind |-> n.kind, ranges |-> n.ranges, members |-> n.members,
           dims |-> n.dims, left |-> right + width - 1, right |-> right] \in Nodes[d]
      BY <1>3, <3>1, <3>2, NodeMade, Zenon
    <3> HIDE DEF m
    <3> QED
      BY <1>2, <3>3, Zenon
  <2> QED
    BY <2>1, <2>2
<1> HIDE DEF m
<1>5. Moved(d, n, m, right, width)
  BY <1>2, <1>4 DEF Moved
<1> QED
  BY <1>5 DEF m

\* A type without ranges has no dimensions.
LEMMA NoDimensions ==
    /\ Dimensions(<<>>) = <<>>
    /\ \A dims \in Seq(Dimension) : dims \o Dimensions(<<>>) = dims
PROOF
<1>1. <<>> \in Seq(Ranges) /\ Len(<<>>) = 0
  OBVIOUS
<1>2. Dimensions(<<>>) \in Seq(Dimension) /\ Len(Dimensions(<<>>)) = 0
  BY <1>1, DimensionsType
<1>3. Dimensions(<<>>) = <<>>
  <2> DEFINE none == Dimensions(<<>>)
  <2> HIDE DEF none
  <2>1. none = <<>>
    BY <1>2 DEF none
  <2> QED
    BY <2>1 DEF none
<1>4. \A dims \in Seq(Dimension) : dims \o <<>> = dims
  OBVIOUS
<1> QED
  BY <1>3, <1>4

\* A node stays one of its type when it gets a range.
LEMMA AtVersion ==
    ASSUME NEW d \in Nat, NEW n, NEW t, <<n, t>> \in Versions[d],
           NEW right \in Nat, NEW width \in Nat \ {0}, n.kind = "item" => width = Elements(n.dims)
    PROVE  <<At(n, right, width), t>> \in Versions[d]
PROOF
<1> DEFINE m == At(n, right, width)
<1>1. n \in Nodes[d] /\ t \in Declarations[d] /\ VersionOf(Versions[d - 1], n, t)
  BY VersionIs
<1>2. /\ m \in Nodes[d]
      /\ m.kind = n.kind /\ m.ranges = n.ranges /\ m.members = n.members /\ m.dims = n.dims
      /\ m.right = right /\ m.left = right + width - 1
  <2>1. Moved(d, n, m, right, width)
    BY <1>1, AtIs
  <2> HIDE DEF m
  <2> QED
    BY <2>1 DEF Moved
<1>3. n.kind = "item" => m.left - m.right + 1 = Elements(m.dims)
  BY <1>2
<1> HIDE DEF m
<1>4. VersionOf(Versions[d - 1], m, t)
  BY <1>1, <1>2, <1>3 DEF VersionOf
<1>5. <<m, t>> \in Versions[d]
  BY <1>1, <1>2, <1>4, VersionIs
<1> QED
  BY <1>5 DEF m

\* A node that was laid out stays so when it gets a range.
LEMMA AtLaid ==
    ASSUME NEW d \in Nat, NEW n, NEW t, NEW base, <<n, t, base>> \in Laid[d],
           NEW right \in Nat, NEW width \in Nat \ {0}, n.kind = "item" => width = Elements(n.dims)
    PROVE  <<At(n, right, width), t, base>> \in Laid[d]
PROOF
<1> DEFINE m == At(n, right, width)
<1>1. n \in Nodes[d] /\ t \in Declarations[d] /\ base \in Nat /\ LaidOver(d, Laid[d - 1], n, t, base)
  BY LaidIs
<1>2. m \in Nodes[d] /\ m.ranges = n.ranges /\ m.members = n.members
  <2>1. Moved(d, n, m, right, width)
    BY <1>1, AtIs
  <2> HIDE DEF m
  <2> QED
    BY <2>1 DEF Moved
<1>3. <<m, t>> \in Versions[d]
  BY <1>1, AtVersion DEF LaidOver
<1> HIDE DEF m
<1>4. LaidOver(d, Laid[d - 1], m, t, base)
  BY <1>1, <1>2, <1>3 DEF LaidOver
<1>5. <<m, t, base>> \in Laid[d]
  BY <1>1, <1>2, <1>4, LaidIs
<1> QED
  BY <1>5 DEF m

\* What a placed aggregate is: laid out at base, one element wide, and accepted
\* if its unions are even.
WellPlaced(d, q, t, base) ==
    /\ <<q.node, t, base>> \in Laid[d]
    /\ q.width = ElementSize(d, t)
    /\ q.ok <=> Uniform[d][t]

\* What a placed member is: laid out and lying at right, as wide as its type.
MemberRight(d, q, t, right) ==
    /\ q.width = Layout[d][t].size
    /\ q.node.right = right /\ q.node.left = right + q.width - 1
    /\ <<q.node, t, right>> \in Laid[d]
    /\ q.ok <=> Uniform[d][t]

\* A member that starts at bit `right` has its size and ends where the layout says.
LEMMA PlacedMember ==
    ASSUME NEW d \in Nat, NEW m, NEW t, <<m, t>> \in Versions[d], NEW right \in Nat, NEW place,
           m.kind # "item" => WellPlaced(d, place[m][right], t, right)
    PROVE  MemberRight(d, PlaceMember(place, m, right), t, right)
PROOF
<1> DEFINE q == PlaceMember(place, m, right)
<1>1. m \in Nodes[d] /\ t \in Declarations[d] /\ VersionOf(Versions[d - 1], m, t)
  BY VersionIs
<1>2. m.kind = t.kind /\ m.dims \in Seq(Dimension) /\ m.left \in Int /\ m.right \in Nat
  BY <1>1, NodeFacts DEF VersionOf
<1>3. Layout[d][t].size = Elements(Dimensions(t.ranges)) * ElementSize(d, t)
      /\ ElementSize(d, t) \in Nat \ {0}
      /\ (t.kind = "item" => ElementSize(d, t) = 1)
  BY <1>1, Element
<1>4. CASE m.kind = "item"
  <2> DEFINE width == ItemWidth(m)
             n == At(m, right, width)
  <2>1. q = [node |-> n, width |-> width, ok |-> TRUE]
    BY <1>4 DEF PlaceMember, Placed
  <2>2. m.dims = Dimensions(t.ranges) /\ m.ranges = <<>>
    BY <1>1, <1>2, <1>4, NoDimensions DEF VersionOf
  <2>3. width = Elements(m.dims)
    BY <1>1, <1>2, <1>4 DEF ItemWidth, VersionOf
  <2>4. width \in Nat \ {0}
    BY <1>2, <2>3, ElementsType
  <2>5. width = Layout[d][t].size
    BY <1>2, <1>3, <1>4, <2>2, <2>3, <2>4
  <2>6. <<m, t, right>> \in Laid[d]
    <3>1. t.members = <<>>
      BY <1>1, <1>2, <1>4, DeclarationFacts
    <3>2. LaidOver(d, Laid[d - 1], m, t, right)
      BY <2>2, <3>1 DEF LaidOver
    <3> QED
      BY <1>1, <3>2, LaidIs
  <2> HIDE DEF width
  <2>7. <<n, t, right>> \in Laid[d]
    BY <2>3, <2>4, <2>6, AtLaid
  <2>8. n.right = right /\ n.left = right + width - 1
    <3>1. Moved(d, m, n, right, width)
      BY <1>1, <2>4, AtIs
    <3> HIDE DEF n
    <3> QED
      BY <3>1 DEF Moved
  <2>9. Uniform[d][t]
    <3>1. t.members = <<>>
      BY <1>1, <1>2, <1>4, DeclarationFacts
    <3>2. \A k \in DOMAIN t.members : FALSE
      BY <3>1
    <3> QED
      BY <1>1, <3>2, UniformIs, Zenon
  <2> QED
    <3> HIDE DEF n, q
    <3>1. MemberRight(d, q, t, right)
      BY <2>1, <2>5, <2>7, <2>8, <2>9 DEF MemberRight
    <3> QED
      BY <3>1 DEF q
<1>5. CASE m.kind # "item"
  <2> DEFINE inner == place[m][right]
             width == inner.width * Elements(inner.node.dims)
             n == At(inner.node, right, width)
  <2>1. q = [node |-> n, width |-> width, ok |-> inner.ok]
    BY <1>5 DEF PlaceMember, Placed
  <2>2. WellPlaced(d, inner, t, right)
    BY <1>5
  <2> HIDE DEF inner
  <2>3. inner.node \in Nodes[d] /\ LaidOver(d, Laid[d - 1], inner.node, t, right)
    BY <2>2, LaidIs DEF WellPlaced
  <2>4. inner.node.ranges = <<>> /\ inner.node.kind = t.kind
        /\ inner.node.dims \o Dimensions(<<>>) = Dimensions(t.ranges)
    <3>1. inner.node.ranges = <<>> /\ <<inner.node, t>> \in Versions[d]
      BY <2>3 DEF LaidOver
    <3>2. VersionOf(Versions[d - 1], inner.node, t)
      BY <3>1, VersionIs
    <3> QED
      BY <3>1, <3>2 DEF VersionOf
  <2>5. inner.node.dims \in Seq(Dimension)
    BY <2>3, NodeFacts
  <2>6. inner.node.dims = Dimensions(t.ranges)
    BY <2>4, <2>5, NoDimensions
  <2>7. Elements(inner.node.dims) \in Nat \ {0}
    BY <2>5, ElementsType
  <2>8. width = Elements(Dimensions(t.ranges)) * ElementSize(d, t)
    <3>1. \A x, y \in Nat : x * y = y * x
      OBVIOUS
    <3>2. inner.width = ElementSize(d, t)
      BY <2>2 DEF WellPlaced
    <3> QED
      BY <1>3, <2>6, <2>7, <3>1, <3>2
  <2>9. width \in Nat \ {0} /\ width = Layout[d][t].size
    BY <1>3, <2>6, <2>7, <2>8, Times
  <2> HIDE DEF width
  <2>10. <<n, t, right>> \in Laid[d]
    BY <1>2, <1>5, <2>2, <2>4, <2>9, AtLaid DEF WellPlaced
  <2>11. n.right = right /\ n.left = right + width - 1
    <3>1. Moved(d, inner.node, n, right, width)
      BY <2>3, <2>9, AtIs
    <3> HIDE DEF n
    <3> QED
      BY <3>1 DEF Moved
  <2> QED
    <3> HIDE DEF n, q
    <3>1. MemberRight(d, q, t, right)
      BY <2>1, <2>2, <2>9, <2>10, <2>11 DEF WellPlaced, MemberRight
    <3> QED
      BY <3>1 DEF q
<1> QED
  BY <1>4, <1>5
\* Placing is right at a height.
PlacesRight(d) ==
    \A p \in Versions[d], base \in Nat :
       p[1].kind # "item" => WellPlaced(d, Place[d][p[1]][base], p[2], base)

\* What is known of an aggregate s of type t that is to be placed.
AggregateOf(d, s, t) ==
    /\ s \in Nodes[d] /\ t \in Declarations[d] /\ d - 1 \in Nat /\ d # 0
    /\ s.kind = t.kind /\ s.kind \in Aggregates
    /\ s.dims \in Seq(Dimension) /\ s.ranges \in Seq(Ranges)
    /\ s.dims \o Dimensions(s.ranges) = Dimensions(t.ranges)
    /\ Len(s.members) \in Nat \ {0} /\ Len(t.members) = Len(s.members)
    /\ DOMAIN t.members = 1 .. Len(s.members)
    /\ \A k \in 1 .. Len(s.members) : <<s.members[k], t.members[k]>> \in Versions[d - 1]
    /\ s.left \in Int /\ s.right \in Nat
    /\ s = [kind |-> s.kind, ranges |-> s.ranges, members |-> s.members,
            dims |-> s.dims, left |-> s.left, right |-> s.right]

\* The fields of the node of a struct or union, as it was made or as placing left it.
LEMMA AggregateFacts ==
    ASSUME NEW d \in Nat, NEW s, NEW t, <<s, t>> \in Versions[d], s.kind # "item"
    PROVE  AggregateOf(d, s, t)
PROOF
<1>1. s \in Nodes[d] /\ t \in Declarations[d] /\ VersionOf(Versions[d - 1], s, t)
  BY VersionIs
<1>2. /\ s \in [kind : {"item"} \cup Aggregates, ranges : Seq(Ranges), members : {s.members},
                dims : Seq(Dimension), left : Int, right : Nat]
      /\ d - 1 \in Nat /\ Len(s.members) \in Nat \ {0}
  BY <1>1, NodeFacts
<1>3. /\ s.kind = t.kind /\ s.dims \o Dimensions(s.ranges) = Dimensions(t.ranges)
      /\ Len(s.members) = Len(t.members)
      /\ \A k \in 1 .. Len(t.members) : <<s.members[k], t.members[k]>> \in Versions[d - 1]
  BY <1>1 DEF VersionOf
<1>4. DOMAIN t.members = 1 .. Len(t.members)
  BY <1>1, <1>3, DeclarationFacts
<1>5. s = [kind |-> s.kind, ranges |-> s.ranges, members |-> s.members,
           dims |-> s.dims, left |-> s.left, right |-> s.right]
  BY <1>2
<1>6. s.kind \in Aggregates /\ s.dims \in Seq(Dimension) /\ s.ranges \in Seq(Ranges)
      /\ s.left \in Int /\ s.right \in Nat
  BY <1>2
<1> QED
  BY <1>1, <1>2, <1>3, <1>4, <1>5, <1>6 DEF AggregateOf

\* A member of an aggregate, placed anywhere.
LEMMA MemberPlaced ==
    ASSUME NEW d \in Nat, NEW s, NEW t, <<s, t>> \in Versions[d], s.kind # "item", PlacesRight(d - 1),
           NEW k \in 1 .. Len(s.members), NEW right \in Nat
    PROVE  MemberRight(d - 1, PlaceMember(Place[d - 1], s.members[k], right), t.members[k], right)
PROOF
<1>1. d - 1 \in Nat /\ <<s.members[k], t.members[k]>> \in Versions[d - 1]
  BY AggregateFacts DEF AggregateOf
<1>2. s.members[k].kind # "item"
      => WellPlaced(d - 1, Place[d - 1][s.members[k]][right], t.members[k], right)
  BY <1>1 DEF PlacesRight
<1> QED
  BY <1>1, <1>2, PlacedMember

\* The offset after the last k members.
LEMMA OffsetsAre ==
    ASSUME NEW d \in Nat, NEW s, NEW t, <<s, t>> \in Versions[d], s.kind # "item", PlacesRight(d - 1),
           NEW base \in Nat
    PROVE  \A k \in Nat : k <= Len(s.members) =>
              /\ Offsets(Place[d - 1], s, base)[k] \in Nat
              /\ Offsets(Place[d - 1], s, base)[k]
                 = IF t.kind = "union" THEN 0 ELSE Sizes(Layout[d - 1], t.members)[k]
PROOF
<1> DEFINE offset == Offsets(Place[d - 1], s, base)
           size == Sizes(Layout[d - 1], t.members)
           n == Len(s.members)
           T == {k \in Nat : k <= n => /\ offset[k] \in Nat
                                       /\ offset[k] = IF t.kind = "union" THEN 0 ELSE size[k]}
<1>1. /\ t \in Declarations[d] /\ d - 1 \in Nat /\ s.kind = t.kind
      /\ n \in Nat \ {0} /\ Len(t.members) = n
  <2>1. AggregateOf(d, s, t)
    BY AggregateFacts
  <2> QED
    BY <2>1 DEF AggregateOf
<1>2. Sized(Layout[d - 1], t.members)
  BY <1>1, MembersSized
<1>3. 0 \in T
  BY <1>1, OffsetRecursion, SizeRecursion
<1>4. ASSUME NEW k \in Nat, k \in T
      PROVE  k + 1 \in T
  <2>1. SUFFICES ASSUME k + 1 <= n
                 PROVE  /\ offset[k + 1] \in Nat
                        /\ offset[k + 1] = IF t.kind = "union" THEN 0 ELSE size[k + 1]
    OBVIOUS
  <2>2. n - k \in 1 .. n /\ k < n /\ k <= n
    BY <1>1, <2>1
  <2>3. offset[k] \in Nat /\ offset[k] = IF t.kind = "union" THEN 0 ELSE size[k]
    BY <1>4, <2>2
  <2>4. base + offset[k] \in Nat
    BY <2>3
  <2> DEFINE q == PlaceMember(Place[d - 1], s.members[n - k], base + offset[k])
  <2>5. q.width = Layout[d - 1][t.members[n - k]].size
    <3>1. MemberRight(d - 1, q, t.members[n - k], base + offset[k])
      <4> HIDE DEF offset
      <4> QED
        BY <2>2, <2>4, MemberPlaced
    <3> QED
      BY <3>1, Zenon DEF MemberRight
  <2>6. offset[k + 1] = IF s.kind = "union" THEN 0 ELSE offset[k] + q.width
    BY <1>1, <2>2, OffsetRecursion
  <2>7. size[k + 1] = size[k] + Layout[d - 1][t.members[n - k]].size
    BY <1>1, <2>2, SizeRecursion
  <2>8. size[k + 1] \in Nat
    BY <1>1, <1>2, <2>1, SizesType
  <2> HIDE DEF q, offset, size
  <2> QED
    BY <1>1, <2>3, <2>5, <2>6, <2>7, <2>8
<1> HIDE DEF T
<1>5. \A k \in Nat : k \in T
  BY <1>3, <1>4, Induct
<1> QED
  BY <1>5 DEF T

LEMMA SequenceMade ==
    ASSUME NEW S, NEW n \in Nat, NEW f \in [1 .. n -> S]
    PROVE  f \in Seq(S) /\ Len(f) = n
  OBVIOUS

LEMMA AggregateMade ==
    ASSUME NEW kind, NEW ranges, NEW members, NEW dims, NEW left, NEW right,
           NEW nodes, NEW more, NEW none
    PROVE  [[kind |-> kind, ranges |-> ranges, members |-> members,
             dims |-> dims, left |-> left, right |-> right]
               EXCEPT !.members = nodes, !.dims = @ \o more, !.ranges = none]
           = [kind |-> kind, ranges |-> none, members |-> nodes,
              dims |-> dims \o more, left |-> left, right |-> right]
PROOF
<1> DEFINE r == [kind |-> kind, ranges |-> ranges, members |-> members,
                 dims |-> dims, left |-> left, right |-> right]
           all == dims \o more
           r1 == [r EXCEPT !.members = nodes]
           r2 == [r1 EXCEPT !.dims = all]
<1>1. r1 = [kind |-> kind, ranges |-> ranges, members |-> nodes, dims |-> dims, left |-> left, right |-> right]
  OBVIOUS
<1>2. r1.dims \o more = all
  BY <1>1
<1> HIDE DEF all, r1
<1>3. r2 = [kind |-> kind, ranges |-> ranges, members |-> nodes, dims |-> all, left |-> left, right |-> right]
  BY <1>1
<1> HIDE DEF r2
<1>4. [r2 EXCEPT !.ranges = none]
      = [kind |-> kind, ranges |-> none, members |-> nodes, dims |-> all, left |-> left, right |-> right]
  BY <1>3
<1>5. [r EXCEPT !.members = nodes, !.dims = @ \o more, !.ranges = none] = [r2 EXCEPT !.ranges = none]
  <2> HIDE DEF r
  <2>1. [r EXCEPT !.members = nodes, !.dims = @ \o more, !.ranges = none]
        = [[[r EXCEPT !.members = nodes] EXCEPT !.dims = @ \o more] EXCEPT !.ranges = none]
    OBVIOUS
  <2> QED
    BY <1>2, <2>1 DEF r1, r2
<1> QED
  BY <1>4, <1>5 DEF all

\* simplify_struct lays the members out, if it does so with those of lower types.
LEMMA AggregatePlaced ==
    ASSUME NEW d \in Nat, NEW s, NEW t, <<s, t>> \in Versions[d], s.kind # "item", PlacesRight(d - 1),
           NEW base \in Nat
    PROVE  WellPlaced(d, PlaceMembers(Place[d - 1], s, base), t, base)
PROOF
<1> DEFINE place == Place[d - 1]
           n == Len(s.members)
           offset == Offsets(place, s, base)
           member(k) == PlaceMember(place, s.members[k], base + offset[n - k])
           members == [k \in 1 .. n |-> member(k)]
           nodes == [k \in 1 .. n |-> members[k].node]
           result == [s EXCEPT !.members = nodes, !.dims = @ \o Dimensions(s.ranges), !.ranges = <<>>]
           width == IF s.kind = "union" THEN members[n].width ELSE offset[n]
           ok == \A k \in 1 .. n : /\ members[k].ok
                                   /\ s.kind = "union" => Fits(members[n].width, members[k])
           layout == Layout[d - 1]
<1>1. /\ s \in Nodes[d] /\ t \in Declarations[d] /\ d - 1 \in Nat /\ d # 0
      /\ s.kind = t.kind /\ s.kind \in Aggregates
      /\ s.dims \in Seq(Dimension) /\ s.ranges \in Seq(Ranges)
      /\ s.dims \o Dimensions(s.ranges) = Dimensions(t.ranges)
      /\ n \in Nat \ {0} /\ Len(t.members) = n
      /\ DOMAIN t.members = 1 .. n
      /\ s.left \in Int /\ s.right \in Nat
      /\ s = [kind |-> s.kind, ranges |-> s.ranges, members |-> s.members,
              dims |-> s.dims, left |-> s.left, right |-> s.right]
  <2>1. AggregateOf(d, s, t)
    BY AggregateFacts
  <2> QED
    BY <2>1 DEF AggregateOf
<1>2. PlaceMembers(place, s, base) = [node |-> result, width |-> width, ok |-> ok]
  BY DEF PlaceMembers, Placed
<1>3. \A k \in 1 .. n : /\ offset[n - k] \in Nat
                        /\ offset[n - k] = Lowest(layout, t, k)
  <2> TAKE k \in 1 .. n
  <2>1. n - k \in Nat /\ n - k <= n
    <3>1. n \in Nat
      BY <1>1
    <3> HIDE DEF n
    <3> QED
      BY <3>1
  <2>2. offset[n - k] \in Nat /\ offset[n - k] = IF t.kind = "union" THEN 0 ELSE Sizes(layout, t.members)[n - k]
    <3> DEFINE i == n - k
    <3>1. i \in Nat /\ i <= n
      BY <2>1
    <3> HIDE DEF i
    <3>2. offset[i] \in Nat /\ offset[i] = IF t.kind = "union" THEN 0 ELSE Sizes(layout, t.members)[i]
      BY <3>1, OffsetsAre
    <3> QED
      BY <3>2 DEF i
  <2> HIDE DEF offset
  <2> QED
    BY <1>1, <2>2 DEF Lowest
<1>4. ASSUME NEW k \in 1 .. n
      PROVE  /\ members[k].width = layout[t.members[k]].size
             /\ members[k].node.right = base + Lowest(layout, t, k)
             /\ members[k].node.left = members[k].node.right + members[k].width - 1
             /\ <<members[k].node, t.members[k], members[k].node.right>> \in Laid[d - 1]
             /\ members[k].ok <=> Uniform[d - 1][t.members[k]]
  <2>1. base + offset[n - k] \in Nat /\ base + offset[n - k] = base + Lowest(layout, t, k)
    BY <1>3
  <2>2. members[k] = member(k)
    OBVIOUS
  <2>3. /\ member(k).width = layout[t.members[k]].size
        /\ member(k).node.right = base + offset[n - k]
        /\ member(k).node.left = base + offset[n - k] + member(k).width - 1
        /\ <<member(k).node, t.members[k], base + offset[n - k]>> \in Laid[d - 1]
        /\ member(k).ok <=> Uniform[d - 1][t.members[k]]
    <3>1. MemberRight(d - 1, member(k), t.members[k], base + offset[n - k])
      <4> HIDE DEF offset
      <4> QED
        BY <2>1, MemberPlaced
    <3> HIDE DEF member, offset
    <3> QED
      BY <3>1 DEF MemberRight
  <2> HIDE DEF members, member, offset
  <2> QED
    BY <2>1, <2>2, <2>3
<1>5. nodes \in Some(Nodes[d - 1]) /\ Len(nodes) = n /\ \A k \in 1 .. n : nodes[k] = members[k].node
  <2>1. \A k \in 1 .. n : members[k].node \in Nodes[d - 1]
    BY <1>1, <1>4, LaidIs
  <2> HIDE DEF members
  <2> DEFINE f(k) == members[k].node
  <2>2. \A k \in 1 .. n : f(k) \in Nodes[d - 1]
    BY <2>1
  <2>3. nodes = [k \in 1 .. n |-> f(k)]
    OBVIOUS
  <2> HIDE DEF f, nodes
  <2>4. nodes \in [1 .. n -> Nodes[d - 1]]
    BY <2>2, <2>3
  <2>5. nodes \in Seq(Nodes[d - 1]) /\ Len(nodes) = n
    <3>1. n \in Nat
      BY <1>1
    <3> HIDE DEF n
    <3> QED
      BY <2>4, <3>1, SequenceMade
  <2>6. nodes # <<>>
    BY <1>1, <2>5
  <2>7. \A k \in 1 .. n : nodes[k] = f(k)
    BY <2>3
  <2> QED
    BY <2>5, <2>6, <2>7 DEF Some, f
<1> HIDE DEF nodes
<1>6. result = [kind |-> s.kind, ranges |-> <<>>, members |-> nodes,
                dims |-> Dimensions(t.ranges), left |-> s.left, right |-> s.right]
  <2>2. result = [[kind |-> s.kind, ranges |-> s.ranges, members |-> s.members,
                  dims |-> s.dims, left |-> s.left, right |-> s.right]
                    EXCEPT !.members = nodes, !.dims = @ \o Dimensions(s.ranges), !.ranges = <<>>]
    BY <1>1, Zenon
  <2> HIDE DEF result
  <2> QED
    BY <1>1, <2>2, AggregateMade
<1>7. Dimensions(t.ranges) \in Seq(Dimension) /\ <<>> \in Seq(Ranges)
  BY <1>1, DeclarationFacts, DimensionsType
<1>8. result \in Nodes[d]
  <2> HIDE DEF result
  <2>1. nodes \in Some(Nodes[d - 1])
    BY <1>5
  <2>2. [kind |-> s.kind, ranges |-> <<>>, members |-> nodes,
         dims |-> Dimensions(t.ranges), left |-> s.left, right |-> s.right] \in Nodes[d]
    BY <1>1, <1>7, <2>1, NodeMade
  <2> QED
    BY <1>6, <2>2
<1>9. /\ result.kind = t.kind /\ result.ranges = <<>> /\ result.members = nodes
      /\ result.dims = Dimensions(t.ranges) /\ result.kind # "item"
  BY <1>1, <1>6 DEF Aggregates
<1> HIDE DEF result
<1>10. <<result, t>> \in Versions[d]
  <2>1. result.dims \o Dimensions(result.ranges) = Dimensions(t.ranges)
    BY <1>7, <1>9, NoDimensions
  <2>2. \A k \in 1 .. Len(t.members) : <<result.members[k], t.members[k]>> \in Versions[d - 1]
    <3> TAKE k \in 1 .. Len(t.members)
    <3>1. k \in 1 .. n
      BY <1>1
    <3>2. <<members[k].node, t.members[k], members[k].node.right>> \in Laid[d - 1]
      BY <1>4, <3>1
    <3> HIDE DEF members
    <3>3. <<members[k].node, t.members[k]>> \in Versions[d - 1]
      BY <1>1, <3>2, LaidIs DEF LaidOver
    <3> QED
      BY <1>5, <1>9, <3>1, <3>3
  <2>3. VersionOf(Versions[d - 1], result, t)
    BY <1>1, <1>5, <1>9, <2>1, <2>2 DEF VersionOf
  <2> QED
    BY <1>1, <1>8, <2>3, VersionIs
<1>11. <<result, t, base>> \in Laid[d]
  <2>1. ASSUME NEW k \in 1 .. Len(t.members)
        PROVE  /\ result.members[k].right = base + Lowest(Layout[d - 1], t, k)
               /\ result.members[k].left = result.members[k].right + Layout[d - 1][t.members[k]].size - 1
               /\ <<result.members[k], t.members[k], result.members[k].right>> \in Laid[d - 1]
    <3>1. k \in 1 .. n
      BY <1>1
    <3>2. result.members[k] = members[k].node
      BY <1>5, <1>9, <3>1
    <3>3. /\ members[k].width = layout[t.members[k]].size
          /\ members[k].node.right = base + Lowest(layout, t, k)
          /\ members[k].node.left = members[k].node.right + members[k].width - 1
          /\ <<members[k].node, t.members[k], members[k].node.right>> \in Laid[d - 1]
      BY <1>4, <3>1
    <3> HIDE DEF members
    <3> QED
      BY <3>2, <3>3
  <2>2. LaidOver(d, Laid[d - 1], result, t, base)
    BY <1>9, <1>10, <2>1 DEF LaidOver
  <2> QED
    BY <1>1, <1>8, <2>2, LaidIs
<1>12. width = ElementSize(d, t)
  <2>1. n \in 1 .. n /\ n \in Nat /\ n <= n
    BY <1>1
  <2>2. members[n].width = layout[t.members[n]].size
    BY <1>4, <2>1
  <2>3. t.kind # "union" => offset[n] = Sizes(layout, t.members)[n]
    BY <2>1, OffsetsAre
  <2>4. /\ t.kind = "struct" => ElementSize(d, t) = Sizes(layout, t.members)[n]
        /\ t.kind = "union" => ElementSize(d, t) = layout[t.members[n]].size
    <3>1. t \in Declarations[d] /\ n = Len(t.members)
      BY <1>1
    <3> HIDE DEF n
    <3> QED
      BY <3>1, Element
  <2>5. s.kind = t.kind /\ t.kind \in {"struct", "union"}
    BY <1>1 DEF Aggregates
  <2> HIDE DEF members, offset, layout
  <2> QED
    BY <2>2, <2>3, <2>4, <2>5
<1>13. ok <=> Uniform[d][t]
  <2>1. n \in 1 .. n
    BY <1>1
  <2>2. \A k \in 1 .. n : /\ members[k].width = layout[t.members[k]].size
                          /\ members[k].ok <=> Uniform[d - 1][t.members[k]]
    BY <1>4
  <2> HIDE DEF members
  <2>3. ok <=> \A k \in 1 .. n : /\ Uniform[d - 1][t.members[k]]
                                 /\ t.kind = "union" => layout[t.members[k]].size = layout[t.members[n]].size
    <3>1. s.kind = t.kind
      BY <1>1
    <3>2. \A k \in 1 .. n : Fits(members[n].width, members[k])
                             <=> layout[t.members[k]].size = layout[t.members[n]].size
      BY <2>1, <2>2 DEF Fits
    <3> HIDE DEF n, layout
    <3> QED
      BY <2>2, <3>1, <3>2
  <2>4. Uniform[d][t] <=> \A m \in 1 .. n :
                             /\ Uniform[d - 1][t.members[m]]
                             /\ t.kind = "union" =>
                                   \A k \in 1 .. n : layout[t.members[k]].size = layout[t.members[m]].size
    <3>1. Uniform[d][t] <=> \A m \in DOMAIN t.members :
                               /\ Uniform[d - 1][t.members[m]]
                               /\ t.kind = "union" =>
                                     \A k \in DOMAIN t.members :
                                        Layout[d - 1][t.members[k]].size = Layout[d - 1][t.members[m]].size
      BY <1>1, UniformIs
    <3>2. DOMAIN t.members = 1 .. n
      BY <1>1
    <3> QED
      BY <3>1, <3>2, Zenon
  <2> HIDE DEF ok, layout
  <2> QED
    BY <2>1, <2>3, <2>4
<1> HIDE DEF width, ok
<1>14. WellPlaced(d, [node |-> result, width |-> width, ok |-> ok], t, base)
  BY <1>11, <1>12, <1>13 DEF WellPlaced
<1> QED
  BY <1>2, <1>14

\* simplify_struct lays out the members of every type, at any bit and however
\* often they were placed before.
LEMMA Placing == \A d \in Nat : PlacesRight(d)
PROOF
<1> DEFINE T == {d \in Nat : PlacesRight(d)}
<1>1. ASSUME NEW d \in Nat, d # 0 => PlacesRight(d - 1)
      PROVE  PlacesRight(d)
  <2>1. ASSUME NEW p \in Versions[d], NEW base \in Nat, p[1].kind # "item"
        PROVE  WellPlaced(d, Place[d][p[1]][base], p[2], base)
    <3>1. p = <<p[1], p[2]>>
      <4>1. Versions[d] \subseteq Nodes[d] \X Declarations[d]
        BY VersionEquation DEF VersionTypes
      <4> QED
        BY <4>1
    <3>2. <<p[1], p[2]>> \in Versions[d]
      BY <3>1
    <3>3. p[1] \in Nodes[d] /\ d # 0
      BY <2>1, <3>2, AggregateFacts DEF AggregateOf
    <3>4. Place[d][p[1]][base] = PlaceMembers(Place[d - 1], p[1], base)
      BY <2>1, <3>3, PlaceIs
    <3>5. WellPlaced(d, PlaceMembers(Place[d - 1], p[1], base), p[2], base)
      BY <1>1, <2>1, <3>2, <3>3, AggregatePlaced
    <3> QED
      BY <3>4, <3>5
  <2> QED
    BY <2>1 DEF PlacesRight
<1>2. 0 \in T
  BY <1>1
<1>3. ASSUME NEW d \in Nat, d \in T
      PROVE  d + 1 \in T
  <2>1. d + 1 \in Nat /\ (d + 1) - 1 = d
    OBVIOUS
  <2> QED
    BY <1>1, <1>3, <2>1
<1> HIDE DEF T
<1>4. \A d \in Nat : d \in T
  BY <1>2, <1>3, Induct
<1> QED
  BY <1>4 DEF T
\* Simplifying a type gives a node of that type; it is laid out from bit 0 on.
SimplifiedRight(d, q, t) ==
    /\ <<q.node, t>> \in Versions[d]
    /\ q.ok <=> Uniform[d][t]
    /\ t.kind # "item" => <<q.node, t, 0>> \in Laid[d] /\ q.width = ElementSize(d, t)

\* A member that is no struct gets its dimensions.
LEMMA ItemSimplified ==
    ASSUME NEW d \in Nat, NEW t \in Declarations[d], t.kind = "item"
    PROVE  SimplifiedRight(d, Simplify[d][t], t)
PROOF
<1> DEFINE item == ConvertItem(Node("item", t.ranges, <<>>))
           made == [kind |-> "item", ranges |-> <<>>, members |-> <<>>,
                    dims |-> Dimensions(t.ranges), left |-> -1, right |-> 0]
<1>1. Simplify[d][t] = [node |-> item, width |-> 0, ok |-> TRUE]
  BY SimplifyIs DEF Placed
<1>2. item = made
  <2> DEFINE n == Node("item", t.ranges, <<>>)
             dims == Dimensions(t.ranges)
  <2>1. n = [kind |-> "item", ranges |-> t.ranges, members |-> <<>>, dims |-> <<>>, left |-> -1, right |-> 0]
    BY DEF Node
  <2>2. n.ranges = t.ranges
    BY <2>1
  <2>3. item = [n EXCEPT !.dims = dims, !.ranges = <<>>]
    BY <2>2, Zenon DEF ConvertItem
  <2> HIDE DEF n, dims, item
  <2>4. item = [kind |-> "item", ranges |-> <<>>, members |-> <<>>, dims |-> dims, left |-> -1, right |-> 0]
    BY <2>1, <2>3
  <2> QED
    BY <2>4 DEF dims
<1>3. t.ranges \in Seq(Ranges) /\ t.members = <<>>
  BY DeclarationFacts
<1>4. Dimensions(t.ranges) \in Seq(Dimension) /\ <<>> \in Seq(Ranges)
  BY <1>3, DimensionsType
<1>5. made \in ItemNodes
  BY <1>4 DEF ItemNodes
<1>6. ItemNodes \subseteq Nodes[d]
  <2>1. CASE d = 0
    BY <2>1, NodeHeights
  <2>2. CASE d # 0
    <3>1. d - 1 \in Nat /\ d = (d - 1) + 1
      BY <2>2
    <3>2. ItemNodes \subseteq Nodes[(d - 1) + 1]
      BY <3>1, NodeHeights
    <3> QED
      BY <3>1, <3>2
  <2> QED
    BY <2>1, <2>2
<1>7. /\ made.kind = "item" /\ made.ranges = <<>> /\ made.dims = Dimensions(t.ranges)
      /\ made.left = -1
  OBVIOUS
<1> HIDE DEF made
<1>8. VersionOf(Versions[d - 1], made, t)
  <2>1. made.dims \o Dimensions(made.ranges) = Dimensions(t.ranges)
    BY <1>4, <1>7, NoDimensions
  <2>2. made.left < 0
    BY <1>7
  <2> QED
    BY <1>7, <2>1, <2>2 DEF VersionOf
<1>9. <<made, t>> \in Versions[d]
  BY <1>5, <1>6, <1>8, VersionIs
<1>10. Uniform[d][t]
  <2>1. \A k \in DOMAIN t.members : FALSE
    BY <1>3
  <2> QED
    BY <2>1, UniformIs, Zenon
<1> HIDE DEF item
<1>11. SimplifiedRight(d, [node |-> item, width |-> 0, ok |-> TRUE], t)
  BY <1>2, <1>9, <1>10 DEF SimplifiedRight
<1> QED
  BY <1>1, <1>11

\* Every union below a type that is uniform is.
LEMMA UniformMembers ==
    ASSUME NEW d \in Nat, NEW t \in Declarations[d], Uniform[d][t], NEW k \in DOMAIN t.members
    PROVE  Uniform[d - 1][t.members[k]]
  BY UniformIs

\* simplify_sv lays out a struct or union, if it does so with lower types.
LEMMA AggregateSimplified ==
    ASSUME NEW d \in Nat, NEW t \in Declarations[d], t.kind # "item",
           \A u \in Declarations[d - 1] : SimplifiedRight(d - 1, Simplify[d - 1][u], u)
    PROVE  SimplifiedRight(d, Simplify[d][t], t)
PROOF
<1> DEFINE n == Len(t.members)
           member(k) == Simplify[d - 1][t.members[k]]
           members == [k \in DOMAIN t.members |-> member(k)]
           f(k) == members[k].node
           nodes == [k \in DOMAIN members |-> f(k)]
           made == Node(t.kind, t.ranges, nodes)
           s == Place[d][made][0]
           ok == s.ok /\ \A k \in DOMAIN members : members[k].ok
<1>1. /\ t.ranges \in Seq(Ranges) /\ t.kind \in Aggregates /\ d - 1 \in Nat /\ d # 0
      /\ n \in Nat \ {0} /\ DOMAIN t.members = 1 .. n
      /\ \A k \in 1 .. n : t.members[k] \in Declarations[d - 1]
  BY DeclarationFacts
<1>2. Simplify[d][t] = SimplifyMembers(Simplify[d - 1], Place[d], t)
  BY SimplifyIs
<1>3. SimplifyMembers(Simplify[d - 1], Place[d], t) = [s EXCEPT !.ok = ok]
  BY DEF SimplifyMembers
<1>4. \A k \in 1 .. n : SimplifiedRight(d - 1, members[k], t.members[k])
  BY <1>1
<1>5. DOMAIN members = 1 .. n
  BY <1>1
<1> HIDE DEF members
<1>6. \A k \in 1 .. n : /\ <<f(k), t.members[k]>> \in Versions[d - 1] /\ f(k) \in Nodes[d - 1]
                        /\ members[k].ok <=> Uniform[d - 1][t.members[k]]
  <2> TAKE k \in 1 .. n
  <2>1. <<members[k].node, t.members[k]>> \in Versions[d - 1]
        /\ (members[k].ok <=> Uniform[d - 1][t.members[k]])
    BY <1>4 DEF SimplifiedRight
  <2>2. f(k) \in Nodes[d - 1]
    BY <1>1, <2>1, VersionIs
  <2> QED
    BY <2>1, <2>2
<1>7. nodes \in Some(Nodes[d - 1]) /\ Len(nodes) = n /\ \A k \in 1 .. n : nodes[k] = f(k)
  <2>1. nodes = [k \in 1 .. n |-> f(k)]
    BY <1>5
  <2> HIDE DEF f, nodes
  <2>2. nodes \in [1 .. n -> Nodes[d - 1]]
    BY <1>6, <2>1
  <2>3. n \in Nat
    BY <1>1
  <2> HIDE DEF n
  <2>4. nodes \in Seq(Nodes[d - 1]) /\ Len(nodes) = n
    BY <2>2, <2>3, SequenceMade
  <2>5. nodes # <<>>
    BY <1>1, <2>4
  <2>6. \A k \in 1 .. n : nodes[k] = f(k)
    BY <2>1
  <2> QED
    BY <2>4, <2>5, <2>6 DEF Some
<1> HIDE DEF nodes, f
<1>8. made = [kind |-> t.kind, ranges |-> t.ranges, members |-> nodes,
              dims |-> <<>>, left |-> -1, right |-> 0]
  BY DEF Node
<1>9. [kind |-> t.kind, ranges |-> t.ranges, members |-> nodes,
       dims |-> <<>>, left |-> -1, right |-> 0] \in Nodes[d]
  <2>1. <<>> \in Seq(Dimension) /\ -1 \in Int /\ 0 \in Nat
    OBVIOUS
  <2> QED
    BY <1>1, <1>7, <2>1, NodeMade
<1>10. made \in Nodes[d] /\ made.kind = t.kind /\ made.ranges = t.ranges /\ made.members = nodes
       /\ made.dims = <<>> /\ made.kind # "item"
  <2>1. made.kind = t.kind /\ made.ranges = t.ranges /\ made.members = nodes /\ made.dims = <<>>
    BY <1>8
  <2> HIDE DEF made
  <2> QED
    BY <1>8, <1>9, <2>1
<1> HIDE DEF made
<1>11. <<made, t>> \in Versions[d]
  <2>1. made.dims \o Dimensions(made.ranges) = Dimensions(t.ranges)
    <3>1. Dimensions(t.ranges) \in Seq(Dimension)
      BY <1>1, DimensionsType
    <3>2. \A x \in Seq(Dimension) : <<>> \o x = x
      OBVIOUS
    <3> QED
      BY <1>10, <3>1, <3>2
  <2>2. VersionOf(Versions[d - 1], made, t)
    BY <1>6, <1>7, <1>10, <2>1 DEF VersionOf
  <2> QED
    BY <1>10, <2>2, VersionIs
<1>12. WellPlaced(d, s, t, 0)
  <2>1. PlacesRight(d)
    BY Placing
  <2>2. <<made, t>>[1] = made /\ <<made, t>>[2] = t
    OBVIOUS
  <2>3. 0 \in Nat
    OBVIOUS
  <2> QED
    BY <1>10, <1>11, <2>1, <2>2, <2>3, Zenon DEF PlacesRight
<1>13. s = [node |-> s.node, width |-> s.width, ok |-> s.ok]
  <2>1. s = PlaceMembers(Place[d - 1], made, 0)
    BY <1>10, PlaceIs
  <2> HIDE DEF s
  <2> QED
    BY <2>1 DEF PlaceMembers, Placed
<1> HIDE DEF s
<1>14. ok <=> Uniform[d][t]
  <2>1. ok <=> s.ok /\ \A k \in 1 .. n : Uniform[d - 1][t.members[k]]
    BY <1>5, <1>6
  <2>2. s.ok <=> Uniform[d][t]
    BY <1>12 DEF WellPlaced
  <2>3. Uniform[d][t] => \A k \in 1 .. n : Uniform[d - 1][t.members[k]]
    BY <1>1, UniformMembers
  <2> QED
    BY <2>1, <2>2, <2>3
<1> HIDE DEF ok
<1>15. [s EXCEPT !.ok = ok] = [node |-> s.node, width |-> s.width, ok |-> ok]
  BY <1>13
<1>16. <<s.node, t, 0>> \in Laid[d] /\ s.width = ElementSize(d, t) /\ <<s.node, t>> \in Versions[d]
  <2>1. <<s.node, t, 0>> \in Laid[d] /\ s.width = ElementSize(d, t)
    BY <1>12 DEF WellPlaced
  <2> QED
    BY <2>1, LaidIs DEF LaidOver
<1>17. SimplifiedRight(d, [node |-> s.node, width |-> s.width, ok |-> ok], t)
  BY <1>14, <1>16 DEF SimplifiedRight
<1> QED
  BY <1>2, <1>3, <1>15, <1>17

\* simplify_sv lays out every type and finds its uneven unions.
LEMMA Simplifying == \A d \in Nat : \A t \in Declarations[d] : SimplifiedRight(d, Simplify[d][t], t)
PROOF
<1> DEFINE T == {d \in Nat : \A t \in Declarations[d] : SimplifiedRight(d, Simplify[d][t], t)}
<1>1. ASSUME NEW d \in Nat, d # 0 => d - 1 \in T, NEW t \in Declarations[d]
      PROVE  SimplifiedRight(d, Simplify[d][t], t)
  <2>1. CASE t.kind = "item"
    BY <2>1, ItemSimplified
  <2>2. CASE t.kind # "item"
    <3>1. d - 1 \in Nat /\ d # 0
      BY <2>2, DeclarationFacts
    <3>2. \A u \in Declarations[d - 1] : SimplifiedRight(d - 1, Simplify[d - 1][u], u)
      BY <1>1, <3>1
    <3> QED
      BY <2>2, <3>2, AggregateSimplified
  <2> QED
    BY <2>1, <2>2
<1>2. 0 \in T
  BY <1>1
<1>3. ASSUME NEW d \in Nat, d \in T
      PROVE  d + 1 \in T
  <2>1. d + 1 \in Nat /\ (d + 1) - 1 = d
    OBVIOUS
  <2>2. \A t \in Declarations[d + 1] : SimplifiedRight(d + 1, Simplify[d + 1][t], t)
    <3> HIDE DEF T
    <3> QED
      BY <1>1, <1>3, <2>1
  <2> QED
    BY <2>1, <2>2
<1> HIDE DEF T
<1>4. \A d \in Nat : d \in T
  BY <1>2, <1>3, Induct
<1> QED
  BY <1>4 DEF T

------------------------------------------------------------------------------
(***************************************************************************)
(* Uneven unions                                                           *)
(***************************************************************************)
\* A union whose members differ in width is an error, however deep it is in the
\* type, and no type without one is rejected (simplify_struct).
THEOREM UnionsChecked == Spec => []UnevenUnionsRejected
PROOF
<1> DEFINE IInv == type \in Types /\ UnevenUnionsRejected
<1>1. Init => IInv
  BY DEF Init, UnevenUnionsRejected
<1>2. IInv /\ [Next]_vars => IInv'
  <2> SUFFICES ASSUME IInv, [Next]_vars
               PROVE  IInv'
    OBVIOUS
  <2>1. CASE SimplifyStruct
    <3>1. type \in Declarations[Height] /\ Height \in Nat
      BY TypesAssumption
    <3>2. Simplify[Height][type].ok <=> Uniform[Height][type]
      BY <3>1, Simplifying DEF SimplifiedRight
    <3>3. type' = type /\ type \in Types
      BY <2>1 DEF SimplifyStruct
    <3>4. CASE Simplify[Height][type].ok
      <4>1. pc' = "select"
        BY <2>1, <3>4 DEF SimplifyStruct
      <4> QED
        BY <3>2, <3>3, <3>4, <4>1 DEF UnevenUnionsRejected
    <3>5. CASE ~Simplify[Height][type].ok
      <4>1. pc' = "error"
        BY <2>1, <3>5 DEF SimplifyStruct
      <4> QED
        BY <3>2, <3>3, <3>5, <4>1 DEF UnevenUnionsRejected
    <3> QED
      BY <3>4, <3>5
  <2>2. CASE Enter
    <3>1. pc' = pc /\ type' = type
      BY <2>2 DEF Enter, Access
    <3> QED
      BY <3>1 DEF UnevenUnionsRejected
  <2>3. CASE Finish
    <3>1. pc = "select" /\ pc' = "done" /\ type' = type
      BY <2>3 DEF Finish, Access
    <3> QED
      BY <3>1 DEF UnevenUnionsRejected
  <2>4. CASE UNCHANGED vars
    BY <2>4 DEF vars, UnevenUnionsRejected
  <2> QED
    BY <2>1, <2>2, <2>3, <2>4 DEF Next
<1>3. IInv => UnevenUnionsRejected
  OBVIOUS
<1> QED
  BY <1>1, <1>2, <1>3, PTL DEF Spec

------------------------------------------------------------------------------
(***************************************************************************)
(* One access                                                              *)
(***************************************************************************)
LEMMA DivExact ==
    ASSUME NEW a \in Nat \ {0}, NEW b \in Nat
    PROVE  (a * b) \div a = b
PROOF
<1> DEFINE p == a * b
           q == p \div a
<1>1. p \in Nat
  OBVIOUS
<1> HIDE DEF p
<1>2. q \in Int /\ a * q <= p /\ p < a * (q + 1)
  BY <1>1
<1> HIDE DEF q
<1>3. ASSUME q < b PROVE FALSE
  <2>1. (q + 1) * a <= b * a
    BY <1>2, <1>3, Monotone
  <2> QED
    BY <1>2, <2>1 DEF p
<1>4. ASSUME q > b PROVE FALSE
  <2>1. (b + 1) * a <= q * a /\ (b + 1) * a = b * a + a
    BY <1>2, <1>4, Monotone
  <2> QED
    BY <1>2, <2>1 DEF p
<1>5. q = b
  BY <1>2, <1>3, <1>4
<1> QED
  BY <1>5 DEF p, q

\* Products depend on the widths only.
LEMMA ProductsAlike ==
    ASSUME NEW a, NEW b, NEW n \in Nat, Len(a) \in Nat, Len(b) \in Nat, n <= Len(a), n <= Len(b),
           \A j \in 1 .. n : a[j].width = b[j].width
    PROVE  \A k \in Nat : k <= n => Products(a)[k] = Products(b)[k]
PROOF
<1> DEFINE T == {k \in Nat : k <= n => Products(a)[k] = Products(b)[k]}
<1>1. 0 \in T
  BY ProductRecursion
<1>2. ASSUME NEW k \in Nat, k \in T
      PROVE  k + 1 \in T
  <2>1. SUFFICES ASSUME k + 1 <= n PROVE Products(a)[k + 1] = Products(b)[k + 1]
    OBVIOUS
  <2>2. k < Len(a) /\ k < Len(b) /\ k + 1 \in 1 .. n
    BY <2>1
  <2>3. Products(a)[k + 1] = Products(a)[k] * a[k + 1].width
    BY <2>2, ProductRecursion
  <2>4. Products(b)[k + 1] = Products(b)[k] * b[k + 1].width
    BY <2>2, ProductRecursion
  <2>5. Products(a)[k] = Products(b)[k]
    BY <1>2, <2>1
  <2>6. a[k + 1].width = b[k + 1].width
    BY <2>2
  <2> QED
    BY <2>3, <2>4, <2>5, <2>6
<1> HIDE DEF T
<1>3. \A k \in Nat : k \in T
  BY <1>1, <1>2, Induct
<1> QED
  BY <1>3 DEF T

\* The elements of two sequences behind one another.
LEMMA Concatenated ==
    ASSUME NEW S, NEW a \in Seq(S), NEW b \in Seq(S)
    PROVE  /\ a \o b \in Seq(S) /\ Len(a \o b) = Len(a) + Len(b)
           /\ \A k \in 1 .. Len(a) : (a \o b)[k] = a[k]
           /\ \A k \in 1 .. Len(b) : (a \o b)[k + Len(a)] = b[k]
  OBVIOUS

\* A wire of structs has the elements of its dimensions, each as wide as the struct.
LEMMA WireProduct ==
    ASSUME NEW D \in Seq(Dimension), NEW w \in Nat \ {0}, NEW dims \in Seq(Dimension),
           Len(dims) = Len(D) + 1, dims[1].width = w,
           \A j \in 1 .. Len(D) : dims[j + 1].width = D[Len(D) - j + 1].width
    PROVE  Elements(dims) = Elements(D) * w
PROOF
<1> DEFINE n == Len(D)
<1>1. n \in Nat /\ Len(dims) \in Nat /\ Len(dims) = n + 1
  OBVIOUS
<1> DEFINE T == {k \in Nat : k <= n => Products(dims)[k + 1] * Products(D)[n - k] = Elements(D) * w}
<1>2. 0 \in T
  <2>1. Products(dims)[0] = 1 /\ Products(dims)[0 + 1] = Products(dims)[0] * dims[0 + 1].width
    BY <1>1, ProductRecursion
  <2>2. dims[0 + 1].width = w
    OBVIOUS
  <2>3. Products(dims)[0 + 1] = w
    BY <2>1, <2>2
  <2>4. n - 0 = n /\ Elements(D) \in Nat
    BY <1>1, ElementsType
  <2>5. \A x, y \in Nat : x * y = y * x
    OBVIOUS
  <2> QED
    BY <2>3, <2>4, <2>5 DEF Elements
<1>3. ASSUME NEW k \in Nat, k \in T
      PROVE  k + 1 \in T
  <2>1. SUFFICES ASSUME k + 1 <= n
                 PROVE  Products(dims)[(k + 1) + 1] * Products(D)[n - (k + 1)] = Elements(D) * w
    OBVIOUS
  <2> DEFINE i == n - (k + 1)
             u == D[n - k].width
  <2>2. i \in Nat /\ i < n /\ i + 1 = n - k /\ n - k \in 1 .. n /\ k + 1 \in 1 .. n /\ k + 1 < n + 1
    BY <1>1, <2>1
  <2>3. Products(dims)[k + 1] * Products(D)[n - k] = Elements(D) * w
    BY <1>1, <1>3, <2>1
  <2>4. Products(dims)[(k + 1) + 1] = Products(dims)[k + 1] * u
    <3>1. Products(dims)[(k + 1) + 1] = Products(dims)[k + 1] * dims[(k + 1) + 1].width
      BY <1>1, <2>2, ProductRecursion
    <3>2. dims[(k + 1) + 1].width = D[n - (k + 1) + 1].width /\ n - (k + 1) + 1 = n - k
      BY <1>1, <2>2
    <3> QED
      BY <3>1, <3>2
  <2>5. Products(D)[n - k] = Products(D)[i] * u
    <3>1. Products(D)[i + 1] = Products(D)[i] * D[i + 1].width
      BY <1>1, <2>2, ProductRecursion
    <3> QED
      BY <2>2, <3>1
  <2>6. Products(dims)[k + 1] \in Nat
    BY <1>1, <2>2, ProductsType
  <2>7. Products(D)[i] \in Nat
    <3>1. i \in Nat /\ i <= Len(D)
      BY <2>2
    <3> HIDE DEF i
    <3> QED
      BY <3>1, ProductsType
  <2>8. u \in Nat
    <3>1. D[n - k] \in Dimension
      BY <2>2
    <3> QED
      BY <3>1 DEF Dimension
  <2>9. \A x, y, z \in Nat : (x * z) * y = x * (y * z)
    OBVIOUS
  <2>10. (Products(dims)[k + 1] * u) * Products(D)[i] = Products(dims)[k + 1] * (Products(D)[i] * u)
    <3> HIDE DEF u, i
    <3> QED
      BY <2>6, <2>7, <2>8, <2>9
  <2> QED
    BY <2>3, <2>4, <2>5, <2>10
<1> HIDE DEF T
<1>4. \A k \in Nat : k \in T
  BY <1>2, <1>3, Induct
<1>5. Elements(dims) = Elements(D) * w
  <2>1. Products(dims)[n + 1] * Products(D)[n - n] = Elements(D) * w
    BY <1>1, <1>4 DEF T
  <2>2. Products(D)[n - n] = 1
    BY <1>1, ProductRecursion
  <2>3. Products(dims)[n + 1] \in Nat
    BY <1>1, ProductsType
  <2>4. Elements(dims) = Products(dims)[n + 1]
    BY <1>1 DEF Elements
  <2> QED
    BY <2>1, <2>2, <2>3, <2>4
<1> QED
  BY <1>5

\* The dimensions of a wire, as resolve_wiretype builds them and as an access
\* takes them.
LEMMA WireDims ==
    ASSUME NEW D \in Seq(Dimension), NEW w \in Nat \ {0}, NEW dims,
           dims = <<[low |-> 0, width |-> w, swapped |-> FALSE]>> \o Reverse(D)
    PROVE  /\ dims \in Seq(Dimension) /\ Len(dims) = Len(D) + 1
           /\ \A j \in 1 .. Len(D) : Reverse(dims)[j] = D[j]
           /\ Elements(dims) = Elements(D) * w
PROOF
<1> DEFINE n == Len(D)
           first == [low |-> 0, width |-> w, swapped |-> FALSE]
<1>1. n \in Nat
  OBVIOUS
<1>2. Reverse(D) \in Seq(Dimension) /\ Len(Reverse(D)) = n
      /\ \A j \in 1 .. n : Reverse(D)[j] = D[n - j + 1]
  BY DEF Reverse
<1>3. first \in Dimension /\ first.width = w
  BY DEF Dimension
<1> HIDE DEF first
<1>4. dims \in Seq(Dimension) /\ Len(dims) = n + 1 /\ dims[1] = first
      /\ \A j \in 1 .. n : dims[j + 1] = Reverse(D)[j]
  <2>1. dims = <<first>> \o Reverse(D)
    BY DEF first
  <2>2. <<first>> \in Seq(Dimension) /\ Len(<<first>>) = 1 /\ <<first>>[1] = first
    BY <1>3
  <2> DEFINE a == <<first>>
             b == Reverse(D)
  <2> HIDE DEF a, b
  <2>3. a \o b \in Seq(Dimension) /\ Len(a \o b) = n + 1 /\ (a \o b)[1] = a[1]
        /\ \A j \in 1 .. n : (a \o b)[j + 1] = b[j]
    BY <1>1, <1>2, <2>2, Concatenated DEF a, b
  <2>4. dims = a \o b /\ a[1] = first /\ b = Reverse(D)
    BY <2>1, <2>2 DEF a, b
  <2> HIDE DEF n
  <2> QED
    BY <1>1, <2>3, <2>4, Zenon
<1>5. \A j \in 1 .. n : Reverse(dims)[j] = D[j]
  <2> TAKE j \in 1 .. n
  <2>1. Reverse(dims)[j] = dims[(n + 1) - j + 1]
    <3>1. Reverse(dims) = [i \in 1 .. n + 1 |-> dims[(n + 1) - i + 1]]
      BY <1>4 DEF Reverse
    <3>2. j \in 1 .. n + 1
      BY <1>1
    <3> QED
      BY <3>1, <3>2
  <2>2. n - j + 1 \in 1 .. n /\ (n + 1) - j + 1 = (n - j + 1) + 1 /\ n - (n - j + 1) + 1 = j
    BY <1>1
  <2>3. dims[(n - j + 1) + 1] = Reverse(D)[n - j + 1] /\ Reverse(D)[n - j + 1] = D[n - (n - j + 1) + 1]
    BY <1>2, <1>4, <2>2
  <2> QED
    BY <2>1, <2>2, <2>3
<1>6. Elements(dims) = Elements(D) * w
  <2>1. dims[1].width = w
    BY <1>3, <1>4
  <2>2. \A j \in 1 .. n : dims[j + 1].width = D[n - j + 1].width
    BY <1>2, <1>4
  <2> QED
    BY <1>4, <2>1, <2>2, WireProduct
<1> QED
  BY <1>4, <1>5, <1>6

LEMMA FromRightType ==
    ASSUME NEW dim \in Dimension, NEW i \in Span(dim)
    PROVE  FromRight(dim, i) \in Nat /\ FromRight(dim, i) < dim.width
  BY DEF FromRight, Dimension, Span

\* Ranges as wide as the dimensions they go with.
InSpans(dims, ranges) ==
    /\ ranges \in Seq(Ranges) /\ Len(ranges) = Len(dims)
    /\ \A k \in 1 .. Len(dims) : ranges[k].left \in Span(dims[k]) /\ ranges[k].right \in Span(dims[k])

\* A legal select is in bounds and, but for its last range, an index.
LEMMA LegalFacts ==
    ASSUME NEW dims \in Seq(Dimension), NEW last \in BOOLEAN, NEW ranges \in Legal(dims, last)
    PROVE  /\ InSpans(dims, ranges)
           /\ \A k \in 1 .. Len(dims) :
                 \/ ranges[k].left = ranges[k].right
                 \/ last /\ k = Len(dims) /\ (Upwards(ranges[k]) <=> dims[k].swapped)
PROOF
<1> DEFINE n == Len(dims)
           indices == UNION {Span(dims[k]) : k \in 1 .. n}
<1>1. n \in Nat
  OBVIOUS
<1>2. /\ ranges \in [1 .. n -> [left : indices, right : indices]]
      /\ \A k \in 1 .. n :
            /\ {ranges[k].left, ranges[k].right} \subseteq Span(dims[k])
            /\ \/ ranges[k].left = ranges[k].right
               \/ last /\ k = n /\ (Upwards(ranges[k]) <=> dims[k].swapped)
  BY DEF Legal
<1>3. indices \subseteq Int
  <2>1. ASSUME NEW k \in 1 .. n
        PROVE  Span(dims[k]) \subseteq Int
    <3>1. dims[k] \in Dimension
      OBVIOUS
    <3> QED
      BY <3>1 DEF Dimension, Span
  <2> QED
    BY <2>1
<1> HIDE DEF indices
<1>4. [left : indices, right : indices] \subseteq Ranges
  BY <1>3 DEF Ranges
<1>5. ranges \in [1 .. n -> Ranges]
  BY <1>2, <1>4
<1>6. ranges \in Seq(Ranges) /\ Len(ranges) = n
  <2> HIDE DEF n
  <2> QED
    BY <1>1, <1>5, SequenceMade
<1> QED
  BY <1>2, <1>6 DEF InSpans

LEMMA LastRangeType ==
    ASSUME NEW dim \in Dimension, NEW range, range.left \in Span(dim), range.right \in Span(dim),
           NEW variable \in BOOLEAN
    PROVE  /\ LastRange(dim, range, variable).left \in Nat /\ LastRange(dim, range, variable).left < dim.width
           /\ LastRange(dim, range, variable).right \in Nat /\ LastRange(dim, range, variable).right < dim.width
           /\ ~variable => /\ LastRange(dim, range, variable).right <= LastRange(dim, range, variable).left
                           /\ {LastRange(dim, range, variable).left, LastRange(dim, range, variable).right}
                              = {FromRight(dim, range.left), FromRight(dim, range.right)}
           /\ range.left = range.right =>
                 /\ LastRange(dim, range, variable).left = FromRight(dim, range.left)
                 /\ LastRange(dim, range, variable).right = FromRight(dim, range.left)
PROOF
<1> DEFINE l == FromRight(dim, range.left)
           r == FromRight(dim, range.right)
           last == LastRange(dim, range, variable)
<1>1. l \in Nat /\ r \in Nat /\ l < dim.width /\ r < dim.width /\ dim.width \in Nat
  <2>1. dim.width \in Nat
    BY DEF Dimension
  <2> QED
    BY <2>1, FromRightType
<1>2. last = IF ~variable THEN Bound(Max({l, r}), Min({l, r}))
             ELSE IF range.left = range.right THEN Bound(l, r)
             ELSE IF dim.swapped THEN Bound(r, l) ELSE Bound(l, r)
  BY DEF LastRange
<1>3. range.left = range.right => l = r
  OBVIOUS
<1> HIDE DEF l, r, last
<1>4. Bound(Max({l, r}), Min({l, r})) = IF l < r THEN Bound(r, l) ELSE Bound(l, r)
  <2>1. CASE l < r
    <3>1. \A x \in {l, r} : l <= x /\ x <= r
      BY <1>1, <2>1
    <3>2. Min({l, r}) \in {l, r} /\ \A y \in {l, r} : Min({l, r}) <= y
      BY <3>1 DEF Min
    <3>3. Max({l, r}) \in {l, r} /\ \A y \in {l, r} : Max({l, r}) >= y
      BY <1>1, <3>1 DEF Max
    <3>4. Min({l, r}) = l /\ Max({l, r}) = r
      BY <1>1, <2>1, <3>2, <3>3
    <3> QED
      BY <2>1, <3>4
  <2>2. CASE ~(l < r)
    <3>1. \A x \in {l, r} : r <= x /\ x <= l
      BY <1>1, <2>2
    <3>2. Min({l, r}) \in {l, r} /\ \A y \in {l, r} : Min({l, r}) <= y
      BY <3>1 DEF Min
    <3>3. Max({l, r}) \in {l, r} /\ \A y \in {l, r} : Max({l, r}) >= y
      BY <1>1, <3>1 DEF Max
    <3>4. Min({l, r}) = r /\ Max({l, r}) = l
      BY <1>1, <2>2, <3>2, <3>3
    <3> QED
      BY <2>2, <3>4
  <2> QED
    BY <2>1, <2>2
<1>5. \A x, y : Bound(x, y).left = x /\ Bound(x, y).right = y
  BY DEF Bound
<1>6. last = Bound(l, r) \/ last = Bound(r, l)
  BY <1>2, <1>4
<1>7. last.left \in {l, r} /\ last.right \in {l, r} /\ {last.left, last.right} = {l, r}
  BY <1>5, <1>6
<1>8. ~variable => last.right <= last.left
  BY <1>1, <1>2, <1>4, <1>5
<1> QED
  BY <1>1, <1>3, <1>7, <1>8 DEF l, r, last

\* The offset of indices in bounds is in bounds.
LEMMA IndexBounds ==
    ASSUME NEW dims \in Seq(Dimension), NEW ranges, InSpans(dims, ranges),
           NEW last \in Nat, \A k \in 1 .. Len(dims) : k = Len(dims) => last < dims[k].width
    PROVE  \A k \in Nat : k <= Len(dims) =>
              /\ Indexed(dims, ranges, last)[k] \in Nat
              /\ Indexed(dims, ranges, last)[k] < Products(dims)[k]
PROOF
<1> DEFINE n == Len(dims)
           offset == Indexed(dims, ranges, last)
           T == {k \in Nat : k <= n => offset[k] \in Nat /\ offset[k] < Products(dims)[k]}
<1>1. n \in Nat /\ Len(ranges) = n /\ Len(ranges) \in Nat
  BY DEF InSpans
<1>2. 0 \in T
  BY <1>1, IndexRecursion, ProductRecursion
<1>3. ASSUME NEW k \in Nat, k \in T
      PROVE  k + 1 \in T
  <2>1. SUFFICES ASSUME k + 1 <= n
                 PROVE  offset[k + 1] \in Nat /\ offset[k + 1] < Products(dims)[k + 1]
    OBVIOUS
  <2> DEFINE w == dims[k + 1].width
             i == IF k + 1 = n THEN last ELSE FromRight(dims[k + 1], ranges[k + 1].left)
             p == Products(dims)[k]
  <2>2. k + 1 \in 1 .. n /\ k < n /\ k <= n
    BY <1>1, <2>1
  <2>3. offset[k] \in Nat /\ offset[k] < p
    BY <1>3, <2>2
  <2>4. w \in Nat \ {0} /\ dims[k + 1] \in Dimension
    <3>1. dims[k + 1] \in Dimension
      BY <2>2
    <3> QED
      BY <3>1 DEF Dimension
  <2>5. i \in Nat /\ i < w
    <3>1. FromRight(dims[k + 1], ranges[k + 1].left) \in Nat
          /\ FromRight(dims[k + 1], ranges[k + 1].left) < w
      <4>1. ranges[k + 1].left \in Span(dims[k + 1])
        BY <2>2 DEF InSpans
      <4> QED
        BY <2>4, <4>1, FromRightType
    <3> QED
      BY <2>2, <3>1
  <2>6. offset[k + 1] = offset[k] * w + i
    BY <1>1, <2>2, IndexRecursion
  <2>7. Products(dims)[k + 1] = p * w
    BY <1>1, <2>2, ProductRecursion
  <2>8. p \in Nat
    BY <1>1, <2>2, ProductsType
  <2> HIDE DEF offset, p, w, i
  <2>9. offset[k] * w \in Nat /\ p * w \in Nat /\ offset[k] * w + w <= p * w
    <3> DEFINE x == offset[k]
    <3>1. x \in Int /\ 0 <= x /\ x < p /\ w \in Nat /\ p \in Int
      BY <2>3, <2>4, <2>8
    <3> HIDE DEF x
    <3>2. x * w \in Nat /\ p * w \in Nat /\ x * w + w <= p * w
      BY <3>1, PartInWhole
    <3> QED
      BY <3>2 DEF x
  <2> QED
    BY <2>4, <2>5, <2>6, <2>7, <2>9
<1> HIDE DEF T
<1>4. \A k \in Nat : k \in T
  BY <1>2, <1>3, Induct
<1> QED
  BY <1>4 DEF T

\* What an access selects is in what it selects from, and is something unless a
\* slice follows a variable index.
Within(t, elements, unit, certain) ==
    /\ t.offset \in Nat /\ t.width \in Int
    /\ t.offset + t.width <= elements * unit
    /\ certain => t.width >= unit

\* traverse_dimensions stays in the array, for any legal ranges.
LEMMA TraverseBounds ==
    ASSUME NEW dims \in Seq(Dimension), NEW ranges, InSpans(dims, ranges),
           NEW unit \in Nat, NEW variable \in BOOLEAN
    PROVE  Within(TraverseDimensions(dims, ranges, unit, variable), Elements(dims), unit,
                  ~variable \/ \A k \in 1 .. Len(dims) : ranges[k].left = ranges[k].right)
PROOF
<1> DEFINE n == Len(dims)
           t == TraverseDimensions(dims, ranges, unit, variable)
           certain == ~variable \/ \A k \in 1 .. n : ranges[k].left = ranges[k].right
<1>1. n \in Nat /\ Len(ranges) = n /\ Len(ranges) \in Nat /\ ranges \in Seq(Ranges)
  BY DEF InSpans
<1>2. CASE ranges = <<>>
  <2>1. t = [offset |-> 0, width |-> unit]
    BY <1>2 DEF TraverseDimensions
  <2>2. n = 0
    BY <1>1, <1>2
  <2>3. Elements(dims) = 1
    BY <2>2, ProductRecursion DEF Elements
  <2>4. t.offset = 0 /\ t.width = unit
    BY <2>1
  <2> HIDE DEF t, certain
  <2>5. Within(t, Elements(dims), unit, certain)
    BY <2>3, <2>4 DEF Within
  <2> QED
    BY <2>5 DEF t, certain
<1>3. CASE ranges # <<>>
  <2>1. n \in Nat \ {0} /\ n \in 1 .. n /\ n - 1 \in Nat /\ n - 1 < n /\ (n - 1) + 1 = n /\ n - 1 <= n
    BY <1>1, <1>3
  <2> DEFINE last == LastRange(dims[n], ranges[n], variable)
             offset == Indexed(dims, ranges, last.right)
             w == dims[n].width
             b == offset[n - 1]
             p == Products(dims)[n - 1]
  <2>2. t = [offset |-> offset[n] * unit, width |-> (last.left - last.right + 1) * unit]
    BY <1>1, <1>3 DEF TraverseDimensions
  <2>3. dims[n] \in Dimension /\ w \in Nat \ {0}
    <3>1. dims[n] \in Dimension
      BY <2>1
    <3> QED
      BY <3>1 DEF Dimension
  <2>4. ranges[n].left \in Span(dims[n]) /\ ranges[n].right \in Span(dims[n])
    BY <2>1 DEF InSpans
  <2>5. /\ last.left \in Nat /\ last.left < w /\ last.right \in Nat /\ last.right < w
        /\ certain => last.right <= last.left
    <3>1. /\ last.left \in Nat /\ last.left < w /\ last.right \in Nat /\ last.right < w
          /\ ~variable => last.right <= last.left
          /\ ranges[n].left = ranges[n].right => last.left = last.right
      <4>1. dims[n] \in Dimension
        BY <2>3
      <4> QED
        BY <2>4, <4>1, LastRangeType
    <3> HIDE DEF last
    <3> QED
      BY <2>1, <3>1
  <2> HIDE DEF last
  <2>6. b \in Nat /\ b < p
    <3>1. \A k \in Nat : k <= Len(dims) => offset[k] \in Nat /\ offset[k] < Products(dims)[k]
      BY <2>5, IndexBounds
    <3> QED
      BY <2>1, <3>1
  <2>7. offset[n] = b * w + last.right
    <3>1. offset[(n - 1) + 1] = b * dims[(n - 1) + 1].width
                    + IF (n - 1) + 1 = Len(ranges) THEN last.right
                      ELSE FromRight(dims[(n - 1) + 1], ranges[(n - 1) + 1].left)
      BY <1>1, <2>1, IndexRecursion
    <3> QED
      BY <1>1, <2>1, <3>1
  <2>8. Elements(dims) = p * w
    <3>1. Products(dims)[(n - 1) + 1] = p * dims[(n - 1) + 1].width
      BY <2>1, ProductRecursion
    <3> QED
      BY <2>1, <3>1 DEF Elements
  <2>9. p \in Nat
    BY <2>1, ProductsType
  <2> HIDE DEF b, p, w, certain
  <2>10. b * w \in Nat /\ p * w \in Nat /\ b * w + w <= p * w
    BY <2>3, <2>6, <2>9, PartInWhole
  <2> DEFINE o == b * w + last.right
             span == last.left - last.right + 1
  <2>11. o \in Nat /\ span \in Int /\ o + span <= p * w /\ (certain => 1 <= span)
    <3> DEFINE x == b * w
               y == p * w
    <3>1. x \in Nat /\ y \in Nat /\ x + w <= y
      BY <2>10
    <3> HIDE DEF x, y
    <3>2. \A l, r \in Nat : l < w =>
             x + r \in Nat /\ l - r + 1 \in Int /\ (x + r) + (l - r + 1) <= y /\ (r <= l => 1 <= l - r + 1)
      BY <2>3, <3>1
    <3>3. /\ x + last.right \in Nat /\ last.left - last.right + 1 \in Int
          /\ (x + last.right) + (last.left - last.right + 1) <= y
          /\ last.right <= last.left => 1 <= last.left - last.right + 1
      BY <2>5, <3>2
    <3> QED
      BY <2>5, <3>3 DEF x, y
  <2>12. t.offset = o * unit /\ t.width = span * unit
    BY <2>2, <2>7
  <2> HIDE DEF o, span, t
  <2>13. o * unit \in Nat /\ span * unit \in Int /\ o * unit + span * unit <= (p * w) * unit
    <3>1. (o + span) * unit <= (p * w) * unit
      BY <2>10, <2>11, Monotone
    <3>2. (o + span) * unit = o * unit + span * unit
      BY <2>11
    <3> QED
      BY <2>11, <3>1, <3>2
  <2>14. certain => span * unit >= unit
    <3>1. certain => 1 * unit <= span * unit
      BY <2>11, Monotone
    <3> QED
      BY <2>13, <3>1
  <2>15. Within(t, Elements(dims), unit, certain)
    BY <2>8, <2>12, <2>13, <2>14 DEF Within
  <2> QED
    BY <2>15 DEF t, certain
<1> QED
  BY <1>2, <1>3

------------------------------------------------------------------------------
(***************************************************************************)
(* What a select names                                                     *)
(***************************************************************************)
Shift(offset, positions) == {offset + p : p \in positions}

Chosen(names, pattern) == {bit[1] : bit \in {b \in names : Names(pattern, b[2])}}

\* Every bit of the layout has a name.
Full(layout) == Selected(layout, <<>>) = 0 .. layout.size - 1

\* A name begins as a select says if its first index does and the rest does.
LEMMA NamesAfter ==
    ASSUME NEW r \in Ranges, NEW q \in Seq(Ranges), NEW x \in Int, NEW name \in Seq(Int)
    PROVE  Names(<<r>> \o q, <<x>> \o name) <=> Low(r) <= x /\ x <= High(r) /\ Names(q, name)
PROOF
<1> DEFINE pattern == <<r>> \o q
           full == <<x>> \o name
<1>1. /\ pattern \in Seq(Ranges) /\ Len(pattern) = Len(q) + 1 /\ pattern[1] = r
      /\ \A k \in 1 .. Len(q) : pattern[k + 1] = q[k]
  OBVIOUS
<1>2. /\ full \in Seq(Int) /\ Len(full) = Len(name) + 1 /\ full[1] = x
      /\ \A k \in 1 .. Len(name) : full[k + 1] = name[k]
  OBVIOUS
<1>3. Len(q) \in Nat /\ Len(name) \in Nat /\ DOMAIN q = 1 .. Len(q) /\ DOMAIN pattern = 1 .. Len(q) + 1
  BY <1>1
<1> HIDE DEF pattern, full
<1> DEFINE In(k) == Low(pattern[k]) <= full[k] /\ full[k] <= High(pattern[k])
<1>4. Names(pattern, full) <=> Len(q) + 1 <= Len(name) + 1 /\ \A k \in 1 .. Len(q) + 1 : In(k)
  BY <1>1, <1>2, <1>3 DEF Names
<1>5. Len(q) <= Len(name)
      => \A k \in 1 .. Len(q) : In(k + 1) <=> Low(q[k]) <= name[k] /\ name[k] <= High(q[k])
  <2> SUFFICES ASSUME Len(q) <= Len(name), NEW k \in 1 .. Len(q)
               PROVE  In(k + 1) <=> Low(q[k]) <= name[k] /\ name[k] <= High(q[k])
    OBVIOUS
  <2>1. k \in 1 .. Len(name)
    BY <1>3
  <2>2. pattern[k + 1] = q[k] /\ full[k + 1] = name[k]
    BY <1>1, <1>2, <2>1
  <2> QED
    BY <2>2
<1>6. Names(q, name) <=> Len(q) <= Len(name)
                         /\ \A k \in 1 .. Len(q) : Low(q[k]) <= name[k] /\ name[k] <= High(q[k])
  BY <1>3 DEF Names
<1>7. In(1) <=> Low(r) <= x /\ x <= High(r)
  BY <1>1, <1>2
<1> HIDE DEF In
<1>8. (\A k \in 1 .. Len(q) + 1 : In(k)) <=> In(1) /\ \A k \in 1 .. Len(q) : In(k + 1)
  <2>1. ASSUME In(1), \A k \in 1 .. Len(q) : In(k + 1), NEW k \in 1 .. Len(q) + 1
        PROVE  In(k)
    <3>1. CASE k = 1
      BY <2>1, <3>1
    <3>2. CASE k # 1
      <4>1. k - 1 \in 1 .. Len(q) /\ (k - 1) + 1 = k
        BY <1>3, <3>2
      <4>2. In((k - 1) + 1)
        BY <2>1, <4>1
      <4> QED
        BY <4>1, <4>2
    <3> QED
      BY <3>1, <3>2
  <2>2. 1 \in 1 .. Len(q) + 1 /\ \A k \in 1 .. Len(q) : k + 1 \in 1 .. Len(q) + 1
    BY <1>3
  <2> QED
    BY <2>1, <2>2
<1>9. Len(q) + 1 <= Len(name) + 1 <=> Len(q) <= Len(name)
  BY <1>3
<1>10. Names(pattern, full) <=> Low(r) <= x /\ x <= High(r) /\ Names(q, name)
  BY <1>4, <1>5, <1>6, <1>7, <1>8, <1>9
<1> QED
  BY <1>10 DEF pattern, full

\* What a select chooses of a part, whose names begin with x.
LEMMA ChosenUnder ==
    ASSUME NEW r \in Ranges, NEW q \in Seq(Ranges), NEW x \in Int, NEW offset \in Nat,
           NEW names \in SUBSET (Nat \X Seq(Int))
    PROVE  Chosen(Under(x, offset, names), <<r>> \o q)
           = IF Low(r) <= x /\ x <= High(r) THEN Shift(offset, Chosen(names, q)) ELSE {}
PROOF
<1> DEFINE left == Chosen(Under(x, offset, names), <<r>> \o q)
           within == Low(r) <= x /\ x <= High(r)
<1>1. \A b \in names : Names(<<r>> \o q, <<x>> \o b[2]) <=> within /\ Names(q, b[2])
  <2> TAKE b \in names
  <2>1. b[2] \in Seq(Int)
    OBVIOUS
  <2> QED
    BY <2>1, NamesAfter
<1>2. \A p : p \in left <=> \E b \in names : Names(<<r>> \o q, <<x>> \o b[2]) /\ p = offset + b[1]
  <2> DEFINE named(b) == <<offset + b[1], <<x>> \o b[2]>>
             pattern == <<r>> \o q
  <2>1. \A b \in names : named(b)[1] = offset + b[1] /\ named(b)[2] = <<x>> \o b[2]
    OBVIOUS
  <2>2. Under(x, offset, names) = {named(b) : b \in names}
    BY DEF Under
  <2>3. \A p : p \in left <=> \E c \in Under(x, offset, names) : Names(pattern, c[2]) /\ p = c[1]
    <3> HIDE DEF pattern
    <3>1. left = Chosen(Under(x, offset, names), pattern)
      BY DEF pattern
    <3> HIDE DEF left
    <3> QED
      BY <3>1, Zenon DEF Chosen
  <2> HIDE DEF left, named, pattern
  <2>4. \A p : p \in left <=> \E b \in names : Names(pattern, named(b)[2]) /\ p = named(b)[1]
    BY <2>2, <2>3, Zenon
  <2>5. \A p : p \in left <=> \E b \in names : Names(pattern, <<x>> \o b[2]) /\ p = offset + b[1]
    <3> TAKE p
    <3>1. \A b \in names : Names(pattern, named(b)[2]) /\ p = named(b)[1]
                            <=> Names(pattern, <<x>> \o b[2]) /\ p = offset + b[1]
      BY <2>1
    <3> QED
      BY <2>4, <3>1, Zenon
  <2> QED
    BY <2>5 DEF pattern
<1> HIDE DEF left, within
<1>3. \A p : p \in left <=> \E b \in names : (within /\ Names(q, b[2])) /\ p = offset + b[1]
  BY <1>1, <1>2, Zenon
<1>4. \A p : p \in left <=> within /\ \E b \in names : Names(q, b[2]) /\ p = offset + b[1]
  BY <1>3, Zenon
<1>5. \A p : p \in Shift(offset, Chosen(names, q)) <=> \E b \in names : Names(q, b[2]) /\ p = offset + b[1]
  BY DEF Shift, Chosen
<1>6. left = IF within THEN Shift(offset, Chosen(names, q)) ELSE {}
  BY <1>4, <1>5
<1> QED
  BY <1>6 DEF left, within

\* A select chooses from the union of sets of names what it chooses from each.
LEMMA ChosenPieces ==
    ASSUME NEW f, NEW pattern
    PROVE  Chosen(UNION {f[i] : i \in DOMAIN f}, pattern) = UNION {Chosen(f[i], pattern) : i \in DOMAIN f}
  BY DEF Chosen

\* What a range in a dimension of an array selects: its elements.
InElements(r, part, range, q) ==
    UNION {Shift(ToTheRight(r, i) * part.size, Selected(part, q)) :
              i \in {j \in Low(r) .. High(r) : Low(range) <= j /\ j <= High(range)}}

\* A range selects from an array what the rest selects from the elements in it.
LEMMA ArraySelect ==
    ASSUME NEW r \in Ranges, NEW part \in LayoutType, NEW range \in Ranges, NEW q \in Seq(Ranges)
    PROVE  Selected(Array(r, part), <<range>> \o q)
           = InElements(r, part, range, q)
PROOF
<1> DEFINE span == Low(r) .. High(r)
           f == [i \in span |-> Under(i, ToTheRight(r, i) * part.size, part.names)]
           pattern == <<range>> \o q
           inside(i) == Low(range) <= i /\ i <= High(range)
           g(i) == Shift(ToTheRight(r, i) * part.size, Selected(part, q))
<1>1. Array(r, part).names = UNION {f[i] : i \in DOMAIN f}
  BY ArrayType
<1>2. Selected(Array(r, part), pattern) = UNION {Chosen(f[i], pattern) : i \in DOMAIN f}
  <2> HIDE DEF f, pattern
  <2>1. Selected(Array(r, part), pattern) = Chosen(Array(r, part).names, pattern)
    BY DEF Selected, Chosen
  <2> QED
    BY <1>1, <2>1, ChosenPieces
<1>3. part.size \in Nat /\ part.names \in SUBSET (Nat \X Seq(Int))
  BY DEF LayoutType
<1>4. ASSUME NEW i \in span
      PROVE  Chosen(f[i], pattern) = IF inside(i) THEN g(i) ELSE {}
  <2>1. ToTheRight(r, i) * part.size \in Nat /\ i \in Int
    <3>1. ToTheRight(r, i) \in Nat
      BY ToTheRightType
    <3>2. i \in Int
      BY RangeBounds
    <3> QED
      BY <1>3, <3>1, <3>2
  <2> DEFINE offset == ToTheRight(r, i) * part.size
  <2>2. f[i] = Under(i, offset, part.names)
    OBVIOUS
  <2> HIDE DEF offset
  <2>3. offset \in Nat /\ i \in Int
    BY <2>1 DEF offset
  <2>4. Chosen(Under(i, offset, part.names), <<range>> \o q)
        = IF Low(range) <= i /\ i <= High(range) THEN Shift(offset, Chosen(part.names, q)) ELSE {}
    BY <1>3, <2>3, ChosenUnder
  <2> QED
    BY <2>2, <2>4 DEF offset, Selected, Chosen
<1>5. DOMAIN f = span
  OBVIOUS
<1> HIDE DEF f, g, span, pattern, inside
<1>6. UNION {Chosen(f[i], pattern) : i \in DOMAIN f} = UNION {g(i) : i \in {j \in span : inside(j)}}
  BY <1>4, <1>5
<1> QED
  BY <1>2, <1>6 DEF g, span, pattern, inside, InElements

\* An index selects from an array what the rest selects from one element.
LEMMA ArrayIndex ==
    ASSUME NEW r \in Ranges, NEW part \in LayoutType, NEW range \in Ranges, NEW q \in Seq(Ranges),
           range.left = range.right, range.left \in Low(r) .. High(r)
    PROVE  Selected(Array(r, part), <<range>> \o q)
           = Shift(ToTheRight(r, range.left) * part.size, Selected(part, q))
PROOF
<1>1. Low(range) = range.left /\ High(range) = range.left /\ range.left \in Int
  BY RangeBounds
<1>2. {j \in Low(r) .. High(r) : Low(range) <= j /\ j <= High(range)} = {range.left}
  <2>1. \A j \in Low(r) .. High(r) : j \in Int
    BY RangeBounds
  <2> QED
    BY <1>1, <2>1
<1> DEFINE g(i) == Shift(ToTheRight(r, i) * part.size, Selected(part, q))
<1>3. Selected(Array(r, part), <<range>> \o q) = UNION {g(i) : i \in {range.left}}
  <2>1. Selected(Array(r, part), <<range>> \o q) = InElements(r, part, range, q)
    BY ArraySelect
  <2>2. InElements(r, part, range, q)
        = UNION {g(i) : i \in {j \in Low(r) .. High(r) : Low(range) <= j /\ j <= High(range)}}
    BY DEF InElements
  <2> QED
    BY <1>2, <2>1, <2>2
<1> HIDE DEF g
<1>4. UNION {g(i) : i \in {range.left}} = g(range.left)
  OBVIOUS
<1> QED
  BY <1>3, <1>4 DEF g

\* Naming a member of an aggregate selects it.
LEMMA MemberSelect ==
    ASSUME NEW d \in Nat, NEW t \in Declarations[d], t.kind # "item", NEW m \in 1 .. Len(t.members),
           NEW q \in Seq(Ranges)
    PROVE  Selected(ElementLayout(Layout[d - 1], t), <<Bound(m, m)>> \o q)
           = Shift(Lowest(Layout[d - 1], t, m), Selected(Layout[d - 1][t.members[m]], q))
PROOF
<1> DEFINE layout == Layout[d - 1]
           n == Len(t.members)
           element == ElementLayout(layout, t)
           f == [k \in 1 .. n |-> Under(k, Lowest(layout, t, k), layout[t.members[k]].names)]
           range == Bound(m, m)
           pattern == <<range>> \o q
           g(k) == Shift(Lowest(layout, t, k), Selected(layout[t.members[k]], q))
<1>1. t.kind \in Aggregates /\ n \in Nat \ {0} /\ Sized(layout, t.members)
  BY DeclarationFacts, MembersSized
<1>2. element.names = UNION {f[k] : k \in DOMAIN f}
  <2> DEFINE under(k) == Under(k, Lowest(layout, t, k), layout[t.members[k]].names)
  <2>1. t.kind \in {"item"} \cup Aggregates
    BY <1>1
  <2>2. element.names = UNION {under(k) : k \in 1 .. n}
    BY <1>1, <2>1, ElementType
  <2>3. f = [k \in 1 .. n |-> under(k)]
    OBVIOUS
  <2> HIDE DEF under, f, element
  <2>4. UNION {f[k] : k \in DOMAIN f} = UNION {under(k) : k \in 1 .. n}
    BY <2>3
  <2> QED
    BY <2>2, <2>4
<1>3. range \in Ranges /\ Low(range) = m /\ High(range) = m
  <2>1. range \in Ranges /\ range.left = m /\ range.right = m
    BY <1>1 DEF Bound, Ranges
  <2> HIDE DEF range
  <2> QED
    BY <2>1, RangeBounds
<1> HIDE DEF range
<1>4. Selected(element, pattern) = UNION {Chosen(f[k], pattern) : k \in DOMAIN f}
  <2> HIDE DEF f, pattern, element
  <2>1. Selected(element, pattern) = Chosen(element.names, pattern)
    BY DEF Selected, Chosen
  <2> QED
    BY <1>2, <2>1, ChosenPieces
<1>5. ASSUME NEW k \in 1 .. n
      PROVE  Chosen(f[k], pattern) = IF k = m THEN g(m) ELSE {}
  <2> DEFINE offset == Lowest(layout, t, k)
             names == layout[t.members[k]].names
  <2>1. offset \in Nat /\ k \in Int
    <3>1. n - k \in Nat /\ n - k <= n /\ k \in Int
      BY <1>1
    <3> QED
      BY <1>1, <3>1, SizesType DEF Lowest
  <2>2. names \in SUBSET (Nat \X Seq(Int))
    BY <1>1 DEF Sized, LayoutType
  <2>3. f[k] = Under(k, offset, names)
    OBVIOUS
  <2>4. g(k) = Shift(offset, Chosen(names, q))
    BY DEF Selected, Chosen
  <2> HIDE DEF offset, names, f, g
  <2>5. Chosen(Under(k, offset, names), <<range>> \o q)
        = IF Low(range) <= k /\ k <= High(range) THEN Shift(offset, Chosen(names, q)) ELSE {}
    BY <1>3, <2>1, <2>2, ChosenUnder
  <2>6. Low(range) <= k /\ k <= High(range) <=> k = m
    BY <1>1, <1>3
  <2> QED
    BY <2>3, <2>4, <2>5, <2>6
<1>6. DOMAIN f = 1 .. n
  OBVIOUS
<1> HIDE DEF f, g, pattern
<1>7. UNION {Chosen(f[k], pattern) : k \in DOMAIN f} = g(m)
  BY <1>5, <1>6
<1> QED
  BY <1>4, <1>7 DEF g, pattern, range

------------------------------------------------------------------------------
(***************************************************************************)
(* Every bit has a name                                                    *)
(***************************************************************************)
\* The parts from lo to hi, of e bits each.
LEMMA Parts ==
    ASSUME NEW e \in Nat \ {0}, NEW lo \in Nat, NEW hi \in Nat, lo <= hi
    PROVE  UNION {Shift(j * e, 0 .. e - 1) : j \in lo .. hi} = lo * e .. (hi + 1) * e - 1
PROOF
<1>1. /\ lo * e \in Nat /\ (hi + 1) * e \in Nat
      /\ \A j \in lo .. hi : j * e \in Nat /\ lo * e <= j * e /\ j * e + e <= (hi + 1) * e
  <2>1. lo * e \in Nat /\ (hi + 1) * e \in Nat
    OBVIOUS
  <2>2. ASSUME NEW j \in lo .. hi
        PROVE  j * e \in Nat /\ lo * e <= j * e /\ j * e + e <= (hi + 1) * e
    <3>1. j \in Nat /\ lo <= j /\ j < hi + 1 /\ 0 <= j /\ hi + 1 \in Int
      OBVIOUS
    <3>2. lo * e <= j * e
      BY <3>1, Monotone
    <3>3. j * e \in Nat /\ j * e + e <= (hi + 1) * e
      BY <3>1, PartInWhole
    <3> QED
      BY <3>2, <3>3
  <2> QED
    BY <2>1, <2>2
<1>2. ASSUME NEW j \in lo .. hi, NEW p \in Shift(j * e, 0 .. e - 1)
      PROVE  p \in lo * e .. (hi + 1) * e - 1
  <2>1. PICK y \in 0 .. e - 1 : p = j * e + y
    BY DEF Shift
  <2> DEFINE a == lo * e
             b == (hi + 1) * e
             c == j * e
  <2>2. a \in Nat /\ b \in Nat /\ c \in Nat /\ a <= c /\ c + e <= b
    BY <1>1
  <2> HIDE DEF a, b, c
  <2>3. p \in a .. b - 1
    BY <2>1, <2>2 DEF c
  <2> QED
    BY <2>3 DEF a, b
<1>3. ASSUME NEW p \in lo * e .. (hi + 1) * e - 1
      PROVE  \E j \in lo .. hi : p \in Shift(j * e, 0 .. e - 1)
  <2> DEFINE j == p \div e
             y == p - j * e
  <2>1. p \in Nat /\ lo * e <= p /\ p < (hi + 1) * e
    BY <1>1
  <2>2. j \in Int /\ j * e <= p /\ p < (j + 1) * e
    <3>1. p \div e \in Int /\ e * (p \div e) <= p /\ p < e * ((p \div e) + 1)
      BY <2>1
    <3> HIDE DEF j
    <3>2. j \in Int /\ e * j <= p /\ p < e * (j + 1)
      BY <3>1 DEF j
    <3> QED
      BY <3>2
  <2> HIDE DEF j
  <2>3. lo <= j
    <3>1. ASSUME j + 1 <= lo PROVE FALSE
      <4>1. (j + 1) * e <= lo * e
        BY <2>2, <3>1, Monotone
      <4> QED
        BY <1>1, <2>1, <2>2, <4>1
    <3> QED
      BY <2>2, <3>1
  <2>4. j <= hi
    <3>1. ASSUME hi + 1 <= j PROVE FALSE
      <4>1. (hi + 1) * e <= j * e
        BY <2>2, <3>1, Monotone
      <4> QED
        BY <1>1, <2>1, <2>2, <4>1
    <3> QED
      BY <2>2, <3>1
  <2>5. y \in 0 .. e - 1 /\ p = j * e + y
    <3>1. (j + 1) * e = j * e + e /\ j * e \in Int
      BY <2>2, Plus1
    <3> QED
      BY <2>1, <2>2, <3>1
  <2>6. p \in Shift(j * e, 0 .. e - 1)
    BY <2>5, Zenon DEF Shift
  <2>7. j \in lo .. hi
    BY <2>2, <2>3, <2>4
  <2> QED
    BY <2>6, <2>7
<1> QED
  BY <1>2, <1>3

\* The positions of a run of elements, in the direction of their dimension.
LEMMA RunToTheRight ==
    ASSUME NEW r \in Ranges, NEW a \in Low(r) .. High(r), NEW b \in Low(r) .. High(r), a <= b
    PROVE  LET lo == IF Upwards(r) THEN ToTheRight(r, b) ELSE ToTheRight(r, a)
               hi == IF Upwards(r) THEN ToTheRight(r, a) ELSE ToTheRight(r, b)
           IN  lo \in Nat /\ hi \in Nat /\ lo <= hi /\ {ToTheRight(r, i) : i \in a .. b} = lo .. hi
PROOF
<1>1. /\ r.left \in Int /\ r.right \in Int /\ a \in Int /\ b \in Int
      /\ Low(r) <= a /\ b <= High(r)
      /\ Upwards(r) => High(r) = r.right
      /\ ~Upwards(r) => Low(r) = r.right
      /\ Low(r) \in Int /\ High(r) \in Int
  BY RangeBounds
<1>2. CASE Upwards(r)
  <2>1. \A i : ToTheRight(r, i) = r.right - i
    BY <1>2 DEF ToTheRight
  <2>2. {ToTheRight(r, i) : i \in a .. b} = (r.right - b) .. (r.right - a)
    <3>1. \A p \in (r.right - b) .. (r.right - a) : r.right - p \in a .. b /\ p = r.right - (r.right - p)
      BY <1>1
    <3>2. \A i \in a .. b : r.right - i \in (r.right - b) .. (r.right - a)
      BY <1>1
    <3> QED
      BY <2>1, <3>1, <3>2
  <2>3. r.right - b \in Nat /\ r.right - a \in Nat /\ r.right - b <= r.right - a
    BY <1>1, <1>2
  <2> QED
    BY <1>2, <2>1, <2>2, <2>3
<1>3. CASE ~Upwards(r)
  <2>1. \A i : ToTheRight(r, i) = i - r.right
    BY <1>3 DEF ToTheRight
  <2>2. {ToTheRight(r, i) : i \in a .. b} = (a - r.right) .. (b - r.right)
    <3>1. \A p \in (a - r.right) .. (b - r.right) : p + r.right \in a .. b /\ p = (p + r.right) - r.right
      BY <1>1
    <3>2. \A i \in a .. b : i - r.right \in (a - r.right) .. (b - r.right)
      BY <1>1
    <3> QED
      BY <2>1, <3>1, <3>2
  <2>3. b - r.right \in Nat /\ a - r.right \in Nat /\ a - r.right <= b - r.right
    BY <1>1, <1>3
  <2> QED
    BY <1>3, <2>1, <2>2, <2>3
<1> QED
  BY <1>2, <1>3

\* A slice of an array.
\* Numbers lo and hi, counted from the right, are the ends of a range in r.
Ends(r, range, lo, hi) ==
    /\ r \in Ranges /\ range \in Ranges
    /\ range.left \in Low(r) .. High(r) /\ range.right \in Low(r) .. High(r)
    /\ lo \in Nat /\ hi \in Nat /\ lo <= hi
    /\ {lo, hi} = {ToTheRight(r, range.left), ToTheRight(r, range.right)}

\* A slice of an array of parts selects the elements from lo to hi.
SliceIs(r, part, range, lo, hi) ==
    Selected(Array(r, part), <<range>>) = lo * part.size .. (hi + 1) * part.size - 1

\* A slice selects the bits from its lowest element to its highest one.
LEMMA SliceSelect ==
    ASSUME NEW r, NEW part, part \in LayoutType, Full(part), NEW range, NEW lo, NEW hi, Ends(r, range, lo, hi)
    PROVE  SliceIs(r, part, range, lo, hi)
PROOF
<1>0. /\ r \in Ranges /\ range \in Ranges
      /\ range.left \in Low(r) .. High(r) /\ range.right \in Low(r) .. High(r)
      /\ lo \in Nat /\ hi \in Nat /\ lo <= hi
      /\ {lo, hi} = {ToTheRight(r, range.left), ToTheRight(r, range.right)}
  BY DEF Ends
<1> DEFINE e == part.size
           a == Low(range)
           b == High(range)
<1>1. e \in Nat \ {0} /\ Selected(part, <<>>) = 0 .. e - 1
  BY DEF LayoutType, Full
<1>2. /\ a \in Low(r) .. High(r) /\ b \in Low(r) .. High(r) /\ a <= b /\ a \in Int /\ b \in Int
      /\ {a, b} = {range.left, range.right} /\ Low(r) \in Int /\ High(r) \in Int
  BY <1>0, RangeBounds
<1>3. {lo, hi} = {ToTheRight(r, a), ToTheRight(r, b)}
  <2> HIDE DEF a, b
  <2>1. \A x, y : {x, y} = {range.left, range.right}
                  => {ToTheRight(r, x), ToTheRight(r, y)} = {ToTheRight(r, range.left), ToTheRight(r, range.right)}
    OBVIOUS
  <2> QED
    BY <1>0, <1>2, <2>1
<1> HIDE DEF a, b
<1>4. {ToTheRight(r, i) : i \in a .. b} = lo .. hi
  <2> DEFINE x == IF Upwards(r) THEN ToTheRight(r, b) ELSE ToTheRight(r, a)
             y == IF Upwards(r) THEN ToTheRight(r, a) ELSE ToTheRight(r, b)
  <2>1. x \in Nat /\ y \in Nat /\ x <= y /\ {ToTheRight(r, i) : i \in a .. b} = x .. y
    BY <1>0, <1>2, RunToTheRight
  <2>2. {x, y} = {ToTheRight(r, a), ToTheRight(r, b)}
    OBVIOUS
  <2> HIDE DEF x, y
  <2>3. x = lo /\ y = hi
    BY <1>0, <1>3, <2>1, <2>2
  <2> QED
    BY <2>1, <2>3
<1>5. {j \in Low(r) .. High(r) : a <= j /\ j <= b} = a .. b
  BY <1>2
<1>6. Selected(Array(r, part), <<range>> \o <<>>)
      = UNION {Shift(ToTheRight(r, i) * e, Selected(part, <<>>)) : i \in {j \in Low(r) .. High(r) : a <= j /\ j <= b}}
  <2>1. <<>> \in Seq(Ranges)
    OBVIOUS
  <2>2. Selected(Array(r, part), <<range>> \o <<>>) = InElements(r, part, range, <<>>)
    BY <1>0, <2>1, ArraySelect
  <2> QED
    BY <2>2, Zenon DEF a, b, InElements
<1>7. Selected(Array(r, part), <<range>> \o <<>>) = UNION {Shift(ToTheRight(r, i) * e, 0 .. e - 1) : i \in a .. b}
  BY <1>1, <1>5, <1>6
<1> HIDE DEF e
<1>8. UNION {Shift(ToTheRight(r, i) * e, 0 .. e - 1) : i \in a .. b} = UNION {Shift(j * e, 0 .. e - 1) : j \in lo .. hi}
  <2> DEFINE piece(j) == Shift(j * e, 0 .. e - 1)
  <2>1. UNION {piece(ToTheRight(r, i)) : i \in a .. b} = UNION {piece(j) : j \in {ToTheRight(r, i) : i \in a .. b}}
    <3> HIDE DEF piece
    <3> QED
      OBVIOUS
  <2>2. UNION {piece(ToTheRight(r, i)) : i \in a .. b} = UNION {piece(j) : j \in lo .. hi}
    BY <1>4, <2>1
  <2> QED
    BY <2>2
<1>9. UNION {Shift(j * e, 0 .. e - 1) : j \in lo .. hi} = lo * e .. (hi + 1) * e - 1
  BY <1>0, <1>1, Parts
<1> QED
  <2>1. <<range>> \o <<>> = <<range>>
    BY <1>0
  <2>2. Selected(Array(r, part), <<range>>) = lo * e .. (hi + 1) * e - 1
    BY <1>7, <1>8, <1>9, <2>1
  <2> QED
    BY <2>2 DEF e, SliceIs

\* The empty select chooses every bit.
LEMMA AllNames ==
    ASSUME NEW layout \in LayoutType
    PROVE  Selected(layout, <<>>) = {b[1] : b \in layout.names}
PROOF
<1>1. ASSUME NEW b \in layout.names
      PROVE  Names(<<>>, b[2])
  <2>1. b[2] \in Seq(Int)
    BY DEF LayoutType
  <2> QED
    BY <2>1 DEF Names
<1> QED
  BY <1>1 DEF Selected

\* The bits of a part that stands at an offset.
LEMMA UnderAll ==
    ASSUME NEW x, NEW offset, NEW names
    PROVE  {b[1] : b \in Under(x, offset, names)} = Shift(offset, {b[1] : b \in names})
PROOF
<1> DEFINE under(b) == <<offset + b[1], <<x>> \o b[2]>>
<1>1. \A b : under(b)[1] = offset + b[1]
  OBVIOUS
<1>2. {b[1] : b \in {under(b) : b \in names}} = {offset + p : p \in {b[1] : b \in names}}
  <2> HIDE DEF under
  <2> QED
    BY <1>1
<1> QED
  BY <1>2 DEF Under, Shift

\* The positions of the elements of an array, and of the members of an aggregate.
LEMMA ArrayAll ==
    ASSUME NEW r \in Ranges, NEW part \in LayoutType
    PROVE  Selected(Array(r, part), <<>>)
           = UNION {Shift(ToTheRight(r, i) * part.size, Selected(part, <<>>)) : i \in Low(r) .. High(r)}
PROOF
<1> DEFINE under(i) == Under(i, ToTheRight(r, i) * part.size, part.names)
           shift(i) == Shift(ToTheRight(r, i) * part.size, {b[1] : b \in part.names})
<1>1. Array(r, part) \in LayoutType /\ Array(r, part).names = UNION {under(i) : i \in Low(r) .. High(r)}
  BY ArrayType
<1>2. \A i : {b[1] : b \in under(i)} = shift(i)
  BY UnderAll
<1>3. Selected(Array(r, part), <<>>) = {b[1] : b \in UNION {under(i) : i \in Low(r) .. High(r)}}
  BY <1>1, AllNames
<1> HIDE DEF under, shift
<1>4. {b[1] : b \in UNION {under(i) : i \in Low(r) .. High(r)}}
      = UNION {{b[1] : b \in under(i)} : i \in Low(r) .. High(r)}
  OBVIOUS
<1>5. UNION {{b[1] : b \in under(i)} : i \in Low(r) .. High(r)} = UNION {shift(i) : i \in Low(r) .. High(r)}
  BY <1>2
<1>6. Selected(part, <<>>) = {b[1] : b \in part.names}
  BY AllNames
<1> QED
  BY <1>3, <1>4, <1>5, <1>6 DEF shift

\* The bits of a struct or union are those of its members.
LEMMA MembersAll ==
    ASSUME NEW d \in Nat, NEW t \in Declarations[d], t.kind # "item"
    PROVE  Selected(ElementLayout(Layout[d - 1], t), <<>>)
           = UNION {Shift(Lowest(Layout[d - 1], t, m), Selected(Layout[d - 1][t.members[m]], <<>>)) :
                       m \in 1 .. Len(t.members)}
PROOF
<1> DEFINE layout == Layout[d - 1]
           n == Len(t.members)
           element == ElementLayout(layout, t)
           under(m) == Under(m, Lowest(layout, t, m), layout[t.members[m]].names)
           shift(m) == Shift(Lowest(layout, t, m), {b[1] : b \in layout[t.members[m]].names})
           part(m) == Shift(Lowest(layout, t, m), Selected(layout[t.members[m]], <<>>))
<1>1. t.kind \in {"item"} \cup Aggregates /\ n \in Nat \ {0} /\ Sized(layout, t.members)
  BY DeclarationFacts, MembersSized
<1>2. element \in LayoutType /\ element.names = UNION {under(m) : m \in 1 .. n}
  BY <1>1, ElementType
<1>3. \A m : {b[1] : b \in under(m)} = shift(m)
  BY UnderAll
<1>4. \A m \in 1 .. n : shift(m) = part(m)
  <2> TAKE m \in 1 .. n
  <2>1. layout[t.members[m]] \in LayoutType
    BY <1>1 DEF Sized
  <2>2. Selected(layout[t.members[m]], <<>>) = {b[1] : b \in layout[t.members[m]].names}
    BY <2>1, AllNames
  <2> QED
    BY <2>2
<1> HIDE DEF under, shift, element, part
<1>5. Selected(element, <<>>) = {b[1] : b \in UNION {under(m) : m \in 1 .. n}}
  BY <1>2, AllNames
<1>6. {b[1] : b \in UNION {under(m) : m \in 1 .. n}} = UNION {{b[1] : b \in under(m)} : m \in 1 .. n}
  OBVIOUS
<1>7. UNION {{b[1] : b \in under(m)} : m \in 1 .. n} = UNION {shift(m) : m \in 1 .. n}
  BY <1>3
<1>8. UNION {shift(m) : m \in 1 .. n} = UNION {part(m) : m \in 1 .. n}
  BY <1>4
<1> QED
  BY <1>5, <1>6, <1>7, <1>8 DEF element, part

\* The elements of an array fill it, if the bits of an element do.
LEMMA ArrayFull ==
    ASSUME NEW r \in Ranges, NEW part \in LayoutType, Full(part)
    PROVE  Full(Array(r, part))
PROOF
<1> DEFINE e == part.size
           w == High(r) - Low(r) + 1
           hi == w - 1
<1>1. e \in Nat \ {0} /\ Selected(part, <<>>) = 0 .. e - 1
  BY DEF LayoutType, Full
<1>2. Low(r) \in Int /\ High(r) \in Int /\ Low(r) <= High(r)
  BY RangeBounds
<1>3. {ToTheRight(r, i) : i \in Low(r) .. High(r)} = 0 .. hi
  <2> DEFINE a == Low(r)
             b == High(r)
             x == IF Upwards(r) THEN ToTheRight(r, b) ELSE ToTheRight(r, a)
             y == IF Upwards(r) THEN ToTheRight(r, a) ELSE ToTheRight(r, b)
  <2>1. a \in Low(r) .. High(r) /\ b \in Low(r) .. High(r) /\ a <= b
    BY <1>2
  <2>2. {ToTheRight(r, i) : i \in a .. b} = x .. y
    <3> HIDE DEF a, b
    <3> QED
      BY <2>1, RunToTheRight
  <2>3. x = 0 /\ y = hi
    BY <1>2, RangeBounds DEF ToTheRight
  <2> QED
    BY <2>2, <2>3
<1>4. Selected(Array(r, part), <<>>) = UNION {Shift(ToTheRight(r, i) * e, 0 .. e - 1) : i \in Low(r) .. High(r)}
  BY <1>1, ArrayAll
<1>5. hi \in Nat /\ hi + 1 = w
  BY <1>2
<1> HIDE DEF e, hi
<1>6. UNION {Shift(ToTheRight(r, i) * e, 0 .. e - 1) : i \in Low(r) .. High(r)}
      = UNION {Shift(j * e, 0 .. e - 1) : j \in 0 .. hi}
  <2> DEFINE piece(j) == Shift(j * e, 0 .. e - 1)
  <2>1. UNION {piece(ToTheRight(r, i)) : i \in Low(r) .. High(r)}
        = UNION {piece(j) : j \in {ToTheRight(r, i) : i \in Low(r) .. High(r)}}
    <3> HIDE DEF piece
    <3> QED
      OBVIOUS
  <2>2. UNION {piece(ToTheRight(r, i)) : i \in Low(r) .. High(r)} = UNION {piece(j) : j \in 0 .. hi}
    BY <1>3, <2>1
  <2> QED
    BY <2>2
<1>7. UNION {Shift(j * e, 0 .. e - 1) : j \in 0 .. hi} = 0 * e .. (hi + 1) * e - 1
  <2>1. 0 \in Nat /\ 0 <= hi
    BY <1>5
  <2> QED
    BY <1>1, <1>5, <2>1, Parts
<1>8. Array(r, part).size = w * e
  BY ArrayType DEF e
<1>9. 0 * e = 0
  BY <1>1
<1> HIDE DEF w
<1>10. Selected(Array(r, part), <<>>) = 0 .. Array(r, part).size - 1
  BY <1>4, <1>5, <1>6, <1>7, <1>8, <1>9
<1> QED
  BY <1>10 DEF Full

\* An array of any dimensions is filled.
LEMMA ArrayedFull ==
    ASSUME NEW rs \in Seq(Ranges), NEW element \in LayoutType, Full(element)
    PROVE  \A k \in Nat : k <= Len(rs) => Full(Arrayed(rs, element)[k])
PROOF
<1> DEFINE n == Len(rs)
           array == Arrayed(rs, element)
           T == {k \in Nat : k <= n => Full(array[k])}
<1>1. n \in Nat
  OBVIOUS
<1>2. 0 \in T
  BY <1>1, ArrayRecursion
<1>3. ASSUME NEW k \in Nat, k \in T
      PROVE  k + 1 \in T
  <2>1. SUFFICES ASSUME k + 1 <= n PROVE Full(array[k + 1])
    OBVIOUS
  <2>2. k <= n /\ k < n /\ n - k \in 1 .. n
    BY <1>1, <2>1
  <2>3. Full(array[k])
    BY <1>3, <2>2
  <2>4. array[k + 1] = Array(rs[n - k], array[k])
    BY <1>1, <2>2, ArrayRecursion
  <2>5. array[k] \in LayoutType /\ rs[n - k] \in Ranges
    BY <2>2, ArrayedType
  <2> HIDE DEF array
  <2> QED
    BY <2>3, <2>4, <2>5, ArrayFull
<1> HIDE DEF T
<1>4. \A k \in Nat : k \in T
  BY <1>2, <1>3, Induct
<1> QED
  BY <1>4 DEF T

\* The members of a struct lie one after the other.
LEMMA SomeMember ==
    ASSUME NEW layout, NEW members, Len(members) \in Nat, Sized(layout, members)
    PROVE  \A k \in Nat : k <= Len(members) =>
              \A p \in 0 .. Sizes(layout, members)[k] - 1 :
                 \E j \in 0 .. k - 1 : Sizes(layout, members)[j] <= p /\ p < Sizes(layout, members)[j + 1]
PROOF
<1> DEFINE size == Sizes(layout, members)
           n == Len(members)
           Covered(k) == \A p \in 0 .. size[k] - 1 : \E j \in 0 .. k - 1 : size[j] <= p /\ p < size[j + 1]
           T == {k \in Nat : k <= n => Covered(k)}
<1>1. 0 \in T
  <2>1. size[0] = 0
    BY SizeRecursion
  <2> HIDE DEF size
  <2>2. 0 .. size[0] - 1 = {}
    BY <2>1
  <2> QED
    BY <2>2
<1>2. ASSUME NEW k \in Nat, k \in T
      PROVE  k + 1 \in T
  <2>1. SUFFICES ASSUME k + 1 <= n, NEW p \in 0 .. size[k + 1] - 1
                 PROVE  \E j \in 0 .. (k + 1) - 1 : size[j] <= p /\ p < size[j + 1]
    OBVIOUS
  <2>2. k <= n /\ Covered(k)
    BY <1>2, <2>1
  <2>3. size[k] \in Nat /\ size[k + 1] \in Nat
    BY <2>1, <2>2, SizesType
  <2> HIDE DEF size
  <2>4. CASE p < size[k]
    <3>1. p \in 0 .. size[k] - 1
      BY <2>1, <2>3, <2>4
    <3>2. PICK j \in 0 .. k - 1 : size[j] <= p /\ p < size[j + 1]
      BY <2>2, <3>1
    <3>3. j \in 0 .. (k + 1) - 1
      OBVIOUS
    <3> QED
      BY <3>2, <3>3
  <2>5. CASE ~(p < size[k])
    <3>1. k \in 0 .. (k + 1) - 1 /\ size[k] <= p /\ p < size[k + 1]
      BY <2>1, <2>3, <2>5
    <3> QED
      BY <3>1
  <2> QED
    BY <2>4, <2>5
<1> HIDE DEF T
<1>3. \A k \in Nat : k \in T
  BY <1>1, <1>2, Induct
<1> QED
  BY <1>3 DEF T

LEMMA ItemFull == Full(OneBit)
PROOF
<1> DEFINE name == <<0, <<>>>>
           empty == <<>>
<1>1. OneBit.size = 1 /\ OneBit.names = {name}
  BY DEF OneBit
<1>2. name[1] = 0 /\ name[2] = <<>>
  OBVIOUS
<1>3. Names(<<>>, <<>>)
  BY DEF Names
<1>4. 0 .. OneBit.size - 1 = {0}
  BY <1>1
<1> HIDE DEF name
<1>5. {bit[1] : bit \in {b \in {name} : Names(<<>>, b[2])}} = {0}
  <2>1. Names(<<>>, name[2])
    BY <1>2, <1>3
  <2> QED
    BY <1>2, <2>1, Zenon
<1>6. Selected(OneBit, <<>>) = {0}
  BY <1>1, <1>5 DEF Selected
<1> QED
  BY <1>4, <1>6 DEF Full

\* The members of a struct or union fill it, if unions are even.
LEMMA ElementFull ==
    ASSUME NEW d \in Nat, NEW t \in Declarations[d], Uniform[d][t],
           \A k \in 1 .. Len(t.members) : Full(Layout[d - 1][t.members[k]])
    PROVE  Full(ElementLayout(Layout[d - 1], t))
PROOF
<1> DEFINE layout == Layout[d - 1]
           n == Len(t.members)
           element == ElementLayout(layout, t)
           size(m) == layout[t.members[m]].size
           low(m) == Lowest(layout, t, m)
           sizes == Sizes(layout, t.members)
<1>1. CASE t.kind = "item"
  <2>1. element = OneBit
    BY <1>1 DEF ElementLayout
  <2> QED
    BY <2>1, ItemFull
<1>2. CASE t.kind # "item"
  <2>1. /\ t.kind \in Aggregates /\ n \in Nat \ {0} /\ DOMAIN t.members = 1 .. n
        /\ Sized(layout, t.members)
    BY <1>2, DeclarationFacts, MembersSized
  <2>2. Selected(element, <<>>) = UNION {Shift(low(m), 0 .. size(m) - 1) : m \in 1 .. n}
    <3> DEFINE part(m) == Shift(low(m), Selected(layout[t.members[m]], <<>>))
               run(m) == Shift(low(m), 0 .. size(m) - 1)
    <3>1. Selected(element, <<>>) = UNION {part(m) : m \in 1 .. n}
      BY <1>2, MembersAll
    <3>2. \A m \in 1 .. n : part(m) = run(m)
      BY DEF Full
    <3> HIDE DEF part, run
    <3>3. UNION {part(m) : m \in 1 .. n} = UNION {run(m) : m \in 1 .. n}
      BY <3>2
    <3> QED
      BY <3>1, <3>3 DEF run
  <2>3. \A m \in 1 .. n : size(m) \in Nat \ {0}
    BY <2>1 DEF Sized, LayoutType
  <2>4. CASE t.kind = "union"
    <3>1. \A m \in 1 .. n : low(m) = 0
      BY <2>4 DEF Lowest
    <3>2. n \in 1 .. n /\ \A m \in 1 .. n : size(m) = size(n)
      BY <2>1, <2>4, UniformIs
    <3>3. element.size = size(n)
      BY <2>4 DEF ElementLayout
    <3> HIDE DEF size, low, element
    <3>4. \A m \in 1 .. n : Shift(low(m), 0 .. size(m) - 1) = 0 .. size(n) - 1
      <4> TAKE m \in 1 .. n
      <4>1. Shift(0, 0 .. size(n) - 1) = 0 .. size(n) - 1
        BY <2>3, <3>2 DEF Shift
      <4>2. low(m) = 0 /\ size(m) = size(n)
        BY <3>1, <3>2
      <4> QED
        BY <4>1, <4>2
    <3>5. UNION {Shift(low(m), 0 .. size(m) - 1) : m \in 1 .. n} = 0 .. size(n) - 1
      <4> DEFINE run(m) == Shift(low(m), 0 .. size(m) - 1)
                 all == 0 .. size(n) - 1
      <4>1. \A m \in 1 .. n : run(m) = all
        BY <3>4
      <4> HIDE DEF run, all
      <4>2. UNION {run(m) : m \in 1 .. n} = all
        BY <3>2, <4>1
      <4> QED
        BY <4>2 DEF run, all
    <3> QED
      BY <2>2, <3>3, <3>5 DEF Full, element
  <2>5. CASE t.kind = "struct"
    <3>1. \A m \in 1 .. n : low(m) = sizes[n - m]
      BY <2>5 DEF Lowest
    <3>2. element.size = sizes[n]
      BY <2>5 DEF ElementLayout
    <3>3. ASSUME NEW m \in 1 .. n
          PROVE  /\ sizes[n - m] \in Nat /\ sizes[n - m + 1] = sizes[n - m] + size(m)
                 /\ sizes[n - m + 1] <= sizes[n] /\ sizes[n] \in Nat
      <4> DEFINE j == n - m
      <4>1. j \in Nat /\ j < n /\ j <= n /\ j + 1 \in Nat /\ j + 1 <= n /\ n <= n /\ n \in Nat /\ n - j = m
        BY <2>1
      <4> HIDE DEF j
      <4>2. sizes[j + 1] = sizes[j] + layout[t.members[n - j]].size
        BY <4>1, SizeRecursion
      <4>3. sizes[j] \in Nat /\ sizes[n] \in Nat
        BY <2>1, <4>1, SizesType
      <4>4. sizes[j + 1] <= sizes[n]
        BY <2>1, <4>1, SizesGrow
      <4> QED
        BY <4>1, <4>2, <4>3, <4>4 DEF j
    <3>4. ASSUME NEW m \in 1 .. n, NEW p \in Shift(low(m), 0 .. size(m) - 1)
          PROVE  p \in 0 .. sizes[n] - 1
      <4>1. PICK y \in 0 .. size(m) - 1 : p = low(m) + y
        BY Zenon DEF Shift
      <4> DEFINE a == sizes[n - m]
                 b == sizes[n]
                 e == size(m)
      <4>2. low(m) = a /\ a \in Nat /\ a + e <= b /\ b \in Nat /\ e \in Nat
        BY <2>3, <3>1, <3>3
      <4> HIDE DEF a, b, e, low
      <4>3. p = a + y /\ y \in 0 .. e - 1
        BY <4>1, <4>2 DEF e
      <4>4. p \in 0 .. b - 1
        BY <4>2, <4>3
      <4> QED
        BY <4>4 DEF b
    <3>5. ASSUME NEW p \in 0 .. sizes[n] - 1
          PROVE  \E m \in 1 .. n : p \in Shift(low(m), 0 .. size(m) - 1)
      <4>1. PICK j \in 0 .. n - 1 : sizes[j] <= p /\ p < sizes[j + 1]
        BY <2>1, SomeMember
      <4> DEFINE m == n - j
      <4>2. m \in 1 .. n /\ n - m = j
        BY <2>1
      <4>3. sizes[j] \in Nat /\ sizes[j + 1] = sizes[j] + size(m) /\ low(m) = sizes[j]
        <5> HIDE DEF m, sizes, size, low
        <5> QED
          BY <3>1, <3>3, <4>2
      <4>4. p - sizes[j] \in 0 .. size(m) - 1 /\ p = sizes[j] + (p - sizes[j])
        <5>1. size(m) \in Nat /\ p \in Int
          <6> HIDE DEF m, size
          <6>1. sizes[n] \in Nat
            BY <3>3, <4>2
          <6> QED
            BY <2>3, <4>2, <6>1
        <5> HIDE DEF size, sizes
        <5> QED
          BY <4>1, <4>3, <5>1
      <4> HIDE DEF m, sizes, size, low
      <4>5. p \in Shift(low(m), 0 .. size(m) - 1)
        BY <4>3, <4>4, Zenon DEF Shift
      <4> QED
        BY <4>2, <4>5
    <3> HIDE DEF low, size, sizes, element
    <3>6. UNION {Shift(low(m), 0 .. size(m) - 1) : m \in 1 .. n} = 0 .. sizes[n] - 1
      BY <3>4, <3>5
    <3> QED
      BY <2>2, <3>2, <3>6 DEF Full, element
  <2> QED
    BY <2>1, <2>4, <2>5 DEF Aggregates
<1> QED
  BY <1>1, <1>2

\* The layout of a type leaves no gap: this is where uneven unions would.
LEMMA FullTyped == \A d \in Nat : \A t \in Declarations[d] : Uniform[d][t] => Full(Layout[d][t])
PROOF
<1> DEFINE T == {d \in Nat : \A t \in Declarations[d] : Uniform[d][t] => Full(Layout[d][t])}
<1>1. ASSUME NEW d \in Nat, d # 0 => d - 1 \in T, NEW t \in Declarations[d], Uniform[d][t]
      PROVE  Full(Layout[d][t])
  <2>1. \A k \in 1 .. Len(t.members) : Full(Layout[d - 1][t.members[k]])
    <3>1. CASE t.kind = "item"
      BY <3>1, DeclarationFacts
    <3>2. CASE t.kind # "item"
      <4>1. /\ d - 1 \in Nat /\ d # 0 /\ DOMAIN t.members = 1 .. Len(t.members)
            /\ \A k \in 1 .. Len(t.members) : t.members[k] \in Declarations[d - 1]
        BY <3>2, DeclarationFacts
      <4>2. \A k \in 1 .. Len(t.members) : Uniform[d - 1][t.members[k]]
        BY <1>1, <4>1, UniformIs
      <4> QED
        BY <1>1, <4>1, <4>2
    <3> QED
      BY <3>1, <3>2
  <2> HIDE DEF T
  <2>2. Full(ElementLayout(Layout[d - 1], t))
    BY <1>1, <2>1, ElementFull
  <2>3. t.ranges \in Seq(Ranges) /\ ElementLayout(Layout[d - 1], t) \in LayoutType
    BY DeclarationFacts, Element
  <2>4. Full(Arrayed(t.ranges, ElementLayout(Layout[d - 1], t))[Len(t.ranges)])
    BY <2>2, <2>3, ArrayedFull
  <2> QED
    BY <2>4, LayoutIs DEF ArrayLayout
<1>2. 0 \in T
  BY <1>1
<1>3. ASSUME NEW d \in Nat, d \in T
      PROVE  d + 1 \in T
  <2>1. d + 1 \in Nat /\ (d + 1) - 1 = d
    OBVIOUS
  <2>2. \A t \in Declarations[d + 1] : Uniform[d + 1][t] => Full(Layout[d + 1][t])
    <3> HIDE DEF T
    <3> QED
      BY <1>1, <1>3, <2>1
  <2> QED
    BY <2>1, <2>2
<1> HIDE DEF T
<1>4. \A d \in Nat : d \in T
  BY <1>2, <1>3, Induct
<1> QED
  BY <1>4 DEF T

------------------------------------------------------------------------------
(***************************************************************************)
(* An access selects what it names                                         *)
(***************************************************************************)
LEMMA Positions ==
    ASSUME NEW layout \in LayoutType, NEW q
    PROVE  Selected(layout, q) \subseteq Nat
PROOF
<1>1. \A b \in layout.names : b[1] \in Nat
  BY DEF LayoutType
<1> QED
  BY <1>1 DEF Selected

\* Two offsets add up.
LEMMA ShiftTwice ==
    ASSUME NEW a \in Nat, NEW b \in Nat, NEW S \in SUBSET Nat
    PROVE  Shift(a, Shift(b, S)) = Shift(a + b, S) /\ Shift(a, S) \in SUBSET Nat /\ Shift(0, S) = S
PROOF
<1>1. \A p \in S : p \in Nat /\ a + (b + p) = (a + b) + p /\ 0 + p = p /\ a + p \in Nat
  OBVIOUS
<1>2. Shift(a, Shift(b, S)) = {a + (b + p) : p \in S}
  BY DEF Shift
<1>3. Shift(a + b, S) = {(a + b) + p : p \in S}
  BY DEF Shift
<1>4. {a + (b + p) : p \in S} = {(a + b) + p : p \in S}
  BY <1>1
<1>5. Shift(a, S) \in SUBSET Nat /\ Shift(0, S) = S
  BY <1>1 DEF Shift
<1> QED
  BY <1>2, <1>3, <1>4, <1>5

\* The dimension of a range, as stored.
Stored(r) == [low |-> Low(r), width |-> High(r) - Low(r) + 1, swapped |-> Upwards(r)]

\* traverse_dimensions counts an index from the right as the language does.
LEMMA SameIndex ==
    ASSUME NEW r \in Ranges, NEW i \in Span(Stored(r))
    PROVE  FromRight(Stored(r), i) = ToTheRight(r, i) /\ i \in Low(r) .. High(r)
PROOF
<1>1. Stored(r).low = Low(r) /\ Stored(r).width = High(r) - Low(r) + 1 /\ Stored(r).swapped = Upwards(r)
  BY DEF Stored
<1>2. i \in Low(r) .. High(r)
  BY <1>1, RangeBounds DEF Span
<1>3. CASE Upwards(r)
  BY <1>1, <1>2, <1>3, RangeBounds DEF FromRight, ToTheRight
<1>4. CASE ~Upwards(r)
  BY <1>1, <1>2, <1>4, RangeBounds DEF FromRight, ToTheRight
<1> QED
  BY <1>2, <1>3, <1>4

\* The beginnings of a sequence.
LEMMA Beginnings ==
    ASSUME NEW S, NEW s \in Seq(S)
    PROVE  /\ SubSeq(s, 1, 0) = <<>> /\ SubSeq(s, 1, Len(s)) = s
           /\ s \o <<>> = s /\ <<>> \o s = s
           /\ \A j \in Nat : j < Len(s) =>
                 /\ SubSeq(s, 1, j + 1) = SubSeq(s, 1, j) \o <<s[j + 1]>>
                 /\ SubSeq(s, 1, j) \in Seq(S) /\ s[j + 1] \in S /\ <<s[j + 1]>> \in Seq(S)
  OBVIOUS

\* One more index before the rest of a select.
LEMMA OneMore ==
    ASSUME NEW S, NEW s \in Seq(S), NEW j \in Nat, j < Len(s), NEW q \in Seq(S)
    PROVE  /\ SubSeq(s, 1, j + 1) \o q = SubSeq(s, 1, j) \o (<<s[j + 1]>> \o q)
           /\ <<s[j + 1]>> \o q \in Seq(S)
PROOF
<1> DEFINE a == SubSeq(s, 1, j)
           b == <<s[j + 1]>>
<1>1. SubSeq(s, 1, j + 1) = a \o b /\ a \in Seq(S) /\ b \in Seq(S)
  BY Beginnings
<1> HIDE DEF a, b
<1>2. (a \o b) \o q = a \o (b \o q) /\ b \o q \in Seq(S)
  <2>1. a \in Seq(S) /\ b \in Seq(S)
    BY <1>1
  <2>2. b \o q \in Seq(S)
    BY <2>1
  <2> QED
    BY <2>1, <2>2
<1> QED
  BY <1>1, <1>2 DEF a, b

\* The first j indices of an access select what they say, if they are indices.
PrefixSelects(rs, element, dims, ranges, last, j) ==
    /\ j <= Len(dims)
    /\ \A k \in 1 .. j : /\ ranges[k].left = ranges[k].right
                         /\ k = Len(dims) => last = FromRight(dims[k], ranges[k].left)
    => \A q \in Seq(Ranges) :
          Selected(Arrayed(rs, element)[Len(rs)], SubSeq(ranges, 1, j) \o q)
          = Shift(Indexed(dims, ranges, last)[j] * Arrayed(rs, element)[Len(rs) - j].size,
                  Selected(Arrayed(rs, element)[Len(rs) - j], q))

\* The first j indices of an access name the element at the offset of Indexed.
LEMMA PrefixSelect ==
    ASSUME NEW rs \in Seq(Ranges), NEW element \in LayoutType,
           NEW dims \in Seq(Dimension), NEW ranges, InSpans(dims, ranges), Len(dims) <= Len(rs),
           \A k \in 1 .. Len(dims) : dims[k] = Stored(rs[k]),
           NEW last \in Nat, \A k \in 1 .. Len(dims) : k = Len(dims) => last < dims[k].width
    PROVE  \A j \in Nat : PrefixSelects(rs, element, dims, ranges, last, j)
PROOF
<1> DEFINE n == Len(dims)
           N == Len(rs)
           array == Arrayed(rs, element)
           offset == Indexed(dims, ranges, last)
           Indices(j) == j <= n /\ \A k \in 1 .. j : /\ ranges[k].left = ranges[k].right
                                                     /\ k = n => last = FromRight(dims[k], ranges[k].left)
           Selects(j) == \A q \in Seq(Ranges) :
                            Selected(array[N], SubSeq(ranges, 1, j) \o q)
                            = Shift(offset[j] * array[N - j].size, Selected(array[N - j], q))
           T == {j \in Nat : Indices(j) => Selects(j)}
<1>1. n \in Nat /\ N \in Nat /\ n <= N /\ ranges \in Seq(Ranges) /\ Len(ranges) = n
  BY DEF InSpans
<1>2. \A k \in Nat : k <= N => array[k] \in LayoutType
  BY ArrayedType
<1>3. \A k \in Nat : k <= n => offset[k] \in Nat
  BY IndexBounds
<1>4. Selects(0)
  <2> SUFFICES ASSUME NEW q \in Seq(Ranges)
               PROVE  Selected(array[N], SubSeq(ranges, 1, 0) \o q)
                      = Shift(offset[0] * array[N - 0].size, Selected(array[N - 0], q))
    OBVIOUS
  <2>1. SubSeq(ranges, 1, 0) = <<>> /\ <<>> \o q = q
    BY <1>1, Beginnings
  <2>2. offset[0] = 0
    BY <1>1, IndexRecursion
  <2>3. N - 0 = N /\ array[N] \in LayoutType
    BY <1>1, <1>2
  <2> HIDE DEF array, offset, N
  <2>4. 0 * array[N].size = 0
    BY <2>3 DEF LayoutType
  <2>5. Shift(0, Selected(array[N], q)) = Selected(array[N], q)
    BY <2>3, Positions, ShiftTwice
  <2> QED
    BY <2>1, <2>2, <2>3, <2>4, <2>5
<1>5. 0 \in T
  BY <1>4
<1>6. ASSUME NEW j \in Nat, j \in T
      PROVE  j + 1 \in T
  <2>1. SUFFICES ASSUME Indices(j + 1), NEW q \in Seq(Ranges)
                 PROVE  Selected(array[N], SubSeq(ranges, 1, j + 1) \o q)
                        = Shift(offset[j + 1] * array[N - (j + 1)].size, Selected(array[N - (j + 1)], q))
    OBVIOUS
  <2>2. j < n /\ j <= n /\ j + 1 \in 1 .. n /\ Indices(j)
    BY <1>1, <2>1
  <2>3. Selects(j)
    BY <1>6, <2>2
  <2> HIDE DEF T
  <2> DEFINE i == N - (j + 1)
             r == rs[j + 1]
             range == ranges[j + 1]
             w == High(r) - Low(r) + 1
             e == array[i].size
             index == FromRight(dims[j + 1], range.left)
             rest == <<range>> \o q
  <2>4. i \in Nat /\ i < N /\ i <= N /\ i + 1 = N - j /\ N - i = j + 1 /\ j + 1 \in 1 .. N
    BY <1>1, <2>2
  <2>5. r \in Ranges /\ range \in Ranges /\ w \in Nat
    <3>1. r \in Ranges /\ range \in Ranges
      BY <1>1, <2>2, <2>4
    <3> HIDE DEF r
    <3> QED
      BY <3>1, RangeBounds
  <2>6. array[N - j] = Array(r, array[i])
    <3>1. array[i + 1] = Array(rs[N - i], array[i])
      BY <1>1, <2>4, ArrayRecursion
    <3> QED
      BY <2>4, <3>1
  <2>7. array[i] \in LayoutType /\ e \in Nat
    <3>1. array[i] \in LayoutType
      BY <1>2, <2>4
    <3> HIDE DEF i, array
    <3> QED
      BY <3>1 DEF LayoutType
  <2>8. array[N - j].size = w * e
    <3> HIDE DEF array, i, r
    <3> QED
      BY <2>5, <2>6, <2>7, ArrayType
  <2>9. range.left = range.right /\ range.left \in Span(Stored(r)) /\ dims[j + 1] = Stored(r)
    <3>1. dims[j + 1] = Stored(r) /\ range.left \in Span(dims[j + 1])
      BY <2>2 DEF InSpans
    <3>2. range.left = range.right
      BY <2>1, <2>2
    <3> QED
      BY <3>1, <3>2
  <2>10. index = ToTheRight(r, range.left) /\ range.left \in Low(r) .. High(r)
    <3> HIDE DEF r, range
    <3> QED
      BY <2>5, <2>9, SameIndex
  <2>11. index \in Nat
    <3> HIDE DEF r, range
    <3>1. ToTheRight(r, range.left) \in Nat
      BY <2>5, <2>10, ToTheRightType
    <3> QED
      BY <2>10, <3>1
  <2>12. offset[j + 1] = offset[j] * w + index
    <3>1. offset[j + 1] = offset[j] * dims[j + 1].width
                          + IF j + 1 = Len(ranges) THEN last ELSE FromRight(dims[j + 1], ranges[j + 1].left)
      BY <1>1, <2>2, IndexRecursion
    <3>2. dims[j + 1].width = w
      BY <2>9 DEF Stored
    <3>3. j + 1 = Len(ranges) => last = index
      BY <1>1, <2>1, <2>2
    <3> HIDE DEF index, offset, w
    <3> QED
      BY <3>1, <3>2, <3>3 DEF index
  <2>13. SubSeq(ranges, 1, j + 1) \o q = SubSeq(ranges, 1, j) \o rest /\ rest \in Seq(Ranges)
    BY <1>1, <2>2, OneMore
  <2>14. Selected(array[N - j], rest) = Shift(index * e, Selected(array[i], q))
    <3> HIDE DEF array, i, r, range, index
    <3>1. Selected(Array(r, array[i]), <<range>> \o q)
          = Shift(ToTheRight(r, range.left) * array[i].size, Selected(array[i], q))
      BY <2>5, <2>7, <2>9, <2>10, ArrayIndex
    <3> QED
      BY <2>6, <2>10, <3>1
  <2>15. Selected(array[N], SubSeq(ranges, 1, j) \o rest) = Shift(offset[j] * array[N - j].size, Selected(array[N - j], rest))
    BY <2>3, <2>13
  <2>16. offset[j] \in Nat
    BY <1>3, <2>2
  <2> DEFINE S == Selected(array[i], q)
             a == offset[j] * (w * e)
             b == index * e
  <2>17. S \in SUBSET Nat
    <3> HIDE DEF array, i
    <3> QED
      BY <2>7, Positions
  <2> HIDE DEF array, offset, index, w, e, i, rest, S
  <2>18. a \in Nat /\ b \in Nat /\ a + b = (offset[j] * w + index) * e
    <3>1. w \in Nat
      BY <2>5
    <3>2. e \in Nat /\ offset[j] \in Nat
      BY <2>7, <2>16
    <3> DEFINE o == offset[j]
    <3>3. o \in Nat
      BY <3>2
    <3> HIDE DEF o
    <3>4. /\ o * (w * e) \in Nat /\ index * e \in Nat
          /\ o * (w * e) + index * e = (o * w + index) * e
      BY <2>11, <3>1, <3>2, <3>3
    <3> QED
      BY <3>4 DEF o
  <2> HIDE DEF a, b
  <2>19. Shift(a, Shift(b, S)) = Shift(a + b, S)
    BY <2>17, <2>18, ShiftTwice
  <2> QED
    BY <2>8, <2>12, <2>13, <2>14, <2>15, <2>18, <2>19 DEF S, a, b, i, e
<1> HIDE DEF T
<1>7. \A j \in Nat : j \in T
  BY <1>5, <1>6, Induct
<1> QED
  BY <1>7 DEF T, PrefixSelects

\* The size of what an access selects, as convert_dot computes it.
UnitOf(rs, element, dims) == ArrayLayout(rs, element).size \div Elements(dims)

\* The unit of an access is the size of what its indices name.
LEMMA UnitIs ==
    ASSUME NEW rs \in Seq(Ranges), NEW element \in LayoutType,
           NEW dims \in Seq(Dimension), Len(dims) <= Len(rs),
           \A k \in 1 .. Len(dims) : dims[k].width = High(rs[k]) - Low(rs[k]) + 1
    PROVE  /\ UnitOf(rs, element, dims) = Arrayed(rs, element)[Len(rs) - Len(dims)].size
           /\ UnitOf(rs, element, dims) \in Nat \ {0}
           /\ Elements(dims) * UnitOf(rs, element, dims) = ArrayLayout(rs, element).size
PROOF
<1> DEFINE n == Len(dims)
           N == Len(rs)
           D == Dimensions(rs)
           unit == Arrayed(rs, element)[N - n].size
           size == ArrayLayout(rs, element).size
<1>1. n \in Nat /\ N \in Nat /\ n <= N /\ N - n \in Nat /\ N - n <= N /\ N - (N - n) = n
  OBVIOUS
<1>2. D \in Seq(Dimension) /\ Len(D) = N /\ \A k \in 1 .. N : D[k].width = High(rs[k]) - Low(rs[k]) + 1
  <2>1. D \in Seq(Dimension) /\ Len(D) = N
    BY DimensionsType
  <2>2. ASSUME NEW k \in 1 .. N
        PROVE  D[k].width = High(rs[k]) - Low(rs[k]) + 1
    <3>1. D[k] = [low |-> Low(rs[k]), width |-> High(rs[k]) - Low(rs[k]) + 1, swapped |-> Upwards(rs[k])]
      BY DimensionsType
    <3> HIDE DEF D
    <3> QED
      BY <3>1
  <2> QED
    BY <2>1, <2>2
<1>3. Products(dims)[n] = Products(D)[n]
  <2>1. \A k \in 1 .. n : dims[k].width = D[k].width
    BY <1>1, <1>2
  <2> HIDE DEF D
  <2>2. \A k \in Nat : k <= n => Products(dims)[k] = Products(D)[k]
    <3>1. n \in Nat /\ Len(dims) \in Nat /\ Len(D) \in Nat /\ n <= Len(dims) /\ n <= Len(D)
      BY <1>1, <1>2
    <3> HIDE DEF n
    <3> QED
      BY <2>1, <3>1, ProductsAlike
  <2> QED
    BY <1>1, <2>2
<1>4. Arrayed(rs, element)[N - n] \in LayoutType
      /\ Products(D)[N - (N - n)] * unit = Elements(D) * element.size
  BY <1>1, ArrayedType
<1>5. size = Elements(D) * element.size
  BY ArrayLayoutType
<1>6. Elements(dims) = Products(D)[n] /\ Elements(dims) \in Nat \ {0}
  BY <1>3, ElementsType DEF Elements
<1>7. unit \in Nat \ {0}
  BY <1>4 DEF LayoutType
<1> HIDE DEF unit, size, D
<1>8. Elements(dims) * unit = size
  BY <1>1, <1>4, <1>5, <1>6
<1>9. size \div Elements(dims) = unit
  <2>1. (Elements(dims) * unit) \div Elements(dims) = unit
    BY <1>6, <1>7, DivExact
  <2> QED
    BY <1>8, <2>1
<1> QED
  BY <1>7, <1>8, <1>9 DEF UnitOf, unit, size

\* An access whose dimensions are the first of rs, all but its last range an index.
Accesses(rs, dims, ranges) ==
    /\ dims \in Seq(Dimension) /\ Len(dims) <= Len(rs)
    /\ \A k \in 1 .. Len(dims) : dims[k] = Stored(rs[k])
    /\ InSpans(dims, ranges)
    /\ \A k \in 1 .. Len(dims) : k # Len(dims) => ranges[k].left = ranges[k].right

\* The same, of an access in bounds.
LEMMA AccessUnit ==
    ASSUME NEW rs \in Seq(Ranges), NEW element \in LayoutType, NEW dims, NEW ranges,
           Accesses(rs, dims, ranges)
    PROVE  /\ UnitOf(rs, element, dims) = Arrayed(rs, element)[Len(rs) - Len(dims)].size
           /\ UnitOf(rs, element, dims) \in Nat \ {0}
           /\ Elements(dims) * UnitOf(rs, element, dims) = ArrayLayout(rs, element).size
PROOF
<1>1. dims \in Seq(Dimension) /\ Len(dims) <= Len(rs)
  BY DEF Accesses
<1>2. \A k \in 1 .. Len(dims) : dims[k].width = High(rs[k]) - Low(rs[k]) + 1
  <2> TAKE k \in 1 .. Len(dims)
  <2>1. dims[k] = Stored(rs[k])
    BY DEF Accesses
  <2>2. Stored(rs[k]).width = High(rs[k]) - Low(rs[k]) + 1
    BY DEF Stored
  <2> QED
    BY <2>1, <2>2
<1> QED
  BY <1>1, <1>2, UnitIs

\* Path p of the layout whole leads to the bits of part, from bit start on.
Reaches(whole, p, start, part) ==
    \A q \in Seq(Ranges) : Selected(whole, p \o q) = Shift(start, Selected(part, q))

\* Indices only, no slice.
Indices(ranges) == \A k \in 1 .. Len(ranges) : ranges[k].left = ranges[k].right

\* Indices name one element of an array.
LEMMA EnterReaches ==
    ASSUME NEW rs \in Seq(Ranges), NEW element \in LayoutType, NEW dims, NEW ranges,
           Accesses(rs, dims, ranges), Len(dims) = Len(rs), Indices(ranges)
    PROVE  Reaches(ArrayLayout(rs, element), ranges,
                   TraverseDimensions(dims, ranges, element.size, FALSE).offset, element)
PROOF
<1> SUFFICES ASSUME NEW q \in Seq(Ranges)
             PROVE  Selected(ArrayLayout(rs, element), ranges \o q)
                    = Shift(TraverseDimensions(dims, ranges, element.size, FALSE).offset, Selected(element, q))
  BY DEF Reaches
<1> DEFINE n == Len(dims)
           array == Arrayed(rs, element)
           t == TraverseDimensions(dims, ranges, element.size, FALSE)
<1>1. /\ dims \in Seq(Dimension) /\ n \in Nat /\ InSpans(dims, ranges)
      /\ ranges \in Seq(Ranges) /\ Len(ranges) = n
      /\ \A k \in 1 .. n : dims[k] = Stored(rs[k])
  BY DEF Accesses, InSpans
<1>0. \A k \in 1 .. n : ranges[k].left = ranges[k].right
  BY <1>1 DEF Indices
<1>2. Len(rs) = n /\ n - n = 0 /\ array[0] = element
  BY <1>1, ArrayRecursion
<1>3. SubSeq(ranges, 1, n) = ranges
  BY <1>1
<1>4. Selected(element, q) \in SUBSET Nat
  BY Positions
<1>5. CASE n = 0
  <2>1. ranges = <<>> /\ ranges \o q = q
    BY <1>1, <1>5
  <2>2. t.offset = 0
    BY <2>1 DEF TraverseDimensions
  <2>3. ArrayLayout(rs, element) = element
    BY <1>2, <1>5 DEF ArrayLayout
  <2>4. Shift(0, Selected(element, q)) = Selected(element, q)
    BY <1>4, ShiftTwice
  <2> QED
    BY <2>1, <2>2, <2>3, <2>4
<1>6. CASE n # 0
  <2>1. n \in 1 .. n
    BY <1>1, <1>6
  <2> DEFINE i == FromRight(dims[n], ranges[n].left)
             last == LastRange(dims[n], ranges[n], FALSE)
  <2>2. dims[n] \in Dimension /\ ranges[n].left \in Span(dims[n]) /\ ranges[n].right \in Span(dims[n])
        /\ ranges[n].left = ranges[n].right
    BY <1>0, <1>1, <2>1 DEF InSpans
  <2>3. i \in Nat /\ i < dims[n].width
    BY <2>2, FromRightType
  <2>4. last.right = i
    BY <2>2, LastRangeType
  <2>5. t.offset = Indexed(dims, ranges, i)[n] * element.size
    <3>1. ranges # <<>>
      BY <1>1, <1>6
    <3>2. t = [offset |-> Indexed(dims, ranges, last.right)[n] * element.size,
               width |-> (last.left - last.right + 1) * element.size]
      BY <1>1, <3>1 DEF TraverseDimensions
    <3> HIDE DEF last, i, t
    <3> QED
      BY <2>4, <3>2
  <2> HIDE DEF i, last, t
  <2>6. \A k \in 1 .. n : /\ ranges[k].left = ranges[k].right
                          /\ k = n => i = FromRight(dims[k], ranges[k].left)
    BY <1>0 DEF i
  <2>7. \A k \in 1 .. n : k = n => i < dims[k].width
    BY <2>3
  <2>8. PrefixSelects(rs, element, dims, ranges, i, n)
    <3>1. /\ dims \in Seq(Dimension) /\ InSpans(dims, ranges) /\ Len(dims) <= Len(rs)
          /\ \A k \in 1 .. Len(dims) : dims[k] = Stored(rs[k])
      BY <1>1, <1>2
    <3>2. i \in Nat /\ \A k \in 1 .. Len(dims) : k = Len(dims) => i < dims[k].width
      BY <2>3, <2>7
    <3>3. \A j \in Nat : PrefixSelects(rs, element, dims, ranges, i, j)
      BY <3>1, <3>2, PrefixSelect, Zenon
    <3> QED
      BY <1>1, <3>3
  <2>9. Selected(array[Len(rs)], SubSeq(ranges, 1, n) \o q)
        = Shift(Indexed(dims, ranges, i)[n] * array[Len(rs) - n].size, Selected(array[Len(rs) - n], q))
    BY <1>1, <2>6, <2>8 DEF PrefixSelects
  <2>10. Selected(array[Len(rs)], ranges \o q) = Shift(t.offset, Selected(element, q))
    <3> HIDE DEF array, n
    <3> QED
      BY <1>2, <1>3, <2>5, <2>9
  <2> QED
    BY <2>10 DEF ArrayLayout, t
<1> QED
  BY <1>5, <1>6

\* A run of bits at an offset is a run of bits.
LEMMA ShiftRun ==
    ASSUME NEW a \in Nat, NEW lo \in Nat, NEW hi \in Int
    PROVE  Shift(a, lo .. hi) = a + lo .. a + hi
PROOF
<1>1. \A p \in a + lo .. a + hi : p - a \in lo .. hi /\ p = a + (p - a)
  OBVIOUS
<1>2. \A p \in lo .. hi : a + p \in a + lo .. a + hi
  OBVIOUS
<1> QED
  BY <1>1, <1>2 DEF Shift

\* The last access selects all bits of what it names, unless it is a slice after
\* a variable index.
LEMMA FinishSelects ==
    ASSUME NEW rs \in Seq(Ranges), NEW element \in LayoutType, Full(element), NEW dims, NEW ranges,
           Accesses(rs, dims, ranges), NEW variable \in BOOLEAN,
           \A k \in 1 .. Len(dims) : variable => ranges[k].left = ranges[k].right
    PROVE  LET t == TraverseDimensions(dims, ranges, UnitOf(rs, element, dims), variable)
           IN  Selected(ArrayLayout(rs, element), ranges) = t.offset .. t.offset + t.width - 1
PROOF
<1> DEFINE n == Len(dims)
           N == Len(rs)
           array == Arrayed(rs, element)
           unit == UnitOf(rs, element, dims)
           t == TraverseDimensions(dims, ranges, unit, variable)
<1>1. /\ dims \in Seq(Dimension) /\ n \in Nat /\ N \in Nat /\ n <= N /\ InSpans(dims, ranges)
      /\ ranges \in Seq(Ranges) /\ Len(ranges) = n
      /\ \A k \in 1 .. n : dims[k] = Stored(rs[k])
      /\ \A k \in 1 .. n : k # n => ranges[k].left = ranges[k].right
  BY DEF Accesses, InSpans
<1>2. unit = array[N - n].size /\ unit \in Nat \ {0}
  BY AccessUnit
<1>3. \A k \in Nat : k <= N => array[k] \in LayoutType /\ Full(array[k])
  BY ArrayedType, ArrayedFull
<1>4. CASE n = 0
  <2>1. ranges = <<>> /\ N - n = N
    BY <1>1, <1>4
  <2>2. t = [offset |-> 0, width |-> unit]
    BY <2>1 DEF TraverseDimensions
  <2>3. t.offset = 0 /\ t.width = unit
    BY <2>2
  <2>4. Selected(array[N], <<>>) = 0 .. unit - 1
    <3>1. Full(array[N])
      BY <1>1, <1>3
    <3> HIDE DEF array, unit, N, n
    <3> QED
      BY <1>2, <2>1, <3>1 DEF Full
  <2> HIDE DEF t, unit
  <2>5. t.offset .. t.offset + t.width - 1 = 0 .. unit - 1
    BY <1>2, <2>3
  <2> QED
    BY <2>1, <2>4, <2>5 DEF ArrayLayout, t, unit
<1>5. CASE n # 0
  <2> DEFINE j == n - 1
             i == N - n
             range == ranges[n]
             last == LastRange(dims[n], range, variable)
             lo == last.right
             hi == last.left
             r == rs[n]
             w == dims[n].width
             b == Indexed(dims, ranges, lo)[j]
  <2>1. /\ n \in 1 .. n /\ n \in 1 .. N /\ j \in Nat /\ j < n /\ j <= n /\ j + 1 = n
        /\ i \in Nat /\ i < N /\ i <= N /\ i + 1 = N - j /\ N - i = n
    BY <1>1, <1>5
  <2>2. /\ dims[n] \in Dimension /\ range.left \in Span(dims[n]) /\ range.right \in Span(dims[n])
        /\ dims[n] = Stored(r) /\ r \in Ranges /\ range \in Ranges
    BY <1>1, <2>1 DEF InSpans
  <2>3. /\ lo \in Nat /\ lo < w /\ hi \in Nat /\ hi < w /\ lo <= hi
        /\ {lo, hi} = {FromRight(dims[n], range.left), FromRight(dims[n], range.right)}
    <3>1. /\ last.left \in Nat /\ last.left < w /\ last.right \in Nat /\ last.right < w
          /\ ~variable => /\ last.right <= last.left
                          /\ {last.left, last.right} = {FromRight(dims[n], range.left), FromRight(dims[n], range.right)}
          /\ range.left = range.right => last.left = FromRight(dims[n], range.left)
                                         /\ last.right = FromRight(dims[n], range.left)
      <4>1. dims[n] \in Dimension /\ range.left \in Span(dims[n]) /\ range.right \in Span(dims[n])
        BY <2>2
      <4> HIDE DEF range
      <4> QED
        BY <4>1, LastRangeType, ZenonT(60)
    <3>2. variable => range.left = range.right
      BY <2>1
    <3> HIDE DEF last, range, w
    <3>3. CASE variable
      <4>1. last.left = last.right /\ range.left = range.right /\ last.left = FromRight(dims[n], range.left)
        BY <3>1, <3>2, <3>3
      <4> QED
        BY <3>1, <4>1
    <3>4. CASE ~variable
      BY <3>1, <3>4
    <3> QED
      BY <3>3, <3>4
  <2>4. range.left \in Low(r) .. High(r) /\ range.right \in Low(r) .. High(r)
        /\ {lo, hi} = {ToTheRight(r, range.left), ToTheRight(r, range.right)}
    <3>1. range.left \in Span(Stored(r)) /\ range.right \in Span(Stored(r))
      BY <2>2
    <3> HIDE DEF r, range, lo, hi
    <3>2. FromRight(Stored(r), range.left) = ToTheRight(r, range.left) /\ range.left \in Low(r) .. High(r)
      BY <2>2, <3>1, SameIndex
    <3>3. FromRight(Stored(r), range.right) = ToTheRight(r, range.right) /\ range.right \in Low(r) .. High(r)
      BY <2>2, <3>1, SameIndex
    <3> QED
      BY <2>2, <2>3, <3>2, <3>3
  <2>5. array[N - j] = Array(r, array[i]) /\ array[i] \in LayoutType /\ Full(array[i])
    <3>1. array[i + 1] = Array(rs[N - i], array[i])
      BY <1>1, <2>1, ArrayRecursion
    <3>2. array[i] \in LayoutType /\ Full(array[i])
      BY <1>3, <2>1
    <3> QED
      BY <2>1, <3>1, <3>2
  <2>6. array[N - j].size = w * unit
    <3>1. Array(r, array[i]).size = (High(r) - Low(r) + 1) * array[i].size
      BY <2>2, <2>5, ArrayType
    <3>2. w = High(r) - Low(r) + 1
      BY <2>2 DEF Stored
    <3> HIDE DEF array, r, unit, w
    <3> QED
      BY <1>2, <2>5, <3>1, <3>2
  <2>7. Selected(array[N - j], <<range>>) = lo * unit .. (hi + 1) * unit - 1
    <3> DEFINE part == array[i]
    <3>1. part \in LayoutType /\ Full(part) /\ array[N - j] = Array(r, part) /\ unit = part.size
      BY <1>2, <2>5
    <3> HIDE DEF part, array, r, unit, w, lo, hi, range
    <3>2. lo \in Nat /\ hi \in Nat /\ lo <= hi
      BY <2>3
    <3>3. Ends(r, range, lo, hi)
      BY <2>2, <2>4, <3>2 DEF Ends
    <3>4. SliceIs(r, part, range, lo, hi)
      BY <3>1, <3>3, SliceSelect
    <3>5. Selected(Array(r, part), <<range>>) = lo * part.size .. (hi + 1) * part.size - 1
      BY <3>4 DEF SliceIs
    <3> QED
      BY <3>1, <3>5
  <2>8. PrefixSelects(rs, element, dims, ranges, lo, j)
    <3>1. lo \in Nat /\ \A k \in 1 .. Len(dims) : k = Len(dims) => lo < dims[k].width
      BY <2>3
    <3> HIDE DEF lo, j
    <3>2. /\ dims \in Seq(Dimension) /\ InSpans(dims, ranges) /\ Len(dims) <= Len(rs)
          /\ \A k \in 1 .. Len(dims) : dims[k] = Stored(rs[k])
      BY <1>1
    <3>3. \A k \in Nat : PrefixSelects(rs, element, dims, ranges, lo, k)
      BY <3>1, <3>2, PrefixSelect, Zenon
    <3> QED
      BY <2>1, <3>3
  <2>9. Selected(array[N], SubSeq(ranges, 1, j) \o <<range>>)
        = Shift(b * array[N - j].size, Selected(array[N - j], <<range>>))
    <3>1. \A k \in 1 .. j : /\ ranges[k].left = ranges[k].right
                            /\ k = Len(dims) => lo = FromRight(dims[k], ranges[k].left)
      BY <1>1, <2>1
    <3>2. <<range>> \in Seq(Ranges)
      BY <2>2
    <3> HIDE DEF j, lo, range
    <3> QED
      BY <2>1, <2>8, <3>1, <3>2 DEF PrefixSelects
  <2>10. SubSeq(ranges, 1, j) \o <<range>> = ranges
    <3>1. SubSeq(ranges, 1, j + 1) = SubSeq(ranges, 1, j) \o <<ranges[j + 1]>>
      BY <1>1, <2>1, Beginnings
    <3>2. SubSeq(ranges, 1, n) = ranges
      BY <1>1
    <3> HIDE DEF j
    <3> QED
      BY <2>1, <3>1, <3>2
  <2>11. Selected(array[N], ranges) = Shift(b * (w * unit), lo * unit .. (hi + 1) * unit - 1)
    <3> HIDE DEF array, b, w, unit, lo, hi, range, j
    <3> QED
      BY <2>6, <2>7, <2>9, <2>10
  <2>12. b \in Nat
    <3>1. lo \in Nat /\ \A k \in 1 .. Len(dims) : k = Len(dims) => lo < dims[k].width
      BY <2>3
    <3> HIDE DEF lo, j
    <3>2. \A k \in Nat : k <= Len(dims) => Indexed(dims, ranges, lo)[k] \in Nat
      BY <1>1, <3>1, IndexBounds
    <3> QED
      BY <2>1, <3>2
  <2>13. t.offset = (b * w + lo) * unit /\ t.width = (hi - lo + 1) * unit
    <3>1. ranges # <<>>
      BY <1>1, <1>5
    <3>2. t = [offset |-> Indexed(dims, ranges, lo)[n] * unit, width |-> (hi - lo + 1) * unit]
      BY <1>1, <3>1 DEF TraverseDimensions
    <3>3. Indexed(dims, ranges, lo)[j + 1] = b * dims[j + 1].width
                + IF j + 1 = Len(ranges) THEN lo ELSE FromRight(dims[j + 1], ranges[j + 1].left)
      <4> HIDE DEF lo, j
      <4> QED
        BY <1>1, <2>1, IndexRecursion DEF b
    <3>4. Indexed(dims, ranges, lo)[n] = b * w + lo
      <4> HIDE DEF lo, j, b
      <4> QED
        BY <1>1, <2>1, <3>3
    <3> HIDE DEF t, b, w, lo, hi, unit
    <3> QED
      BY <3>2, <3>4
  <2>14. w \in Nat
    BY <2>2 DEF Dimension
  <2> HIDE DEF t, b, w, lo, hi, unit, array
  <2>15. b * (w * unit) \in Nat /\ lo * unit \in Nat /\ (hi + 1) * unit \in Nat
    <3>1. unit \in Nat /\ w * unit \in Nat /\ hi + 1 \in Nat
      BY <1>2, <2>3, <2>14
    <3>2. lo * unit \in Nat /\ (hi + 1) * unit \in Nat
      BY <2>3, <3>1
    <3> DEFINE z == w * unit
    <3>3. z \in Nat
      BY <3>1
    <3> HIDE DEF z
    <3>4. b * z \in Nat
      BY <2>12, <3>3
    <3> QED
      BY <3>2, <3>4 DEF z
  <2>16. (b * w + lo) * unit = b * (w * unit) + lo * unit
    BY <1>2, <2>3, <2>12, <2>14
  <2>17. (hi - lo + 1) * unit = (hi + 1) * unit - lo * unit
    <3>1. \A x, y, z \in Int : (x - y + 1) * z = (x + 1) * z - y * z
      OBVIOUS
    <3>2. hi \in Int /\ lo \in Int /\ unit \in Int
      BY <1>2, <2>3
    <3> QED
      BY <3>1, <3>2
  <2>18. Shift(b * (w * unit), lo * unit .. (hi + 1) * unit - 1) = t.offset .. t.offset + t.width - 1
    <3> DEFINE x == b * (w * unit)
               y == lo * unit
               z == (hi + 1) * unit
    <3>1. x \in Nat /\ y \in Nat /\ z \in Nat /\ z - 1 \in Int
      BY <2>15
    <3>2. t.offset = x + y /\ t.width = z - y
      BY <2>13, <2>16, <2>17
    <3> HIDE DEF x, y, z
    <3>3. Shift(x, y .. z - 1) = x + y .. x + (z - 1)
      BY <3>1, ShiftRun
    <3>4. x + (z - 1) = (x + y) + (z - y) - 1
      BY <3>1
    <3> QED
      BY <3>2, <3>3, <3>4 DEF x, y, z
  <2>19. Selected(array[N], ranges) = t.offset .. t.offset + t.width - 1
    BY <2>11, <2>18
  <2> QED
    BY <2>19 DEF ArrayLayout, array, t, unit
<1> QED
  BY <1>4, <1>5

------------------------------------------------------------------------------
(***************************************************************************)
(* The node an access selects from                                         *)
(***************************************************************************)
\* A placed member of type t: laid out where it lies, with even unions.
Member(n, h, t) ==
    /\ h \in Nat /\ t \in Declarations[h] /\ Uniform[h][t]
    /\ <<n, t, n.right>> \in Laid[h]
    /\ n.left - n.right + 1 = Layout[h][t].size

\* The members of n are those of type t, laid out from the lowest bit of n on.
Holds(n, h, t) ==
    /\ h \in Nat /\ t \in Declarations[h] /\ Uniform[h][t]
    /\ n.kind = t.kind /\ n.right \in Nat
    /\ t.kind # "item" => DOMAIN n.members = 1 .. Len(t.members)
    /\ \A k \in 1 .. Len(t.members) :
          /\ Member(n.members[k], h - 1, t.members[k])
          /\ n.members[k].right = n.right + Lowest(Layout[h - 1], t, k)

\* A node that was laid out has its members where the layout has them.
LEMMA LaidHolds ==
    ASSUME NEW n, NEW h \in Nat, NEW t, NEW base, <<n, t, base>> \in Laid[h], Uniform[h][t], NEW m,
           m.kind = n.kind, m.members = n.members, m.right = base
    PROVE  Holds(m, h, t)
PROOF
<1>1. n \in Nodes[h] /\ t \in Declarations[h] /\ base \in Nat /\ LaidOver(h, Laid[h - 1], n, t, base)
  BY LaidIs
<1>2. /\ <<n, t>> \in Versions[h]
      /\ \A k \in 1 .. Len(t.members) :
            /\ n.members[k].right = base + Lowest(Layout[h - 1], t, k)
            /\ n.members[k].left = n.members[k].right + Layout[h - 1][t.members[k]].size - 1
            /\ <<n.members[k], t.members[k], n.members[k].right>> \in Laid[h - 1]
  BY <1>1 DEF LaidOver
<1>3. VersionOf(Versions[h - 1], n, t)
  BY <1>2, VersionIs
<1>4. n.kind = t.kind /\ (n.kind # "item" => Len(n.members) = Len(t.members))
  BY <1>3 DEF VersionOf
<1>5. t.kind # "item" => DOMAIN m.members = 1 .. Len(t.members)
  <2>1. n.kind # "item" => DOMAIN n.members = 1 .. Len(n.members)
    BY <1>1, NodeFacts
  <2> QED
    BY <1>4, <2>1
<1>6. ASSUME NEW k \in 1 .. Len(t.members)
      PROVE  Member(n.members[k], h - 1, t.members[k])
  <2> DEFINE u == t.members[k]
             v == n.members[k]
  <2>1. t.kind # "item"
    <3>1. t.kind = "item" => t.members = <<>>
      BY <1>1, DeclarationFacts
    <3>2. t.members # <<>>
      OBVIOUS
    <3> QED
      BY <3>1, <3>2
  <2>2. h - 1 \in Nat /\ u \in Declarations[h - 1] /\ k \in DOMAIN t.members
    BY <1>1, <2>1, DeclarationFacts
  <2>3. Uniform[h - 1][u]
    BY <1>1, <2>2, UniformMembers
  <2>4. Layout[h - 1][u].size \in Nat
    <3>1. Layout[h - 1][u] \in LayoutType
      BY <2>2, LayoutTyped
    <3> HIDE DEF u
    <3> QED
      BY <3>1 DEF LayoutType
  <2>5. <<v, u, v.right>> \in Laid[h - 1] /\ v.left = v.right + Layout[h - 1][u].size - 1
    BY <1>2
  <2>6. v.right \in Nat
    <3> HIDE DEF u, v
    <3> QED
      BY <2>2, <2>5, LaidIs
  <2> HIDE DEF u, v
  <2>7. v.left - v.right + 1 = Layout[h - 1][u].size
    BY <2>4, <2>5, <2>6
  <2>8. Member(v, h - 1, u)
    BY <2>2, <2>3, <2>5, <2>7 DEF Member
  <2> QED
    BY <2>8 DEF u, v
<1> QED
  BY <1>1, <1>2, <1>4, <1>5, <1>6 DEF Holds

\* A member lies within its struct or union.
LEMMA MemberInside ==
    ASSUME NEW h \in Nat, NEW t \in Declarations[h], t.kind # "item", Uniform[h][t],
           NEW m \in 1 .. Len(t.members)
    PROVE  /\ Lowest(Layout[h - 1], t, m) \in Nat /\ Layout[h - 1][t.members[m]].size \in Nat \ {0}
           /\ Lowest(Layout[h - 1], t, m) + Layout[h - 1][t.members[m]].size <= ElementSize(h, t)
PROOF
<1> DEFINE layout == Layout[h - 1]
           n == Len(t.members)
           sizes == Sizes(layout, t.members)
           size == layout[t.members[m]].size
<1>1. n \in Nat \ {0} /\ Sized(layout, t.members) /\ t.kind \in Aggregates /\ DOMAIN t.members = 1 .. n
  BY DeclarationFacts, MembersSized
<1>2. size \in Nat \ {0}
  BY <1>1 DEF Sized, LayoutType
<1>3. CASE t.kind = "union"
  <2>1. Lowest(layout, t, m) = 0
    BY <1>3 DEF Lowest
  <2>2. layout[t.members[n]].size = size
    <3>1. n \in DOMAIN t.members /\ m \in DOMAIN t.members
      BY <1>1
    <3> QED
      BY <1>3, <3>1, UniformIs
  <2>3. ElementSize(h, t) = layout[t.members[n]].size
    BY <1>3, Element
  <2> HIDE DEF size, n
  <2> QED
    BY <1>2, <2>1, <2>2, <2>3 DEF size
<1>4. CASE t.kind # "union"
  <2> DEFINE j == n - m
  <2>1. j \in Nat /\ j + 1 \in Nat /\ j + 1 <= n /\ n - j = m /\ j < n /\ j <= n
    BY <1>1
  <2>2. sizes[j + 1] = sizes[j] + size
    <3>1. sizes[j + 1] = sizes[j] + layout[t.members[n - j]].size
      <4> HIDE DEF j
      <4> QED
        BY <1>1, <2>1, SizeRecursion
    <3> QED
      BY <2>1, <3>1
  <2>3. sizes[j] \in Nat /\ sizes[j + 1] \in Nat /\ sizes[n] \in Nat
    <3> HIDE DEF j
    <3> QED
      BY <1>1, <2>1, SizesType
  <2>4. sizes[j + 1] <= sizes[n]
    <3> HIDE DEF j
    <3> QED
      BY <1>1, <2>1, SizesGrow
  <2>5. Lowest(layout, t, m) = sizes[j]
    BY <1>4 DEF Lowest
  <2>6. ElementSize(h, t) = sizes[n]
    BY <1>1, <1>4, Element DEF Aggregates
  <2> HIDE DEF sizes, size, j, n
  <2> QED
    BY <1>2, <2>2, <2>3, <2>4, <2>5, <2>6 DEF size
<1> QED
  BY <1>3, <1>4

\* Whatever is declared in a type with even unions has a name for every bit.
LEMMA ElementsFull ==
    ASSUME NEW h \in Nat, NEW t \in Declarations[h], Uniform[h][t]
    PROVE  Full(ElementLayout(Layout[h - 1], t))
PROOF
<1>1. ASSUME NEW k \in 1 .. Len(t.members)
      PROVE  Full(Layout[h - 1][t.members[k]])
  <2>1. t.kind # "item"
    <3>1. t.kind = "item" => t.members = <<>>
      BY DeclarationFacts
    <3>2. t.members # <<>>
      OBVIOUS
    <3> QED
      BY <3>1, <3>2
  <2>2. h - 1 \in Nat /\ t.members[k] \in Declarations[h - 1] /\ k \in DOMAIN t.members
    BY <2>1, DeclarationFacts
  <2>3. Uniform[h - 1][t.members[k]]
    BY <2>2, UniformMembers
  <2> QED
    BY <2>2, <2>3, FullTyped
<1> QED
  BY <1>1, ElementFull

\* Paths can be put behind one another.
LEMMA Further ==
    ASSUME NEW whole, NEW p \in Seq(Ranges), NEW start \in Nat, NEW part, Reaches(whole, p, start, part),
           NEW r \in Seq(Ranges), NEW offset \in Nat, NEW inner \in LayoutType, Reaches(part, r, offset, inner)
    PROVE  Reaches(whole, p \o r, start + offset, inner)
PROOF
<1> SUFFICES ASSUME NEW q \in Seq(Ranges)
             PROVE  Selected(whole, (p \o r) \o q) = Shift(start + offset, Selected(inner, q))
  BY DEF Reaches
<1>1. (p \o r) \o q = p \o (r \o q) /\ r \o q \in Seq(Ranges)
  OBVIOUS
<1>2. Selected(whole, p \o (r \o q)) = Shift(start, Selected(part, r \o q))
  BY <1>1 DEF Reaches
<1>3. Selected(part, r \o q) = Shift(offset, Selected(inner, q))
  BY DEF Reaches
<1>4. Shift(start, Shift(offset, Selected(inner, q))) = Shift(start + offset, Selected(inner, q))
  <2>1. Selected(inner, q) \in SUBSET Nat
    BY Positions
  <2> QED
    BY <2>1, ShiftTwice
<1> QED
  BY <1>1, <1>2, <1>3, <1>4

------------------------------------------------------------------------------
(***************************************************************************)
(* What an access takes                                                    *)
(***************************************************************************)
\* The dimensions an access uses are the first of rs, up to their direction; if
\* exact, with it.
Taken(dims, rs, exact) ==
    /\ dims \in Seq(Dimension) /\ Len(dims) <= Len(rs)
    /\ \A k \in 1 .. Len(dims) : /\ dims[k].low = Low(rs[k])
                                 /\ dims[k].width = High(rs[k]) - Low(rs[k]) + 1
                                 /\ exact => dims[k] = Stored(rs[k])

\* An access as large as declared, within the array it is made to.
Good(rs, element, dims, ranges, last, variable, exact) ==
    LET unit == UnitOf(rs, element, dims) IN
    /\ ranges \in Seq(Ranges) /\ Len(ranges) = Len(dims)
    /\ unit \in Nat \ {0} /\ unit = Arrayed(rs, element)[Len(rs) - Len(dims)].size
    /\ Within(TraverseDimensions(dims, ranges, unit, variable), 1, ArrayLayout(rs, element).size, FALSE)
    /\ ~last => \A k \in 1 .. Len(dims) : ranges[k].left = ranges[k].right
    /\ \A k \in 1 .. Len(dims) : k # Len(dims) => ranges[k].left = ranges[k].right
    /\ ~variable \/ (\A k \in 1 .. Len(dims) : ranges[k].left = ranges[k].right)
       => TraverseDimensions(dims, ranges, unit, variable).width >= unit
    /\ exact => Accesses(rs, dims, ranges)

\* Each legal access to an array is an access to its elements.
LEMMA AccessGood ==
    ASSUME NEW rs \in Seq(Ranges), NEW element \in LayoutType, NEW exact \in BOOLEAN, NEW dims, Taken(dims, rs, exact),
           NEW last \in BOOLEAN, NEW ranges \in Legal(SubSeq(Dimensions(rs), 1, Len(dims)), last), NEW variable \in BOOLEAN
    PROVE  Good(rs, element, dims, ranges, last, variable, exact)
PROOF
<1> DEFINE D == Dimensions(rs)
           n == Len(dims)
           first == SubSeq(D, 1, n)
           unit == UnitOf(rs, element, dims)
           t == TraverseDimensions(dims, ranges, unit, variable)
           certain == ~variable \/ \A k \in 1 .. n : ranges[k].left = ranges[k].right
<1>1. /\ dims \in Seq(Dimension) /\ n \in Nat /\ n <= Len(rs)
      /\ \A k \in 1 .. n : dims[k].low = Low(rs[k]) /\ dims[k].width = High(rs[k]) - Low(rs[k]) + 1
      /\ exact => \A k \in 1 .. n : dims[k] = Stored(rs[k])
  BY DEF Taken
<1>2. D \in Seq(Dimension) /\ Len(D) = Len(rs) /\ \A k \in 1 .. Len(rs) : D[k] = Stored(rs[k])
  BY DimensionsType DEF Stored
<1> HIDE DEF D
<1>3. first \in Seq(Dimension) /\ Len(first) = n /\ \A k \in 1 .. n : first[k] = Stored(rs[k])
  BY <1>1, <1>2
<1>4. ranges \in Legal(first, last)
  BY DEF D
<1> HIDE DEF first, n
<1>5. /\ ranges \in Seq(Ranges) /\ Len(ranges) = n
      /\ \A k \in 1 .. n : ranges[k].left \in Span(first[k]) /\ ranges[k].right \in Span(first[k])
      /\ \A k \in 1 .. n : ranges[k].left = ranges[k].right \/ (last /\ k = n)
  <2>1. InSpans(first, ranges) /\ \A k \in 1 .. Len(first) :
                 \/ ranges[k].left = ranges[k].right
                 \/ last /\ k = Len(first) /\ (Upwards(ranges[k]) <=> first[k].swapped)
    BY <1>3, <1>4, LegalFacts
  <2> QED
    BY <1>3, <2>1 DEF InSpans
<1>6. \A k \in 1 .. n : Span(first[k]) = Span(dims[k])
  <2> TAKE k \in 1 .. n
  <2>1. Stored(rs[k]).low = Low(rs[k]) /\ Stored(rs[k]).width = High(rs[k]) - Low(rs[k]) + 1
    BY DEF Stored
  <2>2. first[k].low = dims[k].low /\ first[k].width = dims[k].width
    BY <1>1, <1>3, <2>1
  <2> QED
    BY <2>2 DEF Span
<1>7. InSpans(dims, ranges)
  BY <1>5, <1>6 DEF InSpans, n
<1>8. /\ unit = Arrayed(rs, element)[Len(rs) - n].size /\ unit \in Nat \ {0}
      /\ Elements(dims) * unit = ArrayLayout(rs, element).size
  BY <1>1, UnitIs DEF n
<1> HIDE DEF unit
<1>9. Within(t, Elements(dims), unit, certain)
  BY <1>1, <1>7, <1>8, TraverseBounds DEF n
<1>10. ArrayLayout(rs, element).size \in Nat
  BY ArrayLayoutType DEF LayoutType
<1> HIDE DEF t
<1>11. Within(t, 1, ArrayLayout(rs, element).size, FALSE) /\ (certain => t.width >= unit)
  <2> HIDE DEF certain
  <2> DEFINE size == ArrayLayout(rs, element).size
  <2>1. t.offset \in Nat /\ t.width \in Int /\ t.offset + t.width <= size /\ (certain => t.width >= unit)
    BY <1>8, <1>9 DEF Within
  <2>2. size \in Nat
    BY <1>10
  <2> HIDE DEF size
  <2>3. 1 * size = size
    BY <2>2
  <2> QED
    BY <2>1, <2>3 DEF Within, size
<1>12. exact => Accesses(rs, dims, ranges)
  <2>1. \A k \in 1 .. n : k # n => ranges[k].left = ranges[k].right
    BY <1>5
  <2> QED
    BY <1>1, <1>7, <2>1 DEF Accesses, n
<1>13. ~last => \A k \in 1 .. n : ranges[k].left = ranges[k].right
  BY <1>5
<1>14. \A k \in 1 .. n : k # n => ranges[k].left = ranges[k].right
  BY <1>5
<1> QED
  BY <1>5, <1>8, <1>11, <1>12, <1>13, <1>14 DEF Good, n, unit, t

------------------------------------------------------------------------------
(***************************************************************************)
(* The access in hand                                                      *)
(***************************************************************************)
Descend == \A k \in DOMAIN arrays : ~Upwards(arrays[k])
Whole == ArrayLayout(arrays, Layout[Height][type])

\* The bit the node begins at, and the last bit the next access may take.
Start == bits.right + (node.right - previous)
Top == IF path = <<>> THEN wire.left ELSE bits.left

\* The node is an array rs of a type.
Here(h, t, rs) ==
    LET layout == ArrayLayout(rs, ElementLayout(Layout[h - 1], t)) IN
    /\ rs \in Seq(Ranges) /\ path \in Seq(Ranges)
    /\ Holds(node, h, t)
    /\ node.left - node.right + 1 = layout.size
    /\ Declared = Dimensions(rs)
    /\ \A n \in 0 .. Len(rs) : Len(Accessed(n)) = n /\ Taken(Accessed(n), rs, Descend)
    /\ previous \in Nat /\ previous <= node.right /\ bits.right \in Nat
    /\ Top \in Int /\ Top <= wire.left /\ Start + layout.size - 1 <= Top
    /\ Descend => Reaches(Whole, path, Start, layout)

\* What the members of a type need to be reached: the type's node is a member.
MemberReached(h, t) ==
    /\ Member(node, h, t)
    /\ previous <= node.right
    /\ Start + Layout[h][t].size - 1 <= bits.left
    /\ Descend => Reaches(Whole, path, Start, Layout[h][t])

IInv ==
    /\ type \in Types /\ arrays \in Arrays /\ path \in Seq(Ranges)
    /\ previous \in Nat /\ bits.right \in Nat /\ bits.left \in Int
    /\ pc \in {"declared", "select", "done", "error"}
    /\ pc \in {"declared", "error"} =>
          wire = NoNode /\ path = <<>> /\ previous = 0 /\ bits = Bound(0, 0) /\ ~indirect
    /\ pc = "select" => wire = WireOf(Simplify[Height][type]) /\ Uniform[Height][type] /\ ~indirect
    /\ pc = "select" /\ path = <<>> => node = wire /\ previous = 0 /\ bits = Bound(0, 0)
    /\ pc = "select" /\ path # <<>> =>
          wire.left \in Int /\ bits.left <= wire.left /\ \E h \in Nat : \E t \in Declarations[h] : MemberReached(h, t)
    /\ pc = "done" => path # <<>> /\ (~indirect => bits.right <= bits.left /\ bits.left <= wire.left)
    /\ SelectIsMember

\* The wire is an array of the declared type: here every select begins.
LEMMA WireHere ==
    ASSUME IInv, pc = "select", path = <<>>
    PROVE  Here(Height, type, arrays)
PROOF
<1> DEFINE q == Simplify[Height][type]
           element == ElementLayout(Layout[Height - 1], type)
           D == Dimensions(arrays)
           dims == WireDimensions(q.width)
           layout == ArrayLayout(arrays, element)
<1>1. /\ type \in Declarations[Height] /\ type.kind # "item" /\ type.ranges = <<>> /\ Height \in Nat
      /\ arrays \in Seq(Ranges)
  BY TypesAssumption, ArraysAssumption DEF IInv
<1>2. wire = WireOf(q) /\ Uniform[Height][type] /\ node = wire /\ previous = 0 /\ bits = Bound(0, 0)
  BY DEF IInv
<1>3. <<q.node, type, 0>> \in Laid[Height] /\ q.width = ElementSize(Height, type)
  BY <1>1, Simplifying DEF SimplifiedRight
<1>4. /\ element \in LayoutType /\ q.width = element.size /\ q.width \in Nat \ {0}
      /\ Layout[Height][type] = ArrayLayout(<<>>, element)
  <2>1. element \in LayoutType /\ ElementSize(Height, type) \in Nat \ {0}
    BY <1>1, Element
  <2>2. ElementSize(Height, type) = element.size
    BY DEF ElementSize
  <2>3. Layout[Height][type] = ArrayLayout(<<>>, element)
    <3>1. Layout[Height][type] = ArrayLayout(type.ranges, element)
      BY <1>1, LayoutIs
    <3> HIDE DEF element
    <3> QED
      BY <1>1, <3>1
  <2> QED
    BY <1>3, <2>1, <2>2, <2>3
<1>5. Layout[Height][type] = element
  <2>1. ArrayLayout(<<>>, element) = Arrayed(<<>>, element)[0]
    BY DEF ArrayLayout
  <2>2. Arrayed(<<>>, element)[0] = element
    <3>1. Len(<<>>) = 0 /\ 0 \in Nat
      OBVIOUS
    <3> HIDE DEF element
    <3> QED
      BY <3>1, ArrayRecursion
  <2> QED
    BY <1>4, <2>1, <2>2
<1>6. D \in Seq(Dimension) /\ Len(D) = Len(arrays) /\ \A k \in 1 .. Len(arrays) : D[k] = Stored(arrays[k])
  BY <1>1, DimensionsType DEF Stored
<1>7. dims = <<[low |-> 0, width |-> q.width, swapped |-> FALSE]>> \o Reverse(D)
  BY DEF WireDimensions
<1> HIDE DEF D, dims, q, element
<1>8. /\ dims \in Seq(Dimension) /\ Len(dims) = Len(D) + 1
      /\ \A j \in 1 .. Len(D) : Reverse(dims)[j] = D[j]
      /\ Elements(dims) = Elements(D) * q.width
  <2>1. q.width \in Nat \ {0}
    BY <1>4
  <2>2. D \in Seq(Dimension)
    BY <1>6
  <2> QED
    BY <1>7, <2>1, <2>2, WireDims
<1>9. layout \in LayoutType /\ layout.size = Elements(D) * q.width
  BY <1>1, <1>4, ArrayLayoutType DEF D
<1>10. Elements(dims) = layout.size /\ layout.size \in Nat \ {0}
  BY <1>8, <1>9 DEF LayoutType
<1> HIDE DEF layout
<1>11. /\ q.node \in Nodes[Height]
  BY <1>1, <1>3, LaidIs
<1>12. /\ wire.kind = q.node.kind /\ wire.members = q.node.members /\ wire.dims = dims
       /\ wire.right = 0 /\ wire.left = layout.size - 1
  <2> DEFINE n == q.node
             e == Elements(dims)
  <2>1. n \in [kind : {"item"} \cup Aggregates, ranges : Seq(Ranges), members : {n.members},
               dims : Seq(Dimension), left : Int, right : Nat]
    BY <1>1, <1>11, NodeFacts
  <2>2. wire = [[[n EXCEPT !.dims = dims] EXCEPT !.right = 0] EXCEPT !.left = 0 + e - 1]
    <3>1. wire = [[n EXCEPT !.dims = dims] EXCEPT !.right = 0, !.left = 0 + e - 1]
      BY <1>2 DEF WireOf, At, dims
    <3> HIDE DEF n, e
    <3> QED
      BY <3>1
  <2> HIDE DEF n, e
  <2>3. wire = [kind |-> n.kind, ranges |-> n.ranges, members |-> n.members, dims |-> dims,
                left |-> 0 + e - 1, right |-> 0]
    BY <2>1, <2>2
  <2>4. 0 + e - 1 = layout.size - 1
    BY <1>10 DEF e
  <2> QED
    BY <2>3, <2>4 DEF n
<1>13. Holds(node, Height, type)
  <2> DEFINE n == q.node
  <2>1. node.kind = n.kind /\ node.members = n.members /\ node.right = 0 /\ <<n, type, 0>> \in Laid[Height]
    BY <1>2, <1>3, <1>12
  <2> HIDE DEF n
  <2> QED
    BY <1>1, <1>2, <2>1, LaidHolds
<1>14. Declared = D
  BY DEF Declared, D
<1>15. ASSUME NEW n \in 0 .. Len(arrays)
       PROVE  Len(Accessed(n)) = n /\ Taken(Accessed(n), arrays, Descend)
  <2> DEFINE f(k) == [Reverse(dims)[k] EXCEPT !.swapped = FALSE]
             a == [k \in 1 .. n |-> f(k)]
  <2>1. Accessed(n) = a
    <3>1. Accessed(n) = [k \in 1 .. n |-> [Reverse(node.dims)[k] EXCEPT !.swapped = FALSE]]
      BY DEF Accessed
    <3>2. node.dims = dims
      BY <1>2, <1>12
    <3> QED
      BY <3>1, <3>2
  <2>2. n \in Nat /\ n <= Len(arrays)
    BY <1>1
  <2>3. ASSUME NEW k \in 1 .. n
        PROVE  /\ f(k) \in Dimension /\ f(k).low = Low(arrays[k])
               /\ f(k).width = High(arrays[k]) - Low(arrays[k]) + 1
               /\ Descend => f(k) = Stored(arrays[k])
    <3> DEFINE s == Stored(arrays[k])
    <3>1. k \in 1 .. Len(D) /\ k \in DOMAIN arrays
      BY <1>1, <1>6, <2>2
    <3>2. Reverse(dims)[k] = s /\ s \in Dimension
      BY <1>6, <1>8, <3>1
    <3>3. s = [low |-> Low(arrays[k]), width |-> High(arrays[k]) - Low(arrays[k]) + 1, swapped |-> Upwards(arrays[k])]
      BY DEF Stored
    <3>4. Descend => Upwards(arrays[k]) = FALSE
      <4>1. Upwards(arrays[k]) \in BOOLEAN
        BY DEF Upwards
      <4> QED
        BY <3>1, <4>1 DEF Descend
    <3> HIDE DEF s
    <3>5. f(k) = [low |-> Low(arrays[k]), width |-> High(arrays[k]) - Low(arrays[k]) + 1, swapped |-> FALSE]
      <4> DEFINE lo == Low(arrays[k])
                 wide == High(arrays[k]) - Low(arrays[k]) + 1
                 up == Upwards(arrays[k])
      <4>1. f(k) = [s EXCEPT !.swapped = FALSE]
        BY <3>2
      <4>2. s = [low |-> lo, width |-> wide, swapped |-> up]
        BY <3>3
      <4> HIDE DEF lo, wide, up, f
      <4>3. f(k) = [low |-> lo, width |-> wide, swapped |-> FALSE]
        BY <4>1, <4>2
      <4> QED
        BY <4>3 DEF lo, wide
    <3>6. f(k) \in Dimension
      BY <3>2, <3>3, <3>5 DEF Dimension
    <3> HIDE DEF f
    <3>7. Descend => f(k) = s
      BY <3>3, <3>4, <3>5
    <3> QED
      BY <3>5, <3>6, <3>7 DEF s
  <2> HIDE DEF f
  <2>4. a \in Seq(Dimension) /\ Len(a) = n /\ \A k \in 1 .. n : a[k] = f(k)
    BY <2>2, <2>3
  <2> HIDE DEF a
  <2>5. Taken(a, arrays, Descend)
    BY <2>2, <2>3, <2>4 DEF Taken
  <2> QED
    BY <2>1, <2>4, <2>5
<1>16. node.right = 0 /\ node.left = layout.size - 1 /\ bits.right = 0 /\ previous = 0 /\ Start = 0
  <2>1. node.right = 0 /\ node.left = layout.size - 1 /\ previous = 0
    BY <1>2, <1>12
  <2>2. bits.right = 0
    BY <1>2 DEF Bound
  <2> QED
    BY <2>1, <2>2 DEF Start
<1>17. Top = wire.left
  BY DEF Top
<1>18. Reaches(Whole, path, Start, layout)
  <2>1. Whole = layout
    BY <1>5 DEF Whole, layout
  <2>2. ASSUME NEW p \in Seq(Ranges)
        PROVE  Selected(layout, path \o p) = Shift(0, Selected(layout, p))
    <3>1. path \o p = p
      OBVIOUS
    <3>2. Shift(0, Selected(layout, p)) = Selected(layout, p)
      <4>1. Selected(layout, p) \in SUBSET Nat
        BY <1>9, Positions
      <4> QED
        BY <4>1, ShiftTwice
    <3> QED
      BY <3>1, <3>2
  <2> QED
    BY <1>16, <2>1, <2>2 DEF Reaches
<1>19. path \in Seq(Ranges)
  BY DEF IInv
<1>20. /\ node.left - node.right + 1 = layout.size
       /\ previous \in Nat /\ previous <= node.right /\ bits.right \in Nat
       /\ Top \in Int /\ Top <= wire.left /\ Start + layout.size - 1 <= Top
  BY <1>2, <1>10, <1>12, <1>16, <1>17
<1> QED
  BY <1>1, <1>13, <1>14, <1>15, <1>18, <1>19, <1>20 DEF Here, layout, element, D

\* A member is an array of its type: from here a select goes on.
LEMMA MemberHere ==
    ASSUME IInv, pc = "select", path # <<>>, NEW h \in Nat, NEW t \in Declarations[h], MemberReached(h, t)
    PROVE  Here(h, t, t.ranges)
PROOF
<1> DEFINE layout == ArrayLayout(t.ranges, ElementLayout(Layout[h - 1], t))
           rs == t.ranges
<1>1. rs \in Seq(Ranges) /\ layout = Layout[h][t]
  BY DeclarationFacts, LayoutIs
<1>2. /\ Uniform[h][t] /\ <<node, t, node.right>> \in Laid[h]
      /\ node.left - node.right + 1 = layout.size
      /\ previous <= node.right /\ Start + layout.size - 1 <= bits.left
      /\ Descend => Reaches(Whole, path, Start, layout)
  <2>1. Member(node, h, t)
    BY DEF MemberReached
  <2> QED
    BY <1>1, <2>1 DEF MemberReached, Member
<1> HIDE DEF layout
<1>3. Holds(node, h, t)
  BY <1>2, LaidHolds
<1>4. /\ node \in Nodes[h] /\ node.ranges = <<>> /\ <<node, t>> \in Versions[h]
  <2>1. node \in Nodes[h] /\ LaidOver(h, Laid[h - 1], node, t, node.right)
    BY <1>2, LaidIs
  <2>2. node.ranges = <<>> /\ <<node, t>> \in Versions[h]
    BY <2>1, Zenon DEF LaidOver
  <2> QED
    BY <2>1, <2>2
<1>5. node.dims = Dimensions(rs)
  <2>1. node.dims \o Dimensions(node.ranges) = Dimensions(rs)
    BY <1>4, VersionIs, ZenonT(60) DEF VersionOf
  <2>2. node.dims \in Seq(Dimension)
    <3>1. node \in [kind : {"item"} \cup Aggregates, ranges : Seq(Ranges), members : {node.members},
                    dims : Seq(Dimension), left : Int, right : Nat]
      BY <1>4, NodeFacts
    <3> QED
      BY <3>1
  <2>3. node.dims \o Dimensions(node.ranges) = node.dims
    BY <1>4, <2>2, NoDimensions
  <2> QED
    BY <2>1, <2>3
<1>6. Declared = Dimensions(rs)
  BY <1>5 DEF Declared
<1>7. ASSUME NEW n \in 0 .. Len(rs)
      PROVE  Len(Accessed(n)) = n /\ Taken(Accessed(n), rs, Descend)
  <2> DEFINE a == SubSeq(node.dims, 1, n)
             D == Dimensions(rs)
  <2>1. Accessed(n) = a /\ node.dims = D
    BY <1>5 DEF Accessed
  <2>2. D \in Seq(Dimension) /\ Len(D) = Len(rs) /\ \A k \in 1 .. Len(rs) : D[k] = Stored(rs[k])
    BY <1>1, DimensionsType DEF Stored
  <2>3. n \in Nat /\ n <= Len(rs)
    BY <1>1
  <2> HIDE DEF D, rs
  <2>4. a \in Seq(Dimension) /\ Len(a) = n /\ \A k \in 1 .. n : a[k] = Stored(rs[k])
    BY <2>1, <2>2, <2>3
  <2>5. \A k \in 1 .. n : /\ Stored(rs[k]).low = Low(rs[k])
                          /\ Stored(rs[k]).width = High(rs[k]) - Low(rs[k]) + 1
    BY DEF Stored
  <2> HIDE DEF a
  <2>6. Taken(a, rs, Descend)
    BY <2>3, <2>4, <2>5 DEF Taken
  <2> QED
    BY <2>1, <2>4, <2>6
<1>8. Top = bits.left
  BY DEF Top
<1>9. bits.left \in Int /\ bits.left <= wire.left /\ previous \in Nat /\ bits.right \in Nat /\ path \in Seq(Ranges)
  BY DEF IInv
<1> QED
  BY <1>1, <1>2, <1>3, <1>6, <1>7, <1>8, <1>9 DEF Here, layout, rs

\* Offset and width of an access, as the code computes them.
Taking(ranges, variable) ==
    LET dims == Accessed(Len(ranges)) IN
    TraverseDimensions(dims, ranges, (node.left - node.right + 1) \div Elements(dims), variable)

\* What an access does to the bits selected.
LEMMA AccessIs ==
    ASSUME NEW ranges, NEW variable, Access(ranges, variable)
    PROVE  /\ bits'.right = bits.right + Taking(ranges, variable).offset + (node.right - previous)
           /\ bits'.left = bits.right + Taking(ranges, variable).offset + (node.right - previous)
                           + Taking(ranges, variable).width - 1
           /\ previous' = node.right
           /\ type' = type /\ arrays' = arrays /\ wire' = wire
PROOF
<1> DEFINE a == Taking(ranges, variable)
           right == bits.right + a.offset + (node.right - previous)
<1>1. bits' = Bound(right + a.width - 1, right) /\ previous' = node.right
      /\ type' = type /\ arrays' = arrays /\ wire' = wire
  BY DEF Access, Taking
<1>2. bits'.right = right /\ bits'.left = right + a.width - 1
  <2> HIDE DEF right, a
  <2> QED
    BY <1>1 DEF Bound
<1> QED
  BY <1>1, <1>2

\* What an access takes begins and ends within what the last one took.
Takes(rs, element, ranges, last, variable) ==
    LET dims == Accessed(Len(ranges)) IN
    /\ Len(dims) = Len(ranges)
    /\ Good(rs, element, dims, ranges, last, variable, Descend)
    /\ Taking(ranges, variable) = TraverseDimensions(dims, ranges, UnitOf(rs, element, dims), variable)

\* Each access stays in the array in hand, and is what its ranges name.
LEMMA AccessTakes ==
    ASSUME NEW h \in Nat, NEW t \in Declarations[h], NEW rs, Here(h, t, rs), NEW n \in 0 .. Len(rs),
           NEW last \in BOOLEAN, NEW ranges \in Legal(SubSeq(Declared, 1, n), last), NEW variable \in BOOLEAN
    PROVE  Takes(rs, ElementLayout(Layout[h - 1], t), ranges, last, variable) /\ Len(ranges) = n
PROOF
<1> DEFINE element == ElementLayout(Layout[h - 1], t)
           dims == Accessed(n)
<1>1. /\ rs \in Seq(Ranges) /\ Declared = Dimensions(rs) /\ Len(dims) = n /\ Taken(dims, rs, Descend)
      /\ node.left - node.right + 1 = ArrayLayout(rs, element).size
  BY DEF Here
<1>2. element \in LayoutType /\ Descend \in BOOLEAN
  BY Element DEF Descend
<1>3. ranges \in Legal(SubSeq(Dimensions(rs), 1, Len(dims)), last)
  BY <1>1
<1> HIDE DEF element, dims
<1>4. Good(rs, element, dims, ranges, last, variable, Descend)
  BY <1>1, <1>2, <1>3, AccessGood
<1>5. Len(ranges) = n
  BY <1>1, <1>4 DEF Good
<1>6. Taking(ranges, variable) = TraverseDimensions(dims, ranges, UnitOf(rs, element, dims), variable)
  BY <1>1, <1>5 DEF Taking, UnitOf, dims
<1>7. Takes(rs, element, ranges, last, variable)
  BY <1>1, <1>4, <1>5, <1>6 DEF Takes, dims
<1> QED
  BY <1>5, <1>7 DEF element

\* The numbers of an access: where it begins, how wide it is, and that it stays
\* within the bits at hand.
LEMMA TakingBounds ==
    ASSUME NEW h \in Nat, NEW t \in Declarations[h], NEW rs, Here(h, t, rs),
           NEW ranges, NEW last \in BOOLEAN, NEW variable \in BOOLEAN,
           Takes(rs, ElementLayout(Layout[h - 1], t), ranges, last, variable)
    PROVE  /\ Taking(ranges, variable).offset \in Nat /\ Taking(ranges, variable).width \in Int
           /\ Start \in Nat /\ Start >= bits.right
           /\ Start + Taking(ranges, variable).offset + Taking(ranges, variable).width - 1 <= Top
           /\ ~variable \/ (\A k \in 1 .. Len(ranges) : ranges[k].left = ranges[k].right)
              => Taking(ranges, variable).width >= 1
PROOF
<1> DEFINE element == ElementLayout(Layout[h - 1], t)
           dims == Accessed(Len(ranges))
           unit == UnitOf(rs, element, dims)
           size == ArrayLayout(rs, element).size
           a == Taking(ranges, variable)
           certain == ~variable \/ \A k \in 1 .. Len(ranges) : ranges[k].left = ranges[k].right
<1>1. /\ rs \in Seq(Ranges) /\ Holds(node, h, t)
      /\ previous \in Nat /\ previous <= node.right /\ bits.right \in Nat
      /\ Top \in Int /\ Start + size - 1 <= Top
  BY DEF Here
<1>2. node.right \in Nat
  BY <1>1 DEF Holds
<1>3. Start \in Nat /\ Start >= bits.right
  BY <1>1, <1>2 DEF Start
<1>4. element \in LayoutType
  BY Element
<1> HIDE DEF element
<1>5. size \in Nat
  BY <1>1, <1>4, ArrayLayoutType DEF LayoutType
<1>6. Len(dims) = Len(ranges) /\ Good(rs, element, dims, ranges, last, variable, Descend)
      /\ a = TraverseDimensions(dims, ranges, unit, variable)
  BY DEF Takes, element
<1> HIDE DEF dims, size, a, unit
<1>7. Within(a, 1, size, FALSE) /\ unit \in Nat \ {0} /\ (certain => a.width >= unit)
  BY <1>6 DEF Good, unit, size
<1>8. a.offset \in Nat /\ a.width \in Int /\ a.offset + a.width <= 1 * size
  BY <1>7 DEF Within
<1> HIDE DEF certain
<1>9. a.offset + a.width <= size /\ (certain => a.width >= 1)
  BY <1>5, <1>7, <1>8
<1>10. Start + a.offset + a.width - 1 <= Top
  <2>1. Top \in Int /\ Start + size - 1 <= Top
    BY <1>1
  <2>2. a.offset + a.width <= size
    BY <1>9
  <2> QED
    BY <1>3, <1>5, <1>8, <2>1, <2>2
<1> QED
  BY <1>3, <1>8, <1>9, <1>10 DEF a, certain

\* Where an access that names a member leads.
LEMMA Entered ==
    ASSUME NEW h \in Nat, NEW t \in Declarations[h], NEW rs, Here(h, t, rs), node.kind # "item",
           NEW ranges \in Legal(Declared, FALSE), NEW m \in DOMAIN node.members
    PROVE  /\ path \o ranges \o <<Bound(m, m)>> \in Seq(Ranges) /\ path \o ranges \o <<Bound(m, m)>> # <<>>
           /\ h - 1 \in Nat /\ t.members[m] \in Declarations[h - 1]
           /\ Takes(rs, ElementLayout(Layout[h - 1], t), ranges, FALSE, FALSE)
           /\ Member(node.members[m], h - 1, t.members[m])
           /\ node.right \in Nat /\ node.members[m].right \in Nat /\ node.members[m].right >= node.right
           /\ Layout[h - 1][t.members[m]].size \in Nat \ {0}
           /\ (node.members[m].right - node.right) + Layout[h - 1][t.members[m]].size <= Taking(ranges, FALSE).width
           /\ Descend => Reaches(Whole, path \o ranges \o <<Bound(m, m)>>,
                                 Start + Taking(ranges, FALSE).offset + (node.members[m].right - node.right),
                                 Layout[h - 1][t.members[m]])
PROOF
<1> DEFINE element == ElementLayout(Layout[h - 1], t)
           u == t.members[m]
           v == node.members[m]
           low == Lowest(Layout[h - 1], t, m)
           a == Taking(ranges, FALSE)
           n == Len(rs)
           dims == Accessed(n)
           unit == UnitOf(rs, element, dims)
           one == <<Bound(m, m)>>
<1>1. /\ rs \in Seq(Ranges) /\ path \in Seq(Ranges) /\ Holds(node, h, t) /\ Declared = Dimensions(rs)
      /\ Descend => Reaches(Whole, path, Start, ArrayLayout(rs, element))
  BY DEF Here
<1>2. /\ node.kind = t.kind /\ t.kind # "item" /\ Uniform[h][t] /\ node.right \in Nat
      /\ m \in 1 .. Len(t.members) /\ Member(v, h - 1, u) /\ v.right = node.right + low
  BY <1>1 DEF Holds
<1>3. h - 1 \in Nat /\ u \in Declarations[h - 1]
  BY <1>2, DeclarationFacts
<1>4. /\ low \in Nat /\ Layout[h - 1][u].size \in Nat \ {0}
      /\ low + Layout[h - 1][u].size <= element.size
  BY <1>2, MemberInside DEF ElementSize
<1>5. n \in 0 .. Len(rs) /\ SubSeq(Declared, 1, n) = Declared /\ n \in Nat
  <2>1. Dimensions(rs) \in Seq(Dimension) /\ Len(Dimensions(rs)) = n /\ n \in Nat
    BY <1>1, DimensionsType
  <2> HIDE DEF n
  <2>2. SubSeq(Declared, 1, n) = Declared
    BY <1>1, <2>1
  <2> QED
    BY <2>1, <2>2 DEF n
<1>6. Takes(rs, element, ranges, FALSE, FALSE) /\ Len(ranges) = n
  <2>1. ranges \in Legal(SubSeq(Declared, 1, n), FALSE)
    BY <1>5
  <2> HIDE DEF n
  <2>2. n \in 0 .. Len(rs)
    BY <1>5
  <2> QED
    BY <2>1, <2>2, AccessTakes, ZenonT(60)
<1>7. element \in LayoutType
  BY Element
<1>8. /\ Len(dims) = n /\ Good(rs, element, dims, ranges, FALSE, FALSE, Descend)
      /\ a = TraverseDimensions(dims, ranges, unit, FALSE)
  BY <1>6 DEF Takes
<1> HIDE DEF element, dims, a
<1>9. /\ ranges \in Seq(Ranges) /\ unit = Arrayed(rs, element)[n - n].size /\ a.width >= unit
      /\ \A k \in 1 .. n : ranges[k].left = ranges[k].right
      /\ Descend => Accesses(rs, dims, ranges)
  BY <1>8 DEF Good
<1>10. unit = element.size
  <2>1. n - n = 0 /\ Arrayed(rs, element)[0] = element
    BY <1>5, ArrayRecursion
  <2> HIDE DEF n, unit
  <2> QED
    BY <1>9, <2>1
<1>11. one \in Seq(Ranges) /\ m \in Int
  <2>1. m \in Int
    BY <1>2
  <2>2. Bound(m, m) \in Ranges
    BY <2>1 DEF Bound, Ranges
  <2> QED
    BY <2>1, <2>2
<1>12. path \o ranges \o one \in Seq(Ranges) /\ path \o ranges \o one # <<>> /\ path \o ranges \in Seq(Ranges)
  <2>1. Len(one) = 1
    OBVIOUS
  <2> HIDE DEF one
  <2>2. path \o ranges \o one \in Seq(Ranges) /\ path \o ranges \in Seq(Ranges)
    BY <1>1, <1>9, <1>11
  <2>3. Len(path \o ranges \o one) = Len(path) + Len(ranges) + 1
    <3> DEFINE both == path \o ranges
    <3>1. both \in Seq(Ranges) /\ Len(both) = Len(path) + Len(ranges)
      BY <1>1, <1>9
    <3> HIDE DEF both
    <3>2. Len(both \o one) = Len(both) + Len(one)
      BY <1>11, <3>1
    <3> QED
      BY <2>1, <3>1, <3>2 DEF both
  <2>4. Len(path \o ranges \o one) # 0
    BY <1>1, <1>9, <2>3
  <2> QED
    BY <2>2, <2>4
<1>13. /\ Start \in Nat /\ a.offset \in Nat /\ a.width \in Int
  BY <1>6, TakingBounds DEF a, element
<1>14. ASSUME Descend
       PROVE  Reaches(Whole, path \o ranges \o one, Start + a.offset + low, Layout[h - 1][u])
  <2>1. Reaches(Whole, path, Start, ArrayLayout(rs, element)) /\ Accesses(rs, dims, ranges)
    BY <1>1, <1>9, <1>14
  <2>2. Reaches(ArrayLayout(rs, element), ranges, a.offset, element)
    <3>1. Len(dims) = Len(rs) /\ Indices(ranges)
      BY <1>6, <1>8, <1>9 DEF Indices
    <3> HIDE DEF n, unit
    <3>2. Reaches(ArrayLayout(rs, element), ranges, TraverseDimensions(dims, ranges, element.size, FALSE).offset, element)
      BY <1>1, <1>7, <2>1, <3>1, EnterReaches
    <3>3. a = TraverseDimensions(dims, ranges, element.size, FALSE)
      BY <1>8, <1>10
    <3> QED
      BY <3>2, <3>3
  <2>3. Reaches(element, one, low, Layout[h - 1][u])
    <3> SUFFICES ASSUME NEW q \in Seq(Ranges)
                 PROVE  Selected(element, one \o q) = Shift(low, Selected(Layout[h - 1][u], q))
      BY DEF Reaches
    <3> QED
      BY <1>2, MemberSelect DEF element
  <2>4. Layout[h - 1][u] \in LayoutType
    BY <1>3, LayoutTyped
  <2> HIDE DEF one, low, u
  <2>5. Reaches(Whole, path \o ranges, Start + a.offset, element)
    BY <1>1, <1>7, <1>9, <1>13, <2>1, <2>2, Further
  <2>6. Start + a.offset \in Nat
    BY <1>13
  <2> QED
    BY <1>4, <1>11, <1>12, <2>3, <2>4, <2>5, <2>6, Further
<1>15. v.right \in Nat /\ v.right >= node.right /\ v.right - node.right = low
  <2> HIDE DEF low, v
  <2> QED
    BY <1>2, <1>4
<1>16. element.size \in Nat
  BY <1>7 DEF LayoutType
<1>17. (v.right - node.right) + Layout[h - 1][u].size <= a.width
  <2> HIDE DEF low, v, u, unit
  <2> QED
    BY <1>4, <1>9, <1>10, <1>13, <1>15, <1>16
<1>18. Descend => Reaches(Whole, path \o ranges \o one, Start + a.offset + (v.right - node.right), Layout[h - 1][u])
  BY <1>14, <1>15
<1> QED
  BY <1>2, <1>3, <1>4, <1>6, <1>12, <1>15, <1>17, <1>18 DEF element, a

\* What the last access selects.
LEMMA Finished ==
    ASSUME NEW h \in Nat, NEW t \in Declarations[h], NEW rs, Here(h, t, rs), Descend,
           NEW last \in BOOLEAN, NEW ranges, NEW variable \in BOOLEAN,
           Takes(rs, ElementLayout(Layout[h - 1], t), ranges, last, variable),
           variable => Indices(ranges)
    PROVE  Selected(Whole, path \o ranges)
           = Start + Taking(ranges, variable).offset
             .. Start + Taking(ranges, variable).offset + Taking(ranges, variable).width - 1
PROOF
<1> DEFINE element == ElementLayout(Layout[h - 1], t)
           dims == Accessed(Len(ranges))
           unit == UnitOf(rs, element, dims)
           a == Taking(ranges, variable)
           layout == ArrayLayout(rs, element)
<1>1. /\ rs \in Seq(Ranges) /\ Holds(node, h, t) /\ Reaches(Whole, path, Start, layout)
  BY DEF Here
<1>2. element \in LayoutType /\ Full(element)
  BY <1>1, Element, ElementsFull DEF Holds
<1>3. /\ Len(dims) = Len(ranges) /\ Good(rs, element, dims, ranges, last, variable, Descend)
      /\ a = TraverseDimensions(dims, ranges, unit, variable)
  BY DEF Takes
<1>4. Start \in Nat /\ a.offset \in Nat /\ a.width \in Int
  BY TakingBounds
<1> HIDE DEF element, dims, a
<1>5. ranges \in Seq(Ranges) /\ Accesses(rs, dims, ranges)
  BY <1>3 DEF Good
<1>6. Selected(layout, ranges) = a.offset .. a.offset + a.width - 1
  <2>1. \A k \in 1 .. Len(dims) : variable => ranges[k].left = ranges[k].right
    BY <1>3 DEF Indices
  <2>2. LET t2 == TraverseDimensions(dims, ranges, UnitOf(rs, element, dims), variable)
        IN  Selected(ArrayLayout(rs, element), ranges) = t2.offset .. t2.offset + t2.width - 1
    BY <1>1, <1>2, <1>5, <2>1, FinishSelects
  <2> QED
    BY <1>3, <2>2
<1>7. Selected(Whole, path \o ranges) = Shift(Start, Selected(layout, ranges))
  <2>1. Selected(Whole, path \o ranges) = Shift(Start, Selected(layout, ranges))
    BY <1>1, <1>5 DEF Reaches
  <2> QED
    BY <2>1
<1> HIDE DEF layout
<1>8. Shift(Start, a.offset .. a.offset + a.width - 1) = Start + a.offset .. Start + (a.offset + a.width - 1)
  <2>1. a.offset + a.width - 1 \in Int
    BY <1>4
  <2> QED
    BY <1>4, <2>1, ShiftRun
<1>9. Start + (a.offset + a.width - 1) = Start + a.offset + a.width - 1
  BY <1>4
<1> QED
  BY <1>6, <1>7, <1>8, <1>9 DEF a

------------------------------------------------------------------------------
(***************************************************************************)
(* The invariant                                                           *)
(***************************************************************************)
LEMMA SomewhereHere ==
    ASSUME IInv, pc = "select"
    PROVE  \E h \in Nat : \E t \in Declarations[h] : \E rs \in Seq(Ranges) : Here(h, t, rs)
PROOF
<1>1. CASE path = <<>>
  <2>1. Height \in Nat /\ type \in Declarations[Height] /\ arrays \in Seq(Ranges)
    BY TypesAssumption, ArraysAssumption DEF IInv
  <2>2. Here(Height, type, arrays)
    BY <1>1, WireHere
  <2> QED
    BY <2>1, <2>2
<1>2. CASE path # <<>>
  <2>1. PICK h \in Nat : \E t \in Declarations[h] : MemberReached(h, t)
    BY <1>2 DEF IInv
  <2>2. PICK t \in Declarations[h] : MemberReached(h, t)
    BY <2>1
  <2>3. Here(h, t, t.ranges)
    BY <1>2, <2>2, MemberHere
  <2>4. t.ranges \in Seq(Ranges)
    BY DeclarationFacts
  <2> QED
    BY <2>3, <2>4
<1> QED
  BY <1>1, <1>2

\* Placing the members starts the select at the wire.
LEMMA SimplifyStep ==
    ASSUME IInv, SimplifyStruct
    PROVE  IInv'
PROOF
<1> DEFINE q == Simplify[Height][type]
<1>1. /\ pc = "declared" /\ type' = type /\ arrays' = arrays /\ previous' = previous /\ bits' = bits
      /\ path' = path /\ indirect' = indirect
      /\ q.ok => pc' = "select" /\ wire' = WireOf(q) /\ node' = wire'
      /\ ~q.ok => pc' = "error" /\ wire' = wire
  BY DEF SimplifyStruct
<1>2. /\ type \in Types /\ arrays \in Arrays /\ path \in Seq(Ranges)
      /\ wire = NoNode /\ path = <<>> /\ previous = 0 /\ bits = Bound(0, 0) /\ ~indirect
      /\ bits.right \in Nat /\ bits.left \in Int
  BY <1>1 DEF IInv
<1>3. q.ok <=> Uniform[Height][type]
  <2>1. type \in Declarations[Height] /\ Height \in Nat
    BY <1>2, TypesAssumption
  <2> QED
    BY <2>1, Simplifying DEF SimplifiedRight
<1>4. q.ok => wire' = WireOf(Simplify[Height][type])'
  <2>1. q.ok => wire' = WireOf(Simplify[Height][type])'
    BY <1>1, Zenon DEF WireOf, WireDimensions
  <2> QED
    BY <2>1
<1>5. SelectIsMember'
  BY <1>1 DEF SelectIsMember
<1>6. CASE q.ok
  <2>1. pc' = "select" /\ node' = wire' /\ wire' = WireOf(Simplify[Height][type])' /\ Uniform[Height][type']
    BY <1>1, <1>3, <1>4, <1>6
  <2> HIDE DEF q
  <2> QED
    BY <1>1, <1>2, <1>5, <2>1 DEF IInv
<1>7. CASE ~q.ok
  <2>1. pc' = "error" /\ wire' = NoNode
    BY <1>1, <1>2, <1>7
  <2>2. NoNode' = NoNode
    BY DEF NoNode
  <2> HIDE DEF q
  <2> QED
    BY <1>1, <1>2, <1>5, <2>1, <2>2 DEF IInv
<1> QED
  BY <1>6, <1>7

\* An access that names a member leads to that member.
LEMMA EnterStep ==
    ASSUME IInv, Enter
    PROVE  IInv' /\ bits'.right >= bits.right /\ bits'.left <= Top
PROOF
<1>1. PICK ranges \in Legal(Declared, FALSE), m \in DOMAIN node.members :
         /\ Access(ranges, FALSE)
         /\ node' = node.members[m]
         /\ path' = path \o ranges \o <<Bound(m, m)>>
  BY DEF Enter
<1>2. pc = "select" /\ node.kind # "item" /\ pc' = pc /\ indirect' = indirect
  BY DEF Enter
<1>3. PICK h \in Nat : \E t \in Declarations[h] : \E rs \in Seq(Ranges) : Here(h, t, rs)
  BY <1>2, SomewhereHere
<1>4. PICK t \in Declarations[h] : \E rs \in Seq(Ranges) : Here(h, t, rs)
  BY <1>3
<1>5. PICK rs \in Seq(Ranges) : Here(h, t, rs)
  BY <1>4
<1> DEFINE a == Taking(ranges, FALSE)
           u == t.members[m]
           v == node.members[m]
           p == path \o ranges \o <<Bound(m, m)>>
           size == Layout[h - 1][u].size
<1>6. /\ p \in Seq(Ranges) /\ p # <<>> /\ h - 1 \in Nat /\ u \in Declarations[h - 1]
      /\ Takes(rs, ElementLayout(Layout[h - 1], t), ranges, FALSE, FALSE)
      /\ Member(v, h - 1, u) /\ node.right \in Nat /\ v.right \in Nat /\ v.right >= node.right
      /\ size \in Nat \ {0} /\ (v.right - node.right) + size <= a.width
      /\ Descend => Reaches(Whole, p, Start + a.offset + (v.right - node.right), Layout[h - 1][u])
  BY <1>2, <1>5, Entered
<1>7. /\ a.offset \in Nat /\ a.width \in Int /\ Start \in Nat /\ Start >= bits.right
      /\ Start + a.offset + a.width - 1 <= Top
  BY <1>5, <1>6, TakingBounds
<1>8. /\ bits'.right = bits.right + a.offset + (node.right - previous)
      /\ bits'.left = bits.right + a.offset + (node.right - previous) + a.width - 1
      /\ previous' = node.right /\ type' = type /\ arrays' = arrays /\ wire' = wire
  BY <1>1, AccessIs
<1>9. previous \in Nat /\ bits.right \in Nat /\ Top \in Int /\ Top <= wire.left
  BY <1>5 DEF Here
<1>10. wire.left \in Int /\ wire = WireOf(Simplify[Height][type]) /\ Uniform[Height][type] /\ ~indirect
       /\ type \in Types /\ arrays \in Arrays
  <2>1. wire = WireOf(Simplify[Height][type]) /\ Uniform[Height][type] /\ ~indirect
        /\ type \in Types /\ arrays \in Arrays
    BY <1>2 DEF IInv
  <2>2. CASE path = <<>>
    <3>1. wire.left = Top
      BY <2>2 DEF Top
    <3> QED
      BY <1>9, <2>1, <3>1
  <2>3. CASE path # <<>>
    <3>1. wire.left \in Int
      BY <1>2, <2>3 DEF IInv
    <3> QED
      BY <2>1, <3>1
  <2> QED
    BY <2>2, <2>3
<1> HIDE DEF a, size
<1>11. bits'.right = Start + a.offset /\ bits'.left = Start + a.offset + a.width - 1
  <2>1. Start = bits.right + (node.right - previous)
    BY DEF Start
  <2>2. \A r, o, x, w \in Int : r + o + x = (r + x) + o /\ r + o + x + w - 1 = (r + x) + o + w - 1
    OBVIOUS
  <2>3. bits.right \in Int /\ a.offset \in Int /\ node.right - previous \in Int /\ a.width \in Int
    <3>1. node.right \in Nat
      BY <1>6
    <3>2. a.offset \in Nat /\ a.width \in Int
      BY <1>7
    <3>3. previous \in Nat /\ bits.right \in Nat
      BY <1>9
    <3> QED
      BY <3>1, <3>2, <3>3
  <2> DEFINE x == node.right - previous
             o == a.offset
             w == a.width
             r == bits.right
  <2>4. bits'.right = r + o + x /\ bits'.left = r + o + x + w - 1 /\ Start = r + x
        /\ r \in Int /\ o \in Int /\ x \in Int /\ w \in Int
    BY <1>8, <2>1, <2>3
  <2> HIDE DEF x, o, w, r
  <2>5. bits'.right = Start + o /\ bits'.left = Start + o + w - 1
    BY <2>2, <2>4
  <2> QED
    BY <2>5 DEF o, w
<1>12. /\ bits'.right \in Nat /\ bits'.left \in Int /\ bits'.right >= bits.right
       /\ bits'.left <= Top /\ bits'.left <= wire'.left /\ wire'.left \in Int
  <2> DEFINE o == a.offset
             w == a.width
             b == bits'.right
             c == bits'.left
             top == wire.left
             r == bits.right
  <2>1. b = Start + o /\ c = Start + o + w - 1 /\ wire'.left = top
    BY <1>8, <1>11
  <2>2. /\ o \in Nat /\ w \in Int /\ Start \in Nat /\ Start >= r /\ Start + o + w - 1 <= Top
        /\ r \in Nat /\ Top \in Int /\ Top <= top /\ top \in Int
    BY <1>7, <1>9, <1>10
  <2> HIDE DEF o, w, b, c, top, r
  <2>3. b \in Nat /\ c \in Int /\ b >= r /\ c <= Top /\ c <= top
    <3>1. b \in Nat /\ b >= r
      BY <2>1, <2>2
    <3>2. c \in Int /\ c <= Top
      BY <2>1, <2>2
    <3> QED
      BY <2>2, <3>1, <3>2
  <2> QED
    BY <2>1, <2>2, <2>3 DEF b, c, top, r
<1>13. Start' = Start + a.offset + (v.right - node.right)
  <2>1. Start' = bits'.right + (node'.right - previous')
    BY DEF Start
  <2>2. node' = v
    BY <1>1
  <2> HIDE DEF v
  <2> QED
    BY <1>8, <1>11, <2>1, <2>2
<1>14. MemberReached(h - 1, u)'
  <2>1. Member(node, h - 1, u)'
    BY <1>1, <1>6 DEF Member
  <2>2. previous' <= node'.right
    <3>1. node' = v
      BY <1>1
    <3>2. previous' = node.right
      BY <1>8
    <3>3. v.right \in Nat /\ node.right \in Nat /\ v.right >= node.right
      BY <1>6
    <3> HIDE DEF v
    <3> QED
      BY <3>1, <3>2, <3>3
  <2>3. Start' + size - 1 <= bits'.left
    <3> DEFINE x == v.right - node.right
               o == a.offset
               w == a.width
    <3>1. x \in Int /\ o \in Int /\ w \in Int /\ Start \in Int /\ size \in Int /\ x + size <= w
      <4>1. size \in Int /\ v.right \in Int /\ node.right \in Int /\ x + size <= w
        BY <1>6
      <4>2. o \in Int /\ w \in Int /\ Start \in Int
        BY <1>7
      <4> QED
        BY <4>1, <4>2
    <3>2. Start' = Start + o + x /\ bits'.left = Start + o + w - 1
      BY <1>11, <1>13
    <3> HIDE DEF x, o, w, size
    <3> QED
      BY <3>1, <3>2
  <2>4. Descend' => Reaches(Whole', path', Start', Layout[h - 1][u])
    <3>1. Descend' = Descend /\ Whole' = Whole
      BY <1>8 DEF Descend, Whole
    <3>2. path' = p
      BY <1>1
    <3> HIDE DEF p, v, u
    <3> QED
      BY <1>6, <1>13, <3>1, <3>2
  <2> QED
    BY <2>1, <2>2, <2>3, <2>4 DEF MemberReached, size, Reaches, Selected
<1>15. SelectIsMember'
  BY <1>2 DEF SelectIsMember
<1>16. wire' = WireOf(Simplify[Height][type])'
  <2>1. wire' = wire /\ type' = type /\ arrays' = arrays
    BY <1>8
  <2> QED
    BY <1>10, <2>1 DEF WireOf, WireDimensions
<1>17. \E k \in Nat : \E w \in Declarations[k] : MemberReached(k, w)'
  <2> HIDE DEF u
  <2> QED
    BY <1>6, <1>14
<1>18. path' \in Seq(Ranges) /\ path' # <<>>
  BY <1>1, <1>6
<1> HIDE DEF u, v, p
<1>19. IInv'
  <2>1. type' \in Types /\ arrays' \in Arrays /\ Uniform[Height][type'] /\ previous' \in Nat /\ ~indirect'
    BY <1>2, <1>6, <1>8, <1>10
  <2> QED
    BY <1>2, <1>12, <1>15, <1>16, <1>17, <1>18, <2>1 DEF IInv
<1> QED
  BY <1>12, <1>19

\* The last access selects what is declared.
LEMMA FinishStep ==
    ASSUME IInv, Finish
    PROVE  IInv' /\ bits'.right >= bits.right /\ bits'.left <= Top
PROOF
<1>0. PICK n \in 0 .. Len(Declared), variable \in BOOLEAN :
      \E ranges \in Legal(SubSeq(Declared, 1, n), TRUE) :
         /\ n < 2 => ~variable
         /\ Access(ranges, variable)
         /\ path' = path \o ranges
         /\ indirect' = (variable /\ ranges[n].left # ranges[n].right)
  BY DEF Finish
<1>1. PICK ranges \in Legal(SubSeq(Declared, 1, n), TRUE) :
         /\ Access(ranges, variable)
         /\ path' = path \o ranges
         /\ indirect' = (variable /\ ranges[n].left # ranges[n].right)
  BY <1>0
<1>2. pc = "select" /\ path # <<>> /\ pc' = "done" /\ node' = node
  BY DEF Finish
<1>3. PICK h \in Nat : \E t \in Declarations[h] : \E rs \in Seq(Ranges) : Here(h, t, rs)
  BY <1>2, SomewhereHere
<1>4. PICK t \in Declarations[h] : \E rs \in Seq(Ranges) : Here(h, t, rs)
  BY <1>3
<1>5. PICK rs \in Seq(Ranges) : Here(h, t, rs)
  BY <1>4
<1> DEFINE a == Taking(ranges, variable)
<1>6. n \in 0 .. Len(rs)
  <2>1. Declared = Dimensions(rs)
    BY <1>5 DEF Here
  <2>2. Len(Declared) = Len(rs)
    BY <2>1, DimensionsType
  <2> QED
    BY <2>2
<1>7. Takes(rs, ElementLayout(Layout[h - 1], t), ranges, TRUE, variable) /\ Len(ranges) = n
  <2>1. ranges \in Legal(SubSeq(Declared, 1, n), TRUE) /\ variable \in BOOLEAN /\ TRUE \in BOOLEAN
    OBVIOUS
  <2> HIDE DEF a
  <2> QED
    <3>1. \A x \in BOOLEAN, y \in BOOLEAN : \A s \in Legal(SubSeq(Declared, 1, n), x) :
             Takes(rs, ElementLayout(Layout[h - 1], t), s, x, y) /\ Len(s) = n
      BY <1>5, <1>6, AccessTakes
    <3> QED
      BY <2>1, <3>1
<1>8. ranges \in Seq(Ranges) /\ \A k \in 1 .. Len(ranges) : k # Len(ranges) => ranges[k].left = ranges[k].right
  <2>1. Good(rs, ElementLayout(Layout[h - 1], t), Accessed(Len(ranges)), ranges, TRUE, variable, Descend)
        /\ Len(Accessed(Len(ranges))) = Len(ranges)
    BY <1>7 DEF Takes
  <2> QED
    BY <2>1 DEF Good
<1>9. /\ a.offset \in Nat /\ a.width \in Int /\ Start \in Nat /\ Start >= bits.right
      /\ Start + a.offset + a.width - 1 <= Top
      /\ ~variable \/ (\A k \in 1 .. Len(ranges) : ranges[k].left = ranges[k].right) => a.width >= 1
  BY <1>5, <1>7, TakingBounds
<1>10. /\ bits'.right = bits.right + a.offset + (node.right - previous)
       /\ bits'.left = bits.right + a.offset + (node.right - previous) + a.width - 1
       /\ previous' = node.right /\ type' = type /\ arrays' = arrays /\ wire' = wire
  BY <1>1, AccessIs
<1>11. /\ previous \in Nat /\ bits.right \in Nat /\ Top \in Int /\ Top <= wire.left /\ path \in Seq(Ranges)
       /\ node.right \in Nat
  BY <1>5 DEF Here, Holds
<1>12. type \in Types /\ arrays \in Arrays
  BY DEF IInv
<1>13. indirect' \in BOOLEAN /\ (~indirect' /\ variable => \A k \in 1 .. Len(ranges) : ranges[k].left = ranges[k].right)
  <2>1. ~indirect' /\ variable => ranges[n].left = ranges[n].right
    BY <1>1
  <2>2. indirect' \in BOOLEAN
    BY <1>1
  <2> QED
    BY <1>7, <1>8, <2>1, <2>2
<1> HIDE DEF a
<1>14. bits'.right = Start + a.offset /\ bits'.left = Start + a.offset + a.width - 1
  <2>1. Start = bits.right + (node.right - previous)
    BY DEF Start
  <2>2. \A r, o, x, w \in Int : r + o + x = (r + x) + o /\ r + o + x + w - 1 = (r + x) + o + w - 1
    OBVIOUS
  <2>3. bits.right \in Int /\ a.offset \in Int /\ node.right - previous \in Int /\ a.width \in Int
    <3>1. a.offset \in Int /\ a.width \in Int
      BY <1>9, <1>11
    <3>2. bits.right \in Int /\ node.right \in Int /\ previous \in Int
      BY <1>9, <1>11
    <3> QED
      BY <3>1, <3>2
  <2> DEFINE x == node.right - previous
             o == a.offset
             w == a.width
             r == bits.right
  <2>4. bits'.right = r + o + x /\ bits'.left = r + o + x + w - 1 /\ Start = r + x
        /\ r \in Int /\ o \in Int /\ x \in Int /\ w \in Int
    BY <1>10, <2>1, <2>3
  <2> HIDE DEF x, o, w, r
  <2>5. bits'.right = Start + o /\ bits'.left = Start + o + w - 1
    BY <2>2, <2>4
  <2> QED
    BY <2>5 DEF o, w
<1>15. wire.left \in Int
  BY <1>2 DEF IInv
<1>16. /\ bits'.right \in Nat /\ bits'.left \in Int /\ bits'.right >= bits.right
       /\ bits'.left <= Top /\ bits'.left <= wire'.left
  <2> DEFINE o == a.offset
             w == a.width
             b == bits'.right
             c == bits'.left
             top == wire.left
             r == bits.right
  <2>1. b = Start + o /\ c = Start + o + w - 1 /\ wire'.left = top
    BY <1>10, <1>14
  <2>2. /\ o \in Nat /\ w \in Int /\ Start \in Nat /\ Start >= r /\ Start + o + w - 1 <= Top
        /\ r \in Nat /\ Top \in Int /\ Top <= top /\ top \in Int
    BY <1>9, <1>11, <1>15
  <2> HIDE DEF o, w, b, c, top, r
  <2>3. b \in Nat /\ c \in Int /\ b >= r /\ c <= Top /\ c <= top
    <3>1. b \in Nat /\ b >= r
      BY <2>1, <2>2
    <3>2. c \in Int /\ c <= Top
      BY <2>1, <2>2
    <3> QED
      BY <2>2, <3>1, <3>2
  <2> QED
    BY <2>1, <2>2, <2>3 DEF b, c, top, r
<1>17. ~indirect' => bits'.right <= bits'.left
  <2>1. ~indirect' => a.width >= 1
    BY <1>9, <1>13
  <2> QED
    BY <1>9, <1>14, <2>1
<1>18. path' \in Seq(Ranges) /\ path' # <<>>
  <2>1. Len(path) # 0 /\ Len(path) \in Nat
    BY <1>2, <1>11
  <2>2. Len(path \o ranges) = Len(path) + Len(ranges) /\ Len(ranges) \in Nat /\ path \o ranges \in Seq(Ranges)
    BY <1>8, <1>11
  <2>3. Len(path \o ranges) # 0
    BY <2>1, <2>2
  <2> QED
    BY <1>1, <2>2, <2>3
<1>19. SelectIsMember'
  <2>1. Descend' = Descend /\ Whole' = Whole
    BY <1>10 DEF Descend, Whole
  <2>2. ASSUME Descend', ~indirect'
        PROVE  bits'.right .. bits'.left = Selected(Whole', path')
    <3>1. Descend /\ (variable => Indices(ranges))
      BY <1>13, <2>1, <2>2 DEF Indices
    <3>2. Selected(Whole, path \o ranges) = Start + a.offset .. Start + a.offset + a.width - 1
      <4>1. \A x \in BOOLEAN, y \in BOOLEAN : \A s :
               Takes(rs, ElementLayout(Layout[h - 1], t), s, x, y) /\ (y => Indices(s))
               => Selected(Whole, path \o s)
                  = Start + Taking(s, y).offset .. Start + Taking(s, y).offset + Taking(s, y).width - 1
        BY <1>5, <3>1, Finished
      <4> QED
        BY <1>7, <3>1, <4>1 DEF a
    <3> QED
      BY <1>1, <1>14, <2>1, <3>2
  <2>3. DeclaredBits' = Selected(Whole', path')
    BY DEF DeclaredBits, Whole
  <2> QED
    BY <2>2, <2>3 DEF SelectIsMember, Descend
<1>20. IInv'
  <2>1. type' \in Types /\ arrays' \in Arrays /\ previous' \in Nat
    BY <1>10, <1>11, <1>12
  <2> QED
    BY <1>2, <1>16, <1>17, <1>18, <1>19, <2>1 DEF IInv
<1> QED
  BY <1>16, <1>20

LEMMA Stutters ==
    ASSUME IInv, UNCHANGED vars
    PROVE  IInv'
PROOF
<1>1. /\ type' = type /\ arrays' = arrays /\ pc' = pc /\ wire' = wire /\ node' = node
      /\ previous' = previous /\ bits' = bits /\ path' = path /\ indirect' = indirect
  BY DEF vars
<1>2. \A h, t : MemberReached(h, t) => MemberReached(h, t)'
  <2> TAKE h, t
  <2>1. Member(node, h, t)' <=> Member(node, h, t)
    BY <1>1 DEF Member
  <2>2. Start' = Start /\ bits'.left = bits.left
    BY <1>1 DEF Start
  <2>3. Descend' <=> Descend
    BY <1>1 DEF Descend
  <2>4. Whole' = Whole
    BY <1>1 DEF Whole
  <2>5. Reaches(Whole, path, Start, Layout[h][t])' <=> Reaches(Whole, path, Start, Layout[h][t])
    BY <1>1, <2>2, <2>4, Zenon DEF Reaches, Selected
  <2> QED
    BY <1>1, <2>1, <2>2, <2>3, <2>5, Zenon DEF MemberReached
<1>3. SelectIsMember'
  BY <1>1 DEF IInv, SelectIsMember, DeclaredBits
<1>4. wire' = WireOf(Simplify[Height][type])' <=> wire = WireOf(Simplify[Height][type])
  BY <1>1 DEF WireOf, WireDimensions
<1>5. Uniform[Height][type'] <=> Uniform[Height][type]
  BY <1>1
<1> QED
  BY <1>1, <1>2, <1>3, <1>4, <1>5 DEF IInv

\* The invariant: a select is always where the layout says, on the way to a member.
LEMMA Inductive == Spec => []IInv
PROOF
<1>1. Init => IInv
  <2> SUFFICES ASSUME Init
               PROVE  IInv
    OBVIOUS
  <2>1. <<>> \in Seq(Ranges) /\ Bound(0, 0).right = 0 /\ Bound(0, 0).left = 0
    BY DEF Bound
  <2> QED
    BY <2>1 DEF Init, IInv, SelectIsMember
<1>2. IInv /\ [Next]_vars => IInv'
  BY SimplifyStep, EnterStep, FinishStep, Stutters DEF Next
<1> QED
  BY <1>1, <1>2, PTL DEF Spec

\* Positions and offsets, unsigned in convert_dot, are numbers of bits, and what
\* has been selected is never outside the wire nor empty.
THEOREM TypeCorrect == Spec => []TypeOK
PROOF
<1>1. IInv => TypeOK
  <2> SUFFICES ASSUME IInv
               PROVE  TypeOK
    OBVIOUS
  <2>1. ASSUME path # <<>>, ~indirect
        PROVE  bits.right <= bits.left /\ bits.left <= wire.left
    <3>1. CASE pc = "select"
      <4>1. PICK h \in Nat : \E t \in Declarations[h] : MemberReached(h, t)
        BY <2>1, <3>1 DEF IInv
      <4>2. PICK t \in Declarations[h] : MemberReached(h, t)
        BY <4>1
      <4>3. Here(h, t, t.ranges)
        BY <2>1, <3>1, <4>2, MemberHere
      <4>4. Layout[h][t].size \in Nat \ {0}
        BY LayoutTyped DEF LayoutType
      <4>5. previous <= node.right /\ Start + Layout[h][t].size - 1 <= bits.left
        BY <4>2 DEF MemberReached
      <4>6. previous \in Nat /\ bits.right \in Nat /\ node.right \in Nat
        BY <4>3 DEF Here, Holds
      <4>7. bits.left <= wire.left /\ bits.left \in Int
        BY <2>1, <3>1 DEF IInv
      <4> DEFINE size == Layout[h][t].size
      <4> HIDE DEF size
      <4> QED
        BY <4>4, <4>5, <4>6, <4>7 DEF Start, size
    <3>2. CASE pc = "done"
      BY <2>1, <3>2 DEF IInv
    <3>3. CASE pc \in {"declared", "error"}
      BY <2>1, <3>3 DEF IInv
    <3> QED
      BY <3>1, <3>2, <3>3 DEF IInv
  <2> QED
    BY <2>1 DEF IInv, TypeOK
<1> QED
  BY <1>1, Inductive, PTL

\* A select with dots, converted by convert_dot access by access, is the bits
\* SystemVerilog lays the named member out at: for all types of any height, all
\* ranges of any direction in them and all selects, unless the wire's own
\* dimensions ascend or a slice follows a variable index.
THEOREM SelectsMember == Spec => []SelectIsMember
PROOF
<1>1. IInv => SelectIsMember
  BY DEF IInv
<1> QED
  BY <1>1, Inductive, PTL

\* Each further access of convert_dot only narrows what is selected: it never
\* reaches outside the element or member named before it.
THEOREM AccessesStayInside == Spec => AccessesNarrow
PROOF
<1>1. IInv /\ [Next]_vars
      => [path # <<>> => bits'.right .. bits'.left \subseteq bits.right .. bits.left]_vars
  <2> SUFFICES ASSUME IInv, Next, path # <<>>
               PROVE  bits'.right .. bits'.left \subseteq bits.right .. bits.left
    OBVIOUS
  <2>1. bits.right \in Nat /\ bits.left \in Int
    BY DEF IInv
  <2>2. Top = bits.left
    BY DEF Top
  <2>3. CASE SimplifyStruct
    BY <2>3 DEF SimplifyStruct
  <2>4. CASE Enter \/ Finish
    <3>1. IInv' /\ bits'.right >= bits.right /\ bits'.left <= bits.left
      BY <2>2, <2>4, EnterStep, FinishStep
    <3>2. bits'.right \in Nat /\ bits'.left \in Int
      BY <3>1 DEF IInv
    <3> QED
      BY <2>1, <3>1, <3>2
  <2> QED
    BY <2>3, <2>4 DEF Next
<1> QED
  BY <1>1, Inductive, PTL DEF Spec, AccessesNarrow
=============================================================================
