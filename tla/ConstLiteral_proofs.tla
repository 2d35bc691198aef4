------------------------- MODULE ConstLiteral_proofs -------------------------
(***************************************************************************)
(* That the bits of a constant are those of its number.  The halving of a  *)
(* decimal, the bits of a digit and the bits of an integer are sums of     *)
(* powers of two; what is recursive in them is proved over the prefixes,   *)
(* by induction (Induct) on their length.                                  *)
(***************************************************************************)
EXTENDS ConstLiteral, SequenceTheorems, WellFoundedInduction, TLAPS

Figures == 0 .. 9
Bits == {"0", "1"}

------------------------------------------------------------------------------
(***************************************************************************)
(* Induction and recursion                                                 *)
(***************************************************************************)
\* A set of naturals has a least element.
LEMMA Least ==
    ASSUME NEW T \in SUBSET Nat, T # {}
    PROVE  \E n \in T : \A m \in T : n <= m
PROOF
<1>1. PICK n \in T : \A m \in T : <<m, n>> \notin OpToRel(<, Nat)
  <2> DEFINE R == OpToRel(<, Nat)
  <2>1. IsWellFoundedOn(R, Nat)
    BY NatLessThanWellFounded
  <2> HIDE DEF R
  <2>2. \E n \in T : \A m \in T : ~(<<m, n>> \in R)
    BY <2>1, WFMin
  <2> QED
    BY <2>2 DEF R
<1>2. \A m \in T : ~(m < n)
  BY <1>1 DEF OpToRel
<1>3. \A m \in T : m \in Nat /\ n \in Nat
  OBVIOUS
<1> QED
  BY <1>2, <1>3

\* Induction: what holds of 0 and of the next number holds of all.
LEMMA Induct ==
    ASSUME NEW T, 0 \in T, \A k \in Nat : k \in T => k + 1 \in T
    PROVE  \A n \in Nat : n \in T
PROOF
<1> DEFINE Others == Nat \ T
<1>1. SUFFICES ASSUME Others # {} PROVE FALSE
  OBVIOUS
<1>2. PICK n \in Others : \A m \in Others : n <= m
  <2>1. Others \in SUBSET Nat
    OBVIOUS
  <2> HIDE DEF Others
  <2> QED
    BY <1>1, <2>1, Least
<1>3. n - 1 \in Nat /\ n - 1 \notin Others
  BY <1>2
<1> QED
  BY <1>2, <1>3

\* f begins with a, and has each value up to the n-th from the one before, by
\* the step g.
Begins(f, n, a, g) ==
    /\ f \in [0 .. n -> Int]
    /\ f[0] = a
    /\ \A k \in Nat : k < n => f[k + 1] = g[k + 1][f[k]]

LEMMA Begun ==
    ASSUME NEW a \in Int, NEW g \in [Nat -> [Int -> Int]]
    PROVE  \A n \in Nat : \E f : Begins(f, n, a, g)
PROOF
<1> DEFINE T == {n \in Nat : \E f : Begins(f, n, a, g)}
<1>1. 0 \in T
  <2>1. Begins([k \in 0 .. 0 |-> a], 0, a, g)
    BY DEF Begins
  <2> QED
    BY <2>1
<1>2. ASSUME NEW n \in Nat, n \in T
      PROVE  n + 1 \in T
  <2>1. PICK f : Begins(f, n, a, g)
    BY <1>2
  <2> DEFINE e == g[n + 1][f[n]]
             h == [k \in 0 .. n + 1 |-> IF k = n + 1 THEN e ELSE f[k]]
  <2>2. f[n] \in Int
    BY <2>1 DEF Begins
  <2>3. e \in Int
    BY <2>2
  <2> HIDE DEF e
  <2>4. h \in [0 .. n + 1 -> Int] /\ h[0] = a /\ h[n + 1] = e
    BY <2>1, <2>3 DEF Begins
  <2>5. \A k \in 0 .. n : h[k] = f[k]
    OBVIOUS
  <2> HIDE DEF h
  <2>6. ASSUME NEW k \in Nat, k < n + 1
        PROVE  h[k + 1] = g[k + 1][h[k]]
    <3>1. CASE k = n
      <4>1. h[n] = f[n]
        BY <2>5
      <4>2. h[n + 1] = g[n + 1][h[n]]
        BY <4>1, <2>4 DEF e
      <4> QED
        BY <3>1, <4>2
    <3>2. CASE k # n
      <4>1. k < n /\ k \in 0 .. n /\ k + 1 \in 0 .. n
        BY <3>2, <2>6
      <4> QED
        BY <4>1, <2>5, <2>1 DEF Begins
    <3> QED
      BY <3>1, <3>2
  <2>7. Begins(h, n + 1, a, g)
    BY <2>4, <2>6 DEF Begins
  <2> QED
    BY <2>7
<1> HIDE DEF T
<1>3. \A n \in Nat : n \in T
  BY <1>1, <1>2, Induct
<1> QED
  BY <1>3 DEF T

LEMMA BegunAlike ==
    ASSUME NEW a, NEW g, NEW n \in Nat, NEW m \in Nat, NEW f, NEW h,
           Begins(f, n, a, g), Begins(h, m, a, g)
    PROVE  \A k \in Nat : k <= n /\ k <= m => f[k] = h[k]
PROOF
<1> DEFINE U == {k \in Nat : k <= n /\ k <= m => f[k] = h[k]}
<1>1. 0 \in U
  BY DEF Begins
<1>2. ASSUME NEW k \in Nat, k \in U
      PROVE  k + 1 \in U
  <2>1. CASE k < n /\ k < m
    <3>1. f[k] = h[k]
      BY <1>2, <2>1
    <3>2. f[k + 1] = g[k + 1][f[k]] /\ h[k + 1] = g[k + 1][h[k]]
      BY <2>1 DEF Begins
    <3> QED
      BY <3>1, <3>2
  <2>2. CASE ~(k < n /\ k < m)
    BY <2>2
  <2> QED
    BY <2>1, <2>2
<1> HIDE DEF U
<1>3. \A k \in Nat : k \in U
  BY <1>1, <1>2, Induct
<1> QED
  BY <1>3 DEF U

\* A first value and a step define a function of all naturals.
LEMMA Recursion ==
    ASSUME NEW a \in Int, NEW g \in [Nat -> [Int -> Int]]
    PROVE  \E f \in [Nat -> Int] : /\ f[0] = a
                                   /\ \A k \in Nat : f[k + 1] = g[k + 1][f[k]]
PROOF
<1> DEFINE F(n) == CHOOSE f : Begins(f, n, a, g)
           v(n) == F(n)[n]
           f == [n \in Nat |-> v(n)]
<1>1. \A n \in Nat : Begins(F(n), n, a, g)
  BY Begun
<1> HIDE DEF F
<1>2. \A n \in Nat : v(n) \in Int
  BY <1>1 DEF Begins
<1>3. v(0) = a
  BY <1>1 DEF Begins
<1>4. ASSUME NEW k \in Nat
      PROVE  v(k + 1) = g[k + 1][v(k)]
  <2>1. Begins(F(k), k, a, g) /\ Begins(F(k + 1), k + 1, a, g)
    BY <1>1
  <2>2. F(k)[k] = F(k + 1)[k]
    BY <2>1, BegunAlike
  <2>3. F(k + 1)[k + 1] = g[k + 1][F(k + 1)[k]]
    BY <2>1 DEF Begins
  <2> QED
    BY <2>2, <2>3
<1> HIDE DEF v
<1>5. f \in [Nat -> Int] /\ f[0] = a /\ \A k \in Nat : f[k + 1] = g[k + 1][f[k]]
  BY <1>2, <1>3, <1>4
<1> QED
  BY <1>5

\* The same up to a number n.
LEMMA RecursionUpTo ==
    ASSUME NEW a \in Int, NEW g \in [Nat -> [Int -> Int]], NEW n \in Nat
    PROVE  \E f \in [0 .. n -> Int] : /\ f[0] = a
                                      /\ \A k \in 1 .. n : f[k] = g[k][f[k - 1]]
PROOF
<1>1. PICK f : Begins(f, n, a, g)
  BY Begun
<1>2. ASSUME NEW k \in 1 .. n
      PROVE  f[k] = g[k][f[k - 1]]
  <2>1. k - 1 \in Nat /\ k - 1 < n /\ (k - 1) + 1 = k
    OBVIOUS
  <2>2. f[(k - 1) + 1] = g[(k - 1) + 1][f[k - 1]]
    BY <1>1, <2>1 DEF Begins
  <2> QED
    BY <2>1, <2>2
<1> QED
  BY <1>1, <1>2 DEF Begins

------------------------------------------------------------------------------
(***************************************************************************)
(* The recursive functions of the model                                    *)
(***************************************************************************)
LEMMA Powers ==
    ASSUME NEW b \in Nat \ {0}
    PROVE  /\ Power(b, 0) = 1
           /\ \A k \in Nat : Power(b, k) \in Nat \ {0} /\ Power(b, k + 1) = b * Power(b, k)
PROOF
<1> DEFINE P(p) == p = [k \in Nat |-> IF k = 0 THEN 1 ELSE b * p[k - 1]]
           g == [k \in Nat |-> [x \in Int |-> b * x]]
           p == CHOOSE p : P(p)
<1>1. \E f : P(f)
  <2>1. g \in [Nat -> [Int -> Int]]
    OBVIOUS
  <2>2. ASSUME NEW k \in Nat, NEW x \in Int
        PROVE  g[k + 1][x] = b * x
    <3>1. g[k + 1] = [y \in Int |-> b * y]
      OBVIOUS
    <3> QED
      BY <3>1
  <2> HIDE DEF g
  <2>3. PICK f \in [Nat -> Int] : f[0] = 1 /\ \A k \in Nat : f[k + 1] = g[k + 1][f[k]]
    <3>1. 1 \in Int
      OBVIOUS
    <3> QED
      BY <2>1, <3>1, Recursion, Zenon
  <2>4. ASSUME NEW k \in Nat
        PROVE  f[k] = IF k = 0 THEN 1 ELSE b * f[k - 1]
    <3>1. CASE k = 0
      BY <3>1, <2>3
    <3>2. CASE k # 0
      <4>1. k - 1 \in Nat /\ k = (k - 1) + 1
        BY <3>2
      <4>2. f[(k - 1) + 1] = b * f[k - 1]
        BY <4>1, <2>2, <2>3
      <4> QED
        BY <3>2, <4>1, <4>2
    <3> QED
      BY <3>1, <3>2
  <2>5. f = [k \in Nat |-> IF k = 0 THEN 1 ELSE b * f[k - 1]]
    BY <2>3, <2>4
  <2> QED
    BY <2>5
<1>2. P(p)
  BY <1>1
<1>3. \A n : Power(b, n) = p[n]
  BY DEF Power
<1> HIDE DEF p
<1>4. p[0] = 1 /\ \A k \in Nat : p[k + 1] = b * p[k]
  BY <1>2
<1>5. \A k \in Nat : p[k] \in Nat \ {0}
  <2> DEFINE T == {k \in Nat : p[k] \in Nat \ {0}}
  <2>1. 0 \in T
    BY <1>4
  <2>2. ASSUME NEW k \in Nat, k \in T
        PROVE  k + 1 \in T
    <3>1. p[k + 1] = b * p[k] /\ p[k] \in Nat \ {0}
      BY <1>4, <2>2
    <3>2. b * p[k] \in Nat \ {0}
      BY <3>1
    <3> QED
      BY <3>1, <3>2
  <2> HIDE DEF T
  <2>3. \A k \in Nat : k \in T
    BY <2>1, <2>2, Induct
  <2> QED
    BY <2>3 DEF T
<1> QED
  BY <1>3, <1>4, <1>5

LEMMA PowersOfTwo ==
    /\ Power(2, 0) = 1
    /\ \A k \in Nat : Power(2, k) \in Nat \ {0} /\ Power(2, k + 1) = 2 * Power(2, k)
PROOF
<1>1. 2 \in Nat \ {0}
  OBVIOUS
<1> QED
  BY <1>1, Powers, Zenon

LEMMA PowersOfTen ==
    /\ Power(10, 0) = 1
    /\ \A k \in Nat : Power(10, k) \in Nat \ {0} /\ Power(10, k + 1) = 10 * Power(10, k)
PROOF
<1>1. 10 \in Nat \ {0}
  OBVIOUS
<1> QED
  BY <1>1, Powers, Zenon

\* Each digit multiplies the number in front of it by ten.
LEMMA NumeralsStep ==
    ASSUME NEW ds \in Seq(Nat)
    PROVE  /\ Numerals(ds) \in [0 .. Len(ds) -> Nat]
           /\ Numerals(ds)[0] = 0
           /\ \A k \in 1 .. Len(ds) : Numerals(ds)[k] = 10 * Numerals(ds)[k - 1] + ds[k]
PROOF
<1> DEFINE P(n) == n = [k \in 0 .. Len(ds) |-> IF k = 0 THEN 0 ELSE 10 * n[k - 1] + ds[k]]
           g == [k \in Nat |-> [x \in Int |-> IF k \in 1 .. Len(ds) THEN 10 * x + ds[k] ELSE 0]]
           n == CHOOSE n : P(n)
<1>1. \E f : P(f)
  <2>1. g \in [Nat -> [Int -> Int]]
    OBVIOUS
  <2>2. ASSUME NEW k \in 1 .. Len(ds), NEW x \in Int
        PROVE  g[k][x] = 10 * x + ds[k]
    <3>1. g[k] = [y \in Int |-> 10 * y + ds[k]]
      OBVIOUS
    <3> QED
      BY <3>1
  <2> HIDE DEF g
  <2>3. PICK f \in [0 .. Len(ds) -> Int] :
            f[0] = 0 /\ \A k \in 1 .. Len(ds) : f[k] = g[k][f[k - 1]]
    <3>1. 0 \in Int /\ Len(ds) \in Nat
      OBVIOUS
    <3> QED
      BY <2>1, <3>1, RecursionUpTo, Zenon
  <2>4. \A k \in 1 .. Len(ds) : f[k] = 10 * f[k - 1] + ds[k]
    <3>1. \A k \in 1 .. Len(ds) : f[k - 1] \in Int
      OBVIOUS
    <3> QED
      BY <2>2, <2>3, <3>1
  <2>5. f = [k \in 0 .. Len(ds) |-> IF k = 0 THEN 0 ELSE 10 * f[k - 1] + ds[k]]
    BY <2>3, <2>4
  <2> QED
    BY <2>5
<1>2. P(n)
  BY <1>1
<1>3. Numerals(ds) = n
  BY DEF Numerals
<1> HIDE DEF n
<1>4. n[0] = 0 /\ \A k \in 1 .. Len(ds) : n[k] = 10 * n[k - 1] + ds[k]
  BY <1>2
<1>5. \A k \in 0 .. Len(ds) : n[k] \in Nat
  <2> DEFINE T == {k \in Nat : k <= Len(ds) => n[k] \in Nat}
  <2>1. 0 \in T
    BY <1>4
  <2>2. ASSUME NEW k \in Nat, k \in T
        PROVE  k + 1 \in T
    <3>1. CASE k < Len(ds)
      <4>1. n[k + 1] = 10 * n[k] + ds[k + 1] /\ ds[k + 1] \in Nat /\ n[k] \in Nat
        BY <1>4, <2>2, <3>1
      <4> QED
        BY <4>1
    <3>2. CASE ~(k < Len(ds))
      BY <3>2
    <3> QED
      BY <3>1, <3>2
  <2> HIDE DEF T
  <2>3. \A k \in Nat : k \in T
    BY <2>1, <2>2, Induct
  <2> QED
    BY <2>3 DEF T
<1> QED
  BY <1>2, <1>3, <1>4, <1>5

\* Each bit adds its power of two.
LEMMA SumsStep ==
    ASSUME NEW bits, NEW S, bits \in Seq(S)
    PROVE  /\ Sums(bits) \in [0 .. Len(bits) -> Nat]
           /\ Sums(bits)[0] = 0
           /\ \A k \in 1 .. Len(bits) :
                Sums(bits)[k] = Sums(bits)[k - 1] + IF bits[k] = "1" THEN Power(2, k - 1) ELSE 0
PROOF
<1> DEFINE w(k) == IF bits[k] = "1" THEN Power(2, k - 1) ELSE 0
           P(v) == v = [k \in 0 .. Len(bits) |-> IF k = 0 THEN 0 ELSE v[k - 1] + w(k)]
           g == [k \in Nat |-> [x \in Int |-> IF k \in 1 .. Len(bits) THEN x + w(k) ELSE 0]]
           v == CHOOSE v : P(v)
<1>0. \A k \in 1 .. Len(bits) : w(k) \in Nat
  <2>1. \A k \in 1 .. Len(bits) : Power(2, k - 1) \in Nat
    <3>1. \A k \in 1 .. Len(bits) : k - 1 \in Nat
      OBVIOUS
    <3> QED
      BY <3>1, PowersOfTwo
  <2> QED
    BY <2>1
<1>1. Sums(bits) = v
  BY DEF Sums
<1> HIDE DEF w
<1>2. \E f : P(f)
  <2>1. g \in [Nat -> [Int -> Int]]
    BY <1>0
  <2>2. ASSUME NEW k \in 1 .. Len(bits), NEW x \in Int
        PROVE  g[k][x] = x + w(k)
    <3>1. g[k] = [y \in Int |-> y + w(k)]
      OBVIOUS
    <3> QED
      BY <3>1
  <2> HIDE DEF g
  <2>3. PICK f \in [0 .. Len(bits) -> Int] :
            f[0] = 0 /\ \A k \in 1 .. Len(bits) : f[k] = g[k][f[k - 1]]
    <3>1. 0 \in Int /\ Len(bits) \in Nat
      OBVIOUS
    <3> QED
      BY <2>1, <3>1, RecursionUpTo, Zenon
  <2>4. \A k \in 1 .. Len(bits) : f[k] = f[k - 1] + w(k)
    <3>1. \A k \in 1 .. Len(bits) : f[k - 1] \in Int
      OBVIOUS
    <3> QED
      BY <2>2, <2>3, <3>1
  <2>5. f = [k \in 0 .. Len(bits) |-> IF k = 0 THEN 0 ELSE f[k - 1] + w(k)]
    BY <2>3, <2>4
  <2> QED
    BY <2>5
<1>3. P(v)
  BY <1>2
<1> HIDE DEF v
<1>4. v[0] = 0 /\ \A k \in 1 .. Len(bits) : v[k] = v[k - 1] + w(k)
  BY <1>3
<1>5. \A k \in 0 .. Len(bits) : v[k] \in Nat
  <2> DEFINE T == {k \in Nat : k <= Len(bits) => v[k] \in Nat}
  <2>1. 0 \in T
    BY <1>4
  <2>2. ASSUME NEW k \in Nat, k \in T
        PROVE  k + 1 \in T
    <3>1. CASE k < Len(bits)
      <4>0. Len(bits) \in Nat
        OBVIOUS
      <4>1. k + 1 \in 1 .. Len(bits) /\ (k + 1) - 1 = k
        BY <3>1, <4>0
      <4>2. w(k + 1) \in Nat
        BY <1>0, <4>1
      <4>3. v[k + 1] = v[(k + 1) - 1] + w(k + 1)
        BY <1>4, <4>1
      <4>4. v[k] \in Nat
        BY <2>2, <3>1, <4>0
      <4> QED
        BY <4>1, <4>2, <4>3, <4>4
    <3>2. CASE ~(k < Len(bits))
      BY <3>2
    <3> QED
      BY <3>1, <3>2
  <2> HIDE DEF T
  <2>3. \A k \in Nat : k \in T
    BY <2>1, <2>2, Induct
  <2> QED
    BY <2>3 DEF T
<1> QED
  BY <1>1, <1>3, <1>4, <1>5 DEF w

------------------------------------------------------------------------------
(***************************************************************************)
(* Halving a decimal                                                       *)
(***************************************************************************)
LEMMA FiguresAreNumbers ==
    ASSUME NEW ds \in Seq(Figures)
    PROVE  ds \in Seq(Nat)
PROOF
<1>1. Figures \subseteq Nat
  BY DEF Figures
<1> QED
  BY <1>1, SeqMonotonic

LEMMA CarryIsEven ==
    ASSUME NEW d \in 0 .. 9
    PROVE  /\ d = 2 * (d \div 2) + (d % 2)
           /\ d + 10 = 2 * ((d + 10) \div 2) + (d % 2)
           /\ d % 2 \in {0, 1}
           /\ d \div 2 \in Nat /\ (d + 10) \div 2 \in Nat
OBVIOUS

\* The number in front of any digit is halved, and the digit's parity is what
\* is left over: ten times a carry is even.
LEMMA HalvedNumber ==
    ASSUME NEW ds \in Seq(Figures)
    PROVE  /\ Halved(ds) \in Seq(Figures)
           /\ Len(Halved(ds)) = Len(ds)
           /\ \A k \in 1 .. Len(ds) :
                Numerals(ds)[k] = 2 * Numerals(Halved(ds))[k] + (ds[k] % 2)
PROOF
<1> DEFINE h == Halved(ds)
           D == Numerals(ds)
           H == Numerals(h)
<1>1. \A k \in 1 .. Len(ds) : ds[k] \in 0 .. 9
  BY DEF Figures
<1>2. /\ DOMAIN h = 1 .. Len(ds)
      /\ \A k \in 1 .. Len(ds) :
            h[k] = (ds[k] + IF k > 1 /\ ds[k - 1] % 2 = 1 THEN 10 ELSE 0) \div 2
  BY DEF Halved
<1>3. \A k \in 1 .. Len(ds) : h[k] \in Figures
  BY <1>1, <1>2 DEF Figures
<1>4. h \in Seq(Figures) /\ Len(h) = Len(ds)
  <2>1. h = [k \in 1 .. Len(ds) |-> h[k]]
    BY <1>2 DEF Halved
  <2> HIDE DEF h
  <2>2. h \in [1 .. Len(ds) -> Figures]
    BY <1>3, <2>1
  <2>3. Len(ds) \in Nat
    OBVIOUS
  <2> QED
    BY <2>2, <2>3
<1> HIDE DEF h
<1>5. /\ D[0] = 0 /\ H[0] = 0
      /\ \A k \in 0 .. Len(ds) : D[k] \in Nat /\ H[k] \in Nat
      /\ \A k \in 1 .. Len(ds) : D[k] = 10 * D[k - 1] + ds[k] /\ H[k] = 10 * H[k - 1] + h[k]
  <2>1. ds \in Seq(Nat) /\ h \in Seq(Nat)
    BY <1>4, FiguresAreNumbers
  <2> QED
    BY <1>4, <2>1, NumeralsStep
<1> HIDE DEF D, H
<1> DEFINE T == {k \in Nat : k \in 1 .. Len(ds) => D[k] = 2 * H[k] + (ds[k] % 2)}
<1>6. 0 \in T
  OBVIOUS
<1>7. ASSUME NEW k \in Nat, k \in T
      PROVE  k + 1 \in T
  <2>1. CASE k + 1 \in 1 .. Len(ds)
    <3>1. /\ D[k + 1] = 10 * D[k] + ds[k + 1] /\ H[k + 1] = 10 * H[k] + h[k + 1]
          /\ D[k] \in Nat /\ H[k] \in Nat /\ ds[k + 1] \in 0 .. 9
      <4>1. (k + 1) - 1 = k /\ k \in 0 .. Len(ds)
        BY <2>1
      <4> QED
        BY <1>1, <1>5, <2>1, <4>1
    <3>2. CASE k = 0
      <4>1. h[1] = ds[1] \div 2
        BY <1>1, <1>2, <2>1, <3>2
      <4>2. D[1] = ds[1] /\ H[1] = h[1] /\ ds[1] \in 0 .. 9
        BY <1>5, <3>1, <3>2, <4>1
      <4>3. D[1] = 2 * H[1] + (ds[1] % 2)
        BY <4>1, <4>2, CarryIsEven
      <4> QED
        BY <3>2, <4>3
    <3>3. CASE k # 0
      <4>1. k \in 1 .. Len(ds)
        BY <2>1, <3>3
      <4>2. D[k] = 2 * H[k] + (ds[k] % 2) /\ ds[k] \in 0 .. 9
        BY <1>1, <1>7, <4>1
      <4>3. h[k + 1] = (ds[k + 1] + IF ds[k] % 2 = 1 THEN 10 ELSE 0) \div 2
        <5>1. (k + 1) - 1 = k /\ k + 1 > 1
          BY <3>3
        <5> QED
          BY <1>2, <2>1, <5>1
      <4>4. D[k + 1] = 2 * H[k + 1] + (ds[k + 1] % 2)
        <5>1. CASE ds[k] % 2 = 1
          <6>1. h[k + 1] = (ds[k + 1] + 10) \div 2
            BY <4>3, <5>1
          <6>2. D[k + 1] = 20 * H[k] + (ds[k + 1] + 10)
            <7>1. D[k] = 2 * H[k] + 1
              BY <4>2, <5>1
            <7>2. D[k + 1] = 10 * (2 * H[k] + 1) + ds[k + 1]
              BY <3>1, <7>1
            <7>3. H[k] \in Nat /\ ds[k + 1] \in Nat
              BY <3>1
            <7>4. \A a, b \in Nat : 10 * (2 * a + 1) + b = 20 * a + (b + 10)
              OBVIOUS
            <7> QED
              BY <7>2, <7>3, <7>4
          <6>3. /\ ds[k + 1] + 10 = 2 * h[k + 1] + (ds[k + 1] % 2)
                /\ h[k + 1] \in Nat /\ ds[k + 1] % 2 \in {0, 1}
            BY <3>1, <6>1, CarryIsEven
          <6> QED
            BY <3>1, <6>2, <6>3
        <5>2. CASE ds[k] % 2 # 1
          <6>1. h[k + 1] = ds[k + 1] \div 2
            BY <3>1, <4>3, <5>2
          <6>2. ds[k] % 2 = 0
            BY <4>2, <5>2, CarryIsEven
          <6>3. D[k + 1] = 20 * H[k] + ds[k + 1]
            BY <3>1, <4>2, <6>2
          <6>4. /\ ds[k + 1] = 2 * h[k + 1] + (ds[k + 1] % 2)
                /\ h[k + 1] \in Nat /\ ds[k + 1] % 2 \in {0, 1}
            BY <3>1, <6>1, CarryIsEven
          <6> QED
            BY <3>1, <6>3, <6>4
        <5> QED
          BY <5>1, <5>2
      <4> QED
        BY <4>4
    <3> QED
      BY <3>2, <3>3
  <2> QED
    BY <2>1
<1>8. \A k \in Nat : k \in T
  <2> HIDE DEF T
  <2> QED
    BY <1>6, <1>7, Induct
<1> QED
  BY <1>4, <1>8 DEF h, D, H

\* Zeros in front add nothing.
LEMMA StrippedNumber ==
    ASSUME NEW ds \in Seq(Figures)
    PROVE  /\ StripZeros(ds) \in Seq(Figures)
           /\ NumberOf(StripZeros(ds)) = NumberOf(ds)
PROOF
<1> DEFINE first == {k \in DOMAIN ds : ds[k] # 0}
           D == Numerals(ds)
<1>1. /\ D[0] = 0
      /\ \A k \in 0 .. Len(ds) : D[k] \in Nat
      /\ \A k \in 1 .. Len(ds) : D[k] = 10 * D[k - 1] + ds[k]
  BY FiguresAreNumbers, NumeralsStep
<1>2. Len(ds) \in Nat /\ DOMAIN ds = 1 .. Len(ds)
  OBVIOUS
<1>3. ASSUME NEW n \in 0 .. Len(ds), \A k \in 1 .. n : ds[k] = 0
      PROVE  \A k \in 0 .. n : D[k] = 0
  <2> DEFINE T == {k \in Nat : k <= n => D[k] = 0}
  <2> HIDE DEF D
  <2>1. 0 \in T
    BY <1>1
  <2>2. ASSUME NEW k \in Nat, k \in T
        PROVE  k + 1 \in T
    <3>1. CASE k + 1 <= n
      <4>1. k + 1 \in 1 .. Len(ds) /\ (k + 1) - 1 = k /\ ds[k + 1] = 0 /\ D[k] = 0
        BY <1>2, <1>3, <2>2, <3>1
      <4>2. D[k + 1] = 10 * D[(k + 1) - 1] + ds[k + 1]
        BY <1>1, <4>1
      <4> QED
        BY <4>1, <4>2
    <3> QED
      BY <3>1
  <2>3. \A k \in Nat : k \in T
    <3> HIDE DEF T
    <3> QED
      BY <2>1, <2>2, Induct
  <2> QED
    BY <2>3
<1>4. CASE first = {}
  <2>1. StripZeros(ds) = <<>>
    BY <1>4 DEF StripZeros
  <2>2. D[Len(ds)] = 0
    <3>1. \A k \in 1 .. Len(ds) : ds[k] = 0
      BY <1>2, <1>4
    <3> HIDE DEF D
    <3> QED
      BY <1>2, <1>3, <3>1
  <2>3. NumberOf(<<>>) = 0
    <3>1. <<>> \in Seq(Nat) /\ Len(<<>>) = 0
      BY EmptySeq
    <3>2. Numerals(<<>>)[0] = 0
      BY <3>1, NumeralsStep
    <3> QED
      BY <3>1, <3>2 DEF NumberOf
  <2>4. <<>> \in Seq(Figures)
    BY EmptySeq
  <2> QED
    BY <2>1, <2>2, <2>3, <2>4 DEF NumberOf
<1>5. CASE first # {}
  <2> DEFINE m == Min(first)
             t == SubSeq(ds, m, Len(ds))
             N == Numerals(t)
  <2>1. m \in first /\ \A k \in first : m <= k
    <3>1. first \in SUBSET Nat
      BY <1>2
    <3>2. \E n \in first : \A k \in first : n <= k
      <4> HIDE DEF first
      <4> QED
        BY <1>5, <3>1, Least
    <3> HIDE DEF first
    <3> QED
      BY <3>2 DEF Min
  <2>2. StripZeros(ds) = t
    BY <1>5 DEF StripZeros
  <2>3. m \in 1 .. Len(ds) /\ \A k \in 1 .. m - 1 : ds[k] = 0
    <3> HIDE DEF m
    <3>1. m \in 1 .. Len(ds)
      BY <1>2, <2>1
    <3>2. ASSUME NEW k \in 1 .. m - 1
          PROVE  ds[k] = 0
      <4>1. k \in DOMAIN ds /\ ~(m <= k)
        BY <1>2, <3>1
      <4> QED
        BY <2>1, <4>1
    <3> QED
      BY <3>1, <3>2
  <2> HIDE DEF m, first
  <2>4. /\ t \in Seq(Figures) /\ Len(t) = Len(ds) - m + 1
        /\ \A i \in 1 .. Len(t) : t[i] = ds[m + i - 1]
    <3>1. \A i \in m .. Len(ds) : ds[i] \in Figures
      BY <1>2, <2>3
    <3>2. m \in Int /\ Len(ds) \in Int /\ m <= Len(ds)
      BY <1>2, <2>3
    <3>3. /\ t \in Seq(Figures) /\ Len(t) = Len(ds) - m + 1
          /\ \A i \in 1 .. Len(ds) - m + 1 : t[i] = ds[m + i - 1]
      BY <3>1, <3>2, SubSeqProperties
    <3> HIDE DEF t
    <3> QED
      BY <3>3
  <2> HIDE DEF t
  <2>5. /\ N[0] = 0
        /\ \A k \in 0 .. Len(t) : N[k] \in Nat
        /\ \A k \in 1 .. Len(t) : N[k] = 10 * N[k - 1] + t[k]
    BY <2>4, FiguresAreNumbers, NumeralsStep
  <2> DEFINE T == {k \in Nat : k <= Len(t) => N[k] = D[m - 1 + k]}
  <2> HIDE DEF D, N
  <2>6. 0 \in T
    <3>1. m - 1 \in 0 .. Len(ds) /\ m - 1 \in 0 .. m - 1 /\ m - 1 + 0 = m - 1
      BY <1>2, <2>3
    <3>2. D[m - 1] = 0
      BY <1>3, <2>3, <3>1
    <3> QED
      BY <2>5, <3>1, <3>2
  <2>7. ASSUME NEW k \in Nat, k \in T
        PROVE  k + 1 \in T
    <3>1. CASE k + 1 <= Len(t)
      <4>1. /\ k + 1 \in 1 .. Len(t) /\ (k + 1) - 1 = k
            /\ m - 1 + (k + 1) \in 1 .. Len(ds) /\ (m - 1 + (k + 1)) - 1 = m - 1 + k
            /\ m - 1 + (k + 1) = m + (k + 1) - 1
        BY <1>2, <2>3, <2>4, <3>1
      <4>2. N[k] = D[m - 1 + k]
        BY <2>7, <3>1, <4>1
      <4>3. N[k + 1] = 10 * N[k] + t[k + 1] /\ t[k + 1] = ds[m - 1 + (k + 1)]
        BY <2>4, <2>5, <4>1
      <4>4. D[m - 1 + (k + 1)] = 10 * D[m - 1 + k] + ds[m - 1 + (k + 1)]
        BY <1>1, <4>1
      <4> QED
        BY <4>2, <4>3, <4>4
    <3> QED
      BY <3>1
  <2>8. \A k \in Nat : k \in T
    <3> HIDE DEF T
    <3> QED
      BY <2>6, <2>7, Induct
  <2>9. N[Len(t)] = D[Len(ds)]
    <3>1. Len(t) \in Nat /\ m - 1 + Len(t) = Len(ds)
      BY <1>2, <2>3, <2>4
    <3> QED
      BY <2>8, <3>1
  <2> QED
    BY <2>2, <2>4, <2>9 DEF NumberOf, N, D
<1> QED
  BY <1>4, <1>5

------------------------------------------------------------------------------
(***************************************************************************)
(* Sums of powers of two                                                   *)
(***************************************************************************)
\* Induction from m to n.
LEMMA InductBetween ==
    ASSUME NEW T, NEW m \in Nat, NEW n \in Nat, m \in T,
           \A k \in Nat : m <= k /\ k < n /\ k \in T => k + 1 \in T
    PROVE  \A k \in m .. n : k \in T
PROOF
<1> DEFINE U == {k \in Nat : m <= k /\ k <= n => k \in T}
<1>1. 0 \in U
  OBVIOUS
<1>2. ASSUME NEW k \in Nat, k \in U
      PROVE  k + 1 \in U
  <2>1. CASE m <= k /\ k < n
    BY <1>2, <2>1
  <2>2. CASE k + 1 = m
    BY <2>2
  <2>3. CASE k + 1 < m \/ n < k + 1
    BY <2>3
  <2> QED
    BY <2>1, <2>2, <2>3
<1> HIDE DEF U
<1>3. \A k \in Nat : k \in U
  BY <1>1, <1>2, Induct
<1> QED
  BY <1>3 DEF U

\* The sum of the first bits depends on these alone.
LEMMA SumsAlike ==
    ASSUME NEW S, NEW bits \in Seq(S), NEW cs \in Seq(S), NEW n \in Nat,
           n <= Len(bits), n <= Len(cs), \A i \in 1 .. n : bits[i] = cs[i]
    PROVE  \A k \in 0 .. n : Sums(bits)[k] = Sums(cs)[k]
PROOF
<1> DEFINE B == Sums(bits)
           C == Sums(cs)
           w(b, k) == IF b = "1" THEN Power(2, k - 1) ELSE 0
           T == {k \in Nat : B[k] = C[k]}
<1>1. /\ B[0] = 0 /\ \A k \in 1 .. Len(bits) : B[k] = B[k - 1] + w(bits[k], k)
      /\ C[0] = 0 /\ \A k \in 1 .. Len(cs) : C[k] = C[k - 1] + w(cs[k], k)
  BY SumsStep
<1> HIDE DEF B, C, w
<1>2. 0 \in T
  BY <1>1
<1>3. ASSUME NEW k \in Nat, 0 <= k, k < n, k \in T
      PROVE  k + 1 \in T
  <2>1. /\ k + 1 \in 1 .. Len(bits) /\ k + 1 \in 1 .. Len(cs)
        /\ (k + 1) - 1 = k /\ bits[k + 1] = cs[k + 1]
    BY <1>3
  <2>2. B[k + 1] = B[(k + 1) - 1] + w(bits[k + 1], k + 1)
    BY <1>1, <2>1
  <2>3. C[k + 1] = C[(k + 1) - 1] + w(cs[k + 1], k + 1)
    BY <1>1, <2>1
  <2> QED
    BY <1>3, <2>1, <2>2, <2>3
<1>4. \A k \in 0 .. n : k \in T
  <2> HIDE DEF T
  <2> QED
    BY <1>2, <1>3, InductBetween
<1> QED
  BY <1>4 DEF B, C

\* The sum of k bits has k bits.
LEMMA SumsBelow ==
    ASSUME NEW S, NEW bits \in Seq(S)
    PROVE  \A k \in 0 .. Len(bits) : Sums(bits)[k] < Power(2, k)
PROOF
<1> DEFINE B == Sums(bits)
           T == {k \in Nat : B[k] < Power(2, k)}
<1>1. /\ B[0] = 0
      /\ \A k \in 0 .. Len(bits) : B[k] \in Nat
      /\ \A k \in 1 .. Len(bits) :
            B[k] = B[k - 1] + IF bits[k] = "1" THEN Power(2, k - 1) ELSE 0
  BY SumsStep
<1> HIDE DEF B
<1>2. 0 \in T /\ Len(bits) \in Nat
  <2>1. B[0] < Power(2, 0)
    <3>1. Power(2, 0) = 1
      BY PowersOfTwo
    <3> QED
      BY <1>1, <3>1
  <2> QED
    BY <2>1
<1>3. ASSUME NEW k \in Nat, 0 <= k, k < Len(bits), k \in T
      PROVE  k + 1 \in T
  <2>1. k + 1 \in 1 .. Len(bits) /\ (k + 1) - 1 = k /\ k \in 0 .. Len(bits)
    BY <1>2, <1>3
  <2>2. B[k + 1] = B[k] + IF bits[k + 1] = "1" THEN Power(2, k) ELSE 0
    BY <1>1, <2>1
  <2>3. Power(2, k + 1) = 2 * Power(2, k) /\ Power(2, k) \in Nat \ {0} /\ B[k] \in Nat
    BY <1>1, <2>1, PowersOfTwo
  <2> QED
    BY <1>3, <2>2, <2>3
<1>4. \A k \in 0 .. Len(bits) : k \in T
  <2> HIDE DEF T
  <2> QED
    BY <1>2, <1>3, InductBetween
<1> QED
  BY <1>4 DEF B

\* A bit that is pushed adds the power of its place.
LEMMA Pushed ==
    ASSUME NEW bits \in Seq(Bits), NEW b \in Bits
    PROVE  /\ Append(bits, b) \in Seq(Bits)
           /\ Len(Append(bits, b)) = Len(bits) + 1
           /\ ValueOf(bits) \in Nat
           /\ ValueOf(Append(bits, b)) =
                ValueOf(bits) + IF b = "1" THEN Power(2, Len(bits)) ELSE 0
PROOF
<1> DEFINE cs == Append(bits, b)
           n == Len(bits)
<1>1. /\ cs \in Seq(Bits) /\ Len(cs) = n + 1 /\ n \in Nat
      /\ cs[n + 1] = b /\ \A i \in 1 .. n : cs[i] = bits[i]
  OBVIOUS
<1> HIDE DEF cs, n
<1>2. Sums(bits)[n] = Sums(cs)[n]
  <2>1. n <= Len(bits) /\ n <= Len(cs) /\ n \in 0 .. n
    BY <1>1 DEF n
  <2>2. \A k \in 0 .. n : Sums(bits)[k] = Sums(cs)[k]
    BY <1>1, <2>1, SumsAlike
  <2> QED
    BY <2>1, <2>2
<1>3. Sums(cs)[n + 1] = Sums(cs)[n] + IF b = "1" THEN Power(2, n) ELSE 0
  <2>1. n + 1 \in 1 .. Len(cs) /\ (n + 1) - 1 = n
    BY <1>1
  <2> QED
    BY <1>1, <2>1, SumsStep
<1>4. Sums(bits)[n] \in Nat
  <2>1. n \in 0 .. Len(bits)
    BY <1>1 DEF n
  <2> QED
    BY <2>1, SumsStep
<1> QED
  BY <1>1, <1>2, <1>3, <1>4 DEF ValueOf, cs, n

------------------------------------------------------------------------------
(***************************************************************************)
(* Quotients, and the digits and bits of a number                          *)
(***************************************************************************)
\* Quotient and remainder are unique.
LEMMA Quotient ==
    ASSUME NEW m \in Nat \ {0}, NEW q \in Int, NEW r \in Int, 0 <= r, r < m
    PROVE  (q * m + r) \div m = q /\ (q * m + r) % m = r
PROOF
<1> DEFINE n == q * m + r
           q2 == n \div m
           r2 == n % m
<1>1. n \in Int /\ q2 \in Int /\ r2 \in Int /\ n = q2 * m + r2 /\ 0 <= r2 /\ r2 < m
  BY SMT
<1> HIDE DEF q2, r2
<1>2. (q2 - q) * m = r - r2
  BY <1>1
<1>3. q2 - q = 0
  <2> DEFINE d == q2 - q
  <2>1. d \in Int /\ d * m = r - r2
    BY <1>1, <1>2
  <2> HIDE DEF d
  <2>2. -m < d * m /\ d * m < m
    BY <1>1, <2>1
  <2>3. d >= 1 => d * m >= m
    BY <2>1
  <2>4. d <= -1 => d * m <= -m
    BY <2>1
  <2>5. d = 0
    BY <2>1, <2>2, <2>3, <2>4
  <2> QED
    BY <2>5 DEF d
<1>4. q2 = q /\ r2 = r
  BY <1>1, <1>2, <1>3
<1> QED
  BY <1>4 DEF q2, r2

\* A number is its quotient times the divisor, and the remainder.
LEMMA Division ==
    ASSUME NEW m \in Nat \ {0}, NEW n \in Int
    PROVE  /\ n \div m \in Int /\ n % m \in Nat
           /\ n = (n \div m) * m + (n % m)
           /\ n % m < m
           /\ n \in Nat => n \div m \in Nat
PROOF
<1>1. /\ n \div m \in Int /\ n % m \in Int
      /\ n = (n \div m) * m + (n % m)
      /\ 0 <= n % m /\ n % m < m
  BY SMT
<1>2. n \in Nat => n \div m \in Nat
  <2> DEFINE q == n \div m
  <2>1. q \in Int /\ n < (q + 1) * m
    BY <1>1
  <2> HIDE DEF q
  <2>2. q <= -1 => (q + 1) * m <= 0
    BY <2>1
  <2>3. n \in Nat => q >= 0
    BY <2>1, <2>2
  <2> QED
    BY <2>1, <2>3 DEF q
<1> QED
  BY <1>1, <1>2

\* A larger power is a multiple of a smaller one.
LEMMA PowerMultiple ==
    ASSUME NEW j \in Nat, NEW k \in Nat, j <= k
    PROVE  /\ \E d \in Nat \ {0} : Power(2, k) = d * Power(2, j)
           /\ Power(2, j) <= Power(2, k)
PROOF
<1> DEFINE T == {n \in Nat : \E d \in Nat \ {0} : Power(2, n) = d * Power(2, j)}
<1>1. Power(2, j) \in Nat \ {0} /\ Power(2, k) \in Nat \ {0}
  BY PowersOfTwo
<1>2. j \in T
  <2>1. 1 \in Nat \ {0} /\ Power(2, j) = 1 * Power(2, j)
    BY <1>1
  <2> QED
    BY <2>1
<1>3. ASSUME NEW n \in Nat, j <= n, n < k, n \in T
      PROVE  n + 1 \in T
  <2>1. PICK d \in Nat \ {0} : Power(2, n) = d * Power(2, j)
    BY <1>3
  <2>2. Power(2, n + 1) = 2 * (d * Power(2, j))
    BY <2>1, PowersOfTwo
  <2>3. 2 * d \in Nat \ {0} /\ Power(2, n + 1) = (2 * d) * Power(2, j)
    BY <1>1, <2>2
  <2> QED
    BY <2>3
<1>4. k \in T
  <2> HIDE DEF T
  <2>1. \A n \in j .. k : n \in T
    BY <1>2, <1>3, InductBetween
  <2> QED
    BY <2>1
<1>5. PICK d \in Nat \ {0} : Power(2, k) = d * Power(2, j)
  BY <1>4
<1>6. Power(2, j) <= d * Power(2, j)
  BY <1>1
<1> QED
  BY <1>5, <1>6

\* Bit i of the number that bits stand for is the one at place i.
LEMMA BitsOfValue ==
    ASSUME NEW bits \in Seq(Bits)
    PROVE  /\ \A i \in Nat : i < Len(bits) => BitOf(ValueOf(bits), i) = bits[i + 1]
           /\ \A i \in Nat : i >= Len(bits) => BitOf(ValueOf(bits), i) = "0"
PROOF
<1> DEFINE B == Sums(bits)
           n == Len(bits)
<1>1. /\ n \in Nat
      /\ \A k \in 0 .. n : B[k] \in Nat /\ B[k] < Power(2, k)
      /\ \A k \in 1 .. n : B[k] = B[k - 1] + IF bits[k] = "1" THEN Power(2, k - 1) ELSE 0
      /\ \A k \in 1 .. n : bits[k] \in Bits
  BY SumsStep, SumsBelow
<1>2. ValueOf(bits) = B[n]
  BY DEF ValueOf
<1> HIDE DEF B, n
<1>3. ASSUME NEW i \in Nat, i < n
      PROVE  BitOf(B[n], i) = bits[i + 1]
  <2> DEFINE p == Power(2, i)
             b == IF bits[i + 1] = "1" THEN 1 ELSE 0
             T == {k \in Nat : \E c \in Nat : B[k] = (b + 2 * c) * p + B[i]}
  <2>1. p \in Nat \ {0} /\ Power(2, i + 1) = 2 * p /\ b \in {0, 1}
    BY PowersOfTwo
  <2>2. B[i] \in Nat /\ B[i] < p
    BY <1>1, <1>3
  <2>3. i + 1 \in T
    <3>1. i + 1 \in 1 .. n /\ (i + 1) - 1 = i
      BY <1>1, <1>3
    <3>2. B[i + 1] = B[i] + IF bits[i + 1] = "1" THEN p ELSE 0
      BY <1>1, <3>1
    <3>3. B[i + 1] = (b + 2 * 0) * p + B[i]
      BY <2>1, <2>2, <3>2
    <3> QED
      BY <3>3
  <2>4. ASSUME NEW k \in Nat, i + 1 <= k, k < n, k \in T
        PROVE  k + 1 \in T
    <3>1. k + 1 \in 1 .. n /\ (k + 1) - 1 = k
      BY <1>1, <2>4
    <3>2. B[k + 1] = B[k] + IF bits[k + 1] = "1" THEN Power(2, k) ELSE 0
      BY <1>1, <3>1
    <3>3. PICK c \in Nat : B[k] = (b + 2 * c) * p + B[i]
      BY <2>4
    <3>4. PICK d \in Nat \ {0} : Power(2, k) = d * (2 * p)
      <4>1. i + 1 \in Nat
        OBVIOUS
      <4>2. \E d \in Nat \ {0} : Power(2, k) = d * Power(2, i + 1)
        BY <2>4, <4>1, PowerMultiple
      <4> QED
        BY <2>1, <4>2
    <3> HIDE DEF p, b
    <3>5. CASE bits[k + 1] = "1"
      <4>1. B[k + 1] = (b + 2 * c) * p + B[i] + d * (2 * p)
        BY <3>2, <3>3, <3>4, <3>5
      <4>2. (b + 2 * c) * p + B[i] + d * (2 * p) = (b + 2 * (c + d)) * p + B[i]
        BY <2>1, <2>2
      <4> DEFINE e == c + d
      <4>3. e \in Nat /\ B[k + 1] = (b + 2 * e) * p + B[i]
        BY <4>1, <4>2
      <4> HIDE DEF e
      <4> QED
        BY <4>3
    <3>6. CASE bits[k + 1] # "1"
      <4>1. B[k] \in Nat
        BY <1>1, <2>4
      <4>2. B[k + 1] = B[k]
        BY <3>2, <3>6, <4>1
      <4> QED
        BY <3>3, <4>2
    <3> QED
      BY <3>5, <3>6
  <2>5. n \in T
    <3> HIDE DEF T
    <3>1. i + 1 \in Nat /\ i + 1 <= n
      BY <1>1, <1>3
    <3>2. \A k \in i + 1 .. n : k \in T
      BY <1>1, <2>3, <2>4, <3>1, InductBetween
    <3> QED
      BY <1>1, <3>1, <3>2
  <2>6. PICK c \in Nat : B[n] = (b + 2 * c) * p + B[i]
    BY <2>5
  <2>7. B[n] \div p = b + 2 * c
    <3> DEFINE q == b + 2 * c
    <3> HIDE DEF p, B
    <3>1. q \in Int /\ B[n] = q * p + B[i]
      BY <2>1, <2>6
    <3>2. B[i] \in Int /\ 0 <= B[i] /\ B[i] < p
      BY <2>2
    <3> HIDE DEF q
    <3>3. (q * p + B[i]) \div p = q
      BY <2>1, <3>1, <3>2, Quotient
    <3> QED
      BY <3>1, <3>3 DEF q
  <2>8. (b + 2 * c) % 2 = b
    <3> HIDE DEF b
    <3> QED
      BY <2>1
  <2>9. BitOf(B[n], i) = IF b = 1 THEN "1" ELSE "0"
    BY <2>7, <2>8 DEF BitOf
  <2>10. bits[i + 1] \in Bits
    BY <1>1, <1>3
  <2> QED
    BY <2>9, <2>10 DEF Bits
<1>4. ASSUME NEW i \in Nat, i >= n
      PROVE  BitOf(B[n], i) = "0"
  <2> DEFINE p == Power(2, i)
  <2>1. B[n] \in Nat /\ B[n] < Power(2, n)
    BY <1>1
  <2>2. p \in Nat \ {0} /\ Power(2, n) <= p /\ Power(2, n) \in Nat
    BY <1>1, <1>4, PowersOfTwo, PowerMultiple
  <2> HIDE DEF p
  <2>3. B[n] < p /\ B[n] = 0 * p + B[n]
    BY <2>1, <2>2
  <2>4. B[n] \div p = 0
    BY <2>1, <2>2, <2>3, Quotient
  <2>5. BitOf(B[n], i) = "0"
    BY <2>4 DEF BitOf, p
  <2> QED
    BY <2>5
<1> QED
  BY <1>2, <1>3, <1>4 DEF n

\* The lowest bits of a number stand for its remainder.
LEMMA BitsOfNumber ==
    ASSUME NEW n \in Nat, NEW width \in Nat
    PROVE  LET bits == [i \in 1 .. width |-> BitOf(n, i - 1)]
           IN  /\ bits \in Seq(Bits)
               /\ Len(bits) = width
               /\ ValueOf(bits) = n % Power(2, width)
PROOF
<1> DEFINE bits == [i \in 1 .. width |-> BitOf(n, i - 1)]
           B == Sums(bits)
           T == {k \in Nat : B[k] = n % Power(2, k)}
<1>1. /\ bits \in Seq(Bits) /\ Len(bits) = width
      /\ \A i \in 1 .. width : bits[i] = BitOf(n, i - 1)
  <2>1. \A i \in 1 .. width : BitOf(n, i - 1) \in Bits
    BY DEF BitOf, Bits
  <2>2. bits \in [1 .. width -> Bits]
    BY <2>1
  <2> QED
    BY <2>2
<1> HIDE DEF bits
<1>2. /\ B[0] = 0
      /\ \A k \in 1 .. width : B[k] = B[k - 1] + IF bits[k] = "1" THEN Power(2, k - 1) ELSE 0
  BY <1>1, SumsStep
<1> HIDE DEF B
<1>3. 0 \in T
  <2>1. Power(2, 0) = 1
    BY PowersOfTwo
  <2>2. n % 1 = 0
    OBVIOUS
  <2> QED
    BY <1>2, <2>1, <2>2
<1>4. ASSUME NEW k \in Nat, 0 <= k, k < width, k \in T
      PROVE  k + 1 \in T
  <2> DEFINE p == Power(2, k)
             q == n \div p
             b == q % 2
             r == n % p
  <2>1. p \in Nat \ {0} /\ Power(2, k + 1) = 2 * p
    BY PowersOfTwo
  <2>2. q \in Nat /\ r \in Nat /\ n = q * p + r /\ r < p
    <3> HIDE DEF p
    <3>1. n \in Int
      OBVIOUS
    <3> QED
      BY <2>1, <3>1, Division, Zenon
  <2>3. B[k + 1] = r + IF b = 1 THEN p ELSE 0
    <3>1. k + 1 \in 1 .. width /\ (k + 1) - 1 = k
      BY <1>4
    <3>2. bits[k + 1] = IF b = 1 THEN "1" ELSE "0"
      BY <1>1, <3>1 DEF BitOf
    <3>3. B[k + 1] = B[k] + IF bits[k + 1] = "1" THEN p ELSE 0
      BY <1>2, <3>1
    <3>4. B[k] = r
      BY <1>4
    <3> HIDE DEF p, r, b
    <3> QED
      BY <3>2, <3>3, <3>4
  <2> HIDE DEF p, r
  <2>4. b \in {0, 1} /\ q = 2 * (q \div 2) + b /\ q \div 2 \in Nat
    <3> HIDE DEF q
    <3> QED
      BY <2>2
  <2> DEFINE h == q \div 2
  <2> HIDE DEF q, b
  <2>5. h \in Nat /\ q = 2 * h + b
    BY <2>4
  <2> HIDE DEF h
  <2>6. n = h * (2 * p) + (b * p + r)
    BY <2>1, <2>2, <2>4, <2>5
  <2>7. b * p + r \in Int /\ 0 <= b * p + r /\ b * p + r < 2 * p /\ 2 * p \in Nat \ {0}
    <3>1. b * p \in {0, p}
      BY <2>1, <2>4
    <3> QED
      BY <2>1, <2>2, <3>1
  <2>8. n % (2 * p) = b * p + r
    <3> DEFINE m == 2 * p
               s == b * p + r
    <3>1. m \in Nat \ {0} /\ s \in Int /\ 0 <= s /\ s < m /\ h \in Int /\ n = h * m + s
      BY <2>5, <2>6, <2>7
    <3> HIDE DEF m, s
    <3>2. (h * m + s) % m = s
      BY <3>1, Quotient
    <3> QED
      BY <3>1, <3>2 DEF m, s
  <2>9. B[k + 1] = b * p + r
    BY <2>1, <2>2, <2>3, <2>4
  <2> QED
    BY <2>1, <2>8, <2>9
<1>5. width \in T
  <2> HIDE DEF T
  <2>1. 0 \in Nat /\ width \in 0 .. width
    OBVIOUS
  <2>2. \A k \in 0 .. width : k \in T
    BY <1>3, <1>4, <2>1, InductBetween
  <2> QED
    BY <2>1, <2>2
<1> QED
  BY <1>1, <1>5 DEF bits, B, ValueOf

\* n < 10^(n + 1), so a number has a decimal notation.
LEMMA TenGrows ==
    ASSUME NEW n \in Nat
    PROVE  n < Power(10, n)
PROOF
<1> DEFINE T == {k \in Nat : k < Power(10, k)}
<1>1. 0 \in T
  BY PowersOfTen
<1>2. ASSUME NEW k \in Nat, k \in T
      PROVE  k + 1 \in T
  <2>1. Power(10, k) \in Nat \ {0} /\ Power(10, k + 1) = 10 * Power(10, k) /\ k < Power(10, k)
    BY <1>2, PowersOfTen
  <2> QED
    BY <2>1
<1>3. \A k \in Nat : k \in T
  <2> HIDE DEF T
  <2> QED
    BY <1>1, <1>2, Induct
<1> QED
  BY <1>3

\* The digits of a number stand for it.
LEMMA DigitsOfNumber ==
    ASSUME NEW n \in Nat
    PROVE  /\ ToDigits(n) \in Seq(Figures)
           /\ ToDigits(n) # <<>>
           /\ NumberOf(ToDigits(n)) = n
PROOF
<1> DEFINE enough(l) == n < Power(10, l) /\ (l = 1 \/ n >= Power(10, l - 1))
           len == CHOOSE l \in 1 .. n + 1 : enough(l)
           ds == [k \in 1 .. len |-> (n \div Power(10, len - k)) % 10]
           N == Numerals(ds)
<1>1. ToDigits(n) = ds
  BY DEF ToDigits
<1>2. len \in 1 .. n + 1 /\ n < Power(10, len)
  <2> DEFINE L == {l \in Nat \ {0} : n < Power(10, l)}
  <2>1. n + 1 \in L
    <3>1. n + 1 \in Nat \ {0} /\ n + 1 < Power(10, n + 1) /\ Power(10, n + 1) \in Nat
      BY TenGrows, PowersOfTen
    <3> QED
      BY <3>1
  <2>2. PICK l \in L : \A m \in L : l <= m
    <3>1. L \in SUBSET Nat /\ L # {}
      BY <2>1
    <3> HIDE DEF L
    <3> QED
      BY <3>1, Least
  <2>3. l \in 1 .. n + 1 /\ n < Power(10, l)
    BY <2>1, <2>2
  <2>4. ASSUME l # 1 PROVE n >= Power(10, l - 1)
    <3>1. l - 1 \in Nat \ {0} /\ l - 1 \notin L
      BY <2>2, <2>3, <2>4
    <3>2. ~(n < Power(10, l - 1)) /\ Power(10, l - 1) \in Nat
      BY <3>1, PowersOfTen
    <3> QED
      BY <3>2
  <2>5. enough(l)
    BY <2>3, <2>4
  <2>6. \E k \in 1 .. n + 1 : enough(k)
    BY <2>3, <2>5
  <2>7. len \in 1 .. n + 1 /\ enough(len)
    <3> HIDE DEF enough
    <3> QED
      BY <2>6
  <2> QED
    BY <2>7
<1> HIDE DEF len
<1> DEFINE q(k) == n \div Power(10, len - k)
<1>3. \A k \in 0 .. len : Power(10, len - k) \in Nat \ {0} /\ q(k) \in Nat
  <2> TAKE k \in 0 .. len
  <2>1. len - k \in Nat
    BY <1>2
  <2>2. Power(10, len - k) \in Nat \ {0}
    BY <2>1, PowersOfTen
  <2> QED
    BY <2>2, Division
<1>4. \A k \in 1 .. len : q(k) % 10 \in Figures
  <2> TAKE k \in 1 .. len
  <2>1. q(k) \in Nat
    BY <1>2, <1>3
  <2> HIDE DEF q
  <2> QED
    BY <2>1 DEF Figures
<1>5. /\ ds \in Seq(Figures) /\ Len(ds) = len /\ len \in Nat \ {0}
      /\ \A k \in 1 .. len : ds[k] = q(k) % 10
  <2>1. len \in Nat \ {0}
    BY <1>2
  <2>2. ds \in [1 .. len -> Figures]
    BY <1>4
  <2> HIDE DEF q
  <2>3. ds \in Seq(Figures) /\ Len(ds) = len
    BY <2>1, <2>2
  <2> QED
    BY <2>1, <2>3 DEF q
<1> HIDE DEF ds
<1>6. N[0] = 0 /\ \A k \in 1 .. len : N[k] = 10 * N[k - 1] + ds[k]
  BY <1>5, FiguresAreNumbers, NumeralsStep
<1> HIDE DEF N
<1> DEFINE T == {k \in Nat : N[k] = q(k)}
<1>7. 0 \in T
  <2>1. len - 0 = len
    BY <1>5
  <2>2. n = 0 * Power(10, len) + n /\ Power(10, len) \in Nat \ {0}
    BY <1>5, PowersOfTen
  <2>3. n \div Power(10, len) = 0
    BY <1>2, <2>2, Quotient
  <2> QED
    BY <1>6, <2>1, <2>3
<1>8. ASSUME NEW k \in Nat, 0 <= k, k < len, k \in T
      PROVE  k + 1 \in T
  <2> DEFINE p == Power(10, len - (k + 1))
             a == n \div p
             r == n % p
             h == a \div 10
             d == a % 10
  <2>1. p \in Nat \ {0} /\ Power(10, len - k) = 10 * p
    <3>1. len - (k + 1) \in Nat /\ (len - (k + 1)) + 1 = len - k
      BY <1>5, <1>8
    <3> QED
      BY <3>1, PowersOfTen
  <2>2. a \in Nat /\ r \in Nat /\ r < p /\ n = a * p + r
    <3> HIDE DEF p
    <3>1. n \in Int
      OBVIOUS
    <3> QED
      BY <2>1, <3>1, Division, Zenon
  <2> HIDE DEF p, r
  <2>3. h \in Nat /\ d \in 0 .. 9 /\ a = 10 * h + d
    <3> HIDE DEF a
    <3> QED
      BY <2>2
  <2>4. q(k + 1) = a /\ q(k) = n \div (10 * p)
    BY <2>1 DEF p
  <2> HIDE DEF a
  <2>5. ds[k + 1] = d
    BY <1>5, <1>8, <2>4
  <2> HIDE DEF h, d, q
  <2>6. n \div (10 * p) = h
    <3> DEFINE m == 10 * p
               s == d * p + r
    <3>1. n = h * m + s
      BY <2>1, <2>2, <2>3
    <3>2. d * p <= 9 * p /\ d * p \in Nat
      BY <2>1, <2>3
    <3>3. m \in Nat \ {0} /\ s \in Int /\ 0 <= s /\ s < m /\ h \in Int
      BY <2>1, <2>2, <2>3, <3>2
    <3> HIDE DEF m, s
    <3>4. (h * m + s) \div m = h
      BY <3>3, Quotient
    <3> QED
      BY <3>1, <3>4 DEF m
  <2>7. N[k] = h
    BY <1>8, <2>4, <2>6
  <2>8. N[k + 1] = 10 * N[k] + ds[k + 1]
    <3>1. k + 1 \in 1 .. len /\ (k + 1) - 1 = k
      BY <1>5, <1>8
    <3> QED
      BY <1>6, <3>1
  <2> QED
    BY <2>3, <2>4, <2>5, <2>7, <2>8
<1>9. N[len] = q(len)
  <2> HIDE DEF T
  <2>1. 0 \in Nat /\ len \in 0 .. len /\ len \in Nat
    BY <1>5
  <2>2. \A k \in 0 .. len : k \in T
    BY <1>7, <1>8, <2>1, InductBetween
  <2> QED
    BY <2>1, <2>2 DEF T
<1>10. q(len) = n
  <2>1. len - len = 0
    BY <1>5
  <2>2. Power(10, 0) = 1 /\ n \div 1 = n
    BY PowersOfTen
  <2> QED
    BY <2>1, <2>2
<1>11. ds # <<>>
  BY <1>5
<1> QED
  BY <1>1, <1>5, <1>9, <1>10, <1>11 DEF NumberOf, N

------------------------------------------------------------------------------
(***************************************************************************)
(* The inductive invariant                                                 *)
(***************************************************************************)
DigitValues == 0 .. 15 \cup {X, Z}
BitValues == Bits \cup {"x", "z", "a"}

\* Only integers an int does not hold are read as a string.
ConstantInv ==
    /\ constant \in Literals \cup Numbers
    /\ pc \in {"halve", "expand", "resize"} /\ IsNumber(constant) => Oversized(constant)

PhaseInv ==
    /\ pc = "value" => digits = <<>> /\ data = <<>>
    /\ pc = "halve" => base = 10
    /\ pc = "expand" => base # 10
    /\ pc = "resize" => digits = <<>>

\* A decimal with a digit that is none gets no further than the first division.
Decimal == \A k \in DOMAIN Written : Written[k] < 10

HalvedInv ==
    pc \in {"halve", "resize"} /\ base = 10 =>
        /\ ~IsNumber(constant) => constant.base = 10
        /\ data \in Seq(Bits)
        /\ ~Decimal => digits = Written
        /\ Decimal => /\ digits \in Seq(Figures)
                      /\ NumberOf(digits) * Power(2, Len(data)) + ValueOf(data)
                            = NumberOf(Written)

\* The digits that are left are the first ones; those behind them have become
\* the bits so far, the last digit first.
Expanded(ds, width) ==
    /\ digits \in Seq(DigitValues)
    /\ Len(digits) <= Len(ds)
    /\ \A k \in 1 .. Len(digits) : digits[k] = ds[k]
    /\ data \in Seq(BitValues)
    /\ Len(data) = width * (Len(ds) - Len(digits))
    /\ \A i \in 1 .. Len(data) :
            data[i] = DigitBit(ds[Len(ds) - ((i - 1) \div width)], (i - 1) % width)

ExpandedInv ==
    pc \in {"expand", "resize"} /\ base # 10 =>
        /\ ~IsNumber(constant)
        /\ \/ base = constant.base
           \/ /\ constant.base = 10 /\ base = 2
              /\ Len(constant.digits) = 1 /\ constant.digits[1] >= X
        /\ Expanded(constant.digits, BitsPerDigit)

IInv == ConstantInv /\ PhaseInv /\ HalvedInv /\ ExpandedInv

\* Bases 2, 8 and 16 take 1, 3 and 4 bits a digit.
LEMMA BitsOfBase ==
    ASSUME NEW b
    PROVE  LET width == CHOOSE k \in 1 .. 4 : Power(2, k) = b
           IN  /\ b = 2 => width = 1
               /\ b = 8 => width = 3
               /\ b = 16 => width = 4
PROOF
<1> DEFINE width == CHOOSE k \in 1 .. 4 : Power(2, k) = b
<1>1. Power(2, 1) = 2 /\ Power(2, 2) = 4 /\ Power(2, 3) = 8 /\ Power(2, 4) = 16
  <2>1. /\ Power(2, 0 + 1) = 2 * Power(2, 0) /\ Power(2, 1 + 1) = 2 * Power(2, 1)
        /\ Power(2, 2 + 1) = 2 * Power(2, 2) /\ Power(2, 3 + 1) = 2 * Power(2, 3)
        /\ Power(2, 0) = 1
    BY PowersOfTwo
  <2>2. 0 + 1 = 1 /\ 1 + 1 = 2 /\ 2 + 1 = 3 /\ 3 + 1 = 4
    OBVIOUS
  <2> QED
    BY <2>1, <2>2
<1>2. \A k \in 1 .. 4 : Power(2, k) = b => width \in 1 .. 4 /\ Power(2, width) = b
  OBVIOUS
<1> HIDE DEF width
<1>3. \A v, w \in 1 .. 4 : Power(2, v) = Power(2, w) => v = w
  <2> TAKE v, w \in 1 .. 4
  <2>1. v \in {1, 2, 3, 4} /\ w \in {1, 2, 3, 4}
    OBVIOUS
  <2> QED
    BY <1>1, <2>1
<1>4. b = 2 => width = 1
  BY <1>1, <1>2, <1>3
<1>5. b = 8 => width = 3
  BY <1>1, <1>2, <1>3
<1>6. b = 16 => width = 4
  BY <1>1, <1>2, <1>3
<1> QED
  BY <1>4, <1>5, <1>6 DEF width

LEMMA LiteralFacts ==
    ASSUME constant \in Literals \cup Numbers, ~IsNumber(constant)
    PROVE  /\ constant \in Literals
           /\ constant.digits \in Seq(DigitValues) /\ constant.digits # <<>>
           /\ constant.base \in {2, 8, 10, 16}
           /\ constant.size \in Nat
           /\ constant.signed \in BOOLEAN /\ constant.unbased \in BOOLEAN
           /\ constant.case \in {"exact", "casex", "casez"}
           /\ constant.unbased /\ constant.base = 2 => Len(constant.digits) = 1
           /\ Written = constant.digits
           /\ CaseType = constant.case
PROOF
<1>1. constant \in Literals
  BY NumbersAssumption DEF IsNumber
<1> QED
  BY <1>1, LiteralsAssumption DEF Written, CaseType, DigitValues

LEMMA NumberFacts ==
    ASSUME constant \in Literals \cup Numbers, IsNumber(constant)
    PROVE  /\ constant \in Numbers
           /\ constant.value \in Int
           /\ constant.size \in Nat
           /\ constant.signed \in BOOLEAN
           /\ Oversized(constant) =>
                /\ constant.value \in Nat
                /\ Written \in Seq(Figures) /\ Written # <<>>
                /\ NumberOf(Written) = constant.value
PROOF
<1>1. constant \in Numbers
  BY LiteralsAssumption DEF IsNumber
<1>2. constant.value \in Int /\ constant.size \in Nat /\ constant.signed \in BOOLEAN
  BY <1>1, NumbersAssumption
<1>3. ASSUME Oversized(constant)
      PROVE  constant.value \in Nat
  <2>1. IntBits - 1 \in Nat
    BY WidthsAssumption
  <2>2. Power(2, IntBits - 1) \in Nat \ {0}
    BY <2>1, PowersOfTwo
  <2> QED
    BY <1>2, <1>3, <2>2 DEF Oversized
<1>4. Written = ToDigits(constant.value)
  BY DEF Written
<1> QED
  BY <1>1, <1>2, <1>3, <1>4, DigitsOfNumber

\* Whatever is read as a string has digits; if all of them are figures, it is
\* in Seq(Figures).
LEMMA WrittenFacts ==
    ASSUME constant \in Literals \cup Numbers, IsNumber(constant) => Oversized(constant)
    PROVE  /\ Written \in Seq(DigitValues)
           /\ Written # <<>>
           /\ Decimal => Written \in Seq(Figures)
           /\ IsNumber(constant) => Decimal
PROOF
<1>1. Figures \subseteq DigitValues
  BY DEF Figures, DigitValues
<1>2. CASE IsNumber(constant)
  <2>1. Written \in Seq(Figures) /\ Written # <<>>
    BY <1>2, NumberFacts
  <2>2. Written \in Seq(DigitValues)
    BY <1>1, <2>1, SeqMonotonic
  <2>3. \A k \in DOMAIN Written : Written[k] \in 0 .. 9
    BY <2>1 DEF Figures
  <2>4. Decimal
    BY <2>3 DEF Decimal
  <2> QED
    BY <2>1, <2>2, <2>4
<1>3. CASE ~IsNumber(constant)
  <2>1. Written \in Seq(DigitValues) /\ Written # <<>>
    BY <1>3, LiteralFacts
  <2>2. ASSUME Decimal
        PROVE  Written \in Seq(Figures)
    <3>1. \A k \in 1 .. Len(Written) : Written[k] \in DigitValues /\ Written[k] < 10
      BY <2>1, <2>2 DEF Decimal
    <3>2. \A k \in 1 .. Len(Written) : Written[k] \in Figures
      <4>1. \A d \in DigitValues : d < 10 => d \in Figures
        BY DEF DigitValues, Figures, X, Z
      <4> QED
        BY <3>1, <4>1
    <3>3. Len(Written) \in Nat /\ Written \in [1 .. Len(Written) -> DigitValues]
      BY <2>1, LenProperties
    <3>4. Written \in [1 .. Len(Written) -> Figures]
      BY <3>2, <3>3
    <3> QED
      BY <3>3, <3>4
  <2> QED
    BY <1>3, <2>1, <2>2
<1> QED
  BY <1>2, <1>3

LEMMA Initially ==
    ASSUME Init
    PROVE  IInv
BY DEF Init, IInv, ConstantInv, PhaseInv, HalvedInv, ExpandedInv

------------------------------------------------------------------------------
(***************************************************************************)
(* One step for every action                                               *)
(***************************************************************************)
LEMMA ReadIntStep ==
    ASSUME IInv, ReadInt
    PROVE  IInv'
BY DEF ReadInt, IInv, ConstantInv, PhaseInv, HalvedInv, ExpandedInv

LEMMA ReadStringStep ==
    ASSUME IInv, ReadString
    PROVE  IInv'
PROOF
<1>1. /\ constant \in Literals \cup Numbers /\ constant' = constant
      /\ IsNumber(constant) => Oversized(constant)
      /\ data = <<>> /\ data' = <<>>
  BY DEF ReadString, IInv, ConstantInv, PhaseInv
<1>2. digits' = Written
  BY DEF ReadString, Written
<1>3. /\ Written \in Seq(DigitValues) /\ Written # <<>>
      /\ Decimal => Written \in Seq(Figures)
      /\ IsNumber(constant) => Decimal
  BY <1>1, WrittenFacts
<1>4. Written' = Written /\ Decimal' = Decimal /\ IsNumber(constant)' = IsNumber(constant)
  BY <1>1 DEF Written, Decimal
<1>5. /\ pc' \in {"halve", "expand"}
      /\ base' = 10 <=> pc' = "halve"
  BY DEF ReadString
<1>6. ConstantInv'
  BY <1>1, <1>5 DEF ConstantInv
<1>7. PhaseInv'
  BY <1>5 DEF PhaseInv
<1>8. HalvedInv'
  <2>1. <<>> \in Seq(Bits) /\ Len(<<>>) = 0 /\ Power(2, 0) = 1
    BY PowersOfTwo
  <2>2. ValueOf(<<>>) = 0
    BY <2>1, SumsStep DEF ValueOf
  <2>3. ASSUME Decimal
        PROVE  NumberOf(Written) * Power(2, Len(<<>>)) + ValueOf(<<>>) = NumberOf(Written)
    <3>1. NumberOf(Written) \in Nat
      <4>1. Written \in Seq(Nat) /\ Len(Written) \in 0 .. Len(Written)
        BY <1>3, <2>3, FiguresAreNumbers
      <4> QED
        BY <4>1, NumeralsStep DEF NumberOf
    <3> QED
      BY <2>1, <2>2, <3>1
  <2>4. base' = 10 /\ ~IsNumber(constant) => constant.base = 10
    BY DEF ReadString
  <2> QED
    BY <1>1, <1>2, <1>3, <1>4, <2>1, <2>3, <2>4 DEF HalvedInv
<1>9. ExpandedInv'
  <2> SUFFICES ASSUME base' # 10
               PROVE  /\ ~IsNumber(constant)'
                      /\ \/ base' = constant'.base
                         \/ /\ constant'.base = 10 /\ base' = 2
                            /\ Len(constant'.digits) = 1 /\ constant'.digits[1] >= X
                      /\ Expanded(constant.digits, BitsPerDigit)'
    BY DEF ExpandedInv
  <2>1. ~IsNumber(constant)
    <3>1. SUFFICES ASSUME IsNumber(constant) PROVE FALSE
      OBVIOUS
    <3>2. Len(Written) = 1 /\ Written[1] >= X
      BY <3>1 DEF ReadString, Written
    <3>3. Written[1] \in 0 .. 9
      BY <1>3, <3>1, <3>2 DEF Figures
    <3> QED
      BY <3>2, <3>3 DEF X
  <2>2. Written = constant.digits
    BY <1>1, <2>1, LiteralFacts
  <2>3. \/ base' = constant.base
        \/ constant.base = 10 /\ base' = 2 /\ Len(Written) = 1 /\ Written[1] >= X
    BY <2>1, <2>2 DEF ReadString
  <2>4. constant.base \in {2, 8, 10, 16}
    BY <1>1, <2>1, LiteralFacts
  <2>5. BitsPerDigit' \in {1, 3, 4}
    <3>1. base' \in {2, 8, 16}
      BY <2>3, <2>4
    <3>2. /\ base' = 2 => BitsPerDigit' = 1
          /\ base' = 8 => BitsPerDigit' = 3
          /\ base' = 16 => BitsPerDigit' = 4
      BY BitsOfBase DEF BitsPerDigit
    <3> QED
      BY <3>1, <3>2
  <2>6. Expanded(constant.digits, BitsPerDigit)'
    <3>1. <<>> \in Seq(BitValues) /\ Len(<<>>) = 0
      OBVIOUS
    <3>2. Len(Written) \in Nat /\ Len(Written) - Len(Written) = 0
      BY <1>3
    <3>3. BitsPerDigit' * 0 = 0
      <4>1. \A w \in {1, 3, 4} : w * 0 = 0
        OBVIOUS
      <4> QED
        BY <2>5, <4>1
    <3>4. digits' = constant'.digits /\ digits' = Written
      BY <1>1, <1>2, <2>2
    <3> QED
      BY <1>1, <1>3, <3>1, <3>2, <3>3, <3>4 DEF Expanded
  <2> QED
    BY <1>1, <1>4, <2>1, <2>2, <2>3, <2>6
<1> QED
  BY <1>6, <1>7, <1>8, <1>9 DEF IInv

\* The bit that is pushed, times its power, is what the halves have lost.
LEMMA HalveStep ==
    ASSUME IInv, Halve
    PROVE  IInv'
PROOF
<1> DEFINE ds == digits
           b == BitOf(digits[Len(digits)], 0)
           P == Power(2, Len(data))
<1>1. /\ constant \in Literals \cup Numbers /\ constant' = constant
      /\ IsNumber(constant) => Oversized(constant)
      /\ pc = "halve" /\ base = 10 /\ base' = base /\ digits # <<>>
  BY DEF Halve, IInv, ConstantInv, PhaseInv
<1>2. /\ ~IsNumber(constant) => constant.base = 10
      /\ data \in Seq(Bits)
      /\ ~Decimal => digits = Written
      /\ Decimal => /\ digits \in Seq(Figures)
                    /\ NumberOf(digits) * P + ValueOf(data) = NumberOf(Written)
  BY <1>1 DEF IInv, HalvedInv
<1>3. Written' = Written /\ Decimal' = Decimal
  BY <1>1 DEF Written, Decimal
<1>4. CASE \E k \in DOMAIN digits : digits[k] >= 10
  BY <1>1, <1>4 DEF Halve, IInv, ConstantInv, PhaseInv, HalvedInv, ExpandedInv
<1>5. CASE ~(\E k \in DOMAIN digits : digits[k] >= 10)
  <2>1. /\ data' = Append(data, b)
        /\ digits' = StripZeros(Halved(digits))
        /\ pc' = pc
    BY <1>5 DEF Halve
  <2>2. Decimal
    <3>1. SUFFICES ASSUME ~Decimal PROVE FALSE
      OBVIOUS
    <3>2. Written \in Seq(DigitValues) /\ digits = Written
      BY <1>1, <1>2, <3>1, WrittenFacts
    <3>3. PICK k \in DOMAIN Written : ~(Written[k] < 10)
      BY <3>1 DEF Decimal
    <3>4. Written[k] \in Nat
      <4>1. DigitValues \subseteq Nat
        BY DEF DigitValues, X, Z
      <4>2. DOMAIN Written = 1 .. Len(Written)
        BY <3>2
      <4>3. Written[k] \in DigitValues
        BY <3>2, <3>3, <4>2, ElementOfSeq
      <4> QED
        BY <4>1, <4>3
    <3> QED
      BY <1>5, <3>2, <3>3, <3>4
  <2>3. digits \in Seq(Figures) /\ Len(digits) \in Nat \ {0}
    BY <1>1, <1>2, <2>2
  <2> DEFINE d == digits[Len(digits)]
             H == NumberOf(Halved(digits))
             N == NumberOf(digits)
  <2>4. d \in 0 .. 9
    BY <2>3 DEF Figures
  <2>5. N = 2 * H + (d % 2) /\ N \in Nat /\ H \in Nat
    <3>1. /\ Halved(digits) \in Seq(Figures)
          /\ Len(Halved(digits)) = Len(digits)
          /\ \A k \in 1 .. Len(digits) :
                Numerals(digits)[k] = 2 * Numerals(Halved(digits))[k] + (digits[k] % 2)
      BY <2>3, HalvedNumber
    <3>2. digits \in Seq(Nat) /\ Halved(digits) \in Seq(Nat)
      BY <2>3, <3>1, FiguresAreNumbers
    <3>3. Len(digits) \in 1 .. Len(digits) /\ Len(digits) \in 0 .. Len(digits)
      BY <2>3
    <3>4. N \in Nat /\ H \in Nat
      BY <3>1, <3>2, <3>3, NumeralsStep DEF NumberOf
    <3> QED
      BY <3>1, <3>3, <3>4 DEF NumberOf
  <2>6. StripZeros(Halved(digits)) \in Seq(Figures) /\ NumberOf(StripZeros(Halved(digits))) = H
    BY <2>3, HalvedNumber, StrippedNumber
  <2>7. b = IF d % 2 = 1 THEN "1" ELSE "0"
    <3>1. Power(2, 0) = 1
      BY PowersOfTwo
    <3>2. d \div 1 = d
      BY <2>4
    <3> QED
      BY <3>1, <3>2 DEF BitOf
  <2>8. d % 2 \in {0, 1}
    <3> HIDE DEF d
    <3> QED
      BY <2>4
  <2>9. /\ Append(data, b) \in Seq(Bits) /\ Len(Append(data, b)) = Len(data) + 1
        /\ ValueOf(data) \in Nat
        /\ ValueOf(Append(data, b)) = ValueOf(data) + (d % 2) * P
    <3>1. b \in Bits
      BY <2>7 DEF Bits
    <3> HIDE DEF b, P, d
    <3>2. P \in Nat
      <4>1. Len(data) \in Nat
        BY <1>2
      <4> QED
        BY <4>1, PowersOfTwo DEF P
    <3>3. /\ Append(data, b) \in Seq(Bits) /\ Len(Append(data, b)) = Len(data) + 1
          /\ ValueOf(data) \in Nat
          /\ ValueOf(Append(data, b)) = ValueOf(data) + IF b = "1" THEN P ELSE 0
      BY <1>2, <3>1, Pushed DEF P
    <3>4. CASE d % 2 = 1
      BY <2>7, <3>2, <3>3, <3>4
    <3>5. CASE d % 2 = 0
      BY <2>7, <3>2, <3>3, <3>5
    <3> QED
      BY <2>8, <3>4, <3>5
  <2>10. Power(2, Len(data) + 1) = 2 * P /\ P \in Nat
    BY <1>2, PowersOfTwo
  <2>11. NumberOf(digits') * Power(2, Len(data')) + ValueOf(data') = NumberOf(Written)
    <3> DEFINE r == d % 2
               V == ValueOf(data)
    <3>1. NumberOf(digits') = H /\ Power(2, Len(data')) = 2 * P /\ ValueOf(data') = V + r * P
      BY <2>1, <2>6, <2>9, <2>10
    <3>2. N = 2 * H + r /\ N * P + V = NumberOf(Written)
      BY <1>2, <2>2, <2>5
    <3>3. H \in Nat /\ r \in Nat /\ P \in Nat /\ V \in Nat
      BY <2>5, <2>8, <2>9, <2>10
    <3> HIDE DEF H, r, P, V, N
    <3>4. H * (2 * P) + (V + r * P) = (2 * H + r) * P + V
      BY <3>3
    <3> QED
      BY <3>1, <3>2, <3>4
  <2>12. HalvedInv'
    <3> HIDE DEF b
    <3> QED
      BY <1>1, <1>2, <1>3, <2>1, <2>2, <2>6, <2>9, <2>11 DEF HalvedInv
  <2> QED
    BY <1>1, <2>1, <2>12 DEF IInv, ConstantInv, PhaseInv, ExpandedInv
<1> QED
  BY <1>4, <1>5

LEMMA EndStep ==
    ASSUME IInv, Halve_End \/ Expand_End
    PROVE  IInv'
PROOF
<1>1. /\ UNCHANGED <<constant, base, digits, data, node>>
      /\ pc' = "resize" /\ digits = <<>>
      /\ pc = "halve" \/ pc = "expand"
  BY DEF Halve_End, Expand_End
<1>2. Written' = Written /\ Decimal' = Decimal /\ BitsPerDigit' = BitsPerDigit
  BY <1>1 DEF Written, Decimal, BitsPerDigit
<1>3. Expanded(constant.digits, BitsPerDigit)' <=> Expanded(constant.digits, BitsPerDigit)
  BY <1>1, <1>2 DEF Expanded, DigitBit, CaseType
<1> QED
  BY <1>1, <1>2, <1>3 DEF IInv, ConstantInv, PhaseInv, HalvedInv, ExpandedInv

LEMMA ResizeStep ==
    ASSUME IInv, Resize
    PROVE  IInv'
BY DEF Resize, IInv, ConstantInv, PhaseInv, HalvedInv, ExpandedInv

LEMMA DigitBitIsBit ==
    ASSUME NEW d, NEW i
    PROVE  DigitBit(d, i) \in BitValues
BY DEF DigitBit, BitOf, BitValues, Bits

\* What the invariant says of a base other than 10: the digits are those of a
\* literal, with 1, 3 or 4 bits each.
LEMMA ExpandedFacts ==
    ASSUME IInv, pc \in {"expand", "resize"}, base # 10
    PROVE  /\ ~IsNumber(constant)
           /\ constant.digits \in Seq(DigitValues) /\ Len(constant.digits) \in Nat \ {0}
           /\ Expanded(constant.digits, BitsPerDigit)
           /\ BitsPerDigit \in {1, 3, 4}
           /\ \/ constant.base # 10 /\ base = constant.base
              \/ constant.base = 10 /\ Len(constant.digits) = 1 /\ constant.digits[1] >= X
           /\ constant.base = 2 => BitsPerDigit = 1
           /\ constant.base = 8 => BitsPerDigit = 3
           /\ constant.base = 16 => BitsPerDigit = 4
PROOF
<1>1. /\ ~IsNumber(constant) /\ constant \in Literals \cup Numbers
      /\ \/ base = constant.base
         \/ /\ constant.base = 10 /\ base = 2
            /\ Len(constant.digits) = 1 /\ constant.digits[1] >= X
      /\ Expanded(constant.digits, BitsPerDigit)
  BY DEF IInv, ConstantInv, ExpandedInv
<1>2. /\ constant.digits \in Seq(DigitValues) /\ constant.digits # <<>>
      /\ constant.base \in {2, 8, 10, 16}
  BY <1>1, LiteralFacts
<1>3. /\ base = 2 => BitsPerDigit = 1
      /\ base = 8 => BitsPerDigit = 3
      /\ base = 16 => BitsPerDigit = 4
  BY BitsOfBase DEF BitsPerDigit
<1>4. Len(constant.digits) \in Nat \ {0}
  BY <1>2
<1> QED
  BY <1>1, <1>2, <1>3, <1>4

\* The bits of the last digit that is left go behind those of the digits that
\* follow it.
LEMMA ExpandStep ==
    ASSUME IInv, Expand
    PROVE  IInv'
PROOF
<1> DEFINE cd == constant.digits
           w == BitsPerDigit
           m == Len(digits)
           n == Len(cd) - m
           d == digits[m]
<1>1. /\ constant' = constant /\ base' = base /\ node' = node
      /\ pc = "expand" /\ base # 10 /\ digits # <<>>
  BY DEF Expand, IInv, PhaseInv
<1>2. CASE d >= base /\ d < X
  BY <1>1, <1>2 DEF Expand, IInv, ConstantInv, PhaseInv, HalvedInv, ExpandedInv
<1>3. CASE ~(d >= base /\ d < X)
  <2> DEFINE new == [i \in 1 .. w |-> DigitBit(d, i - 1)]
  <2>1. /\ data' = data \o new
        /\ digits' = SubSeq(digits, 1, m - 1)
        /\ pc' = pc
    BY <1>3 DEF Expand
  <2>2. /\ cd \in Seq(DigitValues) /\ w \in {1, 3, 4}
        /\ Expanded(cd, w)
    BY <1>1, ExpandedFacts
  <2>3. Expanded(cd, w)'
    <3>1. /\ cd' = cd /\ w' = w
          /\ \A e, i : DigitBit(e, i)' = DigitBit(e, i)
      BY <1>1 DEF BitsPerDigit, DigitBit, CaseType
    <3> HIDE DEF w, cd
    <3>2. /\ digits \in Seq(DigitValues) /\ m \in Nat \ {0}
          /\ m <= Len(cd) /\ Len(cd) \in Nat /\ n \in Nat
          /\ \A k \in 1 .. m : digits[k] = cd[k]
          /\ data \in Seq(BitValues) /\ Len(data) = w * n
          /\ \A i \in 1 .. Len(data) :
                data[i] = DigitBit(cd[Len(cd) - ((i - 1) \div w)], (i - 1) % w)
      BY <1>1, <2>2 DEF Expanded
    <3>3. /\ digits' \in Seq(DigitValues) /\ Len(digits') = m - 1
          /\ \A k \in 1 .. m - 1 : digits'[k] = cd[k]
      <4> HIDE DEF m, n
      <4>1. \A k \in 1 .. m - 1 : digits[k] \in DigitValues
        BY <3>2 DEF m
      <4>2. 1 \in Int /\ m - 1 \in Int /\ (1 <= m - 1 \/ m - 1 = 0)
        BY <3>2
      <4>3. /\ SubSeq(digits, 1, m - 1) \in Seq(DigitValues)
            /\ Len(SubSeq(digits, 1, m - 1)) = IF 1 <= m - 1 THEN (m - 1) - 1 + 1 ELSE 0
            /\ \A i \in 1 .. (m - 1) - 1 + 1 : SubSeq(digits, 1, m - 1)[i] = digits[1 + i - 1]
        BY <4>1, <4>2, SubSeqProperties
      <4>4. Len(SubSeq(digits, 1, m - 1)) = m - 1
        BY <4>2, <4>3
      <4>5. ASSUME NEW k \in 1 .. m - 1
            PROVE  SubSeq(digits, 1, m - 1)[k] = cd[k]
        <5>1. k \in 1 .. (m - 1) - 1 + 1 /\ 1 + k - 1 = k /\ k \in 1 .. m
          BY <3>2
        <5> QED
          BY <3>2, <4>3, <5>1
      <4> QED
        BY <2>1, <4>3, <4>4, <4>5
    <3>4. new \in Seq(BitValues) /\ Len(new) = w /\ w \in Nat \ {0}
          /\ \A j \in 1 .. w : new[j] = DigitBit(d, j - 1)
      <4>1. w \in Nat \ {0}
        BY <2>2
      <4>2. new \in [1 .. w -> BitValues]
        BY DigitBitIsBit
      <4>3. new \in Seq(BitValues) /\ Len(new) = w
        BY <4>1, <4>2
      <4> QED
        BY <4>1, <4>3
    <3> HIDE DEF new
    <3>5. /\ data' \in Seq(BitValues) /\ Len(data') = w * n + w
          /\ \A i \in 1 .. w * n + w :
                data'[i] = IF i <= w * n THEN data[i] ELSE new[i - w * n]
      <4>1. /\ data \o new \in Seq(BitValues)
            /\ Len(data \o new) = Len(data) + Len(new)
            /\ \A i \in 1 .. Len(data) + Len(new) :
                  (data \o new)[i] = IF i <= Len(data) THEN data[i] ELSE new[i - Len(data)]
        BY <3>2, <3>4, ConcatProperties
      <4> HIDE DEF n, m, d
      <4> QED
        BY <2>1, <3>2, <3>4, <4>1
    <3>6. w * n + w = w * (Len(cd) - (m - 1)) /\ w * n \in Nat
      BY <3>2, <3>4
    <3>7. ASSUME NEW i \in 1 .. w * n + w
          PROVE  data'[i] = DigitBit(cd[Len(cd) - ((i - 1) \div w)], (i - 1) % w)
      <4>1. CASE i <= w * n
        <5>1. i \in 1 .. Len(data)
          BY <3>2, <3>6, <4>1
        <5> QED
          BY <3>2, <3>5, <4>1, <5>1
      <4>2. CASE ~(i <= w * n)
        <5> DEFINE j == i - w * n
        <5>1. j \in 1 .. w /\ i - 1 = n * w + (j - 1)
          BY <3>2, <3>4, <3>6, <4>2
        <5> HIDE DEF j
        <5>2. j - 1 \in Int /\ 0 <= j - 1 /\ j - 1 < w /\ n \in Int
          BY <3>2, <3>4, <5>1
        <5> HIDE DEF n
        <5>3. (n * w + (j - 1)) \div w = n /\ (n * w + (j - 1)) % w = j - 1
          BY <3>4, <5>2, Quotient
        <5>4. (i - 1) \div w = n /\ (i - 1) % w = j - 1
          BY <5>1, <5>3
        <5>5. Len(cd) - n = m /\ d = cd[m]
          BY <3>2 DEF n
        <5>6. data'[i] = new[j]
          BY <3>5, <4>2 DEF j
        <5> QED
          BY <3>4, <5>1, <5>4, <5>5, <5>6
      <4> QED
        BY <4>1, <4>2
    <3>8. m - 1 <= Len(cd)
      BY <3>2
    <3> QED
      BY <3>1, <3>3, <3>5, <3>6, <3>7, <3>8 DEF Expanded
  <2> QED
    BY <1>1, <2>1, <2>3 DEF IInv, ConstantInv, PhaseInv, HalvedInv, ExpandedInv, BitsPerDigit
<1> QED
  BY <1>2, <1>3

LEMMA InvariantStep ==
    ASSUME IInv, [Next]_vars
    PROVE  IInv'
PROOF
<1>1. CASE UNCHANGED vars
  BY <1>1 DEF vars, IInv, ConstantInv, PhaseInv, HalvedInv, ExpandedInv, Decimal, Written,
              Expanded, DigitBit, CaseType, BitsPerDigit
<1>2. CASE Done
  BY <1>1, <1>2 DEF Done
<1> QED
  BY <1>1, <1>2, ReadIntStep, ReadStringStep, HalveStep, ExpandStep, EndStep, ResizeStep DEF Next

LEMMA Invariant == Spec => []IInv
PROOF
<1>1. Init => IInv
  BY Initially
<1>2. IInv /\ [Next]_vars => IInv'
  BY InvariantStep
<1> QED
  BY <1>1, <1>2, PTL DEF Spec

\* The bits that decimal_div_by_two has pushed and the digits that are left make
\* up the number as written, at every step.
THEOREM HalvingIsExact == Spec => []HalvingKeepsNumber
PROOF
<1>1. IInv => HalvingKeepsNumber
  BY DEF IInv, PhaseInv, HalvedInv, HalvingKeepsNumber, Decimal
<1> QED
  BY <1>1, Invariant, PTL

------------------------------------------------------------------------------
(***************************************************************************)
(* The bits of a literal                                                   *)
(***************************************************************************)
\* When the digits of a decimal are used up, the bits stand for its number.
LEMMA HalvedFacts ==
    ASSUME IInv, pc = "resize", base = 10
    PROVE  /\ data \in Seq(Bits)
           /\ Decimal
           /\ ValueOf(data) = NumberOf(Written)
           /\ ~IsNumber(constant) => constant.base = 10
PROOF
<1>1. /\ constant \in Literals \cup Numbers
      /\ IsNumber(constant) => Oversized(constant)
      /\ digits = <<>>
      /\ ~IsNumber(constant) => constant.base = 10
      /\ data \in Seq(Bits)
      /\ ~Decimal => digits = Written
      /\ Decimal => NumberOf(digits) * Power(2, Len(data)) + ValueOf(data) = NumberOf(Written)
  BY DEF IInv, ConstantInv, PhaseInv, HalvedInv
<1>2. Decimal
  BY <1>1, WrittenFacts
<1>3. NumberOf(<<>>) = 0
  <2>1. <<>> \in Seq(Nat) /\ Len(<<>>) = 0
    OBVIOUS
  <2> QED
    BY <2>1, NumeralsStep DEF NumberOf
<1>4. Power(2, Len(data)) \in Nat /\ ValueOf(data) \in Nat
  <2>1. Len(data) \in Nat /\ Len(data) \in 0 .. Len(data)
    BY <1>1
  <2> QED
    BY <1>1, <2>1, PowersOfTwo, SumsStep DEF ValueOf
<1>5. 0 * Power(2, Len(data)) + ValueOf(data) = ValueOf(data)
  BY <1>4
<1> QED
  BY <1>1, <1>2, <1>3, <1>5

\* What data of 0 and 1 is extended with.
LEMMA FillerOfBits ==
    ASSUME data \in Seq(Bits)
    PROVE  Filler = "0"
PROOF
<1>1. CASE data = <<>>
  BY <1>1 DEF Filler, Msb
<1>2. CASE data # <<>>
  <2>1. data[Len(data)] \in Bits
    BY <1>2
  <2> QED
    BY <1>2, <2>1 DEF Filler, Msb, Bits
<1> QED
  BY <1>1, <1>2

\* Bits of 0 and 1, cut or extended, are those of their number.
LEMMA ResizedNumber ==
    ASSUME data \in Seq(Bits), NEW len \in Nat
    PROVE  /\ \A i \in 1 .. len : Resized(len)[i] = BitOf(ValueOf(data), i - 1)
           /\ Len(Resized(len)) = len
           /\ ValueOf(Resized(len)) = ValueOf(data) % Power(2, len)
PROOF
<1> DEFINE V == ValueOf(data)
<1>1. \A i \in 1 .. len : Resized(len)[i] = BitOf(V, i - 1)
  <2> TAKE i \in 1 .. len
  <2>1. Resized(len)[i] = IF i \in DOMAIN data THEN data[i] ELSE "0"
    BY FillerOfBits DEF Resized
  <2>2. i - 1 \in Nat /\ Len(data) \in Nat /\ DOMAIN data = 1 .. Len(data)
    OBVIOUS
  <2>3. CASE i \in DOMAIN data
    <3>1. i - 1 < Len(data) /\ (i - 1) + 1 = i
      BY <2>2, <2>3
    <3>2. BitOf(V, i - 1) = data[(i - 1) + 1]
      BY <2>2, <3>1, BitsOfValue
    <3> QED
      BY <2>1, <2>3, <3>1, <3>2
  <2>4. CASE i \notin DOMAIN data
    <3>1. i - 1 >= Len(data)
      BY <2>2, <2>4
    <3> QED
      BY <2>1, <2>2, <2>4, <3>1, BitsOfValue
  <2> QED
    BY <2>3, <2>4
<1>2. Resized(len) = [i \in 1 .. len |-> BitOf(V, i - 1)]
  BY <1>1 DEF Resized
<1>3. V \in Nat
  <2>1. Len(data) \in 0 .. Len(data)
    OBVIOUS
  <2> QED
    BY <2>1, SumsStep DEF ValueOf
<1> HIDE DEF V
<1>4. /\ Len([i \in 1 .. len |-> BitOf(V, i - 1)]) = len
      /\ ValueOf([i \in 1 .. len |-> BitOf(V, i - 1)]) = V % Power(2, len)
  BY <1>3, BitsOfNumber
<1> QED
  BY <1>1, <1>2, <1>4 DEF V

\* The place of bit i among n digits of w bits: it is one of digit n - i div w,
\* counted from the most significant one.
LEMMA Places ==
    ASSUME NEW n \in Nat \ {0}, NEW w \in {1, 3, 4}, NEW i \in Nat
    PROVE  /\ w * n \in Nat \ {0}
           /\ i < w * n => n - (i \div w) \in 1 .. n
           /\ i >= w * n => n - (i \div w) <= 0
           /\ i % w \in Nat
           /\ n - ((w * n - 1) \div w) = 1
PROOF
<1>1. CASE w = 1
  BY <1>1
<1>2. CASE w = 3
  BY <1>2
<1>3. CASE w = 4
  BY <1>3
<1> QED
  BY <1>1, <1>2, <1>3

\* The bits of an x or z digit, in any place, and of the other digits.
LEMMA DigitBits ==
    ASSUME NEW d \in DigitValues, NEW j, CaseType = constant.case
    PROVE  /\ d >= X => DigitBit(d, j) = IF Wild(d) THEN "a" ELSE IF d = X THEN "x" ELSE "z"
           /\ d < X => DigitBit(d, j) = BitOf(d, j)
           /\ d >= X \/ d < X
           /\ ~(d >= X /\ d < X)
PROOF
<1>1. X = 240 /\ Z = 241
  BY DEF X, Z
<1>2. d \in 0 .. 15 \/ d = 240 \/ d = 241
  BY <1>1 DEF DigitValues
<1>3. CASE d \in 0 .. 15
  <2>1. d # X /\ d # Z /\ d < X /\ ~(d >= X)
    BY <1>1, <1>3
  <2> QED
    BY <2>1 DEF DigitBit
<1>4. CASE d = 240
  <2>1. d = X /\ d # Z /\ d >= X /\ ~(d < X)
    BY <1>1, <1>4
  <2> QED
    BY <2>1 DEF DigitBit, Wild
<1>5. CASE d = 241
  <2>1. d # X /\ d = Z /\ d >= X /\ ~(d < X)
    BY <1>1, <1>5
  <2>2. DigitBit(d, j) = IF CaseType \in {"casex", "casez"} THEN "a" ELSE "z"
    BY <2>1 DEF DigitBit
  <2>3. Wild(d) <=> CaseType \in {"casex", "casez"}
    BY <2>1 DEF Wild
  <2> QED
    BY <2>1, <2>2, <2>3
<1> QED
  BY <1>2, <1>3, <1>4, <1>5

\* Every bit of an accepted literal is the one its digits say, to any length.
LEMMA ResizedAsWritten ==
    ASSUME IInv, pc = "resize", ~IsNumber(constant), NEW len \in Nat, NEW n \in 1 .. len
    PROVE  Resized(len)[n] = BitAsWritten(n - 1)
PROOF
<1> DEFINE ds == constant.digits
           i == n - 1
           d == DigitOf(i)
<1>1. /\ ds \in Seq(DigitValues) /\ Len(ds) \in Nat \ {0}
      /\ constant.base \in {2, 8, 10, 16}
      /\ Written = ds /\ CaseType = constant.case
  <2>1. constant \in Literals \cup Numbers
    BY DEF IInv, ConstantInv
  <2> QED
    BY <2>1, LiteralFacts
<1>2. i \in Nat /\ n = i + 1
  OBVIOUS
<1>3. CASE base = 10
  <2>1. data \in Seq(Bits) /\ Decimal /\ ValueOf(data) = NumberOf(ds) /\ constant.base = 10
    BY <1>1, <1>3, HalvedFacts
  <2>2. Resized(len)[n] = BitOf(NumberOf(ds), i)
    BY <2>1, ResizedNumber
  <2>3. d = ds[1] /\ d \in DigitValues
    BY <1>1, <2>1 DEF DigitOf
  <2>4. d < 10
    BY <1>1, <2>1, <2>3 DEF Decimal
  <2>5. d < X /\ ~(d >= X)
    BY <2>3, <2>4 DEF DigitValues, X, Z
  <2> HIDE DEF d
  <2>6. BitAsWritten(i) = BitOf(NumberOf(ds), i)
    BY <2>1, <2>5 DEF BitAsWritten, d
  <2> QED
    BY <2>2, <2>6
<1>4. CASE base # 10
  <2> DEFINE w == BitsPerDigit
             within == i < w * Len(ds)
  <2>1. /\ Expanded(ds, w)
        /\ w \in {1, 3, 4}
        /\ \/ constant.base # 10
           \/ constant.base = 10 /\ Len(ds) = 1 /\ ds[1] >= X
        /\ constant.base # 10 => DigitWidth = w
    BY <1>1, <1>4, ExpandedFacts DEF DigitWidth
  <2> HIDE DEF w
  <2>2. /\ Len(data) = w * Len(ds) /\ DOMAIN data = 1 .. Len(data)
        /\ \A j \in 1 .. Len(data) :
              data[j] = DigitBit(ds[Len(ds) - ((j - 1) \div w)], (j - 1) % w)
    <3>1. digits = <<>> /\ Len(<<>>) = 0 /\ Len(ds) - 0 = Len(ds)
      BY <1>1 DEF IInv, PhaseInv
    <3>2. DOMAIN data = 1 .. Len(data)
      BY <2>1 DEF Expanded
    <3> QED
      BY <2>1, <3>1, <3>2 DEF Expanded
  <2>3. /\ w * Len(ds) \in Nat \ {0}
        /\ within => Len(ds) - (i \div w) \in 1 .. Len(ds)
        /\ ~within => Len(ds) - (i \div w) <= 0
        /\ Len(ds) - ((w * Len(ds) - 1) \div w) = 1
        /\ i \div w \in Int
    <3>1. /\ w * Len(ds) \in Nat \ {0}
          /\ i < w * Len(ds) => Len(ds) - (i \div w) \in 1 .. Len(ds)
          /\ i >= w * Len(ds) => Len(ds) - (i \div w) <= 0
          /\ Len(ds) - ((w * Len(ds) - 1) \div w) = 1
      BY <1>1, <1>2, <2>1, Places
    <3>2. w \in Nat \ {0} /\ i \in Int
      BY <1>2, <2>1
    <3>3. i \div w \in Int
      BY <3>2, Division
    <3> HIDE DEF i
    <3>4. i >= w * Len(ds) <=> ~within
      BY <1>2, <3>1
    <3> QED
      BY <3>1, <3>3, <3>4
  <2> HIDE DEF i, within
  <2>4. /\ within => d = ds[Len(ds) - (i \div w)]
        /\ ~within => d = ds[1]
        /\ d \in DigitValues
    <3>1. CASE constant.base = 10
      <4>1. d = ds[1] /\ Len(ds) = 1
        BY <2>1, <3>1 DEF DigitOf
      <4>2. within => Len(ds) - (i \div w) = 1
        BY <2>3, <4>1
      <4> QED
        BY <1>1, <4>1, <4>2
    <3>2. CASE constant.base # 10
      <4> DEFINE p == Len(ds) - (i \div w)
      <4>1. d = ds[Larger(1, p)]
        BY <2>1, <3>2 DEF DigitOf
      <4>2. within => p \in 1 .. Len(ds)
        BY <2>3
      <4>3. ~within => p <= 0
        BY <2>3
      <4>4. p \in Int
        BY <1>1, <2>3
      <4> HIDE DEF p
      <4>5. within => Larger(1, p) = p
        BY <4>2 DEF Larger
      <4>6. ~within => Larger(1, p) = 1
        BY <4>3, <4>4 DEF Larger
      <4>7. Larger(1, p) \in 1 .. Len(ds)
        BY <1>1, <4>2, <4>5, <4>6
      <4>8. d \in DigitValues
        BY <1>1, <4>1, <4>7
      <4> HIDE DEF d
      <4> QED
        BY <4>1, <4>5, <4>6, <4>8 DEF p
    <3> QED
      BY <3>1, <3>2
  <2>5. d < X => constant.base # 10
    <3>1. constant.base = 10 => d >= X
      BY <2>1 DEF DigitOf
    <3>2. ~(d >= X /\ d < X)
      BY <1>1, <2>4, DigitBits
    <3> QED
      BY <3>1, <3>2
  <2> HIDE DEF d
  <2>6. /\ \A j : d >= X => DigitBit(d, j) = IF Wild(d) THEN "a" ELSE IF d = X THEN "x" ELSE "z"
        /\ \A j : d < X => DigitBit(d, j) = BitOf(d, j)
        /\ d >= X \/ d < X
        /\ ~(d >= X /\ d < X)
    BY <1>1, <2>4, DigitBits
  <2>7. /\ d >= X => BitAsWritten(i) = IF Wild(d) THEN "a" ELSE IF d = X THEN "x" ELSE "z"
        /\ d < X => BitAsWritten(i) = IF within THEN BitOf(d, i % w) ELSE "0"
    <3>1. CASE d >= X
      BY <2>6, <3>1 DEF BitAsWritten, d
    <3>2. CASE d < X
      <4>1. constant.base # 10 /\ DigitWidth = w /\ ~(d >= X)
        BY <2>1, <2>5, <2>6, <3>2
      <4> QED
        BY <3>2, <4>1 DEF BitAsWritten, d, within
    <3> QED
      BY <2>6, <3>1, <3>2
  <2>8. CASE within
    <3>1. n \in DOMAIN data /\ n - 1 = i
      BY <1>2, <2>2, <2>3, <2>8 DEF within, i
    <3>2. Resized(len)[n] = data[n]
      BY <3>1 DEF Resized
    <3>3. data[n] = DigitBit(d, i % w)
      BY <2>2, <2>4, <2>8, <3>1
    <3> QED
      BY <2>6, <2>7, <2>8, <3>2, <3>3 DEF i
  <2>9. CASE ~within
    <3>1. n \notin DOMAIN data
      BY <1>2, <2>2, <2>3, <2>9 DEF within, i
    <3>2. Resized(len)[n] = Filler
      BY <3>1 DEF Resized
    <3>3. Msb = DigitBit(d, (Len(data) - 1) % w)
      <4>1. Len(data) \in 1 .. Len(data) /\ data # <<>>
        BY <2>2, <2>3
      <4>2. Msb = data[Len(data)]
        BY <4>1 DEF Msb
      <4>3. data[Len(data)] = DigitBit(ds[Len(ds) - ((Len(data) - 1) \div w)], (Len(data) - 1) % w)
        BY <2>2, <4>1
      <4> QED
        BY <2>2, <2>3, <2>4, <2>9, <4>2, <4>3
    <3>4. CASE d >= X
      <4>1. Msb = IF Wild(d) THEN "a" ELSE IF d = X THEN "x" ELSE "z"
        BY <2>6, <3>3, <3>4
      <4>2. Filler = Msb
        BY <4>1 DEF Filler
      <4> QED
        BY <2>7, <3>2, <3>4, <4>1, <4>2 DEF i
    <3>5. CASE d < X
      <4>1. Msb \in {"0", "1"}
        BY <2>6, <3>3, <3>5 DEF BitOf
      <4>2. Filler = "0"
        BY <4>1 DEF Filler
      <4> QED
        BY <2>7, <2>9, <3>2, <3>5, <4>2 DEF i
    <3> QED
      BY <2>6, <3>4, <3>5
  <2> QED
    BY <2>8, <2>9
<1> QED
  BY <1>3, <1>4

\* The 0 that keeps a signed constant positive is the bit it would be extended
\* with, once all its bits are there.
LEMMA PositiveExtends ==
    ASSUME NEW len \in Nat \ {0}, NEW S, data \in Seq(S), Len(data) <= len
    PROVE  Positive(Resized(len)) = Resized(len) \/ Positive(Resized(len)) = Resized(len + 1)
PROOF
<1> DEFINE bits == Resized(len)
           more == Resized(len + 1)
<1>1. /\ bits = [i \in 1 .. len |-> bits[i]] /\ Len(bits) = len
      /\ \A i \in 1 .. len : bits[i] = IF i \in DOMAIN data THEN data[i] ELSE Filler
      /\ more = [i \in 1 .. len + 1 |-> more[i]]
      /\ \A i \in 1 .. len + 1 : more[i] = IF i \in DOMAIN data THEN data[i] ELSE Filler
  BY DEF Resized
<1>2. Len(data) \in Nat /\ DOMAIN data = 1 .. Len(data)
  OBVIOUS
<1> HIDE DEF bits, more
<1>3. CASE bits[len] = "1"
  <2>1. Filler = "0"
    <3>1. CASE len \in DOMAIN data
      <4>1. len = Len(data) /\ data # <<>>
        <5> DEFINE n == Len(data)
        <5>1. n \in Nat /\ len \in 1 .. n /\ n <= len
          BY <1>2, <3>1
        <5> HIDE DEF n
        <5>2. len = n /\ n # 0
          BY <5>1
        <5> QED
          BY <5>2 DEF n
      <4>2. Msb = "1"
        BY <1>1, <1>3, <3>1, <4>1 DEF Msb
      <4> QED
        BY <4>2 DEF Filler
    <3>2. CASE len \notin DOMAIN data
      <4>1. Filler = "1"
        BY <1>1, <1>3, <3>2
      <4>2. Filler # "1"
        BY DEF Filler
      <4> QED
        BY <4>1, <4>2
    <3> QED
      BY <3>1, <3>2
  <2>2. Positive(bits) = Append(bits, "0")
    BY <1>1, <1>3 DEF Positive
  <2>3. more[len + 1] = "0"
    <3>1. len + 1 \notin DOMAIN data
      BY <1>2
    <3> QED
      BY <1>1, <2>1, <3>1
  <2>4. \A i \in 1 .. len : more[i] = bits[i]
    BY <1>1
  <2>5. Append(bits, "0") = [i \in 1 .. len + 1 |-> IF i <= len THEN bits[i] ELSE "0"]
    BY <1>1
  <2>6. \A i \in 1 .. len + 1 : more[i] = IF i <= len THEN bits[i] ELSE "0"
    BY <2>3, <2>4
  <2>7. more = Append(bits, "0")
    BY <1>1, <2>5, <2>6
  <2> QED
    BY <2>2, <2>7 DEF bits, more
<1>4. CASE bits[len] # "1"
  <2>1. Positive(bits) = bits
    BY <1>1, <1>4 DEF Positive
  <2> QED
    BY <2>1 DEF bits
<1> QED
  BY <1>3, <1>4

\* What Resize makes: the bits so far, cut or extended to some length.
LEMMA ResizeMakes ==
    ASSUME IInv, Resize, NEW S, data \in Seq(S)
    PROVE  \E len \in Nat :
               /\ node'.bits = Resized(len)
               /\ CASE constant.size # Unsized -> len = constant.size
                    [] Unbased(constant)        -> len = 1 /\ node'.unsized
                    [] OTHER                    -> len >= IntBits
PROOF
<1> DEFINE signed == IsNumber(constant) \/ constant.signed
           unsized == constant.size = Unsized
           least == Larger(Len(data), IntBits)
<1>1. /\ node'.unsized = unsized
      /\ ~unsized => node'.bits = Resized(constant.size)
      /\ unsized /\ signed => node'.bits = Positive(BitsWithoutSize)
      /\ unsized /\ ~signed => node'.bits = BitsWithoutSize
  BY DEF Resize
<1>2. constant.size \in Nat /\ (constant.signed \in BOOLEAN)
  <2>1. constant \in Literals \cup Numbers
    BY DEF IInv, ConstantInv
  <2> QED
    BY <2>1, LiteralFacts, NumberFacts
<1>3. CASE ~unsized
  <2>1. constant.size # Unsized /\ node'.bits = Resized(constant.size) /\ ~Unbased(constant)
    BY <1>1, <1>3 DEF Unbased
  <2> QED
    BY <1>2, <2>1
<1>4. CASE unsized /\ Unbased(constant)
  <2>1. ~signed
    BY <1>4 DEF Unbased
  <2>2. node'.bits = Resized(1) /\ node'.unsized
    BY <1>1, <1>4, <2>1 DEF BitsWithoutSize
  <2>3. constant.size = Unsized /\ 1 \in Nat
    BY <1>4
  <2> QED
    BY <1>4, <2>2, <2>3
<1>5. CASE unsized /\ ~Unbased(constant)
  <2>1. least \in Nat \ {0} /\ Len(data) <= least /\ least >= IntBits /\ IntBits \in Nat
    <3>1. Len(data) \in Nat /\ IntBits \in Nat \ {0}
      BY WidthsAssumption
    <3> QED
      BY <3>1 DEF Larger
  <2> HIDE DEF least, signed
  <2>2. \/ node'.bits = Resized(least)
        \/ node'.bits = Positive(Resized(least))
    BY <1>1, <1>5 DEF BitsWithoutSize, least
  <2>3. \/ Positive(Resized(least)) = Resized(least)
        \/ Positive(Resized(least)) = Resized(least + 1)
    BY <2>1, PositiveExtends
  <2>4. \E len \in Nat : node'.bits = Resized(len) /\ len >= IntBits
    <3>1. CASE node'.bits = Resized(least)
      BY <2>1, <3>1
    <3>2. CASE node'.bits = Resized(least + 1)
      <4> DEFINE len == least + 1
      <4>1. len \in Nat /\ len >= IntBits /\ node'.bits = Resized(len)
        BY <2>1, <3>2
      <4> HIDE DEF len
      <4> QED
        BY <4>1
    <3> QED
      BY <2>2, <2>3, <3>1, <3>2
  <2> QED
    BY <1>5, <2>4
<1> QED
  BY <1>3, <1>4, <1>5

\* What data holds when it is resized.
LEMMA DataWhenResized ==
    ASSUME IInv, pc = "resize"
    PROVE  data \in Seq(BitValues)
PROOF
<1>1. CASE base = 10
  <2>1. Bits \subseteq BitValues
    BY DEF BitValues
  <2> QED
    BY <1>1, <2>1, HalvedFacts, SeqMonotonic
<1>2. CASE base # 10
  BY <1>2 DEF IInv, ExpandedInv, Expanded
<1> QED
  BY <1>1, <1>2

LEMMA LiteralStep ==
    ASSUME IInv, BitsAsWritten, [Next]_vars
    PROVE  BitsAsWritten'
PROOF
<1>1. ASSUME constant' = constant
      PROVE  /\ IsNumber(constant)' = IsNumber(constant)
             /\ Unbased(constant)' = Unbased(constant)
             /\ \A i : BitAsWritten(i)' = BitAsWritten(i)
  BY <1>1 DEF IsNumber, Unbased, BitAsWritten, DigitOf, DigitWidth, Wild
<1>2. CASE UNCHANGED vars
  <2>1. constant' = constant /\ node' = node /\ pc' = pc
    BY <1>2 DEF vars
  <2> QED
    BY <1>1, <2>1 DEF BitsAsWritten
<1>3. CASE Resize
  <2>1. constant' = constant /\ pc = "resize" /\ pc' = "done"
    BY <1>3 DEF Resize
  <2>2. PICK len \in Nat :
               /\ node'.bits = Resized(len)
               /\ CASE constant.size # Unsized -> len = constant.size
                    [] Unbased(constant)        -> len = 1 /\ node'.unsized
                    [] OTHER                    -> len >= IntBits
    BY <1>3, <2>1, DataWhenResized, ResizeMakes
  <2>3. SUFFICES ASSUME ~IsNumber(constant)
                 PROVE  /\ \A i \in DOMAIN node'.bits : node'.bits[i] = BitAsWritten(i - 1)
                        /\ CASE constant.size # Unsized -> Len(node'.bits) = constant.size
                             [] Unbased(constant)        -> Len(node'.bits) = 1 /\ node'.unsized
                             [] OTHER                    -> Len(node'.bits) >= IntBits
    BY <1>1, <2>1 DEF BitsAsWritten
  <2>4. DOMAIN Resized(len) = 1 .. len /\ Len(Resized(len)) = len
    BY DEF Resized
  <2>5. \A i \in 1 .. len : Resized(len)[i] = BitAsWritten(i - 1)
    BY <2>1, <2>3, ResizedAsWritten
  <2> QED
    BY <2>2, <2>4, <2>5
<1>4. CASE ReadInt
  <2>1. IsNumber(constant) /\ constant' = constant
    BY <1>4 DEF ReadInt
  <2> QED
    BY <1>1, <2>1 DEF BitsAsWritten
<1>5. CASE ReadString \/ Halve \/ Halve_End \/ Expand \/ Expand_End
  <2>1. pc' # "done"
    BY <1>5 DEF ReadString, Halve, Halve_End, Expand, Expand_End
  <2> QED
    BY <2>1 DEF BitsAsWritten
<1> QED
  BY <1>2, <1>3, <1>4, <1>5 DEF Next, Done

\* A literal that is accepted has the bits that IEEE 1800 reads in its digits, cut
\* or extended to its size, for every base, width and number of digits.
THEOREM LiteralsAreExact == Spec => []BitsAsWritten
PROOF
<1>1. Init => BitsAsWritten
  BY DEF Init, BitsAsWritten
<1>2. IInv /\ BitsAsWritten /\ [Next]_vars => BitsAsWritten'
  BY LiteralStep
<1> QED
  BY <1>1, <1>2, Invariant, PTL DEF Spec

------------------------------------------------------------------------------
(***************************************************************************)
(* The value of an integer                                                 *)
(***************************************************************************)
\* A remainder by a power of two has the remainder by any smaller one.
LEMMA RemainderOfRemainder ==
    ASSUME NEW v \in Int, NEW j \in Nat, NEW k \in Nat, j <= k
    PROVE  (v % Power(2, k)) % Power(2, j) = v % Power(2, j)
PROOF
<1> DEFINE P == Power(2, k)
           p == Power(2, j)
           a == v \div P
           m == v % P
           q == m \div p
           r == m % p
<1>1. P \in Nat \ {0} /\ p \in Nat \ {0}
  BY PowersOfTwo
<1>2. PICK d \in Nat \ {0} : P = d * p
  BY PowerMultiple
<1> HIDE DEF P, p
<1>3. a \in Int /\ m \in Nat /\ v = a * P + m
  BY <1>1, Division, Zenon
<1> HIDE DEF a, m
<1>4. q \in Int /\ r \in Nat /\ r < p /\ m = q * p + r
  <2>1. m \in Int
    BY <1>3
  <2> QED
    BY <1>1, <2>1, Division, Zenon
<1> HIDE DEF q, r
<1> DEFINE e == a * d + q
<1>5. e \in Int /\ v = e * p + r
  BY <1>1, <1>2, <1>3, <1>4
<1> HIDE DEF e
<1>6. r \in Int /\ 0 <= r
  BY <1>4
<1>7. (e * p + r) % p = r
  BY <1>1, <1>4, <1>5, <1>6, Quotient
<1>8. v % p = r
  BY <1>5, <1>7
<1> QED
  BY <1>8 DEF r, m, P, p

\* Bits that are a number modulo 2^n are its two's complement if it fits n bits.
LEMMA SignedOfResidue ==
    ASSUME NEW bits \in Seq(Bits), NEW n \in Nat \ {0}, n = Len(bits),
           NEW v \in Int, Fits(v, n), ValueOf(bits) = v % Power(2, n)
    PROVE  SignedValueOf(bits) = v
PROOF
<1> DEFINE p == Power(2, n - 1)
           W == Power(2, n)
<1>1. n - 1 \in Nat /\ p \in Nat \ {0} /\ W \in Nat \ {0} /\ W = 2 * p
  <2>1. n - 1 \in Nat /\ (n - 1) + 1 = n
    OBVIOUS
  <2> QED
    BY <2>1, PowersOfTwo
<1>2. -p <= v /\ v < p
  BY DEF Fits
<1>3. BitOf(ValueOf(bits), n - 1) = bits[n]
  <2>1. n - 1 < Len(bits) /\ (n - 1) + 1 = n /\ n - 1 \in Nat
    OBVIOUS
  <2> QED
    BY <2>1, BitsOfValue
<1>4. SignedValueOf(bits) = ValueOf(bits) - IF bits[n] = "1" THEN W ELSE 0
  BY DEF SignedValueOf
<1>5. ValueOf(bits) = v % W
  OBVIOUS
<1>6. BitOf(ValueOf(bits), n - 1) = IF (ValueOf(bits) \div p) % 2 = 1 THEN "1" ELSE "0"
  BY DEF BitOf
<1> HIDE DEF p, W
<1>7. CASE v >= 0
  <2>1. 0 * W + v = v /\ 0 * p + v = v /\ 0 <= v /\ v < W /\ v < p /\ 0 \in Int
    BY <1>1, <1>2, <1>7
  <2>2. (0 * W + v) % W = v
    BY <1>1, <2>1, Quotient
  <2>3. (0 * p + v) \div p = 0
    BY <1>1, <2>1, Quotient
  <2>4. ValueOf(bits) = v /\ v \div p = 0
    BY <1>5, <2>1, <2>2, <2>3
  <2>5. bits[n] = "0"
    <3>1. 0 % 2 # 1
      OBVIOUS
    <3> QED
      BY <1>3, <1>6, <2>4, <3>1
  <2> QED
    BY <1>4, <2>4, <2>5
<1>8. CASE v < 0
  <2> DEFINE s == v + W
             t == v + p
             k == -1
  <2>1. /\ s \in Int /\ 0 <= s /\ s < W /\ k \in Int /\ k * W \in Int /\ v = k * W + s
        /\ t \in Int /\ 0 <= t /\ t < p /\ 1 \in Int /\ s = 1 * p + t /\ s - W = v
    BY <1>1, <1>2, <1>8
  <2> HIDE DEF s, t, k
  <2>2. (k * W + s) % W = s
    BY <1>1, <2>1, Quotient
  <2>3. (1 * p + t) \div p = 1
    BY <1>1, <2>1, Quotient
  <2>4. ValueOf(bits) = s /\ s \div p = 1
    BY <1>5, <2>1, <2>2, <2>3
  <2>5. bits[n] = "1"
    <3>1. 1 % 2 = 1
      OBVIOUS
    <3> QED
      BY <1>3, <1>6, <2>4, <3>1
  <2> QED
    BY <1>4, <2>1, <2>4, <2>5
<1>9. v >= 0 \/ v < 0
  OBVIOUS
<1> QED
  BY <1>7, <1>8, <1>9

\* What mkconst_int makes of an integer an int is not too small for.
LEMMA IntIsKept ==
    ASSUME constant \in Numbers, ~Oversized(constant), ~ZeroExtended(constant), NEW node1,
           node1 = MkConstInt(constant.value, IntSigned(constant), IntWidth(constant))
    PROVE  /\ ValueOf(node1.bits) = constant.value % Power(2, Len(node1.bits))
           /\ HasRoom(constant) /\ ~BelowInt(constant) => SignedValueOf(node1.bits) = constant.value
PROOF
<1> DEFINE v == constant.value
           width == IntWidth(constant)
           m == v % Power(2, IntBits)
           bits == [i \in 1 .. width |-> BitOf(m, i - 1)]
<1>1. /\ v \in Int
      /\ width \in Nat \ {0} /\ IntBits \in Nat \ {0} /\ IntBits - 1 \in Nat /\ width - 1 \in Nat
  <2>1. v \in Int /\ constant.size \in Nat
    BY NumbersAssumption
  <2>2. IntBits \in Nat \ {0}
    BY WidthsAssumption
  <2>3. width \in Nat \ {0}
    BY <2>1, <2>2 DEF IntWidth, Unsized
  <2> HIDE DEF width
  <2> QED
    BY <2>1, <2>2, <2>3
<1>2. node1.bits = bits
  BY DEF MkConstInt
<1>3. v <= Power(2, IntBits - 1) - 1 /\ Power(2, IntBits - 1) \in Nat
  <2>1. Power(2, IntBits - 1) \in Nat
    BY <1>1, PowersOfTwo
  <2> QED
    BY <1>1, <2>1 DEF Oversized
<1>4. v < 0 => width <= IntBits
  BY <1>1 DEF ZeroExtended
<1>f. HasRoom(constant) /\ ~BelowInt(constant) => Fits(v, width)
  <2>1. CASE width = IntBits
    BY <1>1, <1>3, <2>1 DEF BelowInt, Fits
  <2>2. CASE width # IntBits
    <3>1. width = constant.size /\ constant.size # Unsized
      BY <2>2 DEF IntWidth
    <3> QED
      BY <3>1 DEF HasRoom
  <2> QED
    BY <2>1, <2>2
<1> HIDE DEF v, width
<1>5. Power(2, IntBits) \in Nat \ {0} /\ Power(2, width) \in Nat \ {0}
  BY <1>1, PowersOfTwo
<1>6. m \in Nat
  BY <1>1, <1>5, Division
<1> HIDE DEF m
<1>7. /\ bits \in Seq(Bits) /\ Len(bits) = width
      /\ ValueOf(bits) = m % Power(2, width)
  BY <1>1, <1>6, BitsOfNumber
<1> HIDE DEF bits
<1>8. m % Power(2, width) = v % Power(2, width)
  <2>1. CASE width <= IntBits
    <3>1. width \in Nat /\ IntBits \in Nat
      BY <1>1
    <3> QED
      BY <1>1, <2>1, <3>1, RemainderOfRemainder DEF m
  <2>2. CASE ~(width <= IntBits)
    <3>1. Power(2, IntBits - 1) <= Power(2, IntBits)
      <4>1. IntBits - 1 <= IntBits /\ IntBits \in Nat
        BY <1>1
      <4> QED
        BY <1>1, <4>1, PowerMultiple
    <3>2. 0 <= v /\ v < Power(2, IntBits)
      BY <1>1, <1>3, <1>4, <1>5, <2>2, <3>1
    <3>3. (0 * Power(2, IntBits) + v) % Power(2, IntBits) = v
      BY <1>1, <1>5, <3>2, Quotient
    <3>4. 0 * Power(2, IntBits) + v = v
      BY <1>1, <1>5
    <3>5. m = v
      BY <3>3, <3>4 DEF m
    <3> QED
      BY <3>5
  <2> QED
    BY <2>1, <2>2
<1>9. ASSUME Fits(v, width)
      PROVE  SignedValueOf(bits) = v
  BY <1>1, <1>7, <1>8, <1>9, SignedOfResidue
<1> QED
  BY <1>2, <1>f, <1>7, <1>8, <1>9 DEF v

\* A number without a size gets a last bit that is not "1".
LEMMA PositiveBits ==
    ASSUME NEW len \in Nat \ {0}, NEW S, data \in Seq(S), Len(data) <= len
    PROVE  \E n \in Nat \ {0} :
              /\ len <= n /\ Positive(Resized(len)) = Resized(n)
              /\ Resized(n)[n] # "1"
PROOF
<1> DEFINE bits == Resized(len)
<1>1. /\ Len(bits) = len /\ bits = [i \in 1 .. len |-> bits[i]]
      /\ Resized(len + 1) = [i \in 1 .. len + 1 |-> Resized(len + 1)[i]]
  BY DEF Resized
<1>2. Positive(bits) = bits \/ Positive(bits) = Resized(len + 1)
  BY PositiveExtends
<1> HIDE DEF bits
<1>3. CASE bits[len] = "1"
  <2>1. Positive(bits) = Append(bits, "0")
    BY <1>1, <1>3 DEF Positive
  <2>2. /\ Append(bits, "0")[len + 1] = "0"
        /\ DOMAIN Append(bits, "0") = 1 .. len + 1
    BY <1>1
  <2>3. Append(bits, "0") # bits
    <3>1. DOMAIN bits = 1 .. len
      BY <1>1
    <3>2. len + 1 \in 1 .. len + 1 /\ len + 1 \notin 1 .. len
      OBVIOUS
    <3> QED
      BY <2>2, <3>1, <3>2
  <2>4. Positive(bits) = Resized(len + 1) /\ Resized(len + 1)[len + 1] # "1"
    BY <1>2, <2>1, <2>2, <2>3
  <2>5. len + 1 \in Nat \ {0} /\ len <= len + 1
    OBVIOUS
  <2> QED
    BY <2>4, <2>5 DEF bits
<1>4. CASE bits[len] # "1"
  <2>1. Positive(bits) = bits
    BY <1>1, <1>4 DEF Positive
  <2>2. len <= len
    OBVIOUS
  <2> QED
    BY <1>4, <2>1, <2>2 DEF bits
<1> QED
  BY <1>3, <1>4

\* What Resize makes of a number that was halved.
LEMMA ResizeKeeps ==
    ASSUME IInv, Resize, IsNumber(constant), data \in Seq(Bits), ValueOf(data) = constant.value
    PROVE  /\ ValueOf(node'.bits) = constant.value % Power(2, Len(node'.bits))
           /\ HasRoom(constant) => SignedValueOf(node'.bits) = constant.value
PROOF
<1> DEFINE v == constant.value
           least == Larger(Len(data), IntBits)
<1>1. constant.size \in Nat
  <2>1. constant \in Literals \cup Numbers
    BY DEF IInv, ConstantInv
  <2> QED
    BY <2>1, NumberFacts
<1>2. v \in Nat /\ v < Power(2, Len(data))
  <2>1. Sums(data)[Len(data)] < Power(2, Len(data)) /\ Sums(data)[Len(data)] \in Nat
    <3>1. Len(data) \in 0 .. Len(data)
      BY LenProperties
    <3> QED
      BY <3>1, SumsBelow, SumsStep
  <2> QED
    BY <2>1 DEF ValueOf
<1>3. ASSUME NEW len \in Nat
      PROVE  Resized(len) \in Seq(Bits) /\ Len(Resized(len)) = len /\ ValueOf(Resized(len)) = v % Power(2, len)
  <2>1. \A i \in 1 .. len : Resized(len)[i] \in Bits
    BY ResizedNumber DEF BitOf, Bits
  <2>2. Resized(len) \in Seq(Bits)
    BY <2>1 DEF Resized
  <2> QED
    BY <2>2, ResizedNumber
<1>4. CASE constant.size # Unsized
  <2>1. node'.bits = Resized(constant.size) /\ constant.size \in Nat \ {0}
    BY <1>1, <1>4 DEF Resize, Unsized
  <2>2. HasRoom(constant) => Fits(v, constant.size)
    BY <1>4 DEF HasRoom
  <2>3. v \in Int
    BY <1>2
  <2> HIDE DEF v
  <2>4. ASSUME HasRoom(constant)
        PROVE  SignedValueOf(Resized(constant.size)) = v
    BY <1>3, <2>1, <2>2, <2>3, <2>4, SignedOfResidue
  <2> QED
    BY <1>3, <2>1, <2>4 DEF v
<1>5. CASE constant.size = Unsized
  <2>1. least \in Nat \ {0} /\ Len(data) <= least
    <3>1. Len(data) \in Nat /\ IntBits \in Nat \ {0}
      BY WidthsAssumption
    <3> QED
      BY <3>1 DEF Larger
  <2>2. node'.bits = Positive(Resized(least))
    BY <1>5 DEF Resize, BitsWithoutSize, Unbased
  <2> HIDE DEF least, v
  <2>3. PICK n \in Nat \ {0} : least <= n /\ node'.bits = Resized(n) /\ Resized(n)[n] # "1"
    BY <2>1, <2>2, PositiveBits
  <2>4. Power(2, Len(data)) <= Power(2, n) /\ Power(2, Len(data)) \in Nat /\ Power(2, n) \in Nat \ {0}
    <3>1. Len(data) \in Nat /\ Len(data) <= n
      BY <2>1, <2>3
    <3> QED
      BY <3>1, PowerMultiple, PowersOfTwo
  <2>6. v % Power(2, n) = v
    <3> DEFINE W == Power(2, n)
    <3>1. 0 <= v /\ v < W /\ v \in Int /\ W \in Nat \ {0} /\ 0 \in Int /\ 0 * W + v = v
      BY <1>2, <2>4
    <3> HIDE DEF W
    <3>2. (0 * W + v) % W = v
      BY <3>1, Quotient
    <3> QED
      BY <3>1, <3>2 DEF W
  <2>7. /\ Len(Resized(n)) = n
        /\ ValueOf(Resized(n)) = v % Power(2, n)
        /\ ValueOf(Resized(n)) = v
    BY <1>3, <2>6
  <2>8. SignedValueOf(Resized(n)) = v
    BY <1>2, <2>3, <2>7 DEF SignedValueOf
  <2> QED
    BY <2>3, <2>7, <2>8 DEF v
<1> QED
  BY <1>4, <1>5

LEMMA NumberStep ==
    ASSUME IInv, NumberKept, [Next]_vars
    PROVE  NumberKept'
PROOF
<1>1. CASE UNCHANGED vars
  BY <1>1 DEF vars, NumberKept, IsNumber
<1>2. CASE ReadInt
  <2> DEFINE made == MkConstInt(constant.value, IntSigned(constant), IntWidth(constant))
  <2>1. /\ constant' = constant /\ IsNumber(constant) /\ ~Oversized(constant)
        /\ node' = [made EXCEPT !.unsized = constant.size = Unsized]
    BY <1>2 DEF ReadInt
  <2>2. node'.bits = made.bits /\ node'.signed = made.signed
    BY <2>1 DEF MkConstInt
  <2>3. constant \in Numbers
    <3>1. constant \in Literals \cup Numbers
      BY DEF IInv, ConstantInv
    <3> QED
      BY <2>1, <3>1, NumberFacts
  <2>4. ASSUME ~ZeroExtended(constant)
        PROVE  /\ ValueOf(made.bits) = constant.value % Power(2, Len(made.bits))
               /\ HasRoom(constant) /\ ~BelowInt(constant) => SignedValueOf(made.bits) = constant.value
    BY <2>1, <2>3, <2>4, IntIsKept
  <2> HIDE DEF made
  <2> QED
    BY <2>1, <2>2, <2>4 DEF NumberKept
<1>3. CASE Resize
  <2>1. constant' = constant /\ pc = "resize"
    BY <1>3 DEF Resize
  <2>2. SUFFICES ASSUME IsNumber(constant)
                 PROVE  /\ ValueOf(node'.bits) = constant.value % Power(2, Len(node'.bits))
                        /\ HasRoom(constant) => SignedValueOf(node'.bits) = constant.value
    BY <2>1 DEF NumberKept, IsNumber
  <2>3. NumberOf(Written) = constant.value
    <3>1. constant \in Literals \cup Numbers /\ Oversized(constant)
      BY <2>1, <2>2 DEF IInv, ConstantInv
    <3> QED
      BY <2>2, <3>1, NumberFacts
  <2>4. data \in Seq(Bits) /\ ValueOf(data) = constant.value
    <3>1. base = 10
      BY <2>1, <2>2 DEF IInv, ExpandedInv
    <3> QED
      BY <2>1, <2>3, <3>1, HalvedFacts
  <2> QED
    BY <1>3, <2>2, <2>4, ResizeKeeps
<1>4. CASE ReadString \/ Halve \/ Halve_End \/ Expand \/ Expand_End
  <2>1. pc' # "done"
    BY <1>4 DEF ReadString, Halve, Halve_End, Expand, Expand_End
  <2> QED
    BY <2>1 DEF NumberKept
<1> QED
  BY <1>1, <1>2, <1>3, <1>4 DEF Next, Done

\* An integer is cut to the bits of its constant as the language cuts it, and
\* loses nothing if these have room for it, for all integers and all widths but
\* two kinds of negative ones: those wider than an int, which are filled with
\* zeros, and those below the least int, which lose their upper bits.
THEOREM NumbersAreKept == Spec => []NumberKept
PROOF
<1>1. Init => NumberKept
  BY DEF Init, NumberKept
<1>2. IInv /\ NumberKept /\ [Next]_vars => NumberKept'
  BY NumberStep
<1> QED
  BY <1>1, <1>2, Invariant, PTL DEF Spec
=============================================================================
