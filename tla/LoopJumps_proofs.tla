--------------------------- MODULE LoopJumps_proofs ---------------------------
(***************************************************************************)
(* The removal of break and continue is right for every program: if no     *)
(* jump is left in the transformed loop, it has the effects of the loop    *)
(* that was written and leaves with it; and no jump is left exactly if     *)
(* every case statement has jumps in one item at most, that one is an      *)
(* AST_COND, and it is walked.                                             *)
(*                                                                         *)
(* The proofs are inductions on the height of blocks, so what is recursive *)
(* over blocks is first shown to have the equation that defines it.        *)
(***************************************************************************)
EXTENDS LoopJumps, WellFoundedInduction, TLAPS

\* Whether all jumps of a block are removed.  `allowed` tells whether there may
\* be jumps to the loop around the block, that is, whether transform_block walks
\* it.  Only one item of a case may have such jumps, and it must be an AST_COND;
\* what is behind a jump is deleted.
RemovableOver(inner, b, allowed) ==
    \/ b = End
    \/ /\ b.op \in Jumps => allowed
       /\ b.op = "block" => inner[b.body][allowed]
       /\ b.op = "loop" => inner[b.body][TRUE]
       /\ b.op = "case" =>
             \E one \in 0 .. Len(b.items) : \A k \in DOMAIN b.items :
                \/ inner[b.items[k]][FALSE]
                \/ k = one /\ allowed /\ b.exact /\ inner[b.items[k]][TRUE]
       /\ b.op \in Jumps \/ inner[b.rest][allowed]

Removable[d \in Nat] ==
    [b \in Written[d] |-> [allowed \in BOOLEAN |-> RemovableOver(Removable[d - 1], b, allowed)]]

------------------------------------------------------------------------------
(***************************************************************************)
(* Recursion over heights                                                  *)
(***************************************************************************)
\* A set of naturals has a least element.
LEMMA Least ==
    ASSUME NEW T \in SUBSET Nat, T # {}
    PROVE  \E n \in T : \A m \in T : n <= m
PROOF
<1>1. PICK n \in T : \A m \in T : <<m, n>> \notin OpToRel(<, Nat)
  <2> DEFINE R == OpToRel(<, Nat)
  <2>1. IsWellFoundedOn(R, Nat)
    BY NatLessThanWellFounded
  <2> HIDE DEF R
  <2>2. \E n \in T : \A m \in T : ~(<<m, n>> \in R)
    BY <2>1, WFMin
  <2> QED
    BY <2>2 DEF R
<1>2. \A m \in T : ~(m < n)
  BY <1>1 DEF OpToRel
<1>3. \A m \in T : m \in Nat /\ n \in Nat
  OBVIOUS
<1> QED
  BY <1>2, <1>3

\* Induction: what holds of 0 and of the next number holds of all.
LEMMA Induct ==
    ASSUME NEW T, 0 \in T, \A k \in Nat : k \in T => k + 1 \in T
    PROVE  \A n \in Nat : n \in T
PROOF
<1> DEFINE Others == Nat \ T
<1>1. SUFFICES ASSUME Others # {} PROVE FALSE
  OBVIOUS
<1>2. PICK n \in Others : \A m \in Others : n <= m
  <2>1. Others \in SUBSET Nat
    OBVIOUS
  <2> HIDE DEF Others
  <2> QED
    BY <1>1, <2>1, Least
<1>3. n - 1 \in Nat /\ n - 1 \notin Others
  BY <1>2
<1> QED
  BY <1>2, <1>3

\* What each recursive definition is at d, from what it is below.
At(what, given, d, below) ==
    CASE what = "written" -> IF d = 0 THEN {End} ELSE WrittenOver(below)
      [] what = "made" -> IF d = 0 THEN {End} ELSE MadeOver(below)
      [] what = "transform" ->
            [b \in Written[d] |-> [walked \in BOOLEAN |-> TransformStatements(below, b, walked)]]
      [] what = "run" ->
            [n \in 0 .. InnerIterations |-> [b \in Made[d] |-> [m \in Machine |->
                RunStatements(below, b, m, given, n)]]]
      [] what = "nested" ->
            IF d = 0 THEN Enter(given.s, given.m) ELSE Advance(given.run, given.s, below, d)
      [] what = "jump" -> [b \in Made[d] |-> JumpIn(below, b)]
      [] what = "removable" ->
            [b \in Written[d] |-> [allowed \in BOOLEAN |-> RemovableOver(below, b, allowed)]]

Follows(f, what, given) == f = [d \in Nat |-> At(what, given, d, f[d - 1])]

UpTo(f, n, what, given) == f = [k \in 0 .. n |-> At(what, given, k, f[k - 1])]

LEMMA UpToExists ==
    ASSUME NEW what, NEW given, \A p, q : At(what, given, 0, p) = At(what, given, 0, q)
    PROVE  \A n \in Nat : \E f : UpTo(f, n, what, given)
PROOF
<1> DEFINE T == {n \in Nat : \E f : UpTo(f, n, what, given)}
<1>1. 0 \in T
  <2> DEFINE f == [k \in 0 .. 0 |-> At(what, given, 0, 0)]
  <2>1. f = [k \in 0 .. 0 |-> At(what, given, k, f[k - 1])]
    <3>1. \A k \in 0 .. 0 : k = 0
      OBVIOUS
    <3>2. At(what, given, 0, 0) = At(what, given, 0, f[0 - 1])
      OBVIOUS
    <3> QED
      BY <3>1, <3>2
  <2>2. UpTo(f, 0, what, given)
    BY <2>1 DEF UpTo
  <2> QED
    BY <2>2
<1>2. ASSUME NEW n \in Nat, n \in T
      PROVE  n + 1 \in T
  <2>1. PICK f : UpTo(f, n, what, given)
    BY <1>2
  <2> DEFINE e == At(what, given, n + 1, f[n])
             h == [k \in 0 .. n + 1 |-> IF k = n + 1 THEN e ELSE f[k]]
  <2>2. \A k \in 0 .. n : h[k] = f[k]
    OBVIOUS
  <2>3. h[n + 1] = e
    OBVIOUS
  <2>4. h = [k \in 0 .. n + 1 |-> h[k]]
    OBVIOUS
  <2> HIDE DEF h
  <2>5. ASSUME NEW k \in 0 .. n + 1
        PROVE  h[k] = At(what, given, k, h[k - 1])
    <3>1. CASE k = n + 1
      <4>1. k - 1 = n /\ n \in 0 .. n
        BY <3>1
      <4> QED
        BY <2>2, <2>3, <3>1, <4>1
    <3>2. CASE k # n + 1 /\ k # 0
      <4>1. k \in 0 .. n /\ k - 1 \in 0 .. n
        BY <3>2
      <4>2. f[k] = At(what, given, k, f[k - 1])
        BY <2>1, <4>1 DEF UpTo
      <4> QED
        BY <2>2, <4>1, <4>2
    <3>3. CASE k = 0
      <4>1. f[0] = At(what, given, 0, f[0 - 1])
        BY <2>1 DEF UpTo
      <4>2. h[0] = f[0]
        BY <2>2
      <4>3. At(what, given, 0, f[0 - 1]) = At(what, given, 0, h[0 - 1])
        OBVIOUS
      <4> QED
        BY <3>3, <4>1, <4>2, <4>3
    <3> QED
      BY <3>1, <3>2, <3>3
  <2>6. UpTo(h, n + 1, what, given)
    BY <2>4, <2>5 DEF UpTo
  <2> QED
    BY <2>6
<1> HIDE DEF T
<1>3. \A n \in Nat : n \in T
  BY <1>1, <1>2, Induct
<1> QED
  BY <1>3 DEF T

LEMMA UpToAlike ==
    ASSUME NEW what, NEW given, \A p, q : At(what, given, 0, p) = At(what, given, 0, q),
           NEW n \in Nat, NEW f, UpTo(f, n, what, given),
           NEW i \in Nat, NEW h, UpTo(h, i, what, given)
    PROVE  \A k \in Nat : k <= n /\ k <= i => f[k] = h[k]
PROOF
<1> DEFINE T == {k \in Nat : k <= n /\ k <= i => f[k] = h[k]}
<1>1. 0 \in T
  <2>1. f[0] = At(what, given, 0, f[0 - 1]) /\ h[0] = At(what, given, 0, h[0 - 1])
    BY DEF UpTo
  <2>2. At(what, given, 0, f[0 - 1]) = At(what, given, 0, h[0 - 1])
    OBVIOUS
  <2> QED
    BY <2>1, <2>2
<1>2. ASSUME NEW k \in Nat, k \in T
      PROVE  k + 1 \in T
  <2>1. SUFFICES ASSUME k + 1 <= n, k + 1 <= i PROVE f[k + 1] = h[k + 1]
    OBVIOUS
  <2>2. f[k + 1] = At(what, given, k + 1, f[k]) /\ h[k + 1] = At(what, given, k + 1, h[k])
    <3>1. k + 1 \in 0 .. n /\ k + 1 \in 0 .. i /\ (k + 1) - 1 = k
      BY <2>1
    <3>2. f[k + 1] = At(what, given, k + 1, f[(k + 1) - 1])
      BY <3>1 DEF UpTo
    <3>3. h[k + 1] = At(what, given, k + 1, h[(k + 1) - 1])
      BY <3>1 DEF UpTo
    <3> QED
      BY <3>1, <3>2, <3>3
  <2>3. f[k] = h[k]
    BY <1>2, <2>1
  <2> QED
    BY <2>2, <2>3
<1> HIDE DEF T
<1>3. \A k \in Nat : k \in T
  BY <1>1, <1>2, Induct
<1> QED
  BY <1>3 DEF T

\* If level 0 needs nothing below it, there is a function of all heights.
LEMMA Recursion ==
    ASSUME NEW what, NEW given, \A p, q : At(what, given, 0, p) = At(what, given, 0, q)
    PROVE  \E f : Follows(f, what, given)
PROOF
<1> DEFINE g(n) == CHOOSE f : UpTo(f, n, what, given)
           f == [n \in Nat |-> g(n)[n]]
<1>1. \A n \in Nat : UpTo(g(n), n, what, given)
  BY UpToExists
<1>2. \A n \in Nat : f[n] = g(n)[n]
  OBVIOUS
<1>3. f = [n \in Nat |-> f[n]]
  OBVIOUS
<1> HIDE DEF f, g
<1>4. ASSUME NEW n \in Nat
      PROVE  f[n] = At(what, given, n, f[n - 1])
  <2>1. g(n)[n] = At(what, given, n, g(n)[n - 1])
    BY <1>1 DEF UpTo
  <2>2. CASE n = 0
    <3>1. At(what, given, 0, g(n)[n - 1]) = At(what, given, 0, f[n - 1])
      OBVIOUS
    <3> QED
      BY <1>2, <2>1, <2>2, <3>1
  <2>3. CASE n # 0
    <3>1. n - 1 \in Nat /\ n - 1 <= n
      BY <2>3
    <3>2. UpTo(g(n), n, what, given) /\ UpTo(g(n - 1), n - 1, what, given)
      BY <1>1, <3>1
    <3>3. g(n)[n - 1] = g(n - 1)[n - 1]
      BY <3>1, <3>2, UpToAlike
    <3> QED
      BY <1>2, <2>1, <3>1, <3>3
  <2> QED
    BY <2>2, <2>3
<1>5. Follows(f, what, given)
  BY <1>3, <1>4 DEF Follows
<1> QED
  BY <1>5

\* The blocks of height 0 and of each further height.
LEMMA WrittenHeights ==
    Written[0] = {End} /\ \A d \in Nat : Written[d + 1] = WrittenOver(Written[d])
PROOF
<1>1. \A d, p : At("written", 0, d, p) = IF d = 0 THEN {End} ELSE WrittenOver(p)
  BY DEF At
<1>2. \A p, q : At("written", 0, 0, p) = At("written", 0, 0, q)
  BY <1>1
<1>3. \E f : Follows(f, "written", 0)
  BY <1>2, Recursion
<1>4. \E f : f = [d \in Nat |-> IF d = 0 THEN {End} ELSE WrittenOver(f[d - 1])]
  BY <1>1, <1>3 DEF Follows
<1>5. Written = [d \in Nat |-> IF d = 0 THEN {End} ELSE WrittenOver(Written[d - 1])]
  BY <1>4 DEF Written
<1>6. ASSUME NEW d \in Nat
      PROVE  Written[d + 1] = WrittenOver(Written[d])
  <2>1. d + 1 \in Nat /\ d + 1 # 0 /\ (d + 1) - 1 = d
    OBVIOUS
  <2> QED
    BY <1>5, <2>1
<1> QED
  BY <1>5, <1>6

LEMMA MadeHeights ==
    Made[0] = {End} /\ \A d \in Nat : Made[d + 1] = MadeOver(Made[d])
PROOF
<1>1. \A d, p : At("made", 0, d, p) = IF d = 0 THEN {End} ELSE MadeOver(p)
  BY DEF At
<1>2. \A p, q : At("made", 0, 0, p) = At("made", 0, 0, q)
  BY <1>1
<1>3. \E f : Follows(f, "made", 0)
  BY <1>2, Recursion
<1>4. \E f : f = [d \in Nat |-> IF d = 0 THEN {End} ELSE MadeOver(f[d - 1])]
  BY <1>1, <1>3 DEF Follows
<1>5. Made = [d \in Nat |-> IF d = 0 THEN {End} ELSE MadeOver(Made[d - 1])]
  BY <1>4 DEF Made
<1>6. ASSUME NEW d \in Nat
      PROVE  Made[d + 1] = MadeOver(Made[d])
  <2>1. d + 1 \in Nat /\ d + 1 # 0 /\ (d + 1) - 1 = d
    OBVIOUS
  <2> QED
    BY <1>5, <2>1
<1> QED
  BY <1>5, <1>6

LEMMA TransformRecursion ==
    /\ \A walked \in BOOLEAN : TransformBlock[0][End][walked] = Result(End, FALSE, {})
    /\ \A d \in Nat : \A b \in Written[d + 1], walked \in BOOLEAN :
          TransformBlock[d + 1][b][walked] = TransformStatements(TransformBlock[d], b, walked)
PROOF
<1> DEFINE Over(d, p) ==
               [b \in Written[d] |-> [walked \in BOOLEAN |-> TransformStatements(p, b, walked)]]
<1>1. \A d, p : At("transform", 0, d, p) = Over(d, p)
  BY DEF At
<1>2. \A p, q : Over(0, p) = Over(0, q)
  BY WrittenHeights DEF TransformStatements
<1>3. \E f : Follows(f, "transform", 0)
  <2>1. \A p, q : At("transform", 0, 0, p) = At("transform", 0, 0, q)
    <3> HIDE DEF Over
    <3> QED
      BY <1>1, <1>2
  <2> QED
    BY <2>1, Recursion
<1>4. TransformBlock = [d \in Nat |-> Over(d, TransformBlock[d - 1])]
  <2>1. \E f : f = [d \in Nat |-> Over(d, f[d - 1])]
    <3> HIDE DEF Over
    <3> QED
      BY <1>1, <1>3 DEF Follows
  <2> QED
    BY <2>1 DEF TransformBlock
<1>5. ASSUME NEW d \in Nat
      PROVE  TransformBlock[d + 1] = Over(d + 1, TransformBlock[d])
  <2>1. d + 1 \in Nat /\ (d + 1) - 1 = d
    OBVIOUS
  <2> HIDE DEF Over
  <2>2. TransformBlock[d + 1] = Over(d + 1, TransformBlock[(d + 1) - 1])
    BY <1>4, <2>1
  <2> QED
    BY <2>1, <2>2
<1>6. TransformBlock[0] = Over(0, TransformBlock[0 - 1])
  <2> HIDE DEF Over
  <2> QED
    BY <1>4
<1>7. \A walked \in BOOLEAN : TransformBlock[0][End][walked] = Result(End, FALSE, {})
  <2>1. \A p, walked : TransformStatements(p, End, walked) = Result(End, FALSE, {})
    BY DEF TransformStatements
  <2>2. End \in Written[0]
    BY WrittenHeights
  <2>3. \A walked \in BOOLEAN :
           TransformBlock[0][End][walked] = TransformStatements(TransformBlock[0 - 1], End, walked)
    BY <1>6, <2>2
  <2> QED
    BY <2>1, <2>3
<1>8. ASSUME NEW d \in Nat, NEW b \in Written[d + 1], NEW walked \in BOOLEAN
      PROVE  TransformBlock[d + 1][b][walked] = TransformStatements(TransformBlock[d], b, walked)
  <2>1. TransformBlock[d + 1]
        = [c \in Written[d + 1] |-> [v \in BOOLEAN |-> TransformStatements(TransformBlock[d], c, v)]]
    BY <1>5, Zenon
  <2>2. TransformBlock[d + 1][b] = [v \in BOOLEAN |-> TransformStatements(TransformBlock[d], b, v)]
    BY <2>1, Zenon
  <2> QED
    BY <2>2, Zenon
<1> QED
  BY <1>7, <1>8

LEMMA RunRecursion ==
    ASSUME NEW choices
    PROVE  /\ \A n \in 0 .. InnerIterations, m \in Machine : Run(choices)[0][n][End][m] = m
           /\ \A d \in Nat : \A n \in 0 .. InnerIterations, b \in Made[d + 1], m \in Machine :
                 Run(choices)[d + 1][n][b][m] = RunStatements(Run(choices)[d], b, m, choices, n)
PROOF
<1> DEFINE run == Run(choices)
           Over(d, p) ==
               [n \in 0 .. InnerIterations |-> [b \in Made[d] |-> [m \in Machine |->
                   RunStatements(p, b, m, choices, n)]]]
<1>1. \A d, p : At("run", choices, d, p) = Over(d, p)
  BY DEF At
<1>2. \A p, q : Over(0, p) = Over(0, q)
  BY MadeHeights DEF RunStatements
<1>3. \E f : Follows(f, "run", choices)
  <2>1. \A p, q : At("run", choices, 0, p) = At("run", choices, 0, q)
    <3> HIDE DEF Over
    <3> QED
      BY <1>1, <1>2
  <2> QED
    BY <2>1, Recursion
<1>4. run = [d \in Nat |-> Over(d, run[d - 1])]
  <2>1. \E f : f = [d \in Nat |-> Over(d, f[d - 1])]
    <3> HIDE DEF Over
    <3> QED
      BY <1>1, <1>3 DEF Follows
  <2> QED
    BY <2>1 DEF Run
<1> HIDE DEF run
<1>5. ASSUME NEW d \in Nat
      PROVE  run[d + 1] = Over(d + 1, run[d])
  <2>1. d + 1 \in Nat /\ (d + 1) - 1 = d
    OBVIOUS
  <2> HIDE DEF Over
  <2>2. run[d + 1] = Over(d + 1, run[(d + 1) - 1])
    BY <1>4, <2>1
  <2> QED
    BY <2>1, <2>2
<1>6. run[0] = Over(0, run[0 - 1])
  <2> HIDE DEF Over
  <2> QED
    BY <1>4
<1>7. \A n \in 0 .. InnerIterations, m \in Machine : run[0][n][End][m] = m
  <2>1. \A p, m, n : RunStatements(p, End, m, choices, n) = m
    BY DEF RunStatements
  <2> QED
    BY <1>6, <2>1, MadeHeights
<1>8. ASSUME NEW d \in Nat, NEW n \in 0 .. InnerIterations, NEW b \in Made[d + 1], NEW m \in Machine
      PROVE  run[d + 1][n][b][m] = RunStatements(run[d], b, m, choices, n)
  <2>1. run[d + 1] = [i \in 0 .. InnerIterations |-> [c \in Made[d + 1] |-> [x \in Machine |->
                         RunStatements(run[d], c, x, choices, i)]]]
    BY <1>5, Zenon
  <2>2. run[d + 1][n]
        = [c \in Made[d + 1] |-> [x \in Machine |-> RunStatements(run[d], c, x, choices, n)]]
    BY <2>1, Zenon
  <2>3. run[d + 1][n][b] = [x \in Machine |-> RunStatements(run[d], b, x, choices, n)]
    BY <2>2, Zenon
  <2> QED
    BY <2>3, Zenon
<1> QED
  BY <1>7, <1>8 DEF run

LEMMA JumpRecursion ==
    /\ HasJump[0][End] = FALSE
    /\ \A d \in Nat : \A b \in Made[d + 1] : HasJump[d + 1][b] = JumpIn(HasJump[d], b)
PROOF
<1> DEFINE Over(d, p) == [b \in Made[d] |-> JumpIn(p, b)]
<1>1. \A d, p : At("jump", 0, d, p) = Over(d, p)
  BY DEF At
<1>2. \A p, q : Over(0, p) = Over(0, q)
  BY MadeHeights DEF JumpIn
<1>3. \E f : Follows(f, "jump", 0)
  <2>1. \A p, q : At("jump", 0, 0, p) = At("jump", 0, 0, q)
    <3> HIDE DEF Over
    <3> QED
      BY <1>1, <1>2
  <2> QED
    BY <2>1, Recursion
<1>4. HasJump = [d \in Nat |-> Over(d, HasJump[d - 1])]
  <2>1. \E f : f = [d \in Nat |-> Over(d, f[d - 1])]
    <3> HIDE DEF Over
    <3> QED
      BY <1>1, <1>3 DEF Follows
  <2> QED
    BY <2>1 DEF HasJump
<1>5. ASSUME NEW d \in Nat
      PROVE  HasJump[d + 1] = Over(d + 1, HasJump[d])
  <2>1. d + 1 \in Nat /\ (d + 1) - 1 = d
    OBVIOUS
  <2> HIDE DEF Over
  <2>2. HasJump[d + 1] = Over(d + 1, HasJump[(d + 1) - 1])
    BY <1>4, <2>1
  <2> QED
    BY <2>1, <2>2
<1>6. HasJump[0] = Over(0, HasJump[0 - 1])
  <2> HIDE DEF Over
  <2> QED
    BY <1>4
<1>7. HasJump[0][End] = FALSE
  <2>1. \A p : JumpIn(p, End) = FALSE
    BY DEF JumpIn
  <2>2. End \in Made[0]
    BY MadeHeights
  <2>3. HasJump[0][End] = JumpIn(HasJump[0 - 1], End)
    BY <1>6, <2>2, Zenon
  <2> QED
    BY <2>1, <2>3, Zenon
<1>8. ASSUME NEW d \in Nat, NEW b \in Made[d + 1]
      PROVE  HasJump[d + 1][b] = JumpIn(HasJump[d], b)
  <2>1. HasJump[d + 1] = [c \in Made[d + 1] |-> JumpIn(HasJump[d], c)]
    BY <1>5, Zenon
  <2> QED
    BY <2>1, Zenon
<1> QED
  BY <1>7, <1>8, Zenon

LEMMA RemovableRecursion ==
    /\ \A allowed \in BOOLEAN : Removable[0][End][allowed] = TRUE
    /\ \A d \in Nat : \A b \in Written[d + 1], allowed \in BOOLEAN :
          Removable[d + 1][b][allowed] = RemovableOver(Removable[d], b, allowed)
PROOF
<1> DEFINE Over(d, p) ==
               [b \in Written[d] |-> [allowed \in BOOLEAN |-> RemovableOver(p, b, allowed)]]
<1>1. \A d, p : At("removable", 0, d, p) = Over(d, p)
  BY DEF At
<1>2. \A p, q : Over(0, p) = Over(0, q)
  BY WrittenHeights DEF RemovableOver
<1>3. \E f : Follows(f, "removable", 0)
  <2>1. \A p, q : At("removable", 0, 0, p) = At("removable", 0, 0, q)
    <3> HIDE DEF Over
    <3> QED
      BY <1>1, <1>2
  <2> QED
    BY <2>1, Recursion
<1>4. Removable = [d \in Nat |-> Over(d, Removable[d - 1])]
  <2>1. \E f : f = [d \in Nat |-> Over(d, f[d - 1])]
    <3> HIDE DEF Over
    <3> QED
      BY <1>1, <1>3 DEF Follows
  <2> QED
    BY <2>1 DEF Removable
<1>5. ASSUME NEW d \in Nat
      PROVE  Removable[d + 1] = Over(d + 1, Removable[d])
  <2>1. d + 1 \in Nat /\ (d + 1) - 1 = d
    OBVIOUS
  <2> HIDE DEF Over
  <2>2. Removable[d + 1] = Over(d + 1, Removable[(d + 1) - 1])
    BY <1>4, <2>1
  <2> QED
    BY <2>1, <2>2
<1>6. Removable[0] = Over(0, Removable[0 - 1])
  <2> HIDE DEF Over
  <2> QED
    BY <1>4
<1>7. ASSUME NEW allowed \in BOOLEAN
      PROVE  Removable[0][End][allowed] = TRUE
  <2>1. \A p : RemovableOver(p, End, allowed) = TRUE
    BY DEF RemovableOver
  <2>2. End \in Written[0]
    BY WrittenHeights
  <2>3. Removable[0][End] = [v \in BOOLEAN |-> RemovableOver(Removable[0 - 1], End, v)]
    BY <1>6, <2>2, Zenon
  <2>4. Removable[0][End][allowed] = RemovableOver(Removable[0 - 1], End, allowed)
    BY <2>3, Zenon
  <2> QED
    BY <2>1, <2>4, Zenon
<1>8. ASSUME NEW d \in Nat, NEW b \in Written[d + 1], NEW allowed \in BOOLEAN
      PROVE  Removable[d + 1][b][allowed] = RemovableOver(Removable[d], b, allowed)
  <2>1. Removable[d + 1] = [c \in Written[d + 1] |-> [v \in BOOLEAN |-> RemovableOver(Removable[d], c, v)]]
    BY <1>5, Zenon
  <2>2. Removable[d + 1][b] = [v \in BOOLEAN |-> RemovableOver(Removable[d], b, v)]
    BY <2>1, Zenon
  <2> QED
    BY <2>2, Zenon
<1> QED
  BY <1>7, <1>8, Zenon

------------------------------------------------------------------------------
(***************************************************************************)
(* Blocks                                                                  *)
(***************************************************************************)
\* What a block holds, as written or as made.
LEMMA WrittenShape ==
    ASSUME NEW d \in Nat, NEW b \in Written[d + 1], b # End
    PROVE  /\ b.op \in {"act", "block", "case", "loop"} \cup Jumps /\ b.rest \in Written[d]
           /\ b.op = "case" => b.items \in Seq(Written[d]) /\ b.exact \in BOOLEAN
           /\ b.op \in {"block", "loop"} => b.body \in Written[d]
           /\ b.op = "loop" => b.kind \in LoopKinds
PROOF
<1>1. Written[d + 1] = WrittenOver(Written[d])
  BY WrittenHeights
<1> QED
  BY <1>1 DEF WrittenOver, Jumps

LEMMA MadeShape ==
    ASSUME NEW d \in Nat, NEW b \in Made[d + 1], b # End
    PROVE  /\ b.op \in {"act", "block", "case", "loop", "unless", "transformed"} \cup Jumps \cup Assignments
           /\ b.rest \in Made[d]
           /\ b.op = "act" => b.id \in Nat
           /\ b.op = "case" => b.items \in Seq(Made[d])
           /\ b.op \in {"block", "loop", "unless", "transformed"} => b.body \in Made[d]
PROOF
<1>1. Made[d + 1] = MadeOver(Made[d])
  BY MadeHeights
<1> QED
  BY <1>1 DEF MadeOver, WrittenOver, Jumps, Assignments

\* A statement can be put in front of another rest.
SameStatement(s, t) ==
    /\ s.op = t.op
    /\ t.op = "act" => s.id = t.id
    /\ t.op = "case" => s.items = t.items /\ s.id = t.id
    /\ t.op \in {"block", "loop", "unless", "transformed"} => s.body = t.body
    /\ t.op \in {"loop", "transformed"} => s.kind = t.kind
    /\ t.op = "unless" => s.register = t.register
    /\ t.op = "transformed" => s.breaks = t.breaks

LEMMA ReplacedOver ==
    ASSUME NEW inner, NEW b \in MadeOver(inner), b # End, NEW r \in inner
    PROVE  /\ Then(b, r) \in MadeOver(inner) /\ Then(b, r) # End
           /\ Then(b, r).rest = r /\ SameStatement(Then(b, r), b)
BY DEF MadeOver, WrittenOver, Then, SameStatement, Jumps, Assignments, LoopKinds, Registers, End

LEMMA Replaced ==
    ASSUME NEW d \in Nat, NEW b \in Made[d + 1], b # End, NEW r \in Made[d]
    PROVE  /\ Then(b, r) \in Made[d + 1] /\ Then(b, r) # End
           /\ Then(b, r).rest = r /\ SameStatement(Then(b, r), b)
BY MadeHeights, ReplacedOver

LEMMA Larger ==
    ASSUME NEW small, NEW large, small \subseteq large
    PROVE  WrittenOver(small) \subseteq MadeOver(large) /\ MadeOver(small) \subseteq MadeOver(large)
PROOF
<1>1. Seq(small) \subseteq Seq(large)
  OBVIOUS
<1> QED
  BY <1>1 DEF MadeOver, WrittenOver

LEMMA EndIsBlock ==
    \A inner : End \in WrittenOver(inner) /\ End \in MadeOver(inner)
BY DEF MadeOver, WrittenOver

LEMMA Higher ==
    \A i, j \in Nat : i <= j => Made[i] \subseteq Made[j]
PROOF
<1> DEFINE T == {d \in Nat : Made[d] \subseteq Made[d + 1]}
           U(i) == {n \in Nat : Made[i] \subseteq Made[i + n]}
<1>1. 0 \in T
  <2>1. End \in Made[0 + 1]
    BY MadeHeights, EndIsBlock
  <2> QED
    BY <2>1, MadeHeights
<1>2. ASSUME NEW d \in Nat, d \in T PROVE d + 1 \in T
  <2>1. Made[d + 1] = MadeOver(Made[d]) /\ d + 1 \in Nat
    BY MadeHeights
  <2>3. Made[(d + 1) + 1] = MadeOver(Made[d + 1])
    BY <2>1, MadeHeights, Zenon
  <2>2. Made[d + 1] \subseteq Made[(d + 1) + 1]
    <3> DEFINE small == Made[d]
               large == Made[d + 1]
    <3>1. small \subseteq large
      BY <1>2
    <3> HIDE DEF small, large
    <3>2. MadeOver(small) \subseteq MadeOver(large)
      BY <3>1, Larger
    <3> QED
      BY <2>1, <2>3, <3>2 DEF small, large
  <2> QED
    BY <2>2
<1> HIDE DEF T
<1>3. \A d \in Nat : d \in T
  BY <1>1, <1>2, Induct
<1> USE DEF T
<1>4. ASSUME NEW i \in Nat PROVE \A n \in Nat : n \in U(i)
  <2>1. 0 \in U(i)
    OBVIOUS
  <2>2. ASSUME NEW n \in Nat, n \in U(i) PROVE n + 1 \in U(i)
    <3>1. Made[i + n] \subseteq Made[(i + n) + 1] /\ i + (n + 1) = (i + n) + 1
      BY <1>3
    <3> QED
      BY <2>2, <3>1
  <2> HIDE DEF U
  <2> QED
    BY <2>1, <2>2, Induct
<1>5. ASSUME NEW i \in Nat, NEW j \in Nat, i <= j PROVE Made[i] \subseteq Made[j]
  <2>1. j - i \in Nat /\ i + (j - i) = j
    BY <1>5
  <2> QED
    BY <1>4, <2>1
<1> QED
  BY <1>5

LEMMA WrittenIsMade ==
    \A d \in Nat : Written[d] \subseteq Made[d]
PROOF
<1> DEFINE T == {d \in Nat : Written[d] \subseteq Made[d]}
<1>1. 0 \in T
  BY MadeHeights, WrittenHeights
<1>2. ASSUME NEW d \in Nat, d \in T PROVE d + 1 \in T
  <2>1. Made[d + 1] = MadeOver(Made[d]) /\ Written[d + 1] = WrittenOver(Written[d])
    BY MadeHeights, WrittenHeights
  <2>2. Written[d + 1] \subseteq Made[d + 1]
    BY <1>2, <2>1, Larger
  <2> QED
    BY <2>2
<1> HIDE DEF T
<1>3. \A d \in Nat : d \in T
  BY <1>1, <1>2, Induct
<1> QED
  BY <1>3 DEF T

LEMMA EndAtAll ==
    \A d \in Nat : End \in Written[d] /\ End \in Made[d]
PROOF
<1>1. ASSUME NEW d \in Nat, d # 0 PROVE End \in Written[d] /\ End \in Made[d]
  <2>1. d - 1 \in Nat /\ (d - 1) + 1 = d
    BY <1>1
  <2>2. /\ Made[(d - 1) + 1] = MadeOver(Made[d - 1])
        /\ Written[(d - 1) + 1] = WrittenOver(Written[d - 1])
    BY <2>1, MadeHeights, WrittenHeights
  <2> QED
    BY <2>1, <2>2, EndIsBlock
<1> QED
  BY <1>1, WrittenHeights, MadeHeights

------------------------------------------------------------------------------
(***************************************************************************)
(* What the transformation makes                                           *)
(***************************************************************************)
\* The result for the k-th item of a case.
Item(transform, s, reached, k) == transform[s.items[k]][reached[k]]

\* Which items transform_block walks, and what becomes of the case.
CaseOf(r, transform, s, walked, reached) ==
    /\ reached \in [DOMAIN s.items -> BOOLEAN]
    /\ \A k \in DOMAIN s.items :
          reached[k] <=>
              walked /\ s.exact /\ \A j \in 1 .. k - 1 : ~transform[s.items[j]][TRUE].jump
    /\ r.piece = [s EXCEPT !.items = [k \in DOMAIN s.items |-> Item(transform, s, reached, k).piece]]
    /\ r.jump = \E k \in DOMAIN s.items : Item(transform, s, reached, k).jump
    /\ r.wires = UNION {Item(transform, s, reached, k).wires : k \in DOMAIN s.items}

LEMMA CaseReached ==
    ASSUME NEW transform, NEW s, NEW walked \in BOOLEAN, s.exact \in BOOLEAN
    PROVE  \E reached : CaseOf(TransformCase(transform, s, walked), transform, s, walked, reached)
PROOF
<1> DEFINE Reached(k) ==
               walked /\ s.exact /\ \A j \in 1 .. k - 1 : ~transform[s.items[j]][TRUE].jump
           items == [k \in DOMAIN s.items |-> transform[s.items[k]][Reached(k)]]
           reached == [k \in DOMAIN s.items |-> Reached(k)]
           r == TransformCase(transform, s, walked)
<1>1. r = Result([s EXCEPT !.items = [k \in DOMAIN items |-> items[k].piece]],
                 \E k \in DOMAIN items : items[k].jump,
                 UNION {items[k].wires : k \in DOMAIN items})
  BY DEF TransformCase
<1>2. DOMAIN items = DOMAIN s.items /\ \A k \in DOMAIN s.items : items[k] = transform[s.items[k]][Reached(k)]
  BY Zenon
<1>3. \A k \in DOMAIN s.items : reached[k] = Reached(k)
  BY Zenon
<1>4. \A k \in DOMAIN s.items : Reached(k) \in BOOLEAN
  OBVIOUS
<1>5. reached \in [DOMAIN s.items -> BOOLEAN]
  BY <1>4, Zenon
<1> HIDE DEF items, reached, Reached
<1>6. \A k \in DOMAIN s.items : items[k] = Item(transform, s, reached, k)
  BY <1>2, <1>3, Zenon DEF Item
<1> DEFINE pieces == [k \in DOMAIN s.items |-> Item(transform, s, reached, k).piece]
<1>7. [k \in DOMAIN items |-> items[k].piece] = pieces
  BY <1>2, <1>6, Zenon
<1>8. (\E k \in DOMAIN items : items[k].jump) = \E k \in DOMAIN s.items : Item(transform, s, reached, k).jump
  BY <1>2, <1>6, Zenon
<1>9. UNION {items[k].wires : k \in DOMAIN items}
      = UNION {Item(transform, s, reached, k).wires : k \in DOMAIN s.items}
  BY <1>2, <1>6
<1> HIDE DEF pieces, r
<1>10. r.piece = [s EXCEPT !.items = pieces]
  BY <1>1, <1>7 DEF Result
<1>11. r.jump = \E k \in DOMAIN s.items : Item(transform, s, reached, k).jump
  BY <1>1, <1>8 DEF Result
<1>12. r.wires = UNION {Item(transform, s, reached, k).wires : k \in DOMAIN s.items}
  BY <1>1, <1>9 DEF Result
<1>13. \A k \in DOMAIN s.items :
          reached[k] <=> walked /\ s.exact /\ \A j \in 1 .. k - 1 : ~transform[s.items[j]][TRUE].jump
  BY <1>3, Zenon DEF Reached
<1>14. CaseOf(r, transform, s, walked, reached)
  BY <1>5, <1>10, <1>11, <1>12, <1>13 DEF pieces, CaseOf
<1> QED
  BY <1>14 DEF r

\* What is known of the result for a block of height d.
Typed(r, d) ==
    /\ r.piece \in Made[3 * d] /\ r.wires \subseteq Registers /\ r.jump \in BOOLEAN
    /\ r.jump <=> "$continue" \in r.wires
    /\ ~r.jump => r.wires = {}

TypedAt(d) ==
    \A b \in Written[d], walked \in BOOLEAN :
        /\ Typed(TransformBlock[d][b][walked], d)
        /\ ~walked => ~TransformBlock[d][b][walked].jump

\* The body of a transformed loop, behind the test of $break.
Cleared(r) == IF "$continue" \in r.wires THEN Then(ClearContinue, r.piece) ELSE r.piece

LEMMA LoopTyped ==
    ASSUME NEW d \in Nat, NEW kind \in LoopKinds, NEW r, Typed(r, d)
    PROVE  LET loop == TransformLoop(kind, r) IN
           /\ loop = Transformed(kind, loop.body, loop.breaks)
           /\ loop.breaks = ("$break" \in r.wires)
           /\ loop.body = Skippable(kind, loop.breaks, Cleared(r))
           /\ Cleared(r) \in Made[3 * d + 1] /\ loop.body \in Made[3 * d + 2]
           /\ loop \in Made[3 * d + 3] /\ loop # End
PROOF
<1> DEFINE loop == TransformLoop(kind, r)
           breaks == "$break" \in r.wires
           body == Skippable(kind, breaks, Cleared(r))
<1>1. loop = Transformed(kind, body, breaks)
  BY DEF TransformLoop, Cleared
<1>2. breaks \in BOOLEAN
  OBVIOUS
<1>3. loop.body = body /\ loop.breaks = breaks
  BY <1>1 DEF Transformed
<1>4. 3 * d \in Nat /\ 3 * d + 1 \in Nat /\ 3 * d + 2 \in Nat /\ (3 * d + 1) + 1 = 3 * d + 2 /\ (3 * d + 2) + 1 = 3 * d + 3
  OBVIOUS
<1>5. /\ Made[3 * d + 1] = MadeOver(Made[3 * d]) /\ Made[3 * d + 2] = MadeOver(Made[3 * d + 1])
      /\ Made[3 * d + 3] = MadeOver(Made[3 * d + 2])
  <2>1. Made[(3 * d) + 1] = MadeOver(Made[3 * d])
    BY <1>4, MadeHeights
  <2>2. Made[(3 * d + 1) + 1] = MadeOver(Made[3 * d + 1])
    BY <1>4, MadeHeights
  <2>3. Made[(3 * d + 2) + 1] = MadeOver(Made[3 * d + 2])
    BY <1>4, MadeHeights
  <2> QED
    BY <1>4, <2>1, <2>2, <2>3
<1>6. Cleared(r) \in Made[3 * d + 1]
  <2>1. r.piece \in Made[3 * d]
    BY DEF Typed
  <2>2. Made[3 * d] \subseteq Made[3 * d + 1]
    BY <1>4, Higher
  <2>3. Then(ClearContinue, r.piece) \in MadeOver(Made[3 * d])
    BY <2>1 DEF Then, ClearContinue, MadeOver, Assignments
  <2> QED
    BY <1>5, <2>1, <2>2, <2>3 DEF Cleared
<1>7. body \in Made[3 * d + 2]
  <2>1. Made[3 * d + 1] \subseteq Made[3 * d + 2]
    BY <1>4, Higher
  <2>2. End \in Made[3 * d + 1]
    BY <1>4, EndAtAll
  <2>3. Unless("$break", Cleared(r)) \in MadeOver(Made[3 * d + 1])
    BY <1>6, <2>2 DEF Unless, MadeOver, Registers
  <2> QED
    BY <1>5, <1>6, <2>1, <2>3 DEF Skippable
<1> HIDE DEF breaks, body
<1>8. loop \in Made[3 * d + 3] /\ loop # End
  <2>1. End \in Made[3 * d + 2]
    BY <1>4, EndAtAll
  <2>2. Transformed(kind, body, breaks) \in MadeOver(Made[3 * d + 2])
    BY <1>2, <1>7, <2>1 DEF Transformed, MadeOver
  <2>3. Transformed(kind, body, breaks) # End
    BY DEF Transformed, End
  <2> QED
    BY <1>1, <1>5, <2>2, <2>3
<1> QED
  BY <1>1, <1>3, <1>6, <1>7, <1>8 DEF body, breaks

\* The first statement of a block is transformed, not its rest.
WellMade(first, d, walked) ==
    /\ first.piece \in Made[3 * d + 3] /\ first.piece # End
    /\ first.wires \subseteq Registers /\ first.jump \in BOOLEAN
    /\ first.jump <=> "$continue" \in first.wires
    /\ ~first.jump => first.wires = {}
    /\ ~walked => ~first.jump

LEMMA FirstTyped ==
    ASSUME NEW d \in Nat, TypedAt(d), NEW b \in Written[d + 1], b # End, NEW walked \in BOOLEAN,
           ~(walked /\ b.op \in Jumps)
    PROVE  WellMade(TransformStatement(TransformBlock[d], b, walked), d, walked)
PROOF
<1> DEFINE transform == TransformBlock[d]
           first == TransformStatement(transform, b, walked)
           inner == Made[3 * d + 2]
<1>1. 3 * d \in Nat /\ 3 * d + 2 \in Nat /\ (3 * d + 2) + 1 = 3 * d + 3 /\ 3 * d <= 3 * d + 2 /\ d <= 3 * d
  OBVIOUS
<1>2. Made[3 * d + 3] = MadeOver(inner)
  <2>1. Made[(3 * d + 2) + 1] = MadeOver(Made[3 * d + 2])
    BY <1>1, MadeHeights
  <2> QED
    BY <1>1, <2>1
<1>3. Written[d] \subseteq inner /\ Made[3 * d] \subseteq inner
  <2>1. Made[3 * d] \subseteq inner /\ Made[d] \subseteq Made[3 * d]
    BY <1>1, Higher
  <2> QED
    BY <2>1, WrittenIsMade
<1>4. b \in WrittenOver(Written[d])
  BY WrittenHeights
<1>5. \A c \in Written[d], v \in BOOLEAN : Typed(transform[c][v], d) /\ (~v => ~transform[c][v].jump)
  BY DEF TypedAt
<1> HIDE DEF transform, inner
<1>6. ASSUME b.op = "block" PROVE WellMade(first, d, walked)
  <2> DEFINE r == transform[b.body][walked]
  <2>1. b.body \in Written[d] /\ b \in [op : {"block"}, body : Written[d], rest : Written[d]]
    BY <1>4, <1>6 DEF WrittenOver, Jumps, End
  <2>2. Typed(r, d) /\ (~walked => ~r.jump)
    BY <1>5, <2>1
  <2>3. first = Result([b EXCEPT !.body = r.piece], r.jump, r.wires)
    BY <1>6 DEF TransformStatement
  <2>4. first.piece = [b EXCEPT !.body = r.piece] /\ first.jump = r.jump /\ first.wires = r.wires
    BY <2>3 DEF Result
  <2> HIDE DEF r
  <2>5. [b EXCEPT !.body = r.piece] \in [op : {"block"}, body : inner, rest : inner]
    BY <1>3, <2>1, <2>2 DEF Typed
  <2>6. [b EXCEPT !.body = r.piece] \in MadeOver(inner) /\ [b EXCEPT !.body = r.piece] # End
    BY <2>5 DEF MadeOver, WrittenOver, End
  <2> QED
    BY <1>2, <2>2, <2>4, <2>6 DEF Typed, WellMade
<1>7. ASSUME b.op = "case" PROVE WellMade(first, d, walked)
  <2>1. b \in [op : {"case"}, id : Nat, exact : BOOLEAN, items : Seq(Written[d]), rest : Written[d]]
    BY <1>4, <1>7 DEF WrittenOver, Jumps, End
  <2>2. first = TransformCase(transform, b, walked)
    BY <1>7 DEF TransformStatement
  <2>3. PICK reached : CaseOf(first, transform, b, walked, reached)
    BY <2>1, <2>2, CaseReached
  <2> DEFINE pieces == [k \in DOMAIN b.items |-> Item(transform, b, reached, k).piece]
  <2>4. ASSUME NEW k \in DOMAIN b.items
        PROVE  LET r == Item(transform, b, reached, k) IN Typed(r, d) /\ (~walked => ~r.jump)
    <3>1. b.items[k] \in Written[d]
      BY <2>1
    <3>2. reached[k] \in BOOLEAN
      BY <2>3 DEF CaseOf
    <3>3. ~walked => ~reached[k]
      BY <2>3, Zenon DEF CaseOf
    <3> QED
      BY <1>5, <3>1, <3>2, <3>3 DEF Item
  <2>5. pieces \in Seq(inner)
    <3>1. \A k \in DOMAIN b.items : Item(transform, b, reached, k).piece \in inner
      BY <1>3, <2>4 DEF Typed
    <3>2. DOMAIN b.items = 1 .. Len(b.items) /\ Len(b.items) \in Nat
      BY <2>1
    <3> QED
      BY <3>1, <3>2
  <2>6. [b EXCEPT !.items = pieces] \in MadeOver(inner) /\ [b EXCEPT !.items = pieces] # End
    <3> HIDE DEF pieces
    <3>1. b.rest \in inner
      BY <1>3, <2>1
    <3>2. [b EXCEPT !.items = pieces]
          \in [op : {"case"}, id : Nat, exact : BOOLEAN, items : Seq(inner), rest : inner]
      BY <2>1, <2>5, <3>1
    <3> QED
      BY <3>2 DEF MadeOver, WrittenOver, End
  <2>7. first.piece = [b EXCEPT !.items = pieces]
    BY <2>3 DEF CaseOf
  <2>8. first.jump <=> \E k \in DOMAIN b.items : Item(transform, b, reached, k).jump
    BY <2>3 DEF CaseOf
  <2>9. first.jump \in BOOLEAN
    BY <2>3 DEF CaseOf
  <2>10. first.wires = UNION {Item(transform, b, reached, k).wires : k \in DOMAIN b.items}
    BY <2>3 DEF CaseOf
  <2>11. /\ first.wires \subseteq Registers
         /\ first.jump <=> "$continue" \in first.wires
         /\ ~first.jump => first.wires = {}
         /\ ~walked => ~first.jump
    BY <2>4, <2>8, <2>10 DEF Typed
  <2> QED
    BY <1>2, <2>6, <2>7, <2>9, <2>11 DEF WellMade
<1>8. ASSUME b.op = "loop" PROVE WellMade(first, d, walked)
  <2> DEFINE r == transform[b.body][TRUE]
  <2>1. b.body \in Written[d] /\ b.kind \in LoopKinds
    BY <1>4, <1>8 DEF WrittenOver, Jumps, End
  <2>2. Typed(r, d)
    BY <1>5, <2>1
  <2>3. first = Result(TransformLoop(b.kind, r), FALSE, {})
    BY <1>8 DEF TransformStatement
  <2> HIDE DEF r
  <2>4. TransformLoop(b.kind, r) \in Made[3 * d + 3] /\ TransformLoop(b.kind, r) # End
    BY <2>1, <2>2, LoopTyped
  <2> QED
    BY <2>3, <2>4 DEF Result, WellMade
<1>9. ASSUME b.op \notin {"block", "case", "loop"} PROVE WellMade(first, d, walked)
  <2>1. first = Result(b, FALSE, {})
    BY <1>9 DEF TransformStatement
  <2>2. b \in MadeOver(inner)
    BY <1>3, <1>4, Larger
  <2> QED
    BY <1>2, <2>1, <2>2 DEF Result, WellMade
<1> QED
  BY <1>6, <1>7, <1>8, <1>9 DEF transform

\* What stands behind the first statement.
Following(first, rest) == IF first.jump THEN Guarded(rest.piece) ELSE rest.piece

LEMMA FollowingTyped ==
    ASSUME NEW d \in Nat, NEW first, NEW rest, Typed(rest, d), NEW f \in Nat, 3 * d + 2 <= f
    PROVE  Following(first, rest) \in Made[f]
PROOF
<1>1. 3 * d \in Nat /\ 3 * d + 1 \in Nat /\ 3 * d + 2 \in Nat
  OBVIOUS
<1>2. Made[3 * d] \subseteq Made[3 * d + 1] /\ Made[3 * d + 1] \subseteq Made[3 * d + 2]
      /\ Made[3 * d + 2] \subseteq Made[f]
  <2>1. 3 * d <= 3 * d + 1 /\ 3 * d + 1 <= 3 * d + 2
    OBVIOUS
  <2> QED
    BY <1>1, <2>1, Higher
<1>3. Made[(3 * d + 1) + 1] = MadeOver(Made[3 * d + 1]) /\ (3 * d + 1) + 1 = 3 * d + 2
  BY <1>1, MadeHeights
<1>4. rest.piece \in Made[3 * d + 1] /\ End \in Made[3 * d + 1]
  BY <1>1, <1>2, EndAtAll DEF Typed
<1>5. Guarded(rest.piece) \in Made[3 * d + 2]
  BY <1>3, <1>4 DEF Guarded, Unless, MadeOver, Registers
<1> QED
  BY <1>2, <1>4, <1>5 DEF Following

LEMMA JumpTyped ==
    ASSUME NEW d \in Nat, NEW b, b.op \in Jumps
    PROVE  /\ JumpAssignments(b) \in Made[3 * d + 3] /\ SetBreak \in Made[3 * d + 2]
           /\ JumpWires(b) \subseteq Registers /\ "$continue" \in JumpWires(b)
PROOF
<1>1. 3 * d + 1 \in Nat /\ 3 * d + 2 \in Nat
  OBVIOUS
<1>2. Made[3 * d + 2] = MadeOver(Made[3 * d + 1]) /\ Made[3 * d + 3] = MadeOver(Made[3 * d + 2])
  <2>1. Made[(3 * d + 1) + 1] = MadeOver(Made[3 * d + 1])
    BY <1>1, MadeHeights
  <2>2. Made[(3 * d + 2) + 1] = MadeOver(Made[3 * d + 2])
    BY <1>1, MadeHeights
  <2>3. (3 * d + 1) + 1 = 3 * d + 2 /\ (3 * d + 2) + 1 = 3 * d + 3
    OBVIOUS
  <2> QED
    BY <2>1, <2>2, <2>3
<1>3. End \in Made[3 * d + 1] /\ End \in Made[3 * d + 2]
  BY <1>1, EndAtAll
<1>4. SetBreak \in Made[3 * d + 2] /\ SetContinue \in Made[3 * d + 3]
  BY <1>2, <1>3 DEF SetBreak, SetContinue, MadeOver, Assignments
<1>5. Then(SetContinue, SetBreak) \in Made[3 * d + 3]
  BY <1>2, <1>4 DEF Then, SetContinue, MadeOver, Assignments
<1> QED
  BY <1>4, <1>5 DEF JumpAssignments, JumpWires, Registers

\* Transforming a block puts at most three statements where one was.
LEMMA TransformTyped ==
    \A d \in Nat : TypedAt(d)
PROOF
<1> DEFINE T == {d \in Nat : TypedAt(d)}
<1>1. \A d \in Nat : Typed(Result(End, FALSE, {}), d)
  <2>1. \A d \in Nat : End \in Made[3 * d]
    BY EndAtAll
  <2> QED
    BY <2>1 DEF Typed, Result
<1>2. 0 \in T
  <2>1. \A b \in Written[0] : b = End
    BY WrittenHeights
  <2>2. \A walked \in BOOLEAN : TransformBlock[0][End][walked] = Result(End, FALSE, {})
    BY TransformRecursion
  <2>3. Typed(Result(End, FALSE, {}), 0) /\ ~Result(End, FALSE, {}).jump
    BY <1>1 DEF Result
  <2>4. TypedAt(0)
    BY <2>1, <2>2, <2>3 DEF TypedAt
  <2> QED
    BY <2>4
<1>3. ASSUME NEW d \in Nat, d \in T PROVE d + 1 \in T
  <2>1. 3 * (d + 1) = 3 * d + 3
    OBVIOUS
  <2>2. SUFFICES ASSUME NEW b \in Written[d + 1], NEW walked \in BOOLEAN
                 PROVE  /\ Typed(TransformBlock[d + 1][b][walked], d + 1)
                        /\ ~walked => ~TransformBlock[d + 1][b][walked].jump
    BY DEF TypedAt
  <2> DEFINE r == TransformBlock[d + 1][b][walked]
             transform == TransformBlock[d]
  <2>3. r = TransformStatements(transform, b, walked)
    BY TransformRecursion
  <2>4. ASSUME b = End PROVE Typed(r, d + 1) /\ (~walked => ~r.jump)
    <3>1. r = Result(End, FALSE, {})
      BY <2>3, <2>4 DEF TransformStatements
    <3> HIDE DEF r
    <3>2. Typed(r, d + 1)
      <4>1. d + 1 \in Nat
        OBVIOUS
      <4> QED
        BY <1>1, <3>1, <4>1
    <3>3. r.jump = FALSE
      BY <3>1 DEF Result
    <3> QED
      BY <3>2, <3>3
  <2>5. ASSUME b # End, walked, b.op \in Jumps PROVE Typed(r, d + 1) /\ (~walked => ~r.jump)
    <3>1. r = Result(JumpAssignments(b), TRUE, JumpWires(b))
      BY <2>3, <2>5 DEF TransformStatements
    <3> HIDE DEF r
    <3> QED
      BY <2>1, <2>5, <3>1, JumpTyped DEF Result, Typed
  <2>6. ASSUME b # End, ~(walked /\ b.op \in Jumps) PROVE Typed(r, d + 1) /\ (~walked => ~r.jump)
    <3> DEFINE first == TransformStatement(transform, b, walked)
               rest == transform[b.rest][walked]
    <3>1. r = Result(Then(first.piece, Following(first, rest)), first.jump \/ rest.jump,
                     first.wires \cup rest.wires)
      BY <2>3, <2>6 DEF TransformStatements, Following
    <3>2. WellMade(first, d, walked)
      BY <1>3, <2>6, FirstTyped
    <3>3. Typed(rest, d) /\ (~walked => ~rest.jump)
      BY <1>3, <2>6, WrittenShape DEF TypedAt
    <3> HIDE DEF r, first, rest
    <3>4. Following(first, rest) \in Made[3 * d + 2]
      <4>1. 3 * d + 2 \in Nat
        OBVIOUS
      <4> QED
        BY <3>3, <4>1, FollowingTyped
    <3>5. Then(first.piece, Following(first, rest)) \in Made[3 * d + 3]
      <4>1. 3 * d + 2 \in Nat /\ (3 * d + 2) + 1 = 3 * d + 3
        OBVIOUS
      <4>2. first.piece \in Made[(3 * d + 2) + 1] /\ first.piece # End
        BY <3>2, <4>1 DEF WellMade
      <4> QED
        BY <3>4, <4>1, <4>2, Replaced
    <3>6. /\ r.piece \in Made[3 * d + 3] /\ r.jump = (first.jump \/ rest.jump)
          /\ r.wires = first.wires \cup rest.wires
      BY <3>1, <3>5 DEF Result
    <3>7. r.jump \in BOOLEAN /\ (~walked => ~r.jump)
      BY <3>2, <3>3, <3>6 DEF WellMade
    <3> QED
      BY <2>1, <3>2, <3>3, <3>6, <3>7 DEF WellMade, Typed
  <2> QED
    BY <2>4, <2>5, <2>6
<1> HIDE DEF T
<1>4. \A d \in Nat : d \in T
  BY <1>2, <1>3, Induct
<1> QED
  BY <1>4 DEF T

------------------------------------------------------------------------------
(***************************************************************************)
(* Execution                                                               *)
(***************************************************************************)
\* A nested loop, one iteration after the other.
LEMMA NestedRuns ==
    ASSUME NEW run, NEW s, NEW m
    PROVE  \E after : /\ after[0] = Enter(s, m)
                      /\ \A k \in Nat : k < InnerIterations =>
                            after[k + 1] = Advance(run, s, after[k], k + 1)
                      /\ RunNested(run, s, m) = after[InnerIterations]
PROOF
<1> DEFINE given == [run |-> run, s |-> s, m |-> m]
           I == InnerIterations
           Over(k, p) == IF k = 0 THEN Enter(s, m) ELSE Advance(run, s, p, k)
           after == CHOOSE g : g = [k \in 0 .. I |-> Over(k, g[k - 1])]
<1>1. \A k, p : At("nested", given, k, p) = Over(k, p)
  BY DEF At
<1>2. \A p, q : At("nested", given, 0, p) = At("nested", given, 0, q)
  BY <1>1
<1> HIDE DEF given
<1>3. PICK f : Follows(f, "nested", given)
  BY <1>2, Recursion
<1>4. \A k \in Nat : f[k] = Over(k, f[k - 1])
  BY <1>1, <1>3 DEF Follows
<1>5. I \in Nat
  BY BoundsAssumption
<1>6. \E g : g = [k \in 0 .. I |-> Over(k, g[k - 1])]
  <2> DEFINE g == [k \in 0 .. I |-> f[k]]
  <2>1. \A k \in 0 .. I : g[k] = f[k] /\ k \in Nat /\ (k # 0 => k - 1 \in 0 .. I)
    BY <1>5
  <2>2. \A k \in 0 .. I : g[k] = Over(k, g[k - 1])
    <3> HIDE DEF g
    <3> QED
      BY <1>4, <2>1
  <2>3. g = [k \in 0 .. I |-> g[k]]
    OBVIOUS
  <2>4. g = [k \in 0 .. I |-> Over(k, g[k - 1])]
    <3> HIDE DEF g
    <3> QED
      BY <2>2, <2>3
  <2> QED
    BY <2>4
<1>7. after = [k \in 0 .. I |-> Over(k, after[k - 1])]
  BY <1>6
<1>8. RunNested(run, s, m) = after[I]
  BY DEF RunNested
<1> HIDE DEF after
<1>9. after[0] = Enter(s, m)
  BY <1>5, <1>7
<1>10. ASSUME NEW k \in Nat, k < I
       PROVE  after[k + 1] = Advance(run, s, after[k], k + 1)
  <2>1. k + 1 \in 0 .. I /\ k + 1 # 0 /\ (k + 1) - 1 = k
    BY <1>5, <1>10
  <2> QED
    BY <1>7, <2>1
<1> QED
  BY <1>8, <1>9, <1>10

RunTypedAt(choices, d) ==
    \A n \in 0 .. InnerIterations, b \in Made[d], m \in Machine : Run(choices)[d][n][b][m] \in Machine

LEMMA EnterTyped ==
    \A s, m : m \in Machine => Enter(s, m) \in Machine
BY DEF Enter, Machine, Registers

LEMMA AdvanceTyped ==
    ASSUME NEW choices, NEW d \in Nat, RunTypedAt(choices, d), NEW s, s.body \in Made[d],
           NEW m \in Machine, NEW n \in 0 .. InnerIterations
    PROVE  Advance(Run(choices)[d], s, m, n) \in Machine
PROOF
<1>1. [m EXCEPT !.jump = "none"] \in Machine
  BY DEF Machine
<1> QED
  BY <1>1 DEF Advance, RunTypedAt

LEMMA NestedTyped ==
    ASSUME NEW choices, NEW d \in Nat, RunTypedAt(choices, d), NEW s, s.body \in Made[d],
           NEW m \in Machine
    PROVE  RunNested(Run(choices)[d], s, m) \in Machine
PROOF
<1> DEFINE I == InnerIterations
           run == Run(choices)[d]
<1>1. PICK after : /\ after[0] = Enter(s, m)
                   /\ \A k \in Nat : k < I => after[k + 1] = Advance(run, s, after[k], k + 1)
                   /\ RunNested(run, s, m) = after[I]
  BY NestedRuns
<1> DEFINE T == {k \in Nat : k <= I => after[k] \in Machine}
<1>2. 0 \in T
  BY <1>1, EnterTyped
<1>3. ASSUME NEW k \in Nat, k \in T PROVE k + 1 \in T
  <2>1. SUFFICES ASSUME k + 1 <= I PROVE after[k + 1] \in Machine
    OBVIOUS
  <2>2. I \in Nat /\ k < I /\ k <= I /\ k + 1 \in 0 .. I
    BY <2>1, BoundsAssumption
  <2> QED
    BY <1>1, <1>3, <2>2, AdvanceTyped
<1> HIDE DEF T
<1>4. \A k \in Nat : k \in T
  BY <1>2, <1>3, Induct
<1>5. I \in T /\ I <= I
  BY <1>4, BoundsAssumption
<1> QED
  BY <1>1, <1>5 DEF T

LEMMA StepTyped ==
    ASSUME NEW choices, NEW d \in Nat, RunTypedAt(choices, d), NEW b \in Made[d + 1], b # End,
           NEW m \in Machine, NEW n \in 0 .. InnerIterations
    PROVE  Step(Run(choices)[d], b, m, choices, n) \in Machine
PROOF
<1> DEFINE run == Run(choices)[d]
           step == Step(run, b, m, choices, n)
<1>1. \A c \in Made[d], x \in Machine : run[n][c][x] \in Machine
  BY DEF RunTypedAt
<1>2. /\ b.op \in {"act", "block", "case", "loop", "unless", "transformed"} \cup Jumps \cup Assignments
      /\ b.op = "act" => b.id \in Nat
      /\ b.op = "case" => b.items \in Seq(Made[d])
      /\ b.op \in {"block", "loop", "unless", "transformed"} => b.body \in Made[d]
  BY MadeShape
<1>3. m.out \in Seq(Nat) /\ m.set \subseteq Registers
  BY DEF Machine
<1>4. ASSUME b.op \in {"loop", "transformed"} PROVE step \in Machine
  <2>1. RunNested(run, b, m) \in Machine
    BY <1>2, <1>4, NestedTyped
  <2>2. step = [m EXCEPT !.out = RunNested(run, b, m).out]
    BY <1>4 DEF Step, Jumps
  <2> QED
    BY <2>1, <2>2 DEF Machine
<1> HIDE DEF run
<1>5. ASSUME b.op = "case" PROVE step \in Machine
  <2> DEFINE k == choices[n][b.id]
  <2>1. step = IF k \in DOMAIN b.items THEN run[n][b.items[k]][m] ELSE m
    BY <1>5 DEF Step, Jumps
  <2>2. k \in DOMAIN b.items => b.items[k] \in Made[d]
    BY <1>2, <1>5
  <2> QED
    BY <1>1, <2>1, <2>2
<1>6. ASSUME b.op \in {"block", "unless"} PROVE step \in Machine
  BY <1>1, <1>2, <1>6 DEF Step, Jumps
<1>7. ASSUME b.op \in Jumps PROVE step \in Machine
  BY <1>7 DEF Step, Jumps, Machine
<1>8. ASSUME b.op = "act" PROVE step \in Machine
  <2>1. step = [m EXCEPT !.out = Append(m.out, b.id)]
    BY <1>8 DEF Step, Jumps
  <2>2. Append(m.out, b.id) \in Seq(Nat)
    BY <1>2, <1>3, <1>8
  <2> QED
    BY <2>1, <2>2 DEF Machine
<1>9. ASSUME b.op \in Assignments PROVE step \in Machine
  BY <1>9 DEF Step, Jumps, Machine, Assignments, Registers
<1> QED
  BY <1>2, <1>4, <1>5, <1>6, <1>7, <1>8, <1>9 DEF run

LEMMA RunTyped ==
    ASSUME NEW choices
    PROVE  \A d \in Nat : RunTypedAt(choices, d)
PROOF
<1> DEFINE T == {d \in Nat : RunTypedAt(choices, d)}
<1>1. 0 \in T
  <2>1. \A b \in Made[0] : b = End
    BY MadeHeights
  <2> QED
    BY <2>1, RunRecursion DEF RunTypedAt
<1>2. ASSUME NEW d \in Nat, d \in T PROVE d + 1 \in T
  <2>1. SUFFICES ASSUME NEW n \in 0 .. InnerIterations, NEW b \in Made[d + 1], NEW m \in Machine
                 PROVE  Run(choices)[d + 1][n][b][m] \in Machine
    BY DEF RunTypedAt
  <2>2. Run(choices)[d + 1][n][b][m] = RunStatements(Run(choices)[d], b, m, choices, n)
    BY RunRecursion
  <2>3. b # End => b.rest \in Made[d] /\ Step(Run(choices)[d], b, m, choices, n) \in Machine
    BY <1>2, MadeShape, StepTyped
  <2> QED
    BY <1>2, <2>2, <2>3 DEF RunStatements, RunTypedAt
<1> HIDE DEF T
<1>3. \A d \in Nat : d \in T
  BY <1>1, <1>2, Induct
<1> QED
  BY <1>3 DEF T

\* A block runs its first statement and then its rest.
LEMMA RunFirst ==
    ASSUME NEW choices, NEW d \in Nat, NEW b \in Made[d + 1], b # End,
           NEW m \in Machine, m.jump = "none", NEW n \in 0 .. InnerIterations
    PROVE  Run(choices)[d + 1][n][b][m]
           = Run(choices)[d][n][b.rest][Step(Run(choices)[d], b, m, choices, n)]
PROOF
<1>1. Run(choices)[d + 1][n][b][m] = RunStatements(Run(choices)[d], b, m, choices, n)
  BY RunRecursion
<1> QED
  BY <1>1 DEF RunStatements

\* Nothing runs at the end of a block, or while a jump is pending.
LEMMA RunStops ==
    ASSUME NEW choices, NEW d \in Nat, NEW b \in Made[d],
           NEW m \in Machine, b = End \/ m.jump # "none", NEW n \in 0 .. InnerIterations
    PROVE  Run(choices)[d][n][b][m] = m
PROOF
<1>1. CASE d = 0
  <2>1. b = End
    BY <1>1, MadeHeights
  <2> QED
    BY <1>1, <2>1, RunRecursion
<1>2. CASE d # 0
  <2>1. d - 1 \in Nat /\ (d - 1) + 1 = d
    BY <1>2
  <2>2. Run(choices)[d][n][b][m] = RunStatements(Run(choices)[d - 1], b, m, choices, n)
    BY <2>1, RunRecursion
  <2> QED
    BY <2>2 DEF RunStatements
<1> QED
  BY <1>1, <1>2

LEMMA EndHasNoJump ==
    \A d \in Nat : ~HasJump[d][End]
PROOF
<1>1. ASSUME NEW d \in Nat, d # 0 PROVE ~HasJump[d][End]
  <2>1. d - 1 \in Nat /\ (d - 1) + 1 = d
    BY <1>1
  <2>2. HasJump[d][End] = JumpIn(HasJump[d - 1], End)
    BY <2>1, EndAtAll, JumpRecursion
  <2> QED
    BY <2>2 DEF JumpIn
<1> QED
  BY <1>1, JumpRecursion

\* Where there is no jump, there is none in a part either.
LEMMA NoJumpInside ==
    ASSUME NEW d \in Nat, NEW b \in Made[d + 1], b # End, ~HasJump[d + 1][b]
    PROVE  /\ b.op \notin Jumps /\ ~HasJump[d][b.rest]
           /\ b.op \in {"block", "unless", "loop", "transformed"} => ~HasJump[d][b.body]
           /\ b.op = "case" => \A k \in DOMAIN b.items : ~HasJump[d][b.items[k]]
PROOF
<1>1. HasJump[d + 1][b] = JumpIn(HasJump[d], b)
  BY JumpRecursion
<1> QED
  BY <1>1 DEF JumpIn

LEMMA UnlessRuns ==
    ASSUME NEW choices, NEW d \in Nat, NEW body \in Made[d], NEW register \in Registers,
           NEW m \in Machine, m.jump = "none", NEW n \in 0 .. InnerIterations
    PROVE  /\ Unless(register, body) \in Made[d + 1]
           /\ Run(choices)[d + 1][n][Unless(register, body)][m]
              = IF register \in m.set THEN m ELSE Run(choices)[d][n][body][m]
           /\ ~HasJump[d + 1][Unless(register, body)] => ~HasJump[d][body]
PROOF
<1> DEFINE u == Unless(register, body)
<1>1. u.op = "unless" /\ u.rest = End /\ u.register = register /\ u.body = body /\ u # End
  BY DEF Unless, End
<1>2. u \in Made[d + 1]
  <2>1. u \in MadeOver(Made[d])
    BY EndAtAll DEF Unless, MadeOver
  <2> QED
    BY <2>1, MadeHeights
<1> HIDE DEF u
<1>3. Step(Run(choices)[d], u, m, choices, n) = IF register \in m.set THEN m ELSE Run(choices)[d][n][body][m]
  BY <1>1 DEF Step, Jumps
<1>4. Run(choices)[d + 1][n][u][m] = Run(choices)[d][n][End][Step(Run(choices)[d], u, m, choices, n)]
  BY <1>1, <1>2, RunFirst
<1>5. Step(Run(choices)[d], u, m, choices, n) \in Machine
  BY <1>1, <1>2, StepTyped, RunTyped
<1>6. Run(choices)[d + 1][n][u][m] = Step(Run(choices)[d], u, m, choices, n)
  BY <1>4, <1>5, RunStops, EndAtAll
<1>7. ~HasJump[d + 1][u] => ~HasJump[d][body]
  BY <1>1, <1>2, NoJumpInside
<1> QED
  BY <1>2, <1>3, <1>6, <1>7 DEF u

LEMMA ClearRuns ==
    ASSUME NEW choices, NEW d \in Nat, NEW piece \in Made[d],
           NEW m \in Machine, m.jump = "none", NEW n \in 0 .. InnerIterations
    PROVE  LET c == Then(ClearContinue, piece) IN
           /\ c \in Made[d + 1]
           /\ Run(choices)[d + 1][n][c][m]
              = Run(choices)[d][n][piece][[m EXCEPT !.set = @ \ {"$continue"}]]
           /\ ~HasJump[d + 1][c] => ~HasJump[d][piece]
PROOF
<1> DEFINE c == Then(ClearContinue, piece)
<1>1. c.op = "$continue = 0" /\ c.rest = piece /\ c # End
  BY DEF Then, ClearContinue, End
<1>2. c \in Made[d + 1]
  <2>1. c \in MadeOver(Made[d])
    BY DEF Then, ClearContinue, MadeOver, Assignments
  <2> QED
    BY <2>1, MadeHeights
<1> HIDE DEF c
<1>3. Step(Run(choices)[d], c, m, choices, n) = [m EXCEPT !.set = @ \ {"$continue"}]
  BY <1>1 DEF Step, Jumps
<1>4. Run(choices)[d + 1][n][c][m] = Run(choices)[d][n][piece][Step(Run(choices)[d], c, m, choices, n)]
  BY <1>1, <1>2, RunFirst
<1>5. ~HasJump[d + 1][c] => ~HasJump[d][piece]
  BY <1>1, <1>2, NoJumpInside
<1> QED
  BY <1>2, <1>3, <1>4, <1>5 DEF c

------------------------------------------------------------------------------
(***************************************************************************)
(* The transformed block does what the block does                          *)
(***************************************************************************)
\* The machines x and y before a block, with result r, and its transformed form:
\* $continue is clear if it is used.
Ready(r, x, y) ==
    /\ x \in Machine /\ y \in Machine /\ x.jump = "none" /\ y.jump = "none" /\ x.out = y.out
    /\ r.wires # {} => "$continue" \notin y.set

\* The machines behind them; the registers were `set` before.  The jump that is
\* pending in the source is in the registers.
Does(r, x, y, set) ==
    /\ x \in Machine /\ y \in Machine /\ y.jump = "none" /\ x.out = y.out
    /\ x.jump = "break" => "$break" \in r.wires
    /\ r.jump => /\ x.jump # "none" <=> "$continue" \in y.set
                 /\ "$break" \in y.set <=> ("$break" \in set \/ x.jump = "break")
    /\ ~r.jump => x.jump = "none" /\ y.set = set

\* The transformed block may run at any height at which it is a block.
SimulatedAt(choices, d) ==
    \A e \in Nat, b \in Written[d], walked \in BOOLEAN, n \in 0 .. InnerIterations : \A x, y :
        LET r == TransformBlock[d][b][walked] IN
        3 * d <= e /\ ~HasJump[e][r.piece] /\ Ready(r, x, y)
        => Does(r, Run(choices)[d][n][b][x], Run(choices)[e][n][r.piece][y], y.set)

\* The source loop and the transformed one between iterations.
Abreast(x, y, r) ==
    /\ x \in Machine /\ y \in Machine /\ y.jump = "none" /\ x.out = y.out
    /\ x.jump = "break" <=> ("$break" \in r.wires /\ "$break" \in y.set)

\* t is the loop that is made of a body with result r, in front of any rest.
LoopOf(t, kind, r) ==
    /\ t.op = "transformed" /\ t.kind = kind /\ t.breaks = ("$break" \in r.wires)
    /\ t.body = Skippable(kind, "$break" \in r.wires, Cleared(r))

\* The body of the transformed loop behind the test of $break.
LEMMA ClearedRuns ==
    ASSUME NEW choices, NEW d \in Nat, SimulatedAt(choices, d),
           NEW b \in Written[d], NEW e \in Nat, 3 * d + 1 <= e, NEW n \in 0 .. InnerIterations,
           ~HasJump[e][Cleared(TransformBlock[d][b][TRUE])],
           NEW x \in Machine, NEW y \in Machine, x.jump = "none", y.jump = "none", x.out = y.out
    PROVE  LET r == TransformBlock[d][b][TRUE] IN
           Does(r, Run(choices)[d][n][b][x], Run(choices)[e][n][Cleared(r)][y], y.set \ {"$continue"})
           \/ (~r.jump /\ Does(r, Run(choices)[d][n][b][x], Run(choices)[e][n][Cleared(r)][y], y.set))
PROOF
<1> DEFINE r == TransformBlock[d][b][TRUE]
<1>1. Typed(r, d)
  BY TransformTyped DEF TypedAt
<1>2. ASSUME NEW f \in Nat, NEW z, 3 * d <= f, ~HasJump[f][r.piece], Ready(r, x, z)
      PROVE  Does(r, Run(choices)[d][n][b][x], Run(choices)[f][n][r.piece][z], z.set)
  BY <1>2 DEF SimulatedAt
<1> HIDE DEF r
<1>3. CASE "$continue" \in r.wires
  <2> DEFINE f == e - 1
             z == [y EXCEPT !.set = @ \ {"$continue"}]
  <2>1. f \in Nat /\ f + 1 = e /\ 3 * d <= f /\ 3 * d \in Nat
    OBVIOUS
  <2>2. r.piece \in Made[f]
    BY <1>1, <2>1, Higher DEF Typed
  <2>3. Cleared(r) = Then(ClearContinue, r.piece)
    BY <1>3 DEF Cleared
  <2>4. ~HasJump[e][Cleared(r)]
    BY DEF r
  <2> HIDE DEF f
  <2>5. Run(choices)[e][n][Cleared(r)][y] = Run(choices)[f][n][r.piece][z] /\ ~HasJump[f][r.piece]
    <3>1. /\ Run(choices)[f + 1][n][Then(ClearContinue, r.piece)][y] = Run(choices)[f][n][r.piece][z]
          /\ ~HasJump[f + 1][Then(ClearContinue, r.piece)] => ~HasJump[f][r.piece]
      BY <2>1, <2>2, ClearRuns
    <3> QED
      BY <2>1, <2>3, <2>4, <3>1
  <2>6. Ready(r, x, z) /\ z.set = y.set \ {"$continue"}
    BY DEF Ready, Machine
  <2>7. Does(r, Run(choices)[d][n][b][x], Run(choices)[e][n][Cleared(r)][y], y.set \ {"$continue"})
    BY <1>2, <2>1, <2>5, <2>6
  <2> QED
    BY <2>7 DEF r
<1>4. CASE "$continue" \notin r.wires
  <2>1. Cleared(r) = r.piece /\ r.wires = {} /\ ~r.jump
    BY <1>1, <1>4 DEF Cleared, Typed
  <2>2. ~HasJump[e][Cleared(r)]
    BY DEF r
  <2>3. Ready(r, x, y) /\ 3 * d <= e
    BY <2>1 DEF Ready
  <2>4. Does(r, Run(choices)[d][n][b][x], Run(choices)[e][n][Cleared(r)][y], y.set)
    BY <1>2, <2>1, <2>2, <2>3
  <2> QED
    BY <2>1, <2>4 DEF r
<1> QED
  BY <1>3, <1>4

\* One iteration of a loop keeps the source and the transformed loop abreast.
ResultOf(r, d, body) == r = TransformBlock[d][body][TRUE]

LEMMA Turn ==
    ASSUME NEW choices, NEW d \in Nat, SimulatedAt(choices, d), NEW e \in Nat, 3 * d + 2 <= e,
           NEW s, s.op = "loop", s.body \in Written[d], s.kind \in LoopKinds,
           NEW r, ResultOf(r, d, s.body),
           NEW t, LoopOf(t, s.kind, r), ~HasJump[e][t.body],
           NEW x, NEW y, Abreast(x, y, r), NEW n \in 0 .. InnerIterations
    PROVE  Abreast(Advance(Run(choices)[d], s, x, n), Advance(Run(choices)[e], t, y, n), r)
PROOF
<1> DEFINE source1 == Run(choices)[d][n][s.body]
           x0 == [x EXCEPT !.jump = "none"]
           x2 == Advance(Run(choices)[d], s, x, n)
           y2 == Advance(Run(choices)[e], t, y, n)
<1>1. Typed(r, d)
  BY TransformTyped DEF TypedAt, ResultOf
<1>2. x \in Machine /\ y \in Machine /\ y.jump = "none" /\ x.out = y.out
      /\ (x.jump = "break" <=> ("$break" \in r.wires /\ "$break" \in y.set))
  BY DEF Abreast
<1>3. x0 \in Machine /\ x0.jump = "none" /\ x0.out = y.out
  BY <1>2 DEF Machine
<1>4. [y EXCEPT !.jump = "none"] = y
  BY <1>2 DEF Machine
<1>5. Cleared(r) \in Made[3 * d + 1] /\ 3 * d + 1 \in Nat
  <2>1. Cleared(r) \in Made[3 * d + 1]
    BY <1>1, LoopTyped
  <2> QED
    BY <2>1
<1>6. "$break" \in Registers
  BY DEF Registers
<1>7. ASSUME NEW f \in Nat, 3 * d + 1 <= f, ~HasJump[f][Cleared(r)], x.jump # "break"
      PROVE  Abreast(source1[x0], Run(choices)[f][n][Cleared(r)][y], r)
  <2> DEFINE x1 == source1[x0]
             y1 == Run(choices)[f][n][Cleared(r)][y]
  <2>1. \/ Does(r, x1, y1, y.set \ {"$continue"})
        \/ ~r.jump /\ Does(r, x1, y1, y.set)
    BY <1>2, <1>3, <1>7, ClearedRuns DEF ResultOf
  <2> HIDE DEF x1, y1
  <2>2. "$break" \in r.wires => "$break" \notin y.set
    BY <1>2, <1>7
  <2>3. Abreast(x1, y1, r)
    BY <2>1, <2>2 DEF Does, Abreast
  <2> QED
    BY <2>3 DEF x1, y1
<1>8. y2 = IF s.kind = "while" /\ "$break" \in r.wires /\ "$break" \in y.set
           THEN y ELSE Run(choices)[e][n][t.body][y]
  <2>1. GoesOn(t, y) <=> ~(s.kind = "while" /\ "$break" \in r.wires /\ "$break" \in y.set)
    BY DEF GoesOn, LoopOf
  <2> QED
    BY <1>4, <2>1 DEF Advance
<1>9. x2 = IF x.jump # "break" THEN source1[x0] ELSE x
  BY DEF Advance, GoesOn
<1> HIDE DEF x2, y2
<1>10. ASSUME "$break" \in r.wires, s.kind # "while" PROVE Abreast(x2, y2, r)
  <2>1. t.body = Unless("$break", Cleared(r))
    BY <1>10 DEF LoopOf, Skippable, LoopKinds
  <2> DEFINE f == e - 1
  <2>2. f \in Nat /\ f + 1 = e /\ 3 * d + 1 <= f
    OBVIOUS
  <2>3. Cleared(r) \in Made[f]
    BY <1>5, <2>2, Higher
  <2> HIDE DEF f
  <2>4. /\ Run(choices)[f + 1][n][Unless("$break", Cleared(r))][y]
           = IF "$break" \in y.set THEN y ELSE Run(choices)[f][n][Cleared(r)][y]
        /\ ~HasJump[f + 1][Unless("$break", Cleared(r))] => ~HasJump[f][Cleared(r)]
    BY <1>2, <1>6, <2>2, <2>3, UnlessRuns
  <2>5. y2 = IF "$break" \in y.set THEN y ELSE Run(choices)[f][n][Cleared(r)][y]
    BY <1>8, <1>10, <2>1, <2>2, <2>4
  <2>6. ~HasJump[f][Cleared(r)]
    BY <2>1, <2>2, <2>4
  <2>7. CASE x.jump = "break"
    BY <1>2, <1>9, <2>5, <2>7
  <2>8. CASE x.jump # "break"
    BY <1>2, <1>7, <1>9, <1>10, <2>2, <2>5, <2>6, <2>8
  <2> QED
    BY <2>7, <2>8
<1>11. ASSUME "$break" \notin r.wires \/ s.kind = "while" PROVE Abreast(x2, y2, r)
  <2>1. t.body = Cleared(r)
    BY <1>11 DEF LoopOf, Skippable
  <2>2. 3 * d + 1 <= e
    OBVIOUS
  <2>3. CASE x.jump = "break"
    BY <1>2, <1>8, <1>9, <1>11, <2>3
  <2>4. CASE x.jump # "break"
    BY <1>2, <1>7, <1>8, <1>9, <1>11, <2>1, <2>2, <2>4
  <2> QED
    BY <2>3, <2>4
<1> QED
  BY <1>10, <1>11 DEF x2, y2

LEMMA EnterAbreast ==
    ASSUME NEW s, s.op = "loop", NEW r, NEW t, LoopOf(t, s.kind, r),
           NEW m \in Machine, NEW k \in Machine, m.jump = "none", k.jump = "none", m.out = k.out
    PROVE  Abreast(Enter(s, m), Enter(t, k), r)
PROOF
<1>1. Enter(s, m) = [m EXCEPT !.set = Registers]
  BY DEF Enter
<1>2. Enter(t, k) = [k EXCEPT !.set = IF "$break" \in r.wires THEN {"$continue"} ELSE Registers]
  BY DEF Enter, LoopOf
<1> QED
  BY <1>1, <1>2 DEF Abreast, Machine, Registers

\* So the iterations of a nested loop have the same effects.
LEMMA NestedAlike ==
    ASSUME NEW choices, NEW d \in Nat, SimulatedAt(choices, d), NEW e \in Nat, 3 * d + 2 <= e,
           NEW s, s.op = "loop", s.body \in Written[d], s.kind \in LoopKinds,
           NEW r, ResultOf(r, d, s.body),
           NEW t, LoopOf(t, s.kind, r), ~HasJump[e][t.body],
           NEW m \in Machine, NEW k \in Machine, m.jump = "none", k.jump = "none", m.out = k.out
    PROVE  RunNested(Run(choices)[d], s, m).out = RunNested(Run(choices)[e], t, k).out
PROOF
<1> DEFINE I == InnerIterations
<1>1. PICK before : /\ before[0] = Enter(s, m)
                    /\ \A i \in Nat : i < I => before[i + 1] = Advance(Run(choices)[d], s, before[i], i + 1)
                    /\ RunNested(Run(choices)[d], s, m) = before[I]
  BY NestedRuns
<1>2. PICK after : /\ after[0] = Enter(t, k)
                   /\ \A i \in Nat : i < I => after[i + 1] = Advance(Run(choices)[e], t, after[i], i + 1)
                   /\ RunNested(Run(choices)[e], t, k) = after[I]
  BY NestedRuns
<1> DEFINE T == {i \in Nat : i <= I => Abreast(before[i], after[i], r)}
<1>3. 0 \in T
  <2>1. Abreast(Enter(s, m), Enter(t, k), r)
    BY EnterAbreast
  <2> QED
    BY <1>1, <1>2, <2>1
<1>4. ASSUME NEW i \in Nat, i \in T PROVE i + 1 \in T
  <2>1. SUFFICES ASSUME i + 1 <= I PROVE Abreast(before[i + 1], after[i + 1], r)
    OBVIOUS
  <2>2. I \in Nat /\ i < I /\ i <= I /\ i + 1 \in 0 .. InnerIterations
    BY <2>1, BoundsAssumption
  <2>3. Abreast(before[i], after[i], r)
    BY <1>4, <2>2
  <2>4. Abreast(Advance(Run(choices)[d], s, before[i], i + 1), Advance(Run(choices)[e], t, after[i], i + 1), r)
    BY <2>2, <2>3, Turn
  <2> QED
    BY <1>1, <1>2, <2>2, <2>4
<1> HIDE DEF T
<1>5. \A i \in Nat : i \in T
  BY <1>3, <1>4, Induct
<1>6. Abreast(before[I], after[I], r)
  BY <1>5, BoundsAssumption DEF T
<1> QED
  BY <1>1, <1>2, <1>6 DEF Abreast

\* The first statement of a block, with whatever is behind it.
FirstOf(first, d, b, walked) == first = TransformStatement(TransformBlock[d], b, walked)

LEMMA FirstDoes ==
    ASSUME NEW choices, NEW d \in Nat, SimulatedAt(choices, d), NEW e \in Nat, 3 * d + 2 <= e,
           NEW b \in Written[d + 1], b # End, NEW walked \in BOOLEAN,
           NEW first, FirstOf(first, d, b, walked),
           NEW p \in Made[e + 1], p # End, SameStatement(p, first.piece), ~HasJump[e + 1][p],
           NEW x, NEW y, Ready(first, x, y), NEW n \in 0 .. InnerIterations
    PROVE  Does(first, Step(Run(choices)[d], b, x, choices, n), Step(Run(choices)[e], p, y, choices, n), y.set)
PROOF
<1> DEFINE x1 == Step(Run(choices)[d], b, x, choices, n)
           y1 == Step(Run(choices)[e], p, y, choices, n)
<1>0. b \in WrittenOver(Written[d])
  BY WrittenHeights
<1>1. x \in Machine /\ y \in Machine /\ x.jump = "none" /\ y.jump = "none" /\ x.out = y.out
  BY DEF Ready
<1>2. x1 \in Machine
  <2>1. b \in Made[d + 1]
    BY WrittenIsMade
  <2> QED
    BY <1>1, <2>1, StepTyped, RunTyped
<1>3. y1 \in Machine
  BY <1>1, StepTyped, RunTyped
<1>4. /\ p.op \notin Jumps
      /\ p.op \in {"block", "unless", "loop", "transformed"} => ~HasJump[e][p.body]
      /\ p.op = "case" => \A k \in DOMAIN p.items : ~HasJump[e][p.items[k]]
  BY NoJumpInside
<1>5. /\ b.op \in {"act", "block", "case", "loop"} \cup Jumps
      /\ b.op = "case" => b.items \in Seq(Written[d]) /\ b.exact \in BOOLEAN
      /\ b.op \in {"block", "loop"} => b.body \in Written[d]
      /\ b.op = "loop" => b.kind \in LoopKinds
  BY WrittenShape
<1>6. ASSUME NEW c \in Written[d], NEW v \in BOOLEAN,
             ~HasJump[e][TransformBlock[d][c][v].piece], Ready(TransformBlock[d][c][v], x, y)
      PROVE  LET r == TransformBlock[d][c][v] IN
             Does(r, Run(choices)[d][n][c][x], Run(choices)[e][n][r.piece][y], y.set)
  <2>1. 3 * d <= e
    OBVIOUS
  <2> QED
    BY <1>6, <2>1 DEF SimulatedAt
<1> HIDE DEF x1, y1
<1>7. ASSUME b.op = "act" PROVE Does(first, x1, y1, y.set)
  <2>1. first = Result(b, FALSE, {})
    BY <1>7 DEF FirstOf, TransformStatement
  <2>2. p.op = "act" /\ p.id = b.id
    BY <1>7, <2>1 DEF Result, SameStatement
  <2>3. x1 = [x EXCEPT !.out = Append(x.out, b.id)] /\ y1 = [y EXCEPT !.out = Append(y.out, b.id)]
    BY <1>7, <2>2 DEF Step, Jumps, x1, y1
  <2>4. x1.out = y1.out /\ x1.jump = "none" /\ y1.jump = "none" /\ y1.set = y.set
    BY <1>1, <2>3 DEF Machine
  <2> QED
    BY <1>2, <1>3, <2>1, <2>4 DEF Does, Result
<1>8. ASSUME b.op \in Jumps PROVE FALSE
  <2>1. first = Result(b, FALSE, {})
    BY <1>8 DEF FirstOf, TransformStatement, Jumps
  <2>2. p.op = b.op
    BY <2>1 DEF Result, SameStatement
  <2> QED
    BY <1>4, <1>8, <2>2
<1>9. ASSUME b.op = "block" PROVE Does(first, x1, y1, y.set)
  <2> DEFINE r == TransformBlock[d][b.body][walked]
  <2>1. first = Result([b EXCEPT !.body = r.piece], r.jump, r.wires)
    BY <1>9 DEF FirstOf, TransformStatement
  <2>2. b \in [op : {"block"}, body : Written[d], rest : Written[d]]
    BY <1>0, <1>9 DEF WrittenOver, Jumps, End
  <2>3. b.body \in Written[d]
    BY <2>2
  <2>4. ASSUME ~HasJump[e][r.piece], Ready(r, x, y)
        PROVE  Does(r, Run(choices)[d][n][b.body][x], Run(choices)[e][n][r.piece][y], y.set)
    BY <1>6, <2>3, <2>4
  <2> HIDE DEF r
  <2>5. p.op = "block" /\ p.body = r.piece /\ first.jump = r.jump /\ first.wires = r.wires
    BY <2>1, <2>2 DEF Result, SameStatement
  <2>6. x1 = Run(choices)[d][n][b.body][x] /\ y1 = Run(choices)[e][n][p.body][y]
    BY <1>9, <2>5 DEF Step, Jumps, x1, y1
  <2>7. Ready(r, x, y)
    BY <2>5 DEF Ready
  <2>8. Does(r, x1, y1, y.set)
    BY <1>4, <2>4, <2>5, <2>6, <2>7
  <2> QED
    BY <2>5, <2>8 DEF Does
<1>10. ASSUME b.op = "loop" PROVE Does(first, x1, y1, y.set)
  <2> DEFINE r == TransformBlock[d][b.body][TRUE]
             loop == TransformLoop(b.kind, r)
  <2>1. first = Result(loop, FALSE, {})
    BY <1>10 DEF FirstOf, TransformStatement
  <2>2. b.body \in Written[d] /\ b.kind \in LoopKinds
    BY <1>5, <1>10
  <2>3. Typed(r, d)
    BY <2>2, TransformTyped DEF TypedAt
  <2>4. ResultOf(r, d, b.body)
    BY DEF ResultOf
  <2> HIDE DEF r
  <2>5. /\ loop = Transformed(b.kind, loop.body, loop.breaks)
        /\ loop.breaks = ("$break" \in r.wires)
        /\ loop.body = Skippable(b.kind, loop.breaks, Cleared(r))
    BY <2>2, <2>3, LoopTyped
  <2> HIDE DEF loop
  <2>6. first.piece = loop /\ first.jump = FALSE /\ first.wires = {}
    BY <2>1 DEF Result
  <2>7. loop.op = "transformed" /\ loop.kind = b.kind
    <3>1. loop = [op |-> "transformed", kind |-> b.kind, body |-> loop.body, breaks |-> loop.breaks,
                  rest |-> End]
      BY <2>5 DEF Transformed
    <3> QED
      BY <3>1
  <2>8. p.op = "transformed" /\ p.kind = b.kind /\ p.body = loop.body /\ p.breaks = loop.breaks
    BY <2>6, <2>7 DEF SameStatement
  <2>9. LoopOf(p, b.kind, r)
    BY <2>5, <2>8, Zenon DEF LoopOf
  <2>10. RunNested(Run(choices)[d], b, x).out = RunNested(Run(choices)[e], p, y).out
    BY <1>1, <1>4, <1>10, <2>2, <2>4, <2>8, <2>9, NestedAlike
  <2>11. /\ x1 = [x EXCEPT !.out = RunNested(Run(choices)[d], b, x).out]
         /\ y1 = [y EXCEPT !.out = RunNested(Run(choices)[e], p, y).out]
    BY <1>10, <2>8 DEF Step, Jumps, x1, y1
  <2>12. x1.out = y1.out /\ x1.jump = "none" /\ y1.jump = "none" /\ y1.set = y.set
    BY <1>1, <2>10, <2>11 DEF Machine
  <2> QED
    BY <1>2, <1>3, <2>6, <2>12 DEF Does
<1>11. ASSUME b.op = "case" PROVE Does(first, x1, y1, y.set)
  <2> DEFINE transform == TransformBlock[d]
             k == choices[n][b.id]
  <2>1. first = TransformCase(transform, b, walked)
    BY <1>11 DEF FirstOf, TransformStatement
  <2>2. b \in [op : {"case"}, id : Nat, exact : BOOLEAN, items : Seq(Written[d]), rest : Written[d]]
    BY <1>0, <1>11 DEF WrittenOver, Jumps, End
  <2>3. PICK reached : CaseOf(first, transform, b, walked, reached)
    BY <2>1, <2>2, CaseReached
  <2> DEFINE r(i) == Item(transform, b, reached, i)
             pieces == [i \in DOMAIN b.items |-> r(i).piece]
  <2>4. first.piece = [b EXCEPT !.items = pieces]
    BY <2>3 DEF CaseOf
  <2>5. first.piece.op = "case" /\ first.piece.items = pieces /\ first.piece.id = b.id
    <3> HIDE DEF pieces
    <3> QED
      BY <2>2, <2>4
  <2>6. /\ p.op = "case" /\ p.id = b.id /\ DOMAIN p.items = DOMAIN b.items
        /\ \A i \in DOMAIN b.items : p.items[i] = r(i).piece
    <3>1. p.op = "case" /\ p.id = b.id /\ p.items = pieces
      BY <2>5 DEF SameStatement
    <3> QED
      BY <3>1
  <2>7. ASSUME NEW i \in DOMAIN b.items, ~HasJump[e][r(i).piece], Ready(r(i), x, y)
        PROVE  Does(r(i), Run(choices)[d][n][b.items[i]][x], Run(choices)[e][n][r(i).piece][y], y.set)
    <3>1. b.items[i] \in Written[d] /\ reached[i] \in BOOLEAN
      <4>1. reached[i] \in BOOLEAN
        BY <2>3 DEF CaseOf
      <4>2. b.items[i] \in Written[d]
        BY <2>2
      <4> QED
        BY <4>1, <4>2
    <3> QED
      BY <1>6, <2>7, <3>1 DEF Item
  <2>8. /\ x1 = IF k \in DOMAIN b.items THEN Run(choices)[d][n][b.items[k]][x] ELSE x
        /\ y1 = IF k \in DOMAIN b.items THEN Run(choices)[e][n][p.items[k]][y] ELSE y
    BY <1>11, <2>6 DEF Step, Jumps, x1, y1
  <2>9. \A i \in DOMAIN b.items : r(i).wires \subseteq first.wires
    BY <2>3 DEF CaseOf
  <2>10. \A i \in DOMAIN b.items : r(i).jump => first.jump
    BY <2>3, Zenon DEF CaseOf
  <2>11. first.jump => "$continue" \in first.wires
    <3>1. WellMade(first, d, walked)
      BY TransformTyped, FirstTyped, <1>11 DEF FirstOf, Jumps
    <3> QED
      BY <3>1 DEF WellMade
  <2> HIDE DEF r, k
  <2>12. CASE k \notin DOMAIN b.items
    BY <1>1, <1>2, <1>3, <2>8, <2>11, <2>12 DEF Does, Ready
  <2>13. CASE k \in DOMAIN b.items
    <3>1. ~HasJump[e][r(k).piece]
      BY <1>4, <2>6, <2>13
    <3>2. Ready(r(k), x, y)
      BY <2>9, <2>13 DEF Ready
    <3>3. Does(r(k), x1, y1, y.set)
      BY <2>6, <2>7, <2>8, <2>13, <3>1, <3>2
    <3>4. first.wires # {} => "$continue" \notin y.set
      BY DEF Ready
    <3> QED
      BY <2>9, <2>10, <2>11, <2>13, <3>3, <3>4 DEF Does
  <2> QED
    BY <2>12, <2>13
<1> QED
  BY <1>5, <1>7, <1>8, <1>9, <1>10, <1>11 DEF x1, y1

\* A jump is turned into assignments of the registers.
JumpResult(r, b) == r = Result(JumpAssignments(b), TRUE, JumpWires(b))

LEMMA JumpDoes ==
    ASSUME NEW choices, NEW d \in Nat, NEW e \in Nat, 3 * d + 2 <= e,
           NEW b \in Written[d + 1], b # End, b.op \in Jumps,
           NEW r, JumpResult(r, b),
           NEW x, NEW y, Ready(r, x, y), NEW n \in 0 .. InnerIterations
    PROVE  Does(r, Run(choices)[d + 1][n][b][x], Run(choices)[e + 1][n][r.piece][y], y.set)
PROOF
<1> DEFINE x1 == [x EXCEPT !.jump = b.op]
           y1 == [y EXCEPT !.set = @ \cup {"$continue"}]
           y2 == [y1 EXCEPT !.set = @ \cup {"$break"}]
           p == JumpAssignments(b)
<1>1. x \in Machine /\ y \in Machine /\ x.jump = "none" /\ y.jump = "none" /\ x.out = y.out
  BY DEF Ready
<1>2. x1 \in Machine /\ x1.jump = b.op /\ x1.out = x.out
  BY <1>1 DEF Machine, Jumps
<1>3. /\ y1 \in Machine /\ y1.jump = "none" /\ y1.out = y.out /\ y1.set = y.set \cup {"$continue"}
      /\ y2 \in Machine /\ y2.jump = "none" /\ y2.out = y.out /\ y2.set = y.set \cup {"$continue", "$break"}
  BY <1>1 DEF Machine, Registers
<1>4. r.piece = p /\ r.jump = TRUE /\ r.wires = JumpWires(b)
  BY DEF Result, JumpResult
<1> HIDE DEF x1, y1, y2, p
<1>5. Run(choices)[d + 1][n][b][x] = x1
  <2>1. b \in Made[d + 1] /\ b.rest \in Made[d]
    BY WrittenIsMade, MadeShape
  <2>2. Step(Run(choices)[d], b, x, choices, n) = x1
    BY DEF Step, Jumps, x1
  <2>3. x1.jump # "none"
    BY <1>2 DEF Jumps
  <2> QED
    BY <1>1, <1>2, <2>1, <2>2, <2>3, RunFirst, RunStops
<1>6. Made[3 * d + 3] \subseteq Made[e + 1] /\ Made[3 * d + 2] \subseteq Made[e]
  <2>1. 3 * d + 3 \in Nat /\ 3 * d + 2 \in Nat /\ 3 * d + 3 <= e + 1 /\ e + 1 \in Nat
    OBVIOUS
  <2> QED
    BY <2>1, Higher
<1>7. p \in Made[e + 1] /\ SetBreak \in Made[e]
  BY <1>6, JumpTyped DEF p
<1>8. CASE b.op = "break"
  <2>1. p = Then(SetContinue, SetBreak)
    BY <1>8 DEF JumpAssignments, p
  <2>2. p.op = "$continue = 1" /\ p.rest = SetBreak /\ p # End
    BY <2>1 DEF Then, SetContinue, End
  <2>3. Step(Run(choices)[e], p, y, choices, n) = y1
    BY <2>2 DEF Step, Jumps, y1
  <2>4. Run(choices)[e + 1][n][p][y] = Run(choices)[e][n][SetBreak][y1]
    BY <1>1, <1>7, <2>2, <2>3, RunFirst
  <2> DEFINE f == e - 1
  <2>5. f \in Nat /\ f + 1 = e
    OBVIOUS
  <2> HIDE DEF f
  <2>6. SetBreak.op = "$break = 1" /\ SetBreak.rest = End /\ SetBreak # End
    BY DEF SetBreak, End
  <2>7. Step(Run(choices)[f], SetBreak, y1, choices, n) = y2
    BY <2>6 DEF Step, Jumps, y2
  <2>8. SetBreak \in Made[f + 1]
    BY <1>7, <2>5
  <2>9. Run(choices)[f + 1][n][SetBreak][y1] = Run(choices)[f][n][End][y2]
    <3> DEFINE s == SetBreak
    <3>1. s \in Made[f + 1] /\ s # End /\ s.rest = End /\ f \in Nat
      BY <2>5, <2>6, <2>8
    <3>2. Step(Run(choices)[f], s, y1, choices, n) = y2
      BY <2>7
    <3> HIDE DEF s
    <3>3. Run(choices)[f + 1][n][s][y1] = Run(choices)[f][n][s.rest][Step(Run(choices)[f], s, y1, choices, n)]
      BY <1>3, <3>1, RunFirst
    <3> QED
      BY <3>1, <3>2, <3>3 DEF s
  <2>10. Run(choices)[f][n][End][y2] = y2
    BY <1>3, <2>5, RunStops, EndAtAll
  <2>11. Run(choices)[e + 1][n][p][y] = y2
    BY <2>4, <2>5, <2>9, <2>10
  <2> QED
    BY <1>1, <1>2, <1>3, <1>4, <1>5, <1>8, <2>11 DEF Does, JumpWires
<1>9. CASE b.op # "break"
  <2>1. p = SetContinue
    BY <1>9 DEF JumpAssignments, p
  <2>2. p.op = "$continue = 1" /\ p.rest = End /\ p # End
    <3>1. SetContinue.op = "$continue = 1" /\ SetContinue.rest = End /\ SetContinue # End
      BY DEF SetContinue, End
    <3> QED
      BY <2>1, <3>1
  <2>3. Step(Run(choices)[e], p, y, choices, n) = y1
    BY <2>2 DEF Step, Jumps, y1
  <2>4. Run(choices)[e + 1][n][p][y] = y1
    <3>1. Run(choices)[e + 1][n][p][y] = Run(choices)[e][n][p.rest][Step(Run(choices)[e], p, y, choices, n)]
      BY <1>1, <1>7, <2>2, RunFirst
    <3>2. Run(choices)[e][n][End][y1] = y1
      BY <1>3, RunStops, EndAtAll
    <3> QED
      BY <2>2, <2>3, <3>1, <3>2
  <2> QED
    BY <1>1, <1>2, <1>3, <1>4, <1>5, <1>9, <2>4 DEF Does, JumpWires, Jumps
<1> QED
  BY <1>8, <1>9

EndResult(r) == r = Result(End, FALSE, {})

LEMMA Simulated ==
    ASSUME NEW choices
    PROVE  \A d \in Nat : SimulatedAt(choices, d)
PROOF
<1> DEFINE T == {d \in Nat : SimulatedAt(choices, d)}
<1>1. ASSUME NEW d \in Nat, NEW e \in Nat, NEW n \in 0 .. InnerIterations, NEW x, NEW y,
             NEW r, EndResult(r), Ready(r, x, y)
      PROVE  Does(r, Run(choices)[d][n][End][x], Run(choices)[e][n][r.piece][y], y.set)
  <2>1. r.piece = End /\ r.jump = FALSE /\ r.wires = {}
    BY <1>1 DEF Result, EndResult
  <2>2. x \in Machine /\ y \in Machine /\ x.jump = "none" /\ y.jump = "none" /\ x.out = y.out
    BY <1>1 DEF Ready
  <2>3. Run(choices)[d][n][End][x] = x /\ Run(choices)[e][n][End][y] = y
    BY <2>2, RunStops, EndAtAll
  <2> QED
    BY <2>1, <2>2, <2>3 DEF Does
<1>2. 0 \in T
  <2>1. \A b \in Written[0] : b = End
    BY WrittenHeights
  <2>2. \A walked \in BOOLEAN : TransformBlock[0][End][walked] = Result(End, FALSE, {})
    BY TransformRecursion
  <2>3. ASSUME NEW e \in Nat, NEW b \in Written[0], NEW walked \in BOOLEAN,
               NEW n \in 0 .. InnerIterations, NEW x, NEW y,
               Ready(TransformBlock[0][b][walked], x, y)
        PROVE  LET r == TransformBlock[0][b][walked] IN
               Does(r, Run(choices)[0][n][b][x], Run(choices)[e][n][r.piece][y], y.set)
    <3>1. b = End /\ EndResult(TransformBlock[0][b][walked])
      BY <2>1, <2>2 DEF EndResult
    <3> QED
      BY <1>1, <2>3, <3>1
  <2>4. SimulatedAt(choices, 0)
    BY <2>3 DEF SimulatedAt
  <2> QED
    BY <2>4
<1>3. ASSUME NEW d \in Nat, d \in T PROVE d + 1 \in T
  <2>1. ASSUME NEW e \in Nat, 3 * (d + 1) <= e, NEW b \in Written[d + 1], NEW walked \in BOOLEAN,
               NEW n \in 0 .. InnerIterations, NEW x, NEW y,
               ~HasJump[e][TransformBlock[d + 1][b][walked].piece],
               Ready(TransformBlock[d + 1][b][walked], x, y)
        PROVE  LET r == TransformBlock[d + 1][b][walked] IN
               Does(r, Run(choices)[d + 1][n][b][x], Run(choices)[e][n][r.piece][y], y.set)
    <3> DEFINE r == TransformBlock[d + 1][b][walked]
               transform == TransformBlock[d]
               f == e - 1
    <3>1. f \in Nat /\ f + 1 = e /\ 3 * d + 2 <= f
      BY <2>1
    <3>2. r = TransformStatements(transform, b, walked)
      BY TransformRecursion
    <3>3. ~HasJump[f + 1][r.piece] /\ Ready(r, x, y)
      BY <2>1, <3>1
    <3>4. SUFFICES Does(r, Run(choices)[d + 1][n][b][x], Run(choices)[f + 1][n][r.piece][y], y.set)
      BY <3>1
    <3> HIDE DEF f
    <3>5. CASE b = End
      <4>1. EndResult(r)
        BY <3>2, <3>5 DEF TransformStatements, EndResult
      <4> HIDE DEF r
      <4> QED
        BY <1>1, <3>1, <3>3, <3>5, <4>1
    <3>6. CASE b # End /\ walked /\ b.op \in Jumps
      <4>1. JumpResult(r, b)
        BY <3>2, <3>6 DEF TransformStatements, JumpResult
      <4> HIDE DEF r
      <4> QED
        BY <3>1, <3>3, <3>6, <4>1, JumpDoes
    <3>7. CASE b # End /\ ~(walked /\ b.op \in Jumps)
      <4> DEFINE first == TransformStatement(transform, b, walked)
                 rest == transform[b.rest][walked]
                 p == Then(first.piece, Following(first, rest))
                 x1 == Step(Run(choices)[d], b, x, choices, n)
                 y1 == Step(Run(choices)[f], p, y, choices, n)
      <4>1. r = Result(p, first.jump \/ rest.jump, first.wires \cup rest.wires)
        BY <3>2, <3>7 DEF TransformStatements, Following
      <4>2. WellMade(first, d, walked) /\ FirstOf(first, d, b, walked)
        BY <3>7, FirstTyped, TransformTyped DEF FirstOf
      <4>3. b.rest \in Written[d]
        BY <3>7, WrittenShape
      <4>4. Typed(rest, d)
        BY <4>3, TransformTyped DEF TypedAt
      <4>5. ASSUME NEW i \in Nat, 3 * d <= i, NEW u, NEW v, ~HasJump[i][rest.piece], Ready(rest, u, v)
            PROVE  Does(rest, Run(choices)[d][n][b.rest][u], Run(choices)[i][n][rest.piece][v], v.set)
        BY <1>3, <4>3, <4>5 DEF SimulatedAt
      <4> HIDE DEF r, first, rest
      <4>6. /\ r.piece = p /\ r.jump = (first.jump \/ rest.jump)
            /\ r.wires = first.wires \cup rest.wires
        BY <4>1 DEF Result
      <4>7. Following(first, rest) \in Made[f]
        BY <3>1, <4>4, FollowingTyped
      <4>8. first.piece \in Made[f + 1] /\ first.piece # End
        <5>1. 3 * d + 3 \in Nat /\ f + 1 \in Nat /\ 3 * d + 3 <= f + 1
          BY <3>1
        <5>2. Made[3 * d + 3] \subseteq Made[f + 1]
          BY <5>1, Higher
        <5> QED
          BY <4>2, <5>2 DEF WellMade
      <4>9. p \in Made[f + 1] /\ p # End /\ p.rest = Following(first, rest) /\ SameStatement(p, first.piece)
        BY <3>1, <4>7, <4>8, Replaced
      <4> HIDE DEF p, x1, y1
      <4>10. ~HasJump[f + 1][p] /\ ~HasJump[f][Following(first, rest)]
        BY <3>1, <3>3, <4>6, <4>9, NoJumpInside
      <4>11. Ready(first, x, y) /\ x \in Machine /\ y \in Machine /\ x.jump = "none" /\ y.jump = "none"
        BY <3>3, <4>6 DEF Ready
      <4>12. Does(first, x1, y1, y.set)
        BY <1>3, <3>1, <3>7, <4>2, <4>9, <4>10, <4>11, FirstDoes DEF x1, y1
      <4>13. x1 \in Machine /\ y1 \in Machine
        BY <4>12 DEF Does
      <4>14. /\ Run(choices)[d + 1][n][b][x] = Run(choices)[d][n][b.rest][x1]
             /\ Run(choices)[f + 1][n][p][y] = Run(choices)[f][n][Following(first, rest)][y1]
        <5>1. b \in Made[d + 1]
          BY WrittenIsMade
        <5>2. Run(choices)[d + 1][n][b][x] = Run(choices)[d][n][b.rest][x1]
          BY <3>7, <4>11, <5>1, RunFirst DEF x1
        <5>3. Run(choices)[f + 1][n][p][y] = Run(choices)[f][n][p.rest][y1]
          BY <3>1, <4>9, <4>11, RunFirst DEF y1
        <5> QED
          BY <4>9, <5>2, <5>3
      <4>15. b.rest \in Made[d]
        BY <4>3, WrittenIsMade
      <4> DEFINE x2 == Run(choices)[d][n][b.rest][x1]
                 y2 == Run(choices)[f][n][Following(first, rest)][y1]
      <4>16. CASE ~first.jump
        <5>1. Following(first, rest) = rest.piece
          BY <4>16 DEF Following
        <5>2. x1.jump = "none" /\ y1.set = y.set
          BY <4>12, <4>16 DEF Does
        <5>3. Ready(rest, x1, y1)
          BY <3>3, <4>6, <4>12, <5>2 DEF Does, Ready
        <5>4. Does(rest, x2, y2, y1.set)
          BY <3>1, <4>5, <4>10, <5>1, <5>3
        <5> HIDE DEF x2, y2
        <5>5. Does(r, x2, y2, y.set)
          BY <4>6, <4>16, <5>2, <5>4 DEF Does
        <5> QED
          BY <4>6, <4>14, <5>5 DEF x2, y2
      <4>17. CASE first.jump
        <5> DEFINE body == rest.piece
                   i == f - 1
        <5>1. i \in Nat /\ i + 1 = f /\ 3 * d <= i
          BY <3>1
        <5> HIDE DEF i
        <5>2. Following(first, rest) = Unless("$continue", body)
          BY <4>17 DEF Following, Guarded
        <5>3. body \in Made[i]
          BY <4>4, <5>1, Higher DEF Typed
        <5> HIDE DEF body
        <5>4. y1.jump = "none" /\ (x1.jump # "none" <=> "$continue" \in y1.set)
              /\ ("$break" \in y1.set <=> ("$break" \in y.set \/ x1.jump = "break"))
              /\ x1.out = y1.out /\ (x1.jump = "break" => "$break" \in first.wires)
          BY <4>12, <4>17 DEF Does
        <5>5. "$continue" \in Registers
          BY DEF Registers
        <5>6. /\ Run(choices)[i + 1][n][Unless("$continue", body)][y1]
                 = IF "$continue" \in y1.set THEN y1 ELSE Run(choices)[i][n][body][y1]
              /\ ~HasJump[i + 1][Unless("$continue", body)] => ~HasJump[i][body]
          BY <4>13, <5>1, <5>3, <5>4, <5>5, UnlessRuns
        <5>7. y2 = IF "$continue" \in y1.set THEN y1 ELSE Run(choices)[i][n][body][y1]
          BY <5>1, <5>2, <5>6
        <5>8. ~HasJump[i][body]
          BY <4>10, <5>1, <5>2, <5>6
        <5>9. CASE x1.jump # "none"
          <6>1. x2 = x1
            BY <4>13, <4>15, <5>9, RunStops
          <6> HIDE DEF x2, y2
          <6>2. Does(r, x2, y2, y.set)
            BY <4>6, <4>13, <4>17, <5>4, <5>7, <5>9, <6>1 DEF Does
          <6> QED
            BY <4>6, <4>14, <6>2 DEF x2, y2
        <5>10. CASE x1.jump = "none"
          <6>1. Ready(rest, x1, y1)
            BY <4>13, <5>4, <5>10 DEF Ready
          <6>2. Does(rest, x2, y2, y1.set)
            BY <4>5, <5>1, <5>4, <5>7, <5>8, <5>10, <6>1 DEF body
          <6> HIDE DEF x2, y2
          <6>3. Does(r, x2, y2, y.set)
            BY <4>6, <4>17, <5>4, <5>10, <6>2 DEF Does
          <6> QED
            BY <4>6, <4>14, <6>3 DEF x2, y2
        <5> QED
          BY <5>9, <5>10
      <4> QED
        BY <4>16, <4>17
    <3> QED
      BY <3>5, <3>6, <3>7
  <2>2. SimulatedAt(choices, d + 1)
    BY <2>1 DEF SimulatedAt
  <2> QED
    BY <2>2
<1> HIDE DEF T
<1>4. \A d \in Nat : d \in T
  BY <1>2, <1>3, Induct
<1> QED
  BY <1>4 DEF T

------------------------------------------------------------------------------
(***************************************************************************)
(* The loop and the transformed loop                                       *)
(***************************************************************************)
OuterResult == TransformBlock[Height][source.body][TRUE]

\* The two loops: a program and what the transformation makes of it.
LoopsAre ==
    /\ source.op = "loop" /\ source.kind \in LoopKinds /\ source.body \in Written[Height]
    /\ target = TransformLoop(source.kind, OuterResult)

\* The inductive invariant: the machines agree on whether the loop was left, which
\* is in the pending jump of one and in $break of the other.
LoopsAbreast ==
    /\ LoopsAre
    /\ NoJumpLeft => Abreast(written, made, OuterResult)

LEMMA TargetIs ==
    ASSUME LoopsAre
    PROVE  /\ ResultOf(OuterResult, Height, source.body) /\ Typed(OuterResult, Height)
           /\ LoopOf(target, source.kind, OuterResult)
           /\ target.body \in Made[MadeHeight] /\ target.breaks = ("$break" \in OuterResult.wires)
           /\ Height \in Nat /\ MadeHeight \in Nat /\ 3 * Height + 2 <= MadeHeight
PROOF
<1> DEFINE r == OuterResult
<1>1. Height \in Nat /\ MadeHeight = 3 * Height + 2
  BY ProgramsAssumption DEF MadeHeight
<1>2. Typed(r, Height)
  BY <1>1, TransformTyped DEF TypedAt, LoopsAre, OuterResult
<1>3. ResultOf(r, Height, source.body)
  BY DEF ResultOf, OuterResult
<1>4. target = TransformLoop(source.kind, r) /\ source.kind \in LoopKinds
  BY DEF LoopsAre
<1> HIDE DEF r
<1>5. /\ target = Transformed(source.kind, target.body, target.breaks)
      /\ target.breaks = ("$break" \in r.wires)
      /\ target.body = Skippable(source.kind, target.breaks, Cleared(r))
      /\ target.body \in Made[3 * Height + 2]
  BY <1>1, <1>2, <1>4, LoopTyped
<1>6. target.op = "transformed" /\ target.kind = source.kind
  <2>1. target = [op |-> "transformed", kind |-> source.kind, body |-> target.body,
                  breaks |-> target.breaks, rest |-> End]
    BY <1>5 DEF Transformed
  <2> QED
    BY <2>1
<1>7. LoopOf(target, source.kind, r)
  BY <1>5, <1>6, Zenon DEF LoopOf
<1> QED
  BY <1>1, <1>2, <1>3, <1>5, <1>7 DEF r

LEMMA LoopsStart ==
    ASSUME Init
    PROVE  LoopsAbreast
PROOF
<1>1. PICK kind \in Kinds, body \in Programs : source = Loop(kind, body)
  BY DEF Init
<1>2. source.op = "loop" /\ source.kind = kind /\ source.body = body
  BY <1>1 DEF Loop
<1>3. LoopsAre
  BY <1>2, KindsAssumption, ProgramsAssumption DEF Init, LoopsAre, OuterResult
<1>4. Fresh \in Machine /\ Fresh.jump = "none"
  BY DEF Fresh, Machine, Registers
<1>5. Abreast(Enter(source, Fresh), Enter(target, Fresh), OuterResult)
  BY <1>2, <1>3, <1>4, TargetIs, EnterAbreast
<1> QED
  BY <1>3, <1>5 DEF Init, LoopsAbreast

LEMMA LoopsStep ==
    ASSUME LoopsAbreast, [Next]_vars
    PROVE  LoopsAbreast'
PROOF
<1>1. CASE UNCHANGED vars
  BY <1>1 DEF LoopsAbreast, LoopsAre, OuterResult, NoJumpLeft, vars
<1>2. CASE Iterate
  <2>1. source' = source /\ target' = target
    BY <1>2 DEF Iterate
  <2>2. LoopsAre /\ LoopsAre' /\ OuterResult' = OuterResult /\ (NoJumpLeft' <=> NoJumpLeft)
    BY <2>1 DEF LoopsAbreast, LoopsAre, OuterResult, NoJumpLeft
  <2>3. PICK choices : /\ written' = Advance(Run(choices)[Height], source, written, 0)
                       /\ made' = Advance(Run(choices)[MadeHeight], target, made, 0)
    BY <1>2 DEF Iterate
  <2>4. ASSUME NoJumpLeft PROVE Abreast(written', made', OuterResult)
    <3>1. Abreast(written, made, OuterResult) /\ ~HasJump[MadeHeight][target.body]
      BY <2>4 DEF LoopsAbreast, NoJumpLeft
    <3>2. 0 \in 0 .. InnerIterations
      BY BoundsAssumption
    <3>3. Height \in Nat /\ SimulatedAt(choices, Height)
      BY ProgramsAssumption, Simulated
    <3>4. source.op = "loop" /\ source.kind \in LoopKinds /\ source.body \in Written[Height]
      BY <2>2 DEF LoopsAre
    <3>5. Abreast(Advance(Run(choices)[Height], source, written, 0),
                  Advance(Run(choices)[MadeHeight], target, made, 0), OuterResult)
      BY <2>2, <3>1, <3>2, <3>3, <3>4, TargetIs, Turn
    <3> QED
      BY <2>3, <3>5
  <2> QED
    BY <2>2, <2>4 DEF LoopsAbreast
<1> QED
  BY <1>1, <1>2 DEF Next

THEOREM StaysAbreast ==
    Spec => []LoopsAbreast
PROOF
<1>1. Init => LoopsAbreast
  BY LoopsStart
<1>2. LoopsAbreast /\ [Next]_vars => LoopsAbreast'
  BY LoopsStep
<1> QED
  BY <1>1, <1>2, PTL DEF Spec

\* For every program, of any height: if the transformation left no jump, the
\* transformed loop executes the same statements in the same order as the loop
\* that was written, whatever is chosen in its case statements and however often
\* it and its nested loops go round.
THEOREM SameEffects ==
    Spec => [](NoJumpLeft => EffectsAgree)
PROOF
<1>1. LoopsAbreast => (NoJumpLeft => EffectsAgree)
  BY DEF LoopsAbreast, Abreast, EffectsAgree
<1> QED
  BY <1>1, StaysAbreast, PTL

\* And it has left its loop exactly when the source has: $break is set, and looked
\* at by the condition or the body, if and only if a break was executed.
THEOREM SameExit ==
    Spec => [](NoJumpLeft => LeaveTogether)
PROOF
<1>1. LoopsAbreast => (NoJumpLeft => LeaveTogether)
  BY TargetIs DEF LoopsAbreast, Abreast, LeaveTogether
<1> QED
  BY <1>1, StaysAbreast, PTL

------------------------------------------------------------------------------
(***************************************************************************)
(* When no jump is left                                                    *)
(***************************************************************************)
\* The statement at the front of a block, without its rest.
FrontHasJump(e, p) ==
    \/ p.op \in {"block", "unless", "loop", "transformed"} /\ HasJump[e][p.body]
    \/ p.op = "case" /\ \E k \in DOMAIN p.items : HasJump[e][p.items[k]]

FrontRemovable(d, b, allowed) ==
    /\ b.op = "block" => Removable[d][b.body][allowed]
    /\ b.op = "loop" => Removable[d][b.body][TRUE]
    /\ b.op = "case" =>
          \E one \in 0 .. Len(b.items) : \A k \in DOMAIN b.items :
             \/ Removable[d][b.items[k]][FALSE]
             \/ k = one /\ allowed /\ b.exact /\ Removable[d][b.items[k]][TRUE]

LEMMA FrontJump ==
    ASSUME NEW e \in Nat, NEW p \in Made[e + 1], p # End, p.op \notin Jumps
    PROVE  HasJump[e + 1][p] <=> FrontHasJump(e, p) \/ HasJump[e][p.rest]
PROOF
<1>1. HasJump[e + 1][p] = JumpIn(HasJump[e], p)
  BY JumpRecursion
<1> QED
  BY <1>1 DEF JumpIn, FrontHasJump

LEMMA FrontRemoved ==
    ASSUME NEW d \in Nat, NEW b \in Written[d + 1], b # End, b.op \notin Jumps, NEW allowed \in BOOLEAN
    PROVE  Removable[d + 1][b][allowed] <=> FrontRemovable(d, b, allowed) /\ Removable[d][b.rest][allowed]
PROOF
<1>1. Removable[d + 1][b][allowed] = RemovableOver(Removable[d], b, allowed)
  BY RemovableRecursion
<1> QED
  BY <1>1 DEF RemovableOver, FrontRemovable

\* The statements that the transformation adds hold no jump.
LEMMA UnlessJumps ==
    ASSUME NEW e \in Nat, NEW body \in Made[e], NEW register \in Registers
    PROVE  /\ Unless(register, body) \in Made[e + 1]
           /\ HasJump[e + 1][Unless(register, body)] <=> HasJump[e][body]
PROOF
<1> DEFINE u == Unless(register, body)
<1>1. u.op = "unless" /\ u.rest = End /\ u.body = body /\ u # End
  BY DEF Unless, End
<1>2. u \in Made[e + 1]
  <2>1. u \in MadeOver(Made[e])
    BY EndAtAll DEF Unless, MadeOver
  <2> QED
    BY <2>1, MadeHeights
<1> HIDE DEF u
<1>3. HasJump[e + 1][u] <=> FrontHasJump(e, u) \/ HasJump[e][End]
  BY <1>1, <1>2, FrontJump DEF Jumps
<1> QED
  BY <1>1, <1>2, <1>3, EndHasNoJump DEF FrontHasJump, u

LEMMA ClearJumps ==
    ASSUME NEW e \in Nat, NEW piece \in Made[e]
    PROVE  HasJump[e + 1][Then(ClearContinue, piece)] <=> HasJump[e][piece]
PROOF
<1> DEFINE c == Then(ClearContinue, piece)
<1>1. c.op = "$continue = 0" /\ c.rest = piece /\ c # End
  BY DEF Then, ClearContinue, End
<1>2. c \in Made[e + 1]
  <2>1. c \in MadeOver(Made[e])
    BY DEF Then, ClearContinue, MadeOver, Assignments
  <2> QED
    BY <2>1, MadeHeights
<1> HIDE DEF c
<1>3. HasJump[e + 1][c] <=> FrontHasJump(e, c) \/ HasJump[e][piece]
  BY <1>1, <1>2, FrontJump DEF Jumps
<1> QED
  BY <1>1, <1>3 DEF FrontHasJump, c

LEMMA AssignmentsHoldNoJump ==
    ASSUME NEW d \in Nat, NEW b, b.op \in Jumps, NEW e \in Nat, 3 * d + 3 <= e
    PROVE  ~HasJump[e][JumpAssignments(b)]
PROOF
<1> DEFINE p == JumpAssignments(b)
           f == e - 1
           g == f - 1
<1>1. f \in Nat /\ f + 1 = e /\ g \in Nat /\ g + 1 = f
  OBVIOUS
<1>2. SetBreak \in Made[f] /\ p \in Made[e]
  <2>1. 3 * d + 2 \in Nat /\ 3 * d + 3 \in Nat /\ 3 * d + 2 <= f
    OBVIOUS
  <2>2. Made[3 * d + 2] \subseteq Made[f] /\ Made[3 * d + 3] \subseteq Made[e]
    BY <1>1, <2>1, Higher
  <2> QED
    BY <2>2, JumpTyped
<1>3. SetBreak.op = "$break = 1" /\ SetBreak.rest = End /\ SetBreak # End
  BY DEF SetBreak, End
<1>4. p.op = "$continue = 1" /\ (p.rest = SetBreak \/ p.rest = End) /\ p # End
  BY DEF JumpAssignments, Then, SetContinue, End
<1> DEFINE s == SetBreak
<1> HIDE DEF f, g, p, s
<1>5. ~HasJump[f][s]
  <2>1. s \in Made[g + 1] /\ s # End /\ s.op = "$break = 1" /\ s.rest = End
    BY <1>1, <1>2, <1>3 DEF s
  <2>2. HasJump[g + 1][s] <=> FrontHasJump(g, s) \/ HasJump[g][End]
    BY <1>1, <2>1, FrontJump DEF Jumps
  <2> QED
    BY <1>1, <2>1, <2>2, EndHasNoJump DEF FrontHasJump
<1>6. ~HasJump[f][p.rest]
  BY <1>1, <1>4, <1>5, EndHasNoJump DEF s
<1>7. HasJump[f + 1][p] <=> FrontHasJump(f, p) \/ HasJump[f][p.rest]
  BY <1>1, <1>2, <1>4, FrontJump DEF Jumps
<1>8. ~HasJump[f + 1][p]
  BY <1>4, <1>6, <1>7 DEF FrontHasJump
<1> QED
  BY <1>1, <1>8 DEF p

\* Whether a jump is left in the transformed block, and whether one was met in it.
RemovedAt(d) ==
    \A b \in Written[d], walked \in BOOLEAN :
        /\ \A e \in Nat : 3 * d <= e =>
              (~HasJump[e][TransformBlock[d][b][walked].piece] <=> Removable[d][b][walked])
        /\ Removable[d][b][FALSE] <=> Removable[d][b][TRUE] /\ ~TransformBlock[d][b][TRUE].jump

\* Items of a case, by their numbers: in `full` if all their jumps are removed when
\* they are walked, in `met` if there are such jumps.  Those behind the first one
\* that is met are not walked, nor is any unless the case is open to it.
WalkedItems(n, reached, open, met) ==
    /\ reached \in [1 .. n -> BOOLEAN]
    /\ \A k \in 1 .. n : reached[k] <=> open /\ \A j \in 1 .. k - 1 : j \notin met

EachIsFree(n, full, met, reached) ==
    \A k \in 1 .. n : k \in full /\ (reached[k] \/ k \notin met)

OneMayJump(n, full, met, open) ==
    \E one \in 0 .. n : \A k \in 1 .. n :
       (k \in full /\ k \notin met) \/ (k = one /\ open /\ k \in full)

JumpIsMet(n, met, reached) == \E k \in 1 .. n : reached[k] /\ k \in met

LEMMA OneWalked ==
    ASSUME NEW n \in Nat, NEW full \in SUBSET (1 .. n), NEW met \in SUBSET (1 .. n),
           NEW open \in BOOLEAN, NEW reached, WalkedItems(n, reached, open, met)
    PROVE  /\ EachIsFree(n, full, met, reached) <=> OneMayJump(n, full, met, open)
           /\ JumpIsMet(n, met, reached) <=> (open /\ met # {})
PROOF
<1> DEFINE All == \A k \in 1 .. n : k \in full /\ (reached[k] \/ k \notin met)
           One(one) == \A k \in 1 .. n : (k \in full /\ k \notin met) \/ (k = one /\ open /\ k \in full)
<1>0. /\ reached \in [1 .. n -> BOOLEAN]
      /\ \A k \in 1 .. n : reached[k] <=> open /\ \A j \in 1 .. k - 1 : j \notin met
  BY DEF WalkedItems
<1>1. ASSUME open, met # {}
      PROVE  \E one \in met : /\ \A j \in met : one <= j
                              /\ reached[one]
                              /\ \A k \in 1 .. n : k > one => ~reached[k]
  <2>1. met \in SUBSET Nat
    OBVIOUS
  <2>2. PICK one \in met : \A j \in met : one <= j
    BY <1>1, <2>1, Least
  <2>3. one \in 1 .. n
    OBVIOUS
  <2>4. \A j \in 1 .. one - 1 : j \notin met
    BY <2>2, <2>3
  <2>5. reached[one]
    BY <1>0, <1>1, <2>3, <2>4
  <2>6. ASSUME NEW k \in 1 .. n, k > one PROVE ~reached[k]
    <3>1. one \in 1 .. k - 1
      BY <2>3, <2>6
    <3> QED
      BY <1>0, <3>1
  <2> QED
    BY <2>2, <2>5, <2>6
<1>2. ASSUME All PROVE \E one \in 0 .. n : One(one)
  <2>1. CASE open /\ met # {}
    <3>1. PICK one \in met : /\ \A j \in met : one <= j
                             /\ reached[one]
                             /\ \A k \in 1 .. n : k > one => ~reached[k]
      BY <1>1, <2>1
    <3>2. one \in 0 .. n
      OBVIOUS
    <3>3. ASSUME NEW k \in 1 .. n, k # one PROVE k \in full /\ k \notin met
      <4>1. CASE k < one
        BY <1>2, <3>1, <4>1
      <4>2. CASE k > one
        BY <1>2, <3>1, <4>2
      <4> QED
        BY <3>2, <3>3, <4>1, <4>2
    <3>4. One(one)
      BY <1>2, <2>1, <3>3
    <3> QED
      BY <3>2, <3>4
  <2>2. CASE ~(open /\ met # {})
    <3>1. \A k \in 1 .. n : k \in full /\ k \notin met
      BY <1>0, <1>2, <2>2
    <3>2. 0 \in 0 .. n
      OBVIOUS
    <3>3. One(0)
      BY <3>1
    <3> QED
      BY <3>2, <3>3
  <2> QED
    BY <2>1, <2>2
<1>3. ASSUME NEW one \in 0 .. n, One(one) PROVE All
  <2>1. ASSUME NEW k \in 1 .. n PROVE k \in full /\ (reached[k] \/ k \notin met)
    <3>1. k \in full
      BY <1>3
    <3>2. ASSUME k \in met, ~reached[k] PROVE FALSE
      <4>1. k = one /\ open
        BY <1>3, <3>2
      <4>2. PICK j \in 1 .. k - 1 : j \in met
        BY <1>0, <3>2, <4>1
      <4>3. j \in 1 .. n /\ j # one
        BY <4>1, <4>2
      <4> QED
        BY <1>3, <4>2, <4>3
    <3> QED
      BY <3>1, <3>2
  <2> QED
    BY <2>1
<1>4. (\E k \in 1 .. n : reached[k] /\ k \in met) <=> (open /\ met # {})
  <2>1. ASSUME open, met # {} PROVE \E k \in 1 .. n : reached[k] /\ k \in met
    BY <1>1, <2>1
  <2> QED
    BY <1>0, <2>1
<1> QED
  BY <1>2, <1>3, <1>4 DEF EachIsFree, OneMayJump, JumpIsMet

\* A jump that is left in the body of a loop is left in the transformed loop.
LEMMA LoopRemoved ==
    ASSUME NEW d \in Nat, RemovedAt(d), NEW body \in Written[d], NEW r, ResultOf(r, d, body),
           NEW kind, NEW breaks \in BOOLEAN, NEW e \in Nat, 3 * d + 2 <= e
    PROVE  ~HasJump[e][Skippable(kind, breaks, Cleared(r))] <=> Removable[d][body][TRUE]
PROOF
<1>1. Typed(r, d)
  BY TransformTyped DEF TypedAt, ResultOf
<1>2. ASSUME NEW i \in Nat, 3 * d <= i
      PROVE  ~HasJump[i][r.piece] <=> Removable[d][body][TRUE]
  BY <1>2 DEF RemovedAt, ResultOf
<1>3. ASSUME NEW i \in Nat, 3 * d <= i PROVE r.piece \in Made[i]
  <2>1. 3 * d \in Nat
    OBVIOUS
  <2> QED
    BY <1>1, <1>3, <2>1, Higher DEF Typed
<1>4. ASSUME NEW i \in Nat, 3 * d + 1 <= i
      PROVE  Cleared(r) \in Made[i] /\ (~HasJump[i][Cleared(r)] <=> Removable[d][body][TRUE])
  <2> DEFINE f == i - 1
             piece == r.piece
             removable == Removable[d][body][TRUE]
  <2>1. f \in Nat /\ f + 1 = i /\ 3 * d <= f /\ 3 * d <= i
    BY <1>4
  <2>2. piece \in Made[f] /\ piece \in Made[i]
    BY <1>3, <2>1
  <2>3. (~HasJump[f][piece] <=> removable) /\ (~HasJump[i][piece] <=> removable)
    BY <1>2, <2>1
  <2> HIDE DEF f, removable
  <2>4. Cleared(r) = Then(ClearContinue, piece) \/ Cleared(r) = piece
    BY DEF Cleared
  <2> HIDE DEF piece
  <2>5. Then(ClearContinue, piece) \in Made[f + 1]
    <3>1. Then(ClearContinue, piece) \in MadeOver(Made[f])
      BY <2>2 DEF Then, ClearContinue, MadeOver, Assignments
    <3> QED
      BY <2>1, <3>1, MadeHeights
  <2>6. HasJump[f + 1][Then(ClearContinue, piece)] <=> HasJump[f][piece]
    BY <2>1, <2>2, ClearJumps
  <2>7. Cleared(r) \in Made[i] /\ (~HasJump[i][Cleared(r)] <=> removable)
    BY <2>1, <2>2, <2>3, <2>4, <2>5, <2>6
  <2> QED
    BY <2>7 DEF removable
<1> DEFINE f == e - 1
           c == Cleared(r)
           removable == Removable[d][body][TRUE]
<1>5. f \in Nat /\ f + 1 = e /\ 3 * d + 1 <= f /\ 3 * d + 1 <= e
  OBVIOUS
<1>6. c \in Made[f] /\ (~HasJump[f][c] <=> removable) /\ (~HasJump[e][c] <=> removable)
  BY <1>4, <1>5
<1> HIDE DEF f, c, removable
<1>7. Skippable(kind, breaks, c) = Unless("$break", c) \/ Skippable(kind, breaks, c) = c
  BY DEF Skippable
<1>8. HasJump[f + 1][Unless("$break", c)] <=> HasJump[f][c]
  BY <1>5, <1>6, UnlessJumps DEF Registers
<1>9. ~HasJump[e][Skippable(kind, breaks, c)] <=> removable
  BY <1>5, <1>6, <1>7, <1>8
<1> QED
  BY <1>9 DEF c, removable

\* The items of a case: exactly one may hold jumps, and only if it is walked.
CaseRemovable(d, b, open) ==
    \E one \in 0 .. Len(b.items) : \A k \in DOMAIN b.items :
       \/ Removable[d][b.items[k]][FALSE]
       \/ k = one /\ open /\ Removable[d][b.items[k]][TRUE]

LEMMA ItemsRemoved ==
    ASSUME NEW d \in Nat, RemovedAt(d), NEW b, b.items \in Seq(Written[d]), b.exact \in BOOLEAN,
           NEW walked \in BOOLEAN, NEW r, NEW reached, CaseOf(r, TransformBlock[d], b, walked, reached),
           NEW e \in Nat, 3 * d <= e
    PROVE  /\ (\A k \in DOMAIN b.items : ~HasJump[e][Item(TransformBlock[d], b, reached, k).piece])
              <=> CaseRemovable(d, b, walked /\ b.exact)
           /\ ~r.jump /\ CaseRemovable(d, b, walked /\ b.exact) <=>
              \A k \in DOMAIN b.items : Removable[d][b.items[k]][FALSE]
PROOF
<1> DEFINE n == Len(b.items)
           open == walked /\ b.exact
           full == {k \in 1 .. n : Removable[d][b.items[k]][TRUE]}
           met == {k \in 1 .. n : TransformBlock[d][b.items[k]][TRUE].jump}
<1>1. n \in Nat /\ DOMAIN b.items = 1 .. n /\ \A k \in 1 .. n : b.items[k] \in Written[d]
  OBVIOUS
<1>2. /\ reached \in [1 .. n -> BOOLEAN]
      /\ \A k \in 1 .. n : reached[k] <=> open /\ \A j \in 1 .. k - 1 : ~TransformBlock[d][b.items[j]][TRUE].jump
      /\ r.jump <=> \E k \in 1 .. n : Item(TransformBlock[d], b, reached, k).jump
  BY <1>1 DEF CaseOf
<1>3. WalkedItems(n, reached, open, met)
  <2>1. \A k \in 1 .. n : \A j \in 1 .. k - 1 : j \in 1 .. n
    BY <1>1
  <2> QED
    BY <1>2, <2>1 DEF WalkedItems
<1>4. \A k \in 1 .. n : Removable[d][b.items[k]][FALSE] <=> k \in full /\ k \notin met
  BY <1>1 DEF RemovedAt
<1>5. \A k \in 1 .. n : Removable[d][b.items[k]][TRUE] <=> k \in full
  OBVIOUS
<1>6. \A k \in 1 .. n : ~HasJump[e][Item(TransformBlock[d], b, reached, k).piece]
                        <=> k \in full /\ (reached[k] \/ k \notin met)
  <2>1. ASSUME NEW k \in 1 .. n
        PROVE  ~HasJump[e][Item(TransformBlock[d], b, reached, k).piece] <=> Removable[d][b.items[k]][reached[k]]
    <3>1. b.items[k] \in Written[d] /\ reached[k] \in BOOLEAN
      BY <1>1, <1>2
    <3> QED
      BY <3>1 DEF RemovedAt, Item
  <2>2. ASSUME NEW k \in 1 .. n
        PROVE  Removable[d][b.items[k]][reached[k]] <=> k \in full /\ (reached[k] \/ k \notin met)
    <3>1. CASE reached[k] = TRUE
      BY <1>5, <3>1
    <3>2. CASE reached[k] = FALSE
      BY <1>4, <3>2
    <3> QED
      BY <1>2, <3>1, <3>2
  <2> QED
    BY <2>1, <2>2
<1>7. \A k \in 1 .. n : Item(TransformBlock[d], b, reached, k).jump <=> reached[k] /\ k \in met
  <2>1. ASSUME NEW k \in 1 .. n
        PROVE  Item(TransformBlock[d], b, reached, k).jump <=> reached[k] /\ k \in met
    <3>1. ~TransformBlock[d][b.items[k]][FALSE].jump
      BY <1>1, TransformTyped DEF TypedAt
    <3>2. CASE reached[k] = TRUE
      BY <3>2 DEF Item
    <3>3. CASE reached[k] = FALSE
      BY <3>1, <3>3 DEF Item
    <3> QED
      BY <1>2, <3>2, <3>3
  <2> QED
    BY <2>1
<1>8. open \in BOOLEAN
  OBVIOUS
<1> HIDE DEF full, met, open, n
<1>9. full \in SUBSET (1 .. n) /\ met \in SUBSET (1 .. n)
  BY DEF full, met
<1>10. /\ EachIsFree(n, full, met, reached) <=> OneMayJump(n, full, met, open)
       /\ JumpIsMet(n, met, reached) <=> (open /\ met # {})
  BY <1>1, <1>3, <1>8, <1>9, OneWalked
<1>11. CaseRemovable(d, b, open) <=> OneMayJump(n, full, met, open)
  BY <1>1, <1>4, <1>5 DEF CaseRemovable, OneMayJump, n
<1>12. (\A k \in 1 .. n : ~HasJump[e][Item(TransformBlock[d], b, reached, k).piece])
       <=> CaseRemovable(d, b, open)
  BY <1>6, <1>10, <1>11 DEF EachIsFree
<1>13. r.jump <=> open /\ met # {}
  BY <1>2, <1>7, <1>10 DEF JumpIsMet
<1>14. ~r.jump /\ CaseRemovable(d, b, open) <=> \A k \in 1 .. n : k \in full /\ k \notin met
  <2>1. ASSUME \A k \in 1 .. n : k \in full /\ k \notin met
        PROVE  ~r.jump /\ CaseRemovable(d, b, open)
    <3>1. met = {}
      BY <1>9, <2>1
    <3> QED
      BY <1>10, <1>11, <1>13, <2>1, <3>1 DEF EachIsFree
  <2>2. ASSUME ~r.jump, CaseRemovable(d, b, open)
        PROVE  \A k \in 1 .. n : k \in full /\ k \notin met
    <3>1. PICK one \in 0 .. n : \A k \in 1 .. n :
              (k \in full /\ k \notin met) \/ (k = one /\ open /\ k \in full)
      BY <1>11, <2>2 DEF OneMayJump
    <3> QED
      BY <1>13, <2>2, <3>1
  <2> QED
    BY <2>1, <2>2
<1> QED
  BY <1>1, <1>4, <1>12, <1>14 DEF open

\* What a statement is transformed into holds a jump exactly if it cannot be removed.
LEMMA FrontRemoves ==
    ASSUME NEW d \in Nat, RemovedAt(d), NEW b \in Written[d + 1], b # End, b.op \notin Jumps,
           NEW walked \in BOOLEAN, NEW first, FirstOf(first, d, b, walked),
           NEW p, SameStatement(p, first.piece), NEW e \in Nat, 3 * d + 2 <= e
    PROVE  /\ ~FrontHasJump(e, p) <=> FrontRemovable(d, b, walked)
           /\ walked => (FrontRemovable(d, b, FALSE) <=> FrontRemovable(d, b, TRUE) /\ ~first.jump)
PROOF
<1>0. b \in WrittenOver(Written[d])
  BY WrittenHeights
<1>1. /\ b.op \in {"act", "block", "case", "loop"}
      /\ b.op \in {"block", "loop"} => b.body \in Written[d]
      /\ b.op = "loop" => b.kind \in LoopKinds
  BY WrittenShape
<1>2. ASSUME b.op = "act"
      PROVE  /\ ~FrontHasJump(e, p) /\ FrontRemovable(d, b, walked)
             /\ FrontRemovable(d, b, FALSE) /\ FrontRemovable(d, b, TRUE) /\ ~first.jump
  <2>1. first = Result(b, FALSE, {})
    BY <1>2 DEF FirstOf, TransformStatement
  <2>2. p.op = "act" /\ first.jump = FALSE
    BY <1>2, <2>1 DEF Result, SameStatement
  <2> QED
    BY <1>2, <2>2 DEF FrontHasJump, FrontRemovable
<1>3. ASSUME b.op = "block"
      PROVE  /\ ~FrontHasJump(e, p) <=> FrontRemovable(d, b, walked)
             /\ walked => (FrontRemovable(d, b, FALSE) <=> FrontRemovable(d, b, TRUE) /\ ~first.jump)
  <2> DEFINE r == TransformBlock[d][b.body][walked]
  <2>1. first = Result([b EXCEPT !.body = r.piece], r.jump, r.wires)
    BY <1>3 DEF FirstOf, TransformStatement
  <2>2. b \in [op : {"block"}, body : Written[d], rest : Written[d]]
    BY <1>0, <1>3 DEF WrittenOver, Jumps, End
  <2>3. 3 * d <= e /\ b.body \in Written[d]
    BY <2>2
  <2>4. /\ ~HasJump[e][r.piece] <=> Removable[d][b.body][walked]
        /\ walked => (Removable[d][b.body][FALSE] <=> Removable[d][b.body][TRUE] /\ ~r.jump)
    <3>1. ~HasJump[e][r.piece] <=> Removable[d][b.body][walked]
      BY <2>3 DEF RemovedAt
    <3>2. CASE walked = TRUE
      BY <2>3, <3>1, <3>2 DEF RemovedAt
    <3>3. CASE walked = FALSE
      BY <3>1, <3>3
    <3> QED
      BY <3>2, <3>3
  <2> HIDE DEF r
  <2>5. p.op = "block" /\ p.body = r.piece /\ first.jump = r.jump
    BY <2>1, <2>2 DEF Result, SameStatement
  <2>6. FrontHasJump(e, p) <=> HasJump[e][r.piece]
    BY <2>5 DEF FrontHasJump
  <2>7. \A v \in BOOLEAN : FrontRemovable(d, b, v) <=> Removable[d][b.body][v]
    BY <1>3 DEF FrontRemovable
  <2> QED
    BY <2>4, <2>5, <2>6, <2>7
<1>4. ASSUME b.op = "loop"
      PROVE  /\ ~FrontHasJump(e, p) <=> FrontRemovable(d, b, walked)
             /\ walked => (FrontRemovable(d, b, FALSE) <=> FrontRemovable(d, b, TRUE) /\ ~first.jump)
  <2> DEFINE r == TransformBlock[d][b.body][TRUE]
             loop == TransformLoop(b.kind, r)
  <2>1. first = Result(loop, FALSE, {})
    BY <1>4 DEF FirstOf, TransformStatement
  <2>2. b.body \in Written[d] /\ b.kind \in LoopKinds
    BY <1>1, <1>4
  <2>3. Typed(r, d)
    BY <2>2, TransformTyped DEF TypedAt
  <2>4. ResultOf(r, d, b.body)
    BY DEF ResultOf
  <2> HIDE DEF r
  <2>5. /\ loop = Transformed(b.kind, loop.body, loop.breaks)
        /\ loop.breaks = ("$break" \in r.wires)
        /\ loop.body = Skippable(b.kind, loop.breaks, Cleared(r))
    BY <2>2, <2>3, LoopTyped
  <2>6. loop.breaks \in BOOLEAN
    BY <2>5
  <2> HIDE DEF loop
  <2>7. ~HasJump[e][loop.body] <=> Removable[d][b.body][TRUE]
    <3>1. ~HasJump[e][Skippable(b.kind, loop.breaks, Cleared(r))] <=> Removable[d][b.body][TRUE]
      BY <2>2, <2>4, <2>6, LoopRemoved
    <3>2. loop.body = Skippable(b.kind, loop.breaks, Cleared(r))
      BY <2>5
    <3> QED
      BY <3>1, <3>2
  <2>8. p.op = "transformed" /\ p.body = loop.body /\ first.jump = FALSE
    <3>1. loop = [op |-> "transformed", kind |-> b.kind, body |-> loop.body, breaks |-> loop.breaks,
                  rest |-> End]
      BY <2>5 DEF Transformed
    <3>2. loop.op = "transformed"
      BY <3>1
    <3> QED
      BY <2>1, <3>2 DEF Result, SameStatement
  <2>9. FrontHasJump(e, p) <=> HasJump[e][loop.body]
    BY <2>8 DEF FrontHasJump
  <2>10. \A v \in BOOLEAN : FrontRemovable(d, b, v) <=> Removable[d][b.body][TRUE]
    BY <1>4 DEF FrontRemovable
  <2> QED
    BY <2>7, <2>8, <2>9, <2>10
<1>5. ASSUME b.op = "case"
      PROVE  /\ ~FrontHasJump(e, p) <=> FrontRemovable(d, b, walked)
             /\ walked => (FrontRemovable(d, b, FALSE) <=> FrontRemovable(d, b, TRUE) /\ ~first.jump)
  <2> DEFINE transform == TransformBlock[d]
  <2>1. first = TransformCase(transform, b, walked)
    BY <1>5 DEF FirstOf, TransformStatement
  <2>2. b \in [op : {"case"}, id : Nat, exact : BOOLEAN, items : Seq(Written[d]), rest : Written[d]]
    BY <1>0, <1>5 DEF WrittenOver, Jumps, End
  <2>3. PICK reached : CaseOf(first, transform, b, walked, reached)
    BY <2>1, <2>2, CaseReached
  <2> DEFINE pieces == [i \in DOMAIN b.items |-> Item(transform, b, reached, i).piece]
  <2>4. first.piece = [b EXCEPT !.items = pieces]
    BY <2>3 DEF CaseOf
  <2>5. first.piece.op = "case" /\ first.piece.items = pieces
    <3> HIDE DEF pieces
    <3> QED
      BY <2>2, <2>4
  <2>6. /\ p.op = "case" /\ DOMAIN p.items = DOMAIN b.items
        /\ \A i \in DOMAIN b.items : p.items[i] = Item(transform, b, reached, i).piece
    <3>1. p.op = "case" /\ p.items = pieces
      BY <2>5 DEF SameStatement
    <3> QED
      BY <3>1
  <2>7. FrontHasJump(e, p) <=> \E i \in DOMAIN b.items : HasJump[e][Item(transform, b, reached, i).piece]
    BY <2>6 DEF FrontHasJump
  <2>8. /\ b.items \in Seq(Written[d]) /\ b.exact \in BOOLEAN /\ Len(b.items) \in Nat
        /\ 3 * d <= e
    BY <2>2
  <2>9. /\ (\A i \in DOMAIN b.items : ~HasJump[e][Item(transform, b, reached, i).piece])
           <=> CaseRemovable(d, b, walked /\ b.exact)
        /\ ~first.jump /\ CaseRemovable(d, b, walked /\ b.exact) <=>
           \A i \in DOMAIN b.items : Removable[d][b.items[i]][FALSE]
    BY <2>3, <2>8, ItemsRemoved
  <2>10. \A v \in BOOLEAN : FrontRemovable(d, b, v) <=> CaseRemovable(d, b, v /\ b.exact)
    BY <1>5 DEF FrontRemovable, CaseRemovable
  <2>11. FrontRemovable(d, b, FALSE) <=> \A i \in DOMAIN b.items : Removable[d][b.items[i]][FALSE]
    <3>1. 0 \in 0 .. Len(b.items)
      BY <2>8
    <3> QED
      BY <1>5, <3>1 DEF FrontRemovable
  <2>12. ASSUME walked PROVE FrontRemovable(d, b, FALSE) <=> FrontRemovable(d, b, TRUE) /\ ~first.jump
    <3>1. walked = TRUE
      BY <2>12
    <3> QED
      BY <2>9, <2>10, <2>11, <3>1
  <2> QED
    BY <2>7, <2>9, <2>10, <2>12
<1> QED
  BY <1>1, <1>2, <1>3, <1>4, <1>5

RestOf(rest, d, b, walked) == rest = TransformBlock[d][b][walked]

LEMMA FollowingRemoves ==
    ASSUME NEW d \in Nat, RemovedAt(d), NEW b \in Written[d], NEW walked \in BOOLEAN,
           NEW first, NEW rest, RestOf(rest, d, b, walked), NEW e \in Nat, 3 * d + 2 <= e
    PROVE  ~HasJump[e][Following(first, rest)] <=> Removable[d][b][walked]
PROOF
<1> DEFINE f == e - 1
           piece == rest.piece
           removable == Removable[d][b][walked]
<1>1. f \in Nat /\ f + 1 = e /\ 3 * d <= f /\ 3 * d <= e /\ 3 * d \in Nat
  OBVIOUS
<1>2. (~HasJump[f][piece] <=> removable) /\ (~HasJump[e][piece] <=> removable)
  BY <1>1 DEF RemovedAt, RestOf
<1>3. piece \in Made[f]
  <2>1. Typed(rest, d)
    BY TransformTyped DEF TypedAt, RestOf
  <2> QED
    BY <1>1, <2>1, Higher DEF Typed
<1>4. Following(first, rest) = Unless("$continue", piece) \/ Following(first, rest) = piece
  BY DEF Following, Guarded
<1> HIDE DEF f, piece, removable
<1>5. HasJump[f + 1][Unless("$continue", piece)] <=> HasJump[f][piece]
  BY <1>1, <1>3, UnlessJumps DEF Registers
<1>6. ~HasJump[e][Following(first, rest)] <=> removable
  BY <1>1, <1>2, <1>4, <1>5
<1> QED
  BY <1>6 DEF removable

\* A block whose first statement is no jump to remove: the whole of it.
BlockOf(r, d, b, walked, first, rest) ==
    /\ FirstOf(first, d, b, walked) /\ RestOf(rest, d, b.rest, walked)
    /\ r = Result(Then(first.piece, Following(first, rest)), first.jump \/ rest.jump,
                  first.wires \cup rest.wires)

LEMMA BlockRemoves ==
    ASSUME NEW d \in Nat, RemovedAt(d), NEW b \in Written[d + 1], b # End, NEW walked \in BOOLEAN,
           ~(walked /\ b.op \in Jumps),
           NEW r, NEW first, NEW rest, BlockOf(r, d, b, walked, first, rest),
           NEW e \in Nat, 3 * d + 2 <= e
    PROVE  LET p == Then(first.piece, Following(first, rest)) IN
           /\ r.piece = p /\ r.jump = (first.jump \/ rest.jump)
           /\ p \in Made[e + 1] /\ p # End /\ p.rest = Following(first, rest)
           /\ SameStatement(p, first.piece)
PROOF
<1> DEFINE p == Then(first.piece, Following(first, rest))
<1>1. r = Result(p, first.jump \/ rest.jump, first.wires \cup rest.wires)
  BY DEF BlockOf
<1>2. WellMade(first, d, walked)
  BY FirstTyped, TransformTyped DEF BlockOf, FirstOf
<1>3. Typed(rest, d)
  <2>1. b.rest \in Written[d]
    BY WrittenShape
  <2> QED
    BY <2>1, TransformTyped DEF TypedAt, BlockOf, RestOf
<1>4. Following(first, rest) \in Made[e]
  BY <1>3, FollowingTyped
<1>5. first.piece \in Made[e + 1] /\ first.piece # End
  <2>1. 3 * d + 3 \in Nat /\ e + 1 \in Nat /\ 3 * d + 3 <= e + 1
    OBVIOUS
  <2>2. Made[3 * d + 3] \subseteq Made[e + 1]
    BY <2>1, Higher
  <2> QED
    BY <1>2, <2>2 DEF WellMade
<1>6. p \in Made[e + 1] /\ p # End /\ p.rest = Following(first, rest) /\ SameStatement(p, first.piece)
  BY <1>4, <1>5, Replaced
<1> HIDE DEF p
<1>7. r.piece = p /\ r.jump = (first.jump \/ rest.jump)
  BY <1>1 DEF Result
<1> QED
  BY <1>6, <1>7 DEF p

LEMMA BlockRemoved ==
    ASSUME NEW d \in Nat, RemovedAt(d), NEW b \in Written[d + 1], b # End, NEW walked \in BOOLEAN,
           ~(walked /\ b.op \in Jumps),
           NEW r, NEW first, NEW rest, BlockOf(r, d, b, walked, first, rest),
           NEW e \in Nat, 3 * d + 2 <= e
    PROVE  /\ ~HasJump[e + 1][r.piece] <=> Removable[d + 1][b][walked]
           /\ walked => (Removable[d + 1][b][FALSE] <=> Removable[d + 1][b][TRUE] /\ ~r.jump)
PROOF
<1> DEFINE p == Then(first.piece, Following(first, rest))
<1>1. /\ r.piece = p /\ r.jump = (first.jump \/ rest.jump)
      /\ p \in Made[e + 1] /\ p # End /\ p.rest = Following(first, rest)
      /\ SameStatement(p, first.piece)
  BY BlockRemoves
<1> HIDE DEF p
<1>2. FirstOf(first, d, b, walked) /\ RestOf(rest, d, b.rest, walked) /\ b.rest \in Written[d]
  BY WrittenShape DEF BlockOf
<1>3. ASSUME b.op \in Jumps PROVE ~walked /\ HasJump[e + 1][r.piece] /\ ~Removable[d + 1][b][FALSE]
  <2>1. first = Result(b, FALSE, {})
    BY <1>2, <1>3 DEF FirstOf, TransformStatement, Jumps
  <2>2. p.op = b.op
    BY <1>1, <2>1 DEF Result, SameStatement
  <2>3. HasJump[e + 1][p] = JumpIn(HasJump[e], p)
    BY <1>1, JumpRecursion
  <2>4. HasJump[e + 1][p]
    BY <1>1, <1>3, <2>2, <2>3 DEF JumpIn
  <2>5. Removable[d + 1][b][FALSE] = RemovableOver(Removable[d], b, FALSE)
    BY RemovableRecursion
  <2>6. ~Removable[d + 1][b][FALSE]
    BY <1>3, <2>5 DEF RemovableOver
  <2> QED
    BY <1>1, <1>3, <2>4, <2>6
<1>4. ASSUME b.op \notin Jumps
      PROVE  /\ ~HasJump[e + 1][r.piece] <=> Removable[d + 1][b][walked]
             /\ walked => (Removable[d + 1][b][FALSE] <=> Removable[d + 1][b][TRUE] /\ ~r.jump)
  <2>1. /\ ~FrontHasJump(e, p) <=> FrontRemovable(d, b, walked)
        /\ walked => (FrontRemovable(d, b, FALSE) <=> FrontRemovable(d, b, TRUE) /\ ~first.jump)
    BY <1>1, <1>2, <1>4, FrontRemoves
  <2>2. ~HasJump[e][Following(first, rest)] <=> Removable[d][b.rest][walked]
    BY <1>2, FollowingRemoves
  <2>3. p.op \notin Jumps
    <3>1. WellMade(first, d, walked)
      BY <1>2, FirstTyped, TransformTyped DEF FirstOf
    <3>2. first.piece.op \notin Jumps
      <4>1. b.op \in {"act", "block", "case", "loop"}
        BY <1>4, WrittenShape
      <4>2. b \in WrittenOver(Written[d])
        BY WrittenHeights
      <4>3. CASE b.op = "act"
        BY <1>2, <1>4, <4>3 DEF FirstOf, TransformStatement, Result
      <4>4. CASE b.op = "block"
        <5>1. b \in [op : {"block"}, body : Written[d], rest : Written[d]]
          BY <4>2, <4>4 DEF WrittenOver, Jumps, End
        <5>2. \A q : [b EXCEPT !.body = q].op = "block"
          BY <5>1
        <5> QED
          BY <1>2, <4>4, <5>2 DEF FirstOf, TransformStatement, Result, Jumps
      <4>5. CASE b.op = "loop"
        <5>1. \A kind, q : TransformLoop(kind, q).op = "transformed"
          BY DEF TransformLoop, Transformed
        <5> QED
          BY <1>2, <4>5, <5>1 DEF FirstOf, TransformStatement, Result, Jumps
      <4>6. CASE b.op = "case"
        <5>1. b \in [op : {"case"}, id : Nat, exact : BOOLEAN, items : Seq(Written[d]), rest : Written[d]]
          BY <4>2, <4>6 DEF WrittenOver, Jumps, End
        <5>2. first = TransformCase(TransformBlock[d], b, walked)
          BY <1>2, <4>6 DEF FirstOf, TransformStatement
        <5>3. PICK reached : CaseOf(first, TransformBlock[d], b, walked, reached)
          BY <5>1, <5>2, CaseReached
        <5>4. \A q : [b EXCEPT !.items = q].op = "case"
          BY <5>1
        <5> QED
          BY <5>3, <5>4 DEF CaseOf, Jumps
      <4> QED
        BY <4>1, <4>3, <4>4, <4>5, <4>6
    <3> QED
      BY <1>1, <3>2 DEF SameStatement
  <2>4. HasJump[e + 1][p] <=> FrontHasJump(e, p) \/ HasJump[e][Following(first, rest)]
    BY <1>1, <2>3, FrontJump
  <2>5. \A v \in BOOLEAN : Removable[d + 1][b][v] <=> FrontRemovable(d, b, v) /\ Removable[d][b.rest][v]
    BY <1>4, FrontRemoved
  <2>6. ASSUME walked PROVE Removable[d][b.rest][FALSE] <=> Removable[d][b.rest][TRUE] /\ ~rest.jump
    <3>1. walked = TRUE
      BY <2>6
    <3> QED
      BY <1>2, <3>1 DEF RemovedAt, RestOf
  <2>7. ~HasJump[e + 1][r.piece] <=> Removable[d + 1][b][walked]
    BY <1>1, <2>1, <2>2, <2>4, <2>5
  <2>8. walked => (Removable[d + 1][b][FALSE] <=> Removable[d + 1][b][TRUE] /\ ~r.jump)
    BY <1>1, <2>1, <2>5, <2>6
  <2> QED
    BY <2>7, <2>8
<1>5. CASE b.op \in Jumps
  <2>1. walked = FALSE
    BY <1>3, <1>5
  <2> QED
    BY <1>3, <1>5, <2>1
<1>6. CASE b.op \notin Jumps
  BY <1>4, <1>6
<1> QED
  BY <1>5, <1>6

LEMMA Removes ==
    \A d \in Nat : RemovedAt(d)
PROOF
<1> DEFINE T == {d \in Nat : RemovedAt(d)}
<1>1. 0 \in T
  <2>1. \A b \in Written[0] : b = End
    BY WrittenHeights
  <2>2. \A walked \in BOOLEAN : TransformBlock[0][End][walked] = Result(End, FALSE, {})
    BY TransformRecursion
  <2>3. \A walked \in BOOLEAN : Removable[0][End][walked] = TRUE
    BY RemovableRecursion
  <2>4. ASSUME NEW b \in Written[0], NEW walked \in BOOLEAN
        PROVE  /\ \A e \in Nat : ~HasJump[e][TransformBlock[0][b][walked].piece]
               /\ ~TransformBlock[0][b][walked].jump
               /\ Removable[0][b][walked]
    <3>1. TransformBlock[0][b][walked] = Result(End, FALSE, {}) /\ Removable[0][b][walked] = TRUE
      BY <2>1, <2>2, <2>3
    <3> QED
      BY <3>1, EndHasNoJump DEF Result
  <2>5. RemovedAt(0)
    BY <2>4 DEF RemovedAt
  <2> QED
    BY <2>5
<1>2. ASSUME NEW d \in Nat, d \in T PROVE d + 1 \in T
  <2>1. ASSUME NEW b \in Written[d + 1], NEW walked \in BOOLEAN, NEW e \in Nat, 3 * (d + 1) <= e
        PROVE  /\ ~HasJump[e][TransformBlock[d + 1][b][walked].piece] <=> Removable[d + 1][b][walked]
               /\ walked => (Removable[d + 1][b][FALSE]
                             <=> Removable[d + 1][b][TRUE] /\ ~TransformBlock[d + 1][b][walked].jump)
    <3> DEFINE r == TransformBlock[d + 1][b][walked]
               transform == TransformBlock[d]
               f == e - 1
    <3>1. f \in Nat /\ f + 1 = e /\ 3 * d + 2 <= f /\ 3 * d + 3 <= e
      BY <2>1
    <3>2. r = TransformStatements(transform, b, walked)
      BY TransformRecursion
    <3>3. \A v \in BOOLEAN : Removable[d + 1][b][v] = RemovableOver(Removable[d], b, v)
      BY RemovableRecursion
    <3>4. CASE b = End
      <4>1. r = Result(End, FALSE, {})
        BY <3>2, <3>4 DEF TransformStatements
      <4> HIDE DEF r
      <4>2. r.piece = End /\ r.jump = FALSE
        BY <4>1 DEF Result
      <4>3. \A v \in BOOLEAN : Removable[d + 1][b][v]
        BY <3>3, <3>4 DEF RemovableOver
      <4>4. /\ ~HasJump[e][r.piece] <=> Removable[d + 1][b][walked]
            /\ walked => (Removable[d + 1][b][FALSE] <=> Removable[d + 1][b][TRUE] /\ ~r.jump)
        BY <4>2, <4>3, EndHasNoJump
      <4> QED
        BY <4>4 DEF r
    <3>5. CASE b # End /\ walked /\ b.op \in Jumps
      <4>1. r = Result(JumpAssignments(b), TRUE, JumpWires(b))
        BY <3>2, <3>5 DEF TransformStatements
      <4> HIDE DEF r
      <4>2. r.piece = JumpAssignments(b) /\ r.jump = TRUE
        BY <4>1 DEF Result
      <4>3. ~HasJump[e][r.piece]
        BY <3>1, <3>5, <4>2, AssignmentsHoldNoJump
      <4>4. Removable[d + 1][b][TRUE] /\ ~Removable[d + 1][b][FALSE] /\ walked = TRUE
        BY <3>3, <3>5 DEF RemovableOver, Jumps
      <4>5. /\ ~HasJump[e][r.piece] <=> Removable[d + 1][b][walked]
            /\ walked => (Removable[d + 1][b][FALSE] <=> Removable[d + 1][b][TRUE] /\ ~r.jump)
        BY <4>2, <4>3, <4>4
      <4> QED
        BY <4>5 DEF r
    <3>6. CASE b # End /\ ~(walked /\ b.op \in Jumps)
      <4> DEFINE first == TransformStatement(transform, b, walked)
                 rest == transform[b.rest][walked]
      <4>1. BlockOf(r, d, b, walked, first, rest)
        BY <3>2, <3>6 DEF TransformStatements, Following, BlockOf, FirstOf, RestOf
      <4> HIDE DEF r, first, rest, f
      <4>2. RemovedAt(d)
        BY <1>2
      <4>3. /\ ~HasJump[f + 1][r.piece] <=> Removable[d + 1][b][walked]
            /\ walked => (Removable[d + 1][b][FALSE] <=> Removable[d + 1][b][TRUE] /\ ~r.jump)
        BY <3>1, <3>6, <4>1, <4>2, BlockRemoved
      <4> QED
        BY <3>1, <4>3 DEF r
    <3> QED
      BY <3>4, <3>5, <3>6
  <2>2. ASSUME NEW b \in Written[d + 1]
        PROVE  Removable[d + 1][b][FALSE] <=> Removable[d + 1][b][TRUE] /\ ~TransformBlock[d + 1][b][TRUE].jump
    <3>1. 3 * (d + 1) \in Nat /\ 3 * (d + 1) <= 3 * (d + 1)
      OBVIOUS
    <3> QED
      BY <2>1, <3>1
  <2>3. RemovedAt(d + 1)
    BY <2>1, <2>2 DEF RemovedAt
  <2> QED
    BY <2>3
<1> HIDE DEF T
<1>3. \A d \in Nat : d \in T
  BY <1>1, <1>2, Induct
<1> QED
  BY <1>3 DEF T

\* Exactly when a jump is left.  "transform_block" goes over the items of an AST_COND
\* case only up to the first one with a jump: so it is for every program whose case
\* statements have jumps to the loop in one AST_COND item at most that no jump is left.
THEOREM JumpsLeft ==
    Spec => [](NoJumpLeft <=> Removable[Height][source.body][TRUE])
PROOF
<1>1. LoopsAbreast => (NoJumpLeft <=> Removable[Height][source.body][TRUE])
  <2>1. SUFFICES ASSUME LoopsAbreast PROVE NoJumpLeft <=> Removable[Height][source.body][TRUE]
    OBVIOUS
  <2>2. LoopsAre
    BY <2>1 DEF LoopsAbreast
  <2>3. RemovedAt(Height) /\ source.body \in Written[Height]
    BY <2>2, Removes, ProgramsAssumption DEF LoopsAre
  <2>4. target.body = Skippable(source.kind, "$break" \in OuterResult.wires, Cleared(OuterResult))
    BY <2>2, TargetIs DEF LoopOf
  <2>5. ("$break" \in OuterResult.wires) \in BOOLEAN
    OBVIOUS
  <2>6. ~HasJump[MadeHeight][Skippable(source.kind, "$break" \in OuterResult.wires, Cleared(OuterResult))]
        <=> Removable[Height][source.body][TRUE]
    BY <2>2, <2>3, <2>5, TargetIs, LoopRemoved
  <2> QED
    BY <2>4, <2>6 DEF NoJumpLeft
<1> QED
  BY <1>1, StaysAbreast, PTL

\* So the transformation is right for every program of that kind.
COROLLARY TransformationIsRight ==
    ASSUME \A body \in Programs : Removable[Height][body][TRUE]
    PROVE  Spec => [](NoJumpLeft /\ EffectsAgree /\ LeaveTogether)
PROOF
<1> DEFINE Whole == source.body \in Programs
<1>1. Spec => []Whole
  <2>1. Init => Whole
    BY DEF Init, Loop
  <2>2. Whole /\ [Next]_vars => Whole'
    BY DEF Next, Iterate, vars
  <2> HIDE DEF Whole
  <2> QED
    BY <2>1, <2>2, PTL DEF Spec
<1>2. Whole => Removable[Height][source.body][TRUE]
  OBVIOUS
<1> HIDE DEF Whole
<1> QED
  BY <1>1, <1>2, JumpsLeft, SameEffects, SameExit, PTL
==============================================================================
