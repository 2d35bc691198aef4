------------------------------ MODULE LoopJumps ------------------------------
(***************************************************************************)
(* How the UHDM translator removes `break` and `continue` from a           *)
(* procedural loop: transform_breaks_continues turns them into assignments *)
(* of two registers, $break and $continue, and guards what they skip.      *)
(*                                                                         *)
(* A program is a tree of statements; the conditions of `case` are choices *)
(* of the environment.  The loop as written and the loop as transformed    *)
(* run in lockstep on the same choices: an iteration of one is an          *)
(* iteration of the other.                                                 *)
(*                                                                         *)
(* A block is its first statement, which has the rest of the block as      *)
(* `rest`.  Its height is the longest way down, to the rest or into the    *)
(* statement; what is recursive over blocks is a function of the height.   *)
(***************************************************************************)
EXTENDS Integers, Sequences

CONSTANTS
    Programs,         \* bodies of the loop
    Height,           \* bound: their height
    Kinds,            \* AST_FOR, AST_REPEAT, AST_WHILE
    Iterations,       \* bound: times the loop condition holds
    InnerIterations,  \* bound: times a nested loop runs
    OuterCases,       \* case statements of the body
    InnerCases,       \* case statements of the body of a nested loop
    MaxItems          \* bound: items of a case statement

------------------------------------------------------------------------------
(***************************************************************************)
(* Statements: source ones, then those the transformation makes            *)
(***************************************************************************)
End == [op |-> "end"]
Then(s, rest) == [s EXCEPT !.rest = rest]

Act(id) == [op |-> "act", id |-> id, rest |-> End]
Break == [op |-> "break", rest |-> End]
Continue == [op |-> "continue", rest |-> End]
Block(body) == [op |-> "block", body |-> body, rest |-> End]

\* `exact` tells case and if (AST_COND items) from casex and casez.
Case(id, exact, items) == [op |-> "case", id |-> id, exact |-> exact, items |-> items, rest |-> End]
Loop(kind, body) == [op |-> "loop", kind |-> kind, body |-> body, rest |-> End]

SetBreak == [op |-> "$break = 1", rest |-> End]
SetContinue == [op |-> "$continue = 1", rest |-> End]
ClearContinue == [op |-> "$continue = 0", rest |-> End]
Unless(register, body) == [op |-> "unless", register |-> register, body |-> body, rest |-> End]

\* The transformed loop and its declaration block; `breaks` tells whether it
\* has a $break register: cleared before the loop, and part of the condition
\* of a while.
Transformed(kind, body, breaks) ==
    [op |-> "transformed", kind |-> kind, body |-> body, breaks |-> breaks, rest |-> End]

Registers == {"$break", "$continue"}
LoopKinds == {"for", "repeat", "while"}
Jumps == {"break", "continue"}
Assignments == {"$break = 1", "$continue = 1", "$continue = 0"}

\* The transformation puts up to three statements where one was.
MadeHeight == 3 * Height + 2

\* The blocks of a height, as written and as the transformation makes them.
WrittenOver(inner) ==
    {End}
    \cup [op : {"act"}, id : Nat, rest : inner]
    \cup [op : Jumps, rest : inner]
    \cup [op : {"block"}, body : inner, rest : inner]
    \cup [op : {"case"}, id : Nat, exact : BOOLEAN, items : Seq(inner), rest : inner]
    \cup [op : {"loop"}, kind : LoopKinds, body : inner, rest : inner]

MadeOver(inner) ==
    WrittenOver(inner)
    \cup [op : Assignments, rest : inner]
    \cup [op : {"unless"}, register : Registers, body : inner, rest : inner]
    \cup [op : {"transformed"}, kind : LoopKinds, body : inner, breaks : BOOLEAN, rest : inner]

Written[d \in Nat] == IF d = 0 THEN {End} ELSE WrittenOver(Written[d - 1])
Made[d \in Nat] == IF d = 0 THEN {End} ELSE MadeOver(Made[d - 1])

ASSUME KindsAssumption == Kinds \subseteq LoopKinds
ASSUME BoundsAssumption == InnerIterations \in Nat
ASSUME ProgramsAssumption == Height \in Nat /\ \A body \in Programs : body \in Written[Height]

------------------------------------------------------------------------------
(***************************************************************************)
(* The transformation                                                      *)
(***************************************************************************)
\* What transforming a piece of program gives: the piece, whether a jump was met
\* in it, and the registers made for that.
Result(piece, jump, wires) == [piece |-> piece, jump |-> jump, wires |-> wires]

\* Items are walked in order; `has_jump || transform_block(item)` leaves those
\* behind the first one with a jump as they are, and only AST_COND items are
\* looked at.
TransformCase(transform, s, walked) ==
    LET Reached(k) ==
            walked /\ s.exact /\ \A j \in 1 .. k - 1 : ~transform[s.items[j]][TRUE].jump
        items == [k \in DOMAIN s.items |-> transform[s.items[k]][Reached(k)]]
    IN  Result([s EXCEPT !.items = [k \in DOMAIN items |-> items[k].piece]],
               \E k \in DOMAIN items : items[k].jump,
               UNION {items[k].wires : k \in DOMAIN items})

\* Mutant: a break is treated like a continue.
JumpAssignments_NoBreak(s) == SetContinue

JumpAssignments(s) == IF s.op = "break" THEN Then(SetContinue, SetBreak) ELSE SetContinue

JumpWires(s) == IF s.op = "break" THEN {"$continue", "$break"} ELSE {"$continue"}

\* The body of a for or a repeat is skipped once $break is set; the condition
\* of a while is changed instead.
Skippable(kind, breaks, body) ==
    IF breaks /\ kind \in {"for", "repeat"} THEN Unless("$break", body) ELSE body

TransformLoop(kind, body) ==
    LET cleared == IF "$continue" \in body.wires THEN Then(ClearContinue, body.piece) ELSE body.piece
        breaks == "$break" \in body.wires
    IN  Transformed(kind, Skippable(kind, breaks, cleared), breaks)

\* Mutant: no recursion into child blocks.
TransformStatement_Flat(transform, s, walked) ==
    IF s.op = "case" THEN TransformCase(transform, s, walked)
    ELSE IF s.op = "loop" THEN Result(TransformLoop(s.kind, transform[s.body][TRUE]), FALSE, {})
    ELSE Result(s, FALSE, {})

\* A nested loop was transformed when it was itself processed, wherever it is.
TransformStatement(transform, s, walked) ==
    CASE s.op = "block" -> LET body == transform[s.body][walked]
                           IN  Result([s EXCEPT !.body = body.piece], body.jump, body.wires)
      [] s.op = "case"  -> TransformCase(transform, s, walked)
      [] s.op = "loop"  -> Result(TransformLoop(s.kind, transform[s.body][TRUE]), FALSE, {})
      [] OTHER          -> Result(s, FALSE, {})

\* Mutant: what follows a statement with a jump in it is not guarded.
Guarded_Plain(rest) == rest

\* wrap_and_transform: the rest of the block goes under `if (!$continue)`.
Guarded(rest) == Unless("$continue", rest)

\* What follows a jump in its own block is deleted.  A block that transform_block
\* does not walk keeps its jumps.
TransformStatements(transform, b, walked) ==
    IF b = End THEN Result(End, FALSE, {})
    ELSE IF walked /\ b.op \in Jumps THEN Result(JumpAssignments(b), TRUE, JumpWires(b))
    ELSE LET first == TransformStatement(transform, b, walked)
             rest == transform[b.rest][walked]
         IN  Result(Then(first.piece, IF first.jump THEN Guarded(rest.piece) ELSE rest.piece),
                    first.jump \/ rest.jump,
                    first.wires \cup rest.wires)

TransformBlock[d \in Nat] ==
    [b \in Written[d] |-> [walked \in BOOLEAN |-> TransformStatements(TransformBlock[d - 1], b, walked)]]

------------------------------------------------------------------------------
(***************************************************************************)
(* Execution                                                               *)
(***************************************************************************)
\* A machine: the ids of the statements executed, the registers of the loop
\* that runs, and the pending jump of a program that still has jumps.
\* Registers hold anything before they are assigned.
Machine == [out : Seq(Nat), set : SUBSET Registers, jump : {"none", "break", "continue"}]

Fresh == [out |-> <<>>, set |-> Registers, jump |-> "none"]

\* A loop is entered with registers of its own; only $break is cleared there.
Enter(s, m) ==
    [m EXCEPT !.set = IF s.op = "transformed" /\ s.breaks THEN {"$continue"} ELSE Registers]

\* Whether the loop goes on to its next iteration.
GoesOn(s, m) ==
    IF s.op = "loop" THEN m.jump # "break"
    ELSE ~(s.kind = "while" /\ s.breaks /\ "$break" \in m.set)

Advance(run, s, m, n) ==
    IF GoesOn(s, m) THEN run[n][s.body][[m EXCEPT !.jump = "none"]] ELSE m

RunNested(run, s, m) ==
    LET after[k \in 0 .. InnerIterations] ==
            IF k = 0 THEN Enter(s, m) ELSE Advance(run, s, after[k - 1], k)
    IN  after[InnerIterations]

\* choices[0] decides the cases of the outer body, choices[n] those of the
\* n-th iteration of a nested loop; a choice that is no item takes none.
Step(run, s, m, choices, n) ==
    CASE s.op = "act" -> [m EXCEPT !.out = Append(@, s.id)]
      [] s.op \in Jumps -> [m EXCEPT !.jump = s.op]
      [] s.op = "block" -> run[n][s.body][m]
      [] s.op = "case" -> LET k == choices[n][s.id]
                          IN  IF k \in DOMAIN s.items THEN run[n][s.items[k]][m] ELSE m
      [] s.op = "$break = 1" -> [m EXCEPT !.set = @ \cup {"$break"}]
      [] s.op = "$continue = 1" -> [m EXCEPT !.set = @ \cup {"$continue"}]
      [] s.op = "$continue = 0" -> [m EXCEPT !.set = @ \ {"$continue"}]
      [] s.op = "unless" -> IF s.register \in m.set THEN m ELSE run[n][s.body][m]
      [] s.op \in {"loop", "transformed"} -> [m EXCEPT !.out = RunNested(run, s, m).out]

RunStatements(run, b, m, choices, n) ==
    IF b = End \/ m.jump # "none" THEN m ELSE run[n][b.rest][Step(run, b, m, choices, n)]

Run(choices) ==
    LET run[d \in Nat] ==
            [n \in 0 .. InnerIterations |-> [b \in Made[d] |-> [m \in Machine |->
                RunStatements(run[d - 1], b, m, choices, n)]]]
    IN  run

Decisions ==
    {[n \in 0 .. InnerIterations |-> IF n = 0 THEN outer ELSE inner[n]] :
        outer \in [OuterCases -> 1 .. MaxItems],
        inner \in [1 .. InnerIterations -> [InnerCases -> 1 .. MaxItems]]}

------------------------------------------------------------------------------
VARIABLES
    source,   \* the loop as written
    target,   \* the loop as transformed
    written,  \* the machine that runs source
    made,     \* the machine that runs target
    count     \* iterations so far

vars == <<source, target, written, made, count>>

Init ==
    /\ \E kind \in Kinds, body \in Programs : source = Loop(kind, body)
    /\ target = TransformLoop(source.kind, TransformBlock[Height][source.body][TRUE])
    /\ written = Enter(source, Fresh)
    /\ made = Enter(target, Fresh)
    /\ count = 0

Iterate ==
    /\ count < Iterations
    /\ \E choices \in Decisions :
          /\ written' = Advance(Run(choices)[Height], source, written, 0)
          /\ made' = Advance(Run(choices)[MadeHeight], target, made, 0)
    /\ count' = count + 1
    /\ UNCHANGED <<source, target>>

Next == Iterate

Spec == Init /\ [][Next]_vars

------------------------------------------------------------------------------
\* A statement that break or continue skips in the source is skipped in the
\* transformed loop, one they do not skip is executed, and in the same order:
\* across nested blocks, case items, nested loops with registers of the same
\* names, and the iterations after the jump.
EffectsAgree == made.out = written.out

\* The transformed loop has left, by its condition or by skipping its body,
\* exactly when the source loop has.
LeaveTogether ==
    (written.jump = "break") <=> (target.breaks /\ "$break" \in made.set)

\* "Transforms break and continue nodes into structures accepted by the AST
\* frontend", going "over each block in a case": no jump is left.
JumpIn(inner, b) ==
    /\ b # End
    /\ \/ b.op \in Jumps
       \/ b.op \in {"block", "unless", "loop", "transformed"} /\ inner[b.body]
       \/ b.op = "case" /\ \E k \in DOMAIN b.items : inner[b.items[k]]
       \/ inner[b.rest]

HasJump[d \in Nat] == [b \in Made[d] |-> JumpIn(HasJump[d - 1], b)]
NoJumpLeft == ~HasJump[MadeHeight][target.body]

=============================================================================
