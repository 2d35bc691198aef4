----------------------------- MODULE MCLoopJumps -----------------------------
(* Programs for LoopJumps: every body here is a block of two statements     *)
(* with an effect between and behind them.                                  *)
EXTENDS LoopJumps, SequencesExt


List(statements) == FoldRight(LAMBDA s, rest : Then(s, rest), statements, End)

\* Bodies of case items.
Plain == {List(b) : b \in {<<>>, <<Act(1)>>}}
Jumping == {List(b) : b \in {<<Break>>, <<Continue>>, <<Act(2), Break, Act(3)>>}}

\* Cases with a jump in at most one item, and with a jump in each item.
OneJump(id) ==
    {Case(id, TRUE, <<a, b>>) : a \in Plain \cup Jumping, b \in {Act(1)}}
        \cup {Case(id, TRUE, <<a, b>>) : a \in Plain, b \in Jumping}
TwoJumps(id) == {Case(id, TRUE, <<a, b>>) : a \in Jumping, b \in Jumping}

\* A jump below a block, below a case in an item, or in a nested loop.
Nested ==
    {Block(List(<<c, Act(4)>>)) : c \in OneJump(1)}
        \cup {Case(2, TRUE, <<List(<<c, Act(5)>>)>>) : c \in OneJump(1)}
        \cup {Loop(kind, List(<<c, Act(6)>>)) : kind \in Kinds, c \in OneJump(3)}

Bodies(first, second) ==
    {List(<<a, Act(7), b, Act(8)>>) : a \in first, b \in second}

MCPrograms ==
    Bodies(Nested, {Act(9), Break, Continue, Case(2, FALSE, <<Act(1)>>)} \cup {Case(2, TRUE, <<j>>) : j \in Jumping})
        \cup Bodies(OneJump(1), OneJump(2))

MCTwoJumps == Bodies(TwoJumps(1), {Act(9)})
=============================================================================
