--------------------------- MODULE SessionSettings ---------------------------
(***************************************************************************)
(* What the two settings commands of the SystemVerilog frontend promise to *)
(* the commands that read files, whatever lists they are kept in:          *)
(*                                                                         *)
(*   scopes   the nested lists of default options; the last one is in      *)
(*            effect (systemverilog_defaults -add/-clear/-push/-pop)       *)
(*   macros   the set of preprocessor symbols passed to the next read      *)
(*            (systemverilog_defines -D/-U/-reset, and the symbol each     *)
(*            read adds for its own mode)                                  *)
(***************************************************************************)
EXTENDS Integers, Sequences

CONSTANT Macros  \* names of preprocessor symbols

VARIABLES scopes, macros

vars == <<scopes, macros>>

\* The list of default options in effect.
Current == scopes[Len(scopes)]

WithCurrent(list) == [scopes EXCEPT ![Len(scopes)] = list]

Init ==
    /\ scopes = << <<>> >>
    /\ macros = {"YOSYS"}

\* Options are only added, at the end of the list in effect.
Extend ==
    /\ Len(scopes') = Len(scopes)
    /\ LET list == scopes'[Len(scopes)]
       IN  /\ scopes' = WithCurrent(list)
           /\ Len(list) >= Len(Current)
           /\ SubSeq(list, 1, Len(Current)) = Current
    /\ UNCHANGED macros

\* What a step of the session does to the scopes when it does not extend the
\* current one: empty it, open a copy of it, or close it.
Empty ==
    /\ scopes' = WithCurrent(<<>>)
    /\ UNCHANGED macros

Open ==
    /\ scopes' = Append(scopes, Current)
    /\ UNCHANGED macros

Close ==
    /\ Len(scopes) > 1
    /\ scopes' = SubSeq(scopes, 1, Len(scopes) - 1)
    /\ UNCHANGED macros

Define ==
    /\ \E m \in Macros : macros' = macros \cup {m}
    /\ UNCHANGED scopes

Undefine ==
    /\ \E m \in Macros : macros' = macros \ {m}
    /\ UNCHANGED scopes

\* A reset may keep one symbol, and adds none.
Reset ==
    /\ \E m \in macros : macros' = {m}
    /\ UNCHANGED scopes

Next == Extend \/ Empty \/ Open \/ Close \/ Define \/ Undefine \/ Reset

Spec == Init /\ [][Next]_vars

=============================================================================
