---------------------------- MODULE MCElaboration ----------------------------
(* Trees of five instances for Elaboration: a top module, two instances in   *)
(* it and two further down, the definitions recursive, boxes or undefined.   *)
EXTENDS Elaboration

CONSTANTS none, short, long, u1, u2, u3, u4, u5

MCUnits == {u1, u2, u3, u4, u5}
MCDefs  == {"T", "D", "E", "box", "undefined"}
MCEnums == {"e"}

Parents ==
    {[u \in MCUnits |-> CASE u = u1 -> none [] u \in {u2, u3} -> u1 [] u = u4 -> p [] OTHER -> q] :
        p \in {u2, u3}, q \in {u2, u3}}

\* The definitions whose typedefs, functions or variables have an enum.
With == {{}, {"T", "D"}, {"D", "E"}}

Content(def, with) == [u \in MCUnits |-> IF def[u] \in with THEN MCEnums ELSE {}]

Tree(parent, d2, d3, p2, p3, p4, t, f, v) ==
    LET def == [u \in MCUnits |-> CASE u = u1 -> "T" [] u = u2 -> d2 [] u = u3 -> d3 [] OTHER -> "E"]
        params == [u \in MCUnits |-> CASE u = u2 -> p2 [] u = u3 -> p3 [] u = u4 -> p4
                                       [] u = u1 -> (IF "T" \in {d2, d3} THEN short ELSE none)
                                       [] OTHER -> short]
    IN  [parent |-> parent, def |-> def, params |-> params,
         types |-> Content(def, t), funcs |-> Content(def, f), vars |-> Content(def, v)]

MCSources ==
    {s \in {Tree(parent, d2, d3, p2, p3, p4, t, f, v) :
              parent \in Parents, d2 \in {"T", "D", "box"}, d3 \in {"T", "D", "undefined"},
              p2 \in {short, long}, p3 \in {short, long}, p4 \in {short, long},
              t \in With, f \in {{}, {"D"}}, v \in With} : Consistent(s)}
=============================================================================
