---------------------------- MODULE MCStatements ----------------------------
(* Bodies for Statements: every operation on its own, hoisting statements in *)
(* every place, returns in every place, and the items of case inside.        *)
EXTENDS Statements

K(n) == [op |-> "const", args |-> << >>, bits |-> Bits(n, Width)]
X == Var("x")
Y == Var("y")
Stream(id, e, n) == [op |-> "stream", args |-> <<e>>, id |-> id, slice |-> n]
Select(op, base, w) == [op |-> op, str |-> "x", args |-> <<base, w>>]

A(v, e) == [op |-> "assign", str |-> v, rhs |-> e]
Begin(body) == [op |-> "begin", unnamedVars |-> FALSE, body |-> body]
Locals(body) == [op |-> "begin", unnamedVars |-> TRUE, body |-> <<[op |-> "decl"]>> \o body]
If(c, body) == [op |-> "if", cond |-> c, body |-> body]
Case(c, labels, body) == [op |-> "case", cond |-> c, labels |-> labels, body |-> body]
For(body) == [op |-> "for", str |-> "i", cond |-> Op("<", <<Var("i"), K(2)>>), body |-> body]
While(c, body) == [op |-> "while", str |-> "i", cond |-> c, body |-> body]
Repeat(e, body) == [op |-> "repeat", str |-> "i", cond |-> e, body |-> body]
Pattern(a, b) == [op |-> "pattern", fields |-> <<<<"s1", a>>, <<"s2", b>>>>]

Expressions ==
    {Op(op, <<X>>) : op \in DOMAIN UnaryType \cup {"~&", "~|"}}
    \cup {Op(op, <<X, Y>>) : op \in (DOMAIN BinaryType \ {"/", "%", "{{}}"}) \cup {"~&", "~|", "{}", "'{}"}}
    \cup {Op(op, <<X, K(3)>>) : op \in {"/", "%"}}
    \cup {Op("?:", <<X, Y, K(9)>>), Op("{{}}", <<K(2), Select("+:", K(0), K(2))>>), Op("{>>{}}", <<X>>),
          Op("cast", <<X>>) @@ [size |-> 2], Op("cast", <<X>>) @@ [size |-> 4],
          Op("min:typ:max", <<K(1), Y, K(3)>>), Op("inside", <<X, K(3), Y, K(12)>>), Op("inside", <<X, Y>>),
          Op("{}", <<Select("+:", K(0), K(1)), Select("+:", Y, K(2)), Op("!", <<Y>>)>>),
          [op |-> "[]", str |-> "x", args |-> <<Y>>], [op |-> "[]", str |-> "x", args |-> <<K(2), K(1)>>],
          Select("+:", K(1), K(2)), Select("-:", K(3), K(2)), Select("-:", K(1), K(1))}
    \cup {Stream(1, X, n) : n \in 1..4}
    \cup {Stream(1, Op("{}", <<Select("+:", K(0), K(2)), Select("-:", K(3), K(2))>>), 2),
          Stream(1, Stream(2, X, 2), 1), Op("+", <<Stream(1, X, 1), Stream(2, Y, 2)>>)}

\* Statements that hoist something, after something else has happened.
Hoisting == {A("x", Stream(1, X, 1)), Pattern(Op("+", <<Var("s1"), X>>), Var("s1")),
             Pattern(Var("s2"), Var("s1")), Pattern(Stream(1, X, 1), Var("s1")),
             Pattern(Stream(1, Var("s2"), 1), X)}
After(s) == <<[op |-> "++", str |-> "x"], s, [op |-> "op=", str |-> "y", by |-> "+", rhs |-> X]>>
Listed(s) == {Begin(After(s)), Locals(After(s)), s}

\* The places a statement can be in; Low(s) is one of them around s.
Small == Op("<", <<X, K(8)>>)
Places(s) ==
    {If(Small, <<s>>), If(Small, <<A("y", K(1)), s>>), Case(X, <<<<<<3>>>>, << >>>>, <<A("y", K(2)), s>>),
     For(s), While(Op("<", <<Y, K(2)>>), s), Repeat(K(2), s)}
Deep(s) == {Begin(<<[op |-> "++", str |-> "y"], p>>) : p \in Places(s)}

Returns ==
    LET r == [op |-> "return", rhs |-> X]
    IN  {Begin(<<p, A("y", X)>>) : p \in Places(r)} \cup {Begin(<<A("x", Y), p>>) : p \in Places(r)}
        \cup {Begin(<<A("y", X), r>>), Begin(<<r, A("x", K(1)), [r EXCEPT !.rhs = Y]>>), r,
              Begin(<<If(Small, <<Begin(<<A("x", Y), r>>), [r EXCEPT !.rhs = Stream(1, Y, 2)]>>)>>)}

Ranges == {<< <<1>> >>, << <<1, 3>> >>, << <<1>>, <<3>> >>, << <<1>>, <<3>>, <<6>> >>, << <<6, 1>> >>,
           << <<1, 2>>, <<6>> >>}
Insides ==
    {Case(e, <<l1, l2, << >> >>, <<A("y", K(1)), A("y", K(2)), A("y", K(3))>>)
     : l1 \in Ranges, l2 \in Ranges, e \in {X, Op("+", <<X, Y>>)}}

Conditions ==
    {Begin(After(If(Stream(1, X, 1), <<A("y", X)>>))), Begin(After(While(Op("<", <<Stream(1, X, 1), Y>>), A("y", K(0))))),
     Begin(After(Repeat(Stream(1, X, 2), A("y", Op("+", <<Y, K(1)>>))))), If(Stream(1, X, 1), <<A("y", X)>>)}

\* Parameters of a struct of three members of 1, 1 and 2 bits, by name in every
\* order, by place, and with a default; initial values in every order.
Bit(b) == [op |-> "const", args |-> << >>, bits |-> b]
MCMembers == <<"p", "q", "r">>
Value3 == [p |-> Bit(<<1>>), q |-> Bit(<<0>>), r |-> Select("+:", K(0), K(2))]
Parameters ==
    {[op |-> "parameter", fields |-> [i \in 1..3 |-> <<k[i], Value3[k[i]]>>]] : k \in {q \in [1..3 -> {"p", "q", "r"}] : {q[i] : i \in 1..3} = {"p", "q", "r"}}}
    \cup {[op |-> "parameter", fields |-> <<<<"", Bit(<<1>>)>>, <<"", Bit(<<0>>)>>, <<"", Value3.r>>>>],
          [op |-> "parameter", fields |-> <<<<"r", Value3.r>>, <<"default", Bit(<<1>>)>>>>]}
InitialValues ==
    {[op |-> "values", fields |-> f] : f \in {<<<<"x", K(3)>>, <<"y", Op("+", <<Var("i"), K(1)>>)>>, <<"ret", K(7)>>>>,
                                             <<<<"x", K(3)>>, <<"y", Op("+", <<X, K(1)>>)>>>>, <<<<"y", X>>>>}}

MCBodies ==
    {A("y", e) : e \in Expressions}
    \cup {[op |-> "op=", str |-> "x", by |-> op, rhs |-> IF op \in {"/", "%"} THEN K(3) ELSE Y] : op \in DOMAIN CompoundType}
    \cup {[op |-> "--", str |-> "x"]} \cup {Begin(<<A("y", e)>>) : e \in Expressions}
    \cup UNION {Listed(h) : h \in Hoisting}
    \cup UNION {UNION {Deep(l) : l \in Listed(h)} : h \in Hoisting}
    \cup UNION {UNION {Deep(Begin(<<p>>)) : p \in Places(Begin(After(h)))} : h \in Hoisting}
    \cup Insides \cup Conditions \cup Returns \cup Parameters \cup InitialValues

MCVars == {"x", "y", "i", "s1", "s2", "ret"}
MCStarts == {[v \in MCVars |-> IF v = "x" THEN Bits(x, Width) ELSE IF v = "y" THEN Bits(y, Width)
                               ELSE IF v = "s1" THEN Bits(5, Width) ELSE Bits(2, Width)]
             : x \in {0, 1, 2, 6, 11, 15}, y \in {0, 1, 2}}
=============================================================================
