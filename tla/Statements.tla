------------------------------ MODULE Statements ------------------------------
(***************************************************************************)
(* How UhdmAst turns the statements and expressions of a process or of a   *)
(* function into AST nodes, and what it hoists: a streaming concatenation  *)
(* becomes a block of its own, an assignment pattern several assignments,  *)
(* and both are put into the closest statement list the walk is in.        *)
(*                                                                         *)
(* A body is translated and both it and its translation run from the same  *)
(* values.  Values are sequences of bits, the most significant one first.  *)
(* The operators are recursive over the tree.                              *)
(***************************************************************************)
EXTENDS Integers, SequencesExt, TLC

CONSTANTS Bodies,       \* the bodies translated
          Roots,        \* what they are the body of
          Vars,         \* variables; "s1" and "s2" are the fields of a struct
          Streams,      \* numbers of the streaming concatenations
          Starts,       \* values the variables start with
          Width,        \* bits of a variable
          Members,      \* the fields of the struct type of a parameter, in order
          MaxTurns      \* bound: turns of a while loop

ASSUME RootsAssumption ==
    Roots \subseteq {"always", "initial", "event", "function", "net", "variable", "values", "parameter"}

-----------------------------------------------------------------------------
(* Bits                                                                    *)

Num(b) == FoldLeft(LAMBDA n, d : 2 * n + d, 0, b)
Bits(n, w) == [i \in 1..w |-> (n \div 2 ^ (w - i)) % 2]
Fit(b) == Bits(Num(b), Width)
Truth(p) == IF p THEN <<1>> ELSE <<0>>
Ones(b) == {i \in DOMAIN b : b[i] = 1}
Cat(bs) == FlattenSeq(bs)
Part(b, left, right) == SubSeq(b, Len(b) - left, Len(b) - right)

-----------------------------------------------------------------------------
(* Expressions: nodes of UHDM [op, args] with str, bits, id or slice, and  *)
(* nodes of the AST [type, kids] with str, bits or id.                     *)

Node(type, kids) == [type |-> type, kids |-> kids]
Const(n) == [type |-> "CONSTANT", kids |-> << >>, bits |-> Bits(n, Width)]
Ident(v, kids) == [type |-> "IDENTIFIER", kids |-> kids, str |-> v]

\* Operations that keep their operands in order.
UnaryType ==
    "&" :> "REDUCE_AND" @@ "|" :> "REDUCE_OR" @@ "^" :> "REDUCE_XOR" @@ "~^" :> "REDUCE_XNOR"
    @@ "~" :> "BIT_NOT" @@ "!" :> "LOGIC_NOT" @@ "+" :> "POS" @@ "-" :> "NEG"
BinaryType ==
    "&" :> "BIT_AND" @@ "|" :> "BIT_OR" @@ "^" :> "BIT_XOR" @@ "~^" :> "BIT_XNOR"
    @@ "&&" :> "LOGIC_AND" @@ "||" :> "LOGIC_OR" @@ "==" :> "EQ" @@ "!=" :> "NE" @@ "===" :> "EQX"
    @@ "!==" :> "NEX" @@ ">" :> "GT" @@ ">=" :> "GE" @@ "<" :> "LT" @@ "<=" :> "LE" @@ "+" :> "ADD"
    @@ "-" :> "SUB" @@ "*" :> "MUL" @@ "/" :> "DIV" @@ "%" :> "MOD" @@ "**" :> "POW"
    @@ "<<" :> "SHIFT_LEFT" @@ ">>" :> "SHIFT_RIGHT" @@ "<<<" :> "SHIFT_SLEFT" @@ ">>>" :> "SHIFT_SRIGHT"
    @@ "{{}}" :> "REPLICATE"
NodeType(op, arity) ==
    CASE arity = 1 -> UnaryType[op] [] arity = 2 -> BinaryType[op] [] op = "?:" -> "TERNARY"

\* Assignments with an operation have a table of their own.
CompoundType ==
    "-" :> "SUB" @@ "/" :> "DIV" @@ "%" :> "MOD" @@ "<<" :> "SHIFT_LEFT" @@ ">>" :> "SHIFT_RIGHT"
    @@ "+" :> "ADD" @@ "*" :> "MUL" @@ "&" :> "BIT_AND" @@ "|" :> "BIT_OR" @@ "^" :> "BIT_XOR"
    @@ "<<<" :> "SHIFT_SLEFT" @@ ">>>" :> "SHIFT_SRIGHT"

\* ~& and ~| of one operand are reductions.
Negated(op, kids) ==
    LET n == Node(NodeType(op, Len(kids)), kids)
    IN  Node(IF Len(kids) = 2 THEN "BIT_NOT" ELSE "LOGIC_NOT", <<n>>)

\* Mutant: operands are kept in the order they are written in.
Concatenated_AsWritten(kids) == Node("CONCAT", kids)

\* The first child of AST_CONCAT is the least significant one.
Concatenated(kids) == Node("CONCAT", Reverse(kids))

\* v[base +: width] and v[base -: width] as a range of two bounds.
IndexedRange(up, base, width) ==
    LET self == Node("SELFSZ", <<base>>)
    IN  IF up THEN Node("RANGE", <<Node("SUB", <<Node("ADD", <<self, width>>), Const(1)>>),
                                   Node("ADD", <<self, Const(0)>>)>>)
        ELSE Node("RANGE", <<Node("ADD", <<self, Const(0)>>),
                             Node("SUB", <<Node("ADD", <<self, Const(1)>>), width>>)>>)

\* A set of values becomes a chain of comparisons with its left operand.
InsideChain(kids) ==
    FoldLeft(LAMBDA n, k : Node("LOGIC_OR", <<n, Node("EQ", <<kids[1], k>>)>>),
             Node("EQ", <<kids[1], kids[2]>>), SubSeq(kids, 3, Len(kids)))

\* A cast is its operand, whatever its type.
Cast(kids) == kids[1]

Operation(e, kids) ==
    CASE e.op = "const" -> [type |-> "CONSTANT", kids |-> << >>, bits |-> e.bits]
      [] e.op = "var" -> Ident(e.str, << >>)
      [] e.op = "~&" -> Negated("&", kids)
      [] e.op = "~|" -> Negated("|", kids)
      [] e.op \in {"{}", "'{}"} -> Concatenated(kids)
      [] e.op = "{>>{}}" -> kids[Len(kids)]
      [] e.op = "min:typ:max" -> kids[2]
      [] e.op = "inside" -> InsideChain(kids)
      [] e.op = "cast" -> Cast(kids)
      [] e.op \in {"+:", "-:"} -> Ident(e.str, <<IndexedRange(e.op = "+:", kids[1], kids[2])>>)
      [] e.op = "stream" -> [type |-> "DST", kids |-> << >>, id |-> e.id]
      [] e.op = "[]" -> Ident(e.str, <<Node("RANGE", kids)>>)
      [] OTHER -> Node(NodeType(e.op, Len(kids)), kids)

\* The block of {<<slice{arg}}: the argument is copied to an ascending wire,
\* slice after slice of that to a descending one.  Bits of src behind its end
\* are undefined (2).
Impl(e, arg) == [type |-> "IMPL", id |-> e.id, arg |-> arg, slice |-> e.slice]
Streamed(src, slice) ==
    [p \in DOMAIN src |->
        LET d == Len(src) - p
            counter == d - (d % slice)
            at == counter + slice - (d - counter)
        IN  IF at <= Len(src) THEN src[at] ELSE 2]

\* What the walk of an expression gives: its node, and the blocks that were
\* pushed to the closest statement list meanwhile.  The block of a stream is
\* pushed before its argument is walked.
RECURSIVE Walk(_)
Walk(e) ==
    LET w == [i \in DOMAIN e.args |-> Walk(e.args[i])]
        kids == [i \in DOMAIN w |-> w[i].node]
        inner == FlattenSeq([i \in DOMAIN w |-> w[i].pushed])
    IN  [node |-> Operation(e, kids),
         pushed |-> (IF e.op = "stream" THEN <<Impl(e, kids[1])>> ELSE << >>) \o inner]

\* Yosys: the value of an AST expression in a machine m; all are unsigned.
Bitwise2(b, c, Op2(_, _)) == [i \in DOMAIN b |-> IF Op2(b[i] = 1, c[i] = 1) THEN 1 ELSE 0]
Operated(type, b, c) ==
    LET x == Num(b)
        y == Num(c)
    IN  CASE type = "ADD" -> x + y [] type = "SUB" -> x - y [] type = "MUL" -> x * y
          [] type = "DIV" -> x \div y [] type = "MOD" -> x % y [] type = "POW" -> IF y = 0 THEN 1 ELSE x ^ y
          [] type \in {"SHIFT_LEFT", "SHIFT_SLEFT"} -> x * 2 ^ y
          [] type \in {"SHIFT_RIGHT", "SHIFT_SRIGHT"} -> x \div 2 ^ y
Compared(type, x, y) ==
    CASE type = "LT" -> x < y [] type = "LE" -> x <= y [] type = "GT" -> x > y [] type = "GE" -> x >= y
      [] type \in {"EQ", "EQX"} -> x = y [] type \in {"NE", "NEX"} -> x # y
      [] type = "LOGIC_AND" -> x > 0 /\ y > 0 [] type = "LOGIC_OR" -> x > 0 \/ y > 0
RECURSIVE Value(_, _)
Value(n, m) ==
    LET k == [i \in DOMAIN n.kids |-> Value(n.kids[i], m)] IN
    CASE n.type = "CONSTANT" -> n.bits
      [] n.type = "IDENTIFIER" -> IF k = << >> THEN m.val[n.str]
                                  ELSE Part(m.val[n.str], Num(k[1][1]), Num(Last(k[1])))
      [] n.type = "RANGE" -> k
      [] n.type = "DST" -> m.dst[n.id]
      [] n.type \in {"SELFSZ", "POS"} -> k[1]
      [] n.type = "NEG" -> Bits(0 - Num(k[1]), Width)
      [] n.type = "BIT_NOT" -> [i \in DOMAIN k[1] |-> 1 - k[1][i]]
      [] n.type = "REDUCE_AND" -> Truth(Ones(k[1]) = DOMAIN k[1])
      [] n.type \in {"REDUCE_OR", "REDUCE_BOOL"} -> Truth(Ones(k[1]) # {})
      [] n.type = "REDUCE_XOR" -> <<Cardinality(Ones(k[1])) % 2>>
      [] n.type = "REDUCE_XNOR" -> <<1 - (Cardinality(Ones(k[1])) % 2)>>
      [] n.type = "LOGIC_NOT" -> Truth(Ones(k[1]) = {})
      [] n.type = "BIT_AND" -> Bitwise2(k[1], k[2], /\)
      [] n.type = "BIT_OR" -> Bitwise2(k[1], k[2], \/)
      [] n.type = "BIT_XOR" -> Bitwise2(k[1], k[2], #)
      [] n.type = "BIT_XNOR" -> Bitwise2(k[1], k[2], =)
      [] n.type = "TERNARY" -> IF Num(k[1]) # 0 THEN k[2] ELSE k[3]
      [] n.type = "CONCAT" -> Cat(Reverse(k))
      [] n.type = "REPLICATE" -> Cat([i \in 1..Num(k[1]) |-> k[2]])
      [] n.type \in {"LT", "LE", "GT", "GE", "EQ", "EQX", "NE", "NEX", "LOGIC_AND", "LOGIC_OR"} ->
            Truth(Compared(n.type, Num(k[1]), Num(k[2])))
      [] OTHER -> Bits(Operated(n.type, k[1], k[2]), Width)

\* The language: the value of an expression as it is written.
\* Blocks of a stream are taken from the right; the last one may be short.
StreamOf(b, slice) ==
    [p \in DOMAIN b |->
        LET left == Len(b) - ((p - 1) \div slice + 1) * slice
        IN  b[(IF left < 0 THEN 0 ELSE left) + ((p - 1) % slice) + 1]]
RECURSIVE Meaning(_, _)
Meaning(e, m) ==
    LET k == [i \in DOMAIN e.args |-> Meaning(e.args[i], m)]
        unary == Len(k) = 1
        x == Num(k[1])
        y == Num(k[2])
        Each(Holds(_)) == [i \in DOMAIN k[1] |-> IF Holds({k[j][i] : j \in DOMAIN k}) THEN 1 ELSE 0]
    IN
    CASE e.op = "const" -> e.bits
      [] e.op = "var" -> m.val[e.str]
      [] e.op = "&" -> IF unary THEN Truth(\A i \in DOMAIN k[1] : k[1][i] = 1) ELSE Each(LAMBDA d : 0 \notin d)
      [] e.op = "~&" -> IF unary THEN Truth(\E i \in DOMAIN k[1] : k[1][i] = 0) ELSE Each(LAMBDA d : 0 \in d)
      [] e.op = "|" -> IF unary THEN Truth(\E i \in DOMAIN k[1] : k[1][i] = 1) ELSE Each(LAMBDA d : 1 \in d)
      [] e.op = "~|" -> IF unary THEN Truth(\A i \in DOMAIN k[1] : k[1][i] = 0) ELSE Each(LAMBDA d : 1 \notin d)
      [] e.op = "^" -> IF unary THEN <<FoldLeft(LAMBDA p, d : (p + d) % 2, 0, k[1])>> ELSE Each(LAMBDA d : d = {0, 1})
      [] e.op = "~^" -> IF unary THEN <<FoldLeft(LAMBDA p, d : (p + d) % 2, 1, k[1])>> ELSE Each(LAMBDA d : d # {0, 1})
      [] e.op = "~" -> Each(LAMBDA d : d = {0})
      [] e.op = "!" -> Truth(x = 0)
      [] e.op = "+" -> IF unary THEN k[1] ELSE Bits(x + y, Width)
      [] e.op = "-" -> Bits(IF unary THEN 2 ^ Width - x ELSE x - y, Width)
      [] e.op = "*" -> Bits(x * y, Width)
      [] e.op = "/" -> Bits(CHOOSE q \in 0..x : q * y <= x /\ (q + 1) * y > x, Width)
      [] e.op = "%" -> Bits(CHOOSE r \in 0..y - 1 : \E q \in 0..x : q * y + r = x, Width)
      [] e.op = "**" -> Bits(FoldLeft(LAMBDA p, f : p * f, 1, [i \in 1..y |-> x]), Width)
      [] e.op \in {"<<", "<<<"} -> [i \in 1..Width |-> IF i + y <= Width THEN k[1][i + y] ELSE 0]
      [] e.op \in {">>", ">>>"} -> [i \in 1..Width |-> IF i - y >= 1 THEN k[1][i - y] ELSE 0]
      [] e.op = "&&" -> Truth(x # 0 /\ y # 0)
      [] e.op = "||" -> Truth(x + y > 0)
      [] e.op \in {"==", "==="} -> Truth(k[1] = k[2])
      [] e.op \in {"!=", "!=="} -> Truth(k[1] # k[2])
      [] e.op = "<" -> Truth(x < y)
      [] e.op = "<=" -> Truth(x <= y)
      [] e.op = ">" -> Truth(y < x)
      [] e.op = ">=" -> Truth(y <= x)
      [] e.op = "?:" -> IF x # 0 THEN k[2] ELSE k[3]
      [] e.op = "{{}}" -> Cat([i \in 1..x |-> k[2]])
      [] e.op \in {"{}", "'{}"} -> Cat(k)
      [] e.op = "{>>{}}" -> k[1]
      [] e.op = "min:typ:max" -> k[2]
      [] e.op = "inside" -> Truth(\E i \in 2..Len(k) : k[i] = k[1])
      [] e.op = "cast" -> SubSeq(k[1], 1 + Len(k[1]) - e.size, Len(k[1]))
      [] e.op = "[]" -> [i \in 1..x - Num(Last(k)) + 1 |-> m.val[e.str][Width - x + i - 1]]
      [] e.op = "+:" -> [i \in 1..y |-> m.val[e.str][Width - x - y + i]]
      [] e.op = "-:" -> [i \in 1..y |-> m.val[e.str][Width - x + i - 1]]
      [] e.op = "stream" -> StreamOf(k[1], e.slice)

-----------------------------------------------------------------------------
(* Statements                                                              *)

Block(stmts) == [type |-> "BLOCK", kids |-> stmts]
Assign(v, n) == [type |-> "ASSIGN_EQ", str |-> v, rhs |-> n]
Result(node, pushed) == [node |-> node, pushed |-> pushed]

\* A statement list being filled: a statement is pushed after what its walk
\* pushed; a declaration that is an assignment without right-hand side is
\* deleted, its variable being declared elsewhere.
ListOf(walked) ==
    FlattenSeq([i \in DOMAIN walked |->
        walked[i].pushed \o (IF walked[i].node.type = "DECL" THEN << >> ELSE <<walked[i].node>>)])

\* The statements of an unnamed block with variables go into a block of their
\* own, which is added when they are all walked.
UnnamedWithVariables(walked) ==
    Block(FlattenSeq([i \in DOMAIN walked |-> walked[i].pushed])
          \o <<Block(ListOf([i \in DOMAIN walked |-> Result(walked[i].node, << >>)]))>>)

\* Labels of an item of `case inside`: all values and bounds in one list, and
\* two of them are taken for the bounds of a range, which simplify_sv unrolls.
Labelled(labels) ==
    LET all == FlattenSeq(labels)
    IN  IF Len(all) = 2 THEN all[1]..all[2] ELSE {all[i] : i \in DOMAIN all}

\* An item without labels, written or unrolled, is a default.
CaseItem(labels, body) == [members |-> IF labels = << >> THEN {} ELSE Labelled(labels), body |-> body]

\* Mutant: the pushed assignments follow the one that stays.
PatternAssigns_FirstToo(assigns) == Result(Block(<< >>), assigns)

\* s = '{f: e, g: e}: the first assignment takes the place of the statement,
\* the others are appended to the list, where they come before it.
PatternAssigns(assigns) == Result(assigns[1], Tail(assigns))

RECURSIVE Process(_)

\* process_if_else, process_case and process_case_item are no statement lists:
\* what their parts push goes to the list around them.
Choice(walked, s) ==
    CASE s.op = "if" ->
           Result([type |-> "CASE", on |-> Node("REDUCE_BOOL", <<walked[1].node>>),
                   items |-> [i \in 1..Len(walked) - 1 |->
                                [members |-> IF i = 1 THEN {1} ELSE {}, body |-> Block(<<walked[i + 1].node>>)]]],
                  FlattenSeq([i \in DOMAIN walked |-> walked[i].pushed]))
      [] OTHER ->
           Result([type |-> "CASE", on |-> walked[1].node,
                   items |-> [i \in DOMAIN s.labels |->
                                CaseItem(s.labels[i], Block(<<walked[i + 1].node>>))]],
                  FlattenSeq([i \in DOMAIN walked |-> walked[i].pushed]))

\* Each loop is in a block of its own, into which what is hoisted from its
\* condition and body goes: behind the loop of a while and of a repeat, which
\* is there before its parts are walked, but before that of a for.
ForBlock(loop, pushed) == Block(pushed \o <<loop>>)
WhileBlock(loop, pushed) == Block(<<loop>> \o pushed)
RepeatBlock(loop, pushed) == Block(<<loop>> \o pushed)

\* A return assigns the variable of the result, and does no more.
Returned(w) == Result(Assign("ret", w.node), w.pushed)

Var(v) == [op |-> "var", args |-> << >>, str |-> v]
Op(op, args) == [op |-> op, args |-> args]

\* Assignments are blocking ones.
Process(s) ==
    CASE s.op = "assign" -> Result(Assign(s.str, Walk(s.rhs).node), Walk(s.rhs).pushed)
      [] s.op = "op=" -> LET w == Walk(s.rhs)
                             n == Node(CompoundType[s.by], <<Ident(s.str, << >>), w.node>>)
                         IN  Result(Assign(s.str, n), w.pushed)
      [] s.op \in {"++", "--"} ->
            LET n == Node(IF s.op = "++" THEN "ADD" ELSE "SUB", <<Ident(s.str, << >>), Const(1)>>)
            IN  Result(Assign(s.str, n), << >>)
      [] s.op = "decl" -> Result([type |-> "DECL"], << >>)
      [] s.op = "return" -> Returned(Walk(s.rhs))
      [] s.op = "pattern" ->
            LET w == [i \in DOMAIN s.fields |-> Walk(s.fields[i][2])]
                r == PatternAssigns([i \in DOMAIN w |-> Assign(s.fields[i][1], w[i].node)])
            IN  Result(r.node, FlattenSeq([i \in DOMAIN w |-> w[i].pushed]) \o r.pushed)
      [] s.op = "begin" ->
            LET walked == [i \in DOMAIN s.body |-> Process(s.body[i])]
            IN  Result(IF s.unnamedVars THEN UnnamedWithVariables(walked) ELSE Block(ListOf(walked)), << >>)
      [] s.op \in {"if", "case"} ->
            Choice(<<Walk(s.cond)>> \o [i \in DOMAIN s.body |-> Process(s.body[i])], s)
      [] s.op \in {"for", "while", "repeat"} ->
            LET c == Walk(s.cond)
                b == Process(s.body)
                loop == [type |-> s.op, str |-> s.str, cond |-> c.node, body |-> b.node]
                pushed == c.pushed \o b.pushed
            IN  Result(CASE s.op = "for" -> ForBlock(loop, pushed)
                         [] s.op = "while" -> WhileBlock(loop, pushed)
                         [] s.op = "repeat" -> RepeatBlock(loop, pushed), << >>)

\* The body of a process.  A block that a stream put into `always` or `initial`
\* moves into an implicit block, in front of the statement; assignments of a
\* pattern stay outside of it, where nothing runs them.  With several streams
\* only the last block moves: the others run before it from where they are.
Implicit(r) == Block(SelectSeq(r.pushed, LAMBDA n : n.type = "IMPL") \o <<r.node>>)
AlwaysBody(s) == Implicit(Process(s))
InitialBody(s) == Implicit(Process(s))

\* The block of an event control is a list itself.
EventBody(s) == LET r == Process(s) IN Block(r.pushed \o <<r.node>>)

\* Streams are put into the function, in front of its statement, and the
\* assignments of a pattern into the module.
FunctionBody(s) == Implicit(Process(s))

\* A continuous assignment; what is pushed to the module has no order there, so
\* an item runs after those that drive it.
NetBody(s) == LET r == Process(s) IN Block(Reverse(r.pushed) \o <<r.node>>)

\* The initial value of a variable: the assignment is in the block of an
\* AST_INITIAL, and what is pushed stands after that block.
VariableBody(s) == LET r == Process(s) IN Block(<<r.node>> \o r.pushed)

\* The initial values of variables of the types int and enum: each goes in front
\* of the assignments that are in the first block of the first AST_INITIAL.
Inserted(block, assign) ==
    LET at == {i \in DOMAIN block : block[i].type = "ASSIGN_EQ"}
    IN  InsertAt(block, IF at = {} THEN Len(block) + 1 ELSE CHOOSE i \in at : \A j \in at : i <= j, assign)
ValuesBody(s) ==
    Block(FoldLeft(LAMBDA b, v : Inserted(b, Assign(v[1], Walk(v[2]).node)), << >>, s.fields))

\* A pattern for a parameter: values without a key first, then one for each
\* place of the type, then one whose key is none of its members.
ParameterPattern(fields) ==
    LET PlaceOf(key) == IF key \in Range(Members) THEN CHOOSE i \in DOMAIN Members : Members[i] = key
                        ELSE Len(Members) + 1
        keyed == SelectSeq(fields, LAMBDA f : f[1] # "")
        OfPlace(p) == SelectSeq(keyed, LAMBDA f : PlaceOf(f[1]) = p)
        ordered == FlattenSeq([p \in 1..Len(Members) + 1 |->
                                  SubSeq(OfPlace(p), 1, IF OfPlace(p) = << >> THEN 0 ELSE 1)])
        all == SelectSeq(fields, LAMBDA f : f[1] = "") \o ordered
    IN  Concatenated([i \in DOMAIN all |-> all[i][2]])

\* The value of a parameter comes before its ranges.
ParameterBody(s) ==
    Block(<<Assign("ret", ParameterPattern([i \in DOMAIN s.fields |-> <<s.fields[i][1], Walk(s.fields[i][2]).node>>]))>>)

Translated(root, s) ==
    CASE root = "always" -> AlwaysBody(s)
      [] root = "initial" -> InitialBody(s)
      [] root = "event" -> EventBody(s)
      [] root = "function" -> FunctionBody(s)
      [] root = "net" -> NetBody(s)
      [] root = "variable" -> VariableBody(s)
      [] root = "values" -> ValuesBody(s)
      [] root = "parameter" -> ParameterBody(s)

-----------------------------------------------------------------------------
(* Execution                                                               *)

Set(m, v, b) == [m EXCEPT !.val[v] = Fit(b)]

\* Yosys runs an AST.  A case takes the first item that matches or has no
\* label; a for counts its variable up to the bound.
RECURSIVE Run(_, _), RunLoop(_, _, _)
Turn(n, m) == IF n.type = "for" THEN Set(Run(n.body, m), n.str, Bits(Num(Run(n.body, m).val[n.str]) + 1, Width))
              ELSE Run(n.body, m)
RunLoop(n, m, left) ==
    IF left = 0 \/ (n.type # "repeat" /\ Num(Value(n.cond, m)) = 0) THEN m
    ELSE RunLoop(n, Turn(n, m), left - 1)
Run(n, m) ==
    CASE n.type = "ASSIGN_EQ" -> Set(m, n.str, Value(n.rhs, m))
      [] n.type = "IMPL" -> [m EXCEPT !.dst[n.id] = Streamed(Value(n.arg, m), n.slice)]
      [] n.type = "BLOCK" -> FoldLeft(LAMBDA mm, k : Run(k, mm), m, n.kids)
      [] n.type = "CASE" ->
            LET on == Num(Value(n.on, m))
                fits == {i \in DOMAIN n.items : n.items[i].members = {} \/ on \in n.items[i].members}
            IN  IF fits = {} THEN m
                ELSE Run(n.items[CHOOSE i \in fits : \A j \in fits : i <= j].body, m)
      [] n.type = "for" -> RunLoop(n, Set(m, n.str, <<0>>), MaxTurns)
      [] n.type = "while" -> RunLoop(n, m, MaxTurns)
      [] n.type = "repeat" -> RunLoop(n, m, Num(Value(n.cond, m)))

\* The language: statements as they are written; after a return nothing runs.
In(b, labels) == \/ labels = << >>
                 \/ \E i \in DOMAIN labels : labels[i] # << >> /\ b >= labels[i][1] /\ b <= labels[i][Len(labels[i])]
RECURSIVE Exec(_, _), ExecLoop(_, _, _)
ExecTurn(s, m) ==
    LET after == Exec(s.body, m)
    IN  IF s.op = "for" /\ ~after.done THEN Set(after, s.str, Bits(Num(after.val[s.str]) + 1, Width)) ELSE after
ExecLoop(s, m, left) ==
    IF left = 0 \/ m.done \/ (s.op # "repeat" /\ Num(Meaning(s.cond, m)) = 0) THEN m
    ELSE ExecLoop(s, ExecTurn(s, m), left - 1)
Exec(s, m) ==
    IF m.done THEN m ELSE
    CASE s.op = "assign" -> Set(m, s.str, Meaning(s.rhs, m))
      [] s.op = "op=" -> Set(m, s.str, Meaning(Op(s.by, <<Var(s.str), s.rhs>>), m))
      [] s.op \in {"++", "--"} ->
            Set(m, s.str, Bits(Num(m.val[s.str]) + (IF s.op = "++" THEN 1 ELSE 0 - 1), Width))
      [] s.op = "decl" -> m
      [] s.op = "return" -> [Set(m, "ret", Meaning(s.rhs, m)) EXCEPT !.done = TRUE]
      [] s.op = "pattern" ->
            FoldLeft(LAMBDA mm, f : Set(mm, f[1], Meaning(f[2], m)), m, s.fields)
      [] s.op = "values" -> FoldLeft(LAMBDA mm, f : Set(mm, f[1], Meaning(f[2], mm)), m, s.fields)
      [] s.op = "parameter" ->
            LET Named(key) == {i \in DOMAIN s.fields : s.fields[i][1] = key}
                Member(i) == IF s.fields[1][1] = "" THEN i
                             ELSE CHOOSE j \in DOMAIN s.fields : j \in IF Named(Members[i]) # {} THEN Named(Members[i])
                                                                        ELSE Named("default")
            IN  Set(m, "ret", Cat([i \in DOMAIN Members |-> Meaning(s.fields[Member(i)][2], m)]))
      [] s.op = "begin" -> FoldLeft(LAMBDA mm, k : Exec(k, mm), m, s.body)
      [] s.op = "if" -> IF Num(Meaning(s.cond, m)) # 0 THEN Exec(s.body[1], m)
                        ELSE IF Len(s.body) = 2 THEN Exec(s.body[2], m) ELSE m
      [] s.op = "case" ->
            LET fits == {i \in DOMAIN s.body : In(Num(Meaning(s.cond, m)), s.labels[i])}
            IN  IF fits = {} THEN m ELSE Exec(s.body[CHOOSE i \in fits : \A j \in fits : i <= j], m)
      [] s.op = "for" -> ExecLoop(s, Set(m, s.str, <<0>>), MaxTurns)
      [] s.op = "while" -> ExecLoop(s, m, MaxTurns)
      [] s.op = "repeat" -> ExecLoop(s, m, Num(Meaning(s.cond, m)))

-----------------------------------------------------------------------------
VARIABLES root, source, target, written, made
vars == <<root, source, target, written, made>>

Machine(val) == [val |-> val, dst |-> [i \in Streams |-> Bits(0, Width)], done |-> FALSE]

Init ==
    /\ root \in Roots /\ source \in Bodies
    /\ root \in {"net", "variable"} => source.op = "assign"
    /\ root = source.op \/ {root, source.op} \cap {"values", "parameter"} = {}
    /\ target = Block(<< >>)
    /\ \E v \in Starts : written = Machine(v) /\ made = written

Translate ==
    /\ target = Block(<< >>)
    /\ target' = Translated(root, source)
    /\ written' = Exec(source, written)
    /\ made' = Run(target', made)
    /\ UNCHANGED <<root, source>>

Next == Translate
Spec == Init /\ [][Next]_vars

-----------------------------------------------------------------------------
(* Where the translation keeps the meaning                                 *)

RECURSIVE Sub(_)
Sub(e) == {e} \cup UNION {Sub(e.args[i]) : i \in DOMAIN e.args}
Hoists(e) == \E f \in Sub(e) : f.op = "stream"
Reads(e) == {f.str : f \in {g \in Sub(e) : g.op \in {"var", "[]", "+:", "-:"}}}

\* The slices of a stream fill its argument, and it is not the argument of
\* another one where order matters; a cast cuts nothing.
PlainValue(e) ==
    \A f \in Sub(e) :
       /\ f.op = "stream" => Width % f.slice = 0 /\ (root = "net" \/ ~Hoists(f.args[1]))
       /\ f.op = "cast" => f.size = Width

\* Nothing is pushed by the statement, out of the statement, by its walk.
Settled(s) == Process(s).pushed = << >>

RECURSIVE Sheltered(_, _), ReturnsLast(_, _), Plain(_)

\* Every part that pushes stands in a list that runs it just before: directly
\* in a begin without variables, or at a root that is such a list.  What a
\* choice pushes must come from its condition alone.
Sheltered(s, inList) ==
    CASE s.op = "begin" -> \A i \in DOMAIN s.body : Sheltered(s.body[i], ~s.unnamedVars)
      [] s.op \in {"if", "case"} -> /\ Hoists(s.cond) => inList
                                    /\ \A i \in DOMAIN s.body : Sheltered(s.body[i], FALSE)
      [] s.op \in {"for", "while", "repeat"} -> ~Hoists(s.cond) /\ Sheltered(s.body, FALSE)
      [] s.op \in {"values", "parameter"} -> TRUE
      [] OTHER -> inList \/ Settled(s)

\* A return is the last thing that runs.
ReturnsLast(s, last) ==
    CASE s.op = "begin" -> \A i \in DOMAIN s.body : ReturnsLast(s.body[i], last /\ i = Len(s.body))
      [] s.op \in {"if", "case"} -> \A i \in DOMAIN s.body : ReturnsLast(s.body[i], last)
      [] s.op \in {"for", "while", "repeat"} -> ReturnsLast(s.body, FALSE)
      [] s.op = "return" -> last
      [] OTHER -> TRUE

\* Values of a pattern do not read a field that is assigned before them: the
\* second field first.  The labels of an item are one range that is not empty,
\* or are single and not two.  An initial value does not read a variable that
\* has one: the language leaves their order open.  The pattern of a parameter
\* names members only.
Plain(s) ==
    CASE s.op \in {"assign", "op=", "return"} -> PlainValue(s.rhs)
      [] s.op = "pattern" -> /\ \A i \in DOMAIN s.fields : PlainValue(s.fields[i][2])
                             /\ s.fields[2][1] \notin Reads(s.fields[1][2])
      [] s.op = "values" -> \A i, j \in DOMAIN s.fields : s.fields[i][1] \notin Reads(s.fields[j][2])
      [] s.op = "parameter" -> \A i \in DOMAIN s.fields : s.fields[i][1] # "default"
      [] s.op = "begin" -> \A i \in DOMAIN s.body : Plain(s.body[i])
      [] s.op = "if" -> PlainValue(s.cond) /\ \A i \in DOMAIN s.body : Plain(s.body[i])
      [] s.op = "case" ->
            /\ PlainValue(s.cond) /\ \A i \in DOMAIN s.body : Plain(s.body[i])
            /\ \A i \in DOMAIN s.labels :
                  LET l == s.labels[i]
                  IN  \/ Len(l) = 1 /\ l[1][1] <= l[1][Len(l[1])]
                      \/ Len(l) # 2 /\ \A j \in DOMAIN l : Len(l[j]) = 1
      [] s.op \in {"for", "while", "repeat"} -> PlainValue(s.cond) /\ Plain(s.body)
      [] OTHER -> TRUE

\* What stands before the statement: anything at an event control, nothing at
\* the initial value of a variable, the blocks of streams elsewhere.
InList == root = "event" \/ (root # "variable" /\ source.op # "pattern")
Faithful == Sheltered(source, InList) /\ ReturnsLast(source, TRUE) /\ Plain(source)

\* The AST that runs computes the values the statements compute, unless the
\* body has one of the forms above that the translator does not keep: over
\* nested choices, loops and blocks, with streams and patterns in any of them.
EffectsKept == Faithful => made.val = written.val
=============================================================================
