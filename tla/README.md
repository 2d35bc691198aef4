# Synlig in TLA+

Synlig reads SystemVerilog: a Yosys plugin calls the Surelog parser, walks the
UHDM design Surelog elaborates, builds a Yosys AST from it, simplifies the AST
and hands it to Yosys.  This directory holds TLA+ models of the parts of Synlig
whose behaviour depends on order, on state that outlives a step, or on an
algorithm that is easy to get wrong, with TLC configurations and TLAPS proofs.

Check a model with `tlc -config X.cfg M` and the proofs with
`tlapm M_proofs.tla`.  `PROJECT.json` maps every definition to the lines it
models and lists the runs, mutants, hazards and theorems.

## 1. Inventory

| Component | State | Operations | Hard because |
|---|---|---|---|
| Frontend session (`uhdm_common_frontend.cc`, `uhdm_surelog_ast_frontend.cc`, `uhdm_ast_frontend.cc`) | three static frontend objects with flags that are set and never reset; the lists behind `systemverilog_defaults` and `systemverilog_defines`; Surelog's library of units compiled apart; raw pointers in `top_nodes` | the read commands, `-defer`/`-link`, the two settings commands | state outlives commands, also those that fail half-way |
| Module elaboration (`process_design`, `process_module`, `process_package`, `process_enum_typespec`, `setup_current_scope`) | `top_nodes`, `current_top_node`, `anonymous_enums`, counters | depth-first walk over the instance tree; modules are named by their parameters and made once | what a step does depends on where the walk is and has been |
| Break and continue (`transform_breaks_continues`) | the loop's AST, `$break`, `$continue` | rewrites a loop in place, recursively | the result must behave like the loop at every jump, in every nest |
| Statements and expressions (`process_operation`, `process_assignment`, `process_begin`, `process_case`, ...) | the node in hand and the ancestors it may push into | walk a body, hoist streams and patterns to the closest statement list | what is hoisted runs before, after or outside of what it belongs to |
| Literals (`process_value`, `synlig_const2ast.cc`) | a digit string | parse a literal of any base and width | widths, x and z, numbers that fit no integer |
| Multi-dimensional ranges, packed structs (`check_memories`, `convert_range`, `set_dimensions`, `simplify_struct`, `convert_dot`) | dimensions of a wire, tables of memories, `current_scope` | decide what stays a memory, flatten indices, lay out members | arithmetic at boundaries, direction of ranges, scopes of a name |
| EDIF back end (`synlig_edif.cc`) | names used and made up, the order of modules, the bit that stands for a net | write a design | names and references must fit over the whole file |
| Declarations: variables, ports and nets (`process_logic_var`, `process_array_var`, `process_port`, `process_net`, `process_array_net`, `add_or_replace_child`) | the AST node of the wire so far | each object of a name replaces the node of the one before | ranges, direction and sign that only one of the objects says |
| The other `process_*` handlers | one AST node each | copy fields of a UHDM object | data only |
| AST simplification (`synlig_simplify.cc`) | the AST, `current_scope` | rewriting ranges, wires, parameters, structs and enums to a fixed point | termination, scopes saved and restored |
| RTLIL back end (`synlig_ilang.cc`) | none | prints a design | output |
| `UniqueResource` (`utils/memory.h`) | an owned pointer | move, reset, release | double deletion |
| Driver (`main.cc`, `setup.cc`), Python wrapper | option lists, the shell loop | run commands and scripts | sequence |
| `run_command` (`tests/lib/python3/run_command.py`) | a child process, a pidfd, pipes, a deadline | supervise, collect output, kill, reap | real concurrency and timeouts |
| Equivalence-check regression (`tests/formal`) | one process and one `result.json` per test; a testlist | run in parallel, gather, compare | processes die, files stay, results are classified by text |
| Test runner (`tests/lib/python3/test_runner`) | scripts, status files, work directories | generate, run in parallel, clean, summarise | concurrency, resumption |
| Build rules, CI, designs, vendored code | none of their own | | |

How they interact: the shell calls a frontend; the frontend passes the options
and defines in effect to Surelog, gives the design Surelog returns to
`UhdmAst::visit_designs` with its `shared` record, and passes the AST to
`AST::process`, which uses the simplifier; `execute()` then deletes the AST.
The test scripts call Synlig through `run_command`.

What makes each correct: the *session* lets no command see stale state of
another, and its settings are nested scopes and one set of symbols;
*elaboration* makes each parameterization once, connects every cell to the
right one and keeps every type in scope; *break/continue* preserves what a loop
does; *statements* and *literals* mean what the source says; *ranges and structs*
address the bit SystemVerilog says; the *EDIF* file has one name for each thing
and defines what it uses; the *simplifier* terminates and preserves meaning; `run_command` loses no output and returns;
the *regression* succeeds only if every listed test showed what it should.

## 2. Modules

### `SessionSettings`, `FrontendSession`, `FrontendSession_proofs`

`FrontendSession` is one process executing commands one after the other.  A
command is one action (`ReadSurelog`, `ReadUhdm`, `ReadError`, `ReadFatal`,
`AddDefaults`, `PushDefaults`, ...), except `systemverilog_defines`, whose loop
is one action per argument (`todo` holds the rest) and, for `-U`, one action
per iteration of `remove()` (`cursor` is its iterator).  `shared[fe]` are the
flags of a frontend object; the options set them before `extra_args` can raise,
so `ReadError` keeps them.  A source file is a value that stands for its unit.
`last` and `accepted` are history variables: the flags in effect at the last read
and the top nodes it found, and the files of the reads that were to be loaded.  `library` is
Surelog's library on disk, in which a deferred read leaves its units for a run of
any frontend that links.  The argument of `-U` is a name (`"-U"`) or, as its help
allows, a name with a definition (`"-U="`), which `remove()` compares as it is with
names and finds nowhere.

`SessionSettings` is the abstract specification of the two settings commands: a
stack of scopes of options and a set of symbols.  `FrontendSession` implements
it with `scopes <- Append(stack, defaults)` and `macros <- Elements(defines)`.

### `Elaboration`, `MCElaboration`, `Elaboration_proofs`

The input is any tree of instances that Surelog may deliver (`Sources`, with
`Consistent` and `IsTree` for what its elaboration guarantees).  A unit goes through the
phases `new`, `early` (typedefs and functions are visited, the name is being
computed), `body` (registered in `top_nodes`) and `left`.  `at` is the instance
the walk is in.  `current_top_node` is what new typedefs go to: `Register` sets it to
the module, keeps what it was in `saved` (the `ScopedValueChanger`), and `Leave` puts
that back; before a top module it is the package that `process_package` left there.  `Reuse` is the early
return of `process_module` for a name that is registered.  `VisitEnum` is
`process_enum_typespec` for an anonymous enum, with its lookups in the module
and in the unparametrized module and the precedence slip at line 2814.  `InScope` are
the nodes whose typedefs `setup_current_scope` finds when a module is simplified: its
own and the packages'.  `VariablesResolve` asks for a typedef there, but for two
cases in which the code does not see to it: what is met before a module below the
top is registered, and a hashed name with an unparametrized module beside it
(`MayUseOther`).

A name is a record of a definition, a form and the parameters: two names are
equal exactly if the strings of `derived_module_name` are (hash collisions are
excluded).  The order of visits inside an instance is left open, so every order
of declarations is covered.  Not modelled: interfaces, primitives, named types
(they stay in their module), and several `-top` options that make a module that
is also instantiated without parameters a top (its name would be taken twice).

### `LoopJumps`, `MCLoopJumps`, `LoopJumps_proofs`

`TransformLoop` is `transform_breaks_continues` on a small statement language:
effects, blocks, cases (with `AST_COND` items or others), nested loops, break
and continue.  A block is its first statement with the rest of the block as
`rest`, which is how the code goes through it: what follows a statement with a
jump is moved under `if (!$continue)` and transformed there (`Guarded`), what
follows a jump is deleted (`JumpAssignments`).  `walked` tells whether
`transform_block` is called for a block: it is not for the items behind the first
one with a jump nor for those of `casex` and `casez`, which then keep their jumps.
The registers made (`wires`) are `$continue` and `$break`; a nested loop has its
own.

What is recursive over blocks is a function of their height: `Written[d]` and
`Made[d]` are the blocks as written and as made, `TransformBlock[d]` transforms
the blocks of height `d`, and the transformed ones have at most three times the
height (`MadeHeight`).  The machine runs the loop as written and the loop as
transformed side by side with the same choices of case items; a register that
was never assigned may hold anything, so it starts set.

### `RunCommand`, `TestScripts_proofs`

The parent (`_handle_child_process`, then closing, killing and waiting), the
child and one process the child leaves behind, the pipes with their capacity,
and the clock.  Each system call is an action; `ready` holds the descriptors
one `select` returned that are still to be handled, in any order.  The command
is free: it writes, closes, forks and ends as it likes, or hangs.

### `FormalFlow`, `MCFormalFlow`, `TestScripts_proofs`

One `run.py` per test with the steps of `main()`, `run_eqy` and `log_result`,
which may die at any step; `make`, which ignores their exit codes; and
`gather_fv_results.sh` with `results.py`.  A log of eqy is the set of marks
`run_eqy` looks for.  `seen` is a history variable: what the last check showed.

### `WireObjects`, `Memories`, `MultirangeWire`, `MCMultirangeWire`, `MultirangeWire_proofs`

`WireObjects` is the node of a wire: `Variable`, `Port` and `Net` are the nodes the
handlers make of the up to three objects of one name, `AddOrReplace` what a node
takes over from the one it replaces.  `VisitVariables`, `VisitPorts` and
`VisitNets` are the loops of `process_module`, in its order.  `declared` is what
the source says, and how Surelog describes it; `Described` says which objects
have a typespec.

The wire is then converted as in `convert_packed_unpacked_range`: one action per range for `set_dimensions`, then
`Flatten` (the wire gets one range) or `KeepRanges` (it stays, or becomes a
memory).  A select is begun by `simplify_sv` and converted by `convert_range`,
one action per index: `elem` is the size of the element the index names,
`result` the bits selected so far.  `EndSelect` exchanges the bounds of an
ascending result as `synlig_simplify` does (`Annotated`).  Indices may be expressions in the code; the
model computes what the expression evaluates to.  A range given as one value, `[A]`,
which line 361 makes `[A:A]` (its comment at 354 has `{0}` and `{A}`), is left out.  `Selected`, `Legal` and
`DeclaredBits` are the language's: which selects it allows, and where it lays
an element out.  Not modelled: wires of a named type, for which `convert_range`
skips dimensions.

An array with one range of each kind stays a memory unless something accesses
it as a whole or by a slice.  `Memories` is that decision, `check_memories`: the
`module` of a wire is the sequence of declarations, accesses and `$readmemh`
calls the walk meets, each with the generate blocks, functions and blocks around
it.  `Visit` is one node of the walk, `Found` its search from the innermost
generate block outwards, `ForceConvert` the attribute `Converts` reads.
`Denotes` is the language's: the declaration a name stands for.  `ModuleNodes` are
the modules there are: a scope declares a name once, and `process_module` visits
declarations before what uses them, but the functions and tasks of the module
first of all.

### `StructMember`, `MCStructMember`, `StructMember_proofs`

`Simplify` and `Place` are `simplify_sv` and `simplify_struct`: they place the
members of a type from the last to the first, and once more for every struct
around it, from what the pass before left in the nodes.  `Enter` and `Finish`
are the iterations of `convert_dot`: each takes the ranges of one access
(`foo[1][2]`, then `.a[1][0]`, then `.b[1][2]`) and adds its offset, as
`traverse_dimensions` computes it.  `Layout` is the reference: it names every
bit of the type, from the most significant one.

What is recursive over types is a function of their height: `Declarations[d]` and
`Nodes[d]` are the types and nodes of height `d` or less, `Place[d]`, `Simplify[d]`
and `Layout[d]` are defined on them, and the declared types have a height of at most
`Height`.  `TypesAssumption` says that a type is a struct or union with one member at
least in each struct and that the ranges of an array of it are the wire's, which
`ArraysAssumption` gives: any numbers of ranges, with any bounds.

### `Statements`, `MCStatements`

A state holds a body as UHDM gives it (`source`), where it stands (`root`: an
`always`, `initial`, event control, function, continuous assignment, initial
values, a parameter) and the values its variables start with.  The one step
translates the body (`Translated`), runs the source by the meaning of the
language (`Exec`, `Meaning`) and the AST by that of Yosys (`Run`, `Value`).
`Process` is the dispatch to the `process_*` handlers of statements, `Walk` to
those of expressions; what a handler pushes into an ancestor is `pushed`, which
the closest list around takes (`ListOf`, `UnnamedWithVariables`, `ForBlock`,
`AlwaysBody`, ...).  All values are unsigned and have two states.

The translation does not keep every body, and `EffectsKept` says for which it
does.  The conjuncts of `Faithful` name the forms that are left out, all of them
found by a counterexample without the conjunct:

- a streaming operator or an assignment pattern that is not directly in a list:
  in a branch, a loop or the condition of a loop it is hoisted out and runs
  whatever is chosen, or once; in a block with variables and no name it runs
  before all statements (`Sheltered`; `uhdm_ast.cc:3988`, `4249`);
- the initial value of a variable with a streaming operator, whose block comes
  behind the assignment that reads it (`InList`);
- a `return` that is not the last thing to run, since it only assigns
  (`ReturnsLast`; line 4550);
- a stream whose slices do not fill its argument, or one in the argument of
  another, and a cast to fewer bits, since casts are dropped (`PlainValue`;
  lines 4093, 4003, 4171);
- an assignment pattern whose values read the field assigned before, since the
  second field is assigned first (line 4275);
- an item of `case inside` with two labels, or with a range that holds no value
  (lines 4500, 1551);
- initial values that read each other: those of `int` and enum variables are
  put in front of each other, so they run in reverse (line 1713);
- a pattern for a parameter with a `default` (line 4231).

For the items of `case inside` and the pattern for a parameter a comment of the code
says what should happen (section 3, other disagreements); for the other forms none does.

`++` and `--` stand alone here: the handler makes no difference between the
value before and the one after.  All assignments are blocking ones: the handler
makes `AST_ASSIGN_LE` of the others and does nothing else different, and the machine
has no scheduling regions.  `Implicit` moves the blocks of all streams of a statement
into the implicit block; the code moves the last one (line 3566) and leaves the ones
before it beside the block, where they run first, so the order is the same.  The
module is recursive over the tree and model-checked only.

### `ConstLiteral`, `MCConstLiteral`, `ConstLiteral_proofs`

A literal goes from its text to bits as `process_value` and `const2ast` take it:
digits of a base, decimals halved digit by digit, the extension to the width
with the digit that is on top.  The number a literal is written for is the
reference.  `LiteralsAssumption` and `NumbersAssumption` say what Surelog gives:
at least one digit, each a figure, x or z; one digit only to a literal without a
base; integers with a size that is not negative.  Functions defined on prefixes
(`Power`, `Numerals`, `Sums`) stand where a fold would, so that they can be proved
about.

Integers go from the 64 bits of Surelog to those of an int, as the code does it,
with no assumption on their value.  What `NumberKept` leaves out are the two kinds of
negative numbers that come out wrong: one whose constant has more bits than an int is
filled up with zeros (`ZeroExtended`; line 1798), as -1 with a size of 40 is, and one
below the least int is cut to 32 bits (`BelowInt`; line 1783 compares with the
greatest only), of which the property still says that the bits are those of the
number cut to the size.

### `Edif`, `MCEdif`, `Edif_proofs`

`write_edif` as one action per iteration of its loops: `Scan` of the modules,
`LibraryCell`, `Sort` (a round of it), and for each module `Output` and `Promote`
(which bit of an alias names the net), `Port`, `Cell`, `Net` and `Keep`.  `ask`
is the queue of identifiers the last output passes to `EdifNames`, which answers
them one at a time (`Name`).  `rep` is Yosys's `SigMap`.  The iteration order of
sets is left open.  The text, properties and port widths are left out.

## 3. Runs

| Run | Shows |
|---|---|
| `session` | two Surelog frontends and `read_uhdm` with sticky `-defer` and `-link` and a default `-defer`, over failing and half-applied commands: the settings lists implement `SessionSettings` (`SettingsAreScopes`); after `-U name`, without a definition, no define of that name is left (`UndefinedIsGone`); no visit starts from deleted nodes (`NoStaleTops`); a file read to be loaded is in the design or waits in the library, and none waits after a run that links (`NothingIsLost`) |
| `elaboration` | a cell names a module of its definition and parameters (`CellsAreFaithful`), every parameterization gets a module although repeated instances are skipped (`EveryModuleMade`), variables find the typedefs of their anonymous enums in the scope their module is simplified in, but for the two cases named (`VariablesResolve`) |
| `loop_jumps` | the transformed loop has the effects of the source (`EffectsAgree`), leaves with it (`LeaveTogether`) and has no jump left (`NoJumpLeft`), for bodies with at most one jump per case |
| `run_command` | a result that is no timeout holds all output (`OutputComplete`); with a timeout the call returns whatever the command does (`Returns`); without one no writer stays blocked (`FullPipesDrain`) and the call returns when no process is left (`ReturnsWhenAllEnded`) |
| `formal_flow` | success means that every listed test ran and showed what is expected (`HonestSuccess`), a recorded PASS was proved (`PassIsProved`), and there is always a verdict (`VerdictReached`) |
| `multirange` | the node made of the objects of a wire says what the declaration does (`WireAsDeclared`); for any two legal selects on any wire: they stay inside the flattened wire, also between two indices (`InsideWire`), share a bit exactly if they name a common element, slices of ascending ranges as far as they are wide enough (`SharedBitsAreShared`), and on a descending wire are the bits the language lays out (`BitsAsDeclared`); an array that several scopes use stays a memory exactly if its accesses allow it (`MemoriesAreIndexed`) |
| `struct_member` | a select with dots is the bits of the member, with constant and with variable indices (`SelectIsMember`); an access never leaves what the one before selected (`AccessesNarrow`); uneven unions are rejected, at any depth (`UnevenUnionsRejected`) |
| `const_literal` | literals of any base, width and digits: the halving of a decimal keeps its number (`HalvingKeepsNumber`), bits are those written, extended as the language says (`BitsAsWritten`), and a number that its constant has room for is kept on the way through Surelog's integers and int, but for the two kinds of negative ones (`NumberKept`) |
| `edif` | identifiers and EDIF names are one to one over the file (`OneNameEach`), modules come after what they instantiate and cycles are never written (`DefinedFirst`), a net is named after the wire that ranks best (`BestNameWins`) |
| `statements` | every operation, and hoisting statements in every place of nested choices, loops and blocks under every root: the AST computes what the source does (`EffectsKept`), but for the forms listed with the module |

Two runs end in a counterexample: a document or a comment of the repository says
what the property says, and the code does something else.

| Run | The repository says | The code |
|---|---|---|
| `undefine_doc` | `-Uname[=definition]` undefines the symbol (`uhdm_surelog_ast_frontend.cc:326`) | with a definition it removes nothing (`UndefinedAsDocumented`) |
| `two_jumps_doc` | each block of a case is transformed (`uhdm_ast.cc:1921`) | `has_jump \|\| transform_block(...)` stops at the first item with a jump (`NoJumpLeft`) |

Other disagreements between the code and what the repository says of it.  The models
do what the code does; a property that would say otherwise leaves the case out by
the condition named:

- `-formal` "defines FORMAL, undefines SYNTHESIS" (`uhdm_ast_shared.h:81`) and replaces
  the one by the other (`uhdm_common_frontend.cc:98`); nothing takes the other symbol
  out of the list, so a read with `-formal` after one without passes both
  (`WithModeMacro`; no property is about the mode symbols).
- `systemverilog_defaults -clear` empties the default options
  (`uhdm_surelog_ast_frontend.cc:264`); a default `-defer` stays set in a frontend that
  has seen it (`FlagsAtParse`).  `NothingIsLost` covers what that does to the design.
- The typedef of an enum in the unparametrized module is copied to the parametrized one
  (`uhdm_ast.cc:2806`); nothing copies it, and `setup_current_scope` does not bring it
  into scope (`VariablesResolve`: `MayUseOther`).
- "64 bit const values \[...\] should be handled above by vpi\*StrVal"
  (`uhdm_ast.cc:1791`); a negative one below the least int that comes as an integer loses
  its upper bits (`NumberKept`: `BelowInt`).
- An array that is accessed as a whole is converted (`uhdm_ast.cc:671`); not if the access
  is in a function or a task of the module (`MemoriesAreIndexed`: the same `Table`).
- Arrays have names of their own (the assertion at `uhdm_ast.cc:653`); blocks and tasks
  are no scopes to `check_memories`, so two local arrays of one name end the program
  (`MemoriesAreIndexed`: `clear`).
- Single labels of `case inside` are handled one by one (`uhdm_ast.cc:4495`); two of them
  are taken for the bounds of a range.  A range with its left bound above its right one
  contains no values (`uhdm_ast.cc:1580`); an item with such a range alone matches every
  value (`EffectsKept`: `Plain`).
- The values of a pattern for a parameter are placed in the right order
  (`uhdm_ast.cc:4229`); the value of `default` is put once behind all members
  (`EffectsKept`: `Plain`).
- FAIL means that the designs are not equivalent (`tests/formal/README.md:26`); a missing
  comma at `run.py:238` makes one string of `"TIMEOUT" "FAIL"`, so a check that timed out
  is recorded as FAIL (`EndingResults`; `HonestSuccess` is about success only).
- The results are those of the list at `tests/formal/README.md:24` and of `results.py:10`;
  SUSPECTED_PASS is in neither, and `results.py:92` raises before it prints (`Crashes`;
  to `VerdictReached` that is a verdict).

Other defects met while modelling, most of which no line of the repository speaks of:

- An anonymous enum in a typedef of a module that is not a top is put into the
  module around it (`uhdm_ast.cc:2921`), so a struct member may name a type that is
  not in scope (line 1531; `VariablesResolve` leaves these uses out).
- A negative integer with a size above 32 is filled up with zeros (line 1798;
  `NumberKept` leaves it out, `ZeroExtended`).
- A slice of an ascending range with elements of several bits becomes too few bits
  (line 505), against the comment at line 724, "to correct range".  It still shares
  bits with each element it names and with no other (`SharedBitsAreShared`).
- `process_array_var` does not look at the sign of the elements (line 2987), so an
  array of a signed type that is no net loses it (`WireAsDeclared` says so).
- Blocks, named or not, and tasks are no scopes to `check_memories`: a local array
  is also taken for one of the module (line 665).  A `$readmemh` in a generate block
  does not keep an array of the module (line 635).
- In `write_edif` a wire called `GND_NET`, one called `foo[3]` beside bit 3 of
  `foo`, or a net on x beside one on 0, gives two nets of one name (line 527).
- A `for` loop with a break runs on to the last value of its variable with its body
  skipped: declared outside, the variable ends with another value (line 1970).
- `anonymous_enums` is keyed by addresses of UHDM objects that are freed after each
  read (`uhdm_ast_shared.h:106`).
- An interface is registered once for all its instances, each of which replaces its
  ports and variables (line 3464); interfaces are visited before packages (2314).
- For a wire of a named type the dimensions to skip are derived from the number of
  indices of the select, not from the type (line 426).
- `wait3(0)` at `run_command.py:217` reaps any child; no caller has two.
- Test names that differ in `/`, `:` and spaces only share a work directory
  (`run.py:186`); none in the testlist do.

- `read_uhdm` never clears `top_nodes`; its second run starts from nodes that
  `execute()` has deleted (`ReadUhdm`, `last.stale`).
- `run_command.py:69` says `timed_out=False` when the pidfd is ready; a child
  that ended is reported as timed out while a process it left holds a pipe.
- `traverse_dimensions` exchanges the bounds of a slice of an ascending dimension
  that follows a variable index, after mirroring them: the width is 0 or less
  (`LastRange`; `SelectIsMember` excludes it).
- Ascending dimensions of a wire are addressed as descending ones, by
  `convert_range` and by `convert_dot`: selects agree with each other, but not
  with the value of the wire as a whole.
- `systemverilog_defines -reset` erases from `begin() + 1`: after `-U YOSYS` the
  element it keeps is a symbol of the user, and on an empty list the range is
  invalid (`ResetMacros` lets the process die).
- The comment at `uhdm_surelog_ast_frontend.cc:209` wants `SynthSubset` after
  `-link`; `shared.defer` stays set by the `-defer` that came before, so it is
  not called then.
- `transform_breaks_continues` looks at `AST_COND` items only; a jump in a
  `casex` or `casez` stays in the tree.
- An instance of a module with the attribute `blackbox` gets the plain name and
  a cell without parameters, so its parameters are lost.
- A `result.json` of an earlier regression is gathered with the new ones, so a
  test that is not in the suite any more counts as performed; hence
  `RegressionIsHonest` assumes a fresh build directory.
- A test that is not in the testlist and dies is missed: nothing expects it.

### Bounds

- `session`: two Surelog frontends and one file, so that one frontend may defer what the
  other links; a list of two defines, of which reads and the user make two equal
  neighbours; one default and one pushed list; two arguments to a command, the second
  of which may fail.  A sticky flag takes one command to set it and one to suffer from
  it.  The properties compare one list before and after a command or one flag with one
  run.  `-parse-only` and `-formal` are not among the options of the run, which they
  would make too large; the proofs, where `Options` is any set of the four, cover them.
- `undefine_doc`: one frontend without options, three defines, one argument.
- `elaboration`: five instances: two below the top, two below these, so that a
  skipped instance has something below it; definitions that recurse, repeat,
  are boxed or unknown; parameters with a short and a long name; one enum.  The
  properties concern one enum at a time; more would multiply the states only.
- `loop_jumps`: statements around each shape of a jump, of a height of six, two
  iterations of the loop and of the nested loop: a flag that is not cleared shows in
  the second iteration.
- `run_command`: two pipes of capacity two, three chunks, so that a writer can
  block, be drained and end with data unread.
- `formal_flow`: two tests, so that one may die or stay unlisted while the other
  succeeds, over every testlist and logs with none, one and two marks.
- `multirange`: wires with up to three ranges, so that one of each kind has another
  beside it; two elements in each of three ranges, up to three in each of two;
  bounds below, at and above 0; two selects, since the properties compare two;
  wires of one bit and arrays of it, described by every combination of objects.
- `struct_member`: members that are arrays in both directions, structs, arrays of
  structs in structs and unions, in each order of two; a struct three deep is
  placed three times, one more than it takes for a pass to read what another
  left.

- `multirange`, memories: paths with two generate blocks, a function, a block and
  both in a generate block; the array, another one of its name and one access
  anywhere, or the array and two accesses, one of which may come first.
- `statements`: four bits; every hoisting statement in each place, alone, in a
  block, in a block with variables, and one level further down; six and three
  values of the variables that matter; four turns of a `while`.
- `const_literal`: numbers, digits and widths on both sides of every boundary,
  with widths reduced so that a number can exceed them.
- `edif`: three modules with any relation between them, a box, an unmapped one
  and marked tops; one module with three wires under all alias classes that
  matter, with a constant, x and z among them; eight names to make up, more
  than any of the designs needs.

### Fairness

Safety runs use no fairness.  `RunCommand` assumes weak fairness of the parent
(it is one sequential process) and of the kernel's delivery of SIGKILL and of
the clock; of the command it assumes nothing in `Returns`.  `FormalFlow`
assumes that make runs every test (each tool is called with a timeout through
`run_command`) and that the gathering step is executed after them.

`CHECK_DEADLOCK FALSE` is set where a system really stops: the process ended,
the walk is over, the command returned, the verdict is there.

## 4. Proofs

All theorems hold for every value of the constants that the `ASSUME` of their
module admits.

- `FrontendSession_proofs`: `TypeCorrect` (`TypeOK`), `SessionInvariant` (types, `NoStaleTops`, and
  `CursorInv`), `RemoveIsComplete` (`UndefinedIsGone`; for arguments without a
  definition), `NothingStaysBehind` (`NothingIsLost`) and `SettingsRefinement`
  (`SettingsAreScopes`).  `UndefinedIsGone` is not
  inductive: the loop must be known to have passed no define of the name it
  removes, which is `CursorInv`.
- `Elaboration_proofs`: `TypeCorrect`, `FaithfulCells`, `ResolvedVariables` and
  `NoModuleIsMissing` (`EveryModuleMade`).
  The inductive invariant says that the walk is in one instance and all around
  it are in their bodies (`WalkInv`), a module stands under the name of the
  instance it was made from (`NamesInv`), a cell has the name of its instance
  (`CellsInv`), `current_top_node` and every value saved of it are what the nesting
  says (`TopInv`), typedefs are in modules there are or in the package
  (`NodesInv`), and the uses of every instance have their typedefs in one of its own
  nodes, registered or not (`UsesInv`).  `VariablesResolve` follows for a name that
  is not hashed because its second lookup is its first, and for a hashed one
  because without an unparametrized module no typedef is under that name.  `NamesTellModulesApart` then turns equal names into equal
  definitions and parameters; it needs that a top module is not instantiated
  without parameters.  That no module is missing needs `LeftInv` besides: all below
  an instance that became a module were left before it.  An instance without a
  module would have one around it without a module too, since equal instances have
  equal instances below them (`Consistent`); as no instance is below itself
  (`IsTree`), the topmost would be a top module, and those are all made.
- `LoopJumps_proofs`: for every program of every height, `SameEffects`
  (`EffectsAgree`) and `SameExit` (`LeaveTogether`) as long as no jump is left, and
  `JumpsLeft`: `NoJumpLeft` holds exactly if the program is `Removable`, that is,
  every case statement has jumps to the loop in one item at most, and that is an
  `AST_COND`; so for such programs all three hold (`TransformationIsRight`).
  `two_jumps_doc` shows the others.  The proof is by induction on the
  height; what is recursive is first shown to have the equation that defines it
  (`Recursion` and the lemmas behind it), and the transformation to give blocks of
  known height and registers (`TransformTyped`).  `Simulated` is the heart: before a
  block, both machines have executed the same and `$continue` is clear (`Ready`);
  behind it, again the same, the jump that is pending in the source is in the
  registers, and `$break` has changed only by a break (`Does`).  Of a loop it follows
  that the machines stay abreast from one iteration to the next (`Turn`): `$break` is
  set exactly if the source has left.  This is the inductive invariant of the
  specification (`LoopsAbreast`) and, inside the induction, the reason that a nested
  loop in the rest of a block has the same effects (`NestedAlike`).  That the
  condition `Removable` is exact rests on one fact about a case (`OneWalked`): the items up
  to the first one with a jump are walked, the others kept, so none keeps a jump
  exactly if one item at most has any.
- `TestScripts_proofs`, of `RunCommand`: `RunTypeCorrect` (`RunTypeOK`) and
  `NoOutputLost` (`OutputComplete`).  Of `FormalFlow`: `TypeCorrect` (`TypeOK`) and `RegressionIsHonest` (`HonestSuccess`), which assumes a
  fresh build directory; the invariant relates the position of each `run.py`,
  its result so far, its file, and what its last check showed.  `PassMeansProved`
  (`PassIsProved`) follows from the same invariant.
- `MultirangeWire_proofs`: `TypeCorrect`, `DeclarationKept` (`WireAsDeclared`),
  `SelectsInsideWire` (`InsideWire`) and `SharedBits` (`SharedBitsAreShared`), for
  wires with any number of ranges, in any direction and from any lowest index.
  `Building` says which node each visit has left, and with it `DeclarationKept`
  is a case analysis of the objects (`NodeAsDeclared`).  For the selects, the
  lowest index of each range has a place in `dimensions` (`DimensionsAreLow`), and
  there is a *layout* of the wire (`LaidOut`): the size `e[k]` of an element
  that `k` indices name, each a whole number of the next.  `dimensions` lists the
  ranges in another order than a select names them, so a layout of the ranges
  stored so far is made into one of one range more (`LayoutOfMore`), which is why
  the size of the wire need never be written as a product.  Every select is at the
  place its indices have in that layout (`Placed`, `StandsFor`).  Two selects with
  a common element lie in one another; without one they differ at a first index,
  from which on their bits stay in disjoint elements.
  `DeclaredLayout` (`BitsAsDeclared`) is from the same invariant: `DeclaredBits` counts elements; the elements to the right of one are
  mapped one to one onto the bits below its bit (`EveryBit`, `RightIsLower`), so
  the count is the bit (`BitCounts`).
  `MemoriesIndexed` (`MemoriesAreIndexed`) joins what was decided of the wire
  (`Judged`) to what the walk finds, which the first part is about: in every module
  whose wires are all arrays with a range of each kind and outside blocks, the walk
  does not stop, and an array is forced exactly if it is denoted by an access as a
  whole in its function and by no `$readmemh` of its own key (`Decided`).  The walk
  is a recursive function over the nodes, shown to exist node by node (`WalkExists`,
  `Walked`).  In such a module the path of a wire is its table or, without one, its
  scope (`WithoutBlocks`), so no two wires have one key (`KeysDiffer`) and the scopes
  searched from the innermost one outwards are the paths in which the language looks
  a name up (`FoundInnermost`, `FoundIsDenoted`, `DenotedIsFound`).
- `StructMember_proofs`: `SelectsMember` (`SelectIsMember`), `AccessesStayInside`
  (`AccessesNarrow`), `TypeCorrect` (`TypeOK`) and `UnionsChecked`
  (`UnevenUnionsRejected`), for types of any height, with ranges of any direction at
  every member, and any arrays of them.  `Versions` are the nodes a type may have:
  as made, or as any placing left them (ranges deleted, dimensions pushed, a range
  set), which is what makes placing a struct once more harmless; `Laid` are those
  whose members are where the layout has them.  By induction on the height,
  `simplify_struct` makes a laid one of any version (`Placing`) and so does
  `simplify_sv` (`Simplifying`); a union is compared with the sizes the layout gives
  (`WellPlaced`), which is `UnionsChecked`.  An even type leaves no gap
  (`FullTyped`), so a slice of whole elements is a run of bits (`SliceSelect`).  What
  an access selects is found range by range (`PrefixSelect`): the offset of the first
  `j` indices, in elements of `j` ranges less, is where the element they name lies.
  The invariant `IInv` follows a select: the bits so far begin where the path so far
  leads in the layout of the wire (`Reaches`), and what is in hand is laid out from
  there and inside of them (`Here`, `MemberReached`).  The path leads there only
  without ascending ranges of the wire (`Descend`) and without a slice behind a
  variable index; that accesses narrow needs neither condition, that a select is
  not empty only the second.
- `ConstLiteral_proofs`: `HalvingIsExact` (`HalvingKeepsNumber`), `LiteralsAreExact`
  (`BitsAsWritten`) and `NumbersAreKept` (`NumberKept`), for digits and bits of any
  length and any widths of the integers.  Its first part is arithmetic: recursive
  functions over a prefix exist and are unique (`Recursion`, `RecursionUpTo`),
  powers, quotients and remainders (`Division`, `PowerMultiple`), that one
  division halves the number of the digits (`HalvedNumber`), and that the bits of a
  number sum up to it and are those that `BitOf` finds (`BitsOfNumber`,
  `BitsOfValue`).  The invariant says of each loop what it has done: bits pushed
  and digits left make up the number (`HalvedInv`), or the digits left are the
  first ones and each of the others has become its bits (`ExpandedInv`).
  `HalvedInv` also covers decimals with a digit that is none, which leave the
  loop at once.  `NumbersAreKept` is about a number cut twice, to int and to the
  constant: remainders of remainders (`RemainderOfRemainder`), and a number that
  fits is the signed value of its remainder (`SignedOfResidue`, `IntIsKept`); where
  the constant is wider than int, its number is not negative (`PositiveBits`).
- `Edif_proofs`: `EdifNamesApart` (`OneNameEach`), for every design, every notion of
  a plain identifier and every way to make up names.  It is not inductive alone:
  `NamesInv` adds that plain names in use and made-up names are disjoint
  (`NamesKept`), that no two identifiers share a made-up name (`RenamedApart`), and
  that every past answer is the one that would be given again (`AnswersStand`).
  `ModulesDefinedFirst` (`DefinedFirst`) is for any designs of finitely many modules
  (`DesignsAreFinite`), with any instantiation relation.  What is sorted does not
  say what was read, nor where the writer stands: `SortInv` joins that all that has
  left the waiting modules is in the order, behind what it instantiates
  (`OrderInv`), that a module read has its library cells collected (`LibraryInv`)
  and that the writer is at a module of the order that is no box (`WriterInv`).
  `NetsTakeBestName` (`BestNameWins`) is for designs whose aliases are bits of the
  module (`DesignsAreTyped`).  Its invariant `RepInv` says of the bits visited so far
  that none outranks the one that stands for it; that a promotion keeps it is that
  ranks are ordered (`RanksAreOrdered`): a bit that beats the name of its net beats
  all that did not.

The library's theorems of induction take an operator as a parameter and cannot be
used; where a proof needs induction it is over a set of naturals, by the least
element outside of it (`Least`, `Induct`, from `WFMin`).

Only model-checked: all liveness (`Returns`, `FullPipesDrain`,
`ReturnsWhenAllEnded`, `VerdictReached`), and `Statements`, whose operators
are recursive over trees.  `IInv` of `StructMember` quantifies over the nodes of all
heights and is proved only; the layout of a type, and all that TLC compares with it,
is what the runs evaluate.

## 5. Not modelled

Surelog, UHDM, Yosys, eqy and sv2v are external: the models use what the code
here expects of them.  Handlers that copy fields (parameters, typespecs,
generate scopes, gates), formatting, logging and file
output have no property of their own.

`synlig_simplify.cc`, the largest file, is a copy of Yosys's simplifier with
changes.  The frontend calls `synlig_simplify` on ranges, wires, parameters, structs
and enums only (`uhdm_ast.cc:363`, `554`, `1093`, `1233`, `1545`, `2424` and the
lines around them), to make constants of their expressions; modules, statements and
generate blocks are left to Yosys's own simplifier.  What it does to the bounds of a select is `Annotated` in `MultirangeWire`.  Most of the file (unrolling,
generate blocks, `nosync`, memories, tasks) is never reached from here, so a model
of it would say nothing of the program, and the folding of constants it is called
for has no state.  The test runner only starts scripts of the
repository's tests, and the driver, the Python wrapper, the RTLIL printer and
`UniqueResource` have no state that outlives a call.

## 6. Plan

What is worth adding next:

1. `FvRunner`: the parallel scripts of the formal-verification handler of
   `test_runner`: generate, run, clean, summarise, with work directories that
   survive and processes that die.
2. `MultirangeWire` extended by wires of a named type (`resolve_wiretype` and the
   dimensions `convert_range` skips).
3. `Elaboration` extended by interfaces and by a second read with the enums of
   the first; composed with `FrontendSession` through `top_nodes`.
4. `Statements` with values that are signed or of four states.

Proofs: that `FormalFlow` implements an abstract verdict; `Statements` rewritten as
functions of the height, as `LoopJumps` and `StructMember` are, for the forms
that `Faithful` leaves.
