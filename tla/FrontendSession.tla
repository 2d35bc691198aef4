--------------------------- MODULE FrontendSession ---------------------------
(***************************************************************************)
(* One Synlig process executing commands: read_systemverilog and           *)
(* read_verilog_with_uhdm (the frontends that run Surelog), read_uhdm,     *)
(* systemverilog_defaults and systemverilog_defines.                       *)
(*                                                                         *)
(* Every frontend is one static object; its `shared` flags are set by the  *)
(* options of a command and never reset, so they outlive the command, also *)
(* when the command fails.  The defaults and the defines are globals of    *)
(* the process.  Commands run one after the other: each action below is a  *)
(* whole command, but systemverilog_defines, whose loop applies one        *)
(* argument at a time and may fail after applying some of them.            *)
(*                                                                         *)
(* Data is abstracted: a source file is a value that stands for the design *)
(* unit it holds, a preprocessor symbol is its name, and of the options    *)
(* only those are kept that change what a command does to later ones.      *)
(***************************************************************************)
EXTENDS Integers, Sequences, FiniteSets

CONSTANTS
    Options,       \* options of the read commands that set a flag of `shared`
    Surelogs,      \* the frontends that parse with Surelog
    Uhdm,          \* the frontend that restores a UHDM file
    Files,         \* the files a command can name
    NoFile,        \* the command names no readable file
    UserMacros,    \* symbols the user defines
    Interactive,   \* the commands come from the shell, not from a script
    MaxDefaults,   \* bound: length of a list of default options
    MaxDepth,      \* bound: length of the stack of pushed lists
    MaxDefines,    \* bound: length of the list of defines
    MaxArgs        \* bound: arguments of one systemverilog_defines command

ASSUME ConstantsAssumption ==
    /\ Options \subseteq {"-defer", "-link", "-parse-only", "-formal"}
    /\ Uhdm \notin Surelogs
    /\ NoFile \notin Files
    /\ Interactive \in BOOLEAN
    /\ {MaxDefaults, MaxDepth, MaxDefines, MaxArgs} \subseteq Nat

Frontends == Surelogs \cup {Uhdm}

\* "-defer" is the only default the frontend interprets itself.
DefaultOptions == {"-defer", "other"}

Macros == UserMacros \cup {"YOSYS", "SYNTHESIS", "FORMAL"}

\* One argument of systemverilog_defines: "-U" stands for -Uname and "-U=" for
\* -UYOSYS=definition, "extra" for any word that is no option.
DefinesArgs ==
    ({"-D"} \X UserMacros) \cup ({"-U"} \X Macros) \cup ({"-U=", "-reset", "extra"} \X {"YOSYS"})

SeqUpTo(S, n) == UNION {[1 .. k -> S] : k \in 0 .. n}

VARIABLES
    shared,    \* flags set so far in each frontend object
    defaults,  \* systemverilog_defaults
    stack,     \* systemverilog_defaults_stack
    defines,   \* systemverilog_defines
    todo,      \* arguments a running systemverilog_defines has still to apply
    cursor,    \* iterator of the loop of remove(), 1 when no loop runs
    tops,      \* shared.top_nodes of each frontend, between two commands
    library,   \* units compiled apart by Surelog, kept in its library on disk
    accepted,  \* history: files of the reads that succeeded and were to be loaded
    design,    \* units in the RTLIL design
    alive,     \* the process runs
    last       \* history: what the last command that read or failed did

settings == <<defaults, stack, defines, todo, cursor>>
vars == <<shared, settings, tops, library, accepted, design, alive, last>>

\* What the properties need of the last command that read or failed: its
\* frontend, the flags `linked` and `parseOnly` in effect, and as `stale` the
\* entries of top_nodes that were there when its visit began.
Nothing ==
    [fe |-> Uhdm, linked |-> FALSE, parseOnly |-> FALSE, stale |-> {}]

Init ==
    /\ shared = [fe \in Frontends |-> {}]
    /\ defaults = <<>>
    /\ stack = <<>>
    /\ defines = <<"YOSYS">>
    /\ todo = <<>>
    /\ cursor = 1
    /\ tops = [fe \in Frontends |-> {}]
    /\ library = {}
    /\ accepted = {}
    /\ design = {}
    /\ alive = TRUE
    /\ last = Nothing

Idle == alive /\ todo = <<>>

\* cmd_error: the shell catches the exception, a script run ends.
CommandError == alive' = Interactive

Elements(s) == {s[i] : i \in DOMAIN s}

------------------------------------------------------------------------------
(***************************************************************************)
(* Reading files                                                           *)
(***************************************************************************)

\* The flags are set while the options are walked, before extra_args looks
\* for the file; once a frontend has seen -link it skips extra_args.
BadRead(fe, opts, file) == file = NoFile /\ "-link" \notin shared[fe] \cup opts

ReadError(fe, opts, file) ==
    /\ Idle
    /\ BadRead(fe, opts, file)
    /\ shared' = [shared EXCEPT ![fe] = @ \cup opts]
    /\ last' = [Nothing EXCEPT !.fe = fe]
    /\ CommandError
    /\ UNCHANGED <<settings, tops, library, accepted, design>>

ModeMacro(flags) == IF "-formal" \in flags THEN "FORMAL" ELSE "SYNTHESIS"

WithModeMacro(list, flags) == Append(list, ModeMacro(flags))

\* Default options reach a run unless the command itself says -link.
DefersByDefault(opts) == "-link" \notin opts /\ "-defer" \in Elements(defaults)

FlagsAtParse(fe, opts) ==
    shared[fe] \cup opts \cup (IF DefersByDefault(opts) THEN {"-defer"} ELSE {})

\* Mutant: a deferred run that links is discarded too.
Discards_Deferred(flags) == {"-parse-only", "-defer"} \cap flags # {}

Discards(flags) ==
    \/ "-parse-only" \in flags
    \/ "-defer" \in flags /\ "-link" \notin flags

Named(file) == {file} \ {NoFile}

\* What Surelog compiles into its library and what it returns as the design.
CompiledApart(flags, file) == IF "-defer" \in flags THEN Named(file) ELSE {}
Elaborated(flags, file) == Named(file) \cup (IF "-link" \in flags THEN library ELSE {})

\* Mutant: top_nodes is not cleared.
TopsAfterVisit_Kept(fe, units) == units

\* Entries of top_nodes after the visit: parse() clears them.
TopsAfterVisit(fe, units) == {}

ReadSurelog(fe, opts, file) ==
    LET flags == FlagsAtParse(fe, opts)
        units == Elaborated(flags, file)
        pushed == WithModeMacro(defines, shared[fe] \cup opts)
    IN  /\ Idle
        /\ ~BadRead(fe, opts, file)
        /\ Len(defines) < MaxDefines
        /\ shared' = [shared EXCEPT ![fe] = flags]
        /\ defines' = pushed
        /\ library' = library \cup CompiledApart(flags, file)
        /\ accepted' = accepted \cup (IF "-parse-only" \in flags THEN {} ELSE Named(file))
        /\ IF Discards(flags)
           THEN UNCHANGED <<tops, design>>
           ELSE /\ tops' = [tops EXCEPT ![fe] = TopsAfterVisit(fe, @ \cup units)]
                /\ design' = design \cup units
        /\ last' = [fe |-> fe,
                    linked |-> "-link" \in flags,
                    parseOnly |-> "-parse-only" \in flags,
                    stale |-> IF Discards(flags) THEN {} ELSE tops[fe]]
        /\ UNCHANGED <<defaults, stack, todo, cursor, alive>>

\* read_uhdm has no Surelog run and no discarding; it does not clear top_nodes.
\* With -link the file name stays empty and the restore fails: ReadFatal.
ReadUhdm(opts, file) ==
    /\ Idle
    /\ file # NoFile
    /\ "-link" \notin shared[Uhdm] \cup opts
    /\ shared' = [shared EXCEPT ![Uhdm] = @ \cup opts]
    /\ tops' = [tops EXCEPT ![Uhdm] = @ \cup {file}]
    /\ design' = design \cup {file}
    /\ accepted' = accepted \cup {file}
    /\ last' = [Nothing EXCEPT !.stale = tops[Uhdm]]
    /\ UNCHANGED <<settings, library, alive>>

\* Surelog reports errors, or the visit meets something it cannot translate:
\* log_error ends the process, in the shell too.
ReadFatal(fe, opts, file) ==
    /\ Idle
    /\ ~BadRead(fe, opts, file)
    /\ alive' = FALSE
    /\ UNCHANGED <<shared, settings, tops, library, accepted, design, last>>

------------------------------------------------------------------------------
(***************************************************************************)
(* systemverilog_defaults                                                  *)
(***************************************************************************)

AddDefaults(options) ==
    /\ Idle
    /\ Len(defaults) + Len(options) <= MaxDefaults
    /\ defaults' = defaults \o options
    /\ UNCHANGED <<shared, stack, defines, todo, cursor, tops, library, accepted, design, alive, last>>

ClearDefaults ==
    /\ Idle
    /\ defaults' = <<>>
    /\ UNCHANGED <<shared, stack, defines, todo, cursor, tops, library, accepted, design, alive, last>>

\* Mutant: the list is spliced into the stack.
PushDefaults_Spliced ==
    /\ Idle
    /\ Len(stack) < MaxDepth
    /\ stack' = stack \o defaults
    /\ UNCHANGED <<shared, defaults, defines, todo, cursor, tops, library, accepted, design, alive, last>>

PushDefaults ==
    /\ Idle
    /\ Len(stack) < MaxDepth
    /\ stack' = Append(stack, defaults)
    /\ UNCHANGED <<shared, defaults, defines, todo, cursor, tops, library, accepted, design, alive, last>>

\* Mutant: the stack is popped, the list in effect stays.
PopDefaults_NoSwap ==
    /\ Idle
    /\ IF stack = <<>>
       THEN defaults' = <<>> /\ UNCHANGED stack
       ELSE stack' = SubSeq(stack, 1, Len(stack) - 1) /\ UNCHANGED defaults
    /\ UNCHANGED <<shared, defines, todo, cursor, tops, library, accepted, design, alive, last>>

\* Popping an empty stack clears the list in effect.
PopDefaults ==
    /\ Idle
    /\ IF stack = <<>>
       THEN /\ defaults' = <<>>
            /\ UNCHANGED stack
       ELSE /\ defaults' = stack[Len(stack)]
            /\ stack' = SubSeq(stack, 1, Len(stack) - 1)
    /\ UNCHANGED <<shared, defines, todo, cursor, tops, library, accepted, design, alive, last>>

\* No argument, or a word after one of -clear, -push, -pop.
DefaultsError ==
    /\ Idle
    /\ last' = Nothing
    /\ CommandError
    /\ UNCHANGED <<shared, settings, tops, library, accepted, design>>

------------------------------------------------------------------------------
(***************************************************************************)
(* systemverilog_defines: one step per argument                            *)
(***************************************************************************)

BeginDefines(args) ==
    /\ Idle
    /\ todo' = args
    /\ UNCHANGED <<shared, defaults, stack, defines, cursor, tops, library, accepted, design, alive, last>>

NextArg(word) == alive /\ todo # <<>> /\ Head(todo)[1] = word

\* erase(begin() + 1, end())
ResetList(list) == SubSeq(list, 1, 1)

DefineMacro ==
    /\ NextArg("-D")
    /\ Len(defines) < MaxDefines
    /\ defines' = Append(defines, Head(todo)[2])
    /\ todo' = Tail(todo)
    /\ UNCHANGED <<shared, defaults, stack, cursor, tops, library, accepted, design, alive, last>>

Erased(list, i) == SubSeq(list, 1, i - 1) \o SubSeq(list, i + 1, Len(list))

Removing == NextArg("-U") \/ NextArg("-U=")

\* remove() gets the whole argument and cuts only the defines at their '=': an
\* argument with a definition is the name of no define.
Removes(arg, name) == arg = <<"-U", name>>

\* Mutant: the iterator moves on after an erase.
RemoveStep_Skips ==
    /\ Removing
    /\ cursor <= Len(defines)
    /\ cursor' = cursor + 1
    /\ defines' = IF Removes(Head(todo), defines[cursor]) THEN Erased(defines, cursor) ELSE defines
    /\ UNCHANGED <<shared, defaults, stack, todo, tops, library, accepted, design, alive, last>>

\* One iteration of the loop of remove(): after an erase the iterator stays
\* where it is, on the element that moved there.
RemoveStep ==
    /\ Removing
    /\ cursor <= Len(defines)
    /\ IF Removes(Head(todo), defines[cursor])
       THEN /\ defines' = Erased(defines, cursor)
            /\ UNCHANGED cursor
       ELSE /\ cursor' = cursor + 1
            /\ UNCHANGED defines
    /\ UNCHANGED <<shared, defaults, stack, todo, tops, library, accepted, design, alive, last>>

RemoveDone ==
    /\ Removing
    /\ cursor > Len(defines)
    /\ todo' = Tail(todo)
    /\ cursor' = 1
    /\ UNCHANGED <<shared, defaults, stack, defines, tops, library, accepted, design, alive, last>>

\* On an empty list begin() + 1 lies behind end(): erase runs off the
\* storage and the process dies.
ResetMacros ==
    /\ NextArg("-reset")
    /\ IF defines = <<>>
       THEN /\ alive' = FALSE
            /\ UNCHANGED <<defines, todo>>
       ELSE /\ defines' = ResetList(defines)
            /\ todo' = Tail(todo)
            /\ UNCHANGED alive
    /\ UNCHANGED <<shared, defaults, stack, cursor, tops, library, accepted, design, last>>

\* Arguments already applied stay applied.
DefinesError ==
    /\ NextArg("extra")
    /\ todo' = <<>>
    /\ last' = Nothing
    /\ CommandError
    /\ UNCHANGED <<shared, defaults, stack, defines, cursor, tops, library, accepted, design>>

------------------------------------------------------------------------------
Read ==
    \E opts \in SUBSET Options, file \in Files \cup {NoFile} :
        \/ \E fe \in Frontends : ReadError(fe, opts, file) \/ ReadFatal(fe, opts, file)
        \/ \E fe \in Surelogs : ReadSurelog(fe, opts, file)
        \/ ReadUhdm(opts, file)

Defaults ==
    \/ \E options \in SeqUpTo(DefaultOptions, MaxDefaults) : AddDefaults(options)
    \/ ClearDefaults
    \/ PushDefaults
    \/ PopDefaults
    \/ DefaultsError

Defines ==
    \/ \E args \in SeqUpTo(DefinesArgs, MaxArgs) : BeginDefines(args)
    \/ DefineMacro
    \/ RemoveStep
    \/ RemoveDone
    \/ ResetMacros
    \/ DefinesError

Next == Read \/ Defaults \/ Defines

Spec == Init /\ [][Next]_vars

------------------------------------------------------------------------------
TypeOK ==
    /\ shared \in [Frontends -> SUBSET (Options \cup {"-defer"})]
    /\ defaults \in Seq(DefaultOptions)
    /\ stack \in Seq(Seq(DefaultOptions))
    /\ defines \in Seq(Macros)
    /\ todo \in Seq(DefinesArgs)
    /\ cursor \in Nat \ {0}
    /\ tops \in [Frontends -> SUBSET Files]
    /\ library \subseteq Files
    /\ accepted \subseteq Files
    /\ design \subseteq Files
    /\ alive \in BOOLEAN
    /\ last \in [fe : Frontends, linked : BOOLEAN, parseOnly : BOOLEAN, stale : SUBSET Files]

\* The lists behind systemverilog_defaults and systemverilog_defines behave as
\* nested scopes of options and as one set of symbols, whatever commands run
\* between, fail, or apply only some of their arguments: a pop brings back the
\* options of the enclosing scope, and no read but by its own mode symbol, and
\* no reset, defines a symbol.
Settings == INSTANCE SessionSettings
              WITH scopes <- Append(stack, defaults), macros <- Elements(defines)
SettingsAreScopes == Settings!Spec

\* The loop of remove() stays within the list, has passed no define of the name
\* it removes, and starts from the beginning for every argument.
CursorInv ==
    /\ cursor <= Len(defines) + 1
    /\ cursor > 1 => todo # <<>> /\ Head(todo)[1] \in {"-U", "-U="}
    /\ \A i \in 1 .. cursor - 1 : ~Removes(Head(todo), defines[i])

\* When `systemverilog_defines -U name`, without a definition, has been applied
\* no define of that name is left, duplicates that reads and the user
\* accumulated included.
UndefinedIsGone ==
    [][NextArg("-U") /\ todo' # todo => Head(todo)[2] \notin Elements(defines')]_vars

\* What the help of systemverilog_defines says of -Uname[=definition]: it
\* undefines the symbol, with a definition or without.  It does not with one.
UndefinedAsDocumented ==
    [][Removing /\ todo' # todo => Head(todo)[2] \notin Elements(defines')]_vars

\* A file that was read with success and to be loaded is in the design or in
\* Surelog's library, and after a run that links, of whichever frontend, all of
\* them are in the design: not one stays behind that was deferred by a flag of
\* a command that failed or of a default option that is gone.  The flag
\* -parse-only, also when an earlier command of the frontend set it, says that
\* a file is not to be loaded.
NothingIsLost ==
    /\ accepted \subseteq library \cup design
    /\ last.linked /\ ~last.parseOnly => accepted \subseteq design

\* No visit of a Surelog frontend starts from top_nodes of a former command,
\* whose nodes execute() deleted with the AST: not after a command that
\* failed, one that discarded its result, nor one of another frontend.
NoStaleTops ==
    /\ \A fe \in Surelogs : tops[fe] = {}
    /\ last.fe \in Surelogs => last.stale = {}

=============================================================================
