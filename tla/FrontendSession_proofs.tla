----------------------- MODULE FrontendSession_proofs -----------------------
(***************************************************************************)
(* Proofs about FrontendSession, for every set of frontends, files and     *)
(* symbols and every value of the bounds.                                  *)
(***************************************************************************)
EXTENDS FrontendSession, SequenceTheorems, TLAPS

IInv == TypeOK /\ CursorInv /\ NoStaleTops

\* Erasing one element shortens the list by one and leaves what was before it.
LEMMA ErasedProperties ==
    ASSUME NEW S, NEW list \in Seq(S), NEW i \in 1 .. Len(list)
    PROVE  /\ Erased(list, i) \in Seq(S)
           /\ Len(Erased(list, i)) = Len(list) - 1
           /\ \A j \in 1 .. i - 1 : Erased(list, i)[j] = list[j]
           /\ \A j \in i .. Len(list) - 1 : Erased(list, i)[j] = list[j + 1]
PROOF
<1> DEFINE before == SubSeq(list, 1, i - 1)
           after == SubSeq(list, i + 1, Len(list))
<1>1. Len(list) \in Nat /\ \A j \in 1 .. Len(list) : list[j] \in S
  BY LenProperties, ElementOfSeq
<1>2. /\ before \in Seq(S)
      /\ Len(before) = i - 1
      /\ \A j \in 1 .. i - 1 : before[j] = list[j]
  <2>1. 1 \in Int /\ i - 1 \in Int /\ \A j \in 1 .. i - 1 : list[j] \in S
    BY <1>1
  <2> HIDE DEF before
  <2>2. /\ before \in Seq(S)
        /\ Len(before) = IF 1 <= i - 1 THEN i - 1 - 1 + 1 ELSE 0
        /\ \A j \in 1 .. i - 1 - 1 + 1 : before[j] = list[1 + j - 1]
    BY <2>1, SubSeqProperties DEF before
  <2> QED
    BY <2>2, <1>1
<1>3. /\ after \in Seq(S)
      /\ Len(after) = Len(list) - i
      /\ \A j \in 1 .. Len(list) - i : after[j] = list[i + j]
  <2>1. i + 1 \in Int /\ Len(list) \in Int /\ \A j \in i + 1 .. Len(list) : list[j] \in S
    BY <1>1
  <2> HIDE DEF after
  <2>2. /\ after \in Seq(S)
        /\ Len(after) = IF i + 1 <= Len(list) THEN Len(list) - (i + 1) + 1 ELSE 0
        /\ \A j \in 1 .. Len(list) - (i + 1) + 1 : after[j] = list[i + 1 + j - 1]
    BY <2>1, SubSeqProperties DEF after
  <2> QED
    BY <2>2, <1>1
<1> HIDE DEF before, after
<1>4. Erased(list, i) = before \o after
  BY DEF Erased, before, after
<1>5. /\ before \o after \in Seq(S)
      /\ Len(before \o after) = Len(before) + Len(after)
      /\ \A j \in 1 .. Len(before) + Len(after) :
            (before \o after)[j] = IF j <= Len(before) THEN before[j] ELSE after[j - Len(before)]
  BY <1>2, <1>3, ConcatProperties
<1>6. Len(before \o after) = Len(list) - 1
  BY <1>1, <1>2, <1>3, <1>5
<1>7. \A j \in 1 .. i - 1 : (before \o after)[j] = list[j]
  <2> TAKE j \in 1 .. i - 1
  <2>1. j \in 1 .. Len(before) + Len(after) /\ j <= Len(before)
    BY <1>1, <1>2, <1>3
  <2> QED
    BY <2>1, <1>2, <1>5
<1>8. \A j \in i .. Len(list) - 1 : (before \o after)[j] = list[j + 1]
  <2> TAKE j \in i .. Len(list) - 1
  <2>1. /\ j \in 1 .. Len(before) + Len(after)
        /\ ~(j <= Len(before))
        /\ j - Len(before) \in 1 .. Len(list) - i
    BY <1>1, <1>2, <1>3
  <2>2. (before \o after)[j] = after[j - Len(before)]
    BY <2>1, <1>5
  <2>3. i + (j - Len(before)) = j + 1
    BY <1>1, <1>2
  <2> QED
    BY <2>1, <2>2, <2>3, <1>3
<1> QED
  BY <1>4, <1>5, <1>6, <1>7, <1>8

\* What a reset keeps is a list of symbols.
LEMMA ResetListType ==
    ASSUME NEW S, NEW list \in Seq(S), list # <<>>
    PROVE  /\ ResetList(list) \in Seq(S)
           /\ Len(ResetList(list)) = 1
           /\ ResetList(list)[1] = list[1]
PROOF
<1>1. Len(list) \in Nat \ {0} /\ \A j \in 1 .. Len(list) : list[j] \in S
  BY EmptySeq, ElementOfSeq
<1>2. 1 \in Int /\ \A j \in 1 .. 1 : list[j] \in S
  BY <1>1
<1> DEFINE first == SubSeq(list, 1, 1)
<1> HIDE DEF first
<1>3. /\ first \in Seq(S)
      /\ Len(first) = IF 1 <= 1 THEN 1 - 1 + 1 ELSE 0
      /\ \A j \in 1 .. 1 - 1 + 1 : first[j] = list[1 + j - 1]
  BY <1>2, SubSeqProperties DEF first
<1> QED
  BY <1>3 DEF ResetList, first

LEMMA ElementsType ==
    ASSUME NEW S, NEW list \in Seq(S)
    PROVE  Elements(list) \subseteq S
PROOF
  BY LenProperties, ElementOfSeq DEF Elements

LEMMA SeqUpToType ==
    ASSUME NEW S, NEW n \in Nat, NEW list \in SeqUpTo(S, n)
    PROVE  list \in Seq(S)
PROOF
  BY DEF SeqUpTo

------------------------------------------------------------------------------
LEMMA InitIInv == Init => IInv
PROOF
<1> SUFFICES ASSUME Init PROVE IInv
  OBVIOUS
<1>1. defines \in Seq(Macros) /\ Len(defines) = 1
  <2>1. "YOSYS" \in Macros
    BY DEF Macros
  <2> QED
    BY <2>1 DEF Init
<1>2. <<>> \in Seq(DefaultOptions) /\ <<>> \in Seq(Seq(DefaultOptions)) /\ <<>> \in Seq(DefinesArgs)
  BY EmptySeq
<1>3. TypeOK
  BY <1>1, <1>2 DEF Init, TypeOK, Nothing, Frontends
<1>4. CursorInv
  BY <1>1 DEF Init, CursorInv
<1>5. NoStaleTops
  BY DEF Init, NoStaleTops, Nothing, Frontends
<1> QED
  BY <1>3, <1>4, <1>5 DEF IInv

LEMMA ReadErrorStep ==
    ASSUME IInv, NEW fe \in Frontends, NEW opts \in SUBSET Options, NEW file,
           ReadError(fe, opts, file)
    PROVE  IInv'
PROOF
<1> USE DEF IInv
<1>1. TypeOK'
  <2>1. shared' \in [Frontends -> SUBSET (Options \cup {"-defer"})]
    BY DEF ReadError, TypeOK
  <2>2. last' \in [fe : Frontends, linked : BOOLEAN, parseOnly : BOOLEAN, stale : SUBSET Files]
    BY DEF ReadError, Nothing
  <2>3. alive' \in BOOLEAN
    BY ConstantsAssumption DEF ReadError, CommandError
  <2> QED
    BY <2>1, <2>2, <2>3 DEF ReadError, TypeOK, settings
<1>2. CursorInv'
  BY DEF ReadError, CursorInv, settings
<1>3. NoStaleTops'
  BY DEF ReadError, NoStaleTops, Nothing
<1> QED
  BY <1>1, <1>2, <1>3

LEMMA ReadSurelogStep ==
    ASSUME IInv, NEW fe \in Surelogs, NEW opts \in SUBSET Options,
           NEW file \in Files \cup {NoFile}, ReadSurelog(fe, opts, file)
    PROVE  IInv'
PROOF
<1> USE DEF IInv
<1> DEFINE flags == FlagsAtParse(fe, opts)
           units == Elaborated(flags, file)
           pushed == WithModeMacro(defines, shared[fe] \cup opts)
<1>1. fe \in Frontends /\ flags \in SUBSET (Options \cup {"-defer"})
  BY DEF Frontends, FlagsAtParse, TypeOK
<1>2. pushed \in Seq(Macros) /\ Len(pushed) = Len(defines) + 1
      /\ \A i \in 1 .. Len(defines) : pushed[i] = defines[i]
  <2>1. ModeMacro(shared[fe] \cup opts) \in Macros
    BY DEF ModeMacro, Macros
  <2> QED
    BY <2>1, AppendProperties DEF TypeOK, WithModeMacro
<1>3. {units, CompiledApart(flags, file), Named(file)} \subseteq SUBSET Files
  BY ConstantsAssumption DEF Elaborated, CompiledApart, Named, TypeOK
<1> HIDE DEF flags, units, pushed
<1>5. tops[fe] \in SUBSET Files
  BY <1>1 DEF TypeOK
<1>6. /\ shared' = [shared EXCEPT ![fe] = flags]
      /\ defines' = pushed
      /\ library' = library \cup CompiledApart(flags, file)
      /\ accepted' \subseteq accepted \cup Named(file)
      /\ \/ tops' = tops /\ design' = design
         \/ tops' = [tops EXCEPT ![fe] = {}] /\ design' = design \cup units
      /\ UNCHANGED <<defaults, stack, todo, cursor, alive>>
  BY DEF ReadSurelog, flags, units, pushed, TopsAfterVisit
<1>7. last' = [fe |-> fe,
               linked |-> "-link" \in flags,
               parseOnly |-> "-parse-only" \in flags,
               stale |-> IF Discards(flags) THEN {} ELSE tops[fe]]
  BY DEF ReadSurelog, flags, pushed
<1>8. TypeOK'
  <2>1. last' \in [fe : Frontends, linked : BOOLEAN, parseOnly : BOOLEAN, stale : SUBSET Files]
    BY <1>1, <1>5, <1>7
  <2> QED
    BY <2>1, <1>1, <1>2, <1>3, <1>6 DEF TypeOK
<1>9. CursorInv'
  <2>1. Len(defines) \in Nat /\ cursor \in Nat \ {0} /\ cursor' = cursor /\ todo' = todo
    BY <1>6, LenProperties DEF TypeOK
  <2>2. \A i \in 1 .. cursor - 1 : pushed[i] = defines[i]
    BY <2>1, <1>2 DEF CursorInv
  <2> QED
    BY <2>1, <2>2, <1>2, <1>6 DEF CursorInv
<1>10. NoStaleTops'
  <2>1. tops[fe] = {} /\ \A g \in Surelogs : tops'[g] = {}
    BY <1>6 DEF NoStaleTops, TypeOK, Frontends
  <2>2. last'.stale = {}
    BY <2>1, <1>7
  <2> QED
    BY <2>1, <2>2 DEF NoStaleTops
<1> QED
  BY <1>8, <1>9, <1>10

LEMMA ReadUhdmStep ==
    ASSUME IInv, NEW opts \in SUBSET Options, NEW file \in Files \cup {NoFile},
           ReadUhdm(opts, file)
    PROVE  IInv'
PROOF
<1> USE DEF IInv
<1>1. Uhdm \in Frontends /\ Uhdm \notin Surelogs /\ file \in Files
  BY ConstantsAssumption DEF Frontends, ReadUhdm
<1>2. TypeOK'
  <2>1. last' \in [fe : Frontends, linked : BOOLEAN, parseOnly : BOOLEAN, stale : SUBSET Files]
    <3>1. tops[Uhdm] \in SUBSET Files
      BY <1>1 DEF TypeOK
    <3>2. last' = [fe |-> Uhdm, linked |-> FALSE, parseOnly |-> FALSE, stale |-> tops[Uhdm]]
      BY DEF ReadUhdm, Nothing
    <3> QED
      BY <1>1, <3>1, <3>2
  <2>2. shared' \in [Frontends -> SUBSET (Options \cup {"-defer"})]
    BY <1>1 DEF ReadUhdm, TypeOK
  <2>3. tops' \in [Frontends -> SUBSET Files]
    BY <1>1 DEF ReadUhdm, TypeOK
  <2> QED
    BY <1>1, <2>1, <2>2, <2>3 DEF ReadUhdm, TypeOK, settings
<1>3. CursorInv'
  BY DEF ReadUhdm, CursorInv, settings
<1>4. NoStaleTops'
  BY <1>1 DEF ReadUhdm, NoStaleTops, Nothing, TypeOK, Frontends
<1> QED
  BY <1>2, <1>3, <1>4

LEMMA ReadFatalStep ==
    ASSUME IInv, NEW fe, NEW opts, NEW file, ReadFatal(fe, opts, file)
    PROVE  IInv'
PROOF
  BY DEF IInv, TypeOK, CursorInv, NoStaleTops, ReadFatal, settings

LEMMA DefaultsStep ==
    ASSUME IInv, Defaults
    PROVE  IInv'
PROOF
<1> USE DEF IInv
<1>1. ASSUME NEW options \in SeqUpTo(DefaultOptions, MaxDefaults), AddDefaults(options)
      PROVE  IInv'
  <2>1. options \in Seq(DefaultOptions)
    BY SeqUpToType, ConstantsAssumption
  <2>2. defaults \o options \in Seq(DefaultOptions)
    BY <2>1, ConcatProperties DEF TypeOK
  <2> QED
    BY <1>1, <2>2 DEF AddDefaults, TypeOK, CursorInv, NoStaleTops
<1>2. CASE ClearDefaults
  BY <1>2, EmptySeq DEF ClearDefaults, TypeOK, CursorInv, NoStaleTops
<1>3. CASE PushDefaults
  <2>1. Append(stack, defaults) \in Seq(Seq(DefaultOptions))
    BY AppendProperties DEF TypeOK
  <2> QED
    BY <1>3, <2>1 DEF PushDefaults, TypeOK, CursorInv, NoStaleTops
<1>4. CASE PopDefaults
  <2>1. defaults' \in Seq(DefaultOptions) /\ stack' \in Seq(Seq(DefaultOptions))
    <3>1. CASE stack = <<>>
      BY <1>4, <3>1, EmptySeq DEF PopDefaults, TypeOK
    <3>2. CASE stack # <<>>
      <4>1. Len(stack) \in 1 .. Len(stack) /\ \A i \in 1 .. Len(stack) : stack[i] \in Seq(DefaultOptions)
        BY <3>2, EmptySeq, ElementOfSeq DEF TypeOK
      <4>2. SubSeq(stack, 1, Len(stack) - 1) \in Seq(Seq(DefaultOptions))
        BY <4>1, SubSeqProperties
      <4> QED
        BY <1>4, <3>2, <4>1, <4>2 DEF PopDefaults
    <3> QED
      BY <3>1, <3>2
  <2> QED
    BY <1>4, <2>1 DEF PopDefaults, TypeOK, CursorInv, NoStaleTops
<1>5. CASE DefaultsError
  <2>1. last' \in [fe : Frontends, linked : BOOLEAN, parseOnly : BOOLEAN, stale : SUBSET Files]
    BY <1>5 DEF DefaultsError, Nothing, Frontends
  <2>2. alive' \in BOOLEAN
    BY <1>5, ConstantsAssumption DEF DefaultsError, CommandError
  <2> QED
    BY <1>5, <2>1, <2>2, ConstantsAssumption
       DEF DefaultsError, Nothing, settings, TypeOK, CursorInv, NoStaleTops
<1> QED
  BY <1>1, <1>2, <1>3, <1>4, <1>5 DEF Defaults

LEMMA DefinesStep ==
    ASSUME IInv, Defines
    PROVE  IInv'
PROOF
<1> USE DEF IInv
<1>1. Len(defines) \in Nat /\ \A i \in 1 .. Len(defines) : defines[i] \in Macros
  BY LenProperties, ElementOfSeq DEF TypeOK
<1>2. ASSUME todo # <<>>
      PROVE  /\ Tail(todo) \in Seq(DefinesArgs)
             /\ Head(todo) \in DefinesArgs
             /\ Len(todo) \in Nat \ {0}
  BY <1>2, HeadTailProperties, EmptySeq DEF TypeOK
<1>3. ASSUME NEW args \in SeqUpTo(DefinesArgs, MaxArgs), BeginDefines(args)
      PROVE  IInv'
  <2>1. args \in Seq(DefinesArgs)
    BY SeqUpToType, ConstantsAssumption
  <2>2. cursor = 1
    BY <1>3 DEF BeginDefines, Idle, CursorInv, TypeOK
  <2> QED
    BY <1>1, <1>3, <2>1, <2>2 DEF BeginDefines, TypeOK, CursorInv, NoStaleTops
<1>4. CASE DefineMacro
  <2>1. todo # <<>> /\ Head(todo)[1] = "-D" /\ cursor = 1
    BY <1>4 DEF DefineMacro, NextArg, CursorInv, TypeOK
  <2>2. Head(todo)[2] \in Macros
    BY <1>2, <2>1 DEF DefinesArgs, Macros
  <2>3. /\ Append(defines, Head(todo)[2]) \in Seq(Macros)
        /\ Len(Append(defines, Head(todo)[2])) = Len(defines) + 1
    BY <2>2, AppendProperties DEF TypeOK
  <2> QED
    BY <1>1, <1>2, <1>4, <2>1, <2>3 DEF DefineMacro, TypeOK, CursorInv, NoStaleTops
<1>5. CASE RemoveStep
  <2>1. CASE Removes(Head(todo), defines[cursor])
    <3>1. cursor \in 1 .. Len(defines)
      BY <1>1, <1>5 DEF RemoveStep, TypeOK
    <3>2. /\ Erased(defines, cursor) \in Seq(Macros)
          /\ Len(Erased(defines, cursor)) = Len(defines) - 1
          /\ \A j \in 1 .. cursor - 1 : Erased(defines, cursor)[j] = defines[j]
      <4>1. defines \in Seq(Macros)
        BY DEF TypeOK
      <4> QED
        BY <3>1, <4>1, ErasedProperties
    <3> QED
      BY <1>1, <1>5, <2>1, <3>1, <3>2 DEF RemoveStep, Removing, NextArg, TypeOK, CursorInv, NoStaleTops
  <2>2. CASE ~Removes(Head(todo), defines[cursor])
    BY <1>1, <1>5, <2>2 DEF RemoveStep, Removing, NextArg, TypeOK, CursorInv, NoStaleTops
  <2> QED
    BY <2>1, <2>2
<1>6. CASE RemoveDone
  BY <1>1, <1>2, <1>6 DEF RemoveDone, Removing, NextArg, TypeOK, CursorInv, NoStaleTops
<1>7. CASE ResetMacros
  <2>1. todo # <<>> /\ Head(todo)[1] = "-reset" /\ cursor = 1
    BY <1>7 DEF ResetMacros, NextArg, CursorInv, TypeOK
  <2>2. CASE defines = <<>>
    BY <1>1, <1>7, <2>1, <2>2 DEF ResetMacros, TypeOK, CursorInv, NoStaleTops
  <2>3. CASE defines # <<>>
    <3>1. ResetList(defines) \in Seq(Macros) /\ Len(ResetList(defines)) = 1
      BY <2>3, ResetListType DEF TypeOK
    <3>2. /\ defines' = ResetList(defines)
          /\ todo' = Tail(todo)
          /\ UNCHANGED <<shared, defaults, stack, cursor, tops, library, accepted, design, alive, last>>
      BY <1>7, <2>3 DEF ResetMacros
    <3>3. TypeOK'
      BY <1>2, <2>1, <3>1, <3>2 DEF TypeOK
    <3>4. CursorInv' /\ NoStaleTops'
      BY <2>1, <3>1, <3>2 DEF CursorInv, NoStaleTops
    <3> QED
      BY <3>3, <3>4
  <2> QED
    BY <2>2, <2>3
<1>8. CASE DefinesError
  <2>1. todo # <<>> /\ Head(todo)[1] = "extra" /\ cursor = 1
    BY <1>8 DEF DefinesError, NextArg, CursorInv, TypeOK
  <2>2. last' \in [fe : Frontends, linked : BOOLEAN, parseOnly : BOOLEAN, stale : SUBSET Files]
    BY <1>8 DEF DefinesError, Nothing, Frontends
  <2>3. alive' \in BOOLEAN /\ <<>> \in Seq(DefinesArgs)
    BY <1>8, ConstantsAssumption, EmptySeq DEF DefinesError, CommandError
  <2>4. NoStaleTops'
    BY <1>8 DEF DefinesError, Nothing, NoStaleTops
  <2> QED
    <3>1. todo' = <<>> /\ UNCHANGED <<shared, defaults, stack, defines, cursor, tops, library, accepted, design>>
      BY <1>8 DEF DefinesError
    <3>2. TypeOK'
      BY <2>2, <2>3, <3>1 DEF TypeOK
    <3>3. CursorInv'
      BY <1>1, <2>1, <3>1 DEF CursorInv
    <3> QED
      BY <2>4, <3>2, <3>3
<1> QED
  BY <1>3, <1>4, <1>5, <1>6, <1>7, <1>8 DEF Defines

LEMMA IInvStep == IInv /\ [Next]_vars => IInv'
PROOF
<1> SUFFICES ASSUME IInv, [Next]_vars PROVE IInv'
  OBVIOUS
<1>1. CASE Read
  BY <1>1, ReadErrorStep, ReadSurelogStep, ReadUhdmStep, ReadFatalStep DEF Read
<1>2. CASE Defaults
  BY <1>2, DefaultsStep
<1>3. CASE Defines
  BY <1>3, DefinesStep
<1>4. CASE UNCHANGED vars
  BY <1>4 DEF vars, settings, IInv, TypeOK, CursorInv, NoStaleTops
<1> QED
  BY <1>1, <1>2, <1>3, <1>4 DEF Next
------------------------------------------------------------------------------
\* The state stays well typed, no visit of a Surelog frontend starts from nodes
\* a former command deleted, and the loop of remove() keeps its invariant:
\* uhdm_common_frontend.cc execute(), uhdm_surelog_ast_frontend.cc parse().
THEOREM SessionInvariant == Spec => [](TypeOK /\ NoStaleTops /\ CursorInv)
PROOF
<1>1. IInv => TypeOK /\ NoStaleTops /\ CursorInv
  BY DEF IInv
<1> QED
  BY <1>1, InitIInv, IInvStep, PTL DEF Spec

\* Between the commands of a session, and inside of read_systemverilog's and of
\* systemverilog_defines' loops, every setting is a list or a set of its kind.
THEOREM TypeCorrect == Spec => []TypeOK
PROOF
<1>1. IInv => TypeOK
  BY DEF IInv
<1> QED
  BY <1>1, InitIInv, IInvStep, PTL DEF Spec

\* When remove() is done with a name no define of that name is left.
THEOREM RemoveIsComplete == Spec => UndefinedIsGone
PROOF
<1>1. ASSUME IInv, [Next]_vars
      PROVE  [NextArg("-U") /\ todo' # todo => Head(todo)[2] \notin Elements(defines')]_vars
  <2> SUFFICES ASSUME Next, NextArg("-U"), todo' # todo
               PROVE  Head(todo)[2] \notin Elements(defines')
    BY <1>1
  <2>1. todo # <<>> /\ Head(todo)[1] = "-U"
    BY DEF NextArg
  <2>2. RemoveDone
    <3> ~Idle
      BY <2>1 DEF Idle
    <3>1. ~Read
      <4>1. \A fe, opts, file : ~ReadError(fe, opts, file) /\ ~ReadFatal(fe, opts, file)
        BY DEF ReadError, ReadFatal
      <4>2. \A fe, opts, file : ~ReadSurelog(fe, opts, file)
        BY DEF ReadSurelog
      <4>3. \A opts, file : ~ReadUhdm(opts, file)
        BY DEF ReadUhdm
      <4> QED
        BY <4>1, <4>2, <4>3 DEF Read
    <3>2. Defines
      <4>1. ~Defaults
        BY DEF Defaults, AddDefaults, ClearDefaults, PushDefaults, PopDefaults, DefaultsError
      <4> QED
        BY <3>1, <4>1 DEF Next
    <3>3. ~RemoveStep
      BY DEF RemoveStep
    <3> QED
      BY <2>1, <3>2, <3>3 DEF Defines, BeginDefines, Idle, DefineMacro, ResetMacros,
                              DefinesError, Removing, NextArg
  <2>3. Len(defines) \in Nat /\ DOMAIN defines = 1 .. Len(defines) /\ cursor \in Nat
    BY <1>1, LenProperties DEF IInv, TypeOK
  <2>4. Head(todo) = <<"-U", Head(todo)[2]>>
    <3>1. Head(todo) \in DefinesArgs
      BY <1>1, <2>1, HeadTailProperties DEF IInv, TypeOK
    <3> QED
      BY <2>1, <3>1 DEF DefinesArgs
  <2>5. \A i \in DOMAIN defines : defines[i] # Head(todo)[2]
    BY <1>1, <2>2, <2>3, <2>4 DEF IInv, CursorInv, RemoveDone, Removes
  <2> QED
    BY <2>2, <2>5 DEF RemoveDone, Elements
<1> QED
  BY <1>1, InitIInv, IInvStep, PTL DEF Spec, UndefinedIsGone

\* No file that was read to be loaded is lost, however long it waits in the
\* library: the next run that links loads all of them.
THEOREM NothingStaysBehind == Spec => []NothingIsLost
PROOF
<1> DEFINE J == IInv /\ NothingIsLost
<1>1. Init => J
  BY InitIInv DEF Init, Nothing, NothingIsLost
<1>2. J /\ [Next]_vars => J'
  <2> SUFFICES ASSUME J, [Next]_vars PROVE NothingIsLost'
    BY IInvStep
  <2>1. ASSUME NEW fe \in Surelogs, NEW opts \in SUBSET Options,
               NEW file \in Files \cup {NoFile}, ReadSurelog(fe, opts, file)
        PROVE  NothingIsLost'
    <3> DEFINE flags == FlagsAtParse(fe, opts)
    <3>1. /\ library' = library \cup CompiledApart(flags, file)
          /\ accepted' = accepted \cup (IF "-parse-only" \in flags THEN {} ELSE Named(file))
          /\ design' = design \cup (IF Discards(flags) THEN {} ELSE Elaborated(flags, file))
          /\ last'.linked = ("-link" \in flags)
          /\ last'.parseOnly = ("-parse-only" \in flags)
      BY <2>1 DEF ReadSurelog
    <3> HIDE DEF flags
    <3>2. accepted \subseteq library \cup design
      BY DEF NothingIsLost
    <3>3. CASE "-parse-only" \in flags
      BY <3>1, <3>2, <3>3 DEF NothingIsLost
    <3>4. CASE "-parse-only" \notin flags /\ "-link" \in flags
      BY <3>1, <3>2, <3>4 DEF NothingIsLost, Discards, Elaborated
    <3>5. CASE "-parse-only" \notin flags /\ "-link" \notin flags
      BY <3>1, <3>2, <3>5 DEF NothingIsLost, Discards, Elaborated, CompiledApart
    <3> QED
      BY <3>3, <3>4, <3>5
  <2>2. ASSUME UNCHANGED <<library, accepted, design>>, last' = last \/ ~last'.linked
        PROVE  NothingIsLost'
    BY <2>2 DEF NothingIsLost
  <2>3. ASSUME NEW opts \in SUBSET Options, NEW file \in Files \cup {NoFile}, ReadUhdm(opts, file)
        PROVE  NothingIsLost'
    BY <2>3 DEF ReadUhdm, Nothing, NothingIsLost
  <2>4. CASE Read
    BY <2>1, <2>2, <2>3, <2>4 DEF Read, ReadError, ReadFatal, Nothing
  <2>5. CASE Defaults
    BY <2>2, <2>5 DEF Defaults, AddDefaults, ClearDefaults, PushDefaults, PopDefaults,
                      DefaultsError, Nothing
  <2>6. CASE Defines
    BY <2>2, <2>6 DEF Defines, BeginDefines, DefineMacro, RemoveStep, RemoveDone, ResetMacros,
                      DefinesError, Nothing
  <2>7. CASE UNCHANGED vars
    BY <2>2, <2>7 DEF vars
  <2> QED
    BY <2>4, <2>5, <2>6, <2>7 DEF Next
<1> QED
  BY <1>1, <1>2, PTL DEF Spec
------------------------------------------------------------------------------
(***************************************************************************)
(* The lists implement the scopes and the set of SessionSettings.          *)
(***************************************************************************)
LEMMA ScopesProperties ==
    ASSUME NEW S, NEW front \in Seq(Seq(S)), NEW top \in Seq(S)
    PROVE  /\ Append(front, top) \in Seq(Seq(S))
           /\ Len(front) \in Nat
           /\ Len(Append(front, top)) = Len(front) + 1
           /\ Append(front, top)[Len(front) + 1] = top
           /\ \A i \in 1 .. Len(front) : Append(front, top)[i] = front[i]
PROOF
  BY AppendProperties, LenProperties

\* Replacing the list in effect replaces the last scope.
LEMMA ReplaceTop ==
    ASSUME NEW S, NEW front \in Seq(Seq(S)), NEW top \in Seq(S), NEW new \in Seq(S)
    PROVE  Append(front, new) = [Append(front, top) EXCEPT ![Len(Append(front, top))] = new]
PROOF
<1> DEFINE old == Append(front, top)
           replaced == [old EXCEPT ![Len(front) + 1] = new]
<1>1. /\ old \in Seq(Seq(S)) /\ Len(old) = Len(front) + 1 /\ Len(front) \in Nat
      /\ \A i \in 1 .. Len(front) : old[i] = front[i]
  BY ScopesProperties
<1>2. /\ Append(front, new) \in Seq(Seq(S)) /\ Len(Append(front, new)) = Len(front) + 1
      /\ \A i \in 1 .. Len(front) : Append(front, new)[i] = front[i]
      /\ Append(front, new)[Len(front) + 1] = new
  BY ScopesProperties
<1> HIDE DEF old
<1>3. Len(front) + 1 \in 1 .. Len(old)
  BY <1>1
<1>4. /\ replaced \in Seq(Seq(S)) /\ Len(replaced) = Len(old)
      /\ \A j \in 1 .. Len(old) : replaced[j] = IF j = Len(front) + 1 THEN new ELSE old[j]
  BY <1>1, <1>3, ExceptSeq
<1> HIDE DEF replaced
<1>5. \A j \in 1 .. Len(Append(front, new)) : Append(front, new)[j] = replaced[j]
  BY <1>1, <1>2, <1>4
<1>6. Append(front, new) = replaced
  <2> DEFINE appended == Append(front, new)
  <2>1. appended \in Seq(Seq(S)) /\ Len(appended) = Len(replaced)
    BY <1>1, <1>2, <1>4
  <2>2. \A j \in 1 .. Len(appended) : appended[j] = replaced[j]
    BY <1>5
  <2> HIDE DEF appended
  <2>3. appended = replaced
    BY <2>1, <2>2, <1>4, SeqEqual
  <2> QED
    BY <2>3 DEF appended
<1> QED
  BY <1>1, <1>6 DEF old, replaced

LEMMA ElementsOfAppend ==
    ASSUME NEW S, NEW list \in Seq(S), NEW e \in S
    PROVE  Elements(Append(list, e)) = Elements(list) \cup {e}
PROOF
<1>1. DOMAIN list = 1 .. Len(list) /\ Len(list) \in Nat
  BY LenProperties
<1>2. /\ Append(list, e) \in Seq(S) /\ Len(Append(list, e)) = Len(list) + 1
      /\ \A i \in 1 .. Len(list) : Append(list, e)[i] = list[i]
      /\ Append(list, e)[Len(list) + 1] = e
  BY AppendProperties
<1>3. DOMAIN Append(list, e) = 1 .. Len(list) + 1
  BY <1>2, LenProperties
<1> QED
  BY <1>1, <1>2, <1>3 DEF Elements

\* Erasing one element removes its symbol or leaves the set as it is.
LEMMA ElementsOfErased ==
    ASSUME NEW S, NEW list \in Seq(S), NEW i \in 1 .. Len(list)
    PROVE  \/ Elements(Erased(list, i)) = Elements(list)
           \/ Elements(Erased(list, i)) = Elements(list) \ {list[i]}
PROOF
<1> DEFINE rest == Erased(list, i)
<1>1. DOMAIN list = 1 .. Len(list) /\ Len(list) \in Nat
  BY LenProperties
<1>2. /\ rest \in Seq(S) /\ Len(rest) = Len(list) - 1
      /\ \A j \in 1 .. i - 1 : rest[j] = list[j]
      /\ \A j \in i .. Len(list) - 1 : rest[j] = list[j + 1]
  BY ErasedProperties
<1> HIDE DEF rest
<1>3. DOMAIN rest = 1 .. Len(list) - 1
  BY <1>2, LenProperties
<1>4. Elements(rest) \subseteq Elements(list)
  <2> SUFFICES ASSUME NEW j \in DOMAIN rest PROVE rest[j] \in Elements(list)
    BY DEF Elements
  <2>1. CASE j \in 1 .. i - 1
    BY <1>1, <1>2, <2>1 DEF Elements
  <2>2. CASE j \in i .. Len(list) - 1
    <3>1. rest[j] = list[j + 1] /\ j + 1 \in DOMAIN list
      BY <1>1, <1>2, <2>2
    <3> QED
      BY <3>1 DEF Elements
  <2> QED
    BY <1>1, <1>3, <2>1, <2>2
<1>5. Elements(list) \ {list[i]} \subseteq Elements(rest)
  <2> SUFFICES ASSUME NEW j \in DOMAIN list, j # i PROVE list[j] \in Elements(rest)
    BY DEF Elements
  <2>1. CASE j < i
    BY <1>1, <1>2, <1>3, <2>1 DEF Elements
  <2>2. CASE j > i
    <3>1. j - 1 \in i .. Len(list) - 1 /\ (j - 1) + 1 = j /\ j - 1 \in DOMAIN rest
      BY <1>1, <1>3, <2>2
    <3>2. rest[j - 1] = list[j]
      BY <1>2, <3>1
    <3> QED
      BY <3>1, <3>2 DEF Elements
  <2> QED
    BY <1>1, <2>1, <2>2
<1>6. Elements(rest) = Elements(list) \/ Elements(rest) = Elements(list) \ {list[i]}
  BY <1>4, <1>5
<1> QED
  BY <1>6 DEF rest

\* Popping brings back the list below the one in effect.
LEMMA PopTop ==
    ASSUME NEW S, NEW front \in Seq(S), front # <<>>
    PROVE  Append(SubSeq(front, 1, Len(front) - 1), front[Len(front)]) = front
PROOF
<1> DEFINE below == SubSeq(front, 1, Len(front) - 1)
           again == Append(below, front[Len(front)])
<1>1. Len(front) \in Nat \ {0} /\ \A i \in 1 .. Len(front) : front[i] \in S
  BY EmptySeq, ElementOfSeq
<1>2. /\ below \in Seq(S) /\ Len(below) = Len(front) - 1
      /\ \A i \in 1 .. Len(front) - 1 : below[i] = front[i]
  <2>1. 1 \in Int /\ Len(front) - 1 \in Int /\ \A i \in 1 .. Len(front) - 1 : front[i] \in S
    BY <1>1
  <2> HIDE DEF below
  <2>2. /\ below \in Seq(S)
        /\ Len(below) = IF 1 <= Len(front) - 1 THEN Len(front) - 1 - 1 + 1 ELSE 0
        /\ \A i \in 1 .. Len(front) - 1 - 1 + 1 : below[i] = front[1 + i - 1]
    BY <2>1, SubSeqProperties DEF below
  <2>3. Len(below) = Len(front) - 1
    <3>1. \A n \in Nat \ {0} : (IF 1 <= n - 1 THEN n - 1 - 1 + 1 ELSE 0) = n - 1
      OBVIOUS
    <3>2. (IF 1 <= Len(front) - 1 THEN Len(front) - 1 - 1 + 1 ELSE 0) = Len(front) - 1
      BY <1>1, <3>1
    <3> QED
      BY <2>2, <3>2
  <2>4. \A i \in 1 .. Len(front) - 1 : 1 + i - 1 = i /\ i \in 1 .. Len(front) - 1 - 1 + 1
    BY <1>1
  <2>5. \A i \in 1 .. Len(front) - 1 : below[i] = front[i]
    BY <2>2, <2>4
  <2> QED
    BY <2>2, <2>3, <2>5
<1> HIDE DEF below
<1>3. /\ again \in Seq(S) /\ Len(again) = Len(below) + 1
      /\ \A i \in 1 .. Len(below) : again[i] = below[i]
      /\ again[Len(below) + 1] = front[Len(front)]
  BY <1>1, <1>2, AppendProperties
<1> HIDE DEF again
<1>4. Len(again) = Len(front) /\ \A i \in 1 .. Len(again) : again[i] = front[i]
  BY <1>1, <1>2, <1>3
<1>5. again = front
  BY <1>3, <1>4, SeqEqual
<1> QED
  BY <1>5 DEF again, below

LEMMA CloseScope ==
    ASSUME NEW S, NEW front \in Seq(S), NEW top \in S
    PROVE  SubSeq(Append(front, top), 1, Len(front)) = front
PROOF
<1> DEFINE whole == Append(front, top)
           cut == SubSeq(whole, 1, Len(front))
<1>1. /\ whole \in Seq(S) /\ Len(front) \in Nat /\ Len(whole) = Len(front) + 1
      /\ \A i \in 1 .. Len(front) : whole[i] = front[i]
      /\ \A i \in 1 .. Len(front) : front[i] \in S
  BY AppendProperties, LenProperties, ElementOfSeq
<1> HIDE DEF whole
<1>2. /\ cut \in Seq(S) /\ Len(cut) = Len(front)
      /\ \A i \in 1 .. Len(front) : cut[i] = front[i]
  <2>1. 1 \in Int /\ Len(front) \in Int /\ \A i \in 1 .. Len(front) : whole[i] \in S
    BY <1>1
  <2> HIDE DEF cut
  <2>2. /\ cut \in Seq(S)
        /\ Len(cut) = IF 1 <= Len(front) THEN Len(front) - 1 + 1 ELSE 0
        /\ \A i \in 1 .. Len(front) - 1 + 1 : cut[i] = whole[1 + i - 1]
    BY <2>1, SubSeqProperties DEF cut
  <2> QED
    BY <1>1, <2>2
<1> HIDE DEF cut
<1>3. cut = front
  BY <1>1, <1>2, SeqEqual
<1> QED
  BY <1>3 DEF cut, whole

LEMMA InitScopes == Init => Settings!Init
PROOF
<1> SUFFICES ASSUME Init PROVE Settings!Init
  OBVIOUS
<1>1. Append(stack, defaults) = << <<>> >>
  BY DEF Init
<1>2. Elements(defines) = {"YOSYS"}
  BY DEF Init, Elements
<1> QED
  BY <1>1, <1>2 DEF Settings!Init

LEMMA StepScopes == IInv /\ [Next]_vars => [Settings!Next]_(Settings!vars)
PROOF
<1> SUFFICES ASSUME IInv, [Next]_vars
             PROVE  [Settings!Next]_(Settings!vars)
  OBVIOUS
<1> USE DEF Settings!vars
<1>1. /\ defaults \in Seq(DefaultOptions) /\ stack \in Seq(Seq(DefaultOptions))
      /\ defines \in Seq(Macros)
  BY DEF IInv, TypeOK
<1>2. ASSUME UNCHANGED <<stack, defaults, defines>>
      PROVE  [Settings!Next]_(Settings!vars)
  BY <1>2
<1> DEFINE before == Append(stack, defaults)
           after == Append(stack', defaults')
<1>3. /\ before \in Seq(Seq(DefaultOptions)) /\ Len(stack) \in Nat
      /\ Len(before) = Len(stack) + 1 /\ before[Len(stack) + 1] = defaults
  BY <1>1, ScopesProperties
<1>4. ASSUME NEW m \in Macros, UNCHANGED <<stack, defaults>>,
             Elements(defines') = Elements(defines) \cup {m}
      PROVE  Settings!Define
  BY <1>4 DEF Settings!Define
<1>5. ASSUME NEW fe \in Surelogs, NEW opts \in SUBSET Options,
             NEW file \in Files \cup {NoFile}, ReadSurelog(fe, opts, file)
      PROVE  Settings!Next
  <2>1. ModeMacro(shared[fe] \cup opts) \in Macros
    BY DEF ModeMacro, Macros
  <2>2. /\ defines' = Append(defines, ModeMacro(shared[fe] \cup opts))
        /\ UNCHANGED <<stack, defaults>>
    BY <1>5 DEF ReadSurelog, WithModeMacro
  <2>3. Elements(defines') = Elements(defines) \cup {ModeMacro(shared[fe] \cup opts)}
    BY <1>1, <2>1, <2>2, ElementsOfAppend
  <2> QED
    BY <1>4, <2>1, <2>2, <2>3 DEF Settings!Next
<1>6. CASE Read
  BY <1>2, <1>5, <1>6 DEF Read, ReadError, ReadUhdm, ReadFatal, settings
<1>7. ASSUME NEW list \in Seq(DefaultOptions), defaults' = list, stack' = stack
      PROVE  after = [before EXCEPT ![Len(before)] = list]
  BY <1>1, <1>7, ReplaceTop
<1>8. ASSUME NEW options \in SeqUpTo(DefaultOptions, MaxDefaults), AddDefaults(options)
      PROVE  Settings!Next
  <2>1. options \in Seq(DefaultOptions)
    BY SeqUpToType, ConstantsAssumption
  <2> DEFINE list == defaults \o options
  <2>2. /\ list \in Seq(DefaultOptions) /\ Len(list) = Len(defaults) + Len(options)
        /\ Len(options) \in Nat /\ Len(defaults) \in Nat
    BY <1>1, <2>1, ConcatProperties, LenProperties
  <2>3. SubSeq(list, 1, Len(defaults)) = defaults
    <3>1. CASE defaults = <<>>
      BY <3>1, <2>2, SubSeqEmpty
    <3>2. CASE defaults # <<>>
      <4>1. 1 \in 1 .. Len(defaults) /\ Len(defaults) \in 1 .. Len(defaults)
        BY <1>1, <3>2, EmptySeq
      <4>2. SubSeq(list, 1, Len(defaults)) = SubSeq(defaults, 1, Len(defaults))
        BY <1>1, <2>1, <4>1, SubSeqOfConcat1
      <4> QED
        BY <1>1, <4>2, SubSeqFull
    <3> QED
      BY <3>1, <3>2
  <2>4. defaults' = list /\ stack' = stack /\ defines' = defines
    BY <1>8 DEF AddDefaults
  <2>5. after = [before EXCEPT ![Len(before)] = list]
    BY <1>7, <2>2, <2>4
  <2>6. after \in Seq(Seq(DefaultOptions)) /\ Len(after) = Len(before) /\ after[Len(before)] = list
    BY <1>1, <1>3, <2>2, <2>4, ScopesProperties
  <2> HIDE DEF list, before, after
  <2>7. /\ Len(after) = Len(before)
        /\ after = [before EXCEPT ![Len(before)] = after[Len(before)]]
        /\ Len(after[Len(before)]) >= Len(before[Len(before)])
        /\ SubSeq(after[Len(before)], 1, Len(before[Len(before)])) = before[Len(before)]
    BY <1>3, <2>2, <2>3, <2>5, <2>6
  <2>8. Settings!Extend
    BY <2>4, <2>7 DEF Settings!Extend, Settings!WithCurrent, Settings!Current, before, after
  <2> QED
    BY <2>8 DEF Settings!Next
<1>9. ASSUME defaults' = <<>>, stack' = stack, defines' = defines
      PROVE  Settings!Next
  <2>1. after = [before EXCEPT ![Len(before)] = <<>>]
    BY <1>7, <1>9, EmptySeq
  <2>2. Settings!Empty
    BY <1>9, <2>1 DEF Settings!Empty, Settings!WithCurrent
  <2> QED
    BY <2>2 DEF Settings!Next
<1>10. CASE PushDefaults
  <2>1. stack' = before /\ defaults' = defaults /\ defines' = defines
    BY <1>10 DEF PushDefaults
  <2>2. before[Len(before)] = defaults
    BY <1>3
  <2>3. Settings!Open
    BY <2>1, <2>2 DEF Settings!Open, Settings!Current
  <2> QED
    BY <2>3 DEF Settings!Next
<1>11. CASE PopDefaults
  <2>1. CASE stack = <<>>
    BY <1>9, <1>11, <2>1 DEF PopDefaults
  <2>2. CASE stack # <<>>
    <3>1. /\ defaults' = stack[Len(stack)]
          /\ stack' = SubSeq(stack, 1, Len(stack) - 1)
          /\ defines' = defines
      BY <1>11, <2>2 DEF PopDefaults
    <3>2. after = stack
      BY <1>1, <2>2, <3>1, PopTop
    <3>3. SubSeq(before, 1, Len(stack)) = stack
      BY <1>1, CloseScope
    <3>4. Len(before) > 1 /\ Len(before) - 1 = Len(stack)
      BY <1>1, <1>3, <2>2, EmptySeq
    <3> HIDE DEF before, after
    <3>5. Len(before) > 1 /\ after = SubSeq(before, 1, Len(before) - 1)
      BY <3>2, <3>3, <3>4
    <3>6. Settings!Close
      BY <3>1, <3>5 DEF Settings!Close, before, after
    <3> QED
      BY <3>6 DEF Settings!Next
  <2> QED
    BY <2>1, <2>2
<1>12. CASE Defaults
  BY <1>2, <1>8, <1>9, <1>10, <1>11, <1>12 DEF Defaults, ClearDefaults, DefaultsError, settings
<1>13. CASE DefineMacro
  <2>1. todo # <<>> /\ todo \in Seq(DefinesArgs) /\ Head(todo)[1] = "-D"
    BY <1>13 DEF DefineMacro, NextArg, IInv, TypeOK
  <2>2. Head(todo)[2] \in Macros
    BY <2>1, HeadTailProperties DEF DefinesArgs, Macros
  <2>3. defines' = Append(defines, Head(todo)[2]) /\ UNCHANGED <<stack, defaults>>
    BY <1>13 DEF DefineMacro
  <2>4. Elements(defines') = Elements(defines) \cup {Head(todo)[2]}
    BY <1>1, <2>2, <2>3, ElementsOfAppend
  <2> QED
    BY <1>4, <2>2, <2>3, <2>4 DEF Settings!Next
<1>14. CASE RemoveStep
  <2>1. CASE Removes(Head(todo), defines[cursor])
    <3>1. cursor \in 1 .. Len(defines)
      BY <1>1, <1>14, LenProperties DEF RemoveStep, IInv, TypeOK
    <3>2. defines' = Erased(defines, cursor) /\ UNCHANGED <<stack, defaults>>
      BY <1>14, <2>1 DEF RemoveStep
    <3>3. defines[cursor] \in Macros
      BY <1>1, <3>1, ElementOfSeq
    <3>4. CASE Elements(defines') = Elements(defines)
      BY <3>2, <3>4
    <3>5. CASE Elements(defines') = Elements(defines) \ {defines[cursor]}
      BY <3>2, <3>3, <3>5 DEF Settings!Next, Settings!Undefine
    <3> QED
      BY <1>1, <3>1, <3>2, <3>4, <3>5, ElementsOfErased
  <2>2. CASE ~Removes(Head(todo), defines[cursor])
    BY <1>2, <1>14, <2>2 DEF RemoveStep
  <2> QED
    BY <2>1, <2>2
<1>15. CASE ResetMacros
  <2>1. CASE defines = <<>>
    BY <1>2, <1>15, <2>1 DEF ResetMacros
  <2>2. CASE defines # <<>>
    <3>1. defines' = ResetList(defines) /\ UNCHANGED <<stack, defaults>>
      BY <1>15, <2>2 DEF ResetMacros
    <3>2. /\ ResetList(defines) \in Seq(Macros) /\ Len(ResetList(defines)) = 1
          /\ ResetList(defines)[1] = defines[1]
      BY <1>1, <2>2, ResetListType
    <3>3. Elements(defines') = {defines[1]}
      BY <3>1, <3>2, LenProperties DEF Elements
    <3>4. defines[1] \in Elements(defines)
      BY <1>1, <2>2, EmptySeq, LenProperties DEF Elements
    <3>5. Settings!Reset
      BY <3>1, <3>3, <3>4 DEF Settings!Reset
    <3> QED
      BY <3>5 DEF Settings!Next
  <2> QED
    BY <2>1, <2>2
<1>16. CASE Defines
  BY <1>2, <1>13, <1>14, <1>15, <1>16 DEF Defines, BeginDefines, RemoveDone, DefinesError
<1>17. CASE UNCHANGED vars
  BY <1>2, <1>17 DEF vars, settings
<1> QED
  BY <1>6, <1>12, <1>16, <1>17 DEF Next

\* The lists of defaults and of defines implement nested scopes and a set of
\* symbols, for every sequence of commands.
THEOREM SettingsRefinement == Spec => SettingsAreScopes
PROOF
<1> QED
  BY InitIInv, IInvStep, InitScopes, StepScopes, PTL DEF Spec, SettingsAreScopes, Settings!Spec
=============================================================================
