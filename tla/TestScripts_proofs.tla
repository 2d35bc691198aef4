------------------------- MODULE TestScripts_proofs -------------------------
(***************************************************************************)
(* Proofs about the test scripts.                                          *)
(*                                                                         *)
(* RunCommand: for every set of pipes and every bound, the type invariant, *)
(* and that a result that is no time-out holds all output.                 *)
(*                                                                         *)
(* FormalFlow: for every set of tests and every set of logs, the type      *)
(* invariant, and that a regression in a fresh build directory that        *)
(* succeeds has run every listed test and seen what testlist.json expects  *)
(* of it.                                                                  *)
(***************************************************************************)
EXTENDS RunCommand, FormalFlow, TLAPS

------------------------------------------------------------------------------
(***************************************************************************)
(* run_command                                                             *)
(***************************************************************************)
\* No chunk is lost between a writer and the parent's buffers.
ChunksKept == \A p \in Pipes : got[p] + pipe[p] = sent[p]

\* The parent stops monitoring a pipe only when it is empty for good.
UnmonitoredIsOver == \A p \in Pipes \ fds : pipe[p] = 0 /\ writers[p] = {}

\* The loop ends with descriptors left only on a time-out.
EndOfLoop ==
    /\ at \in {"close", "wait", "done"} /\ ~timedOut => fds = {}
    /\ at = "kill" => timedOut

RunInv == RunTypeOK /\ ChunksKept /\ UnmonitoredIsOver /\ EndOfLoop

LEMMA RunInitInv == RunInit => RunInv
PROOF
<1> SUFFICES ASSUME RunInit PROVE RunInv
  OBVIOUS
<1>1. RunTypeOK
  BY DEF RunInit, Monitored, Procs, RunTypeOK
<1>2. ChunksKept
  BY DEF RunInit, ChunksKept
<1>3. UnmonitoredIsOver /\ EndOfLoop
  BY DEF RunInit, Monitored, UnmonitoredIsOver, EndOfLoop
<1> QED
  BY <1>1, <1>2, <1>3 DEF RunInv

LEMMA ReadDataStep ==
    ASSUME RunInv, NEW fd \in ready \ {"pid"}, ReadData(fd)
    PROVE  RunInv'
PROOF
<1>1. fd \in Pipes /\ fd \in fds
  BY DEF RunInv, RunTypeOK
<1>2. PICK n \in ChunkSizes(fd) : /\ pipe' = [pipe EXCEPT ![fd] = @ - n]
                                  /\ got' = [got EXCEPT ![fd] = @ + n]
  BY DEF ReadData
<1>3. n \in Nat /\ n <= pipe[fd] /\ pipe[fd] \in Nat /\ got[fd] \in Nat
  BY <1>1, <1>2, RunConstants DEF ChunkSizes, RunInv, RunTypeOK
<1>4. /\ at = "read" /\ at' \in {"loop", "read"} /\ ready' = ready \ {fd}
      /\ UNCHANGED <<fds, timedOut, procs, signalled, writers, sent, deadline>>
  BY DEF ReadData, Handled
<1>5. RunTypeOK'
  <2>1. pipe' \in [Pipes -> Nat] /\ got' \in [Pipes -> Nat]
    BY <1>1, <1>2, <1>3 DEF RunInv, RunTypeOK
  <2> QED
    BY <2>1, <1>4 DEF RunInv, RunTypeOK, procs
<1>6. ChunksKept'
  <2> SUFFICES ASSUME NEW p \in Pipes PROVE got'[p] + pipe'[p] = sent[p]
    BY <1>4 DEF ChunksKept
  <2>1. got[p] + pipe[p] = sent[p] /\ got[p] \in Nat /\ pipe[p] \in Nat
    BY DEF RunInv, ChunksKept, RunTypeOK
  <2>2. CASE p = fd
    <3>1. pipe'[p] = pipe[p] - n /\ got'[p] = got[p] + n
      BY <1>1, <1>2, <2>2 DEF RunInv, RunTypeOK
    <3> QED
      BY <1>3, <2>1, <2>2, <3>1
  <2>3. CASE p # fd
    <3>1. pipe'[p] = pipe[p] /\ got'[p] = got[p]
      BY <1>2, <2>3 DEF RunInv, RunTypeOK
    <3> QED
      BY <2>1, <3>1
  <2> QED
    BY <2>2, <2>3
<1>7. UnmonitoredIsOver'
  BY <1>1, <1>2, <1>4 DEF RunInv, UnmonitoredIsOver, RunTypeOK
<1>8. EndOfLoop'
  BY <1>4 DEF EndOfLoop
<1> QED
  BY <1>5, <1>6, <1>7, <1>8 DEF RunInv

LEMMA HandleEndStep ==
    ASSUME RunInv, NEW fd \in ready, HandleEnd(fd)
    PROVE  RunInv'
PROOF
<1>1. /\ fd # "pid" => pipe[fd] = 0 /\ writers[fd] = {}
      /\ fds' = fds \ {fd} /\ ready' = ready \ {fd} /\ at' \in {"loop", "read"}
      /\ UNCHANGED <<got, timedOut, procs, signalled, writers, pipe, sent, deadline>>
  BY DEF HandleEnd, StopMonitoring, Handled
<1>2. RunTypeOK'
  BY <1>1 DEF RunInv, RunTypeOK, procs
<1>3. ChunksKept'
  BY <1>1 DEF RunInv, ChunksKept
<1>4. UnmonitoredIsOver'
  BY <1>1, RunConstants DEF RunInv, UnmonitoredIsOver
<1>5. EndOfLoop'
  BY <1>1 DEF EndOfLoop
<1> QED
  BY <1>2, <1>3, <1>4, <1>5 DEF RunInv

LEMMA ParentStep ==
    ASSUME RunInv, Parent
    PROVE  RunInv'
PROOF
<1> USE DEF RunInv, RunTypeOK, ChunksKept, UnmonitoredIsOver, EndOfLoop, Go, procs
<1>1. CASE LeaveLoop
  BY <1>1 DEF LeaveLoop, LoopIsOver
<1>2. CASE DeadlineAtTop
  BY <1>2 DEF DeadlineAtTop
<1>3. CASE EnterSelect
  BY <1>3 DEF EnterSelect
<1>4. CASE SelectReturns
  BY <1>4 DEF SelectReturns, ReadableFds
<1>5. CASE SelectTimesOut
  BY <1>5 DEF SelectTimesOut
<1>6. CASE \E fd \in ready \ {"pid"} : ReadData(fd)
  BY <1>6, ReadDataStep
<1>7. CASE \E fd \in ready : HandleEnd(fd)
  BY <1>7, HandleEndStep
<1>8. CASE CloseFds
  BY <1>8 DEF CloseFds
<1>9. CASE Kill
  BY <1>9 DEF Kill, SendKill
<1>10. CASE Wait
  BY <1>10 DEF Wait
<1> QED
  BY <1>1, <1>2, <1>3, <1>4, <1>5, <1>6, <1>7, <1>8, <1>9, <1>10 DEF Parent

LEMMA CommandStep ==
    ASSUME RunInv, Command
    PROVE  RunInv'
PROOF
<1> USE DEF RunInv, parent, procs
<1>1. ASSUME NEW q \in Procs, NEW p \in Pipes, Write(q, p)
      PROVE  RunInv'
  <2>1. /\ q \in writers[p]
        /\ pipe' = [pipe EXCEPT ![p] = @ + 1] /\ sent' = [sent EXCEPT ![p] = @ + 1]
        /\ UNCHANGED <<at, fds, ready, got, timedOut, live, forked, child, signalled,
                       writers, deadline>>
    BY <1>1 DEF Write
  <2>2. RunTypeOK'
    <3>1. pipe' \in [Pipes -> Nat] /\ sent' \in [Pipes -> Nat]
      BY <2>1 DEF RunTypeOK
    <3> QED
      BY <2>1, <3>1 DEF RunTypeOK
  <2>3. ChunksKept'
    <3> SUFFICES ASSUME NEW r \in Pipes PROVE got[r] + pipe'[r] = sent'[r]
      BY <2>1 DEF ChunksKept
    <3>1. got[r] + pipe[r] = sent[r] /\ got[r] \in Nat /\ pipe[r] \in Nat /\ sent[r] \in Nat
      BY DEF RunTypeOK, ChunksKept
    <3>2. CASE r = p
      <4>1. pipe'[r] = pipe[r] + 1 /\ sent'[r] = sent[r] + 1
        BY <2>1, <3>2 DEF RunTypeOK
      <4> QED
        BY <3>1, <4>1
    <3>3. CASE r # p
      <4>1. pipe'[r] = pipe[r] /\ sent'[r] = sent[r]
        BY <2>1, <3>3 DEF RunTypeOK
      <4> QED
        BY <3>1, <4>1
    <3> QED
      BY <3>2, <3>3
  <2>4. UnmonitoredIsOver'
    BY <2>1 DEF RunTypeOK, UnmonitoredIsOver
  <2>5. EndOfLoop'
    BY <2>1 DEF EndOfLoop
  <2> QED
    BY <2>2, <2>3, <2>4, <2>5
<1>2. ASSUME NEW q \in Procs, NEW p \in Pipes, ClosePipe(q, p)
      PROVE  RunInv'
  BY <1>2 DEF ClosePipe, RunTypeOK, ChunksKept, UnmonitoredIsOver, EndOfLoop
<1>3. CASE Fork
  BY <1>3 DEF Fork, Procs, RunTypeOK, ChunksKept, UnmonitoredIsOver, EndOfLoop
<1>4. ASSUME NEW q \in Procs, End(q)
      PROVE  RunInv'
  BY <1>4 DEF End, RunTypeOK, ChunksKept, UnmonitoredIsOver, EndOfLoop
<1> QED
  BY <1>1, <1>2, <1>3, <1>4 DEF Command

LEMMA RunStepInv == RunInv /\ [RunNext]_runVars => RunInv'
PROOF
<1> SUFFICES ASSUME RunInv, [RunNext]_runVars PROVE RunInv'
  OBVIOUS
<1>1. CASE Expire
  BY <1>1 DEF Expire, parent, procs, RunInv, RunTypeOK, ChunksKept, UnmonitoredIsOver, EndOfLoop
<1>2. CASE UNCHANGED runVars
  BY <1>2 DEF runVars, parent, procs, RunInv, RunTypeOK, ChunksKept, UnmonitoredIsOver, EndOfLoop
<1> QED
  BY <1>1, <1>2, ParentStep, CommandStep DEF RunNext

\* The state stays well typed: the parent handles only descriptors it monitors.
THEOREM RunTypeCorrect == RunSpec => []RunTypeOK
PROOF
<1>1. RunInv => RunTypeOK
  BY DEF RunInv
<1> QED
  BY <1>1, RunInitInv, RunStepInv, PTL DEF RunSpec

\* _handle_child_process() returns without a time-out only with everything that
\* was written to the captured pipes, by the child and by what it left behind.
THEOREM NoOutputLost == RunSpec => []OutputComplete
PROOF
<1>1. RunInv => OutputComplete
  <2> SUFFICES ASSUME RunInv, at = "done", ~timedOut, NEW p \in Pipes
               PROVE  got[p] = sent[p] /\ writers[p] = {}
    BY DEF OutputComplete
  <2>1. pipe[p] = 0 /\ writers[p] = {} /\ got[p] + pipe[p] = sent[p] /\ got[p] \in Nat
    BY DEF RunInv, EndOfLoop, UnmonitoredIsOver, ChunksKept, RunTypeOK
  <2> QED
    BY <2>1
<1> QED
  BY <1>1, RunInitInv, RunStepInv, PTL DEF RunSpec

------------------------------------------------------------------------------
(***************************************************************************)
(* The regression                                                          *)
(***************************************************************************)
\* What a result that run.py reports says of the last eqy run.
Faithful(r, o) ==
  /\ r = "SKIP" => o = Unseen
  /\ r \in Marks => ~o.timedOut /\ r \in o.log
  /\ r = "FAIL" => o.timedOut \/ (o.log = {} /\ ~o.success)
  /\ r # "TIMEOUT"

\* The result file and the history, by where the process of t is.
Stage(t) ==
  /\ pc[t] \in {"idle", "prepared", "unread", "converted", "reporting"}
       => file[t] = "none"
  /\ pc[t] \in {"idle", "prepared"} => seen[t] = Unseen
  /\ pc[t] = "writing" => file[t] = "torn"
  /\ pc[t] = "died" => file[t] \in {"none", "torn"}
  /\ pc[t] = "done" => file[t] = res[t]
  /\ pc[t] \in {"unread", "reporting", "writing", "done"}
       => Faithful(res[t], seen[t])
  /\ t \notin Suite => pc[t] = "idle"

IInv ==
  /\ TypeOK
  /\ \A t \in Tests : Stage(t)
  /\ verdict # "running" => \A t \in Suite : Over(t)
  /\ HonestSuccess

\* Of the marks of a log, run_eqy finds one that is there (run.py:92-108).
LEMMA FirstMarkFound ==
  ASSUME NEW log \in SUBSET Marks, log # {}
  PROVE  FirstMark(log) \in log
PROOF
<1>1. \E m \in log : \A n \in log : Rank[m] <= Rank[n]
  <2>1. CASE "PASS" \in log
    BY <2>1 DEF Marks, Rank
  <2>2. CASE "PASS" \notin log /\ "YOSYS_READ_FAIL" \in log
    BY <2>2 DEF Marks, Rank
  <2>3. CASE "PASS" \notin log /\ "YOSYS_READ_FAIL" \notin log
             /\ "SYNLIG_READ_FAIL" \in log
    BY <2>3 DEF Marks, Rank
  <2>4. CASE log \subseteq {"EMPTY_MODULE", "UNMATCHED_MODULE", "NOTHING_TO_COMPARE"}
    <3>1. CASE "EMPTY_MODULE" \in log
      BY <2>4, <3>1 DEF Marks, Rank
    <3>2. CASE "EMPTY_MODULE" \notin log /\ "UNMATCHED_MODULE" \in log
      BY <2>4, <3>2 DEF Marks, Rank
    <3>3. CASE log \subseteq {"NOTHING_TO_COMPARE"}
      <4>1. "NOTHING_TO_COMPARE" \in log
        BY <3>3
      <4>2. QED BY <3>3, <4>1 DEF Rank
    <3>4. QED BY <2>4, <3>1, <3>2, <3>3
  <2>5. QED BY <2>1, <2>2, <2>3, <2>4 DEF Marks
<1>2. QED BY <1>1 DEF FirstMark

\* The result reported after an eqy run is a faithful account of it.
LEMMA ReportedIsFaithful ==
  ASSUME Constants, NEW o \in Outcomes
  PROVE  /\ Reported(RunEqy(o)) \in Results
         /\ Faithful(Reported(RunEqy(o)), o)
         /\ RunEqy(o) = "YOSYS_READ_FAIL" => Reported(RunEqy(o)) = "YOSYS_READ_FAIL"
PROOF
<1>0. o.log \in SUBSET Marks /\ o.timedOut \in BOOLEAN /\ o.success \in BOOLEAN
  BY DEF Constants, ConstantsAssumption, Outcomes
<1>1. CASE o.timedOut
  BY <1>1 DEF RunEqy, Reported, EndingResults, Marks, Results, Faithful
<1>2. CASE ~o.timedOut /\ o.log # {}
  <2>1. FirstMark(o.log) \in o.log
    BY <1>0, <1>2, FirstMarkFound
  <2>2. RunEqy(o) = FirstMark(o.log) /\ RunEqy(o) \in Marks
    BY <1>0, <1>2, <2>1 DEF RunEqy
  <2>3. Reported(RunEqy(o)) = RunEqy(o)
    BY <2>2 DEF Reported, EndingResults
  <2>4. QED
    BY <1>2, <2>1, <2>2, <2>3 DEF Faithful, Results, Marks
<1>3. CASE ~o.timedOut /\ o.log = {}
  BY <1>3 DEF RunEqy, Reported, EndingResults, Marks, Results, Faithful
<1>4. QED BY <1>0, <1>1, <1>2, <1>3

-----------------------------------------------------------------------------
\* Whatever an earlier regression left in the work directories: results,
\* result files and processes are of the kinds results.py tells apart.
THEOREM TypeCorrect == Spec => []TypeOK
PROOF
<1>1. Init => TypeOK
  BY DEF Init, TypeOK, Results, Marks
<1>2. ASSUME TypeOK, [Next]_vars PROVE TypeOK'
  <2>1. CASE Summarise
    BY <1>2, <2>1 DEF TypeOK, Summarise
  <2>2. ASSUME NEW t \in Tests, Run(t) \/ Die(t) PROVE TypeOK'
    <3>1. CASE Prepare(t) \/ OpenResult(t) \/ WriteResult(t)
      BY <1>2, <3>1 DEF TypeOK, Prepare, OpenResult, WriteResult, Step
    <3>2. CASE Skip(t) \/ Preprocess(t) \/ Die(t)
      BY <1>2, <3>2 DEF TypeOK, Skip, Preprocess, Die, Step, Results
    <3>3. CASE FirstCheck(t)
      <4> PICK o \in Outcomes : FirstCheck(t)!(o)
        BY <3>3 DEF FirstCheck
      <4> QED BY <1>2, Constants, ReportedIsFaithful DEF TypeOK, Step
    <3>4. CASE SecondCheck(t)
      <4> PICK o \in Outcomes : SecondCheck(t)!(o)
        BY <3>4 DEF SecondCheck
      <4> QED BY <1>2, Constants, ReportedIsFaithful DEF TypeOK, Step
    <3>5. QED BY <2>2, <3>1, <3>2, <3>3, <3>4 DEF Run
  <2>3. CASE UNCHANGED vars
    BY <1>2, <2>3 DEF TypeOK, vars
  <2>4. QED BY <1>2, <2>1, <2>2, <2>3 DEF Next
<1>3. QED BY <1>1, <1>2, PTL DEF Spec

-----------------------------------------------------------------------------
\* A step of the process of t that takes it from one place to another keeps
\* the stages of the others.
LEMMA InitInv ==
  ASSUME Constants, FreshBuild, Init
  PROVE  IInv
BY DEF Constants, ConstantsAssumption, Init, IInv, TypeOK, Stage, HonestSuccess, Results, Marks

LEMMA StepInv ==
  ASSUME Constants, IInv, [Next]_vars
  PROVE  IInv'
PROOF
<1> USE DEF TypeOK
<1>1. CASE Summarise
  <2>1. TypeOK' /\ (\A t \in Tests : Stage(t)')
    BY <1>1 DEF IInv, Summarise, Stage
  <2>2. (verdict # "running" => \A t \in Suite : Over(t))'
    BY <1>1 DEF Summarise, Over
  <2>3. HonestSuccess'
    <3> SUFFICES ASSUME verdict' = "ok", NEW t \in Tests, listed[t] # "NOT_FOUND"
                 PROVE  pc[t] = "done" /\ Confirmed(t, listed[t])
      BY <1>1 DEF HonestSuccess, Summarise, Confirmed
    <3>1. file[t] # "none" /\ file[t] # "torn" /\ Matches(listed[t], file[t])
      BY <1>1 DEF Summarise, Crashes, Unreadable, Different, NotPerformed, Performed
    <3>2. pc[t] = "done" /\ file[t] = res[t] /\ Faithful(res[t], seen[t])
      BY <3>1 DEF IInv, Stage
    <3>3. listed[t] \in Expected
      BY DEF IInv
    <3>4. Confirmed(t, listed[t])
      <4>1. CASE listed[t] = "SKIP"
        BY <3>1, <3>2, <4>1 DEF Matches, Faithful, Confirmed
      <4>2. CASE listed[t] = "READ_FAIL"
        BY <3>1, <3>2, <4>2 DEF Matches, Faithful, Confirmed, IInv, Results, Marks
      <4>3. CASE listed[t] = "FAIL"
        BY <3>1, <3>2, <4>3 DEF Matches, Faithful, Confirmed
      <4>4. CASE listed[t] \in Marks
        <5>1. file[t] = listed[t]
          BY <3>1, <4>4 DEF Matches, Marks
        <5>2. Confirmed(t, listed[t]) <=>
                ~seen[t].timedOut /\ listed[t] \in seen[t].log
          BY <4>4 DEF Confirmed, Marks
        <5>3. QED BY <3>2, <4>4, <5>1, <5>2 DEF Faithful
      <4>5. listed[t] \in {"SKIP", "READ_FAIL", "FAIL"} \cup Marks
        BY <3>3 DEF Expected, Marks
      <4>6. QED BY <4>1, <4>2, <4>3, <4>4, <4>5
    <3>5. QED BY <3>2, <3>4
  <2>4. QED BY <2>1, <2>2, <2>3 DEF IInv
<1>2. ASSUME NEW t \in Tests, Run(t) \/ Die(t)
      PROVE  IInv'
  <2>0. /\ ~Over(t) /\ t \in Suite /\ verdict = "running" /\ verdict' = verdict
        /\ UNCHANGED listed
        /\ \A u \in Tests \ {t} : /\ pc'[u] = pc[u] /\ res'[u] = res[u]
                                  /\ file'[u] = file[u] /\ seen'[u] = seen[u]
    <3>1. pc[t] # "done" /\ pc[t] # "died" /\ t \in Suite
      BY <1>2 DEF IInv, Stage, Run, Prepare, Skip, FirstCheck, Preprocess,
         SecondCheck, OpenResult, WriteResult, Die, Step, Over
    <3>2. UNCHANGED <<listed, verdict>>
      BY <1>2 DEF Run, Prepare, Skip, FirstCheck, Preprocess, SecondCheck,
         OpenResult, WriteResult, Die
    <3>3. \A u \in Tests \ {t} : /\ pc'[u] = pc[u] /\ res'[u] = res[u]
                                 /\ file'[u] = file[u] /\ seen'[u] = seen[u]
      BY <1>2 DEF IInv, Run, Prepare, Skip, FirstCheck, Preprocess,
         SecondCheck, OpenResult, WriteResult, Die, Step
    <3>4. QED BY <3>1, <3>2, <3>3 DEF IInv, Over
  <2>1. TypeOK' /\ Stage(t)'
    <3>1. CASE Prepare(t)
      BY <3>1 DEF IInv, Stage, Prepare, Step
    <3>2. CASE Skip(t)
      BY <3>2 DEF IInv, Stage, Skip, Step, Faithful, Results, Marks
    <3>3. CASE FirstCheck(t)
      <4> PICK o \in Outcomes : FirstCheck(t)!(o)
        BY <3>3 DEF FirstCheck
      <4> QED BY ReportedIsFaithful DEF IInv, Stage, Step, Faithful
    <3>4. CASE Preprocess(t)
      BY <3>4 DEF IInv, Stage, Preprocess, Step
    <3>5. CASE SecondCheck(t)
      <4> PICK o \in Outcomes : SecondCheck(t)!(o)
        BY <3>5 DEF SecondCheck
      <4> QED BY ReportedIsFaithful DEF IInv, Stage, Step, Faithful
    <3>6. CASE OpenResult(t)
      BY <3>6 DEF IInv, Stage, OpenResult, Step
    <3>7. CASE WriteResult(t)
      BY <3>7 DEF IInv, Stage, WriteResult, Step
    <3>8. CASE Die(t)
      BY <3>8 DEF IInv, Stage, Die, Over
    <3>9. QED BY <1>2, <3>1, <3>2, <3>3, <3>4, <3>5, <3>6, <3>7, <3>8 DEF Run
  <2>2. \A u \in Tests \ {t} : Stage(u)'
    BY <2>0 DEF IInv, Stage, Faithful
  <2>3. HonestSuccess' /\ (verdict # "running" => \A u \in Suite : Over(u))'
    BY <2>0 DEF HonestSuccess
  <2>4. QED BY <2>1, <2>2, <2>3 DEF IInv
<1>3. CASE UNCHANGED vars
  BY <1>3 DEF vars, IInv, Stage, HonestSuccess, Confirmed, Over
<1>4. QED BY <1>1, <1>2, <1>3 DEF Next

\* In a fresh build directory the states are well typed, and a regression that
\* succeeds is honest: results.py exits with 0 only when each listed test was
\* run to its end and its last equivalence check showed what is expected of it.
THEOREM RegressionIsHonest ==
  ASSUME FreshBuild
  PROVE  Spec => [](TypeOK /\ HonestSuccess)
PROOF
<1>1. Init => IInv
  BY InitInv, Constants
<1>2. IInv /\ [Next]_vars => IInv'
  BY StepInv, Constants
<1>3. IInv => TypeOK /\ HonestSuccess
  BY DEF IInv
<1>4. QED
  BY <1>1, <1>2, <1>3, PTL DEF Spec

\* A PASS that is recorded was proved by the last check of its run.
LEMMA StagesProvePass == IInv => PassIsProved
PROOF
<1> SUFFICES ASSUME IInv, NEW t \in Tests, pc[t] # "idle", file[t] = "PASS"
             PROVE  "PASS" \in seen[t].log /\ ~seen[t].timedOut
  BY DEF PassIsProved
<1>1. pc[t] = "done"
  BY DEF IInv, TypeOK, Stage
<1>2. Faithful("PASS", seen[t])
  BY <1>1 DEF IInv, Stage
<1>3. QED BY <1>2 DEF Faithful, Marks

\* In a fresh build directory run.py records a PASS only after a check that was
\* not cut off and whose log says that the two designs are equivalent.
THEOREM PassMeansProved ==
  ASSUME FreshBuild
  PROVE  Spec => []PassIsProved
PROOF
<1>1. Init => IInv
  BY InitInv, Constants
<1>2. IInv /\ [Next]_vars => IInv'
  BY StepInv, Constants
<1>3. QED
  BY <1>1, <1>2, StagesProvePass, PTL DEF Spec
=============================================================================
