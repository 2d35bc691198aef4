----------------------------- MODULE FormalFlow -----------------------------
(***************************************************************************)
(* The equivalence-check regression of tests/formal: one run.py process    *)
(* per test file, started in parallel by run_fv_tests.mk (its exit code is *)
(* ignored), each leaving a result.json in its work directory, and then    *)
(* gather_fv_results.sh and results.py, which collect the files, compare   *)
(* them with testlist.json and set the exit code of the CI job.            *)
(* A process may be killed at any step; result.json is created empty and   *)
(* then written.  Work directories survive from one regression to the      *)
(* next.  Two tests are assumed not to share a work directory.             *)
(***************************************************************************)
EXTENDS Naturals, FiniteSets

CONSTANTS
  Tests,        \* every test a testlist or a build directory can name
  Suite,        \* the test files run_fv_tests.mk finds now
  Logs,         \* the sets of marks the log of one eqy run may hold
  FreshBuild    \* no work directory is left of an earlier regression

Marks == {"PASS", "YOSYS_READ_FAIL", "SYNLIG_READ_FAIL", "EMPTY_MODULE",
          "UNMATCHED_MODULE", "NOTHING_TO_COMPARE"}

ConstantsAssumption ==
  /\ Suite \subseteq Tests
  /\ Logs \subseteq SUBSET Marks
  /\ FreshBuild \in BOOLEAN

ASSUME Constants == ConstantsAssumption

VARIABLES
  listed,   \* the expected result of each test, "NOT_FOUND" if unlisted
  pc,       \* where the run.py of each test is
  res,      \* the result it will report
  file,     \* its result.json: "none", "torn" (created, not written), a result
  seen,     \* history: what its last eqy run showed
  verdict   \* exit of results.py: "running", "ok" or "failed"

vars == <<listed, pc, res, file, seen, verdict>>

Results  == Marks \cup {"SKIP", "FAIL", "TIMEOUT", "SUSPECTED_PASS"}
Expected == {"PASS", "FAIL", "SKIP", "READ_FAIL", "EMPTY_MODULE",
             "UNMATCHED_MODULE", "NOTHING_TO_COMPARE", "NOT_FOUND"}

\* The keys of fv_result_descriptions.
Described == Results \ {"SUSPECTED_PASS"}

\* A command that is killed does not exit with 0.
Outcomes == {o \in [timedOut : BOOLEAN, log : Logs, success : BOOLEAN] :
               ~(o.timedOut /\ o.success)}
Unseen   == [timedOut |-> FALSE, log |-> {}, success |-> FALSE]

Init ==
  /\ listed \in [Tests -> Expected]
  /\ pc = [t \in Tests |-> "idle"]
  /\ res = [t \in Tests |-> "FAIL"]
  /\ file \in [Tests -> IF FreshBuild THEN {"none"} ELSE {"none"} \cup Results]
  /\ seen = [t \in Tests |-> Unseen]
  /\ verdict = "running"

-----------------------------------------------------------------------------
(* run.py *)

\* The order in which run_eqy looks for the patterns.
Rank == [PASS |-> 1, YOSYS_READ_FAIL |-> 2, SYNLIG_READ_FAIL |-> 3,
         EMPTY_MODULE |-> 4, UNMATCHED_MODULE |-> 5, NOTHING_TO_COMPARE |-> 6]

FirstMark(log) == CHOOSE m \in log : \A n \in log : Rank[m] <= Rank[n]

\* Mutant: the log is searched before the timeout is looked at.
RunEqy_LogFirst(o) ==
  IF o.log # {} THEN FirstMark(o.log)
  ELSE IF o.timedOut THEN "TIMEOUT"
  ELSE IF o.success THEN "SUSPECTED_PASS" ELSE "FAIL"

\* What run_eqy returns for the outcome o of eqy.
RunEqy(o) ==
  IF o.timedOut THEN "TIMEOUT"
  ELSE IF o.log # {} THEN FirstMark(o.log)
  ELSE IF o.success THEN "SUSPECTED_PASS" ELSE "FAIL"

\* The two literals "TIMEOUT" "FAIL" of ending_results are one string, so a
\* timeout (like a FAIL) reaches the final `test_result["result"] = "FAIL"`.
EndingResults ==
  Marks \cup {"SUSPECTED_PASS", "TIMEOUTFAIL"}

Reported(r) == IF r \in EndingResults THEN r ELSE "FAIL"

Step(t, from, to) == pc[t] = from /\ pc' = [pc EXCEPT ![t] = to]

\* The work directory is removed and created again.
Prepare(t) ==
  /\ t \in Suite
  /\ Step(t, "idle", "prepared")
  /\ file' = [file EXCEPT ![t] = "none"]
  /\ UNCHANGED <<listed, res, seen, verdict>>

Skip(t) ==
  /\ listed[t] = "SKIP"
  /\ Step(t, "prepared", "reporting")
  /\ res' = [res EXCEPT ![t] = "SKIP"]
  /\ UNCHANGED <<listed, file, seen, verdict>>

\* Synlig against yosys.  Only here does YOSYS_READ_FAIL go on to sv2v.
FirstCheck(t) == \E o \in Outcomes :
  /\ listed[t] # "SKIP"
  /\ Step(t, "prepared",
          IF RunEqy(o) = "YOSYS_READ_FAIL" THEN "unread" ELSE "reporting")
  /\ res' = [res EXCEPT ![t] = Reported(RunEqy(o))]
  /\ seen' = [seen EXCEPT ![t] = o]
  /\ UNCHANGED <<listed, file, verdict>>

\* Mutant: the status of sv2v is recorded instead of YOSYS_READ_FAIL.
Preprocess_Status(t) == \E converted \in BOOLEAN :
  /\ Step(t, "unread", IF converted THEN "converted" ELSE "reporting")
  /\ res' = [res EXCEPT ![t] = IF converted THEN @ ELSE "fail"]
  /\ UNCHANGED <<listed, file, seen, verdict>>

\* sv2v may fail or run out of time; the result is then YOSYS_READ_FAIL.
Preprocess(t) == \E converted \in BOOLEAN :
  /\ Step(t, "unread", IF converted THEN "converted" ELSE "reporting")
  /\ UNCHANGED <<listed, res, file, seen, verdict>>

\* Synlig against yosys reading the output of sv2v.
SecondCheck(t) == \E o \in Outcomes :
  /\ Step(t, "converted", "reporting")
  /\ res' = [res EXCEPT ![t] = Reported(RunEqy(o))]
  /\ seen' = [seen EXCEPT ![t] = o]
  /\ UNCHANGED <<listed, file, verdict>>

\* log_result: open(..., "w"), then write and close.
OpenResult(t) ==
  /\ Step(t, "reporting", "writing")
  /\ file' = [file EXCEPT ![t] = "torn"]
  /\ UNCHANGED <<listed, res, seen, verdict>>

WriteResult(t) ==
  /\ Step(t, "writing", "done")
  /\ file' = [file EXCEPT ![t] = res[t]]
  /\ UNCHANGED <<listed, res, seen, verdict>>

\* Mutant: a process that was killed keeps the regression waiting.
Over_DoneOnly(t) == pc[t] = "done"

Over(t) == pc[t] \in {"done", "died"}

\* run.py is killed, or eqy left no logfile.txt and open() raises.
Die(t) ==
  /\ t \in Suite
  /\ ~Over(t)
  /\ pc' = [pc EXCEPT ![t] = "died"]
  /\ UNCHANGED <<listed, res, file, seen, verdict>>

-----------------------------------------------------------------------------
(* gather_fv_results.sh and results.py *)

Performed == {t \in Tests : file[t] # "none"}

\* The list gathered is not JSON: an empty result.json, or none at all.
Unreadable == Performed = {} \/ \E t \in Performed : file[t] = "torn"

Matches(expected, result) ==
  \/ expected = result
  \/ expected = "READ_FAIL" /\ result \in {"YOSYS_READ_FAIL", "SYNLIG_READ_FAIL"}

Different == {t \in Performed :
                listed[t] # "NOT_FOUND" /\ ~Matches(listed[t], file[t])}

NotInTestlist == {t \in Performed : listed[t] = "NOT_FOUND"}

\* Mutant: results.py compares only the results that are there.
NotPerformed_Ignored == {}

NotPerformed == {t \in Tests \ Performed : listed[t] # "NOT_FOUND"}

\* stats[test_result["result"]] += 1 raises for a key it does not have.
StatsRaise == \E t \in Performed : file[t] \notin Described

Crashes == Unreadable \/ StatsRaise

Summarise ==
  /\ \A t \in Suite : Over(t)
  /\ verdict = "running"
  /\ verdict' = IF Crashes \/ Different # {} \/ NotInTestlist # {}
                           \/ NotPerformed # {}
                THEN "failed" ELSE "ok"
  /\ UNCHANGED <<listed, pc, res, file, seen>>

-----------------------------------------------------------------------------
Run(t) ==
  \/ Prepare(t) \/ Skip(t) \/ FirstCheck(t) \/ Preprocess(t) \/ SecondCheck(t)
  \/ OpenResult(t) \/ WriteResult(t)

Next == Summarise \/ \E t \in Tests : Run(t) \/ Die(t)

\* make starts every test and run_command bounds every tool it waits for.
Fairness == WF_vars(Summarise) /\ \A t \in Suite : WF_vars(Run(t))

Spec == Init /\ [][Next]_vars /\ Fairness

-----------------------------------------------------------------------------
TypeOK ==
  /\ listed \in [Tests -> Expected]
  /\ pc \in [Tests -> {"idle", "prepared", "unread", "converted", "reporting",
                       "writing", "done", "died"}]
  /\ res \in [Tests -> Results]
  /\ file \in [Tests -> Results \cup {"none", "torn"}]
  /\ seen \in [Tests -> Outcomes \cup {Unseen}]
  /\ verdict \in {"running", "ok", "failed"}

\* What the last eqy run of t must have shown for the expectation e to be met;
\* a run that timed out is recorded as a FAIL (run.py:238).
Confirmed(t, e) ==
  LET o == seen[t] IN
  CASE e = "SKIP" -> o = Unseen
    [] e = "READ_FAIL" ->
         ~o.timedOut /\ o.log \cap {"YOSYS_READ_FAIL", "SYNLIG_READ_FAIL"} # {}
    [] e = "FAIL" -> o.timedOut \/ (o.log = {} /\ ~o.success)
    [] OTHER -> ~o.timedOut /\ e \in o.log

\* The regression succeeds only when every listed test was run to its end in
\* this regression and its last equivalence check showed what testlist.json
\* expects of it: no kill, half-written file, failed preprocessing or
\* classification order can turn another outcome into a success
\* (run.py main and run_eqy with results.py).
HonestSuccess ==
  verdict = "ok" => \A t \in Tests : listed[t] # "NOT_FOUND" =>
                      pc[t] = "done" /\ Confirmed(t, listed[t])

\* A recorded PASS means that equivalence was proved by the last check, and a
\* test never records PASS after a check that timed out or proved nothing.
PassIsProved == \A t \in Tests :
  pc[t] # "idle" /\ file[t] = "PASS" => /\ "PASS" \in seen[t].log
                                        /\ ~seen[t].timedOut

\* The regression comes to a verdict: no order of deaths, retries with sv2v
\* and reports keeps gather_fv_results.sh from being reached.
VerdictReached == <>(verdict # "running")
=============================================================================
