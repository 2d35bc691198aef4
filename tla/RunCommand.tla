----------------------------- MODULE RunCommand -----------------------------
(***************************************************************************)
(* tests/lib/python3/run_command.py: the parent process forks a command,   *)
(* collects what it writes to its pipes and reports how it ended.          *)
(*                                                                         *)
(* The actors are the parent (the code of run_command and                  *)
(* _handle_child_process), the child, one process the child may start and  *)
(* leave behind, which inherits the pipes, and the clock.  Data is counted *)
(* in chunks.  The parent monitors the child's pidfd and the read end of   *)
(* every captured pipe; with merged outputs there is one pipe.             *)
(***************************************************************************)
EXTENDS Integers, FiniteSets

CONSTANTS
    Pipes,       \* the captured pipes
    Timeouts,    \* whether run_command is given a timeout: a set of Booleans
    Capacity,    \* chunks a pipe holds before a writer blocks
    ReadMax,     \* chunks one os.read returns at most
    MaxChunks    \* bound: chunks written to one pipe

ASSUME RunConstants ==
    /\ "pid" \notin Pipes
    /\ Timeouts \subseteq BOOLEAN /\ Timeouts # {}
    /\ {Capacity, ReadMax, MaxChunks} \subseteq Nat \ {0}

Procs == {"child", "grandchild"}

VARIABLES
    at,        \* where the parent is
    fds,       \* what it monitors: "pid" and pipes
    ready,     \* rl: what the last select returned and is not handled yet
    got,       \* chunks in its buffers
    timedOut,  \* the result's timed_out
    live,      \* processes that run
    forked,    \* the child has started its process
    child,     \* the child as its parent sees it
    signalled, \* the parent has sent SIGKILL
    writers,   \* processes that hold the write end of a pipe
    pipe,      \* chunks in a pipe
    sent,      \* chunks written to a pipe so far
    deadline   \* "none", "ahead" or "over"

parent == <<at, fds, ready, got, timedOut>>
procs == <<live, forked, child>>
runVars == <<parent, procs, signalled, writers, pipe, sent, deadline>>

\* Mutant: standard error is captured but not monitored.
Monitored_Partly == {"pid"} \cup {p \in Pipes : p # "stderr"}

Monitored == {"pid"} \cup Pipes

\* Fork, and the parent closes its copies of the write ends.
RunInit ==
    /\ at = "loop"
    /\ fds = Monitored
    /\ ready = {}
    /\ got = [p \in Pipes |-> 0]
    /\ timedOut = FALSE
    /\ live = {"child"}
    /\ forked = FALSE
    /\ child = "running"
    /\ signalled = FALSE
    /\ writers = [p \in Pipes |-> {"child"}]
    /\ pipe = [p \in Pipes |-> 0]
    /\ sent = [p \in Pipes |-> 0]
    /\ \E given \in Timeouts : deadline = IF given THEN "ahead" ELSE "none"

Go(from, to) == at = from /\ at' = to

\* The parent has closed its read ends.
Closed == at \in {"kill", "wait", "done"}

------------------------------------------------------------------------------
(***************************************************************************)
(* The parent                                                              *)
(***************************************************************************)

\* Mutant: the loop ends when the child has ended.
LoopIsOver_PidOnly == "pid" \notin fds

\* while fds
LoopIsOver == fds = {}

LeaveLoop ==
    /\ Go("loop", "close")
    /\ LoopIsOver
    /\ UNCHANGED <<fds, ready, got, timedOut, procs, signalled, writers, pipe, sent, deadline>>

\* The time left is computed; a deadline that has passed ends the loop even
\* if there is something to read.
DeadlineAtTop ==
    /\ Go("loop", "close")
    /\ ~LoopIsOver
    /\ deadline = "over"
    /\ timedOut' = TRUE
    /\ UNCHANGED <<fds, ready, got, procs, signalled, writers, pipe, sent, deadline>>

EnterSelect ==
    /\ Go("loop", "select")
    /\ ~LoopIsOver
    /\ deadline # "over"
    /\ UNCHANGED <<fds, ready, got, timedOut, procs, signalled, writers, pipe, sent, deadline>>

\* A pidfd is readable when the process has ended, a pipe when it has data or
\* no writer is left.
Readable(fd) ==
    IF fd = "pid" THEN child # "running" ELSE pipe[fd] > 0 \/ writers[fd] = {}

ReadableFds == {fd \in fds : Readable(fd)}

SelectReturns ==
    /\ Go("select", "read")
    /\ ReadableFds # {}
    /\ ready' = ReadableFds
    /\ UNCHANGED <<fds, got, timedOut, procs, signalled, writers, pipe, sent, deadline>>

SelectTimesOut ==
    /\ Go("select", "close")
    /\ ReadableFds = {}
    /\ deadline = "over"
    /\ timedOut' = TRUE
    /\ UNCHANGED <<fds, ready, got, procs, signalled, writers, pipe, sent, deadline>>

\* for fd in rl: the loop body is over for fd.
Handled(fd) ==
    /\ ready' = ready \ {fd}
    /\ at' = IF ready' = {} THEN "loop" ELSE "read"

ChunkSizes(fd) == {n \in 1 .. ReadMax : n <= pipe[fd]}

ReadData(fd) ==
    /\ at = "read"
    /\ fd \in ready \ {"pid"}
    /\ pipe[fd] > 0
    /\ \E n \in ChunkSizes(fd) :
          /\ pipe' = [pipe EXCEPT ![fd] = @ - n]
          /\ got' = [got EXCEPT ![fd] = @ + n]
    /\ Handled(fd)
    /\ UNCHANGED <<fds, timedOut, procs, signalled, writers, sent, deadline>>

\* Mutant: an empty chunk is stored like any other.
StopMonitoring_No(fd) == fds' = fds

\* Mutant: the end of the process ends the monitoring of all, while pipes that
\* the same select returned are still to be read.
StopMonitoring_All(fd) == fds' = IF fd = "pid" THEN {} ELSE fds \ {fd}

StopMonitoring(fd) == fds' = fds \ {fd}

\* End of file, or the process has ended; os.read blocks on an empty pipe that
\* still has a writer.
HandleEnd(fd) ==
    /\ at = "read"
    /\ fd \in ready
    /\ fd # "pid" => pipe[fd] = 0 /\ writers[fd] = {}
    /\ StopMonitoring(fd)
    /\ Handled(fd)
    /\ UNCHANGED <<got, timedOut, procs, signalled, writers, pipe, sent, deadline>>

CloseFds ==
    /\ Go("close", IF timedOut THEN "kill" ELSE "wait")
    /\ UNCHANGED <<fds, ready, got, timedOut, procs, signalled, writers, pipe, sent, deadline>>

\* Mutant: the child is asked to end, not killed.
SendKill_Term == UNCHANGED signalled

SendKill == signalled' = TRUE

Kill ==
    /\ Go("kill", "wait")
    /\ SendKill
    /\ UNCHANGED <<fds, ready, got, timedOut, procs, writers, pipe, sent, deadline>>

\* os.wait3(0)
Wait ==
    /\ Go("wait", "done")
    /\ child = "zombie"
    /\ child' = "reaped"
    /\ UNCHANGED <<fds, ready, got, timedOut, live, forked, signalled, writers, pipe, sent, deadline>>

Parent ==
    \/ LeaveLoop \/ DeadlineAtTop \/ EnterSelect \/ SelectReturns \/ SelectTimesOut
    \/ \E fd \in ready \ {"pid"} : ReadData(fd)
    \/ \E fd \in ready : HandleEnd(fd)
    \/ CloseFds \/ Kill \/ Wait

------------------------------------------------------------------------------
(***************************************************************************)
(* The command and the clock                                               *)
(***************************************************************************)

Write(q, p) ==
    /\ q \in writers[p]
    /\ ~Closed
    /\ pipe[p] < Capacity
    /\ sent[p] < MaxChunks
    /\ pipe' = [pipe EXCEPT ![p] = @ + 1]
    /\ sent' = [sent EXCEPT ![p] = @ + 1]
    /\ UNCHANGED <<parent, procs, signalled, writers, deadline>>

ClosePipe(q, p) ==
    /\ q \in writers[p]
    /\ writers' = [writers EXCEPT ![p] = @ \ {q}]
    /\ UNCHANGED <<parent, procs, signalled, pipe, sent, deadline>>

\* The child starts a process that inherits what the child has open.
Fork ==
    /\ "child" \in live
    /\ ~forked
    /\ forked' = TRUE
    /\ live' = live \cup {"grandchild"}
    /\ writers' = [p \in Pipes |->
                      IF "child" \in writers[p] THEN writers[p] \cup {"grandchild"} ELSE writers[p]]
    /\ UNCHANGED <<parent, child, signalled, pipe, sent, deadline>>

\* A process ends: by itself, by SIGPIPE when it writes to a pipe the parent
\* closed, or, the child, by SIGKILL.
End(q) ==
    /\ q \in live
    /\ live' = live \ {q}
    /\ writers' = [p \in Pipes |-> writers[p] \ {q}]
    /\ child' = IF q = "child" THEN "zombie" ELSE child
    /\ UNCHANGED <<parent, forked, signalled, pipe, sent, deadline>>

DieKilled == signalled /\ End("child")

Expire ==
    /\ deadline = "ahead"
    /\ deadline' = "over"
    /\ UNCHANGED <<parent, procs, signalled, writers, pipe, sent>>

Command ==
    \/ \E q \in Procs : \E p \in Pipes : Write(q, p) \/ ClosePipe(q, p)
    \/ Fork
    \/ \E q \in Procs : End(q)

RunNext == Parent \/ Command \/ Expire

\* The parent is scheduled, the clock runs and a SIGKILL is delivered; nothing
\* is assumed of the command.
RunFairness == WF_runVars(Parent) /\ WF_runVars(Expire) /\ WF_runVars(DieKilled)

RunSpec == RunInit /\ [][RunNext]_runVars /\ RunFairness

------------------------------------------------------------------------------
RunTypeOK ==
    /\ at \in {"loop", "select", "read", "close", "kill", "wait", "done"}
    /\ fds \subseteq Pipes \cup {"pid"}
    /\ ready \subseteq fds
    /\ got \in [Pipes -> Nat]
    /\ timedOut \in BOOLEAN
    /\ live \subseteq Procs
    /\ forked \in BOOLEAN
    /\ child \in {"running", "zombie", "reaped"}
    /\ signalled \in BOOLEAN
    /\ writers \in [Pipes -> SUBSET Procs]
    /\ pipe \in [Pipes -> Nat]
    /\ sent \in [Pipes -> Nat]
    /\ deadline \in {"none", "ahead", "over"}

\* A result that is not a time-out holds everything the command and what it
\* left behind wrote to the captured pipes, and nobody can write any more.
OutputComplete ==
    at = "done" /\ ~timedOut =>
        \A p \in Pipes : got[p] = sent[p] /\ writers[p] = {}

\* A writer blocked on a full pipe is not left so while the parent reads, with
\* however much traffic on the other pipe.
FullPipesDrain ==
    \A p \in Pipes : (pipe[p] = Capacity /\ ~Closed) ~> (pipe[p] < Capacity \/ Closed)

\* With a timeout the call returns, whatever the command and its descendants do.
Returns == deadline # "none" ~> at = "done"

\* Without one it returns once no process is left.
ReturnsWhenAllEnded == (live = {}) ~> (at = "done")

=============================================================================
