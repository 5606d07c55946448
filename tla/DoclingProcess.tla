--------------------------- MODULE DoclingProcess ---------------------------
(***************************************************************************)
(* One document parse: the router runs the native parser, decides by its   *)
(* quality whether Docling is needed, and runs Docling in a disposable     *)
(* process over a one-way pipe.                                            *)
(*                                                                         *)
(* The parent polls the pipe, the worker's life, the memory of its process *)
(* tree and the deadline, one after the other, while the worker runs.  On  *)
(* every exit it stops what it finds of the process tree.  A result counts *)
(* only when the worker has ended by itself with exit code 0.              *)
(*                                                                         *)
(* Time is the flag `late' (the deadline has passed) and the freedom of a  *)
(* bounded wait to end before what it waits for.  The memory of the tree   *)
(* is whatever a probe finds: within the limit, beyond it, or unreadable.  *)
(***************************************************************************)
EXTENDS Naturals, Sequences, FiniteSets

CONSTANT Helpers       \* processes the worker's libraries may start

\* Where a worker or parse came to an end, the value before that.
NoStatus == "parent_failure"

VARIABLES
  route,     \* quality.route: what the native artifact calls for
  parent,    \* the parsing call
  worker,    \* the disposable process
  pipe,      \* messages on the way, the last one perhaps incomplete
  helpers,   \* the processes the worker has started: unborn, live or gone
  late       \* the deadline has passed

vars == <<route, parent, worker, pipe, helpers, late>>

\* "R" ready, "S" a snapshot, "bad" a success message that does not validate
\* or is of another source type, "F" failure; "partial" is a message whose
\* rest is not written yet and "torn" one whose rest will never come.
Message == {"R", "S", "bad", "F", "partial", "torn"}
Results == {"S", "bad", "F"}

\* pc names the places of the code: the router (decide, adapt, release), the
\* waiting loop (poll, alive, memory, deadline, wait), the end of a result
\* (join, check) and _stop_process (list, terminate, kill, rest).
ParentType ==
  [pc      : {"decide", "start", "poll", "alive", "memory", "deadline", "wait",
              "join", "check", "list", "terminate", "kill", "rest",
              "adapt", "release", "done"},
   status  : {"parent_failure", "worker_crash", "memory_probe_failed", "memory_limit",
              "timeout", "result_too_large", "shutdown_timeout", "worker_failure",
              "protocol_failure", "success"},
   payload : Results \cup {"none"},
   listed  : SUBSET Helpers,
   outcome : {"none", "native", "docling", "hybrid", "failed", "rejected"}]

\* message is the result being written; a signalled worker has been asked to
\* terminate; code is its exit code, 1 also standing for death by a signal.
WorkerType ==
  [pc      : {"absent", "starting", "parsing", "writing", "written", "exited"},
   message : Results \cup {"none"},
   code    : {0, 1},
   reaped  : BOOLEAN]

Init ==
  /\ route \in {"native", "docling", "hybrid"}
  /\ parent = [pc |-> "decide", status |-> NoStatus, payload |-> "none",
               listed |-> {}, outcome |-> "none"]
  /\ worker = [pc |-> "absent", message |-> "none", code |-> 1, reaped |-> FALSE]
  /\ pipe = <<>>
  /\ helpers = [h \in Helpers |-> "unborn"]
  /\ late = FALSE

Live == {h \in Helpers : helpers[h] = "live"}
Ending(hs) == [h \in Helpers |-> IF h \in hs THEN "gone" ELSE helpers[h]]

Alive == worker.pc \in {"starting", "parsing", "writing", "written"}
Goto(pc) == parent' = [parent EXCEPT !.pc = pc]

\* raise _ProcessBoundaryFailure(status): the finally block stops the process.
Fail(status) == parent' = [parent EXCEPT !.pc = "list", !.status = status]

---------------------------------------------------------------------------
(* The router                                                              *)

\* A native parser that fails, or an unsafe document, ends the parse before any
\* process exists; the native route goes straight to the release gate.
Decide ==
  /\ parent.pc = "decide"
  /\ \/ parent' = [parent EXCEPT !.pc = "done", !.outcome = "failed"]
     \/ Goto(IF route = "native" THEN "release" ELSE "start")
  /\ UNCHANGED <<route, worker, pipe, helpers, late>>

\* Docling is disabled, the content too large or the adapted artifact empty: no
\* enhanced route falls back to the native artifact.
EnhancementFails ==
  /\ parent.pc \in {"start", "adapt"}
  /\ parent' = [parent EXCEPT !.pc = "done", !.outcome = "failed"]
  /\ UNCHANGED <<route, worker, pipe, helpers, late>>

Adapt ==
  /\ parent.pc = "adapt"
  /\ Goto("release")
  /\ UNCHANGED <<route, worker, pipe, helpers, late>>

\* The post-parse gate accepts the selected artifact or rejects it.
Release ==
  /\ parent.pc = "release"
  /\ parent' \in {[parent EXCEPT !.pc = "done", !.outcome = o] : o \in {route, "rejected"}}
  /\ UNCHANGED <<route, worker, pipe, helpers, late>>

---------------------------------------------------------------------------
(* The parent                                                              *)

StartWorker ==
  /\ parent.pc = "start"
  /\ worker' = [worker EXCEPT !.pc = "starting"]
  /\ Goto("poll")
  /\ UNCHANGED <<route, pipe, helpers, late>>

\* process.start() raises: there is no pid and nothing to stop.
StartFails ==
  /\ parent.pc = "start"
  /\ Fail(NoStatus)
  /\ UNCHANGED <<route, worker, pipe, helpers, late>>

\* An end of file shows only when nothing is left in the pipe and the writing
\* end is closed; it makes the poll succeed and the receive raise EOFError.
PipeClosed == pipe = <<>> /\ ~Alive

PollEmpty ==
  /\ parent.pc = "poll"
  /\ pipe = <<>> /\ ~PipeClosed
  /\ Goto("alive")
  /\ UNCHANGED <<route, worker, pipe, helpers, late>>

ReceiveEndOfFile ==
  /\ parent.pc = "poll"
  /\ PipeClosed
  /\ Fail("worker_crash")
  /\ UNCHANGED <<route, worker, pipe, helpers, late>>

\* recv_bytes has no deadline of its own: it waits for the rest of a message
\* that has begun.  A message that breaks off is an OSError, as is a message
\* beyond the limit, which the worker never sends.
Receive ==
  /\ parent.pc = "poll"
  /\ pipe # <<>> /\ Head(pipe) # "partial"
  /\ pipe' = Tail(pipe)
  /\ CASE Head(pipe) = "R"      -> UNCHANGED parent
       [] Head(pipe) = "torn"   -> Fail("result_too_large")
       [] Head(pipe) \in Results ->
            parent' = [parent EXCEPT !.pc = "join", !.payload = Head(pipe)]
  /\ UNCHANGED <<route, worker, helpers, late>>

\* is_alive() also reaps a worker that has ended.
CheckAlive ==
  /\ parent.pc = "alive"
  /\ IF Alive
     THEN Goto("memory") /\ UNCHANGED worker
     ELSE Fail("worker_crash") /\ worker' = [worker EXCEPT !.reaped = TRUE]
  /\ UNCHANGED <<route, pipe, helpers, late>>

\* A worker that has ended meanwhile counts as using no memory.
ProbeMemory ==
  /\ parent.pc = "memory"
  /\ \/ Goto("deadline")
     \/ Alive /\ Fail("memory_limit")
     \/ Alive /\ Fail("memory_probe_failed")
  /\ UNCHANGED <<route, worker, pipe, helpers, late>>

\* Mutant: the deadline is checked only until the worker is ready.
CheckDeadline_StartOnly ==
  /\ parent.pc = "deadline"
  /\ IF late /\ worker.pc = "starting" THEN Fail("timeout") ELSE Goto("wait")
  /\ UNCHANGED <<route, worker, pipe, helpers, late>>

CheckDeadline ==
  /\ parent.pc = "deadline"
  /\ IF late THEN Fail("timeout") ELSE Goto("wait")
  /\ UNCHANGED <<route, worker, pipe, helpers, late>>

\* poll(50 ms): its answer is not used.
Wait ==
  /\ parent.pc = "wait"
  /\ Goto("poll")
  /\ UNCHANGED <<route, worker, pipe, helpers, late>>

\* join(grace) returns when the worker has ended or the grace has passed.
Join ==
  /\ parent.pc = "join"
  /\ IF Alive
     THEN Fail("shutdown_timeout") /\ UNCHANGED worker
     ELSE Goto("check") /\ worker' = [worker EXCEPT !.reaped = TRUE]
  /\ UNCHANGED <<route, pipe, helpers, late>>

\* Mutant: the exit code is not looked at.
Check_AnyExitCode ==
  /\ parent.pc = "check"
  /\ Fail(CASE parent.payload = "F"    -> "worker_failure"
            [] parent.payload = "bad"  -> "protocol_failure"
            [] OTHER                   -> "success")
  /\ UNCHANGED <<route, worker, pipe, helpers, late>>

Check ==
  /\ parent.pc = "check"
  /\ Fail(IF worker.code # 0 THEN "worker_crash"
          ELSE CASE parent.payload = "F"    -> "worker_failure"
                 [] parent.payload = "bad"  -> "protocol_failure"
                 [] OTHER                   -> "success")
  /\ UNCHANGED <<route, worker, pipe, helpers, late>>

---------------------------------------------------------------------------
(* _stop_process                                                           *)

\* The children of a process that has ended cannot be listed any more, neither
\* before it is reaped (they have another parent) nor afterwards.
ListDescendants ==
  /\ parent.pc = "list"
  /\ parent' = [parent EXCEPT !.pc = "terminate",
                              !.listed = IF Alive THEN Live ELSE {}]
  /\ UNCHANGED <<route, worker, pipe, helpers, late>>

\* Whoever is asked to terminate may end at once, or only when it is killed.
Dead == [worker EXCEPT !.pc = "exited", !.code = 1]
Torn == IF pipe # <<>> /\ pipe[Len(pipe)] = "partial"
        THEN [pipe EXCEPT ![Len(pipe)] = "torn"] ELSE pipe

Terminate ==
  /\ parent.pc = "terminate"
  /\ IF Alive
     THEN \/ worker' = Dead /\ pipe' = Torn
          \/ UNCHANGED <<worker, pipe>>
     ELSE UNCHANGED <<worker, pipe>>
  /\ \E gone \in SUBSET (parent.listed \cap Live) : helpers' = Ending(gone)
  /\ Goto("kill")
  /\ UNCHANGED <<route, late>>

\* Mutant: the worker is only asked to terminate, never killed.
Kill_TerminateOnly ==
  /\ parent.pc = "kill"
  /\ worker' = [worker EXCEPT !.reaped = worker.pc = "exited"]
  /\ Goto("rest")
  /\ UNCHANGED <<route, pipe, helpers, late>>

\* join(grace), then kill() for a worker that is still alive.
Kill ==
  /\ parent.pc = "kill"
  /\ IF Alive THEN worker' = [Dead EXCEPT !.reaped = TRUE] /\ pipe' = Torn
              ELSE worker' = [worker EXCEPT !.reaped = worker.pc = "exited"] /\ pipe' = pipe
  /\ Goto("rest")
  /\ UNCHANGED <<route, helpers, late>>

\* wait_procs, then kill what is left of the descendants; the call returns the
\* snapshot or raises DocumentEnhancementError.
KillRest ==
  /\ parent.pc = "rest"
  /\ helpers' = Ending(parent.listed)
  /\ parent' = IF parent.status = "success"
               THEN [parent EXCEPT !.pc = "adapt"]
               ELSE [parent EXCEPT !.pc = "done", !.outcome = "failed"]
  /\ UNCHANGED <<route, worker, pipe, late>>

---------------------------------------------------------------------------
(* The worker                                                              *)

\* The ready message is a single byte and cannot be torn.
SendReady ==
  /\ worker.pc = "starting"
  /\ pipe' = Append(pipe, "R")
  /\ worker' = [worker EXCEPT !.pc = "parsing"]
  /\ UNCHANGED <<route, parent, helpers, late>>

StartHelper ==
  /\ worker.pc = "parsing"
  /\ \E h \in Helpers : helpers[h] = "unborn" /\ helpers' = [helpers EXCEPT ![h] = "live"]
  /\ UNCHANGED <<route, parent, worker, pipe, late>>

HelperEnds ==
  /\ \E h \in Live : helpers' = Ending({h})
  /\ UNCHANGED <<route, parent, worker, pipe, late>>

\* The conversion ends with a snapshot, or with an exception or a snapshot
\* beyond the limit, both of which are reported as failure.
BeginResult ==
  /\ worker.pc = "parsing"
  /\ \E m \in Results :
       worker' = [worker EXCEPT !.pc = "writing", !.message = m]
  /\ pipe' = Append(pipe, "partial")
  /\ UNCHANGED <<route, parent, helpers, late>>

EndResult ==
  /\ worker.pc = "writing"
  /\ pipe' = [pipe EXCEPT ![Len(pipe)] = worker.message]
  /\ worker' = [worker EXCEPT !.pc = "written"]
  /\ UNCHANGED <<route, parent, helpers, late>>

\* os._exit right after the pipe is closed, past any lingering library thread.
Exit ==
  /\ worker.pc = "written"
  /\ worker' = [worker EXCEPT !.pc = "exited", !.code = 0]
  /\ UNCHANGED <<route, parent, pipe, helpers, late>>

\* A fatal signal, the system's out-of-memory killer or an exit in a library.
WorkerDies ==
  /\ Alive
  /\ worker' = Dead
  /\ pipe' = Torn
  /\ UNCHANGED <<route, parent, helpers, late>>

DeadlinePasses ==
  /\ ~late /\ parent.pc # "done"
  /\ late' = TRUE
  /\ UNCHANGED <<route, parent, worker, pipe, helpers>>

Router == Decide \/ EnhancementFails \/ Adapt \/ Release
WaitLoop == PollEmpty \/ ReceiveEndOfFile \/ Receive \/ CheckAlive \/ ProbeMemory
            \/ CheckDeadline \/ Wait \/ Join \/ Check
StopProcess == ListDescendants \/ Terminate \/ Kill \/ KillRest
Parent == Router \/ StartWorker \/ StartFails \/ WaitLoop \/ StopProcess
Worker == SendReady \/ StartHelper \/ BeginResult \/ EndResult \/ Exit \/ WorkerDies

Next == Parent \/ Worker \/ HelperEnds \/ DeadlinePasses

\* The parent runs, time passes, and a write that has begun goes on: the worker
\* may be stuck anywhere else for ever.
Fairness == WF_vars(Parent) /\ WF_vars(DeadlinePasses) /\ WF_vars(EndResult)

Spec == Init /\ [][Next]_vars /\ Fairness

---------------------------------------------------------------------------
(* Properties                                                              *)

TypeOK ==
  /\ route \in {"native", "docling", "hybrid"}
  /\ parent \in ParentType
  /\ worker \in WorkerType
  /\ pipe \in Seq(Message)
  /\ helpers \in [Helpers -> {"unborn", "live", "gone"}]
  /\ late \in BOOLEAN

\* Only whole results are released: an enhanced artifact comes from a valid
\* snapshot that was read to its end, of a worker that ended by itself with
\* code 0; the native artifact alone is released only when the native route
\* was decided, never because Docling failed.  (routing.py: parse.)
OnlyWholeResults ==
  /\ parent.outcome \in {"docling", "hybrid"} =>
       /\ parent.outcome = route
       /\ parent.payload = "S" /\ worker.pc = "exited" /\ worker.code = 0
  /\ parent.outcome = "native" => route = "native" /\ worker.pc = "absent"

\* When the call goes on after Docling, its worker has ended and was reaped,
\* and so has every process of the tree that could be listed, whatever made
\* the loop end and whoever ignores the request to terminate.
WorkerIsGone ==
  parent.pc \in {"adapt", "release", "done"} /\ worker.pc # "absent" =>
    /\ worker.pc = "exited" /\ worker.reaped
    /\ parent.listed \cap Live = {}

\* Every parse comes back, although the worker may hang at any place except in
\* the middle of a write.
ParseReturns == <>(parent.pc = "done")
=============================================================================
