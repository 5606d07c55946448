---------------------------- MODULE AgentGateway ----------------------------
(***************************************************************************)
(* One conversation thread of the agent gateway (app/agents/gateway.py)    *)
(* with its tables (app/services/agent_runtime.py): how message requests   *)
(* start, resume or replay root runs, and what reaches the database when.  *)
(*                                                                         *)
(* A handler is one call of AgentGateway.run.  Its transactions are one    *)
(* action each.  Everything in run() but the supervisor is synchronous, so *)
(* a handler keeps its process's event loop except while it awaits the     *)
(* supervisor; several handlers share a process.  The task board of a plan *)
(* is represented by the one row the plan's current task has; the module   *)
(* SupervisorGraph has the plans of several tasks.                         *)
(***************************************************************************)
EXTENDS Naturals, Sequences, FiniteSets

CONSTANTS
  Requests,     \* request ids a client may send, any number of times
  Handlers,     \* calls of run() that can be in progress at once
  Processes,    \* server processes
  ProcessOf,    \* the process a handler runs in
  Roots,        \* ids of root runs
  Plans,        \* plan ids the planner may make up
  DirectPlans,  \* those of plans that need no worker
  MaxResumes,   \* MAX_AGENT_RESUMES
  MaxAttempts,  \* bound of the model: calls of run() in a behaviour
  MaxCrashes    \* bound of the model: process crashes in a behaviour

ASSUME SetsAssumption ==
  /\ IsFiniteSet(Requests) /\ IsFiniteSet(Roots)
  /\ ProcessOf \in [Handlers -> Processes]
  /\ DirectPlans \subseteq Plans
ASSUME BoundsAssumption ==
  MaxResumes \in Nat /\ MaxAttempts \in Nat /\ MaxCrashes \in Nat

None == "none"
ASSUME NoneAssumption ==
  None \notin Requests \cup Handlers \cup Roots \cup Plans

VARIABLES
  roots,      \* root id -> "absent" or the status of its agent_runs row
  boards,     \* root id -> the plan saved in agent_tasks and its current row
  log,        \* the thread's agent_checkpoints in the order they were added
  granted,    \* whether the user may still read what the runs refer to
  handlers,   \* handler -> its program counter and local variables
  loop,       \* process -> the handler that holds its event loop, or None
  delivered,  \* request id -> the checkpoints its responses were made from
  attempts, crashes

tables == <<roots, boards, log>>
vars == <<roots, boards, log, granted, handlers, loop, delivered, attempts,
          crashes>>

Status == {"waiting", "running", "waiting_user", "completed", "failed"}

\* The business outcomes the control flow tells apart: "answered" stands for
\* answered, partial and no_evidence, "unsupported" for what is refused,
\* "system_error" for timed_out and system_error.
Outcomes == {"answered", "unsupported", "denied", "system_error"}

\* EngineeredAgentState: task is the status of the plan's current task, current
\* whether current_task_id is set, result the outcome of the task's worker
\* result ("asked" when the worker asked the user), refs whether evidence or
\* artifact ids are held, over whether the accumulated duration is beyond the
\* root's total timeout.
State ==
  [request: Requests \cup {None}, processed: SUBSET Requests, status: Status,
   outcome: Outcomes \cup {None}, plan: Plans \cup {None},
   task: Status \cup {None}, current: BOOLEAN,
   result: Outcomes \cup {"asked", None}, refs: BOOLEAN,
   resumes: 0..MaxResumes, replans: 0..1, over: BOOLEAN]
Checkpoint == [root: Roots, version: Nat, state: State]
Board == [plan: Plans \cup {None}, task: Status \cup {None},
          outcome: Outcomes \cup {None}, workers: BOOLEAN]
Pcs == {"idle", "load", "replay", "claim", "begin", "resume",
        "budget", "plan", "decide", "worker", "answer", "authorize", "finish",
        "deny"}
Handler ==
  [pc: Pcs, request: Requests \cup {None}, root: Roots \cup {None},
   expected: Nat, replan: BOOLEAN, state: State]

NoBoard == [plan |-> None, task |-> None, outcome |-> None, workers |-> FALSE]
NoState ==
  [request |-> None, processed |-> {}, status |-> "running", outcome |-> None,
   plan |-> None, task |-> None, current |-> FALSE, result |-> None,
   refs |-> FALSE, resumes |-> 0, replans |-> 0, over |-> FALSE]
Idle == [pc |-> "idle", request |-> None, root |-> None, expected |-> 0,
         replan |-> FALSE, state |-> NoState]

Init ==
  /\ roots = [i \in Roots |-> "absent"]
  /\ boards = [i \in Roots |-> NoBoard]
  /\ log = <<>>
  /\ granted = TRUE
  /\ handlers = [h \in Handlers |-> Idle]
  /\ loop = [p \in Processes |-> None]
  /\ delivered = [r \in Requests |-> {}]
  /\ attempts = 0
  /\ crashes = 0

(***************************************************************************)
(* A definition named X_Y is X with the defect Y; the model does not use   *)
(* it, and a property of the runs fails when it takes X's place.           *)
(***************************************************************************)

(***************************************************************************)
(* Queries of the repository.                                              *)
(***************************************************************************)
Newest(S) == CHOOSE k \in S : \A j \in S : j <= k

OfRoot(i) == {k \in DOMAIN log : log[k].root = i}
Version(i) == Cardinality(OfRoot(i))
Latest(i) == log[Newest(OfRoot(i))].state

OfRequest(r) == {k \in DOMAIN log : log[k].state.request = r}
Replayed(r) == log[Newest(OfRequest(r))]

ActiveRoots == {i \in Roots : roots[i] \in {"running", "waiting_user"}}
WaitingRoots == {i \in Roots : roots[i] = "waiting_user"}

\* agent_tasks and agent_runs: CHECK (status_outcome_consistent).
RowAllowed(status, outcome) ==
  CASE status = "completed" -> outcome \in {"answered", "unsupported", "denied"}
    [] status = "failed"    -> outcome = "system_error"
    [] OTHER                -> outcome = None

(***************************************************************************)
(* The event loop.                                                         *)
(***************************************************************************)
At(h, pc) == handlers[h].pc = pc
LoopFree(h) == loop[ProcessOf[h]] = None
TakeLoop(h) == loop' = [loop EXCEPT ![ProcessOf[h]] = h]
DropLoop(h) == loop' = [loop EXCEPT ![ProcessOf[h]] = None]

\* A handler goes on, or returns or raises.  Which error is raised makes no
\* difference: an error response leaves nothing behind.
Goto(h, pc) == handlers' = [handlers EXCEPT ![h].pc = pc]
End(h) == handlers' = [handlers EXCEPT ![h] = Idle] /\ DropLoop(h)

(***************************************************************************)
(* save_checkpoint: append under the lock of the root row when the caller  *)
(* expects the current version and the board holds the state's plan.       *)
(***************************************************************************)
Savable_NoVersionCheck(s, i, expected) == s.plan # None => s.plan = boards[i].plan
Savable(s, i, expected) ==
  /\ s.plan # None => s.plan = boards[i].plan
  /\ expected = Version(i)
Save(s, i) ==
  /\ log' = Append(log, [root |-> i, version |-> Version(i) + 1, state |-> s])
  /\ roots' = [roots EXCEPT ![i] = s.status]

\* _all_state_references, and whether each of them can still be read.
Authorized(s) == s.refs => granted

\* _denied_reference_state
Denied(s) ==
  [s EXCEPT !.status = "completed", !.outcome = "denied", !.current = FALSE,
            !.result = None, !.refs = FALSE]

(***************************************************************************)
(* A request arrives: replay, resume or start.  The same id with another   *)
(* message is refused like a request that is still running.                *)
(***************************************************************************)
Receive(h, r) ==
  /\ At(h, "idle") /\ LoopFree(h)
  /\ attempts < MaxAttempts
  /\ attempts' = attempts + 1
  /\ handlers' = [handlers EXCEPT ![h] = [Idle EXCEPT !.pc = "load", !.request = r]]
  /\ TakeLoop(h)
  /\ UNCHANGED <<tables, granted, delivered, crashes>>

ReplayRefused(h) ==
  /\ At(h, "load") /\ OfRequest(handlers[h].request) # {}
  /\ End(h)
  /\ UNCHANGED <<tables, granted, delivered, attempts, crashes>>

Ended_FailedOnly(s) == s.status = "failed"
Ended(s) == s.status = "failed" \/ s.outcome = "denied"

ReplayEnded(h) ==
  /\ At(h, "load") /\ OfRequest(handlers[h].request) # {}
  /\ LET s == Replayed(handlers[h].request).state IN
       /\ Ended(s)
       /\ End(h)
  /\ UNCHANGED <<tables, granted, delivered, attempts, crashes>>

ReplayFound_LatestOfRoot(h) ==
  /\ At(h, "load") /\ OfRequest(handlers[h].request) # {}
  /\ LET c == log[Newest(OfRoot(Replayed(handlers[h].request).root))] IN
       /\ c.state.status # "running" /\ ~Ended(c.state)
       /\ handlers' = [handlers EXCEPT
            ![h] = [@ EXCEPT !.pc = "replay", !.root = c.root,
                             !.expected = c.version, !.state = c.state]]
  /\ UNCHANGED <<tables, granted, loop, delivered, attempts, crashes>>
ReplayFound(h) ==
  /\ At(h, "load") /\ OfRequest(handlers[h].request) # {}
  /\ LET c == Replayed(handlers[h].request) IN
       /\ c.state.status # "running" /\ ~Ended(c.state)
       /\ handlers' = [handlers EXCEPT
            ![h] = [@ EXCEPT !.pc = "replay", !.root = c.root,
                             !.expected = c.version, !.state = c.state]]
  /\ UNCHANGED <<tables, granted, loop, delivered, attempts, crashes>>

Deliver(h, version) ==
  delivered' = [delivered EXCEPT
    ![handlers[h].request] = @ \cup {<<handlers[h].root, version>>}]

ReplayAnswered(h) ==
  /\ At(h, "replay") /\ Authorized(handlers[h].state)
  /\ Deliver(h, handlers[h].expected)
  /\ End(h)
  /\ UNCHANGED <<tables, granted, attempts, crashes>>

ReplayRevoked(h) ==
  /\ At(h, "replay") /\ ~Authorized(handlers[h].state)
  /\ Goto(h, "deny")
  /\ UNCHANGED <<tables, granted, loop, delivered, attempts, crashes>>

Unknown(h) ==
  /\ At(h, "load") /\ OfRequest(handlers[h].request) = {}
  /\ Goto(h, "claim")
  /\ UNCHANGED <<tables, granted, loop, delivered, attempts, crashes>>

Claimable_NoLimit(i, r) ==
  LET s == Latest(i) IN
    /\ s.status = "waiting_user"
    /\ s.plan # None /\ s.current
    /\ r \notin s.processed
    /\ s.plan = boards[i].plan
Claimable(i, r) ==
  LET s == Latest(i) IN
    /\ s.status = "waiting_user"
    /\ s.plan # None /\ s.current
    /\ s.resumes < MaxResumes
    /\ r \notin s.processed
    /\ s.plan = boards[i].plan

Claimed(s, r) ==
  [s EXCEPT !.request = r, !.processed = @ \cup {r}, !.resumes = @ + 1,
            !.status = "running", !.outcome = None, !.task = "waiting"]

Claim(h, i) ==
  /\ At(h, "claim") /\ i \in WaitingRoots
  /\ Claimable(i, handlers[h].request)
  /\ LET c == Claimed(Latest(i), handlers[h].request) IN
       /\ Save(c, i)
       /\ boards' = [boards EXCEPT ![i].task = "waiting"]
       /\ handlers' = [handlers EXCEPT
            ![h] = [@ EXCEPT !.pc = "resume", !.root = i,
                             !.expected = Version(i) + 1, !.state = c]]
  /\ UNCHANGED <<granted, loop, delivered, attempts, crashes>>

ClaimRefused(h) ==
  /\ At(h, "claim")
  /\ \E i \in WaitingRoots : ~Claimable(i, handlers[h].request)
  /\ End(h)
  /\ UNCHANGED <<tables, granted, delivered, attempts, crashes>>

NothingToClaim(h) ==
  /\ At(h, "claim") /\ WaitingRoots = {}
  /\ Goto(h, "begin")
  /\ UNCHANGED <<tables, granted, loop, delivered, attempts, crashes>>

InitialState(r) == [NoState EXCEPT !.request = r, !.processed = {r}]

Begin_BlockingLoop(h, i) ==
  /\ At(h, "begin") /\ ActiveRoots = {} /\ roots[i] = "absent"
  /\ LET s == InitialState(handlers[h].request) IN
       /\ Save(s, i)
       /\ handlers' = [handlers EXCEPT
            ![h] = [@ EXCEPT !.pc = "plan", !.root = i, !.expected = 1,
                             !.state = s]]
  /\ UNCHANGED <<boards, granted, loop, delivered, attempts, crashes>>
\* The new root and its first checkpoint are one transaction; then run() awaits.
Begin(h, i) ==
  /\ At(h, "begin") /\ ActiveRoots = {} /\ roots[i] = "absent"
  /\ LET s == InitialState(handlers[h].request) IN
       /\ Save(s, i)
       /\ handlers' = [handlers EXCEPT
            ![h] = [@ EXCEPT !.pc = "plan", !.root = i, !.expected = 1,
                             !.state = s]]
  /\ DropLoop(h)
  /\ UNCHANGED <<boards, granted, delivered, attempts, crashes>>

BeginRefused(h) ==
  /\ At(h, "begin") /\ ActiveRoots # {}
  /\ End(h)
  /\ UNCHANGED <<tables, granted, delivered, attempts, crashes>>

ResumeAuthorized(h) ==
  /\ At(h, "resume") /\ Authorized(handlers[h].state)
  /\ Goto(h, "budget")
  /\ UNCHANGED <<tables, granted, loop, delivered, attempts, crashes>>

ResumeRevoked(h) ==
  /\ At(h, "resume") /\ ~Authorized(handlers[h].state)
  /\ Goto(h, "deny")
  /\ UNCHANGED <<tables, granted, loop, delivered, attempts, crashes>>

\* AgentBudgetTree raises on a restore beyond the root's limits.
BudgetRefused(h) ==
  /\ At(h, "budget") /\ handlers[h].state.over
  /\ End(h)
  /\ UNCHANGED <<tables, granted, delivered, attempts, crashes>>

Resumed(h) ==
  /\ At(h, "budget") /\ ~handlers[h].state.over
  /\ LET s == handlers[h].state
         replan == s.result = None /\ s.replans = 0
     IN handlers' = [handlers EXCEPT
          ![h].pc = IF replan THEN "plan" ELSE "decide",
          ![h].replan = replan,
          ![h].state.refs = ~replan /\ s.refs]
  /\ DropLoop(h)
  /\ UNCHANGED <<tables, granted, delivered, attempts, crashes>>

(***************************************************************************)
(* The awaited supervisor.  What it does in memory shows only in the state *)
(* it returns and in the task board it writes on the way.                  *)
(***************************************************************************)
Active(task) == task \in {"waiting", "running", "waiting_user"}
Settled(task, to) == IF Active(task) THEN to ELSE task

\* The supervisor returns s.  Only a pause can be resumed, so only there does
\* it matter whether the time is used up.
Return(h, s) ==
  \E late \in BOOLEAN :
    /\ late => s.status = "waiting_user"
    /\ handlers' = [handlers EXCEPT ![h].pc = "authorize",
                                    ![h].state = [s EXCEPT !.over = late]]

\* create_plan, persisted by _PlanPersistenceProvider before the graph goes on.
PlanSavable(h, i) ==
  IF handlers[h].replan
  THEN /\ roots[i] = "running" /\ boards[i].plan # None
       /\ boards[i].task \in {"waiting", "waiting_user"}
       /\ ~boards[i].workers
  ELSE boards[i].plan = None

SavePlan(h, p) ==
  LET i == handlers[h].root IN
    /\ At(h, "plan") /\ PlanSavable(h, i)
    /\ \A j \in Roots : boards[j].plan # p
    /\ \A k \in DOMAIN log : log[k].state.plan # p
    /\ boards' = [boards EXCEPT
         ![i] = [NoBoard EXCEPT !.plan = p, !.task = "waiting"]]
    /\ handlers' = [handlers EXCEPT
         ![h].pc = IF p \in DirectPlans THEN "answer" ELSE "decide",
         ![h].state.plan = p, ![h].state.task = "waiting"]
    /\ UNCHANGED <<roots, log, granted, loop, delivered, attempts, crashes>>

Failed(s) ==
  [s EXCEPT !.status = "failed", !.outcome = "system_error", !.current = FALSE,
            !.task = Settled(@, "failed")]

\* A provider error, an invalid output, an exhausted budget or guardrail.
GraphFails(h) ==
  /\ \E pc \in {"plan", "decide", "answer"} : At(h, pc)
  /\ Return(h, Failed(handlers[h].state))
  /\ UNCHANGED <<tables, granted, loop, delivered, attempts, crashes>>

AskUser(h) ==
  /\ At(h, "decide")
  /\ Return(h, [handlers[h].state EXCEPT !.status = "waiting_user",
                   !.task = "waiting_user", !.current = TRUE])
  /\ UNCHANGED <<tables, granted, loop, delivered, attempts, crashes>>

\* FinishAction and CannotCompleteAction settle the tasks that are still active.
\* A new plan keeps the old plan's current task: when no task of the new plan
\* has that id, its task is left as it is.
Finished(s, task) ==
  [s EXCEPT !.status = "completed", !.outcome = "answered", !.current = FALSE,
            !.task = task]
CannotComplete(s, o, task) ==
  [s EXCEPT !.status = IF o = "system_error" THEN "failed" ELSE "completed",
            !.outcome = o, !.current = FALSE, !.task = task]

LeftTasks(h, to) ==
  {Settled(handlers[h].state.task, to)} \cup
    IF handlers[h].replan /\ At(h, "answer") THEN {handlers[h].state.task} ELSE {}

Finish(h) ==
  /\ At(h, "decide") \/ At(h, "answer")
  /\ \E task \in LeftTasks(h, "completed") :
       Return(h, Finished(handlers[h].state, task))
  /\ UNCHANGED <<tables, granted, loop, delivered, attempts, crashes>>

Refuse(h) ==
  /\ At(h, "decide") \/ At(h, "answer")
  /\ \E task \in LeftTasks(h, "failed"), o \in Outcomes \ {"answered"} :
       Return(h, CannotComplete(handlers[h].state, o, task))
  /\ UNCHANGED <<tables, granted, loop, delivered, attempts, crashes>>

\* start_worker_run claims the row; an exception of it is GraphFails.
StartWorker(h) ==
  LET i == handlers[h].root IN
    /\ At(h, "decide") /\ boards[i].task = "waiting"
    /\ boards' = [boards EXCEPT ![i].task = "running", ![i].workers = TRUE]
    /\ handlers' = [handlers EXCEPT ![h].pc = "worker",
                                    ![h].state.task = "running"]
    /\ UNCHANGED <<roots, log, granted, loop, delivered, attempts, crashes>>

WorkerCompletes(h, o, refs) ==
  LET i == handlers[h].root IN
    /\ At(h, "worker") /\ o \in Outcomes \ {"system_error"}
    /\ boards' = [boards EXCEPT ![i].task = "completed", ![i].outcome = o]
    /\ handlers' = [handlers EXCEPT
         ![h].pc = "answer",
         ![h].state = [handlers[h].state EXCEPT
                         !.task = "completed", !.result = o, !.current = FALSE,
                         !.refs = handlers[h].state.refs \/ refs]]
    /\ UNCHANGED <<roots, log, granted, loop, delivered, attempts, crashes>>

WorkerAsks(h, refs) ==
  LET i == handlers[h].root IN
    /\ At(h, "worker")
    /\ boards' = [boards EXCEPT ![i].task = "waiting_user"]
    /\ Return(h, [handlers[h].state EXCEPT !.status = "waiting_user",
                     !.task = "waiting_user", !.result = "asked",
                     !.refs = @ \/ refs, !.current = TRUE])
    /\ UNCHANGED <<roots, log, granted, loop, delivered, attempts, crashes>>

WorkerFails(h, refs) ==
  LET i == handlers[h].root IN
    /\ At(h, "worker")
    /\ boards' = [boards EXCEPT ![i].task = "failed", ![i].outcome = "system_error"]
    /\ Return(h, [Failed(handlers[h].state) EXCEPT !.result = "system_error",
                                               !.refs = @ \/ refs])
    /\ UNCHANGED <<roots, log, granted, loop, delivered, attempts, crashes>>

\* The worker raises, or the graph rejects the result it has recorded.
WorkerRaises(h) ==
  LET i == handlers[h].root IN
    /\ At(h, "worker")
    /\ \/ UNCHANGED boards
       \/ boards' = [boards EXCEPT ![i].task = "completed", ![i].outcome = "answered"]
    /\ Return(h, Failed(handlers[h].state))
    /\ UNCHANGED <<roots, log, granted, loop, delivered, attempts, crashes>>

(***************************************************************************)
(* After the supervisor: authorize again, then save everything at once.    *)
(***************************************************************************)
Merged(h) ==
  [handlers[h].state EXCEPT !.replans = IF handlers[h].replan THEN @ + 1 ELSE @]

FinalAuthorized(h) ==
  /\ At(h, "authorize") /\ LoopFree(h)
  /\ Authorized(handlers[h].state)
  /\ handlers' = [handlers EXCEPT ![h].pc = "finish", ![h].state = Merged(h)]
  /\ TakeLoop(h)
  /\ UNCHANGED <<tables, granted, delivered, attempts, crashes>>

FinalRevoked(h) ==
  /\ At(h, "authorize") /\ LoopFree(h)
  /\ ~Authorized(handlers[h].state)
  /\ handlers' = [handlers EXCEPT ![h].pc = "deny", ![h].state = Merged(h)]
  /\ TakeLoop(h)
  /\ UNCHANGED <<tables, granted, delivered, attempts, crashes>>

\* The denied state is saved without a look at the task board's rows.
Deny(h) ==
  LET i == handlers[h].root
      s == Denied(handlers[h].state)
  IN /\ At(h, "deny") /\ Savable(s, i, handlers[h].expected)
     /\ Save(s, i)
     /\ End(h)
     /\ UNCHANGED <<boards, granted, delivered, attempts, crashes>>

DenyRefused(h) ==
  LET i == handlers[h].root
      s == Denied(handlers[h].state)
  IN /\ At(h, "deny") /\ ~Savable(s, i, handlers[h].expected)
     /\ End(h)
     /\ UNCHANGED <<tables, granted, delivered, attempts, crashes>>

Synchronized_TerminalOnly(s, row) ==
  IF s.plan = None \/ s.task \notin {"completed", "failed"} THEN row
  ELSE [row EXCEPT
         !.task = s.task,
         !.outcome = IF s.result \in Outcomes THEN s.result ELSE s.outcome]
\* synchronize_task_board: the row takes the task's status and the outcome of
\* its result, or the state's outcome when it ended without one.
Synchronized(s, row) ==
  IF s.plan = None THEN row
  ELSE [row EXCEPT
         !.task = s.task,
         !.outcome = IF s.result \in Outcomes THEN s.result
                     ELSE IF s.task \in {"completed", "failed"} THEN s.outcome
                     ELSE None]

\* The whole transaction of _finish_root can commit.
Finishable(h) ==
  LET s == handlers[h].state
      row == Synchronized(s, boards[handlers[h].root])
  IN /\ Savable(s, handlers[h].root, handlers[h].expected)
     /\ s.plan # None => RowAllowed(row.task, row.outcome)

FinishRoot(h) ==
  LET i == handlers[h].root
      s == handlers[h].state
  IN /\ At(h, "finish") /\ Finishable(h)
     /\ boards' = [boards EXCEPT ![i] = Synchronized(s, @)]
     /\ Save(s, i)
     /\ End(h)
     /\ IF Ended(s) THEN UNCHANGED delivered ELSE Deliver(h, Version(i) + 1)
     /\ UNCHANGED <<granted, attempts, crashes>>

\* The database refuses: everything is rolled back and the error goes up.
FinishRefused(h) ==
  /\ At(h, "finish") /\ ~Finishable(h)
  /\ End(h)
  /\ UNCHANGED <<tables, granted, delivered, attempts, crashes>>

(***************************************************************************)
(* The environment.                                                        *)
(***************************************************************************)
Crash(p) ==
  /\ crashes < MaxCrashes
  /\ crashes' = crashes + 1
  /\ handlers' = [h \in Handlers |-> IF ProcessOf[h] = p THEN Idle ELSE handlers[h]]
  /\ loop' = [loop EXCEPT ![p] = None]
  /\ UNCHANGED <<tables, granted, delivered, attempts>>

ChangeGrant ==
  /\ granted' = ~granted
  /\ UNCHANGED <<tables, handlers, loop, delivered, attempts, crashes>>

Supervise(h) ==
  \/ \E p \in Plans : SavePlan(h, p)
  \/ GraphFails(h) \/ AskUser(h) \/ Finish(h) \/ Refuse(h)
  \/ StartWorker(h)
  \/ \E o \in Outcomes, refs \in BOOLEAN : WorkerCompletes(h, o, refs)
  \/ \E refs \in BOOLEAN : WorkerAsks(h, refs) \/ WorkerFails(h, refs)
  \/ WorkerRaises(h)

Run(h) ==
  \/ ReplayRefused(h) \/ ReplayEnded(h) \/ ReplayFound(h)
  \/ ReplayAnswered(h) \/ ReplayRevoked(h) \/ Unknown(h)
  \/ \E i \in Roots : Claim(h, i)
  \/ ClaimRefused(h) \/ NothingToClaim(h)
  \/ \E i \in Roots : Begin(h, i)
  \/ BeginRefused(h)
  \/ ResumeAuthorized(h) \/ ResumeRevoked(h) \/ BudgetRefused(h) \/ Resumed(h)
  \/ FinalAuthorized(h) \/ FinalRevoked(h)
  \/ Deny(h) \/ DenyRefused(h) \/ FinishRoot(h) \/ FinishRefused(h)

Next ==
  \/ \E h \in Handlers : Run(h) \/ Supervise(h)
  \/ \E h \in Handlers, r \in Requests : Receive(h, r)
  \/ \E p \in Processes : Crash(p)
  \/ ChangeGrant

Spec == Init /\ [][Next]_vars

\* The event loop runs what is runnable, and providers and workers answer or
\* time out: a call of run() never stops half-way unless its process dies.
FairSpec == Spec /\ \A h \in Handlers : WF_vars(Run(h) \/ Supervise(h))

(***************************************************************************)
(* Properties.                                                             *)
(***************************************************************************)

\* Every variable has the shape of the rows and locals it stands for.
TypeOK ==
  /\ roots \in [Roots -> Status \cup {"absent"}]
  /\ boards \in [Roots -> Board]
  /\ log \in Seq(Checkpoint)
  /\ granted \in BOOLEAN
  /\ handlers \in [Handlers -> Handler]
  /\ loop \in [Processes -> Handlers \cup {None}]
  /\ delivered \in [Requests -> SUBSET (Roots \X Nat)]
  /\ attempts \in 0..MaxAttempts
  /\ crashes \in 0..MaxCrashes

\* A root that waits for the user can be claimed by the next request until the
\* resumes are used up: its last checkpoint, the task board and the current
\* task agree (the conditions claim_latest_waiting_checkpoint insists on).
WaitingIsClaimable ==
  \A i \in WaitingRoots :
    LET s == Latest(i) IN
      /\ s.status = "waiting_user" /\ s.plan # None /\ s.current
      /\ boards[i].plan = s.plan /\ boards[i].task = "waiting_user"

\* A running root is moved on only by the call that executes it: no replay of
\* an earlier request, no other claim and no late denial can end it.
RunningRootOwned ==
  [][\A i \in Roots :
       roots[i] = "running" /\ log' # log /\ log'[Len(log')].root = i =>
         \E h \in Handlers :
           /\ handlers[h].root = i /\ handlers[h].request = Latest(i).request
           /\ handlers[h].pc \in {"finish", "deny"}]_vars

\* A root that has ended does not change its status any more, whichever process
\* still replays or denies one of its requests.
EndedStaysEnded ==
  [][\A i \in Roots : roots[i] \in {"completed", "failed"} =>
                       roots'[i] = roots[i]]_vars

\* "An old answer is not replayed" (docs M2_21 32.2, conclusion 7): once the
\* loss of access is recorded for a request, it is never answered again, even
\* when access comes back.
DeniedStaysDenied ==
  [][\A r \in Requests :
       (\E k \in OfRequest(r) : log[k].state.outcome = "denied") =>
         delivered'[r] = delivered[r]]_vars

\* The gateway implements the ledger: the phase of a request is that of the
\* newest checkpoint it is the active request of.
Phase(r) ==
  IF OfRequest(r) = {} THEN "new"
  ELSE LET s == Replayed(r).state IN
         IF s.status = "running" THEN "executing"
         ELSE IF s.status = "failed" THEN "failed"
         ELSE IF s.outcome = "denied" THEN "denied" ELSE "answered"
Ledger == INSTANCE RequestLedger WITH
  Answers <- Roots \X (1..(2 * MaxAttempts)),
  ledger <- [r \in Requests |-> Phase(r)],
  answers <- delivered
ImplementsLedger == Ledger!Spec

Executing(i) ==
  \E h \in Handlers : /\ handlers[h].root = i
                      /\ handlers[h].pc \notin {"idle", "replay"}

\* No call waits for the event loop or for the database for ever: a running
\* root ends or pauses, or no call executes it any more.
RunningRootSettles ==
  \A i \in Roots : roots[i] = "running" ~> roots[i] # "running" \/ ~Executing(i)

\* A provider or run failure ends in a safe final state (docs M2_21, line 1749):
\* without a crash, a root that no call executes is not left running.
IdleRootSettled ==
  crashes = 0 => \A i \in Roots : roots[i] = "running" => Executing(i)
=============================================================================
