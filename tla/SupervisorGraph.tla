--------------------------- MODULE SupervisorGraph ---------------------------
(***************************************************************************)
(* One root run of the supervisor: the control graph of                    *)
(* app/agents/graphs/engineered_multi_agent.py, the worker calls it makes  *)
(* concurrently (app/agents/runtime/worker.py), the rows of agent_tasks    *)
(* they write, and the pauses for the user between two runs of the graph.  *)
(*                                                                         *)
(* The tasks of a plan are 1..size in the plan's order.  Who may run the   *)
(* root, authorization and checkpoint versions are AgentGateway's subject. *)
(***************************************************************************)
EXTENDS Naturals, FiniteSets

CONSTANTS
  MaxTasks,      \* tasks of the longest plan
  Workers,       \* ids of the registered workers
  Plans,         \* the plans the planner may make
  MaxDecisions,  \* SupervisorGuardrails.max_decisions
  MaxParallel,   \* SupervisorGuardrails.max_parallel_workers
  MaxResumes,    \* MAX_AGENT_RESUMES
  None           \* no value, as in the code

Tasks == 1..MaxTasks

\* What the control flow reads of a TaskPlan: blocks has the tasks whose
\* failure_impact is blocks_dependents, needs those that require evidence; a
\* direct plan is one task without a worker.
Plan == [size: 1..MaxTasks, direct: BOOLEAN, worker: [Tasks -> Workers],
         deps: [Tasks -> SUBSET Tasks], blocks: SUBSET Tasks, needs: SUBSET Tasks]

ASSUME BoundsAssumption ==
  /\ MaxTasks \in Nat \ {0} /\ MaxParallel \in Nat \ {0}
  /\ MaxDecisions \in Nat /\ MaxResumes \in Nat
ASSUME PlansAssumption ==
  /\ Plans \subseteq Plan
  /\ \A p \in Plans : /\ p.direct => p.size = 1
                      /\ \A t \in Tasks : p.deps[t] \subseteq (1..p.size) \ {t}
Status == {"waiting", "running", "waiting_user", "completed", "failed"}
Terminal == {"completed", "failed"}

\* "unsupported" stands for no_evidence too, "system_error" for timed_out too.
Outcomes == {"answered", "partial", "unsupported", "denied", "system_error"}

\* A WorkerResult: an outcome, or a question to the user, with or without
\* references to evidence.
Result == [outcome: Outcomes \cup {"asked"}, evidence: BOOLEAN]
StatusOf(r) ==
  CASE r.outcome = "asked"        -> "waiting_user"
    [] r.outcome = "system_error" -> "failed"
    [] OTHER                      -> "completed"
ASSUME NoneAssumption ==
  None \notin Plans \cup Result \cup Status \cup Outcomes \cup Nat
Failure == [outcome |-> "system_error", evidence |-> FALSE]

Completed(r) == r # None /\ StatusOf(r) = "completed"

\* SupervisorGraphState.  current is 0 when current_task_id names no task of the
\* plan; batch is current_task_ids while workers are called.
Graph ==
  [plan: Plans \cup {None}, status: [Tasks -> Status \cup {None}],
   results: [Tasks -> Result \cup {None}], current: Tasks \cup {0, None},
   batch: SUBSET Tasks, decisions: 0..MaxDecisions,
   mode: {"new", "continue", "replan"},
   execution: Status, outcome: Outcomes \cup {None}]

\* A row of agent_tasks: runs counts the worker runs started for it.
Row == [status: Status \cup {None}, outcome: Outcomes \cup {None},
        result: Result \cup {None}, runs: 0..(MaxResumes + 1)]

\* A call of WorkerRuntime.invoke.
Call == [at: {"none", "invoked", "running", "ended", "returned", "raised"},
         result: Result \cup {None}]

VARIABLES
  pc,        \* the graph's node, or what happens to its final state
  graph,     \* the graph's state; between two runs the checkpoint made of it
  calls,     \* task -> the call of its worker in the current batch
  board,     \* the plan saved in agent_tasks
  rows,      \* task -> its row
  evidence,  \* the tasks whose results' references were committed when they ended
  root,      \* status of the root's agent_runs row
  resumes, replans

vars == <<pc, graph, calls, board, rows, evidence, root, resumes, replans>>
tables == <<board, rows, evidence, root>>
counts == <<resumes, replans>>

NoCalls == [t \in Tasks |-> [at |-> "none", result |-> None]]
NewRow(p, t) == [status |-> IF t <= p.size THEN "waiting" ELSE None,
                 outcome |-> None, result |-> None, runs |-> 0]
NoRow == [status |-> None, outcome |-> None, result |-> None, runs |-> 0]

Init ==
  /\ pc = "plan"
  /\ graph = [plan |-> None, status |-> [t \in Tasks |-> None],
              results |-> [t \in Tasks |-> None], current |-> None, batch |-> {},
              decisions |-> 0, mode |-> "new", execution |-> "running",
              outcome |-> None]
  /\ calls = NoCalls
  /\ board = None
  /\ rows = [t \in Tasks |-> NoRow]
  /\ evidence = {}
  /\ root = "running"
  /\ resumes = 0 /\ replans = 0

(***************************************************************************)
(* A definition named X_Y is X with the defect Y; the model does not use   *)
(* it, and a property of the runs fails when it takes X's place.           *)
(***************************************************************************)

(***************************************************************************)
(* The updates of the graph's state that end it.                           *)
(***************************************************************************)
Smallest(S) == CHOOSE t \in S : \A s \in S : t <= s
With(status, t, to) == [s \in Tasks |-> IF s = t THEN to ELSE status[s]]
AllActive(status, to) ==
  [t \in Tasks |-> IF status[t] \in Status \ Terminal THEN to ELSE status[t]]

\* _failure_update
Failed(g) ==
  [g EXCEPT !.status = AllActive(@, "failed"), !.current = None, !.batch = {},
            !.execution = "failed", !.outcome = "system_error"]

\* _terminal_action_update: to one task, or to all active ones when t is None.
Settled(g, t, to) == IF t = None THEN AllActive(g.status, to)
                                 ELSE With(g.status, t, to)
Asked(g, t) ==
  [g EXCEPT !.status = With(@, t, "waiting_user"), !.current = t, !.batch = {},
            !.execution = "waiting_user", !.outcome = None]
Finished(g, t, o) ==
  [g EXCEPT !.status = Settled(g, t, "completed"), !.current = None,
            !.batch = {}, !.execution = "completed", !.outcome = o]
CannotComplete(g, t, o) ==
  [g EXCEPT !.status = Settled(g, t, "failed"), !.current = None, !.batch = {},
            !.execution = IF o = "system_error" THEN "failed" ELSE "completed",
            !.outcome = o]

\* A FinishAction and a CannotCompleteAction have these outcomes.
FinishOutcomes == {"answered", "partial", "unsupported"}
RefusalOutcomes == {"unsupported", "denied", "system_error"}

Ends(g) == graph' = g /\ pc' = "settle"

(***************************************************************************)
(* Nodes plan, decide, prepare_handoff.                                    *)
(***************************************************************************)

\* save_task_plan; replace_waiting_task_plan, for tasks nobody has worked on.
PlanSavable ==
  IF graph.mode = "new" THEN board = None
  ELSE /\ board # None
       /\ \A t \in 1..board.size : /\ rows[t].status \in {"waiting", "waiting_user"}
                                   /\ rows[t].result = None /\ rows[t].runs = 0

\* The new plan is saved before the graph goes on with it.  current_task_id is
\* kept: the old task's id may or may not occur in the new plan.
PlanMade(p) ==
  /\ pc = "plan" /\ graph.mode # "continue" /\ PlanSavable
  /\ board' = p
  /\ rows' = [t \in Tasks |-> NewRow(p, t)]
  /\ \E c \in IF graph.current = None THEN {None} ELSE 0..p.size :
       graph' = [graph EXCEPT !.plan = p, !.current = c,
                              !.status = [t \in Tasks |-> NewRow(p, t).status]]
  /\ pc' = IF p.direct THEN "answer" ELSE "decide"
  /\ UNCHANGED <<calls, evidence, root, counts>>

PlanResumed ==
  /\ pc = "plan" /\ graph.mode = "continue"
  /\ pc' = "decide"
  /\ UNCHANGED <<graph, calls, tables, counts>>

\* A provider error, a rejected output, an exhausted root budget.
NodeFails ==
  /\ pc \in {"plan", "decide", "handoff", "answer"}
  /\ Ends(Failed(graph))
  /\ UNCHANGED <<calls, tables, counts>>

\* _next_runnable_task_ids: the first tasks that are ready, one of each worker.
Ready_FinishedDeps(g) ==
  {t \in Tasks : /\ g.status[t] \in {"waiting", "running"}
                 /\ \A d \in g.plan.deps[t] : g.status[d] \in Terminal}
Ready(g) ==
  {t \in Tasks : /\ g.status[t] \in {"waiting", "running"}
                 /\ \A d \in g.plan.deps[t] : g.status[d] = "completed"}
FirstOfWorker(g) ==
  {t \in Ready(g) :
     \A s \in Ready(g) : s < t => g.plan.worker[s] # g.plan.worker[t]}
Limit_Parallel(g) == MaxParallel
Limit(g) == IF MaxDecisions - g.decisions < MaxParallel
            THEN MaxDecisions - g.decisions ELSE MaxParallel
Selected(g) ==
  {t \in FirstOfWorker(g) :
     Cardinality({s \in FirstOfWorker(g) : s < t}) < Limit(g)}

DecisionLimit ==
  /\ pc = "decide" /\ graph.decisions = MaxDecisions
  /\ Ends(Failed(graph))
  /\ UNCHANGED <<calls, tables, counts>>

NoRunnableTask ==
  /\ pc = "decide" /\ graph.decisions < MaxDecisions /\ Selected(graph) = {}
  /\ Ends(Failed(graph))
  /\ UNCHANGED <<calls, tables, counts>>

\* A decision for each selected task; all of them delegate.
Delegate ==
  LET B == Selected(graph) IN
    /\ pc = "decide" /\ B # {}
    /\ graph' = [graph EXCEPT
         !.status = [t \in Tasks |-> IF t \in B THEN "running" ELSE @[t]],
         !.current = Smallest(B), !.batch = B,
         !.decisions = @ + Cardinality(B)]
    /\ pc' = "handoff"
    /\ UNCHANGED <<calls, tables, counts>>

\* The decision for t asks, finishes or gives up, whatever was decided for the
\* tasks before it.
Decided(t) ==
  [graph EXCEPT !.decisions = @ + Cardinality({s \in Selected(graph) : s <= t})]
DecideToEnd(t) ==
  /\ pc = "decide" /\ t \in Selected(graph)
  /\ \/ Ends(Asked(Decided(t), t))
     \/ \E o \in FinishOutcomes : Ends(Finished(Decided(t), t, o))
     \/ \E o \in RefusalOutcomes : Ends(CannotComplete(Decided(t), t, o))
  /\ UNCHANGED <<calls, tables, counts>>

\* Every draft is prepared; asyncio.gather calls every worker.
Handoff ==
  /\ pc = "handoff"
  /\ calls' = [t \in Tasks |-> IF t \in graph.batch
                               THEN [at |-> "invoked", result |-> None]
                               ELSE NoCalls[t]]
  /\ pc' = "invoke"
  /\ UNCHANGED <<graph, tables, counts>>

(***************************************************************************)
(* WorkerRuntime.invoke, for each task of the batch on its own.            *)
(***************************************************************************)
Step(t, from, to, r) ==
  /\ calls[t].at = from
  /\ calls' = [calls EXCEPT ![t] = [at |-> to, result |-> r]]
  /\ UNCHANGED <<pc, graph, board, root, counts>>

\* No such worker, the same draft again, no budget, or the run cannot be
\* recorded: the result is a failure and the row is not touched.
CallRefused(t) ==
  /\ Step(t, "invoked", "returned", Failure)
  /\ UNCHANGED <<rows, evidence>>

\* start_worker_run claims the row.
CallStarted(t) ==
  /\ rows[t].status = "waiting"
  /\ rows' = [rows EXCEPT ![t].status = "running", ![t].runs = @ + 1]
  /\ Step(t, "invoked", "running", None)
  /\ UNCHANGED evidence

\* The worker ends with r.  Its session commits what it wrote only when it has
\* completed, so that other results leave out the evidence it has found.
RollbackSafe_KeepsEvidence(r) == r
RollbackSafe(r) == [r EXCEPT !.evidence = @ /\ StatusOf(r) = "completed"]
CallEnds(t, r) ==
  /\ Step(t, "running", "ended", RollbackSafe(r))
  /\ evidence' = IF StatusOf(r) = "completed" /\ r.evidence
                 THEN evidence \cup {t} ELSE evidence
  /\ UNCHANGED rows

\* asyncio.wait_for with what is left of the worker's time.
CallTimesOut_Never(t) == FALSE /\ CallEnds(t, Failure)
CallTimesOut(t) ==
  /\ Step(t, "running", "ended", Failure)
  /\ UNCHANGED <<rows, evidence>>

\* record_worker_result
CallRecorded(t) ==
  LET r == calls[t].result IN
    /\ Step(t, "ended", "returned", r)
    /\ rows' = [rows EXCEPT ![t] =
         [@ EXCEPT !.status = StatusOf(r), !.result = r,
                   !.outcome = IF r.outcome \in Outcomes THEN r.outcome ELSE None]]
    /\ UNCHANGED evidence

\* The result cannot be recorded and invoke raises.
CallRaises(t) ==
  /\ Step(t, "ended", "raised", calls[t].result)
  /\ UNCHANGED <<rows, evidence>>

(***************************************************************************)
(* The rest of invoke_worker: the whole batch has returned or raised.      *)
(***************************************************************************)
Joined_FirstError ==
  /\ pc = "invoke"
  /\ \/ \E t \in graph.batch : calls[t].at = "raised"
     \/ \A t \in graph.batch : calls[t].at \in {"returned", "raised"}
Joined == pc = "invoke" /\ \A t \in graph.batch : calls[t].at \in {"returned", "raised"}

\* It raised, or _validate_worker_result rejects what it returned.
Rejected(t) ==
  \/ calls[t].at = "raised"
  \/ /\ calls[t].at = "returned" /\ calls[t].result.outcome = "answered"
     /\ t \in graph.plan.needs /\ ~calls[t].result.evidence

Upserted_KeepsFirst(g) ==
  [t \in Tasks |-> IF t \in g.batch /\ g.results[t] = None THEN calls[t].result
                   ELSE g.results[t]]
Upserted(g) ==
  [t \in Tasks |-> IF t \in g.batch THEN calls[t].result ELSE g.results[t]]

Merged(g) ==
  [g EXCEPT !.status = [t \in Tasks |-> IF t \in g.batch
                                        THEN StatusOf(calls[t].result) ELSE @[t]],
            !.results = Upserted(g), !.current = None, !.batch = {}]

Of(status) == {t \in graph.batch : StatusOf(calls[t].result) = status}
AllTerminal(g) == \A t \in 1..g.plan.size : g.status[t] \in Terminal

\* _can_compose_partial
CanComposePartial(g) ==
  LET failed == {t \in 1..g.plan.size : g.status[t] = "failed"} IN
    /\ AllTerminal(g) /\ failed # {} /\ failed \cap g.plan.blocks = {}
    /\ \E t \in Tasks : /\ g.results[t] # None
                        /\ g.results[t].outcome \in {"answered", "partial"}

\* What the graph has waited for is gone; a call it has not waited for goes on.
Collected == [t \in Tasks |-> IF calls[t].at \in {"returned", "raised"}
                              THEN NoCalls[t] ELSE calls[t]]

\* One failure fails the batch, and no result of it is kept.
BatchRejected ==
  /\ Joined /\ \E t \in graph.batch : Rejected(t)
  /\ Ends(Failed(graph))
  /\ calls' = Collected
  /\ UNCHANGED <<tables, counts>>

BatchAsks ==
  /\ Joined /\ (\A t \in graph.batch : ~Rejected(t)) /\ Of("waiting_user") # {}
  /\ Ends([Merged(graph) EXCEPT !.execution = "waiting_user",
                                !.current = Smallest(Of("waiting_user"))])
  /\ calls' = Collected
  /\ UNCHANGED <<tables, counts>>

\* A failed task fails the run: the other tasks are left as they are.
BatchFails ==
  /\ Joined /\ (\A t \in graph.batch : ~Rejected(t)) /\ Of("waiting_user") = {}
  /\ Of("failed") # {} /\ ~CanComposePartial(Merged(graph))
  /\ Ends([Merged(graph) EXCEPT !.execution = "failed", !.outcome = "system_error"])
  /\ calls' = Collected
  /\ UNCHANGED <<tables, counts>>

BatchMerged ==
  /\ Joined /\ (\A t \in graph.batch : ~Rejected(t)) /\ Of("waiting_user") = {}
  /\ Of("failed") # {} => CanComposePartial(Merged(graph))
  /\ graph' = Merged(graph)
  /\ pc' = IF AllTerminal(Merged(graph)) THEN "answer" ELSE "decide"
  /\ calls' = Collected
  /\ UNCHANGED <<tables, counts>>

(***************************************************************************)
(* Node compose_answer.                                                    *)
(***************************************************************************)

\* _worker_evidence_refusal
Unsupported(g) ==
  LET held == {t \in Tasks : g.results[t] # None} IN
    held # {} /\ \A t \in held : g.results[t].outcome = "unsupported"

\* _validate_final_answer
Backed(g) ==
  \A t \in g.plan.needs : g.results[t] # None /\ g.results[t].evidence

AnswerRefused ==
  /\ pc = "answer" /\ Unsupported(graph)
  /\ Ends(CannotComplete(graph, graph.current, "unsupported"))
  /\ UNCHANGED <<calls, tables, counts>>

Answer ==
  /\ pc = "answer" /\ ~Unsupported(graph)
  /\ \/ \E o \in FinishOutcomes : /\ o = "answered" => Backed(graph)
                                  /\ Ends(Finished(graph, graph.current, o))
     \/ \E o \in RefusalOutcomes : Ends(CannotComplete(graph, graph.current, o))
  /\ UNCHANGED <<calls, tables, counts>>

(***************************************************************************)
(* What the gateway does with the final state, and the next request.       *)
(***************************************************************************)

\* synchronize_task_board: a row takes the status of its task, and the outcome
\* of its result or, when it has ended without, the state's.
OutcomeOf_ResultOnly(g, t) ==
  IF g.results[t] # None /\ g.results[t].outcome \in Outcomes
  THEN g.results[t].outcome ELSE None
OutcomeOf(g, t) ==
  IF g.results[t] # None /\ g.results[t].outcome \in Outcomes
  THEN g.results[t].outcome
  ELSE IF g.status[t] \in Terminal THEN g.outcome ELSE None
Synchronized(g) ==
  [t \in Tasks |-> IF g.status[t] = None THEN rows[t]
                   ELSE [rows[t] EXCEPT !.status = g.status[t],
                                        !.outcome = OutcomeOf(g, t)]]

\* agent_tasks: CHECK (status_outcome_consistent).
RowAllowed(r) ==
  CASE r.status = "completed" -> r.outcome \in Outcomes \ {"system_error"}
    [] r.status = "failed"    -> r.outcome = "system_error"
    [] OTHER                  -> r.outcome = None
Savable(g) == /\ \A t \in Tasks : RowAllowed(Synchronized(g)[t])
              /\ g.plan = None \/ g.plan = board

\* _finish_root
Settle ==
  /\ pc = "settle" /\ Savable(graph)
  /\ rows' = Synchronized(graph)
  /\ root' = graph.execution
  /\ pc' = IF graph.execution = "waiting_user" THEN "paused" ELSE "ended"
  /\ UNCHANGED <<graph, calls, board, evidence, counts>>

\* The database rolls _finish_root back; the root stays as it is.
SettleRefused ==
  /\ pc = "settle" /\ ~Savable(graph)
  /\ pc' = "lost"
  /\ UNCHANGED <<graph, calls, tables, counts>>

\* claim_latest_waiting_checkpoint, then SupervisorAgent.resume.
Claimed_AllTasks(g) ==
  [g EXCEPT !.status = [t \in Tasks |-> IF @[t] = None THEN None ELSE "waiting"],
            !.execution = "running"]
Claimed(g) ==
  [g EXCEPT !.status = With(@, g.current, "waiting"), !.execution = "running"]

NothingDone(g) == \A t \in Tasks : g.results[t] = None

Resume ==
  LET replan == NothingDone(graph) /\ replans = 0 IN
    /\ pc = "paused" /\ resumes < MaxResumes
    /\ resumes' = resumes + 1
    /\ replans' = IF replan THEN replans + 1 ELSE replans
    /\ rows' = Synchronized(Claimed(graph))
    /\ root' = "running"
    /\ graph' = [Claimed(graph) EXCEPT
         !.decisions = 0, !.mode = IF replan THEN "replan" ELSE "continue"]
    /\ pc' = "plan"
    /\ UNCHANGED <<calls, board, evidence>>

(***************************************************************************)
(* The specification.                                                      *)
(***************************************************************************)
GraphStep ==
  \/ \E p \in Plans : PlanMade(p)
  \/ PlanResumed \/ NodeFails
  \/ DecisionLimit \/ NoRunnableTask \/ Delegate
  \/ \E t \in Tasks : DecideToEnd(t)
  \/ Handoff
  \/ BatchRejected \/ BatchAsks \/ BatchFails \/ BatchMerged
  \/ AnswerRefused \/ Answer
  \/ Settle \/ SettleRefused

CallStep(t) ==
  \/ CallRefused(t) \/ CallStarted(t) \/ CallTimesOut(t)
  \/ CallRecorded(t) \/ CallRaises(t)

Next ==
  \/ GraphStep
  \/ \E t \in Tasks : CallStep(t) \/ \E r \in Result : CallEnds(t, r)
  \/ Resume

Spec == Init /\ [][Next]_vars

\* The event loop runs what is runnable and providers answer or time out; a
\* worker may hang until wait_for cancels it, and the user may never come back.
FairSpec ==
  /\ Spec
  /\ WF_vars(GraphStep)
  /\ \A t \in Tasks : WF_vars(CallStep(t))

(***************************************************************************)
(* Properties.                                                             *)
(***************************************************************************)

\* Every variable has the shape of what it stands for; a run of the graph makes
\* at most MaxDecisions decisions, and a task is started at most once in it.
TypeOK ==
  /\ pc \in {"plan", "decide", "handoff", "invoke", "answer", "settle",
             "paused", "ended", "lost"}
  /\ graph \in Graph
  /\ calls \in [Tasks -> Call]
  /\ board \in Plans \cup {None}
  /\ rows \in [Tasks -> Row]
  /\ evidence \in SUBSET Tasks
  /\ root \in Status
  /\ resumes \in 0..MaxResumes /\ replans \in 0..1

\* A worker is called for a task only when the results of all tasks it depends
\* on are stored, also after a pause in which one of them failed.
StartedAfterDependencies ==
  \A t \in Tasks : calls[t].at # "none" =>
    \A d \in board.deps[t] :
      Completed(rows[d].result)

\* "Completed worker results are not run again" (docs M2_21 32.2): while the
\* plan stays, a completed result and the number of its runs stay.
CompletedNotRerun ==
  [][\A t \in Tasks :
       Completed(rows[t].result) =>
         \/ board' # board
         \/ rows'[t].result = rows[t].result /\ rows'[t].runs = rows[t].runs]_vars

\* No worker runs on when the graph has gone on or has returned: the graph
\* waits for the whole batch (docs M2_21 33.2).
NoOrphanedWorker ==
  pc # "invoke" => \A t \in Tasks :
    calls[t].at = "none" /\ (pc \in {"paused", "ended"} => rows[t].status # "running")

\* A worker's completed result is both in the supervisor's state and in the task's
\* row, so that the answer and what a pause keeps agree with what is stored.
ResultsAreStored ==
  pc \in {"decide", "answer", "paused"} =>
    \A t \in Tasks : Completed(graph.results[t]) \/ Completed(rows[t].result) =>
                       graph.results[t] = rows[t].result

\* Evidence that a state or a stored result refers to is committed: a later
\* authorization of the references finds it, whatever was rolled back.
ReferencesCommitted ==
  \A t \in Tasks : \A r \in {graph.results[t], rows[t].result} :
    r # None /\ r.evidence => t \in evidence

\* Only a refusal can be lost: what is paused, has failed or is answered passes
\* the constraints of the task board and is saved.
OnlyRefusalsLost ==
  pc = "lost" => graph.execution = "completed" /\ graph.outcome \in RefusalOutcomes

\* Every run of the graph comes to an end, also when a worker hangs.
GraphReturns == pc = "plan" ~> pc \in {"paused", "ended", "lost"}

\* "Only unfinished tasks are continued" after a resume (docs M2_21 32.2,
\* conclusion 8): no unfinished task is out of the graph's reach.
UnfinishedContinued ==
  pc = "decide" => \A t \in Tasks : graph.status[t] # "waiting_user"
=============================================================================
