------------------------------ MODULE WorkerLoop ------------------------------
(***************************************************************************)
(* One attempt of a business_data or knowledge worker, from the first      *)
(* decision to the commit or rollback of its transaction: the bounded      *)
(* decision loop (agents/workers/*.py), the Harness that surrounds every   *)
(* Tool (runtime/executor.py, permissions.py), the audit rows it commits   *)
(* in transactions of their own (runtime/trace.py) and the isolation of    *)
(* the worker's session (agents/runtime/worker.py).                        *)
(*                                                                         *)
(* Tools run synchronously on the event loop, so asyncio.wait_for can only *)
(* cancel the worker while it awaits the model.  Every audit write is a    *)
(* short transaction that may fail; the worker's own work is staged in one *)
(* transaction that is committed once, at the end.                         *)
(***************************************************************************)
EXTENDS Naturals, Sequences, FiniteSets, SequencesExt

CONSTANTS
    Evidence,       \* Evidence ids a knowledge search may return
    Held,           \* handoff.evidence_ids, given by the supervisor
    MaxDecisions,   \* WorkerGuardrails.max_decisions
    MaxModelCalls,  \* WorkerBudgetLimits.max_model_calls
    MaxToolCalls,   \* WorkerBudgetLimits.max_tool_calls
    MaxEvidence,    \* WorkerBudgetLimits.max_evidence
    None

ASSUME LimitsAssumption ==
    /\ Held \subseteq Evidence
    /\ MaxDecisions \in 1..8
    /\ {MaxModelCalls, MaxToolCalls, MaxEvidence} \subseteq Nat

VARIABLES
    worker,        \* "business_data" or "knowledge"
    forbidden,     \* the capabilities the PermissionGuard refuses this user
    deadline,      \* "ahead", or which clock ran out first: "child", "root"
    pc,
    decisions,     \* iterations of the loop begun
    signatures,    \* actions this attempt already executed
    action,        \* the action being executed
    outcome,       \* what its operation did, before the audit row is finished
    observations,
    reserved,      \* model and tool calls counted by the child budget
    counted,       \* AgentRun.model_call_count
    calls,         \* the committed ToolCall rows, by sequence_no
    lost,          \* some audit write of the attempt failed
    staged,        \* Evidence written in the worker's transaction, by call
    aborted,       \* a database error has made that transaction unusable
    committed,     \* Evidence other sessions can see
    result         \* WorkerResult returned to the supervisor

loop == <<decisions, signatures, action, outcome, observations>>
audit == <<counted, calls, lost>>
store == <<staged, aborted, committed>>
fixed == <<worker, forbidden>>
vars == <<fixed, deadline, pc, loop, reserved, audit, store, result>>

(***************************************************************************)
(* Actions the model may choose.  The argument of an action is abstracted  *)
(* to what the scope check compares it with.                               *)
(***************************************************************************)
Capabilities(w) ==
    IF w = "knowledge"
    THEN {"search_knowledge", "read_uploaded_file", "get_evidence_detail"}
    ELSE {"get_product_spec", "search_inventory"}

Arguments(capability) ==
    IF capability = "get_evidence_detail" THEN Evidence
    ELSE {"asked", "resolved", "other"}

Actions == UNION {{[capability |-> k, about |-> x] : x \in Arguments(k)} :
                     k \in Capabilities(worker)}

Successful == {o \in ToSet(observations) : o.status = "success"}
Unsuccessful == ToSet(observations) \ Successful
EvidenceSeen == UNION {o.evidence : o \in ToSet(observations)}
FilesSeen == UNION {o.files : o \in ToSet(observations)}

ProductResolved ==
    \E o \in Successful : o.action.capability = "get_product_spec"

ValidScope(a) ==
    CASE a.capability = "search_inventory" ->
            a.about = (IF ProductResolved THEN "resolved" ELSE "asked")
      [] a.capability = "get_evidence_detail" ->
            a.about \in Held \cup EvidenceSeen
      [] OTHER -> a.about = "asked"

-----------------------------------------------------------------------------
Result(status, business, evidence, files) ==
    [status |-> status, outcome |-> business, evidence |-> evidence,
     files |-> files]

Failed(business) == Result("failed", business, {}, {})

(* Leave the loop with r, to be settled by WorkerRuntime._execute. *)
Return(r) ==
    /\ result' = r
    /\ pc' = "settle"

InLoop == UNCHANGED <<fixed, deadline, store>>

(* reserve_model_call: the budget first, then the count in the AgentRun. *)
ReserveModelCall ==
    /\ pc = "decide"
    /\ decisions < MaxDecisions
    /\ deadline = "ahead"
    /\ reserved.models < MaxModelCalls
    /\ decisions' = decisions + 1
    /\ reserved' = [reserved EXCEPT !.models = @ + 1]
    /\ \/ /\ counted' = counted + 1
          /\ pc' = "choose"
          /\ UNCHANGED <<lost, result>>
       \/ /\ lost' = TRUE
          /\ Return(Failed("system_error"))
          /\ UNCHANGED counted
    /\ UNCHANGED <<calls, signatures, action, outcome, observations>>
    /\ InLoop

(* No decision is left, or the budget refuses the model call. *)
OutOfDecisions ==
    /\ pc = "decide"
    /\ \/ decisions = MaxDecisions
       \/ deadline # "ahead"
       \/ reserved.models = MaxModelCalls
    /\ Return(Failed("system_error"))
    /\ UNCHANGED <<loop, reserved, audit>>
    /\ InLoop

(* The provider answers with a capability: scope and repetition checks. *)
ChooseCapability ==
    /\ pc = "choose"
    /\ \E a \in Actions :
          IF ValidScope(a) /\ a \notin signatures
          THEN /\ action' = a
               /\ signatures' = signatures \cup {a}
               /\ pc' = "reserve"
               /\ UNCHANGED result
          ELSE /\ Return(Failed("system_error"))
               /\ UNCHANGED <<action, signatures>>
    /\ UNCHANGED <<decisions, outcome, observations, reserved, audit>>
    /\ InLoop

(* The provider fails, or answers with what the contract rejects. *)
ProviderFails ==
    /\ pc = "choose"
    /\ Return(Failed("system_error"))
    /\ UNCHANGED <<loop, reserved, audit>>
    /\ InLoop

AskUser ==
    /\ pc = "choose"
    /\ Return(Result("waiting_user", None, {}, {}))
    /\ UNCHANGED <<loop, reserved, audit>>
    /\ InLoop

\* Mutant: an answer may hide a failed observation.
FinishAccepted_AnyFailure(business, evidence, files) ==
    /\ evidence = EvidenceSeen
    /\ files = FilesSeen
    /\ business \in {"answered", "partial"} => Successful # {}
    /\ business = "no_evidence" => evidence = {}

FinishAccepted(business, evidence, files) ==
    /\ evidence = EvidenceSeen
    /\ files = FilesSeen
    /\ business \in {"answered", "partial"} => Successful # {}
    /\ business = "answered" => Unsuccessful = {}
    /\ business = "no_evidence" => evidence = {}
    /\ worker = "knowledge" =>
          /\ business = "partial" => Unsuccessful # {}
          /\ business \in {"answered", "partial"} => evidence \cup files # {}
          /\ business = "no_evidence" =>
                Successful # {} /\ Unsuccessful = {} /\ files = {}

Finish ==
    /\ pc = "choose"
    /\ \E business \in {"answered", "partial", "no_evidence"},
          evidence \in {{}, EvidenceSeen}, files \in {{}, FilesSeen} :
          Return(IF FinishAccepted(business, evidence, files)
                 THEN Result("completed", business, evidence, files)
                 ELSE Failed("system_error"))
    /\ UNCHANGED <<loop, reserved, audit>>
    /\ InLoop

CannotAccepted(business) ==
    /\ business = "denied" => \E o \in Unsuccessful : o.status = "rejected"
    /\ business \in {"unsupported", "denied"} => Successful = {}
    /\ business = "no_evidence" =>
          EvidenceSeen = {} /\ (worker = "knowledge" => FilesSeen = {})

CannotComplete ==
    /\ pc = "choose"
    /\ \E business \in {"denied", "unsupported", "no_evidence",
                        "timed_out", "system_error"} :
          Return(IF business \in {"timed_out", "system_error"}
                 THEN Failed(business)
                 ELSE IF CannotAccepted(business)
                 THEN Result("completed", business, EvidenceSeen, FilesSeen)
                 ELSE Failed("system_error"))
    /\ UNCHANGED <<loop, reserved, audit>>
    /\ InLoop

\* Mutant: the timeout is the child's own, not bounded by the root's.
Cancelled_ChildOnly ==
    /\ pc = "choose"
    /\ deadline = "child"
    /\ result' = Failed("timed_out")
    /\ pc' = "ended"
    /\ staged' = {}
    /\ UNCHANGED <<fixed, deadline, loop, reserved, audit, aborted, committed>>

(* asyncio.wait_for cancels the worker; the runtime rolls back. *)
Cancelled ==
    /\ pc = "choose"
    /\ deadline # "ahead"
    /\ result' = Failed("timed_out")
    /\ pc' = "ended"
    /\ staged' = {}
    /\ UNCHANGED <<fixed, deadline, loop, reserved, audit, aborted, committed>>

-----------------------------------------------------------------------------
(* HarnessExecutor.execute_tool. *)
ToolRow(permission, status) ==
    [action |-> action, permission |-> permission, status |-> status]

\* Mutant: a timeout is one more failed observation.
Observe_TimeoutContinues(status, evidence, files) ==
    /\ observations' = Append(observations,
          [action |-> action, status |-> status, evidence |-> evidence,
           files |-> files])
    /\ action' = None
    /\ outcome' = None
    /\ pc' = "decide"
    /\ UNCHANGED <<decisions, signatures, result>>

(* The envelope becomes an observation; a timeout ends the attempt. *)
Observe(status, evidence, files) ==
    /\ observations' = Append(observations,
          [action |-> action, status |-> status, evidence |-> evidence,
           files |-> files])
    /\ action' = None
    /\ outcome' = None
    /\ IF status = "timeout" THEN Return(Failed("timed_out"))
       ELSE pc' = "decide" /\ UNCHANGED result
    /\ UNCHANGED <<decisions, signatures>>

(* record_denied_tool: a blocked call leaves a row and an observation.  If *)
(* the row cannot be written the TracePersistenceError is observed.        *)
Refuse(row, status) ==
    /\ \/ /\ calls' = Append(calls, row)
          /\ Observe(status, {}, {})
          /\ UNCHANGED lost
       \/ /\ lost' = TRUE
          /\ Observe("error", {}, {})
          /\ UNCHANGED calls
    /\ UNCHANGED counted
    /\ InLoop

BudgetRefuses ==
    /\ pc = "reserve"
    /\ \/ deadline # "ahead"
       \/ reserved.tools = MaxToolCalls
    /\ Refuse(ToolRow("denied", IF deadline = "root" THEN "timeout" ELSE "denied"),
              "timeout")
    /\ UNCHANGED reserved

ReserveToolCall ==
    /\ pc = "reserve"
    /\ deadline = "ahead"
    /\ reserved.tools < MaxToolCalls
    /\ reserved' = [reserved EXCEPT !.tools = @ + 1]
    /\ pc' = "authorize"
    /\ UNCHANGED <<loop, audit, result>>
    /\ InLoop

PermissionDenied ==
    /\ pc = "authorize"
    /\ action.capability \in forbidden
    /\ Refuse(ToolRow("denied", "denied"), "rejected")
    /\ UNCHANGED reserved

StartToolCall ==
    /\ pc = "authorize"
    /\ action.capability \notin forbidden
    /\ \/ /\ calls' = Append(calls, ToolRow("allowed", "running"))
          /\ pc' = "operate"
          /\ UNCHANGED <<lost, loop, result>>
       \/ /\ lost' = TRUE
          /\ Observe("error", {}, {})
          /\ UNCHANGED calls
    /\ UNCHANGED <<counted, reserved>>
    /\ InLoop

(* What a successful operation returns: Evidence and files. *)
Found ==
    CASE action.capability = "search_inventory" -> {<<{Len(calls)}, {}>>}
      [] action.capability = "search_knowledge" ->
            {<<s, {}>> : s \in SUBSET Evidence}
      [] action.capability = "read_uploaded_file" -> {<<{}, {"file"}>>}
      [] action.capability = "get_evidence_detail" ->
            {<<{action.about}, {"file"}>>, <<{action.about}, {}>>}
      [] OTHER -> {<<{}, {}>>}

Writes == action.capability \in {"search_inventory", "search_knowledge"}

(* The operation succeeds, and ensure_tool_duration accepts or rejects it. *)
OperationReturns ==
    /\ pc = "operate"
    /\ ~aborted
    /\ \E found \in Found :
          /\ staged' = staged \cup
                (IF Writes THEN {<<e, Len(calls)>> : e \in found[1]} ELSE {})
          /\ \E status \in {"success", "timeout"} :
                /\ deadline # "ahead" => status = "timeout"
                /\ outcome' = [status |-> status, observed |-> status,
                               evidence |-> found[1], files |-> found[2]]
    /\ pc' = "finish"
    /\ UNCHANGED <<fixed, deadline, decisions, signatures, action, observations,
                   reserved, audit, aborted, committed, result>>

(* What an operation that raises leaves in the worker's transaction: an     *)
(* inventory search flushes its Evidence row and builds the detail from it *)
(* afterwards, whose contract is narrower than the column (title).  A      *)
(* knowledge search writes under a savepoint.                              *)
LeftStaged(status) ==
    {{}} \cup (IF action.capability = "search_inventory" /\ status = "error"
               THEN {{<<Len(calls), Len(calls)>>}} ELSE {})

(* It raises: a domain error, a statement timeout, or any database error;  *)
(* the last two can leave the worker's transaction unusable.               *)
OperationRaises ==
    /\ pc = "operate"
    /\ \E status \in {"error", "timeout"}, broken \in BOOLEAN :
          /\ aborted' = (aborted \/ broken)
          /\ \E left \in LeftStaged(status) :
                /\ left # {} => ~aborted'
                /\ staged' = staged \cup left
          /\ outcome' = [status |-> status, observed |-> status,
                         evidence |-> {}, files |-> {}]
    /\ pc' = "finish"
    /\ UNCHANGED <<fixed, deadline, decisions, signatures, action, observations,
                   reserved, audit, committed, result>>

\* Mutant: only a success is written back to the audit row.
FinishToolCall_SuccessOnly ==
    /\ pc = "finish"
    /\ IF outcome.observed = "success"
       THEN /\ calls' = [calls EXCEPT ![Len(calls)].status = "success"]
            /\ Observe("success", outcome.evidence, outcome.files)
       ELSE /\ Observe(outcome.observed, {}, {})
            /\ UNCHANGED calls
    /\ UNCHANGED <<counted, reserved, lost>>
    /\ InLoop

(* finish_tool_call; a failure replaces the outcome with an error. *)
FinishToolCall ==
    /\ pc = "finish"
    /\ \/ /\ calls' = [calls EXCEPT ![Len(calls)].status = outcome.status]
          /\ IF outcome.observed = "success"
             THEN Observe("success", outcome.evidence, outcome.files)
             ELSE Observe(outcome.observed, {}, {})
          /\ UNCHANGED lost
       \/ /\ lost' = TRUE
          /\ Observe("error", {}, {})
          /\ UNCHANGED calls
    /\ UNCHANGED <<counted, reserved>>
    /\ InLoop

-----------------------------------------------------------------------------
(* WorkerRuntime._execute after the worker returned. *)
Rollback(r) ==
    /\ result' = r
    /\ staged' = {}
    /\ UNCHANGED committed

Commit ==
    /\ committed' = staged
    /\ staged' = {}

(* The budget is charged for the evidence before the transaction ends. *)
EvidenceAccepted ==
    /\ deadline = "ahead"
    /\ Cardinality(result.evidence) <= MaxEvidence

\* Mutant: a failed commit still returns the worker's result.
Settle_KeepsResult ==
    /\ pc = "settle"
    /\ pc' = "ended"
    /\ \/ Rollback(result)
       \/ ~aborted /\ result.status = "completed" /\ Commit /\ UNCHANGED result
    /\ UNCHANGED <<fixed, deadline, loop, reserved, audit, aborted>>

Settle ==
    /\ pc = "settle"
    /\ pc' = "ended"
    /\ CASE ~EvidenceAccepted ->
               Rollback(Failed(IF deadline # "ahead" THEN "timed_out"
                               ELSE "system_error"))
         [] EvidenceAccepted /\ result.status # "completed" -> Rollback(result)
         [] EvidenceAccepted /\ result.status = "completed" ->
               \/ ~aborted /\ Commit /\ UNCHANGED result
               \/ ~aborted /\ Commit /\ result' = Failed("system_error")
               \/ Rollback(Failed("system_error"))
    /\ UNCHANGED <<fixed, deadline, loop, reserved, audit, aborted>>

(* Time passes: the child's or the root's limit is reached. *)
DeadlinePasses ==
    /\ deadline = "ahead"
    /\ pc \notin {"ended", "crashed"}
    /\ deadline' \in {"child", "root"}
    /\ UNCHANGED <<fixed, pc, loop, reserved, audit, store, result>>

(* The process dies; the database rolls the open transaction back. *)
Crash ==
    /\ pc \notin {"ended", "crashed"}
    /\ pc' = "crashed"
    /\ result' = None
    /\ staged' = {}
    /\ UNCHANGED <<fixed, deadline, loop, reserved, audit, aborted, committed>>

Init ==
    /\ worker \in {"business_data", "knowledge"}
    /\ forbidden \in SUBSET Capabilities(worker)
    /\ deadline = "ahead"
    /\ pc = "decide"
    /\ decisions = 0
    /\ signatures = {}
    /\ action = None
    /\ outcome = None
    /\ observations = <<>>
    /\ reserved = [models |-> 0, tools |-> 0]
    /\ counted = 0
    /\ calls = <<>>
    /\ lost = FALSE
    /\ staged = {}
    /\ aborted = FALSE
    /\ committed = {}
    /\ result = None

Loop ==
    \/ ReserveModelCall \/ OutOfDecisions
    \/ ReserveToolCall \/ BudgetRefuses
    \/ PermissionDenied \/ StartToolCall
    \/ OperationReturns \/ OperationRaises \/ FinishToolCall
    \/ Settle

Provider ==
    \/ ChooseCapability \/ ProviderFails \/ AskUser \/ Finish \/ CannotComplete

Next == Loop \/ Provider \/ Cancelled \/ DeadlinePasses \/ Crash

(* Synchronous steps complete (statement timeouts bound the operations),   *)
(* time passes and the event loop delivers the timeout; a model that never *)
(* answers is allowed.                                                     *)
Fairness ==
    /\ WF_vars(Loop)
    /\ WF_vars(DeadlinePasses)
    /\ WF_vars(Cancelled)

Spec == Init /\ [][Next]_vars /\ Fairness

-----------------------------------------------------------------------------
Ended == pc = "ended"

(* Evidence that other sessions can see was written by an allowed call,    *)
(* although all calls share one transaction: never by a refused or a       *)
(* timed-out one.  Its committed row says success (or still running, when  *)
(* its final audit write was lost), or error where the view of an          *)
(* inventory row was refused after the row had been written; the result    *)
(* does not refer to such a row.                                           *)
EvidenceIsAudited ==
    \A p \in committed :
       /\ calls[p[2]].permission = "allowed"
       /\ calls[p[2]].status \in
             {"success", "error"} \cup (IF lost THEN {"running"} ELSE {})
       /\ calls[p[2]].status = "error" =>
             worker = "business_data" /\ p[1] \notin result.evidence

(* Every reference of a returned result that the attempt itself wrote is   *)
(* committed; only a completed result carries references, and Evidence     *)
(* only an answer, even when an attempt that gives up reports all that its *)
(* observations have seen.                                                 *)
ReferencesAreStored ==
    Ended =>
       /\ result.evidence \cup result.files # {} => result.status = "completed"
       /\ result.evidence # {} => result.outcome \in {"answered", "partial"}
       /\ result.evidence \subseteq
             Held \cup {p[1] : p \in committed}

(* When an attempt ends and no audit write was lost, no ToolCall is left   *)
(* running and the AgentRun counts every model call that was charged.      *)
AuditIsSettled ==
    /\ counted <= reserved.models
    /\ (Ended /\ ~lost) =>
          /\ counted = reserved.models
          /\ \A i \in DOMAIN calls : calls[i].status # "running"

(* The outcome tells the truth about the audit rows: an answer means every *)
(* attempted call succeeded, a denial that one was refused by permission   *)
(* and none succeeded, and no_evidence that no successful call has stored  *)
(* any; and the rows themselves are settled.                               *)
OutcomeMatchesAudit ==
    /\ AuditIsSettled
    /\ (Ended /\ result.status = "completed") =>
          /\ result.outcome = "answered" =>
                /\ calls # <<>>
                /\ \A i \in DOMAIN calls : calls[i].status = "success"
          /\ result.outcome = "denied" =>
                /\ \E i \in DOMAIN calls : calls[i].permission = "denied"
                /\ \A i \in DOMAIN calls : calls[i].status # "success"
          /\ result.outcome = "no_evidence" =>
                \A p \in committed : calls[p[2]].status # "success"

(* An attempt ends even if the model never answers. *)
AttemptEnds == <>(pc \in {"ended", "crashed"})
===============================================================================
