--------------------------- MODULE AnsweringProofs ---------------------------
(***************************************************************************)
(* Proofs about the stages that stand behind an answer, for every set of   *)
(* Evidence, runs, users, documents, generations and tasks and all limits: *)
(* the attempt of a worker (WorkerLoop) and what the supervisor sees of it *)
(* (WorkerCall), then the searches, their Context and the answer as        *)
(* MCAnswering puts them side by side (KnowledgeSearch, ContextBuilding,   *)
(* AnswerComposition).                                                     *)
(***************************************************************************)
EXTENDS MCAnswering, FiniteSums, SequenceTheorems, TLAPS

(***************************************************************************)
(* WorkerLoop: the Evidence an attempt publishes comes from audited calls, *)
(* what its result refers to is stored, and its outcome agrees with the    *)
(* audit rows.                                                             *)
(***************************************************************************)

(***************************************************************************)
(* The types of what the invariant reads.                                  *)
(***************************************************************************)
Ids == Evidence \cup Nat
Files == {"file"}
Capability == Capabilities("knowledge") \cup Capabilities("business_data")
Action == [capability: Capability, about: Evidence \cup {"asked", "resolved", "other"}]
Observation == [action: Action, status: {"success", "error", "timeout", "rejected"},
                evidence: SUBSET Ids, files: SUBSET Files]
CallRow == [action: Action, permission: {"allowed", "denied"},
            status: {"running", "success", "error", "timeout", "denied"}]
Outcome == [status: {"success", "error", "timeout"},
            observed: {"success", "error", "timeout"},
            evidence: SUBSET Ids, files: SUBSET Files]
WorkerResult == [status: {"completed", "failed", "waiting_user"},
                 outcome: {"answered", "partial", "no_evidence", "denied", "unsupported",
                           "timed_out", "system_error", None},
                 evidence: SUBSET Ids, files: SUBSET Files]

\* An action is executed from its reservation to the end of its audit row.
InFlight == pc \in {"operate", "finish"}
Executing == pc \in {"reserve", "authorize"} \/ InFlight

TypeInv ==
  /\ worker \in {"business_data", "knowledge"}
  /\ deadline \in {"ahead", "child", "root"}
  /\ pc \in {"decide", "choose", "reserve", "authorize", "operate", "finish",
             "settle", "ended", "crashed"}
  /\ Executing => action \in Action
  /\ pc = "finish" => /\ outcome \in Outcome /\ outcome.observed = outcome.status
                      /\ outcome.status = "error" => outcome.evidence = {}
  /\ observations \in Seq(Observation)
  /\ reserved \in [models: Nat, tools: Nat]
  /\ counted \in Nat
  /\ calls \in Seq(CallRow)
  /\ lost \in BOOLEAN /\ aborted \in BOOLEAN
  /\ staged \subseteq Ids \X Nat /\ committed \subseteq Ids \X Nat
  /\ pc \in {"settle", "ended"} =>
       /\ result \in WorkerResult
       /\ result.status # "completed" => result.evidence = {} /\ result.files = {}

(***************************************************************************)
(* The inductive invariant.                                                *)
(***************************************************************************)

\* The call in flight is the last one, and its row is running.
LastCall ==
  InFlight => /\ calls # <<>>
              /\ calls[Len(calls)].permission = "allowed"
              /\ calls[Len(calls)].status = "running"

\* Evidence staged by call i: its row says success, or error in an inventory attempt,
\* or is still to be finished, or the attempt has failed already.
Audited(i) ==
  /\ i \in DOMAIN calls
  /\ calls[i].permission = "allowed"
  /\ \/ calls[i].status = "success"
     \/ calls[i].status = "error" /\ worker = "business_data"
     \/ calls[i].status = "running" /\ lost
     \/ calls[i].status = "running" /\ pc = "finish" /\ i = Len(calls)
     \/ pc = "settle" /\ result.status # "completed"
StagedInv ==
  /\ \A p \in staged : Audited(p[2])
  /\ pc = "operate" => \A p \in staged : p[2] # Len(calls)
  /\ pc = "finish" /\ outcome.status = "error" =>
       \A p \in staged : p[2] = Len(calls) => worker = "business_data"

\* Nothing is published before the attempt ends, and nothing is staged after it.
PublishedInv ==
  /\ pc # "ended" => committed = {}
  /\ pc \in {"ended", "crashed"} => staged = {}
  /\ EvidenceIsAudited

\* What has been seen was handed over or is staged: references stay valid.
Known(e) == e \in Held \/ \E p \in staged : p[1] = e
SeenInv ==
  pc \notin {"ended", "crashed"} =>
    /\ \A e \in EvidenceSeen : Known(e)
    /\ Executing /\ action.capability = "get_evidence_detail" => Known(action.about)
    /\ pc = "finish" => \A e \in outcome.evidence : Known(e)
    /\ pc = "settle" => \A e \in result.evidence : Known(e)

\* And conversely: what a successful call has staged has been seen, or is about to be.
StagedSeenInv ==
  /\ pc \notin {"settle", "ended", "crashed"} =>
       \A p \in staged : calls[p[2]].status = "success" => p[1] \in EvidenceSeen
  /\ pc = "finish" /\ outcome.status = "success" =>
       \A p \in staged : p[2] = Len(calls) => p[1] \in outcome.evidence

\* An inventory search names its Evidence for its own call, so that no other call
\* finds it: what an inventory attempt has seen is that of successful calls.
InventoryInv ==
  /\ Executing => action.capability \in Capabilities(worker)
  /\ worker = "business_data" =>
       /\ \A p \in staged : p[1] = p[2]
       /\ pc = "finish" => outcome.evidence \subseteq {Len(calls)}
       /\ \A e \in EvidenceSeen : e \in DOMAIN calls /\ calls[e].status = "success"

\* The observations tell of every row that did not end well, and of one that did.
ObservedInv ==
  /\ \A i \in DOMAIN calls :
       /\ calls[i].status = "success" => Successful # {}
       /\ calls[i].status # "success" /\ pc # "crashed" =>
            Unsuccessful # {} \/ (InFlight /\ i = Len(calls))
  /\ Successful # {} => calls # <<>>
  /\ \A o \in Unsuccessful : o.status = "rejected" =>
       \E i \in DOMAIN calls : calls[i].permission = "denied"

\* What a completed result says of the rows.
Truthful ==
  /\ result.outcome = "answered" =>
       calls # <<>> /\ \A i \in DOMAIN calls : calls[i].status = "success"
  /\ result.outcome = "denied" =>
       /\ \E i \in DOMAIN calls : calls[i].permission = "denied"
       /\ \A i \in DOMAIN calls : calls[i].status # "success"
ResultInv ==
  /\ pc \in {"settle", "ended"} /\ result.status = "completed" => Truthful
  /\ pc \in {"settle", "ended"} => result.evidence \subseteq EvidenceSeen
  /\ pc = "settle" /\ result.status = "completed" /\ result.outcome = "no_evidence" =>
       \A p \in staged : calls[p[2]].status # "success"
  /\ Ended /\ result.status = "completed" /\ result.outcome = "no_evidence" =>
       \A p \in committed : calls[p[2]].status # "success"
  /\ Ended => \A e \in result.evidence : e \in Held \/ \E p \in committed : p[1] = e

\* Only the call in flight is running, and every charged model call is counted.
RunningInv ==
  /\ counted <= reserved.models
  /\ ~lost => counted = reserved.models
  /\ ~lost /\ pc # "crashed" =>
       \A i \in DOMAIN calls : calls[i].status = "running" => InFlight /\ i = Len(calls)

LoopInv ==
  /\ TypeInv /\ LastCall /\ StagedInv /\ PublishedInv /\ SeenInv /\ StagedSeenInv
  /\ InventoryInv /\ ObservedInv /\ ResultInv /\ RunningInv

-----------------------------------------------------------------------------
(***************************************************************************)
(* Facts about the operators.                                              *)
(***************************************************************************)

\* The model chooses among actions of the worker's capabilities.
LEMMA ActionsTyped ==
  ASSUME worker \in {"business_data", "knowledge"}, NEW a \in Actions
  PROVE  a \in Action /\ a.capability \in Capabilities(worker)
BY DEF Actions, Action, Arguments, Capability, Capabilities

\* The observations are as before.
LEMMA SameObservations ==
  ASSUME observations' = observations
  PROVE  /\ Successful' = Successful /\ Unsuccessful' = Unsuccessful
         /\ EvidenceSeen' = EvidenceSeen
BY DEF Successful, Unsuccessful, EvidenceSeen

\* One observation more is one more success or failure, and its Evidence is seen.
LEMMA OneObservation ==
  ASSUME observations \in Seq(Observation), NEW o \in Observation,
         observations' = Append(observations, o)
  PROVE  /\ observations' \in Seq(Observation)
         /\ EvidenceSeen' = EvidenceSeen \cup o.evidence
         /\ o.status = "success" => /\ Successful' = Successful \cup {o}
                                    /\ Unsuccessful' = Unsuccessful
         /\ o.status # "success" => /\ Unsuccessful' = Unsuccessful \cup {o}
                                    /\ Successful' = Successful
<1>1. /\ observations' \in Seq(Observation)
      /\ DOMAIN observations' = DOMAIN observations \cup {Len(observations) + 1}
      /\ Len(observations) + 1 \notin DOMAIN observations
      /\ observations'[Len(observations) + 1] = o
      /\ \A i \in DOMAIN observations : observations'[i] = observations[i]
  OBVIOUS
<1>2. ToSet(observations') = ToSet(observations) \cup {o}
  BY <1>1 DEF ToSet
<1>3. ToSet(observations)' = ToSet(observations) \cup {o}
  BY <1>2 DEF ToSet
<1>4. EvidenceSeen' = EvidenceSeen \cup o.evidence
  BY <1>3 DEF EvidenceSeen
<1>5. CASE o.status = "success"
  BY <1>1, <1>3, <1>4, <1>5 DEF Successful, Unsuccessful
<1>6. CASE o.status # "success"
  BY <1>1, <1>3, <1>4, <1>6 DEF Successful, Unsuccessful
<1> QED
  BY <1>5, <1>6

\* One row more.
LEMMA OneCall ==
  ASSUME calls \in Seq(CallRow), NEW r \in CallRow, calls' = Append(calls, r)
  PROVE  /\ calls' \in Seq(CallRow) /\ calls' # <<>>
         /\ Len(calls') = Len(calls) + 1 /\ Len(calls) \in Nat
         /\ DOMAIN calls' = DOMAIN calls \cup {Len(calls')}
         /\ Len(calls') \notin DOMAIN calls
         /\ calls'[Len(calls')] = r
         /\ \A i \in DOMAIN calls : calls'[i] = calls[i]
OBVIOUS

\* The status of the last row is written.
LEMMA CallFinished ==
  ASSUME calls \in Seq(CallRow), calls # <<>>,
         NEW s \in {"running", "success", "error", "timeout", "denied"},
         calls' = [calls EXCEPT ![Len(calls)].status = s]
  PROVE  /\ calls' \in Seq(CallRow) /\ calls' # <<>>
         /\ Len(calls') = Len(calls) /\ DOMAIN calls' = DOMAIN calls
         /\ Len(calls) \in DOMAIN calls
         /\ \A i \in DOMAIN calls :
              /\ calls'[i].permission = calls[i].permission
              /\ calls'[i].status = IF i = Len(calls) THEN s ELSE calls[i].status
<1>1. Len(calls) \in DOMAIN calls /\ DOMAIN calls = 1..Len(calls) /\ Len(calls) \in Nat
      /\ calls \in [DOMAIN calls -> CallRow]
  OBVIOUS
<1>2. /\ DOMAIN calls' = DOMAIN calls
      /\ \A i \in DOMAIN calls :
           /\ calls'[i] \in CallRow
           /\ calls'[i].permission = calls[i].permission
           /\ calls'[i].status = IF i = Len(calls) THEN s ELSE calls[i].status
  BY <1>1 DEF CallRow
<1>3. calls' \in [1..Len(calls) -> CallRow]
  BY <1>1, <1>2
<1>4. calls' \in Seq(CallRow) /\ Len(calls') = Len(calls)
  BY <1>1, <1>3
<1> QED
  BY <1>1, <1>2, <1>4

-----------------------------------------------------------------------------
(***************************************************************************)
(* Steps that leave the rows, the observations and the Evidence alone.     *)
(***************************************************************************)
Still == UNCHANGED <<fixed, observations, calls, store>>

\* An attempt begins in a state of the invariant.
LEMMA InitInv == Init => LoopInv
<1> SUFFICES ASSUME Init PROVE LoopInv
  OBVIOUS
<1> USE DEF Init
<1>1. Successful = {} /\ Unsuccessful = {} /\ EvidenceSeen = {}
  BY DEF Successful, Unsuccessful, EvidenceSeen, ToSet
<1>2. <<>> \in Seq(Observation) /\ <<>> \in Seq(CallRow)
  OBVIOUS
<1>3. TypeInv
  BY <1>2, Zenon DEF TypeInv, Executing, InFlight
<1>4. LastCall /\ StagedInv /\ PublishedInv
  BY DEF InFlight, LastCall, StagedInv, PublishedInv, EvidenceIsAudited
<1>5. SeenInv /\ StagedSeenInv /\ InventoryInv /\ ObservedInv /\ ResultInv /\ RunningInv
  BY <1>1 DEF SeenInv, Executing, InFlight, StagedSeenInv, InventoryInv, ObservedInv,
     ResultInv, Ended, RunningInv
<1> QED
  BY <1>3, <1>4, <1>5 DEF LoopInv

\* The loop goes on: to choose, to reserve or to authorize an action.
LEMMA GoesOn ==
  ASSUME LoopInv, Still, UNCHANGED <<deadline, lost, outcome, result>>,
         pc \in {"decide", "choose", "reserve"},
         pc' \in {"choose", "reserve", "authorize"},
         pc' \in {"reserve", "authorize"} =>
            /\ action' \in Action /\ action'.capability \in Capabilities(worker)
            /\ action'.capability = "get_evidence_detail" => Known(action'.about),
         reserved' \in [models: Nat, tools: Nat], counted' \in Nat,
         reserved'.models - counted' = reserved.models - counted
  PROVE  LoopInv'
<1> USE DEF Still, fixed, store
<1>1. /\ Successful' = Successful /\ Unsuccessful' = Unsuccessful
      /\ EvidenceSeen' = EvidenceSeen
  BY SameObservations
<1>2. TypeInv'
  BY DEF LoopInv, TypeInv, Executing, InFlight
<1>3. LastCall' /\ StagedInv' /\ PublishedInv'
  BY DEF LoopInv, LastCall, InFlight, StagedInv, Audited, PublishedInv, EvidenceIsAudited
<1>4. SeenInv' /\ StagedSeenInv' /\ InventoryInv'
  BY <1>1 DEF LoopInv, SeenInv, Known, Executing, InFlight, StagedSeenInv, InventoryInv
<1>5. ObservedInv' /\ ResultInv'
  BY <1>1 DEF LoopInv, ObservedInv, InFlight, ResultInv, Ended
<1>6. reserved.models \in Nat /\ reserved'.models \in Nat /\ counted \in Nat
  BY DEF LoopInv, TypeInv
<1>7. /\ counted <= reserved.models => counted' <= reserved'.models
      /\ counted = reserved.models => counted' = reserved'.models
  BY <1>6
<1>8. RunningInv'
  BY <1>7 DEF LoopInv, RunningInv, InFlight
<1> QED
  BY <1>2, <1>3, <1>4, <1>5, <1>8 DEF LoopInv

\* The worker returns r: a failure or a question, or a result whose references are
\* known and that is truthful.
Returnable(r) ==
  /\ r \in WorkerResult
  /\ r.status # "completed" => r.evidence = {} /\ r.files = {}
  /\ r.status = "completed" =>
       /\ \A e \in r.evidence : Known(e)
       /\ r.outcome = "answered" =>
            calls # <<>> /\ \A i \in DOMAIN calls : calls[i].status = "success"
       /\ r.outcome = "denied" =>
            /\ \E i \in DOMAIN calls : calls[i].permission = "denied"
            /\ \A i \in DOMAIN calls : calls[i].status # "success"
       /\ r.evidence \subseteq EvidenceSeen
       /\ r.outcome = "no_evidence" => \A p \in staged : calls[p[2]].status # "success"

\* Returning such a result to the runtime.
LEMMA ReturnStep ==
  ASSUME LoopInv, Still, UNCHANGED <<deadline, outcome>>,
         pc \in {"decide", "choose"}, NEW r, Return(r), Returnable(r),
         reserved' \in [models: Nat, tools: Nat], counted' \in Nat, lost' \in BOOLEAN,
         lost => lost', counted' <= reserved'.models,
         ~lost' => reserved'.models - counted' = reserved.models - counted
  PROVE  LoopInv'
<1> USE DEF Still, fixed, store
<1>0. result' = r /\ pc' = "settle"
  BY DEF Return
<1>1. /\ Successful' = Successful /\ Unsuccessful' = Unsuccessful
      /\ EvidenceSeen' = EvidenceSeen
  BY SameObservations
<1>2. TypeInv'
  BY <1>0 DEF LoopInv, TypeInv, Executing, InFlight, Returnable
<1>3. LastCall' /\ StagedInv' /\ PublishedInv'
  BY <1>0 DEF LoopInv, LastCall, InFlight, StagedInv, Audited, PublishedInv, EvidenceIsAudited
<1>4. SeenInv' /\ StagedSeenInv' /\ InventoryInv'
  BY <1>0, <1>1 DEF LoopInv, SeenInv, Known, Executing, InFlight, StagedSeenInv, Returnable,
     InventoryInv
<1>5. ObservedInv' /\ ResultInv'
  BY <1>0, <1>1 DEF LoopInv, ObservedInv, InFlight, ResultInv, Ended, Returnable, Truthful
<1>6. reserved.models \in Nat /\ reserved'.models \in Nat /\ counted \in Nat
  BY DEF LoopInv, TypeInv
<1>7. RunningInv'
  BY <1>0, <1>6 DEF LoopInv, RunningInv, InFlight, TypeInv
<1> QED
  BY <1>2, <1>3, <1>4, <1>5, <1>7 DEF LoopInv

\* The steps of the loop up to the authorization of an action.
LEMMA LoopSteps ==
  ASSUME LoopInv,
         ReserveModelCall \/ OutOfDecisions \/ ChooseCapability \/ ReserveToolCall
  PROVE  LoopInv'
<1>1. /\ reserved \in [models: Nat, tools: Nat] /\ counted \in Nat /\ lost \in BOOLEAN
      /\ worker \in {"business_data", "knowledge"} /\ counted <= reserved.models
      /\ ~lost => counted = reserved.models
  BY DEF LoopInv, TypeInv, RunningInv
<1>2. Failed("system_error") \in WorkerResult /\ Returnable(Failed("system_error"))
  BY DEF Failed, Result, WorkerResult, Returnable
<1>3. CASE ReserveModelCall
  <2>1. /\ pc = "decide" /\ Still /\ UNCHANGED <<deadline, outcome>>
        /\ reserved' = [reserved EXCEPT !.models = @ + 1]
    BY <1>3 DEF ReserveModelCall, InLoop, Still, fixed, store
  <2>2. reserved' \in [models: Nat, tools: Nat] /\ reserved'.models = reserved.models + 1
    BY <1>1, <2>1
  <2>3. CASE counted' = counted + 1 /\ pc' = "choose" /\ UNCHANGED <<lost, result>>
    BY <1>1, <2>1, <2>2, <2>3, GoesOn
  <2>4. CASE lost' = TRUE /\ Return(Failed("system_error")) /\ UNCHANGED counted
    BY <1>1, <1>2, <2>1, <2>2, <2>4, ReturnStep
  <2> QED
    BY <1>3, <2>3, <2>4 DEF ReserveModelCall
<1>4. CASE OutOfDecisions
  BY <1>1, <1>2, <1>4, ReturnStep DEF OutOfDecisions, InLoop, Still, loop, audit, fixed, store
<1>5. CASE ChooseCapability
  <2>1. PICK a \in Actions :
          IF ValidScope(a) /\ a \notin signatures
          THEN action' = a /\ signatures' = signatures \cup {a} /\ pc' = "reserve"
               /\ UNCHANGED result
          ELSE Return(Failed("system_error")) /\ UNCHANGED <<action, signatures>>
    BY <1>5 DEF ChooseCapability
  <2>2. /\ pc = "choose" /\ Still
        /\ UNCHANGED <<deadline, outcome, reserved, counted, calls, lost>>
    BY <1>5 DEF ChooseCapability, InLoop, Still, fixed, store, audit
  <2>3. CASE ValidScope(a) /\ a \notin signatures
    <3>1. a \in Action /\ a.capability \in Capabilities(worker)
      BY <1>1, ActionsTyped
    <3>2. a.capability = "get_evidence_detail" => Known(a.about)
      BY <2>2, <2>3 DEF ValidScope, LoopInv, SeenInv, Known
    <3> QED
      BY <1>1, <2>1, <2>2, <2>3, <3>1, <3>2, GoesOn
  <2>4. CASE ~(ValidScope(a) /\ a \notin signatures)
    BY <1>1, <1>2, <2>1, <2>2, <2>4, ReturnStep
  <2> QED
    BY <2>3, <2>4
<1>6. CASE ReserveToolCall
  <2>1. /\ pc = "reserve" /\ pc' = "authorize" /\ Still
        /\ UNCHANGED <<deadline, lost, outcome, result, counted, action>>
        /\ reserved' = [reserved EXCEPT !.tools = @ + 1]
    BY <1>6 DEF ReserveToolCall, InLoop, Still, fixed, store, audit, loop
  <2>2. reserved' \in [models: Nat, tools: Nat] /\ reserved'.models = reserved.models
    BY <1>1, <2>1
  <2>3. /\ action \in Action /\ action.capability \in Capabilities(worker)
        /\ action.capability = "get_evidence_detail" => Known(action.about)
    BY <2>1 DEF LoopInv, TypeInv, SeenInv, InventoryInv, Executing
  <2> QED
    BY <1>1, <2>1, <2>2, <2>3, GoesOn
<1> QED
  BY <1>3, <1>4, <1>5, <1>6

\* The provider's last answers: it fails, asks, gives up or finishes.
LEMMA ProviderSteps ==
  ASSUME LoopInv, ProviderFails \/ AskUser \/ Finish \/ CannotComplete
  PROVE  LoopInv'
<1>1. /\ reserved \in [models: Nat, tools: Nat] /\ counted \in Nat /\ lost \in BOOLEAN
      /\ counted <= reserved.models
  BY DEF LoopInv, TypeInv, RunningInv
<1>2. /\ pc = "choose" /\ Still /\ UNCHANGED <<deadline, outcome, reserved, counted, lost>>
  BY DEF ProviderFails, AskUser, Finish, CannotComplete, InLoop, Still, fixed, store, audit,
     loop
<1>3. ASSUME NEW r, Return(r), Returnable(r)
      PROVE  LoopInv'
  BY <1>1, <1>2, <1>3, ReturnStep
<1>4. \A b \in {"system_error", "timed_out"} : Returnable(Failed(b))
  BY DEF Failed, Result, WorkerResult, Returnable
<1>5. Returnable(Result("waiting_user", None, {}, {}))
  BY DEF Result, WorkerResult, Returnable
<1>6. ASSUME NEW business \in {"answered", "partial", "no_evidence", "denied", "unsupported"},
             business = "answered" => Successful # {} /\ Unsuccessful = {},
             business = "denied" =>
                (\E o \in Unsuccessful : o.status = "rejected") /\ Successful = {},
             business = "no_evidence" => EvidenceSeen = {}
      PROVE  Returnable(Result("completed", business, EvidenceSeen, FilesSeen))
  <2> DEFINE r == Result("completed", business, EvidenceSeen, FilesSeen)
  <2>1. EvidenceSeen \subseteq Ids /\ FilesSeen \subseteq Files
    <3>1. ToSet(observations) \subseteq Observation
      BY DEF LoopInv, TypeInv, ToSet
    <3> QED
      BY <3>1 DEF EvidenceSeen, FilesSeen, Observation
  <2>2. /\ r \in WorkerResult /\ r.outcome = business /\ r.evidence = EvidenceSeen
        /\ r.status = "completed"
    BY <2>1 DEF Result, WorkerResult
  <2> HIDE DEF r
  <2>3. \A e \in EvidenceSeen : Known(e)
    BY <1>2 DEF LoopInv, SeenInv
  <2>4. business = "answered" =>
          calls # <<>> /\ \A i \in DOMAIN calls : calls[i].status = "success"
    BY <1>2, <1>6 DEF LoopInv, ObservedInv, InFlight
  <2>5. business = "denied" =>
          /\ \E i \in DOMAIN calls : calls[i].permission = "denied"
          /\ \A i \in DOMAIN calls : calls[i].status # "success"
    BY <1>2, <1>6 DEF LoopInv, ObservedInv, InFlight
  <2>6. business = "no_evidence" => \A p \in staged : calls[p[2]].status # "success"
    BY <1>2, <1>6 DEF LoopInv, StagedSeenInv
  <2>7. Returnable(r)
    BY <2>2, <2>3, <2>4, <2>5, <2>6 DEF Returnable
  <2> QED
    BY <2>7 DEF r
<1>7. CASE ProviderFails
  BY <1>3, <1>4, <1>7 DEF ProviderFails
<1>8. CASE AskUser
  BY <1>3, <1>5, <1>8 DEF AskUser
<1>9. CASE Finish
  <2>1. PICK business \in {"answered", "partial", "no_evidence"},
             evidence \in {{}, EvidenceSeen}, files \in {{}, FilesSeen} :
          Return(IF FinishAccepted(business, evidence, files)
                 THEN Result("completed", business, evidence, files)
                 ELSE Failed("system_error"))
    BY <1>9 DEF Finish
  <2>2. CASE FinishAccepted(business, evidence, files)
    <3>1. /\ evidence = EvidenceSeen /\ files = FilesSeen
          /\ business = "answered" => Successful # {} /\ Unsuccessful = {}
          /\ business = "no_evidence" => EvidenceSeen = {}
      BY <2>2 DEF FinishAccepted
    <3>2. Returnable(Result("completed", business, EvidenceSeen, FilesSeen))
      BY <1>6, <3>1
    <3> QED
      BY <1>3, <2>1, <2>2, <3>1, <3>2
  <2>3. CASE ~FinishAccepted(business, evidence, files)
    BY <1>3, <1>4, <2>1, <2>3
  <2> QED
    BY <2>2, <2>3
<1>10. CASE CannotComplete
  <2>1. PICK business \in {"denied", "unsupported", "no_evidence",
                           "timed_out", "system_error"} :
          Return(IF business \in {"timed_out", "system_error"}
                 THEN Failed(business)
                 ELSE IF CannotAccepted(business)
                 THEN Result("completed", business, EvidenceSeen, FilesSeen)
                 ELSE Failed("system_error"))
    BY <1>10 DEF CannotComplete
  <2>2. CASE business \in {"timed_out", "system_error"}
    BY <1>3, <1>4, <2>1, <2>2
  <2>3. CASE business \notin {"timed_out", "system_error"} /\ CannotAccepted(business)
    <3>1. Returnable(Result("completed", business, EvidenceSeen, FilesSeen))
      BY <1>6, <2>3 DEF CannotAccepted
    <3> QED
      BY <1>3, <2>1, <2>3, <3>1
  <2>4. CASE business \notin {"timed_out", "system_error"} /\ ~CannotAccepted(business)
    BY <1>3, <1>4, <2>1, <2>4
  <2> QED
    BY <2>2, <2>3, <2>4
<1> QED
  BY <1>7, <1>8, <1>9, <1>10

-----------------------------------------------------------------------------
(***************************************************************************)
(* Steps that end a call with an observation.                              *)
(***************************************************************************)

\* The observation o is made; a timeout ends the attempt.
Observed(o) ==
  /\ o \in Observation
  /\ observations' = Append(observations, o)
  /\ \/ o.status = "timeout" /\ pc' = "settle" /\ result' = Failed("timed_out")
     \/ o.status # "timeout" /\ pc' = "decide" /\ result' = result
Unaltered ==
  /\ UNCHANGED <<worker, deadline, counted, staged, aborted, committed, reserved>>
  /\ Executing

\* Observe makes such an observation of the action in flight.
LEMMA ObserveIsObserved ==
  ASSUME LoopInv, Executing, NEW s \in {"success", "error", "timeout", "rejected"},
         NEW ev \in SUBSET Ids, NEW f \in SUBSET Files, Observe(s, ev, f)
  PROVE  Observed([action |-> action, status |-> s, evidence |-> ev, files |-> f])
<1>1. action \in Action
  BY DEF LoopInv, TypeInv
<1>2. [action |-> action, status |-> s, evidence |-> ev, files |-> f] \in Observation
  BY <1>1 DEF Observation
<1> QED
  BY <1>2 DEF Observe, Observed, Return

\* The parts of the invariant that depend only on how the attempt goes on.
LEMMA ObservedParts ==
  ASSUME LoopInv, Unaltered, NEW o, Observed(o), lost' \in BOOLEAN, lost => lost',
         calls' \in Seq(CallRow), \A e \in o.evidence : Known(e)
  PROVE  /\ TypeInv' /\ LastCall' /\ PublishedInv' /\ SeenInv'
         /\ pc' = "settle" => result'.status # "completed" /\ result'.evidence = {}
         /\ ResultInv' /\ ~InFlight' /\ pc' \in {"decide", "settle"}
         /\ EvidenceSeen' = EvidenceSeen \cup o.evidence
         /\ o.status = "success" => /\ Successful' = Successful \cup {o}
                                    /\ Unsuccessful' = Unsuccessful
         /\ o.status # "success" => /\ Unsuccessful' = Unsuccessful \cup {o}
                                    /\ Successful' = Successful
<1> USE DEF Unaltered
<1>1. /\ observations' \in Seq(Observation)
      /\ EvidenceSeen' = EvidenceSeen \cup o.evidence
      /\ o.status = "success" => /\ Successful' = Successful \cup {o}
                                 /\ Unsuccessful' = Unsuccessful
      /\ o.status # "success" => /\ Unsuccessful' = Unsuccessful \cup {o}
                                 /\ Successful' = Successful
  BY OneObservation DEF Observed, LoopInv, TypeInv
<1>2. /\ pc' \in {"decide", "settle"}
      /\ pc' = "settle" => result' \in WorkerResult /\ result'.status = "failed"
                           /\ result'.evidence = {} /\ result'.files = {}
  BY DEF Observed, Failed, Result, WorkerResult
<1>3. TypeInv' /\ LastCall' /\ ~InFlight'
  BY <1>1, <1>2 DEF LoopInv, TypeInv, LastCall, Executing, InFlight
<1>4. PublishedInv'
  BY <1>2 DEF LoopInv, PublishedInv, EvidenceIsAudited, Executing, InFlight
<1>5. SeenInv'
  BY <1>1, <1>2 DEF LoopInv, SeenInv, Known, Executing, InFlight
<1>6. ResultInv'
  BY <1>2 DEF ResultInv, Ended
<1> QED
  BY <1>1, <1>2, <1>3, <1>4, <1>5, <1>6

\* What has been seen of successful rows stays so while the rows do.
LEMMA InventoryObserved ==
  ASSUME LoopInv, Unaltered, NEW o, ~Executing',
         EvidenceSeen' = EvidenceSeen \cup o.evidence,
         \A i \in DOMAIN calls :
            i \in DOMAIN calls' /\ (calls[i].status = "success" => calls'[i].status = "success"),
         worker = "business_data" =>
            \A e \in o.evidence : e \in DOMAIN calls' /\ calls'[e].status = "success"
  PROVE  InventoryInv'
BY DEF LoopInv, InventoryInv, Unaltered, Executing, InFlight

\* An audit write fails: the rows stay, and the call is observed as an error.
LEMMA WriteLost ==
  ASSUME LoopInv, Unaltered, lost' = TRUE, calls' = calls, Observe("error", {}, {})
  PROVE  LoopInv'
<1> DEFINE o == [action |-> action, status |-> "error", evidence |-> {}, files |-> {}]
<1>1. Observed(o) /\ o.status = "error" /\ o.evidence = {}
  BY ObserveIsObserved DEF Unaltered
<1> HIDE DEF o
<1>2. /\ TypeInv' /\ LastCall' /\ PublishedInv' /\ SeenInv'
      /\ ResultInv' /\ ~InFlight' /\ pc' = "decide"
      /\ EvidenceSeen' = EvidenceSeen \cup o.evidence
      /\ Unsuccessful' = Unsuccessful \cup {o} /\ Successful' = Successful
  BY <1>1, ObservedParts DEF LoopInv, TypeInv, Observed
<1>3. StagedInv'
  BY <1>2 DEF Unaltered, LoopInv, StagedInv, Audited, Executing, InFlight
<1>4. StagedSeenInv' /\ RunningInv'
  BY <1>2 DEF Unaltered, LoopInv, StagedSeenInv, RunningInv, Executing, InFlight
<1>5. ObservedInv'
  BY <1>1, <1>2 DEF LoopInv, ObservedInv
<1>6. InventoryInv'
  BY <1>1, <1>2, InventoryObserved DEF Executing
<1> QED
  BY <1>2, <1>3, <1>4, <1>5, <1>6 DEF LoopInv

\* A refusal leaves a row of its own, which says denied.
LEMMA RefusalWritten ==
  ASSUME LoopInv, Unaltered, pc \in {"reserve", "authorize"}, lost' = lost,
         NEW r \in CallRow, calls' = Append(calls, r), r.permission = "denied",
         r.status \in {"denied", "timeout"},
         NEW s \in {"timeout", "rejected"}, Observe(s, {}, {})
  PROVE  LoopInv'
<1> DEFINE o == [action |-> action, status |-> s, evidence |-> {}, files |-> {}]
<1>1. Observed(o) /\ o.status = s /\ o.evidence = {}
  BY ObserveIsObserved DEF Unaltered
<1> HIDE DEF o
<1>2. /\ calls' \in Seq(CallRow) /\ calls' # <<>>
      /\ DOMAIN calls' = DOMAIN calls \cup {Len(calls')}
      /\ Len(calls') \notin DOMAIN calls
      /\ calls'[Len(calls')] = r
      /\ \A i \in DOMAIN calls : calls'[i] = calls[i]
  BY OneCall DEF LoopInv, TypeInv
<1>3. /\ TypeInv' /\ LastCall' /\ PublishedInv' /\ SeenInv'
      /\ ResultInv' /\ ~InFlight' /\ pc' \in {"decide", "settle"} /\ ~InFlight
      /\ pc' = "settle" => result'.status # "completed"
      /\ EvidenceSeen' = EvidenceSeen
      /\ Unsuccessful' = Unsuccessful \cup {o} /\ Successful' = Successful
  <2>1. lost' \in BOOLEAN /\ (lost => lost') /\ ~InFlight
    BY DEF LoopInv, TypeInv, InFlight
  <2>2. \A e \in o.evidence : Known(e)
    BY <1>1
  <2> QED
    BY <1>1, <1>2, <2>1, <2>2, ObservedParts
<1>4. StagedInv'
  BY <1>2, <1>3 DEF Unaltered, LoopInv, StagedInv, Audited
<1>5. StagedSeenInv' /\ InventoryInv'
  <2>1. \A p \in staged : p[2] \in DOMAIN calls
    BY DEF LoopInv, StagedInv, Audited
  <2>2. StagedSeenInv'
    BY <1>2, <1>3, <2>1 DEF Unaltered, LoopInv, StagedSeenInv, InFlight
  <2>3. InventoryInv'
    BY <1>1, <1>2, <1>3, InventoryObserved DEF Executing
  <2> QED
    BY <2>2, <2>3
<1>6. RunningInv'
  BY <1>2, <1>3 DEF Unaltered, LoopInv, RunningInv
<1>7. ObservedInv'
  <2>1. \A i \in DOMAIN calls' :
          /\ calls'[i].status = "success" => Successful' # {}
          /\ calls'[i].status # "success" => Unsuccessful' # {}
    BY <1>2, <1>3 DEF LoopInv, ObservedInv
  <2>2. \E i \in DOMAIN calls' : calls'[i].permission = "denied"
    BY <1>2
  <2> QED
    BY <1>2, <2>1, <2>2 DEF ObservedInv
<1> QED
  BY <1>3, <1>4, <1>5, <1>6, <1>7 DEF LoopInv

\* The row of the call in flight takes the status that is observed.
LEMMA FinishWritten ==
  ASSUME LoopInv, Unaltered, pc = "finish", lost' = lost,
         calls' = [calls EXCEPT ![Len(calls)].status = outcome.status],
         NEW o, Observed(o), o.status = outcome.status,
         o.evidence = IF o.status = "success" THEN outcome.evidence ELSE {}
  PROVE  LoopInv'
<1>1. /\ outcome \in Outcome /\ calls # <<>> /\ calls \in Seq(CallRow) /\ InFlight
      /\ calls[Len(calls)].status = "running" /\ calls[Len(calls)].permission = "allowed"
      /\ \A e \in outcome.evidence : Known(e)
  BY DEF LoopInv, TypeInv, LastCall, InFlight, SeenInv
<1>2. outcome.status \in {"success", "error", "timeout"}
  BY <1>1 DEF Outcome
<1>3. /\ calls' \in Seq(CallRow) /\ calls' # <<>>
      /\ DOMAIN calls' = DOMAIN calls /\ Len(calls) \in DOMAIN calls
      /\ \A i \in DOMAIN calls :
           /\ calls'[i].permission = calls[i].permission
           /\ calls'[i].status = IF i = Len(calls) THEN outcome.status ELSE calls[i].status
  BY <1>1, <1>2, CallFinished
<1>4. /\ TypeInv' /\ LastCall' /\ PublishedInv' /\ SeenInv'
      /\ ResultInv' /\ ~InFlight' /\ pc' \in {"decide", "settle"}
      /\ pc' = "settle" => result'.status # "completed"
      /\ EvidenceSeen' = EvidenceSeen \cup o.evidence
      /\ o.status = "success" => /\ Successful' = Successful \cup {o}
                                 /\ Unsuccessful' = Unsuccessful
      /\ o.status # "success" => /\ Unsuccessful' = Unsuccessful \cup {o}
                                 /\ Successful' = Successful
  BY <1>1, <1>3, ObservedParts DEF LoopInv, TypeInv
<1>5. pc' = "settle" <=> outcome.status = "timeout"
  BY DEF Observed
<1>6. StagedInv'
  <2> SUFFICES ASSUME NEW p \in staged PROVE Audited(p[2])'
    BY <1>4 DEF StagedInv, Unaltered
  <2>1. Audited(p[2])
    BY DEF LoopInv, StagedInv
  <2>2. CASE p[2] = Len(calls)
    <3>1. outcome.status = "error" => worker = "business_data"
      BY <2>2 DEF LoopInv, StagedInv
    <3> QED
      BY <1>1, <1>2, <1>3, <1>4, <1>5, <2>2, <3>1 DEF Audited, Unaltered
  <2>3. CASE p[2] # Len(calls)
    BY <1>3, <2>1, <2>3 DEF Audited, Unaltered
  <2> QED
    BY <2>2, <2>3
<1>7. StagedSeenInv' /\ InventoryInv'
  <2>1. ASSUME NEW p \in staged, calls'[p[2]].status = "success"
        PROVE  p[1] \in EvidenceSeen'
    <3>1. p[2] \in DOMAIN calls
      BY DEF LoopInv, StagedInv, Audited
    <3>2. CASE p[2] = Len(calls)
      BY <1>1, <1>3, <1>4, <2>1, <3>2 DEF LoopInv, StagedSeenInv
    <3>3. CASE p[2] # Len(calls)
      BY <1>3, <1>4, <2>1, <3>1, <3>3 DEF LoopInv, StagedSeenInv
    <3> QED
      BY <3>2, <3>3
  <2>2. StagedSeenInv'
    BY <1>4, <2>1 DEF StagedSeenInv, Unaltered, InFlight
  <2>3. worker = "business_data" =>
          \A e \in o.evidence : e \in DOMAIN calls' /\ calls'[e].status = "success"
    BY <1>3 DEF LoopInv, InventoryInv
  <2>4. \A i \in DOMAIN calls :
          i \in DOMAIN calls' /\ (calls[i].status = "success" => calls'[i].status = "success")
    BY <1>1, <1>3
  <2>5. InventoryInv'
    BY <1>4, <2>3, <2>4, InventoryObserved DEF Executing
  <2> QED
    BY <2>2, <2>5
<1>8. RunningInv'
  BY <1>1, <1>2, <1>3, <1>4 DEF LoopInv, RunningInv, Unaltered
<1>9. ObservedInv'
  <2>1. \A i \in DOMAIN calls' :
          /\ calls'[i].status = "success" => Successful' # {}
          /\ calls'[i].status # "success" => Unsuccessful' # {}
    BY <1>1, <1>2, <1>3, <1>4 DEF LoopInv, ObservedInv
  <2>2. \A p \in Unsuccessful : p.status = "rejected" =>
          \E i \in DOMAIN calls' : calls'[i].permission = "denied"
    BY <1>3 DEF LoopInv, ObservedInv
  <2> QED
    BY <1>2, <1>3, <1>4, <2>1, <2>2 DEF ObservedInv
<1> QED
  BY <1>4, <1>6, <1>7, <1>8, <1>9 DEF LoopInv


\* A refused call leaves its row, or the write of that row fails.
LEMMA RefuseStep ==
  ASSUME LoopInv, pc \in {"reserve", "authorize"}, UNCHANGED reserved,
         NEW st \in {"denied", "timeout"}, NEW s \in {"timeout", "rejected"},
         Refuse(ToolRow("denied", st), s)
  PROVE  LoopInv'
<1> DEFINE r == ToolRow("denied", st)
<1>1. Unaltered /\ lost \in BOOLEAN
  BY DEF Refuse, InLoop, Unaltered, fixed, store, Executing, LoopInv, TypeInv
<1>2. r \in CallRow /\ r.permission = "denied" /\ r.status = st
  BY DEF ToolRow, CallRow, LoopInv, TypeInv, Executing
<1> HIDE DEF r
<1>3. CASE calls' = Append(calls, r) /\ Observe(s, {}, {}) /\ UNCHANGED lost
  BY <1>1, <1>2, <1>3, RefusalWritten
<1>4. CASE lost' = TRUE /\ Observe("error", {}, {}) /\ UNCHANGED calls
  BY <1>1, <1>4, WriteLost
<1> QED
  BY <1>3, <1>4 DEF Refuse, r

\* The row of an allowed call is written before its operation runs.
LEMMA StartWritten ==
  ASSUME LoopInv, pc = "authorize", pc' = "operate",
         calls' = Append(calls, ToolRow("allowed", "running")),
         UNCHANGED <<fixed, deadline, loop, counted, lost, reserved, store, result>>
  PROVE  LoopInv'
<1> DEFINE r == ToolRow("allowed", "running")
<1> USE DEF fixed, loop, store
<1>1. r \in CallRow /\ r.permission = "allowed" /\ r.status = "running"
  BY DEF ToolRow, CallRow, LoopInv, TypeInv, Executing
<1>2. calls' = Append(calls, r)
  OBVIOUS
<1> HIDE DEF r
<1>3. /\ calls' \in Seq(CallRow) /\ calls' # <<>>
      /\ DOMAIN calls' = DOMAIN calls \cup {Len(calls')}
      /\ Len(calls') \notin DOMAIN calls
      /\ calls'[Len(calls')] = r
      /\ \A i \in DOMAIN calls : calls'[i] = calls[i]
  BY <1>1, <1>2, OneCall DEF LoopInv, TypeInv
<1>4. /\ Successful' = Successful /\ Unsuccessful' = Unsuccessful
      /\ EvidenceSeen' = EvidenceSeen
  BY SameObservations
<1>5. TypeInv' /\ LastCall' /\ PublishedInv'
  BY <1>1, <1>3 DEF LoopInv, TypeInv, Executing, InFlight, LastCall, PublishedInv,
     EvidenceIsAudited
<1>6. StagedInv'
  <2>1. ASSUME NEW p \in staged PROVE Audited(p[2])' /\ p[2] # Len(calls')
    <3>1. Audited(p[2])
      BY DEF LoopInv, StagedInv
    <3>2. p[2] \in DOMAIN calls /\ p[2] # Len(calls')
      BY <1>3, <3>1 DEF Audited
    <3> QED
      BY <1>3, <3>1, <3>2 DEF Audited
  <2> QED
    BY <2>1 DEF StagedInv
<1>7. SeenInv' /\ StagedSeenInv' /\ InventoryInv'
  <2>1. SeenInv'
    BY <1>4 DEF LoopInv, SeenInv, Known, Executing, InFlight
  <2>2. \A p \in staged : p[2] \in DOMAIN calls
    BY DEF LoopInv, StagedInv, Audited
  <2>3. StagedSeenInv'
    BY <1>3, <1>4, <2>2 DEF LoopInv, StagedSeenInv
  <2>4. InventoryInv'
    BY <1>3, <1>4 DEF LoopInv, InventoryInv, Executing, InFlight
  <2> QED
    BY <2>1, <2>3, <2>4
<1>8. ResultInv' /\ RunningInv'
  BY <1>1, <1>3 DEF LoopInv, ResultInv, RunningInv, InFlight, Ended
<1>9. ObservedInv'
  <2>1. \A i \in DOMAIN calls' :
          /\ calls'[i].status = "success" => Successful' # {}
          /\ calls'[i].status # "success" =>
               Unsuccessful' # {} \/ (InFlight' /\ i = Len(calls'))
    BY <1>1, <1>3, <1>4 DEF LoopInv, ObservedInv, InFlight
  <2>2. \A o \in Unsuccessful' : o.status = "rejected" =>
          \E i \in DOMAIN calls' : calls'[i].permission = "denied"
    BY <1>3, <1>4 DEF LoopInv, ObservedInv
  <2> QED
    BY <1>3, <2>1, <2>2 DEF ObservedInv
<1> QED
  BY <1>5, <1>6, <1>7, <1>8, <1>9 DEF LoopInv

\* The operation ends: s are the rows it staged for its call, ev the Evidence it returns.
LEMMA OperationEnds ==
  ASSUME LoopInv, pc = "operate", pc' = "finish", aborted' \in BOOLEAN,
         NEW s \in SUBSET (Ids \X {Len(calls)}), staged' = staged \cup s,
         outcome' \in Outcome, outcome'.observed = outcome'.status,
         outcome'.status = "error" => outcome'.evidence = {},
         outcome'.status = "error" /\ s # {} => worker = "business_data",
         outcome'.status # "error" => \A p \in s : p[1] \in outcome'.evidence,
         worker = "business_data" => /\ \A p \in s : p[1] = Len(calls)
                                     /\ outcome'.evidence \subseteq {Len(calls)},
         \A e \in outcome'.evidence : Known(e) \/ \E p \in s : p[1] = e,
         UNCHANGED <<fixed, deadline, action, observations, reserved, audit, committed,
                     result>>
  PROVE  LoopInv'
<1> USE DEF fixed, audit
<1>1. /\ Successful' = Successful /\ Unsuccessful' = Unsuccessful
      /\ EvidenceSeen' = EvidenceSeen
  BY SameObservations
<1>2. /\ InFlight /\ InFlight' /\ calls # <<>> /\ calls \in Seq(CallRow)
      /\ calls[Len(calls)].permission = "allowed"
      /\ calls[Len(calls)].status = "running"
  BY DEF LoopInv, LastCall, InFlight, TypeInv
<1>3. Len(calls) \in DOMAIN calls /\ Len(calls) \in Nat
  BY <1>2
<1>4. outcome'.status \in {"success", "error", "timeout"}
  BY DEF Outcome
<1>5. TypeInv'
  <2>1. staged' \subseteq Ids \X Nat
    BY <1>3 DEF LoopInv, TypeInv
  <2> QED
    BY <2>1 DEF LoopInv, TypeInv, Executing, InFlight
<1>6. LastCall' /\ PublishedInv'
  BY <1>2 DEF LoopInv, LastCall, PublishedInv, EvidenceIsAudited
<1>7. StagedInv'
  <2>1. ASSUME NEW p \in staged
        PROVE  Audited(p[2])' /\ p[2] # Len(calls)
    BY DEF LoopInv, StagedInv, Audited
  <2>2. ASSUME NEW p \in s
        PROVE  Audited(p[2])'
    BY <1>2, <1>3, <1>4 DEF Audited
  <2>3. \A p \in s : outcome'.status = "error" => worker = "business_data"
    OBVIOUS
  <2> QED
    BY <2>1, <2>2, <2>3 DEF StagedInv
<1>8. SeenInv'
  <2>1. \A e : Known(e) \/ (\E p \in s : p[1] = e) => Known(e)'
    BY DEF Known
  <2> QED
    BY <1>1, <2>1 DEF LoopInv, SeenInv, Executing, InFlight
<1>9. StagedSeenInv' /\ InventoryInv'
  <2>1. \A p \in s : p[2] = Len(calls)
    OBVIOUS
  <2>2. \A p \in staged : p[2] # Len(calls)
    BY DEF LoopInv, StagedInv
  <2>3. StagedSeenInv'
    BY <1>1, <1>2, <2>1, <2>2 DEF LoopInv, StagedSeenInv
  <2>4. InventoryInv'
    BY <1>1, <1>2, <2>1 DEF LoopInv, InventoryInv, Executing
  <2> QED
    BY <2>3, <2>4
<1>10. ObservedInv' /\ ResultInv' /\ RunningInv'
  BY <1>1, <1>2 DEF LoopInv, ObservedInv, ResultInv, RunningInv, Ended
<1> QED
  BY <1>5, <1>6, <1>7, <1>8, <1>9, <1>10 DEF LoopInv

\* Whatever the capability, what it finds is known or written with its call.
LEMMA FoundIsTyped ==
  ASSUME LoopInv, pc = "operate", NEW found \in Found
  PROVE  /\ found[1] \in SUBSET Ids /\ found[2] \in SUBSET Files
         /\ ~Writes => \A e \in found[1] : Known(e)
         /\ worker = "business_data" => found[1] \subseteq {Len(calls)}
<1>1. /\ action \in Action /\ Executing /\ Len(calls) \in Nat
      /\ action.capability = "get_evidence_detail" => Known(action.about)
      /\ staged \subseteq Ids \X Nat
      /\ worker = "business_data" => action.capability \in {"get_product_spec", "search_inventory"}
  BY DEF LoopInv, TypeInv, SeenInv, InventoryInv, Capabilities, Executing, InFlight
<1>2. action.capability = "get_evidence_detail" => action.about \in Ids
  BY <1>1, LimitsAssumption DEF Known, Ids
<1>3. CASE action.capability = "search_inventory"
  BY <1>1, <1>3 DEF Found, Writes, Ids, Files
<1>4. CASE action.capability = "search_knowledge"
  <2>1. PICK s \in SUBSET Evidence : found = <<s, {}>>
    BY <1>4 DEF Found
  <2> QED
    BY <1>1, <1>4, <2>1 DEF Writes, Ids, Files
<1>5. CASE action.capability = "read_uploaded_file"
  BY <1>1, <1>5 DEF Found, Writes, Ids, Files
<1>6. CASE action.capability = "get_evidence_detail"
  BY <1>1, <1>2, <1>6 DEF Found, Writes, Files
<1>7. CASE action.capability \notin {"search_inventory", "search_knowledge",
                                    "read_uploaded_file", "get_evidence_detail"}
  BY <1>7 DEF Found, Writes, Ids, Files
<1> QED
  BY <1>3, <1>4, <1>5, <1>6, <1>7


\* The steps of the Harness around one call.
LEMMA ToolSteps ==
  ASSUME LoopInv,
         \/ BudgetRefuses \/ PermissionDenied \/ StartToolCall
         \/ OperationReturns \/ OperationRaises \/ FinishToolCall
  PROVE  LoopInv'
<1>1. CASE BudgetRefuses
  <2>1. /\ pc = "reserve" /\ UNCHANGED reserved
        /\ Refuse(ToolRow("denied", IF deadline = "root" THEN "timeout" ELSE "denied"),
                  "timeout")
    BY <1>1 DEF BudgetRefuses
  <2>2. CASE deadline = "root"
    BY <2>1, <2>2, RefuseStep
  <2>3. CASE deadline # "root"
    BY <2>1, <2>3, RefuseStep
  <2> QED
    BY <2>2, <2>3
<1>2. CASE PermissionDenied
  BY <1>2, RefuseStep DEF PermissionDenied
<1>3. CASE StartToolCall
  <2>1. pc = "authorize" /\ UNCHANGED <<fixed, deadline, counted, reserved, store>>
    BY <1>3 DEF StartToolCall, InLoop
  <2>2. CASE /\ calls' = Append(calls, ToolRow("allowed", "running"))
             /\ pc' = "operate"
             /\ UNCHANGED <<lost, loop, result>>
    BY <2>1, <2>2, StartWritten
  <2>3. CASE lost' = TRUE /\ Observe("error", {}, {}) /\ UNCHANGED calls
    <3>1. Unaltered
      BY <2>1 DEF Unaltered, fixed, store, Executing
    <3> QED
      BY <2>3, <3>1, WriteLost
  <2> QED
    BY <1>3, <2>2, <2>3 DEF StartToolCall
<1>4. CASE OperationReturns
  <2>1. PICK found \in Found, status \in {"success", "timeout"} :
          /\ staged' = staged \cup
                (IF Writes THEN {<<e, Len(calls)>> : e \in found[1]} ELSE {})
          /\ outcome' = [status |-> status, observed |-> status,
                         evidence |-> found[1], files |-> found[2]]
    BY <1>4 DEF OperationReturns
  <2>2. /\ pc = "operate" /\ pc' = "finish"
        /\ UNCHANGED <<fixed, deadline, action, observations, reserved, audit, aborted,
                       committed, result>>
    BY <1>4 DEF OperationReturns
  <2>3. /\ found[1] \in SUBSET Ids /\ found[2] \in SUBSET Files
        /\ ~Writes => \A e \in found[1] : Known(e)
        /\ worker = "business_data" => found[1] \subseteq {Len(calls)}
    BY <2>2, FoundIsTyped
  <2> DEFINE s == IF Writes THEN {<<e, Len(calls)>> : e \in found[1]} ELSE {}
  <2>4. /\ outcome' \in Outcome /\ outcome'.observed = outcome'.status
        /\ outcome'.status # "error" /\ outcome'.evidence = found[1]
    BY <2>1, <2>3 DEF Outcome
  <2>5. /\ s \in SUBSET (Ids \X {Len(calls)}) /\ staged' = staged \cup s
        /\ \A p \in s : p[1] \in outcome'.evidence
        /\ \A e \in outcome'.evidence : Known(e) \/ \E p \in s : p[1] = e
    <3>1. staged' = staged \cup s
      BY <2>1
    <3>2. CASE Writes
      <4>1. s = {<<e, Len(calls)>> : e \in found[1]}
        BY <3>2
      <4>2. \A p \in s : p \in Ids \X {Len(calls)} /\ p[1] \in found[1]
        BY <2>3, <4>1
      <4>3. \A e \in found[1] : <<e, Len(calls)>> \in s /\ <<e, Len(calls)>>[1] = e
        BY <4>1
      <4> HIDE DEF s
      <4> QED
        BY <2>4, <3>1, <4>2, <4>3
    <3>3. CASE ~Writes
      <4>1. s = {}
        BY <3>3
      <4> HIDE DEF s
      <4> QED
        BY <2>3, <2>4, <3>1, <3>3, <4>1
    <3> QED
      BY <3>2, <3>3
  <2>6. aborted' \in BOOLEAN
    BY <2>2 DEF LoopInv, TypeInv
  <2>7. worker = "business_data" => /\ \A p \in s : p[1] = Len(calls)
                                    /\ outcome'.evidence \subseteq {Len(calls)}
    BY <2>3, <2>4, <2>5
  <2> HIDE DEF s
  <2> QED
    BY <2>2, <2>4, <2>5, <2>6, <2>7, OperationEnds
<1>5. CASE OperationRaises
  <2>1. PICK status \in {"error", "timeout"}, broken \in BOOLEAN :
          /\ aborted' = (aborted \/ broken)
          /\ \E left \in LeftStaged(status) :
                (left # {} => ~aborted') /\ staged' = staged \cup left
          /\ outcome' = [status |-> status, observed |-> status,
                         evidence |-> {}, files |-> {}]
    BY <1>5 DEF OperationRaises
  <2>2. PICK left \in LeftStaged(status) : staged' = staged \cup left
    BY <2>1
  <2>3. /\ pc = "operate" /\ pc' = "finish"
        /\ UNCHANGED <<fixed, deadline, action, observations, reserved, audit, committed,
                       result>>
    BY <1>5 DEF OperationRaises
  <2>4. /\ outcome' \in Outcome /\ outcome'.observed = outcome'.status
        /\ outcome'.evidence = {} /\ outcome'.status = status
    BY <2>1 DEF Outcome
  <2>5. /\ Len(calls) \in Nat /\ worker \in {"business_data", "knowledge"}
        /\ action.capability \in Capabilities(worker)
        /\ aborted' \in BOOLEAN
    BY <2>1, <2>3 DEF LoopInv, TypeInv, InventoryInv, Executing, InFlight
  <2>6. \/ left = {}
        \/ /\ left = {<<Len(calls), Len(calls)>>} /\ status = "error"
           /\ action.capability = "search_inventory"
    BY DEF LeftStaged
  <2>7. left # {} => worker = "business_data"
    BY <2>5, <2>6 DEF Capabilities
  <2>8. /\ left \in SUBSET (Ids \X {Len(calls)})
        /\ \A p \in left : p[1] = Len(calls)
        /\ status # "error" => left = {}
    BY <2>5, <2>6 DEF Ids
  <2> QED
    BY <2>2, <2>3, <2>4, <2>5, <2>7, <2>8, OperationEnds
<1>6. CASE FinishToolCall
  <2>1. Unaltered /\ pc = "finish"
    BY <1>6 DEF FinishToolCall, InLoop, Unaltered, fixed, store, Executing, InFlight
  <2>2. CASE lost' = TRUE /\ Observe("error", {}, {}) /\ UNCHANGED calls
    BY <2>1, <2>2, WriteLost
  <2>3. CASE /\ calls' = [calls EXCEPT ![Len(calls)].status = outcome.status]
             /\ IF outcome.observed = "success"
                THEN Observe("success", outcome.evidence, outcome.files)
                ELSE Observe(outcome.observed, {}, {})
             /\ UNCHANGED lost
    <3>1. /\ outcome.status \in {"success", "error", "timeout"}
          /\ outcome.observed = outcome.status
          /\ outcome.evidence \in SUBSET Ids /\ outcome.files \in SUBSET Files
      BY <2>1 DEF LoopInv, TypeInv, Outcome
    <3>2. CASE outcome.status = "success"
      <4> DEFINE o == [action |-> action, status |-> "success",
                       evidence |-> outcome.evidence, files |-> outcome.files]
      <4>1. Observed(o)
        BY <2>1, <2>3, <3>1, <3>2, ObserveIsObserved DEF Unaltered
      <4>2. o.status = "success" /\ o.evidence = outcome.evidence
        OBVIOUS
      <4> HIDE DEF o
      <4> QED
        BY <2>1, <2>3, <3>2, <4>1, <4>2, FinishWritten
    <3>3. CASE outcome.status # "success"
      <4> DEFINE o == [action |-> action, status |-> outcome.status,
                       evidence |-> {}, files |-> {}]
      <4>1. Observed(o)
        BY <2>1, <2>3, <3>1, <3>3, ObserveIsObserved DEF Unaltered
      <4>2. o.status = outcome.status /\ o.evidence = {}
        OBVIOUS
      <4> HIDE DEF o
      <4> QED
        BY <2>1, <2>3, <3>3, <4>1, <4>2, FinishWritten
    <3> QED
      BY <3>2, <3>3
  <2> QED
    BY <1>6, <2>2, <2>3 DEF FinishToolCall
<1> QED
  BY <1>1, <1>2, <1>3, <1>4, <1>5, <1>6

-----------------------------------------------------------------------------
(***************************************************************************)
(* The end of the attempt.                                                 *)
(***************************************************************************)
Finished == UNCHANGED <<fixed, deadline, loop, reserved, audit, aborted>>

\* The transaction is rolled back and r, a result without references, is returned.
LEMMA RollbackStep ==
  ASSUME LoopInv, Finished, pc \in {"choose", "settle"}, pc' = "ended",
         NEW r, result' = r, staged' = {}, committed' = committed,
         r \in WorkerResult, r.status # "completed", r.evidence = {}, r.files = {}
  PROVE  LoopInv'
<1> USE DEF Finished, fixed, loop, audit
<1>1. /\ Successful' = Successful /\ Unsuccessful' = Unsuccessful
      /\ EvidenceSeen' = EvidenceSeen /\ committed' = {}
  BY SameObservations DEF LoopInv, PublishedInv
<1>2. TypeInv' /\ LastCall' /\ StagedInv' /\ PublishedInv'
  BY <1>1 DEF LoopInv, TypeInv, Executing, InFlight, LastCall, StagedInv, PublishedInv,
     EvidenceIsAudited
<1>3. SeenInv' /\ StagedSeenInv' /\ ResultInv'
  BY DEF SeenInv, StagedSeenInv, ResultInv, Ended
<1>4. ObservedInv' /\ RunningInv' /\ InventoryInv'
  BY <1>1 DEF LoopInv, ObservedInv, RunningInv, InFlight, InventoryInv, Executing
<1> QED
  BY <1>2, <1>3, <1>4 DEF LoopInv

\* The transaction is committed; its result is returned, or replaced by a failure.
LEMMA CommitStep ==
  ASSUME LoopInv, Finished, pc = "settle", pc' = "ended", Commit,
         result.status = "completed",
         result' \in {result, Failed("system_error")}
  PROVE  LoopInv'
<1> USE DEF Finished, fixed, loop, audit
<1>1. /\ Successful' = Successful /\ Unsuccessful' = Unsuccessful
      /\ EvidenceSeen' = EvidenceSeen /\ committed' = staged /\ staged' = {}
  BY SameObservations DEF Commit
<1>2. /\ Failed("system_error") \in WorkerResult /\ Failed("system_error").status = "failed"
      /\ Failed("system_error").evidence = {} /\ Failed("system_error").files = {}
  BY DEF Failed, Result, WorkerResult
<1>3. TypeInv' /\ LastCall' /\ StagedInv'
  BY <1>1, <1>2 DEF LoopInv, TypeInv, Executing, InFlight, LastCall, StagedInv
<1>4. PublishedInv'
  <2>1. ASSUME NEW p \in committed'
        PROVE  /\ calls[p[2]].permission = "allowed"
               /\ calls[p[2]].status \in
                    {"success", "error"} \cup (IF lost THEN {"running"} ELSE {})
               /\ calls[p[2]].status = "error" => worker = "business_data"
    BY <1>1 DEF LoopInv, StagedInv, Audited
  <2>2. ASSUME NEW p \in committed', calls[p[2]].status = "error"
        PROVE  p[1] \notin result'.evidence
    <3>1. worker = "business_data"
      BY <2>1, <2>2
    <3>2. p[1] = p[2] /\ p[1] \notin EvidenceSeen
      BY <1>1, <2>2, <3>1 DEF LoopInv, InventoryInv
    <3>3. result'.evidence \subseteq EvidenceSeen
      BY <1>2 DEF LoopInv, ResultInv
    <3> QED
      BY <3>2, <3>3
  <2> QED
    BY <1>1, <2>1, <2>2 DEF PublishedInv, EvidenceIsAudited
<1>5. SeenInv' /\ StagedSeenInv'
  BY DEF SeenInv, StagedSeenInv
<1>6. ResultInv'
  <2>1. CASE result' = result
    BY <1>1, <2>1 DEF LoopInv, ResultInv, Truthful, SeenInv, Known, Ended
  <2>2. CASE result' = Failed("system_error")
    BY <1>2, <2>2 DEF ResultInv, Ended
  <2> QED
    BY <2>1, <2>2
<1>7. ObservedInv' /\ RunningInv' /\ InventoryInv'
  BY <1>1 DEF LoopInv, ObservedInv, RunningInv, InFlight, InventoryInv, Executing
<1> QED
  BY <1>3, <1>4, <1>5, <1>6, <1>7 DEF LoopInv

\* WorkerRuntime settles the returned result, or the timeout cancels the worker.
LEMMA SettleSteps ==
  ASSUME LoopInv, Settle \/ Cancelled
  PROVE  LoopInv'
<1>1. \A b \in {"timed_out", "system_error"} :
        /\ Failed(b) \in WorkerResult /\ Failed(b).status # "completed"
        /\ Failed(b).evidence = {} /\ Failed(b).files = {}
  BY DEF Failed, Result, WorkerResult
<1>2. CASE Cancelled
  <2>1. /\ Finished /\ pc = "choose" /\ pc' = "ended" /\ staged' = {}
        /\ committed' = committed /\ result' = Failed("timed_out")
    BY <1>2 DEF Cancelled, Finished
  <2> QED
    BY <1>1, <2>1, RollbackStep
<1>3. CASE Settle
  <2>1. Finished /\ pc = "settle" /\ pc' = "ended"
    BY <1>3 DEF Settle, Finished
  <2>2. /\ result \in WorkerResult
        /\ result.status # "completed" => result.evidence = {} /\ result.files = {}
    BY <2>1 DEF LoopInv, TypeInv
  <2>3. ASSUME NEW b \in {"timed_out", "system_error"}, Rollback(Failed(b))
        PROVE  LoopInv'
    BY <1>1, <2>1, <2>3, RollbackStep DEF Rollback
  <2>4. CASE ~EvidenceAccepted
    <3>1. Rollback(Failed(IF deadline # "ahead" THEN "timed_out" ELSE "system_error"))
      BY <1>3, <2>4 DEF Settle
    <3> QED
      BY <2>3, <3>1
  <2>5. CASE EvidenceAccepted /\ result.status # "completed"
    <3>1. Rollback(result)
      BY <1>3, <2>5 DEF Settle
    <3> QED
      BY <2>1, <2>2, <2>5, <3>1, RollbackStep DEF Rollback
  <2>6. CASE EvidenceAccepted /\ result.status = "completed"
    <3>1. \/ Commit /\ UNCHANGED result
          \/ Commit /\ result' = Failed("system_error")
          \/ Rollback(Failed("system_error"))
      BY <1>3, <2>6 DEF Settle
    <3> QED
      BY <2>1, <2>3, <2>6, <3>1, CommitStep
  <2> QED
    BY <2>4, <2>5, <2>6
<1> QED
  BY <1>2, <1>3

\* Time passes, or the process dies and the open transaction with it.
LEMMA OutsideSteps ==
  ASSUME LoopInv, DeadlinePasses \/ Crash
  PROVE  LoopInv'
<1>1. CASE DeadlinePasses
  <2>1. /\ deadline' \in {"ahead", "child", "root"}
        /\ UNCHANGED <<fixed, pc, loop, reserved, audit, store, result>>
    BY <1>1 DEF DeadlinePasses
  <2> USE DEF fixed, loop, audit, store
  <2>2. /\ Successful' = Successful /\ Unsuccessful' = Unsuccessful
        /\ EvidenceSeen' = EvidenceSeen
    BY <2>1, SameObservations
  <2>3. TypeInv' /\ LastCall' /\ StagedInv' /\ PublishedInv'
    BY <2>1 DEF LoopInv, TypeInv, Executing, InFlight, LastCall, StagedInv, Audited,
       PublishedInv, EvidenceIsAudited
  <2>4. SeenInv' /\ StagedSeenInv' /\ InventoryInv'
    BY <2>1, <2>2 DEF LoopInv, SeenInv, Known, Executing, InFlight, StagedSeenInv,
       InventoryInv
  <2>5. ObservedInv' /\ ResultInv' /\ RunningInv'
    BY <2>1, <2>2 DEF LoopInv, ObservedInv, ResultInv, Truthful, Ended, RunningInv, InFlight
  <2> QED
    BY <2>3, <2>4, <2>5 DEF LoopInv
<1>2. CASE Crash
  <2>1. /\ pc \notin {"ended", "crashed"} /\ pc' = "crashed" /\ staged' = {}
        /\ UNCHANGED <<fixed, deadline, loop, reserved, audit, aborted, committed>>
    BY <1>2 DEF Crash
  <2> USE DEF fixed, loop, audit
  <2>2. /\ Successful' = Successful /\ Unsuccessful' = Unsuccessful
        /\ EvidenceSeen' = EvidenceSeen /\ committed' = {}
    BY <2>1, SameObservations DEF LoopInv, PublishedInv
  <2>3. TypeInv' /\ LastCall' /\ StagedInv' /\ PublishedInv'
    BY <2>1, <2>2 DEF LoopInv, TypeInv, Executing, InFlight, LastCall, StagedInv,
       PublishedInv, EvidenceIsAudited
  <2>4. SeenInv' /\ StagedSeenInv' /\ ResultInv'
    BY <2>1 DEF SeenInv, StagedSeenInv, ResultInv, Ended
  <2>5. ObservedInv' /\ RunningInv' /\ InventoryInv'
    BY <2>1, <2>2 DEF LoopInv, ObservedInv, RunningInv, InventoryInv, Executing, InFlight
  <2> QED
    BY <2>3, <2>4, <2>5 DEF LoopInv
<1> QED
  BY <1>1, <1>2

-----------------------------------------------------------------------------
(***************************************************************************)
(* The theorems.                                                           *)
(***************************************************************************)

\* Every step preserves the invariant.
LEMMA NextInv == LoopInv /\ [Next]_vars => LoopInv'
<1> SUFFICES ASSUME LoopInv, [Next]_vars PROVE LoopInv'
  OBVIOUS
<1>1. CASE Loop
  BY <1>1, LoopSteps, ToolSteps, SettleSteps DEF Loop
<1>2. CASE Provider
  BY <1>2, LoopSteps, ProviderSteps DEF Provider
<1>3. CASE Cancelled \/ DeadlinePasses \/ Crash
  BY <1>3, SettleSteps, OutsideSteps
<1>4. CASE UNCHANGED vars
  <2> USE <1>4 DEF vars, fixed, loop, audit, store
  <2>1. /\ Successful' = Successful /\ Unsuccessful' = Unsuccessful
        /\ EvidenceSeen' = EvidenceSeen
    BY SameObservations
  <2>2. TypeInv' /\ LastCall' /\ StagedInv' /\ PublishedInv'
    BY DEF LoopInv, TypeInv, Executing, InFlight, LastCall, StagedInv, Audited,
       PublishedInv, EvidenceIsAudited
  <2>3. SeenInv' /\ StagedSeenInv' /\ InventoryInv'
    BY <2>1 DEF LoopInv, SeenInv, Known, Executing, InFlight, StagedSeenInv, InventoryInv
  <2>4. ObservedInv' /\ ResultInv' /\ RunningInv'
    BY <2>1 DEF LoopInv, ObservedInv, ResultInv, Truthful, Ended, RunningInv, InFlight
  <2> QED
    BY <2>2, <2>3, <2>4 DEF LoopInv
<1> QED
  BY <1>1, <1>2, <1>3, <1>4 DEF Next

\* The invariant holds in every reachable state of an attempt.
THEOREM LoopInvariant == Spec => []LoopInv
BY InitInv, NextInv, PTL DEF Spec

\* What the attempt publishes was written by calls that were allowed and whose row
\* tells of their success (or whose final row write was lost).
THEOREM PublishedIsAudited == Spec => []EvidenceIsAudited
<1>1. LoopInv => EvidenceIsAudited
  BY DEF LoopInv, PublishedInv
<1> QED
  BY <1>1, LoopInvariant, PTL

\* The outcome a completed attempt returns agrees with its audit rows, and the rows
\* and the model-call count are settled unless an audit write was lost.
THEOREM OutcomeIsTrue == Spec => []OutcomeMatchesAudit
<1>1. LoopInv => AuditIsSettled
  BY DEF LoopInv, RunningInv, AuditIsSettled, Ended, InFlight
<1>2. LoopInv => OutcomeMatchesAudit
  BY <1>1 DEF LoopInv, ResultInv, Truthful, OutcomeMatchesAudit, Ended
<1> QED
  BY <1>2, LoopInvariant, PTL

-----------------------------------------------------------------------------
(***************************************************************************)
(* What a result carries, and that the attempt implements the supervisor's *)
(* worker call.                                                            *)
(*                                                                         *)
(* An attempt that gives up returns all Evidence it has seen; that this is *)
(* none follows from two facts about the loop: only a success brings       *)
(* Evidence, and giving up is accepted only when nothing has succeeded.    *)
(***************************************************************************)

\* validate_status_pair, and that only an answer refers to Evidence.
Shaped(r) ==
  /\ r.status = "completed" =>
       r.outcome \in {"answered", "partial", "no_evidence", "denied", "unsupported"}
  /\ r.status = "failed" => r.outcome \in {"timed_out", "system_error"}
  /\ r.evidence # {} => r.outcome \in {"answered", "partial"}
CarryInv ==
  /\ \A o \in Unsuccessful : o.evidence = {}
  /\ pc \in {"settle", "ended"} => Shaped(result)

\* A failure and a question refer to nothing.
LEMMA FailureShaped ==
  /\ \A b \in {"timed_out", "system_error"} : Shaped(Failed(b))
  /\ Shaped(Result("waiting_user", None, {}, {}))
BY DEF Shaped, Failed, Result

\* Without a success nothing has been seen.
LEMMA NothingSeen ==
  ASSUME CarryInv, Successful = {}
  PROVE  EvidenceSeen = {}
<1>1. \A o \in ToSet(observations) : o.evidence = {}
  BY DEF CarryInv, Unsuccessful
<1> QED
  BY <1>1 DEF EvidenceSeen

\* Steps that make no observation.
LEMMA CarryUnobserved ==
  ASSUME CarryInv, observations' = observations,
         \/ pc' \notin {"settle", "ended"}
         \/ pc \in {"settle", "ended"} /\ result' = result
         \/ Shaped(result')
  PROVE  CarryInv'
BY SameObservations DEF CarryInv, Shaped

\* Steps that make one.
LEMMA CarryObserved ==
  ASSUME LoopInv, CarryInv, Executing,
         NEW s \in {"success", "error", "timeout", "rejected"},
         NEW ev \in SUBSET Ids, NEW f \in SUBSET Files, Observe(s, ev, f),
         s = "success" \/ ev = {}
  PROVE  CarryInv'
<1> DEFINE o == [action |-> action, status |-> s, evidence |-> ev, files |-> f]
<1>1. Observed(o) /\ o.status = s /\ o.evidence = ev
  BY ObserveIsObserved
<1> HIDE DEF o
<1>2. Unsuccessful' = Unsuccessful \/ (ev = {} /\ Unsuccessful' = Unsuccessful \cup {o})
  BY <1>1, OneObservation DEF Observed, LoopInv, TypeInv
<1>3. \A u \in Unsuccessful' : u.evidence = {}
  BY <1>1, <1>2 DEF CarryInv
<1>4. pc' = "decide" \/ Shaped(result')
  BY <1>1, FailureShaped DEF Observed
<1> QED
  BY <1>3, <1>4 DEF CarryInv

\* The steps that return a result to the runtime.
LEMMA CarryReturned ==
  ASSUME LoopInv, CarryInv,
         ReserveModelCall \/ OutOfDecisions \/ ChooseCapability \/ Provider
  PROVE  CarryInv'
<1>1. observations' = observations
  BY DEF ReserveModelCall, OutOfDecisions, ChooseCapability, Provider, ProviderFails, AskUser,
     Finish, CannotComplete, loop
<1>2. ASSUME NEW r, Return(r), Shaped(r)
      PROVE  CarryInv'
  BY <1>1, <1>2, CarryUnobserved DEF Return
<1>3. ASSUME pc' \in {"choose", "reserve"}
      PROVE  CarryInv'
  BY <1>1, <1>3, CarryUnobserved
<1>4. ASSUME NEW business \in {"answered", "partial", "no_evidence", "denied", "unsupported"},
             NEW evidence, NEW files,
             business \notin {"answered", "partial"} => evidence = {}
      PROVE  Shaped(Result("completed", business, evidence, files))
  BY <1>4 DEF Shaped, Result
<1>5. CASE ReserveModelCall \/ OutOfDecisions \/ ChooseCapability \/ ProviderFails
  <2>1. pc' \in {"choose", "reserve"} \/ Return(Failed("system_error"))
    BY <1>5 DEF ReserveModelCall, OutOfDecisions, ChooseCapability, ProviderFails
  <2> QED
    BY <1>2, <1>3, <2>1, FailureShaped
<1>6. CASE AskUser
  BY <1>2, <1>6, FailureShaped DEF AskUser
<1>7. CASE Finish
  <2>1. PICK business \in {"answered", "partial", "no_evidence"},
             evidence \in {{}, EvidenceSeen}, files \in {{}, FilesSeen} :
          Return(IF FinishAccepted(business, evidence, files)
                 THEN Result("completed", business, evidence, files)
                 ELSE Failed("system_error"))
    BY <1>7 DEF Finish
  <2>2. CASE FinishAccepted(business, evidence, files)
    <3>1. business = "no_evidence" => evidence = {}
      BY <2>2 DEF FinishAccepted
    <3>2. Shaped(Result("completed", business, evidence, files))
      BY <1>4, <3>1
    <3> QED
      BY <1>2, <2>1, <2>2, <3>2
  <2>3. CASE ~FinishAccepted(business, evidence, files)
    BY <1>2, <2>1, <2>3, FailureShaped
  <2> QED
    BY <2>2, <2>3
<1>8. CASE CannotComplete
  <2>1. PICK business \in {"denied", "unsupported", "no_evidence",
                           "timed_out", "system_error"} :
          Return(IF business \in {"timed_out", "system_error"}
                 THEN Failed(business)
                 ELSE IF CannotAccepted(business)
                 THEN Result("completed", business, EvidenceSeen, FilesSeen)
                 ELSE Failed("system_error"))
    BY <1>8 DEF CannotComplete
  <2>2. CASE business \in {"timed_out", "system_error"}
    BY <1>2, <2>1, <2>2, FailureShaped
  <2>3. CASE business \notin {"timed_out", "system_error"} /\ CannotAccepted(business)
    <3>1. EvidenceSeen = {}
      BY <2>3, NothingSeen DEF CannotAccepted
    <3>2. Shaped(Result("completed", business, EvidenceSeen, FilesSeen))
      BY <1>4, <2>3, <3>1
    <3> QED
      BY <1>2, <2>1, <2>3, <3>2
  <2>4. CASE business \notin {"timed_out", "system_error"} /\ ~CannotAccepted(business)
    BY <1>2, <2>1, <2>4, FailureShaped
  <2> QED
    BY <2>2, <2>3, <2>4
<1> QED
  BY <1>5, <1>6, <1>7, <1>8 DEF Provider

\* The steps of a Tool call.
LEMMA CarryTool ==
  ASSUME LoopInv, CarryInv,
         \/ ReserveToolCall \/ BudgetRefuses \/ PermissionDenied \/ StartToolCall
         \/ OperationReturns \/ OperationRaises \/ FinishToolCall
  PROVE  CarryInv'
<1>1. Executing
  BY DEF ReserveToolCall, BudgetRefuses, PermissionDenied, StartToolCall, OperationReturns,
     OperationRaises, FinishToolCall, Executing, InFlight
<1>2. ASSUME NEW s \in {"error", "timeout", "rejected"}, Observe(s, {}, {})
      PROVE  CarryInv'
  <2>1. s \in {"success", "error", "timeout", "rejected"}
    OBVIOUS
  <2> QED
    BY <1>1, <1>2, <2>1, CarryObserved
<1>3. CASE ReserveToolCall \/ OperationReturns \/ OperationRaises
  <2>1. observations' = observations /\ pc' \in {"authorize", "finish"}
    BY <1>3 DEF ReserveToolCall, OperationReturns, OperationRaises, loop
  <2> QED
    BY <2>1, CarryUnobserved
<1>4. CASE BudgetRefuses \/ PermissionDenied
  <2>1. \E s \in {"error", "timeout", "rejected"} : Observe(s, {}, {})
    BY <1>4 DEF BudgetRefuses, PermissionDenied, Refuse
  <2> QED
    BY <1>2, <2>1
<1>5. CASE StartToolCall
  <2>1. (observations' = observations /\ pc' = "operate") \/ Observe("error", {}, {})
    BY <1>5 DEF StartToolCall, loop
  <2> QED
    BY <1>2, <2>1, CarryUnobserved
<1>6. CASE FinishToolCall
  <2>1. outcome \in Outcome
    BY <1>6 DEF FinishToolCall, LoopInv, TypeInv
  <2>2. \/ Observe("error", {}, {})
        \/ outcome.observed # "success" /\ Observe(outcome.observed, {}, {})
        \/ Observe("success", outcome.evidence, outcome.files)
    BY <1>6 DEF FinishToolCall
  <2>3. /\ outcome.observed \in {"success", "error", "timeout"}
        /\ outcome.evidence \in SUBSET Ids /\ outcome.files \in SUBSET Files
    BY <2>1 DEF Outcome
  <2>4. CASE Observe("success", outcome.evidence, outcome.files)
    BY <1>1, <2>3, <2>4, CarryObserved
  <2> QED
    BY <1>2, <2>2, <2>3, <2>4
<1> QED
  BY <1>3, <1>4, <1>5, <1>6

\* What a result carries stays so in every step.
LEMMA CarryStep ==
  ASSUME LoopInv, CarryInv, [Next]_vars
  PROVE  CarryInv'
<1>1. CASE Settle \/ Cancelled
  <2>1. observations' = observations
    BY <1>1 DEF Settle, Cancelled, loop
  <2>2. \/ \E b \in {"timed_out", "system_error"} : result' = Failed(b)
        \/ pc = "settle" /\ result' = result
    BY <1>1 DEF Settle, Cancelled, Rollback
  <2> QED
    BY <2>1, <2>2, FailureShaped, CarryUnobserved
<1>2. CASE DeadlinePasses \/ Crash \/ UNCHANGED vars
  <2>1. /\ observations' = observations
        /\ pc' = "crashed" \/ (pc' = pc /\ result' = result)
    BY <1>2 DEF DeadlinePasses, Crash, vars, loop
  <2> QED
    BY <2>1, CarryUnobserved
<1>3. CASE Loop
  BY <1>1, <1>3, CarryReturned, CarryTool DEF Loop
<1>4. CASE Provider
  BY <1>4, CarryReturned
<1> QED
  BY <1>1, <1>2, <1>3, <1>4 DEF Next

\* In every reachable state of an attempt only a success has brought Evidence, and
\* a returned result pairs its status with its outcome as the contract does.
THEOREM CarryInvariant == Spec => [](LoopInv /\ CarryInv)
<1>1. Init => CarryInv
  BY DEF Init, CarryInv, Unsuccessful, ToSet
<1> QED
  BY <1>1, CarryStep, LoopInvariant, PTL DEF Spec

\* A returned result refers only to Evidence that was handed over or is committed,
\* only a completed result refers to anything, and only an answer to Evidence.
THEOREM ReferencesStored == Spec => []ReferencesAreStored
<1>1. LoopInv /\ CarryInv => ReferencesAreStored
  BY DEF LoopInv, TypeInv, ResultInv, CarryInv, Shaped, ReferencesAreStored, Ended
<1> QED
  BY <1>1, CarryInvariant, PTL

\* What the supervisor sees of an attempt: nothing until it has ended, then a result
\* it knows, which has the row's status and refers to Evidence exactly when that is
\* committed.
CallSeen ==
  IF Ended
  THEN /\ callOf = [t \in 1..1 |-> [at |-> "ended", result |-> CallResult]]
       /\ CallResult \in Supervisor!Result
       /\ Supervisor!StatusOf(CallResult) = result.status
       /\ CallResult.evidence => result.status = "completed"
       /\ backed = IF CallResult.evidence THEN {1} ELSE {}
  ELSE /\ callOf = [t \in 1..1 |-> [at |-> "running", result |-> None]]
       /\ backed = {}

\* The invariants say so.
LEMMA SeenOfCall == LoopInv /\ CarryInv => CallSeen
<1> SUFFICES ASSUME LoopInv, CarryInv PROVE CallSeen
  OBVIOUS
<1>1. CASE ~Ended
  BY <1>1 DEF callOf, backed, CallSeen
<1>2. CASE Ended
  <2>1. /\ result.status \in {"completed", "failed", "waiting_user"}
        /\ result.status # "completed" => result.evidence = {}
    BY <1>2 DEF LoopInv, TypeInv, WorkerResult, Ended
  <2>2. result.status = "completed" =>
          result.outcome \in {"answered", "partial", "no_evidence", "denied", "unsupported"}
    BY <1>2 DEF CarryInv, Shaped, Ended
  <2>3. CalledOutcome \in Supervisor!Outcomes \cup {"asked"}
    BY <2>1, <2>2 DEF CalledOutcome, Supervisor!Outcomes
  <2>4. /\ result.status = "waiting_user" <=> CalledOutcome = "asked"
        /\ result.status = "failed" <=> CalledOutcome = "system_error"
    BY <2>1, <2>2 DEF CalledOutcome
  <2>5. CallResult.outcome = CalledOutcome /\ CallResult.evidence = (result.evidence # {})
    BY DEF CallResult
  <2>6. CallResult \in Supervisor!Result
    BY <2>3 DEF CallResult, Supervisor!Result
  <2>7. Supervisor!StatusOf(CallResult) = result.status
    BY <2>1, <2>4, <2>5 DEF Supervisor!StatusOf
  <2>8. Stored
    BY <1>2 DEF LoopInv, ResultInv, Stored
  <2> QED
    BY <1>2, <2>1, <2>5, <2>6, <2>7, <2>8 DEF callOf, backed, CallSeen
<1> QED
  BY <1>1, <1>2

\* An ended attempt takes no step.
LEMMA EndedIsOver ==
  ASSUME Ended, [Next]_vars
  PROVE  UNCHANGED vars
BY DEF Ended, Next, Loop, Provider, ReserveModelCall, OutOfDecisions, ReserveToolCall,
   BudgetRefuses, PermissionDenied, StartToolCall, OperationReturns, OperationRaises,
   FinishToolCall, Settle, ChooseCapability, ProviderFails, AskUser, Finish, CannotComplete,
   Cancelled, DeadlinePasses, Crash

\* The attempt implements the worker call of SupervisorGraph: each of its steps
\* stutters for the supervisor or ends the call, with a result whose references are
\* committed if it has any, and whose status is that of the row.
THEOREM AttemptImplementsCall == Spec => AttemptIsCall
<1> DEFINE CallStep == /\ Supervisor!CallTimesOut(1)
                          \/ \E r \in Supervisor!Result : Supervisor!CallEnds(1, r)
                       /\ result'.status = Supervisor!StatusOf(CallResult')
                       /\ ReferencesAreStored'
<1>1. ASSUME CallSeen, CallSeen', ReferencesAreStored', [Next]_vars
      PROVE  [CallStep]_<<callOf, backed>>
  <2>1. CASE Ended
    BY <1>1, <2>1, EndedIsOver DEF vars, fixed, store, callOf, backed, Ended, CallResult,
       CalledOutcome, Stored
  <2>2. CASE ~Ended /\ ~Ended'
    BY <1>1, <2>2 DEF CallSeen
  <2>3. CASE ~Ended /\ Ended'
    <3>1. PICK r : r = CallResult'
      OBVIOUS
    <3>2. /\ callOf = [t \in 1..1 |-> [at |-> "running", result |-> None]]
          /\ backed = {}
      BY <1>1, <2>3 DEF CallSeen
    <3>3. /\ callOf' = [t \in 1..1 |-> [at |-> "ended", result |-> r]]
          /\ r \in Supervisor!Result
          /\ Supervisor!StatusOf(r) = result'.status
          /\ r.evidence => result'.status = "completed"
          /\ backed' = IF r.evidence THEN {1} ELSE {}
      BY <1>1, <2>3, <3>1 DEF CallSeen
    <3>4. /\ r = [outcome |-> r.outcome, evidence |-> r.evidence] /\ r.evidence \in BOOLEAN
      BY <3>3 DEF Supervisor!Result
    <3>5. Supervisor!RollbackSafe(r) = r
      BY <3>3, <3>4 DEF Supervisor!RollbackSafe
    <3>6. callOf' = [callOf EXCEPT ![1] = [at |-> "ended", result |-> r]]
      BY <3>2, <3>3
    <3>7. Supervisor!CallEnds(1, r)
      BY <3>2, <3>3, <3>5, <3>6 DEF Supervisor!CallEnds, Supervisor!Step
    <3> QED
      BY <1>1, <3>1, <3>3, <3>7
  <2> QED
    BY <2>1, <2>2, <2>3
<1>2. Spec => []CallSeen
  BY SeenOfCall, CarryInvariant, PTL
<1> QED
  BY <1>1, <1>2, ReferencesStored, PTL DEF Spec, AttemptIsCall

(***************************************************************************)
(* KnowledgeSearch: the inductive invariant.                               *)
(*                                                                         *)
(* SourcesHeld is inductive once the staged sources are known to be        *)
(* sources: the locks are exactly what keeps the world from replacing or   *)
(* deleting a document between the last check and the commit, and waiting  *)
(* for the locks of others is what keeps two attempts apart.               *)
(***************************************************************************)
Source == Docs \X Nat

HeldInv ==
  /\ active \in [Docs -> Nat] /\ live \in [Docs -> BOOLEAN]
  /\ stagedSources \in [Runs -> SUBSET Source]
  /\ Search!SourcesHeld

\* What the statement that locks its rows has seen is published and not deleted.
LEMMA SeenIsPublished ==
  ASSUME HeldInv, NEW r \in Runs, NEW s \in Search!Sees(r)
  PROVE  s \in Source /\ active[s[1]] = s[2] /\ live[s[1]]
BY DEF HeldInv, Source, Search!Sees, Search!Visible

\* Steps that leave the locks and the documents alone keep what is held.
LEMMA NothingHeldChanges ==
  ASSUME HeldInv, UNCHANGED <<active, live, stagedSources>>
  PROVE  HeldInv'
BY DEF HeldInv, Search!SourcesHeld, Search!LockedByOther, Search!Locked

\* A transaction that ends gives its locks back.
LEMMA LocksReturned ==
  ASSUME HeldInv, UNCHANGED <<active, live>>, stagedSources' \in [Runs -> SUBSET Source],
         \A q \in Runs : stagedSources'[q] \in {{}, stagedSources[q]}
  PROVE  HeldInv'
BY DEF HeldInv, Search!SourcesHeld, Search!LockedByOther, Search!Locked

\* The Evidence is written under locks nobody else holds, for sources that the
\* same statement has seen.
LEMMA PersistHolds ==
  ASSUME HeldInv, NEW r \in Runs, Search!Persist(r)
  PROVE  HeldInv'
<1>1. UNCHANGED <<active, live>>
  BY DEF Search!Persist, Search!world
<1>2. CASE UNCHANGED stagedSources
  BY <1>1, <1>2, NothingHeldChanges
<1>3. CASE /\ context[r] \subseteq Search!Sees(r)
           /\ stagedSources' = [stagedSources EXCEPT ![r] = context[r]]
  <2>1. PICK sources \in SUBSET Source : sources = context[r]
    BY <1>3, SeenIsPublished
  <2>2. \A s \in sources : active[s[1]] = s[2] /\ live[s[1]]
    BY <1>3, <2>1, SeenIsPublished
  <2>3. /\ stagedSources' \in [Runs -> SUBSET Source]
        /\ stagedSources'[r] = sources
        /\ \A q \in Runs \ {r} : stagedSources'[q] = stagedSources[q]
    BY <1>3, <2>1 DEF HeldInv
  <2>4. \A q \in Runs \ {r} : Search!Locked(q) \cap {s[1] : s \in sources} = {}
    BY <2>1 DEF Search!Persist, Search!Blocked, Search!LockedByOther
  <2>5. /\ Search!Locked(r)' = {s[1] : s \in sources}
        /\ \A q \in Runs \ {r} : Search!Locked(q)' = Search!Locked(q)
    BY <2>3 DEF Search!Locked
  <2>6. \A q \in Runs : ~Search!LockedByOther(q, Search!Locked(q))'
    <3>1. \A p, q \in Runs : p # q => Search!Locked(p) \cap Search!Locked(q) = {}
      BY DEF HeldInv, Search!SourcesHeld, Search!LockedByOther
    <3>2. \A p, q \in Runs : p # q => Search!Locked(p)' \cap Search!Locked(q)' = {}
      BY <2>4, <2>5, <3>1
    <3> QED
      BY <3>2 DEF Search!LockedByOther
  <2>7. \A q \in Runs : \A s \in stagedSources'[q] : active[s[1]] = s[2] /\ live[s[1]]
    BY <2>2, <2>3 DEF HeldInv, Search!SourcesHeld
  <2> QED
    BY <1>1, <2>3, <2>6, <2>7 DEF HeldInv, Search!SourcesHeld
<1> QED
  BY <1>2, <1>3 DEF Search!Persist, Search!ToolFails

\* A publication or a deletion waits for the locks of its document.
LEMMA WorldWaits ==
  ASSUME HeldInv, NEW d \in Docs, Search!Publish(d) \/ Search!SoftDelete(d)
  PROVE  HeldInv'
<1>1. /\ \A r \in Runs : \A s \in stagedSources[r] : s[1] # d
      /\ UNCHANGED stagedSources
      /\ active' \in [Docs -> Nat] /\ live' \in [Docs -> BOOLEAN]
      /\ \A e \in Docs \ {d} : active'[e] = active[e] /\ live'[e] = live[e]
  <2>1. active \in [Docs -> Nat] /\ live \in [Docs -> BOOLEAN]
    BY DEF HeldInv
  <2>2. \A r \in Runs : \A s \in stagedSources[r] : s[1] # d
    BY DEF Search!Publish, Search!SoftDelete, Search!Unlocked, Search!Locked
  <2>3. CASE Search!Publish(d)
    <3>1. /\ UNCHANGED <<stagedSources, live>>
          /\ active' = [active EXCEPT ![d] = active[d] + 1]
      BY <2>3 DEF Search!Publish
    <3>2. active[d] + 1 \in Nat
      BY <2>1
    <3> QED
      BY <2>1, <2>2, <3>1, <3>2
  <2>4. CASE Search!SoftDelete(d)
    <3>1. /\ UNCHANGED <<stagedSources, active>>
          /\ live' = [live EXCEPT ![d] = FALSE]
      BY <2>4 DEF Search!SoftDelete
    <3> QED
      BY <2>1, <2>2, <3>1
  <2> QED
    BY <2>3, <2>4
<1>2. \A r \in Runs : \A s \in stagedSources[r] : s[1] \in Docs \ {d}
  BY <1>1 DEF HeldInv, Source
<1> QED
  BY <1>1, <1>2 DEF HeldInv, Search!SourcesHeld, Search!LockedByOther, Search!Locked

\* Every step of KnowledgeSearch.
LEMMA HeldStep ==
  ASSUME HeldInv, [Search!Next]_Search!vars
  PROVE  HeldInv'
<1>1. CASE UNCHANGED Search!vars
  BY <1>1, NothingHeldChanges DEF Search!vars, Search!world
<1>2. CASE \E r \in Runs :
             \/ Search!Resume(r) \/ Search!Dense(r) \/ Search!Lexical(r)
             \/ Search!Rerank(r) \/ Search!Rehydrate(r) \/ Search!StatementTimeout(r)
             \/ Search!Summaries(r)
  BY <1>2, NothingHeldChanges
     DEF Search!Resume, Search!Dense, Search!Lexical, Search!Rerank, Search!Rehydrate,
         Search!StatementTimeout, Search!Summaries, Search!ToolFails, Search!world
<1>3. CASE \E r \in Runs : Search!Settle(r)
  BY <1>3, LocksReturned DEF Search!Settle, Search!world, HeldInv
<1>4. CASE \E l \in Loops : Search!Crash(l)
  <2>1. PICK l \in Loops : Search!Crash(l)
    BY <1>4
  <2>2. /\ UNCHANGED <<active, live>>
        /\ stagedSources' = [r \in Runs |-> IF loopOf[r] = l THEN {} ELSE stagedSources[r]]
    BY <2>1 DEF Search!Crash, Search!world
  <2>3. \A r \in Runs : stagedSources'[r] \in {{}, stagedSources[r]}
    BY <2>2
  <2>4. stagedSources' \in [Runs -> SUBSET Source]
    BY <2>2 DEF HeldInv
  <2> QED
    BY <2>2, <2>3, <2>4, LocksReturned
<1>5. CASE \E d \in Docs, u \in Users : Search!GrantAcl(d, u) \/ Search!Revoke(d, u)
  BY <1>5, NothingHeldChanges DEF Search!GrantAcl, Search!Revoke
<1>6. CASE \E d \in Docs : Search!Publish(d) \/ Search!SoftDelete(d)
  BY <1>6, WorldWaits
<1>7. CASE \E r \in Runs : Search!Persist(r)
  BY <1>7, PersistHolds
<1> QED
  BY <1>1, <1>2, <1>3, <1>4, <1>5, <1>6, <1>7 DEF Search!Next, Search!Steps, Search!World

\* At first nothing is staged.
LEMMA HeldInit ==
  ASSUME Search!Init
  PROVE  HeldInv
BY DEF Search!Init, HeldInv, Search!SourcesHeld, Search!LockedByOther, Search!Locked

\* Whatever runs search, wait, commit or die, and whatever is published, granted,
\* revoked or deleted meanwhile: what is staged is what is published, and no two
\* attempts hold the same document.
THEOREM SearchInvariant == Search!Spec => []HeldInv
<1>1. Search!Init => HeldInv
  BY HeldInit
<1>2. HeldInv /\ [Search!Next]_Search!vars => HeldInv'
  BY HeldStep
<1> QED
  BY <1>1, <1>2, PTL DEF Search!Spec

\* While Evidence is written but not committed, its sources stay published, and
\* no other search holds them (persist_document_context locks FOR UPDATE).
THEOREM SourcesStayHeld == StageSpec => []SourcesHeld
<1> DEFINE Inv == stage = "search" => HeldInv
<1>1. StageInit => Inv
  BY HeldInit DEF StageInit, SearchInit
<1>2. Inv /\ [StageNext]_stageVars => Inv'
  <2> SUFFICES ASSUME Inv, [StageNext]_stageVars, stage' = "search" PROVE HeldInv'
    OBVIOUS
  <2>1. stage' = stage
    BY DEF StageNext, Works, Searches, ContextNext, AnswerNext, stageVars
  <2>2. [Search!Next]_Search!vars
    BY <2>1 DEF StageNext, Works, Searches, ContextNext, AnswerNext, stageVars, searchVars,
                Search!vars, Search!fixed, Search!world
  <2> QED
    BY <2>1, <2>2, HeldStep
<1>3. Inv => SourcesHeld
  BY DEF HeldInv, SourcesHeld
<1> QED
  BY <1>1, <1>2, <1>3, PTL DEF StageSpec

(***************************************************************************)
(* ContextBuilding: from two routes to a Context that is fair, fits, and   *)
(* shows every token of its chunks once.                                   *)
(*                                                                         *)
(* Every order of the component sorts a finite set by a relation and cuts  *)
(* it.  If the relation orders the set (Orders), a member's place is the   *)
(* number of members before it, plus one (PlacesDiffer), and a cut keeps   *)
(* nothing that comes after what it drops (CutKeepsFirst).  The fused      *)
(* order is one because sums of reciprocal ranks are compared as fractions *)
(* (CrosswiseTransitive, SumGrows).                                        *)
(***************************************************************************)

\* The operators of sequences and sets are the same on both sides of the instance.
LEMMA ContextOperators ==
  ASSUME NEW s
  PROVE  /\ Context!ToSet(s) = ToSet(s)
         /\ Context!IsInjective(s) = IsInjective(s)
         /\ Context!Cardinality(s) = Cardinality(s)
<1>1. Context!Cardinality(s) = Cardinality(s)
  BY Zenon DEF Context!Cardinality, Cardinality
<1> QED
  BY <1>1 DEF Context!ToSet, ToSet, Context!IsInjective, IsInjective

\* The members that come before c.
Earlier(S, R, c) == {d \in S : <<d, c>> \in R}

\* R orders S: of any two members one comes before the other.
Orders(R, S) ==
  /\ \A c \in S : <<c, c>> \notin R
  /\ \A c, d \in S : c # d => <<c, d>> \in R \/ <<d, c>> \in R
  /\ \A c, d, e \in S : <<c, d>> \in R /\ <<d, e>> \in R => <<c, e>> \in R

\* The order of a sequence, by how many members come before one.
LEMMA SortedMeans ==
  ASSUME NEW S, NEW R
  PROVE  Context!Sorted(S, R) =
           [i \in 1 .. Cardinality(S) |->
              CHOOSE c \in S : Cardinality(Earlier(S, R, c)) = i - 1]
BY Zenon DEF Context!Sorted, Context!Before, Earlier, Context!Cardinality, Cardinality

\* Of two members the earlier one has fewer before it, and every number of
\* members before it is one member's.
LEMMA PlacesDiffer ==
  ASSUME NEW S, IsFiniteSet(S), NEW R, Orders(R, S)
  PROVE  /\ \A c \in S : Cardinality(Earlier(S, R, c)) \in 0 .. Cardinality(S) - 1
         /\ \A c, d \in S : <<c, d>> \in R =>
              Cardinality(Earlier(S, R, c)) < Cardinality(Earlier(S, R, d))
         /\ \A i \in 1 .. Cardinality(S) : \E c \in S :
              Cardinality(Earlier(S, R, c)) = i - 1
<1> DEFINE before(c) == Cardinality(Earlier(S, R, c))
<1>1. \A T \in SUBSET S : IsFiniteSet(T) /\ Cardinality(T) \in Nat
  BY FS_Subset, FS_CardinalityType
<1>2. ASSUME NEW T \in SUBSET S, NEW U \in SUBSET T, NEW x \in T, x \notin U
      PROVE  Cardinality(U) < Cardinality(T)
  <2>1. U \in SUBSET S /\ U # T /\ IsFiniteSet(T)
    BY <1>1, <1>2
  <2>2. Cardinality(U) <= Cardinality(T) /\ Cardinality(U) # Cardinality(T)
    BY <2>1, FS_Subset
  <2>3. Cardinality(U) \in Nat /\ Cardinality(T) \in Nat
    BY <1>1, <2>1
  <2> QED
    BY <2>2, <2>3
<1>3. ASSUME NEW c \in S
      PROVE  before(c) \in 0 .. Cardinality(S) - 1
  <2>1. Earlier(S, R, c) \in SUBSET S /\ c \notin Earlier(S, R, c)
    BY DEF Earlier, Orders
  <2>2. before(c) < Cardinality(S)
    BY <1>2, <2>1
  <2> QED
    BY <1>1, <2>1, <2>2
<1>4. ASSUME NEW c \in S, NEW d \in S, <<c, d>> \in R
      PROVE  before(c) < before(d)
  <2>1. /\ Earlier(S, R, d) \in SUBSET S
        /\ Earlier(S, R, c) \in SUBSET Earlier(S, R, d)
        /\ c \in Earlier(S, R, d) /\ c \notin Earlier(S, R, c)
    BY <1>4 DEF Earlier, Orders
  <2> QED
    BY <1>2, <2>1
<1>5. ASSUME NEW i \in 1 .. Cardinality(S)
      PROVE  \E c \in S : before(c) = i - 1
  <2> DEFINE place == [c \in S |-> before(c) + 1]
  <2>1. Cardinality(S) \in Nat
    BY <1>1
  <2>2. place \in [S -> 1 .. Cardinality(S)]
    BY <1>3, <2>1
  <2>3. \A c, d \in S : place[c] = place[d] => c = d
    <3> SUFFICES ASSUME NEW c \in S, NEW d \in S, c # d PROVE place[c] # place[d]
      OBVIOUS
    <3>1. before(c) < before(d) \/ before(d) < before(c)
      BY <1>4 DEF Orders
    <3>2. before(c) \in Nat /\ before(d) \in Nat
      BY <1>3, <2>1
    <3> HIDE DEF before
    <3> QED
      BY <3>1, <3>2
  <2>4. place \in Injection(S, 1 .. Cardinality(S))
    BY <2>2, <2>3 DEF Injection, IsInjective
  <2>5. IsFiniteSet(1 .. Cardinality(S)) /\ Cardinality(1 .. Cardinality(S)) = Cardinality(S)
    BY <2>1, FS_Interval
  <2>6. place \in Surjection(S, 1 .. Cardinality(S))
    <3> HIDE DEF place
    <3> QED
      BY <2>4, <2>5, FS_Injection
  <2>7. PICK c \in S : place[c] = i
    BY <2>6 DEF Surjection
  <2>8. before(c) \in Nat
    BY <1>3, <2>1
  <2> QED
    BY <2>1, <2>7, <2>8
<1> QED
  BY <1>3, <1>4, <1>5

\* The sorted sequence has every member of the set once, the earlier ones first.
LEMMA SortedInOrder ==
  ASSUME NEW S, IsFiniteSet(S), NEW R, Orders(R, S)
  PROVE  LET s == Context!Sorted(S, R) IN
         /\ Cardinality(S) \in Nat /\ s \in [1 .. Cardinality(S) -> S]
         /\ \A c \in S : \E i \in 1 .. Cardinality(S) : s[i] = c
         /\ \A i, j \in 1 .. Cardinality(S) : s[i] = s[j] => i = j
         /\ \A i, j \in 1 .. Cardinality(S) : <<s[i], s[j]>> \in R => i < j
<1> DEFINE s == Context!Sorted(S, R)
           before(c) == Cardinality(Earlier(S, R, c))
<1>1. Cardinality(S) \in Nat
  BY FS_CardinalityType
<1>2. s = [i \in 1 .. Cardinality(S) |-> CHOOSE c \in S : before(c) = i - 1]
  BY SortedMeans
<1>3. /\ \A c \in S : before(c) \in 0 .. Cardinality(S) - 1
      /\ \A c, d \in S : <<c, d>> \in R => before(c) < before(d)
      /\ \A i \in 1 .. Cardinality(S) : \E c \in S : before(c) = i - 1
  BY PlacesDiffer
<1> HIDE DEF s, before
<1>4. ASSUME NEW i \in 1 .. Cardinality(S)
      PROVE  s[i] \in S /\ before(s[i]) = i - 1
  BY <1>2, <1>3
<1>5. s \in [1 .. Cardinality(S) -> S]
  BY <1>2, <1>4
<1>6. ASSUME NEW c \in S
      PROVE  \E i \in 1 .. Cardinality(S) : s[i] = c
  <2>1. before(c) + 1 \in 1 .. Cardinality(S) /\ before(c) \in Nat
    BY <1>1, <1>3
  <2>2. s[before(c) + 1] \in S /\ before(s[before(c) + 1]) = before(c)
    BY <1>4, <2>1
  <2>3. s[before(c) + 1] = c
    <3>1. \A d, e \in S : d # e => before(d) < before(e) \/ before(e) < before(d)
      BY <1>3 DEF Orders
    <3>2. ~(before(c) < before(c))
      BY <2>1
    <3> QED
      BY <2>2, <3>1, <3>2
  <2> QED
    BY <2>1, <2>3
<1>7. \A i, j \in 1 .. Cardinality(S) : s[i] = s[j] => i = j
  BY <1>1, <1>4
<1>8. \A i, j \in 1 .. Cardinality(S) : <<s[i], s[j]>> \in R => i < j
  <2> SUFFICES ASSUME NEW i \in 1 .. Cardinality(S), NEW j \in 1 .. Cardinality(S),
                      <<s[i], s[j]>> \in R
               PROVE  i < j
    OBVIOUS
  <2>1. before(s[i]) < before(s[j])
    BY <1>3, <1>4
  <2> QED
    BY <1>1, <1>4, <2>1
<1> QED
  BY <1>1, <1>5, <1>6, <1>7, <1>8 DEF s

\* The rank of a member is its place; the rank of anything else is 0.
LEMMA RankIsPlace ==
  ASSUME NEW X, NEW s \in Seq(X), \A i, j \in DOMAIN s : s[i] = s[j] => i = j
  PROVE  /\ \A i \in DOMAIN s : Context!RankIn(s, s[i]) = i
         /\ \A c : c \notin ToSet(s) => Context!RankIn(s, c) = 0
         /\ \A c : c \in ToSet(s) => /\ Context!RankIn(s, c) \in DOMAIN s
                                     /\ s[Context!RankIn(s, c)] = c
<1>1. \A c : Context!RankIn(s, c) =
               IF c \in ToSet(s) THEN CHOOSE i \in DOMAIN s : s[i] = c ELSE 0
  BY ContextOperators DEF Context!RankIn
<1>2. ASSUME NEW i \in DOMAIN s
      PROVE  Context!RankIn(s, s[i]) = i
  <2>1. s[i] \in ToSet(s)
    BY DEF ToSet
  <2>2. (CHOOSE j \in DOMAIN s : s[j] = s[i]) = i
    OBVIOUS
  <2> QED
    BY <1>1, <2>1, <2>2
<1> QED
  BY <1>1, <1>2 DEF ToSet

\* Cutting a sorted sequence keeps nothing that comes after what it drops.
LEMMA CutKeepsFirst ==
  ASSUME NEW S, IsFiniteSet(S), NEW R, Orders(R, S), NEW n \in Nat
  PROVE  LET t == Context!FirstOf(Context!Sorted(S, R), n) IN
         /\ t \in Seq(S)
         /\ \A i, j \in DOMAIN t : t[i] = t[j] => i = j
         /\ \A c, d \in S : <<c, d>> \in R /\ d \in ToSet(t) =>
              Context!RankIn(t, c) \in 1 .. Context!RankIn(t, d) - 1
<1> DEFINE s == Context!Sorted(S, R)
           m == IF Len(s) < n THEN Len(s) ELSE n
           t == Context!FirstOf(s, n)
<1>1. /\ Cardinality(S) \in Nat /\ s \in [1 .. Cardinality(S) -> S]
      /\ \A c \in S : \E i \in 1 .. Cardinality(S) : s[i] = c
      /\ \A i, j \in 1 .. Cardinality(S) : s[i] = s[j] => i = j
      /\ \A i, j \in 1 .. Cardinality(S) : <<s[i], s[j]>> \in R => i < j
  BY SortedInOrder
<1> HIDE DEF s
<1>2. s \in Seq(S) /\ Len(s) = Cardinality(S)
  BY <1>1
<1>3. m \in Nat /\ m <= Len(s)
  BY <1>2
<1>4. t = SubSeq(s, 1, m)
  BY DEF Context!FirstOf
<1>5. t \in Seq(S) /\ DOMAIN t = 1 .. m /\ \A i \in 1 .. m : t[i] = s[i]
  BY <1>2, <1>3, <1>4, SubSeqProperties
<1> HIDE DEF t, m
<1>6. \A i, j \in DOMAIN t : t[i] = t[j] => i = j
  BY <1>1, <1>2, <1>3, <1>5
<1>7. ASSUME NEW c \in S, NEW d \in S, <<c, d>> \in R, d \in ToSet(t)
      PROVE  Context!RankIn(t, c) \in 1 .. Context!RankIn(t, d) - 1
  <2>1. PICK j \in 1 .. m : t[j] = d
    BY <1>5, <1>7 DEF ToSet
  <2>2. PICK i \in 1 .. Cardinality(S) : s[i] = c
    BY <1>1
  <2>3. s[j] = d /\ j \in 1 .. Cardinality(S)
    BY <1>2, <1>3, <1>5, <2>1
  <2>4. i < j
    BY <1>1, <1>7, <2>2, <2>3
  <2>5. i \in 1 .. m /\ t[i] = c
    BY <1>1, <1>3, <1>5, <2>1, <2>2, <2>4
  <2>6. Context!RankIn(t, c) = i /\ Context!RankIn(t, d) = j
    BY <1>5, <1>6, <2>1, <2>5, RankIsPlace
  <2> QED
    BY <2>4, <2>5, <2>6
<1> QED
  BY <1>5, <1>6, <1>7 DEF t, s

\* Fractions, compared crosswise: a / b >= c / d >= e / f.
LEMMA CrosswiseTransitive ==
  ASSUME NEW a \in Nat, NEW b \in Nat \ {0}, NEW c \in Nat, NEW d \in Nat \ {0},
         NEW e \in Nat, NEW f \in Nat \ {0}, a * d >= c * b, c * f >= e * d
  PROVE  a * f >= e * b
<1>1. ASSUME NEW x \in Nat, NEW y \in Nat, NEW z \in Nat, x >= y
      PROVE  x * z >= y * z
  BY <1>1
<1>2. ASSUME NEW x \in Nat, NEW y \in Nat, NEW z \in Nat \ {0}, x * z >= y * z
      PROVE  x >= y
  <2> SUFFICES ASSUME x + 1 <= y PROVE FALSE
    OBVIOUS
  <2>1. (x + 1) * z <= y * z
    BY <1>1
  <2>2. (x + 1) * z = x * z + z
    OBVIOUS
  <2>3. x * z \in Nat /\ y * z \in Nat
    OBVIOUS
  <2> QED
    BY <1>2, <2>1, <2>2, <2>3
<1>3. (a * d) * f >= (c * b) * f /\ (c * f) * b >= (e * d) * b
  BY <1>1
<1>4. (a * d) * f = (a * f) * d /\ (c * b) * f = (c * f) * b /\ (e * d) * b = (e * b) * d
  OBVIOUS
<1>5. /\ (a * f) * d \in Nat /\ (c * f) * b \in Nat /\ (e * b) * d \in Nat
      /\ a * f \in Nat /\ e * b \in Nat
  OBVIOUS
<1>6. (a * f) * d >= (e * b) * d
  BY <1>3, <1>4, <1>5
<1> QED
  BY <1>2, <1>5, <1>6

\* The sum of two fractions grows with both, and strictly with either.
LEMMA SumGrows ==
  ASSUME NEW p1 \in Nat, NEW p2 \in Nat \ {0}, NEW q1 \in Nat, NEW q2 \in Nat \ {0},
         NEW r1 \in Nat, NEW r2 \in Nat \ {0}, NEW s1 \in Nat, NEW s2 \in Nat \ {0},
         p1 * r2 >= r1 * p2, q1 * s2 >= s1 * q2,
         p1 * r2 > r1 * p2 \/ q1 * s2 > s1 * q2
  PROVE  (p1 * q2 + q1 * p2) * (r2 * s2) > (r1 * s2 + s1 * r2) * (p2 * q2)
<1> DEFINE x == p1 * r2
           y == r1 * p2
           v == q1 * s2
           w == s1 * q2
           g == q2 * s2
           h == p2 * r2
<1>1. x \in Nat /\ y \in Nat /\ v \in Nat /\ w \in Nat
  OBVIOUS
<1>2. g \in Nat \ {0} /\ h \in Nat \ {0}
  OBVIOUS
<1>3. (p1 * q2 + q1 * p2) * (r2 * s2) = x * g + v * h
  <2>1. (p1 * q2 + q1 * p2) * (r2 * s2)
           = (p1 * q2) * (r2 * s2) + (q1 * p2) * (r2 * s2)
    OBVIOUS
  <2>2. (p1 * q2) * (r2 * s2) = (p1 * r2) * (q2 * s2)
    OBVIOUS
  <2>3. (q1 * p2) * (r2 * s2) = (q1 * s2) * (p2 * r2)
    OBVIOUS
  <2> QED
    BY <2>1, <2>2, <2>3
<1>4. (r1 * s2 + s1 * r2) * (p2 * q2) = y * g + w * h
  <2>1. (r1 * s2 + s1 * r2) * (p2 * q2)
           = (r1 * s2) * (p2 * q2) + (s1 * r2) * (p2 * q2)
    OBVIOUS
  <2>2. (r1 * s2) * (p2 * q2) = (r1 * p2) * (q2 * s2)
    OBVIOUS
  <2>3. (s1 * r2) * (p2 * q2) = (s1 * q2) * (p2 * r2)
    OBVIOUS
  <2> QED
    BY <2>1, <2>2, <2>3
<1>5. x >= y /\ v >= w /\ (x > y \/ v > w)
  OBVIOUS
<1> HIDE DEF x, y, v, w, g, h
<1>6. ASSUME NEW j \in Nat, NEW k \in Nat, NEW z \in Nat \ {0}, j >= k
      PROVE  /\ j * z >= k * z /\ j * z \in Nat /\ k * z \in Nat
             /\ j > k => j * z > k * z
  <2>1. j * z \in Nat /\ k * z \in Nat
    OBVIOUS
  <2>2. j * z = k * z + (j - k) * z /\ j - k \in Nat
    BY <1>6
  <2>3. (j - k) * z \in Nat /\ (j > k => (j - k) * z > 0)
    BY <1>6
  <2> QED
    BY <2>1, <2>2, <2>3
<1>7. /\ x * g >= y * g /\ x * g \in Nat /\ y * g \in Nat /\ (x > y => x * g > y * g)
      /\ v * h >= w * h /\ v * h \in Nat /\ w * h \in Nat /\ (v > w => v * h > w * h)
  BY <1>1, <1>2, <1>5, <1>6
<1>8. x * g + v * h > y * g + w * h
  BY <1>5, <1>7
<1> QED
  BY <1>3, <1>4, <1>8

-----------------------------------------------------------------------------
\* A chunk is a document and a place in it.
LEMMA ChunkIsPair ==
  ASSUME NEW c \in Context!Chunks
  PROVE  /\ c = <<c[1], c[2]>> /\ c[1] \in DOMAIN Layout /\ c[1] \in Nat
         /\ c[2] \in DOMAIN Layout[c[1]].chunks /\ c[2] \in Nat \ {0}
<1>1. PICK doc \in DOMAIN Layout : c \in {<<doc, i>> : i \in DOMAIN Layout[doc].chunks}
  BY DEF Context!Chunks
<1>2. PICK i \in DOMAIN Layout[doc].chunks : c = <<doc, i>>
  BY <1>1
<1>3. PICK n \in Nat : n = Len(Layout[doc].chunks) /\ DOMAIN Layout[doc].chunks = 1 .. n
  BY ContextAssumption DEF LaidOut
<1>4. i \in 1 .. n /\ i \in Nat \ {0}
  BY <1>3
<1>5. doc \in Nat
  BY ContextAssumption
<1>6. c[1] = doc /\ c[2] = i
  BY <1>2
<1> QED
  BY <1>2, <1>4, <1>5, <1>6

\* What the routes are.
Routed == routes \in Context!Rankings \X Context!Rankings

\* A route is a sequence of chunks without repetition.
LEMMA RoutesRank ==
  ASSUME Routed
  PROVE  /\ routes[1] \in Seq(Context!Chunks) /\ routes[2] \in Seq(Context!Chunks)
         /\ \A i, j \in DOMAIN routes[1] : routes[1][i] = routes[1][j] => i = j
         /\ \A i, j \in DOMAIN routes[2] : routes[2][i] = routes[2][j] => i = j
         /\ Context!Hits = ToSet(routes[1]) \cup ToSet(routes[2])
         /\ Context!Hits \in SUBSET Context!Chunks /\ IsFiniteSet(Context!Hits)
<1>1. ASSUME NEW r \in Context!Rankings
      PROVE  /\ r \in Seq(Context!Chunks) /\ IsFiniteSet(ToSet(r))
             /\ ToSet(r) \in SUBSET Context!Chunks
             /\ \A i, j \in DOMAIN r : r[i] = r[j] => i = j
  <2>1. PICK n \in 0 .. RouteDepth : r \in [1 .. n -> Context!Chunks]
    BY DEF Context!Rankings
  <2>2. IsInjective(r)
    BY ContextOperators DEF Context!Rankings
  <2>3. n \in Nat
    BY <2>1
  <2>4. r \in Surjection(1 .. n, ToSet(r))
    BY <2>1 DEF Surjection, ToSet
  <2>5. IsFiniteSet(ToSet(r))
    BY <2>3, <2>4, FS_Interval, FS_Surjection
  <2> QED
    BY <2>1, <2>2, <2>3, <2>5 DEF IsInjective, ToSet
<1>2. routes[1] \in Context!Rankings /\ routes[2] \in Context!Rankings
  BY DEF Routed
<1>3. Context!Hits = ToSet(routes[1]) \cup ToSet(routes[2])
  BY ContextOperators DEF Context!Hits
<1>4. IsFiniteSet(Context!Hits)
  BY <1>1, <1>2, <1>3, FS_Union
<1> QED
  BY <1>1, <1>2, <1>3, <1>4

\* What a route adds to a score is a fraction that grows with its rank.
LEMMA SharesCompare ==
  ASSUME NEW r \in Seq(Context!Chunks), \A i, j \in DOMAIN r : r[i] = r[j] => i = j
  PROVE  \A c, d \in Context!Chunks :
           LET p == Context!Share(r, c)
               q == Context!Share(r, d)
           IN /\ p[1] \in Nat /\ p[2] \in Nat \ {0}
              /\ \/ Context!RankIn(r, d) = 0
                 \/ Context!RankIn(r, c) \in 1 .. Context!RankIn(r, d)
                 => p[1] * q[2] >= q[1] * p[2]
              /\ /\ d \in ToSet(r) /\ c # d
                 /\ Context!RankIn(r, c) \in 1 .. Context!RankIn(r, d)
                 => p[1] * q[2] > q[1] * p[2]
<1>1. RrfK \in Nat
  BY ContextAssumption
<1>2. \A c \in Context!Chunks :
        /\ Context!RankIn(r, c) \in Nat
        /\ c \in ToSet(r) => Context!RankIn(r, c) > 0 /\ r[Context!RankIn(r, c)] = c
        /\ c \notin ToSet(r) => Context!RankIn(r, c) = 0
  BY RankIsPlace
<1>3. \A c \in Context!Chunks :
        Context!Share(r, c) =
          IF c \in ToSet(r) THEN <<1, RrfK + Context!RankIn(r, c)>> ELSE <<0, 1>>
  BY ContextOperators DEF Context!Share
<1> SUFFICES ASSUME NEW c \in Context!Chunks, NEW d \in Context!Chunks
             PROVE  LET p == Context!Share(r, c)
                        q == Context!Share(r, d)
                    IN /\ p[1] \in Nat /\ p[2] \in Nat \ {0}
                       /\ \/ Context!RankIn(r, d) = 0
                          \/ Context!RankIn(r, c) \in 1 .. Context!RankIn(r, d)
                          => p[1] * q[2] >= q[1] * p[2]
                       /\ /\ d \in ToSet(r) /\ c # d
                          /\ Context!RankIn(r, c) \in 1 .. Context!RankIn(r, d)
                          => p[1] * q[2] > q[1] * p[2]
  OBVIOUS
<1> DEFINE p == Context!Share(r, c)
           q == Context!Share(r, d)
<1>4. /\ p[1] \in Nat /\ p[2] \in Nat \ {0}
      /\ q[1] \in Nat /\ q[2] \in Nat \ {0}
  BY <1>1, <1>2, <1>3
<1>5. CASE d \notin ToSet(r)
  <2>1. q[1] = 0 /\ q[2] = 1
    BY <1>3, <1>5
  <2>2. Context!RankIn(r, d) = 0
    BY <1>2, <1>5
  <2> HIDE DEF p, q
  <2>3. p[1] * q[2] >= q[1] * p[2]
    BY <1>4, <2>1
  <2> QED
    BY <1>4, <1>5, <2>3 DEF p, q
<1>6. CASE d \in ToSet(r) /\ Context!RankIn(r, c) \in 1 .. Context!RankIn(r, d)
  <2>1. c \in ToSet(r)
    BY <1>2, <1>6
  <2>2. p[1] = 1 /\ p[2] = RrfK + Context!RankIn(r, c)
    BY <1>3, <2>1
  <2>3. q[1] = 1 /\ q[2] = RrfK + Context!RankIn(r, d)
    BY <1>3, <1>6
  <2>4. c # d => Context!RankIn(r, c) # Context!RankIn(r, d)
    BY <1>2, <1>6, <2>1
  <2> HIDE DEF p, q
  <2>5. p[1] * q[2] >= q[1] * p[2] /\ (c # d => p[1] * q[2] > q[1] * p[2])
    BY <1>1, <1>2, <1>6, <2>2, <2>3, <2>4
  <2> QED
    BY <1>4, <2>5 DEF p, q
<1> QED
  BY <1>2, <1>4, <1>5, <1>6

\* Scores are fractions, compared by a total preorder.
LEMMA ScoresCompare ==
  ASSUME Routed
  PROVE  /\ \A c, d \in Context!Chunks :
              Context!Greater(Context!RrfScore(c), Context!RrfScore(d)) =>
                ~Context!Greater(Context!RrfScore(d), Context!RrfScore(c))
         /\ \A c, d, e \in Context!Chunks :
              /\ ~Context!Greater(Context!RrfScore(d), Context!RrfScore(c))
              /\ ~Context!Greater(Context!RrfScore(e), Context!RrfScore(d))
              => ~Context!Greater(Context!RrfScore(e), Context!RrfScore(c))
<1>1. ASSUME NEW c \in Context!Chunks
      PROVE  Context!RrfScore(c)[1] \in Nat /\ Context!RrfScore(c)[2] \in Nat \ {0}
  <2> DEFINE p == Context!Share(routes[1], c)
             q == Context!Share(routes[2], c)
  <2>1. p[1] \in Nat /\ p[2] \in Nat \ {0} /\ q[1] \in Nat /\ q[2] \in Nat \ {0}
    BY RoutesRank, SharesCompare
  <2>2. Context!RrfScore(c) = <<p[1] * q[2] + q[1] * p[2], p[2] * q[2]>>
    BY DEF Context!RrfScore
  <2> HIDE DEF p, q
  <2>3. p[1] * q[2] + q[1] * p[2] \in Nat /\ p[2] * q[2] \in Nat \ {0}
    BY <2>1
  <2> QED
    BY <2>2, <2>3
<1>2. ASSUME NEW c \in Context!Chunks, NEW d \in Context!Chunks
      PROVE  /\ Context!Greater(Context!RrfScore(c), Context!RrfScore(d)) =>
                  ~Context!Greater(Context!RrfScore(d), Context!RrfScore(c))
             /\ ~Context!Greater(Context!RrfScore(d), Context!RrfScore(c)) <=>
                  Context!RrfScore(c)[1] * Context!RrfScore(d)[2]
                    >= Context!RrfScore(d)[1] * Context!RrfScore(c)[2]
  BY <1>1 DEF Context!Greater
<1>3. ASSUME NEW c \in Context!Chunks, NEW d \in Context!Chunks, NEW e \in Context!Chunks,
             ~Context!Greater(Context!RrfScore(d), Context!RrfScore(c)),
             ~Context!Greater(Context!RrfScore(e), Context!RrfScore(d))
      PROVE  ~Context!Greater(Context!RrfScore(e), Context!RrfScore(c))
  BY <1>1, <1>2, <1>3, CrosswiseTransitive
<1> QED
  BY <1>2, <1>3

\* The fused order is one: by score, then by the chunks' identifiers.
LEMMA FusedOrders ==
  ASSUME Routed
  PROVE  Orders(Context!FusedOrder, Context!Hits)
<1> DEFINE less(c, d) == Context!Greater(Context!RrfScore(d), Context!RrfScore(c))
           id(c, d) == Context!IdBefore(c, d)
<1>1. Context!Hits \in SUBSET Context!Chunks
  BY RoutesRank
<1>2. /\ \A c, d \in Context!Hits : less(c, d) => ~less(d, c)
      /\ \A c, d, e \in Context!Hits : ~less(c, d) /\ ~less(d, e) => ~less(c, e)
  BY <1>1, ScoresCompare
<1>3. /\ \A c \in Context!Hits : ~id(c, c)
      /\ \A c, d \in Context!Hits : c # d => id(c, d) \/ id(d, c)
      /\ \A c, d, e \in Context!Hits : id(c, d) /\ id(d, e) => id(c, e)
  BY <1>1, ChunkIsPair DEF Context!IdBefore
<1>4. \A c, d \in Context!Hits :
        <<c, d>> \in Context!FusedOrder <=> less(d, c) \/ (~less(c, d) /\ id(c, d))
  BY DEF Context!FusedOrder, Context!FusedBefore
<1> HIDE DEF less, id
<1>5. \A c, d, e \in Context!Hits :
        <<c, d>> \in Context!FusedOrder /\ <<d, e>> \in Context!FusedOrder =>
          <<c, e>> \in Context!FusedOrder
  <2> SUFFICES ASSUME NEW c \in Context!Hits, NEW d \in Context!Hits, NEW e \in Context!Hits,
                      <<c, d>> \in Context!FusedOrder, <<d, e>> \in Context!FusedOrder
               PROVE  less(e, c) \/ (~less(c, e) /\ id(c, e))
    BY <1>4
  <2>1. ~less(c, d) /\ ~less(d, e) /\ ~less(c, e)
    BY <1>2, <1>4
  <2>2. less(d, c) \/ less(e, d) => less(e, c)
    BY <1>2, <2>1
  <2>3. CASE ~less(d, c) /\ ~less(e, d)
    BY <1>3, <1>4, <2>1, <2>3
  <2> QED
    BY <2>2, <2>3
<1> QED
  BY <1>2, <1>3, <1>4, <1>5 DEF Orders

\* A chunk that no route ranks behind another one comes before it.
LEMMA DominantFirst ==
  ASSUME Routed, NEW c \in Context!Hits, NEW d \in Context!Hits, Context!Dominates(c, d)
  PROVE  <<c, d>> \in Context!FusedOrder
<1>1. /\ routes[1] \in Seq(Context!Chunks) /\ routes[2] \in Seq(Context!Chunks)
      /\ \A i, j \in DOMAIN routes[1] : routes[1][i] = routes[1][j] => i = j
      /\ \A i, j \in DOMAIN routes[2] : routes[2][i] = routes[2][j] => i = j
      /\ c \in Context!Chunks /\ d \in Context!Chunks
      /\ d \in ToSet(routes[1]) \/ d \in ToSet(routes[2])
  BY RoutesRank
<1> DEFINE p == Context!Share(routes[1], c)
           q == Context!Share(routes[2], c)
           r == Context!Share(routes[1], d)
           s == Context!Share(routes[2], d)
<1>2. /\ p[1] \in Nat /\ p[2] \in Nat \ {0} /\ q[1] \in Nat /\ q[2] \in Nat \ {0}
      /\ r[1] \in Nat /\ r[2] \in Nat \ {0} /\ s[1] \in Nat /\ s[2] \in Nat \ {0}
  BY <1>1, SharesCompare
<1>3. /\ c # d
      /\ \/ Context!RankIn(routes[1], d) = 0
         \/ Context!RankIn(routes[1], c) \in 1 .. Context!RankIn(routes[1], d)
      /\ \/ Context!RankIn(routes[2], d) = 0
         \/ Context!RankIn(routes[2], c) \in 1 .. Context!RankIn(routes[2], d)
  BY DEF Context!Dominates
<1>4. /\ d \in ToSet(routes[1]) => Context!RankIn(routes[1], d) # 0
      /\ d \in ToSet(routes[2]) => Context!RankIn(routes[2], d) # 0
  BY <1>1, RankIsPlace
<1>5. /\ p[1] * r[2] >= r[1] * p[2] /\ q[1] * s[2] >= s[1] * q[2]
      /\ d \in ToSet(routes[1]) => p[1] * r[2] > r[1] * p[2]
      /\ d \in ToSet(routes[2]) => q[1] * s[2] > s[1] * q[2]
  BY <1>1, <1>3, <1>4, SharesCompare
<1>6. /\ Context!RrfScore(c) = <<p[1] * q[2] + q[1] * p[2], p[2] * q[2]>>
      /\ Context!RrfScore(d) = <<r[1] * s[2] + s[1] * r[2], r[2] * s[2]>>
  BY DEF Context!RrfScore
<1> HIDE DEF p, q, r, s
<1>7. (p[1] * q[2] + q[1] * p[2]) * (r[2] * s[2]) > (r[1] * s[2] + s[1] * r[2]) * (p[2] * q[2])
  BY <1>1, <1>2, <1>5, SumGrows
<1>8. Context!Greater(Context!RrfScore(c), Context!RrfScore(d))
  BY <1>6, <1>7 DEF Context!Greater
<1> QED
  BY <1>8 DEF Context!FusedOrder, Context!FusedBefore

\* What is known of the scores and of the candidates once they are fused.
Fused ==
  /\ score \in [Context!Chunks -> Scores]
  /\ fused = Context!FirstOf(Context!Sorted(Context!Hits, Context!FusedOrder), CandidateCount)

\* A sequence over a set is one over every larger set.
LEMMA SeqOfSuperset ==
  ASSUME NEW S, NEW T, S \in SUBSET T, NEW s \in Seq(S)
  PROVE  s \in Seq(T)
<1>1. s \in [1 .. Len(s) -> S] /\ Len(s) \in Nat
  OBVIOUS
<1> QED
  BY <1>1

\* The hybrid candidates are hits without repetition, cut after the best.
LEMMA FusedRank ==
  ASSUME Routed, Fused
  PROVE  /\ fused \in Seq(Context!Chunks)
         /\ \A i, j \in DOMAIN fused : fused[i] = fused[j] => i = j
         /\ ToSet(fused) \in SUBSET Context!Hits /\ IsFiniteSet(ToSet(fused))
         /\ Context!ToSet(fused) = ToSet(fused)
         /\ \A c, d \in Context!Hits : Context!Dominates(c, d) /\ d \in ToSet(fused) =>
              Context!RankIn(fused, c) \in 1 .. Context!RankIn(fused, d) - 1
<1>1. Context!Hits \in SUBSET Context!Chunks /\ IsFiniteSet(Context!Hits)
  BY RoutesRank
<1>2. /\ fused \in Seq(Context!Hits)
      /\ \A i, j \in DOMAIN fused : fused[i] = fused[j] => i = j
      /\ \A c, d \in Context!Hits : <<c, d>> \in Context!FusedOrder /\ d \in ToSet(fused) =>
           Context!RankIn(fused, c) \in 1 .. Context!RankIn(fused, d) - 1
  BY <1>1, FusedOrders, CutKeepsFirst, ContextAssumption DEF Fused
<1>3. ToSet(fused) \in SUBSET Context!Hits
  BY <1>2 DEF ToSet
<1>4. IsFiniteSet(ToSet(fused)) /\ Context!ToSet(fused) = ToSet(fused)
  BY <1>1, <1>3, FS_Subset, ContextOperators
<1>5. fused \in Seq(Context!Chunks)
  BY <1>1, <1>2, SeqOfSuperset
<1>6. \A c, d \in Context!Hits : Context!Dominates(c, d) => <<c, d>> \in Context!FusedOrder
  BY DominantFirst
<1> QED
  BY <1>2, <1>3, <1>4, <1>5, <1>6

\* The reranked order is one: by score, then by the rank before.
LEMMA RerankedOrders ==
  ASSUME Routed, Fused
  PROVE  Orders(Context!RerankedOrder, ToSet(fused))
<1>1. /\ fused \in Seq(Context!Chunks)
      /\ \A i, j \in DOMAIN fused : fused[i] = fused[j] => i = j
      /\ ToSet(fused) \in SUBSET Context!Chunks
  BY FusedRank, RoutesRank
<1>2. \A c \in ToSet(fused) :
        /\ score[c] \in Nat /\ Context!RankIn(fused, c) \in Nat
        /\ fused[Context!RankIn(fused, c)] = c
  <2>1. \A c \in ToSet(fused) : /\ Context!RankIn(fused, c) \in DOMAIN fused
                                 /\ fused[Context!RankIn(fused, c)] = c
    BY <1>1, RankIsPlace
  <2>2. \A c \in ToSet(fused) : score[c] \in Nat
    BY <1>1, ContextAssumption DEF Fused
  <2> QED
    BY <1>1, <2>1, <2>2
<1>3. \A c, d \in ToSet(fused) :
        <<c, d>> \in Context!RerankedOrder <=>
          \/ score[c] > score[d]
          \/ score[c] = score[d] /\ Context!RankIn(fused, c) < Context!RankIn(fused, d)
  BY ContextOperators DEF Context!RerankedOrder, Context!RerankedBefore
<1>4. \A c, d \in ToSet(fused) : c # d => Context!RankIn(fused, c) # Context!RankIn(fused, d)
  BY <1>2
<1> QED
  BY <1>2, <1>3, <1>4 DEF Orders

\* The anchors, once they are reranked.
Reranked ==
  results = Context!FirstOf(Context!Sorted(ToSet(fused), Context!RerankedOrder), TopK)

\* The anchors are candidates without repetition, cut after the best.
LEMMA ResultsRank ==
  ASSUME Routed, Fused, Reranked
  PROVE  /\ results \in Seq(Context!Chunks)
         /\ \A c, d \in ToSet(fused) : d \in ToSet(results) /\ score[c] > score[d] =>
              Context!RankIn(results, c) \in 1 .. Context!RankIn(results, d) - 1
<1>1. ToSet(fused) \in SUBSET Context!Chunks /\ IsFiniteSet(ToSet(fused))
  BY FusedRank, RoutesRank
<1>2. /\ results \in Seq(ToSet(fused))
      /\ \A c, d \in ToSet(fused) :
           <<c, d>> \in Context!RerankedOrder /\ d \in ToSet(results) =>
             Context!RankIn(results, c) \in 1 .. Context!RankIn(results, d) - 1
  BY <1>1, RerankedOrders, CutKeepsFirst, ContextAssumption DEF Reranked
<1>3. \A c, d \in ToSet(fused) : score[c] > score[d] => <<c, d>> \in Context!RerankedOrder
  BY ContextOperators DEF Context!RerankedOrder, Context!RerankedBefore
<1> QED
  BY <1>1, <1>2, <1>3, SeqOfSuperset

-----------------------------------------------------------------------------
\* A chunk of some window has a first one.
LEMMA FirstWindow ==
  ASSUME NEW anchors \in Seq(Context!Chunks), NEW c \in Context!InWindows(anchors)
  PROVE  /\ Context!WindowOf(anchors, c) \in DOMAIN anchors
         /\ c \in Context!Window(anchors[Context!WindowOf(anchors, c)])
         /\ c \in Context!Chunks
<1> DEFINE Has == {i \in DOMAIN anchors : c \in Context!Window(anchors[i])}
<1>1. Has \in SUBSET Nat /\ Has # {}
  BY DEF Context!InWindows
<1>2. PICK i \in Has : \A j \in Has : i <= j
  <2> HIDE DEF Has
  <2> QED
    BY <1>1, LeastNumber
<1>3. \A j \in 1 .. i - 1 : c \notin Context!Window(anchors[j])
  <2> SUFFICES ASSUME NEW j \in 1 .. i - 1, c \in Context!Window(anchors[j]) PROVE FALSE
    OBVIOUS
  <2>1. i \in DOMAIN anchors /\ DOMAIN anchors = 1 .. Len(anchors) /\ Len(anchors) \in Nat
    BY <1>2
  <2>2. j \in DOMAIN anchors
    BY <2>1
  <2>3. j \in Has
    BY <2>2
  <2>4. i <= j
    BY <1>2, <2>3
  <2> QED
    BY <2>1, <2>4
<1>4. i \in DOMAIN anchors /\ c \in Context!Window(anchors[i])
  BY <1>2
<1>5. LET k == Context!WindowOf(anchors, c) IN
        k \in DOMAIN anchors /\ c \in Context!Window(anchors[k])
  BY <1>3, <1>4 DEF Context!WindowOf
<1> QED
  BY <1>5 DEF Context!Window

\* There are finitely many, and the reading order is one.
LEMMA WindowOrders ==
  ASSUME NEW anchors \in Seq(Context!Chunks)
  PROVE  /\ Context!InWindows(anchors) \in SUBSET Context!Chunks
         /\ IsFiniteSet(Context!InWindows(anchors))
         /\ \A S \in SUBSET Context!InWindows(anchors) :
              Orders(Context!WindowOrder(anchors), S)
<1>1. IsFiniteSet(Context!InWindows(anchors))
  <2> DEFINE Windows == {Context!Window(anchors[i]) : i \in 1 .. Len(anchors)}
             f == [i \in 1 .. Len(anchors) |-> Context!Window(anchors[i])]
  <2>1. f \in Surjection(1 .. Len(anchors), Windows)
    BY DEF Surjection
  <2>2. IsFiniteSet(Windows)
    <3> HIDE DEF f, Windows
    <3>1. IsFiniteSet(1 .. Len(anchors))
      BY FS_Interval
    <3> QED
      BY <2>1, <3>1, FS_Surjection
  <2>3. \A W \in Windows : IsFiniteSet(W)
    <3> SUFFICES ASSUME NEW c PROVE IsFiniteSet(Context!Window(c))
      OBVIOUS
    <3> DEFINE p == <<c[1], c[2] - 1>>
               n == <<c[1], c[2] + 1>>
    <3>1. IsFiniteSet(({c} \cup {p}) \cup {n})
      BY FS_Singleton, FS_Union
    <3>2. Context!Window(c) \in SUBSET (({c} \cup {p}) \cup {n})
      BY DEF Context!Window
    <3> QED
      BY <3>1, <3>2, FS_Subset
  <2>4. Context!InWindows(anchors) = UNION Windows
    BY DEF Context!InWindows
  <2> HIDE DEF Windows
  <2> QED
    BY <2>2, <2>3, <2>4, FS_UNION
<1>2. ASSUME NEW S \in SUBSET Context!InWindows(anchors)
      PROVE  Orders(Context!WindowOrder(anchors), S)
  <2> DEFINE w(c) == Context!WindowOf(anchors, c)
  <2>1. \A c \in S : /\ w(c) \in Nat /\ c[2] \in Nat /\ c = <<c[1], c[2]>>
                     /\ w(c) \in DOMAIN anchors /\ c \in Context!Window(anchors[w(c)])
    BY FirstWindow, ChunkIsPair
  <2>2. \A c, d \in S :
          <<c, d>> \in Context!WindowOrder(anchors) <=>
            w(c) < w(d) \/ (w(c) = w(d) /\ c[2] < d[2])
    BY DEF Context!WindowOrder
  <2> HIDE DEF w
  <2>3. \A c \in S : c[1] = anchors[w(c)][1]
    BY <2>1, ChunkIsPair DEF Context!Window
  <2>4. \A c, d \in S : w(c) = w(d) /\ c[2] = d[2] => c = d
    BY <2>1, <2>3
  <2> QED
    BY <2>1, <2>2, <2>4 DEF Orders
<1>3. Context!InWindows(anchors) \in SUBSET Context!Chunks
  BY DEF Context!InWindows, Context!Window
<1> QED
  BY <1>1, <1>2, <1>3

-----------------------------------------------------------------------------
\* How the chunks of a document lie.
LEMMA ChunksLie ==
  ASSUME NEW c \in Context!Chunks
  PROVE  /\ /\ Context!Facts(c).first \in Nat /\ Context!Facts(c).last \in Nat
            /\ Context!Facts(c).repeats \in Nat
         /\ Context!Facts(c).first + Context!Facts(c).repeats <= Context!Facts(c).last
         /\ Context!Facts(c).last + 1 <= Context!Facts(c).first + MaxTokens
         /\ \A d \in Context!Chunks : d[1] = c[1] /\ d[2] = c[2] - 1 =>
              /\ Context!Facts(d).first <= Context!Facts(c).first
              /\ Context!Facts(d).last < Context!Facts(c).first + Context!Facts(c).repeats
              /\ Context!Facts(c).repeats > 0 =>
                   Context!Facts(d).last + 1
                     = Context!Facts(c).first + Context!Facts(c).repeats
         /\ \A d \in Context!Chunks : d[1] = c[1] /\ d[2] < c[2] - 1 =>
              Context!Facts(d).last < Context!Facts(c).first
<1> DEFINE chunks == Layout[c[1]].chunks
<1>1. /\ c[1] \in DOMAIN Layout
      /\ c[2] \in DOMAIN chunks /\ c[2] \in Nat \ {0}
  BY ChunkIsPair
<1>2. LaidOut(chunks)
  BY <1>1, ContextAssumption
<1>3. \A d \in Context!Chunks : d[1] = c[1] =>
        Context!Facts(d) = chunks[d[2]] /\ d[2] \in Nat \ {0}
  BY ChunkIsPair DEF Context!Facts
<1>4. Context!Facts(c) = chunks[c[2]]
  BY DEF Context!Facts
<1> HIDE DEF chunks
<1>5. chunks[c[2]] \in [first : Nat, last : Nat, repeats : Nat]
  <2> DEFINE Lies == [first : Nat, last : Nat, repeats : Nat]
  <2>1. chunks \in Seq(Lies)
    BY <1>2 DEF LaidOut
  <2> HIDE DEF Lies
  <2>2. chunks[c[2]] \in Lies
    BY <1>1, <2>1
  <2> QED
    BY <2>2 DEF Lies
<1>6. /\ chunks[c[2]].first + chunks[c[2]].repeats <= chunks[c[2]].last
      /\ chunks[c[2]].last + 1 <= chunks[c[2]].first + MaxTokens
      /\ c[2] > 1 =>
           /\ chunks[c[2] - 1].first <= chunks[c[2]].first
           /\ chunks[c[2] - 1].last < chunks[c[2]].first + chunks[c[2]].repeats
           /\ chunks[c[2]].repeats > 0 =>
                chunks[c[2] - 1].last + 1 = chunks[c[2]].first + chunks[c[2]].repeats
      /\ \A j \in 1 .. c[2] - 2 : chunks[j].last < chunks[c[2]].first
  BY <1>1, <1>2 DEF LaidOut
<1>7. ASSUME NEW d \in Context!Chunks, d[1] = c[1], d[2] = c[2] - 1
      PROVE  c[2] > 1 /\ Context!Facts(d) = chunks[c[2] - 1]
  BY <1>1, <1>3, <1>7
<1>8. ASSUME NEW d \in Context!Chunks, d[1] = c[1], d[2] < c[2] - 1
      PROVE  d[2] \in 1 .. c[2] - 2 /\ Context!Facts(d) = chunks[d[2]]
  BY <1>1, <1>3, <1>8
<1> QED
  BY <1>4, <1>5, <1>6, <1>7, <1>8

\* What a segment shows begins within its chunk.
LEMMA ShownWithin ==
  ASSUME NEW C \in SUBSET Context!Chunks, NEW c \in C
  PROVE  /\ Context!FirstShown(c, C) \in Nat
         /\ Context!Facts(c).first <= Context!FirstShown(c, C)
         /\ Context!FirstShown(c, C) <= Context!Facts(c).last
BY ChunksLie DEF Context!FirstShown

\* Two segments of a document show different tokens.
LEMMA SegmentsDisjoint ==
  ASSUME NEW C \in SUBSET Context!Chunks, NEW c \in C, NEW d \in C, c # d, c[1] = d[1]
  PROVE  (Context!FirstShown(c, C) .. Context!Facts(c).last)
           \cap (Context!FirstShown(d, C) .. Context!Facts(d).last) = {}
<1>1. ASSUME NEW x \in C, NEW y \in C, x[1] = y[1], y[2] < x[2]
      PROVE  Context!Facts(y).last < Context!FirstShown(x, C)
  <2>1. x[2] \in Nat /\ y[2] \in Nat /\ y = <<y[1], y[2]>>
    BY ChunkIsPair
  <2>2. CASE y[2] = x[2] - 1
    <3>1. y = <<x[1], x[2] - 1>>
      BY <1>1, <2>1, <2>2
    <3>2. /\ Context!Facts(y).last < Context!Facts(x).first + Context!Facts(x).repeats
          /\ Context!Facts(x).first \in Nat /\ Context!Facts(x).repeats \in Nat
      BY <1>1, <2>2, ChunksLie
    <3>3. Context!FirstShown(x, C) = Context!Facts(x).first + Context!Facts(x).repeats
      BY <3>1, <3>2 DEF Context!FirstShown
    <3> QED
      BY <3>2, <3>3
  <2>3. CASE y[2] # x[2] - 1
    <3>1. y[2] < x[2] - 1
      BY <1>1, <2>1, <2>3
    <3>2. Context!Facts(y).last < Context!Facts(x).first
      BY <1>1, <3>1, ChunksLie
    <3>3. /\ Context!Facts(x).first <= Context!FirstShown(x, C)
          /\ Context!FirstShown(x, C) \in Nat
          /\ Context!Facts(x).first \in Nat /\ Context!Facts(y).last \in Nat
      BY ShownWithin, ChunksLie
    <3> QED
      BY <3>2, <3>3
  <2> QED
    BY <2>2, <2>3
<1>2. c[2] < d[2] \/ d[2] < c[2]
  BY ChunkIsPair
<1>3. /\ Context!Facts(c).last \in Nat /\ Context!Facts(d).last \in Nat
      /\ Context!FirstShown(c, C) \in Nat /\ Context!FirstShown(d, C) \in Nat
  BY ChunksLie, ShownWithin
<1> QED
  BY <1>1, <1>2, <1>3

\* A token of a chosen chunk is shown by its segment or by that of the chunk before.
LEMMA TokensShown ==
  ASSUME NEW C \in SUBSET Context!Chunks, NEW c \in C,
         NEW k \in Context!Facts(c).first .. Context!Facts(c).last
  PROVE  \E d \in C : d[1] = c[1] /\ k \in Context!FirstShown(d, C) .. Context!Facts(d).last
<1>1. /\ Context!Facts(c).first \in Nat /\ Context!Facts(c).last \in Nat
      /\ Context!Facts(c).repeats \in Nat /\ Context!FirstShown(c, C) \in Nat
  BY ChunksLie, ShownWithin
<1>2. CASE Context!FirstShown(c, C) <= k
  BY <1>1, <1>2
<1>3. CASE k < Context!FirstShown(c, C)
  <2> DEFINE p == <<c[1], c[2] - 1>>
             q == <<p[1], p[2] - 1>>
  <2>1. /\ Context!Facts(c).repeats > 0 /\ p \in C
        /\ k < Context!Facts(c).first + Context!Facts(c).repeats
    BY <1>1, <1>3 DEF Context!FirstShown
  <2>2. /\ Context!Facts(p).first <= Context!Facts(c).first
        /\ Context!Facts(p).last + 1 = Context!Facts(c).first + Context!Facts(c).repeats
        /\ Context!Facts(p).first \in Nat /\ Context!Facts(p).last \in Nat
        /\ Context!Facts(p).repeats \in Nat
    BY <2>1, ChunksLie
  <2>3. Context!FirstShown(p, C) <= k
    <3>1. CASE Context!FirstShown(p, C) = Context!Facts(p).first
      BY <1>1, <2>2, <3>1
    <3>2. CASE Context!FirstShown(p, C) # Context!Facts(p).first
      <4>1. /\ Context!FirstShown(p, C) = Context!Facts(p).first + Context!Facts(p).repeats
            /\ Context!Facts(p).repeats > 0 /\ q \in C
        BY <3>2 DEF Context!FirstShown
      <4>2. /\ Context!Facts(q).last + 1
                 = Context!Facts(p).first + Context!Facts(p).repeats
            /\ Context!Facts(q).last \in Nat
        BY <2>1, <4>1, ChunksLie
      <4>3. q[1] = c[1] /\ q[2] < c[2] - 1
        BY <2>1, <4>1, ChunkIsPair
      <4>4. Context!Facts(q).last < Context!Facts(c).first
        BY <4>1, <4>3, ChunksLie
      <4> QED
        BY <1>1, <4>1, <4>2, <4>4
    <3> QED
      BY <3>1, <3>2
  <2>4. p[1] = c[1] /\ k <= Context!Facts(p).last
    BY <1>1, <2>1, <2>2
  <2>5. Context!FirstShown(p, C) \in Nat
    BY <2>1, ShownWithin
  <2> HIDE DEF p
  <2> QED
    BY <2>1, <2>2, <2>3, <2>4, <2>5
<1> QED
  BY <1>1, <1>2, <1>3

-----------------------------------------------------------------------------
\* What a set of chunks weighs is a sum.
LEMMA TokensSum ==
  ASSUME NEW C
  PROVE  Context!TotalTokens(C) = Total([c \in C |-> Context!TokenCount(c, C)], C)
<1> DEFINE tokens == [c \in C |-> Context!TokenCount(c, C)]
<1>1. Context!TotalTokens(C) = Context!MapThenSumSet(LAMBDA c : tokens[c], C)
  BY DEF Context!TotalTokens
<1> HIDE DEF tokens
<1>2. Context!MapThenSumSet(LAMBDA c : tokens[c], C) = Total(tokens, C)
  BY Zenon DEF Context!MapThenSumSet, Context!MapThenFoldSet, Total, MapThenSumSet,
               MapThenFoldSet
<1> QED
  BY <1>1, <1>2 DEF tokens

\* No chunk and any one chunk fit.
LEMMA OneFits ==
  /\ Context!Renders({}) /\ Context!WithinBudget({})
  /\ \A c \in Context!Chunks : Context!Renders({c}) /\ Context!WithinBudget({c})
<1>1. MaxTokens \in Nat /\ MaxSegments \in Nat \ {0}
  BY ContextAssumption
<1>2. Context!Cardinality({}) = 0 /\ \A c : Context!Cardinality({c}) = 1
  BY ContextOperators, FS_EmptySet, FS_Singleton
<1>3. Context!Renders({}) /\ Context!WithinBudget({})
  <2>1. Context!TotalTokens({}) = 0
    BY TokensSum, TotalStep, FS_EmptySet
  <2> QED
    BY <1>1, <1>2, <2>1 DEF Context!Renders, Context!WithinBudget
<1>4. ASSUME NEW c \in Context!Chunks
      PROVE  Context!Renders({c}) /\ Context!WithinBudget({c})
  <2> DEFINE tokens == [x \in {c} |-> Context!TokenCount(x, {c})]
  <2>1. /\ Context!Facts(c).first \in Nat /\ Context!Facts(c).last \in Nat
        /\ Context!Facts(c).first <= Context!Facts(c).last
        /\ Context!Facts(c).last + 1 <= Context!Facts(c).first + MaxTokens
    BY ChunksLie
  <2>2. Context!FirstShown(c, {c}) = Context!Facts(c).first
    <3>1. <<c[1], c[2] - 1>> # c
      BY ChunkIsPair
    <3> QED
      BY <3>1 DEF Context!FirstShown
  <2>3. tokens[c] \in Nat /\ tokens[c] <= MaxTokens
    BY <1>1, <2>1, <2>2 DEF Context!TokenCount
  <2>4. Total(tokens, {c}) = tokens[c]
    <3> HIDE DEF tokens
    <3>1. IsFiniteSet({c}) /\ IsFiniteSet({}) /\ {c} \ {c} = {}
      BY FS_Singleton, FS_EmptySet
    <3>2. Total(tokens, {c}) = tokens[c] + Total(tokens, {c} \ {c})
      BY <2>3, <3>1, TotalRemove
    <3>3. Total(tokens, {}) = 0
      BY <3>1, TotalStep
    <3> QED
      BY <2>3, <3>1, <3>2, <3>3
  <2>5. Context!TotalTokens({c}) = Total(tokens, {c})
    BY TokensSum
  <2> HIDE DEF tokens
  <2>6. Context!WithinBudget({c})
    <3>1. Context!Cardinality({c}) = 1
      BY <1>2
    <3>2. Context!TotalTokens({c}) <= MaxTokens
      BY <2>3, <2>4, <2>5
    <3> QED
      BY <1>1, <3>1, <3>2 DEF Context!WithinBudget
  <2>7. Context!Renders({c})
    BY <2>1, <2>2 DEF Context!Renders
  <2> QED
    BY <2>6, <2>7
<1> QED
  BY <1>3, <1>4

(***************************************************************************)
(* The inductive invariant.                                                *)
(***************************************************************************)
\* The builder holds a Context that renders and fits; until it has taken the
\* best anchor it has taken nothing, and considers that anchor first.
SelectedInv ==
  /\ Context!Renders(selected) /\ Context!WithinBudget(selected)
  /\ selected \in SUBSET Context!InWindows(results)
  /\ contextPc = "select" => pending \in Seq(Context!InWindows(results))
  /\ results # <<>> =>
       \/ results[1] \in selected
       \/ /\ contextPc = "select" /\ selected = {}
          /\ pending # <<>> /\ Head(pending) = results[1]

\* What is built is the selection in reading order.
BuiltInv ==
  contextPc = "built" =>
    LET order == Context!ReadingOrder(results, selected) IN
    bundle = [i \in DOMAIN order |->
                [chunk |-> order[i], first |-> Context!FirstShown(order[i], selected)]]

ContextInv ==
  /\ contextPc \in {"fuse", "rerank", "select", "built"}
  /\ Routed /\ score \in [Context!Chunks -> Scores]
  /\ contextPc # "fuse" => Fused
  /\ contextPc \in {"fuse", "rerank"} => selected = {}
  /\ contextPc \in {"select", "built"} => Reranked /\ SelectedInv
  /\ BuiltInv

\* At first nothing is ranked or chosen.
LEMMA ContextInit == Context!Init => ContextInv
BY DEF Context!Init, ContextInv, Routed, BuiltInv

\* The candidates begin with the anchors, the best one first.
LEMMA AnchorsFirst ==
  ASSUME NEW anchors \in Seq(Context!Chunks)
  PROVE  LET s == Context!Candidates(anchors) IN
         /\ s \in Seq(Context!InWindows(anchors))
         /\ anchors # <<>> => s # <<>> /\ Head(s) = anchors[1]
<1> DEFINE S == Context!InWindows(anchors) \ Context!ToSet(anchors)
           t == Context!Sorted(S, Context!WindowOrder(anchors))
<1>1. /\ S \in SUBSET Context!InWindows(anchors) /\ IsFiniteSet(S)
      /\ Orders(Context!WindowOrder(anchors), S)
  BY WindowOrders, FS_Subset
<1>2. Cardinality(S) \in Nat /\ t \in [1 .. Cardinality(S) -> S]
  <2> HIDE DEF S
  <2> QED
    BY <1>1, SortedInOrder
<1>3. t \in Seq(Context!InWindows(anchors))
  <2> HIDE DEF S, t
  <2>1. t \in Seq(S)
    BY <1>2
  <2> QED
    BY <1>1, <2>1, SeqOfSuperset
<1>4. anchors \in Seq(Context!InWindows(anchors))
  <2>1. \A i \in 1 .. Len(anchors) : anchors[i] \in Context!InWindows(anchors)
    BY DEF Context!InWindows, Context!Window
  <2> QED
    BY <2>1
<1>5. Context!Candidates(anchors) = anchors \o t
  BY DEF Context!Candidates
<1> HIDE DEF t, S
<1> QED
  BY <1>3, <1>4, <1>5

\* Every step of ContextBuilding.
LEMMA ContextStep ==
  ASSUME ContextInv, [Context!Next]_Context!vars
  PROVE  ContextInv'
<1>1. CASE UNCHANGED Context!vars
  BY <1>1 DEF Context!vars, ContextInv, Routed, Fused, Reranked, SelectedInv, BuiltInv,
              Context!Hits, Context!FusedOrder, Context!FusedBefore, Context!RrfScore,
              Context!RerankedOrder, Context!RerankedBefore
<1>2. CASE Context!Fuse
  <2>1. /\ contextPc' = "rerank" /\ selected' = {}
        /\ fused' = Context!FirstOf(Context!Sorted(Context!Hits, Context!FusedOrder),
                                    CandidateCount)
        /\ UNCHANGED <<routes, score>>
    BY <1>2 DEF Context!Fuse, ContextInv
  <2>2. Fused'
    BY <2>1 DEF Fused, ContextInv, Context!Hits, Context!FusedOrder, Context!FusedBefore,
                Context!RrfScore
  <2> QED
    BY <2>1, <2>2 DEF ContextInv, Routed, BuiltInv
<1>3. CASE Context!Rerank
  <2>1. /\ contextPc = "rerank" /\ contextPc' = "select" /\ selected' = {}
        /\ results' = Context!FirstOf(
                        Context!Sorted(Context!ToSet(fused), Context!RerankedOrder), TopK)
        /\ pending' = Context!Candidates(results')
        /\ UNCHANGED <<routes, score, fused>>
    BY <1>3 DEF Context!Rerank, ContextInv
  <2>2. Routed /\ Fused
    BY <2>1 DEF ContextInv
  <2>3. Routed' /\ Fused'
    BY <2>1, <2>2 DEF Routed, Fused, Context!Hits, Context!FusedOrder, Context!FusedBefore,
                      Context!RrfScore
  <2>4. Reranked'
    BY <2>1, ContextOperators DEF Reranked, Context!RerankedOrder, Context!RerankedBefore
  <2>5. results' \in Seq(Context!Chunks)
    <3>1. ToSet(fused) \in SUBSET Context!Chunks /\ IsFiniteSet(ToSet(fused))
      BY <2>2, FusedRank, RoutesRank
    <3>2. results' \in Seq(ToSet(fused))
      BY <2>1, <2>2, <3>1, RerankedOrders, CutKeepsFirst, ContextAssumption, ContextOperators
    <3> QED
      BY <3>1, <3>2, SeqOfSuperset
  <2>6. /\ pending' \in Seq(Context!InWindows(results'))
        /\ results' # <<>> => pending' # <<>> /\ Head(pending') = results'[1]
    BY <2>1, <2>5, AnchorsFirst
  <2>7. SelectedInv'
    BY <2>1, <2>6, OneFits DEF SelectedInv
  <2> QED
    BY <2>1, <2>3, <2>4, <2>7 DEF ContextInv, BuiltInv
<1>4. CASE Context!Consider
  <2> DEFINE c == Head(pending)
  <2>1. /\ contextPc = "select" /\ contextPc' = "select" /\ pending # <<>>
        /\ selected' = IF Context!Takes(selected, c) THEN selected \cup {c} ELSE selected
        /\ pending' = Tail(pending)
        /\ UNCHANGED <<routes, score, fused, results, bundle>>
    BY <1>4 DEF Context!Consider
  <2>2. SelectedInv /\ Reranked /\ Fused /\ Routed
    BY <2>1 DEF ContextInv
  <2>3. c \in Context!InWindows(results) /\ pending' \in Seq(Context!InWindows(results))
    BY <2>1, <2>2 DEF SelectedInv
  <2>4. Context!Renders(selected') /\ Context!WithinBudget(selected')
    BY <2>1, <2>2 DEF SelectedInv, Context!Takes
  <2>5. ASSUME results # <<>>
        PROVE  results[1] \in selected'
    <3>1. CASE results[1] \in selected
      BY <2>1, <3>1
    <3>2. CASE selected = {} /\ c = results[1]
      <4>1. c \in Context!Chunks /\ {} \cup {c} = {c}
        BY <2>3 DEF Context!InWindows, Context!Window
      <4>2. Context!Takes({}, c)
        BY <4>1, OneFits DEF Context!Takes
      <4> QED
        BY <2>1, <3>2, <4>2
    <3> QED
      BY <2>2, <2>5, <3>1, <3>2 DEF SelectedInv
  <2>6. SelectedInv'
    BY <2>1, <2>2, <2>3, <2>4, <2>5 DEF SelectedInv
  <2> QED
    BY <2>1, <2>2, <2>6 DEF ContextInv, Routed, Fused, Reranked, BuiltInv, Context!Hits,
         Context!FusedOrder, Context!FusedBefore, Context!RrfScore,
         Context!RerankedOrder, Context!RerankedBefore
<1>5. CASE Context!Build
  <2>1. /\ contextPc = "select" /\ pending = <<>>
        /\ UNCHANGED <<routes, score, fused, results, pending, selected>>
    BY <1>5 DEF Context!Build
  <2>2. SelectedInv /\ Reranked /\ Fused /\ Routed
    BY <2>1 DEF ContextInv
  <2>3. ~(results # <<>> /\ selected = {})
    BY <2>1, <2>2 DEF SelectedInv
  <2>4. contextPc' = "built"
    BY <1>5, <2>3 DEF Context!Build
  <2>5. BuiltInv'
    BY <1>5, <2>1, <2>3 DEF Context!Build, BuiltInv
  <2>6. SelectedInv'
    BY <2>1, <2>2, <2>4 DEF SelectedInv
  <2> QED
    BY <2>1, <2>2, <2>4, <2>5, <2>6 DEF ContextInv, Routed, Fused, Reranked, Context!Hits,
         Context!FusedOrder, Context!FusedBefore, Context!RrfScore,
         Context!RerankedOrder, Context!RerankedBefore
<1> QED
  BY <1>1, <1>2, <1>3, <1>4, <1>5 DEF Context!Next

\* The segments of a built Context are the selected chunks, each once.
LEMMA SegmentsSelected ==
  ASSUME ContextInv, contextPc = "built"
  PROVE  /\ \A i \in DOMAIN bundle :
              /\ bundle[i].chunk \in selected
              /\ bundle[i].first = Context!FirstShown(bundle[i].chunk, selected)
         /\ \A i, j \in DOMAIN bundle : bundle[i].chunk = bundle[j].chunk => i = j
         /\ \A c \in selected : \E i \in DOMAIN bundle : bundle[i].chunk = c
         /\ selected \in SUBSET Context!Chunks
<1> DEFINE order == Context!ReadingOrder(results, selected)
<1>1. /\ bundle = [i \in DOMAIN order |->
                     [chunk |-> order[i], first |-> Context!FirstShown(order[i], selected)]]
      /\ Routed /\ Fused /\ Reranked /\ selected \in SUBSET Context!InWindows(results)
  BY DEF ContextInv, SelectedInv, BuiltInv
<1>2. results \in Seq(Context!Chunks)
  BY <1>1, ResultsRank
<1>3. /\ Context!InWindows(results) \in SUBSET Context!Chunks
      /\ IsFiniteSet(selected) /\ Orders(Context!WindowOrder(results), selected)
  BY <1>1, <1>2, WindowOrders, FS_Subset
<1>4. order = Context!Sorted(selected, Context!WindowOrder(results))
  BY DEF Context!ReadingOrder
<1>5. /\ order \in [1 .. Cardinality(selected) -> selected]
      /\ \A c \in selected : \E i \in 1 .. Cardinality(selected) : order[i] = c
      /\ \A i, j \in 1 .. Cardinality(selected) : order[i] = order[j] => i = j
  BY <1>3, <1>4, SortedInOrder
<1> HIDE DEF order
<1>6. /\ DOMAIN bundle = 1 .. Cardinality(selected)
      /\ \A i \in DOMAIN bundle :
           /\ bundle[i].chunk = order[i]
           /\ bundle[i].first = Context!FirstShown(order[i], selected)
  BY <1>1, <1>5
<1> QED
  BY <1>1, <1>3, <1>5, <1>6

\* A built Context shows every token of its chunks once.
LEMMA BuiltShowsOnce ==
  ASSUME ContextInv, contextPc = "built"
  PROVE  Context!ShownExactlyOnce
<1>1. /\ \A i \in DOMAIN bundle :
           /\ bundle[i].chunk \in selected
           /\ bundle[i].first = Context!FirstShown(bundle[i].chunk, selected)
      /\ \A i, j \in DOMAIN bundle : bundle[i].chunk = bundle[j].chunk => i = j
      /\ \A c \in selected : \E i \in DOMAIN bundle : bundle[i].chunk = c
      /\ selected \in SUBSET Context!Chunks
  BY SegmentsSelected
<1>2. \A i \in DOMAIN bundle :
        Context!Shows(bundle[i])
          = Context!FirstShown(bundle[i].chunk, selected) .. Context!Facts(bundle[i].chunk).last
  BY <1>1 DEF Context!Shows
<1>3. ASSUME NEW doc \in DOMAIN Layout, NEW i \in Context!Segments(doc),
             NEW j \in Context!Segments(doc), i # j
      PROVE  Context!Shows(bundle[i]) \cap Context!Shows(bundle[j]) = {}
  <2>1. /\ i \in DOMAIN bundle /\ j \in DOMAIN bundle
        /\ bundle[i].chunk[1] = bundle[j].chunk[1]
    BY DEF Context!Segments
  <2>2. bundle[i].chunk # bundle[j].chunk
    BY <1>1, <1>3, <2>1
  <2>3. /\ Context!Shows(bundle[i])
             = Context!FirstShown(bundle[i].chunk, selected)
                 .. Context!Facts(bundle[i].chunk).last
        /\ Context!Shows(bundle[j])
             = Context!FirstShown(bundle[j].chunk, selected)
                 .. Context!Facts(bundle[j].chunk).last
        /\ bundle[i].chunk \in selected /\ bundle[j].chunk \in selected
    BY <1>1, <1>2, <2>1
  <2>4. ASSUME NEW c \in selected, NEW d \in selected, c # d, c[1] = d[1]
        PROVE  (Context!FirstShown(c, selected) .. Context!Facts(c).last)
                 \cap (Context!FirstShown(d, selected) .. Context!Facts(d).last) = {}
    BY <1>1, <2>4, SegmentsDisjoint
  <2>5. (Context!FirstShown(bundle[i].chunk, selected) .. Context!Facts(bundle[i].chunk).last)
          \cap (Context!FirstShown(bundle[j].chunk, selected)
                  .. Context!Facts(bundle[j].chunk).last) = {}
    BY <2>1, <2>2, <2>3, <2>4
  <2> QED
    BY <2>3, <2>5
<1>4. ASSUME NEW doc \in DOMAIN Layout
      PROVE  UNION {Context!Shows(bundle[i]) : i \in Context!Segments(doc)}
               = UNION {Context!Facts(c).first .. Context!Facts(c).last :
                          c \in {x \in selected : x[1] = doc}}
  <2>1. ASSUME NEW i \in Context!Segments(doc), NEW k \in Context!Shows(bundle[i])
        PROVE  \E c \in {x \in selected : x[1] = doc} :
                  k \in Context!Facts(c).first .. Context!Facts(c).last
    <3> DEFINE c == bundle[i].chunk
    <3>1. i \in DOMAIN bundle /\ c[1] = doc /\ c \in selected
      BY <1>1 DEF Context!Segments
    <3>2. k \in Context!FirstShown(c, selected) .. Context!Facts(c).last
      BY <1>2, <2>1, <3>1
    <3>3. /\ Context!Facts(c).first <= Context!FirstShown(c, selected)
          /\ Context!FirstShown(c, selected) \in Nat
          /\ Context!Facts(c).first \in Nat /\ Context!Facts(c).last \in Nat
      BY <1>1, <3>1, ShownWithin, ChunksLie
    <3> HIDE DEF c
    <3>4. k \in Context!Facts(c).first .. Context!Facts(c).last
      BY <3>2, <3>3
    <3> QED
      BY <3>1, <3>4
  <2>2. ASSUME NEW c \in selected, c[1] = doc,
               NEW k \in Context!Facts(c).first .. Context!Facts(c).last
        PROVE  \E i \in Context!Segments(doc) : k \in Context!Shows(bundle[i])
    <3>1. PICK d \in selected : /\ d[1] = doc
                                /\ k \in Context!FirstShown(d, selected) .. Context!Facts(d).last
      BY <1>1, <2>2, TokensShown
    <3>2. PICK i \in DOMAIN bundle : bundle[i].chunk = d
      BY <1>1
    <3> QED
      BY <1>2, <3>1, <3>2 DEF Context!Segments
  <2>3. \A k : /\ k \in UNION {Context!Shows(bundle[i]) : i \in Context!Segments(doc)}
                 => k \in UNION {Context!Facts(c).first .. Context!Facts(c).last :
                                   c \in {x \in selected : x[1] = doc}}
               /\ k \in UNION {Context!Facts(c).first .. Context!Facts(c).last :
                                 c \in {x \in selected : x[1] = doc}}
                 => k \in UNION {Context!Shows(bundle[i]) : i \in Context!Segments(doc)}
    BY <2>1, <2>2
  <2> QED
    BY <2>3
<1> QED
  BY <1>3, <1>4 DEF Context!ShownExactlyOnce

\* The ranking is fair at every place.
LEMMA RankingFair ==
  ASSUME ContextInv
  PROVE  Context!RankingIsFair
<1>1. ASSUME contextPc # "fuse"
      PROVE  \A c, d \in Context!Hits :
               Context!Dominates(c, d) /\ d \in Context!ToSet(fused) =>
                 Context!RankIn(fused, c) \in 1 .. Context!RankIn(fused, d) - 1
  <2>1. Routed /\ Fused
    BY <1>1 DEF ContextInv
  <2> QED
    BY <2>1, FusedRank
<1>2. ASSUME contextPc \notin {"fuse", "rerank"}
      PROVE  \A c, d \in Context!ToSet(fused) :
               d \in Context!ToSet(results) /\ score[c] > score[d] =>
                 Context!RankIn(results, c) \in 1 .. Context!RankIn(results, d) - 1
  <2>1. Routed /\ Fused /\ Reranked
    BY <1>2 DEF ContextInv
  <2> QED
    BY <2>1, ResultsRank, ContextOperators
<1> QED
  BY <1>1, <1>2 DEF Context!RankingIsFair

\* The invariant says what the Context promises.
LEMMA InvFaithful ==
  ASSUME ContextInv
  PROVE  Context!ContextIsFaithful
<1>1. ASSUME contextPc \in {"built", "refused"}
      PROVE  Context!WithinBudget(selected) /\ Context!BestAnchorShown
  <2>1. contextPc = "built" /\ SelectedInv
    BY <1>1 DEF ContextInv
  <2> QED
    BY <2>1 DEF SelectedInv, Context!BestAnchorShown
<1>2. contextPc \in {"built", "refused"} => Context!ShownExactlyOnce
  BY BuiltShowsOnce DEF ContextInv
<1> QED
  BY <1>1, <1>2, RankingFair DEF Context!ContextIsFaithful

\* The inductive core of a search's Context, of ContextBuilding by itself: what is
\* ranked is the cut of a sorted set, and the builder never loses the best anchor.
THEOREM ContextInvariant == Context!Spec => []ContextInv
<1>1. ContextInv /\ [Context!Next]_Context!vars => ContextInv'
  BY ContextStep
<1> QED
  BY <1>1, ContextInit, PTL DEF Context!Spec

\* For every pair of routes, every score, every document and every budget that a
\* chunk fits into: what both routes rank before another chunk is not cut while the
\* other is kept, and the Context fits, shows each token of its chunks once and has
\* the text of the best anchor.
THEOREM ContextsAreFaithful == StageSpec => []ContextIsFaithful
<1> DEFINE Inv == stage = "context" => ContextInv
<1>1. StageInit => Inv
  BY ContextInit DEF StageInit
<1>2. Inv /\ [StageNext]_stageVars => Inv'
  <2> SUFFICES ASSUME Inv, [StageNext]_stageVars, stage' = "context" PROVE ContextInv'
    OBVIOUS
  <2>1. stage' = stage
    BY DEF StageNext, Works, Searches, ContextNext, AnswerNext, stageVars
  <2>2. [Context!Next]_Context!vars
    BY <2>1 DEF StageNext, Works, Searches, ContextNext, AnswerNext, stageVars,
                contextVars, Context!vars
  <2> QED
    BY <2>1, <2>2, ContextStep
<1>3. Inv => ContextIsFaithful
  BY InvFaithful DEF ContextIsFaithful
<1> QED
  BY <1>1, <1>2, <1>3, PTL DEF StageSpec

(***************************************************************************)
(* AnswerComposition: the inductive invariant.                             *)
(*                                                                         *)
(* AnswerIsSupported speaks of the stored rows.  It is decided when the    *)
(* answer is accepted, so it has to hold of the answer's own Evidence from *)
(* then on (Supports); and what is accepted can only be what was found     *)
(* because the labels stand for distinct Evidence of the results           *)
(* (LabelsInv), and because no result without references can be passed off *)
(* as one with Evidence (ResultsInv).                                      *)
(***************************************************************************)
Barren == {"failed", "no_evidence", "denied"}

ResultsInv ==
  /\ required \in [Composition!Tasks -> {0, 1}]
  /\ \A i \in DOMAIN workerResults :
        workerResults[i].outcome \in Barren => workerResults[i].evidence = <<>>
  /\ composePc \in {"compose", "number", "invoke"} =>
        DOMAIN workerResults = Composition!Tasks

LabelsInv ==
  composePc = "invoke" =>
     /\ IsInjective(candidates)
     /\ ToSet(candidates) \subseteq Composition!Known

\* AnswerIsSupported, of the Evidence the answer names.
Supports(evidence) ==
  /\ ToSet(evidence) \subseteq Composition!Known /\ IsInjective(evidence)
  /\ answer.by \in {"refusal", "failure"} => evidence = <<>> /\ answer.text = <<>>
  /\ answer.by = "composition" =>
        /\ ToSet(evidence) = {candidates[n] : n \in ToSet(answer.text)}
        /\ answer.outcome = "answered" =>
              \A t \in Composition!Tasks : required[t] > 0 =>
                 /\ workerResults[t].outcome \notin Barren
                 /\ ToSet(evidence) \cap ToSet(workerResults[t].evidence) # {}

AnswerInv ==
  /\ composePc \in {"finish", "done"} =>
        /\ Supports(answer.evidence)
        /\ answer.outcome = "system_error" => Supports(<<>>)
  /\ composePc = "done" =>
        rows = IF answer.outcome = "system_error" THEN <<>> ELSE answer.evidence

ComposedInv == ResultsInv /\ LabelsInv /\ AnswerInv

\* Nothing is in no Evidence.
LEMMA NoEvidence ==
  /\ ToSet(<<>>) = {} /\ IsInjective(<<>>)
BY DEF ToSet, IsInjective

\* The operators of sequences are the same on both sides of the instance.
LEMMA SameOperators ==
  ASSUME NEW s
  PROVE  /\ Composition!ToSet(s) = ToSet(s)
         /\ Composition!IsInjective(s) = IsInjective(s)
         /\ Composition!Cardinality(s) = Cardinality(s)
<1>1. Composition!Cardinality(s) = Cardinality(s)
  BY Zenon DEF Composition!Cardinality, Cardinality
<1> QED
  BY <1>1 DEF Composition!ToSet, ToSet, Composition!IsInjective, IsInjective


\* A refusal and a failure name no Evidence.
LEMMA EmptyAnswer ==
  ASSUME ComposedInv, NEW by \in {"refusal", "failure"}, NEW o,
         Composition!Ends(by, o, <<>>, <<>>),
         UNCHANGED <<required, workerResults>>
  PROVE  ComposedInv'
<1>1. /\ answer'.by = by /\ answer'.evidence = <<>> /\ answer'.text = <<>>
      /\ composePc' = "finish"
  BY DEF Composition!Ends
<1>2. ResultsInv' /\ LabelsInv'
  BY <1>1 DEF ComposedInv, ResultsInv, LabelsInv
<1>3. Supports(<<>>)'
  BY <1>1, NoEvidence DEF Supports
<1> QED
  BY <1>1, <1>2, <1>3 DEF ComposedInv, AnswerInv, Supports

\* The labels are given to Evidence of the results, to each a label of its own.
LEMMA LabelsGiven ==
  ASSUME ComposedInv, Composition!NumberEvidence
  PROVE  ComposedInv'
<1>1. PICK list \in Composition!Lists(Composition!Known, MaxLabels) :
        Composition!ToSet(list) = Composition!Known /\ candidates' = list
  BY DEF Composition!NumberEvidence
<1>2. IsInjective(list)
  BY <1>1, SameOperators DEF Composition!Lists
<1>3. /\ composePc = "number" /\ composePc' = "invoke"
      /\ UNCHANGED <<required, workerResults, answer>>
  BY DEF Composition!NumberEvidence, Composition!input
<1>4. Composition!Known' = Composition!Known
  BY <1>3 DEF Composition!Known
<1>5. LabelsInv'
  BY <1>1, <1>2, <1>4, SameOperators DEF LabelsInv
<1> QED
  BY <1>3, <1>5 DEF ComposedInv, ResultsInv, AnswerInv

\* Evidence by distinct labels is found and distinct.
LEMMA LabelledEvidence ==
  ASSUME IsInjective(candidates), NEW labels, IsInjective(labels),
         ToSet(labels) \subseteq DOMAIN candidates
  PROVE  /\ IsInjective(Composition!EvidenceOf(labels))
         /\ ToSet(Composition!EvidenceOf(labels)) = {candidates[n] : n \in ToSet(labels)}
         /\ ToSet(Composition!EvidenceOf(labels)) \subseteq ToSet(candidates)
<1>1. \A k \in DOMAIN labels : labels[k] \in DOMAIN candidates
  BY DEF ToSet
<1>2. IsInjective(Composition!EvidenceOf(labels))
  BY <1>1 DEF IsInjective, Composition!EvidenceOf
<1>3. ToSet(Composition!EvidenceOf(labels)) = {candidates[n] : n \in ToSet(labels)}
  BY DEF ToSet, Composition!EvidenceOf
<1> QED
  BY <1>2, <1>3 DEF ToSet

\* What the checks of the composed answer let pass is supported.
LEMMA AcceptedIsSupported ==
  ASSUME ComposedInv, Composition!Accepted
  PROVE  ComposedInv'
<1>1. PICK out \in Composition!Outputs :
        /\ Composition!ValidCitations(out) /\ Composition!Supported(out)
        /\ Composition!Ends("composition", out.outcome,
                            Composition!EvidenceOf(out.labels), out.text)
  BY DEF Composition!Accepted
<1>2. /\ composePc = "invoke" /\ composePc' = "finish"
      /\ UNCHANGED <<required, workerResults, candidates, rows>>
  BY <1>1 DEF Composition!Accepted, Composition!input, Composition!Ends
<1>3. PICK e : e = Composition!EvidenceOf(out.labels)
  OBVIOUS
<1>4. /\ answer'.by = "composition" /\ answer'.outcome = out.outcome
      /\ answer'.evidence = e /\ answer'.text = out.text
  BY <1>1, <1>3 DEF Composition!Ends
<1>5. IsInjective(out.labels) /\ ToSet(out.labels) \subseteq DOMAIN candidates
  <2>1. IsInjective(out.labels)
    BY <1>1, NoEvidence, SameOperators DEF Composition!Outputs, Composition!Lists
  <2> QED
    BY <1>1, <2>1, SameOperators DEF Composition!ValidCitations
<1>6. ToSet(out.labels) = ToSet(out.text)
  <2>1. CASE out.outcome \in {"answered", "partial"}
    BY <1>1, <2>1, SameOperators DEF Composition!ValidCitations, Composition!AreMentions
  <2>2. CASE out.outcome \notin {"answered", "partial"}
    BY <1>1, <2>2 DEF Composition!ValidCitations
  <2> QED
    BY <2>1, <2>2
<1>7. /\ IsInjective(e) /\ ToSet(e) \subseteq Composition!Known
      /\ ToSet(e) = {candidates[n] : n \in ToSet(out.text)}
  BY <1>2, <1>3, <1>5, <1>6, LabelledEvidence DEF ComposedInv, LabelsInv
<1>8. ASSUME out.outcome = "answered", NEW t \in Composition!Tasks, required[t] > 0
      PROVE  /\ workerResults[t].outcome \notin Barren
             /\ ToSet(e) \cap ToSet(workerResults[t].evidence) # {}
  <2>1. Cardinality(ToSet(e) \cap ToSet(workerResults[t].evidence)) >= required[t]
    <3>1. Composition!Cardinality(Composition!ToSet(e)
                                    \cap Composition!ToSet(workerResults[t].evidence))
            >= required[t]
      BY <1>1, <1>3, <1>8 DEF Composition!Supported
    <3>2. /\ Composition!ToSet(e) = ToSet(e)
          /\ Composition!ToSet(workerResults[t].evidence) = ToSet(workerResults[t].evidence)
      BY SameOperators
    <3>3. Composition!Cardinality(ToSet(e) \cap ToSet(workerResults[t].evidence))
            = Cardinality(ToSet(e) \cap ToSet(workerResults[t].evidence))
      BY SameOperators
    <3> QED
      BY <3>1, <3>2, <3>3
  <2>2. ToSet(e) \cap ToSet(workerResults[t].evidence) # {}
    <3>1. required[t] \in Nat
      BY DEF ComposedInv, ResultsInv
    <3>2. Cardinality({}) = 0
      BY FS_EmptySet
    <3> QED
      BY <1>8, <2>1, <3>1, <3>2
  <2>3. t \in DOMAIN workerResults
    BY <1>2 DEF ComposedInv, ResultsInv
  <2> QED
    BY <2>2, <2>3, NoEvidence DEF ComposedInv, ResultsInv
<1>9. Supports(answer.evidence)'
  <2>1. Composition!Known' = Composition!Known
    BY <1>2 DEF Composition!Known
  <2> QED
    BY <1>2, <1>4, <1>7, <1>8, <2>1 DEF Supports
<1>10. answer'.outcome = "system_error" => Supports(<<>>)'
  <2>1. CASE out.outcome = "system_error"
    <3>1. out.text = <<>>
      BY <1>1, <2>1 DEF Composition!ValidCitations
    <3> QED
      BY <1>4, <2>1, <3>1, NoEvidence DEF Supports
  <2> QED
    BY <1>4, <2>1
<1> QED
  BY <1>2, <1>9, <1>10 DEF ComposedInv, ResultsInv, LabelsInv, AnswerInv

\* A decision that finishes the run names Evidence of earlier tasks.
LEMMA DecisionIsSupported ==
  ASSUME ComposedInv, Composition!DecideFinish
  PROVE  ComposedInv'
<1>1. PICK o \in {"answered", "partial", "no_evidence"},
           e \in Composition!Lists(Composition!Known, 2), t \in Composition!Texts :
        Composition!Ends("decision", o, e, t)
  BY DEF Composition!DecideFinish
<1>2. /\ composePc' = "finish"
      /\ answer'.by = "decision" /\ answer'.outcome = o /\ answer'.evidence = e
      /\ UNCHANGED <<required, workerResults, candidates>>
  BY <1>1 DEF Composition!Ends, Composition!DecideFinish, Composition!input
<1>3. IsInjective(e) /\ ToSet(e) \subseteq Composition!Known
  <2>1. PICK m \in 0..2 : e \in [1..m -> Composition!Known]
    BY DEF Composition!Lists, Composition!SeqOf
  <2>2. ToSet(e) \subseteq Composition!Known
    BY <2>1 DEF ToSet
  <2> QED
    BY <2>2, SameOperators DEF Composition!Lists
<1>4. Composition!Known' = Composition!Known
  BY <1>2 DEF Composition!Known
<1> QED
  BY <1>2, <1>3, <1>4 DEF ComposedInv, ResultsInv, LabelsInv, AnswerInv, Supports

\* The rows are the Evidence of the answer.
LEMMA RowsStored ==
  ASSUME ComposedInv, Composition!FinishRoot
  PROVE  ComposedInv'
<1>1. /\ composePc = "finish" /\ composePc' = "done"
      /\ rows' = IF answer.outcome = "system_error" THEN <<>> ELSE answer.evidence
      /\ UNCHANGED <<required, workerResults, candidates, answer>>
  BY DEF Composition!FinishRoot, Composition!input
<1>2. Composition!Known' = Composition!Known
  BY <1>1 DEF Composition!Known
<1> QED
  BY <1>1, <1>2 DEF ComposedInv, ResultsInv, LabelsInv, AnswerInv, Supports


\* The first call changes nothing an answer rests on, and only a run with the
\* results of all its tasks is asked for one.
LEMMA Composing ==
  ASSUME ComposedInv, Composition!FirstCall
  PROVE  ComposedInv'
BY DEF Composition!FirstCall, Composition!input, ComposedInv, ResultsInv, LabelsInv,
       AnswerInv

\* Every step of AnswerComposition.
LEMMA ComposeStep ==
  ASSUME ComposedInv, [Composition!Next]_Composition!vars
  PROVE  ComposedInv'
<1>1. CASE UNCHANGED Composition!vars
  BY <1>1 DEF Composition!vars, Composition!input, ComposedInv, ResultsInv, LabelsInv,
              AnswerInv, Supports, Composition!Known
<1>2. CASE Composition!RefuseWithoutEvidence
  <2>1. PICK o \in {"no_evidence", "unsupported"} :
          Composition!Ends("refusal", o, <<>>, <<>>)
    BY <1>2 DEF Composition!RefuseWithoutEvidence
  <2> QED
    BY <1>2, <2>1, EmptyAnswer DEF Composition!RefuseWithoutEvidence, Composition!input
<1>3. CASE \/ Composition!NoFirstCall \/ Composition!InputRefused
           \/ Composition!NotAccepted \/ Composition!DecideRefused
  <2>1. Composition!Fails
    BY <1>3 DEF Composition!NoFirstCall, Composition!InputRefused,
                Composition!NotAccepted, Composition!DecideRefused
  <2> QED
    BY <2>1, EmptyAnswer DEF Composition!Fails, Composition!input
<1>4. CASE Composition!FirstCall
  BY <1>4, Composing
<1>5. CASE Composition!Repair
  BY <1>5 DEF Composition!Repair, Composition!input, ComposedInv, ResultsInv, LabelsInv,
              AnswerInv, Composition!Known
<1>6. CASE \/ Composition!NumberEvidence \/ Composition!Accepted
           \/ Composition!DecideFinish \/ Composition!FinishRoot
  BY <1>6, LabelsGiven, AcceptedIsSupported, DecisionIsSupported, RowsStored
<1> QED
  BY <1>1, <1>2, <1>3, <1>4, <1>5, <1>6 DEF Composition!Next, Composition!Compose

\* At first there are results and nothing else.
LEMMA ComposeInit ==
  ASSUME Composition!Init
  PROVE  ComposedInv
<1>1. ASSUME NEW task \in Composition!Tasks, NEW r \in Composition!ResultsOf(task),
             r.outcome \in Barren
      PROVE  r.evidence = <<>>
  BY <1>1 DEF Composition!ResultsOf, Composition!Result, Barren
<1>2. \A i \in DOMAIN workerResults :
        \E task \in Composition!Tasks : workerResults[i] \in Composition!ResultsOf(task)
  <2>1. CASE composePc = "compose"
    BY <2>1 DEF Composition!Init
  <2>2. CASE composePc = "decide"
    <3>1. DOMAIN workerResults = 1..(TaskCount - 1)
      BY <2>2 DEF Composition!Init
    <3> QED
      BY <2>2, <3>1 DEF Composition!Init
  <2> QED
    BY <2>1, <2>2 DEF Composition!Init
<1>3. composePc = "compose" => DOMAIN workerResults = Composition!Tasks
  BY DEF Composition!Init
<1> QED
  BY <1>1, <1>2, <1>3 DEF Composition!Init, ComposedInv, ResultsInv, LabelsInv, AnswerInv

\* Whatever the workers found, the model wrote and the repair mended: a stored
\* answer names Evidence that was found, exactly what its text cites, and all
\* that its tasks require.
THEOREM AnswersAreSupported == StageSpec => []AnswerIsSupported
<1> DEFINE Inv == stage = "answer" => ComposedInv
<1>1. StageInit => Inv
  BY ComposeInit DEF StageInit
<1>2. Inv /\ [StageNext]_stageVars => Inv'
  <2> SUFFICES ASSUME Inv, [StageNext]_stageVars, stage' = "answer" PROVE ComposedInv'
    OBVIOUS
  <2>1. stage' = stage
    BY DEF StageNext, Works, Searches, ContextNext, AnswerNext, stageVars
  <2>2. [Composition!Next]_Composition!vars
    BY <2>1 DEF StageNext, Works, Searches, ContextNext, AnswerNext, stageVars,
                answerVars, Composition!vars, Composition!input
  <2> QED
    BY <2>1, <2>2, ComposeStep
<1>3. Inv => AnswerIsSupported
  <2> SUFFICES ASSUME Inv, stage = "answer", composePc = "done"
               PROVE  Composition!AnswerIsSupported
    BY DEF AnswerIsSupported, Composition!AnswerIsSupported, Composition!Stored
  <2>1. Supports(rows)
    BY DEF ComposedInv, AnswerInv
  <2> QED
    BY <2>1, SameOperators DEF Supports, Barren, Composition!AnswerIsSupported
<1> QED
  BY <1>1, <1>2, <1>3, PTL DEF StageSpec

=============================================================================
