-------------------------- MODULE AnswerComposition --------------------------
(***************************************************************************)
(* From the worker results of a root run to its stored answer: the labels  *)
(* [E1], [E2], ... given to the candidate Evidence (llm/agent_evidence.py),*)
(* the model's answer with one repair (llm/agent_structured.py) that each  *)
(* reserve a model call (agents/runtime/provider.py), the checks of the    *)
(* graph (compose_answer, _validate_final_answer) and the rows written     *)
(* with the final transaction (_finish_root, save_answer_evidence).        *)
(*                                                                         *)
(* An answer's text is the sequence of labels in it.  Odd stands for       *)
(* something that looks like a label and is none; a number beyond the      *)
(* candidates is a label that was never given.                             *)
(***************************************************************************)
EXTENDS Naturals, SequencesExt, FiniteSets

CONSTANTS
    Evidence,
    TaskCount,      \* tasks of the plan
    MaxLabels,      \* MAX_EVIDENCE_IDS
    MaxText,        \* bound of the model: labels in a text
    MaxModelCalls   \* bound of the model: calls the root may still reserve

VARIABLES
    required,       \* evidence_requirement.minimum_count of each task
    results,        \* worker_results, in the order of their tasks
    capacity,       \* model calls left to the root, by number and by time
    pc,
    candidates,     \* AnswerEvidenceSet: candidates[n] is what [En] stands for
    attempt,        \* attempts of the answer prompt begun
    answer,         \* what the run ends with
    rows            \* agent_answer_evidences: rows[n] has citation_ordinal n

input == <<required, results>>
vars == <<input, capacity, pc, candidates, attempt, answer, rows>>

Tasks == 1..TaskCount
Labels == 1..MaxLabels
Odd == 0

\* Sequences without repetition.
Lists(S, n) == {s \in SeqOf(S, n) : IsInjective(s)}

NoAnswer == [by |-> "nobody", outcome |-> "none", evidence |-> <<>>, text |-> <<>>]

-----------------------------------------------------------------------------
(* Results a graph may hold when it composes.  A failed task's result has  *)
(* no references; Evidence of an earlier task may come back in a later one *)
(* that opened it.                                                         *)

Result(outcome, evidence) == [outcome |-> outcome, evidence |-> evidence]

\* _validate_worker_result, and what workers can return.
ResultsOf(task) ==
    {Result("answered", e) : e \in {x \in Lists(Evidence, 2) : Len(x) >= required[task]}}
    \cup {Result("partial", e) : e \in Lists(Evidence, 2)}
    \cup {Result(o, <<>>) : o \in {"no_evidence", "unsupported", "denied", "failed"}}

Known == UNION {ToSet(results[i].evidence) : i \in DOMAIN results}

Init ==
    /\ required \in [Tasks -> {0, 1}]
    /\ \/ pc = "compose" /\ results \in {r \in [Tasks -> UNION {ResultsOf(t) : t \in Tasks}] :
                                           \A t \in Tasks : r[t] \in ResultsOf(t)}
       \* another decision is due: the last task has no result yet
       \/ pc = "decide" /\ results \in {r \in [1..(TaskCount - 1) ->
                                                 UNION {ResultsOf(t) : t \in Tasks}] :
                                          \A t \in DOMAIN r : r[t] \in ResultsOf(t)}
    /\ capacity \in 0..MaxModelCalls
    /\ candidates = <<>>
    /\ attempt = 0
    /\ answer = NoAnswer
    /\ rows = <<>>

-----------------------------------------------------------------------------
\* The budget tree refuses when no call or no time is left.
ReserveModelCall ==
    /\ capacity > 0
    /\ capacity' = capacity - 1

\* _terminal_action_update
Ends(by, outcome, evidence, text) ==
    /\ answer' = [by |-> by, outcome |-> outcome, evidence |-> evidence, text |-> text]
    /\ pc' = "finish"

\* _failure_update
Fails ==
    /\ Ends("failure", "system_error", <<>>, <<>>)
    /\ UNCHANGED <<input, capacity, candidates, attempt, rows>>

\* _worker_evidence_refusal: nothing was found, so no model is asked.
NothingFound ==
    /\ results # <<>>
    /\ \A i \in DOMAIN results : results[i].outcome \in {"no_evidence", "unsupported"}

RefuseWithoutEvidence ==
    /\ pc = "compose" /\ NothingFound
    /\ \E o \in {"no_evidence", "unsupported"} :
          /\ (o = "unsupported") <=> \E i \in DOMAIN results : results[i].outcome = o
          /\ Ends("refusal", o, <<>>, <<>>)
    /\ UNCHANGED <<input, capacity, candidates, attempt, rows>>

\* AnswerRequest is too large, or there is no budget for the first call.
NoFirstCall ==
    /\ pc = "compose" /\ ~NothingFound
    /\ Fails

FirstCall ==
    /\ pc = "compose" /\ ~NothingFound
    /\ ReserveModelCall
    /\ attempt' = 1 /\ pc' = "number"
    /\ UNCHANGED <<input, candidates, answer, rows>>

\* build_answer_evidence_set: each Evidence has one label, in order.
References == UNION {{i} \X DOMAIN results[i].evidence : i \in DOMAIN results}
Referred(p) == results[p[1]].evidence[p[2]]
Before(p, q) == p[1] < q[1] \/ (p[1] = q[1] /\ p[2] < q[2])

Numberable ==
    Cardinality(References) = Cardinality(Known) /\ Cardinality(Known) <= MaxLabels

InOrder(list) ==
    \A p, q \in References : Before(p, q) =>
       \E m, n \in DOMAIN list : m < n /\ list[m] = Referred(p) /\ list[n] = Referred(q)

NumberEvidence ==
    /\ pc = "number" /\ Numberable
    /\ \E list \in Lists(Known, MaxLabels) :
          /\ ToSet(list) = Known /\ InOrder(list)
          /\ candidates' = list
    /\ pc' = "invoke"
    /\ UNCHANGED <<input, capacity, attempt, answer, rows>>

\* answer_input_contract, which no repair can mend
InputRefused ==
    /\ pc = "number" /\ ~Numberable
    /\ Fails

-----------------------------------------------------------------------------
(* What the model may answer: a finish with a text and the labels it       *)
(* claims to cite, or a refusal with a text; "system_error" stands for     *)
(* timed_out as well.                                                      *)

Texts == SeqOf(Labels \cup {Odd}, MaxText)

Outputs ==
    [type : {"finish"}, outcome : {"answered", "partial", "no_evidence"},
     text : Texts, labels : Lists(Labels, 2)]
    \cup
    [type : {"cannot"}, outcome : {"no_evidence", "unsupported", "denied", "system_error"},
     text : Texts, labels : {<<>>}]

\* dict.fromkeys: the labels of a text in the order of their first mention.
AreMentions(labels, text) ==
    /\ IsInjective(labels) /\ ToSet(labels) = ToSet(text)
    /\ \A j, k \in DOMAIN labels : j < k =>
          \E i \in DOMAIN text : text[i] = labels[j] /\ labels[k] \notin ToSet(SubSeq(text, 1, i))

\* evidence_id_for_label for the claimed labels, and validate_answer_citations.
ValidCitations(out) ==
    /\ Odd \notin ToSet(out.text)
    /\ ToSet(out.labels) \subseteq DOMAIN candidates
    /\ out.outcome \in {"answered", "partial"} => AreMentions(out.labels, out.text)
    /\ out.outcome \notin {"answered", "partial"} => out.text = <<>> /\ out.labels = <<>>
    /\ out.outcome = "answered" /\ candidates # <<>> => out.labels # <<>>

EvidenceOf(labels) == [k \in DOMAIN labels |-> candidates[labels[k]]]

\* _validate_final_answer: an answered answer has what each task requires.
Supported_CompletedTasks(out) ==
    out.outcome = "answered" =>
       \A t \in Tasks :
          results[t].outcome = "failed" \/
          Cardinality(ToSet(EvidenceOf(out.labels)) \cap ToSet(results[t].evidence))
             >= required[t]
Supported(out) ==
    out.outcome = "answered" =>
       \A t \in Tasks :
          Cardinality(ToSet(EvidenceOf(out.labels)) \cap ToSet(results[t].evidence))
             >= required[t]

Accepted ==
    /\ pc = "invoke"
    /\ \E out \in Outputs :
          /\ ValidCitations(out) /\ Supported(out)
          /\ Ends("composition", out.outcome, EvidenceOf(out.labels), out.text)
    /\ UNCHANGED <<input, capacity, candidates, attempt, rows>>

\* The graph does not ask again for an answer it does not accept; neither does
\* the provider for a broken envelope, a timeout or an unavailable service.
NotAccepted ==
    /\ pc = "invoke"
    /\ Fails

\* An output that is no JSON, breaks the schema or cites wrongly is asked for
\* once more, if the budget has a call for it.
Repair ==
    /\ pc = "invoke" /\ attempt = 1
    /\ ReserveModelCall
    /\ attempt' = 2
    /\ UNCHANGED <<input, pc, candidates, answer, rows>>

-----------------------------------------------------------------------------
(* A decision may finish the run in place of delegating the last task      *)
(* (validate_decision_response); its text is not looked at.                *)

DecideFinish ==
    /\ pc = "decide" /\ ReserveModelCall
    /\ \E o \in {"answered", "partial", "no_evidence"}, e \in Lists(Known, 2), t \in Texts :
          /\ o = "answered" => Len(e) >= required[TaskCount]
          /\ Ends("decision", o, e, t)
    /\ UNCHANGED <<input, candidates, attempt, rows>>

\* No budget for the decision, or a decision that is not accepted.
DecideRefused ==
    /\ pc = "decide"
    /\ Fails

\* _finish_root: a completed run's Evidence, numbered from 1.
FinishRoot ==
    /\ pc = "finish"
    /\ pc' = "done"
    /\ rows' = IF answer.outcome = "system_error" THEN <<>> ELSE answer.evidence
    /\ UNCHANGED <<input, capacity, candidates, attempt, answer>>

Compose ==
    \/ RefuseWithoutEvidence \/ NoFirstCall \/ FirstCall \/ NumberEvidence \/ InputRefused
    \/ Accepted \/ NotAccepted \/ Repair

Next == Compose \/ DecideFinish \/ DecideRefused \/ FinishRoot

Spec == Init /\ [][Next]_vars

-----------------------------------------------------------------------------
Stored == pc = "done"

\* The Evidence a stored answer names was found by its workers, and a refusal
\* or a failure names none.  A composed answer names what its text cites, each
\* once; when it says "answered", no task that requires Evidence has failed or
\* is without it, whatever the model wrote in the first or the second attempt.
AnswerIsSupported ==
    Stored =>
       /\ ToSet(rows) \subseteq Known /\ IsInjective(rows)
       /\ answer.by \in {"refusal", "failure"} => rows = <<>> /\ answer.text = <<>>
       /\ answer.by = "composition" =>
             /\ ToSet(rows) = {candidates[n] : n \in ToSet(answer.text)}
             /\ answer.outcome = "answered" =>
                   \A t \in Tasks : required[t] > 0 =>
                      /\ results[t].outcome \notin {"failed", "no_evidence", "denied"}
                      /\ ToSet(rows) \cap ToSet(results[t].evidence) # {}

\* A final answer's rows are the mapping from its labels to Evidence
\* (models/runtime.py, AgentAnswerEvidence): the row that has the number of a
\* label in the text names the Evidence the label stood for.
LabelsMatchRows ==
    Stored /\ answer.by = "composition" =>
       \A n \in ToSet(answer.text) : n \in DOMAIN rows /\ rows[n] = candidates[n]
===============================================================================
