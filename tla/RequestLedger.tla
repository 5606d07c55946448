--------------------------- MODULE RequestLedger ---------------------------
(***************************************************************************)
(* What the gateway promises to the client of one thread (docstring of     *)
(* AgentGateway.run: "Start, resume, or replay exactly one trusted         *)
(* conversation request"): a request id is executed once, one request is   *)
(* executed at a time, every response to a request is made from the same   *)
(* answer, and an answer that was withdrawn is never given again.          *)
(***************************************************************************)
EXTENDS FiniteSets

CONSTANTS
  Requests,  \* request ids
  Answers    \* identities of answers

VARIABLES
  ledger,    \* request id -> how far it is
  answers    \* request id -> the answers its responses were made from

ledgerVars == <<ledger, answers>>

Phases == {"new", "executing", "answered", "failed", "denied"}

Init ==
  /\ ledger = [r \in Requests |-> "new"]
  /\ answers = [r \in Requests |-> {}]

Accept(r) ==
  /\ ledger[r] = "new"
  /\ \A q \in Requests : ledger[q] # "executing"
  /\ ledger' = [ledger EXCEPT ![r] = "executing"]
  /\ UNCHANGED answers

Answer(r, a) ==
  /\ ledger[r] = "executing"
  /\ ledger' = [ledger EXCEPT ![r] = "answered"]
  /\ answers' = [answers EXCEPT ![r] = {a}]

Fail(r) ==
  /\ ledger[r] = "executing"
  /\ \E phase \in {"failed", "denied"} : ledger' = [ledger EXCEPT ![r] = phase]
  /\ UNCHANGED answers

Withdraw(r) ==
  /\ ledger[r] = "answered"
  /\ ledger' = [ledger EXCEPT ![r] = "denied"]
  /\ UNCHANGED answers

Next ==
  \E r \in Requests :
    Accept(r) \/ (\E a \in Answers : Answer(r, a)) \/ Fail(r) \/ Withdraw(r)

Spec == Init /\ [][Next]_ledgerVars
=============================================================================
