-------------------------- MODULE MCMessageRequest --------------------------
(***************************************************************************)
(* The gateway and the HTTP calls around it, side by side: MessageRequest  *)
(* sees of the gateway only the ledger that AgentGateway implements, so an *)
(* execution of this instance is an execution of one while the other stays *)
(* idle.                                                                   *)
(***************************************************************************)
EXTENDS AgentGateway

CONSTANTS
  p1, p2, remote,
  Calls, CallProcesses, CallProcessOf, PoolSize, MaxCalls, MaxCallCrashes

VARIABLES
  stage,                                                       \* the one that runs
  ledger, answers, stored, call, turn, replied, started, died  \* MessageRequest

callVars == <<ledger, answers, stored, call, turn, replied, started, died>>

\* One call is served by another process than all others.
OneProcess == [h \in Handlers |-> p1]
OneRemote == [c \in Calls |-> IF c = remote THEN p2 ELSE p1]

Http == INSTANCE MessageRequest WITH
  Processes <- CallProcesses,
  ProcessOf <- CallProcessOf,
  MaxCrashes <- MaxCallCrashes,
  crashes <- died

---------------------------------------------------------------------------
\* The variables of a stage that does not run.
IdleGateway ==
  /\ roots = [i \in Roots |-> "absent"] /\ boards = None /\ log = None
  /\ granted = None /\ handlers = None /\ loop = None /\ delivered = None
  /\ attempts = None /\ crashes = None

IdleCalls ==
  /\ ledger = None /\ answers = None /\ stored = None
  /\ call = [c \in Calls |-> [pc |-> "idle"]]
  /\ turn = None /\ replied = None /\ started = None /\ died = None

StageInit ==
  \/ stage = "gateway" /\ Init /\ IdleCalls
  \/ stage = "calls" /\ Http!Init /\ IdleGateway

Inside == stage = "gateway" /\ UNCHANGED <<stage, callVars>>
Around == stage = "calls" /\ UNCHANGED <<stage, vars>>

StageNext == (Inside /\ Next) \/ (Around /\ Http!Next)

stageVars == <<stage, vars, callVars>>

\* The fairness of AgentGateway and of MessageRequest.
StageSpec ==
  /\ StageInit /\ [][StageNext]_stageVars
  /\ \A h \in Handlers : WF_stageVars(Inside /\ (Run(h) \/ Supervise(h)))
  /\ \A c \in Calls : WF_stageVars(Around /\ Http!Steps(c))

---------------------------------------------------------------------------
\* The thread's messages agree with the gateway's answers and the responses.
ThreadMatchesLedger == stage = "calls" => Http!ThreadMatchesLedger

\* A call returns.
CallReturns == Http!CallReturns
===========================================================================
