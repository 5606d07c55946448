------------------------------ MODULE WorkerCall ------------------------------
(***************************************************************************)
(* An attempt of WorkerLoop seen from the supervisor: the one call of      *)
(* WorkerRuntime.invoke that SupervisorGraph has running meanwhile         *)
(* (app/agents/runtime/worker.py).  All that the supervisor sees of it is  *)
(* that the call ends, with which outcome, and whether what the result     *)
(* refers to has been committed.                                           *)
(***************************************************************************)
EXTENDS WorkerLoop

(* "unsupported" stands for no_evidence too, "system_error" for timed_out. *)
CalledOutcome ==
    CASE result.status = "waiting_user"    -> "asked"
      [] result.status = "failed"          -> "system_error"
      [] result.status = "completed"       ->
            IF result.outcome = "no_evidence" THEN "unsupported" ELSE result.outcome

CallResult == [outcome |-> CalledOutcome, evidence |-> result.evidence # {}]

(* The only task of a plan is the attempt's; a process that dies leaves    *)
(* its call without an end.                                                *)
callOf ==
    [t \in 1..1 |-> IF Ended THEN [at |-> "ended", result |-> CallResult]
                             ELSE [at |-> "running", result |-> None]]

(* What the result refers to can be read by others.                        *)
Stored == result.evidence \subseteq Held \cup {p[1] : p \in committed}
backed == IF Ended /\ result.evidence # {} /\ Stored THEN {1} ELSE {}

Supervisor == INSTANCE SupervisorGraph WITH
    MaxTasks <- 1, Workers <- {"worker"}, Plans <- {}, MaxDecisions <- 1,
    MaxParallel <- 1, MaxResumes <- 0,
    pc <- "invoke", graph <- None, calls <- callOf, board <- None, rows <- None,
    evidence <- backed, root <- "running", resumes <- 0, replans <- 0

(* The attempt implements the supervisor's call: whatever happens within   *)
(* it, the supervisor sees nothing until the call ends once with a result  *)
(* it knows, which refers to Evidence exactly when that was committed, has *)
(* the status record_worker_result will write into the row, and refers to  *)
(* nothing that was rolled back, to Evidence only in an answer.            *)
AttemptIsCall ==
    [][ /\ Supervisor!CallTimesOut(1) \/ \E r \in Supervisor!Result : Supervisor!CallEnds(1, r)
        /\ result'.status = Supervisor!StatusOf(CallResult')
        /\ ReferencesAreStored'
      ]_<<callOf, backed>>
===============================================================================
