--------------------------- MODULE MCServerProcesses ---------------------------
(***************************************************************************)
(* Work that several server processes do on the same rows, with nothing    *)
(* but the database between them: two calls index the versions of a        *)
(* document, in processes set up with one or two embedding identities, or  *)
(* two processes run the requests of a thread.  The two share no state, so *)
(* an execution of this instance is an execution of one of them.           *)
(***************************************************************************)
EXTENDS DocumentIndexing, TLC

CONSTANTS Requests, Handlers, Processes, Roots, Plans, DirectPlans,
          MaxResumes, MaxAttempts, MaxCrashes

VARIABLES
  stage,                                            \* the one that runs
  roots, boards, log, granted, handlers, loop,      \* AgentGateway
  delivered, attempts, crashes

gatewayVars == <<roots, boards, log, granted, handlers, loop, delivered,
                 attempts, crashes>>

\* Each handler has a process to itself.
ProcessOf == CHOOSE f \in [Handlers -> Processes] :
                \A g, h \in Handlers : f[g] = f[h] => g = h

Gateway == INSTANCE AgentGateway

AnyOne == Permutations(Calls) \cup Permutations(Identities)
            \cup Permutations(Requests) \cup Permutations(Roots)

StageInit == stage \in {"documents", "thread"} /\ Init /\ Gateway!Init

Indexes == stage = "documents" /\ Next /\ UNCHANGED <<stage, gatewayVars>>

Converses == stage = "thread" /\ Gateway!Next /\ UNCHANGED <<stage, vars>>

StageSpec == StageInit /\ [][Indexes \/ Converses]_<<stage, vars, gatewayVars>>

\* An ended root stays ended, whichever process still works on its requests.
EndedStaysEnded == Gateway!EndedStaysEnded
================================================================================
