------------------------ MODULE SupervisorGraphProofs ------------------------
(***************************************************************************)
(* Proofs about SupervisorGraph for every set of plans, workers and every  *)
(* number of tasks, decisions and resumes: type correctness, that a task   *)
(* starts after its dependencies, that no worker runs on unattended, that  *)
(* the graph's results agree with the rows and with the committed          *)
(* evidence, that a completed task is not run again, and that nothing but  *)
(* a refusal can be lost.                                                  *)
(***************************************************************************)
EXTENDS SupervisorGraph, FiniteSums, TLAPS

(***************************************************************************)
(* The inductive invariant.  Each part says how two of the graph's state,  *)
(* the calls, the board and the rows agree.                                *)
(***************************************************************************)
Active == Status \ Terminal

\* The graph's plan is the board, and its tasks are those that have a status.
PlanInv ==
  /\ graph.plan = board
  /\ \A t \in Tasks : graph.status[t] # None => board # None
  /\ board # None => \A t \in Tasks : graph.status[t] # None <=> t <= board.size

\* A row that is not of the plan is empty.
EmptyInv ==
  \A t \in Tasks : graph.status[t] = None =>
    /\ rows[t].status = None /\ rows[t].outcome = None /\ rows[t].result = None
    /\ graph.results[t] = None

\* The tasks of the batch are running and have a call, no others.
BatchInv ==
  /\ \A t \in Tasks : graph.status[t] = "running" <=> t \in graph.batch
  /\ graph.batch # {} => pc \in {"handoff", "invoke"}
  /\ \A t \in Tasks : calls[t].at # "none" <=> pc = "invoke" /\ t \in graph.batch
  /\ \A t \in Tasks : calls[t].at = "none" => calls[t].result = None

\* A call that has ended has a result; a returned one is in the row if it is
\* completed, and before that the row has no completed result.
CallsInv ==
  \A t \in Tasks :
    /\ calls[t].at \in {"ended", "returned", "raised"} => calls[t].result # None
    /\ calls[t].at \in {"invoked", "running", "ended", "raised"} =>
         ~Completed(rows[t].result)
    /\ calls[t].at = "returned" =>
         \/ rows[t].result = calls[t].result
         \/ calls[t].result = Failure /\ ~Completed(rows[t].result)
    /\ calls[t].result # None /\ calls[t].result.evidence => t \in evidence

\* The dependencies of the batch are completed.
DependenciesInv ==
  \A t \in graph.batch : \A d \in board.deps[t] : Completed(rows[d].result)

\* The graph may still decide something.
GoesOn == pc \notin {"ended", "lost"} /\ (pc = "settle" => graph.execution = "waiting_user")

\* The status of a task is the one of its result; a completed result is the row's.
Open(g, t) == g.results[t] = None \/ g.results[t].outcome = "asked"
Sound(g, t) ==
  /\ g.status[t] = "completed" => Completed(g.results[t])
  /\ g.status[t] = "failed" =>
       g.results[t] # None /\ g.results[t].outcome = "system_error"
  /\ g.status[t] \in Active => Open(g, t)
Agrees(t) ==
  /\ Sound(graph, t)
  /\ Completed(graph.results[t]) => rows[t].result = graph.results[t]
  /\ Completed(rows[t].result) =>
       rows[t].result = graph.results[t] \/ calls[t].at = "returned"
ResultsInv == GoesOn => \A t \in Tasks : Agrees(t)

\* The task that waits for the user, and the one a direct answer settles.
CurrentInv ==
  /\ pc = "paused" \/ (pc = "settle" /\ graph.execution = "waiting_user") =>
       graph.current \in Tasks /\ graph.status[graph.current] = "waiting_user"
  /\ pc = "answer" /\ graph.current \in Tasks =>
       graph.status[graph.current] \in Active

\* A task that may be started has not been started since the last resume.
Startable(t) ==
  /\ pc \in {"plan", "decide", "handoff", "invoke"}
  /\ graph.status[t] \in Active
  /\ calls[t].at \in {"none", "invoked"}
RunsInv ==
  \A t \in Tasks :
    /\ rows[t].runs <= resumes + 1
    /\ Startable(t) => rows[t].runs <= resumes

\* A plan is made only while there is no result.
ModeInv ==
  pc = "plan" /\ graph.mode # "continue" => \A t \in Tasks : graph.results[t] = None

\* The rows of a final state are allowed, but for a refusal's: a task that ended
\* without a result of its own has the state's outcome.
Allowed(g, t) ==
  /\ g.status[t] = "completed" =>
       Completed(g.results[t]) \/ (Open(g, t) /\ g.outcome \in Outcomes \ {"system_error"})
  /\ g.status[t] = "failed" =>
       \/ g.results[t] # None /\ g.results[t].outcome = "system_error"
       \/ Open(g, t) /\ g.outcome = "system_error"
  /\ g.status[t] \in Active => Open(g, t)
Refused(g) == g.execution = "completed" /\ g.outcome \in RefusalOutcomes
SettledInv ==
  /\ pc = "settle" => Refused(graph) \/ \A t \in Tasks : Allowed(graph, t)
  /\ OnlyRefusalsLost

\* After the graph has returned no row is running.
QuietInv ==
  pc \in {"paused", "ended"} => \A t \in Tasks : rows[t].status # "running"

GraphInv ==
  /\ TypeOK
  /\ PlanInv /\ EmptyInv /\ BatchInv /\ CallsInv /\ DependenciesInv
  /\ ResultsInv /\ CurrentInv /\ RunsInv /\ ModeInv /\ SettledInv /\ QuietInv
  /\ ReferencesCommitted

-----------------------------------------------------------------------------
(***************************************************************************)
(* Facts about the operators.                                              *)
(***************************************************************************)

\* A value of a row or of the graph is not None when it is a result or a status.
LEMMA NoneFacts ==
  /\ None \notin Plans /\ None \notin Result /\ None \notin Status
  /\ None \notin Outcomes /\ None \notin Tasks /\ None # 0
  /\ Failure \in Result
<1>1. None \notin Plans /\ None \notin Result /\ None \notin Status
      /\ None \notin Outcomes /\ None \notin Nat
  BY NoneAssumption
<1>2. Failure \in Result
  BY DEF Failure, Result, Outcomes
<1> QED
  BY <1>1, <1>2 DEF Tasks

\* The status of a result tells the three kinds of results apart.
LEMMA StatusOfResult ==
  ASSUME NEW r \in Result
  PROVE  /\ StatusOf(r) \in {"waiting_user", "completed", "failed"}
         /\ StatusOf(r) \in Status
         /\ r # None /\ r.evidence \in BOOLEAN
         /\ StatusOf(r) = "waiting_user" <=> r.outcome = "asked"
         /\ StatusOf(r) = "failed" <=> r.outcome = "system_error"
         /\ Completed(r) <=> StatusOf(r) = "completed"
         /\ Completed(r) <=> r.outcome \in Outcomes \ {"system_error"}
         /\ r.outcome \in Outcomes <=> r.outcome # "asked"
<1>1. r # None
  BY NoneFacts
<1>2. r.outcome \in Outcomes \cup {"asked"} /\ r.evidence \in BOOLEAN
  BY DEF Result
<1> QED
  BY <1>1, <1>2 DEF StatusOf, Completed, Outcomes, Status

\* None has no completed result, nor has a failure.
LEMMA NotCompleted == ~Completed(None) /\ ~Completed(Failure)
BY DEF Completed, Failure, StatusOf

\* What a worker that did not complete returns refers to nothing.
LEMMA SafeResult ==
  ASSUME NEW r \in Result
  PROVE  /\ RollbackSafe(r) \in Result
         /\ RollbackSafe(r).outcome = r.outcome
         /\ RollbackSafe(r).evidence => StatusOf(r) = "completed" /\ r.evidence
<1> DEFINE e == r.evidence /\ StatusOf(r) = "completed"
<1>1. e \in BOOLEAN /\ (e => StatusOf(r) = "completed" /\ r.evidence)
  OBVIOUS
<1>2. RollbackSafe(r) = [r EXCEPT !.evidence = e]
  BY Zenon DEF RollbackSafe
<1> HIDE DEF e
<1> QED
  BY <1>1, <1>2 DEF Result

\* The tasks are finitely many, and of some there is a first and a last.
LEMMA FirstAndLast ==
  ASSUME NEW S \in SUBSET Tasks
  PROVE  /\ IsFiniteSet(S)
         /\ S # {} => /\ Smallest(S) \in S
                      /\ \E m \in S : \A s \in S : s <= m
<1>1. IsFiniteSet(Tasks)
  BY FS_Interval, BoundsAssumption DEF Tasks
<1>2. IsFiniteSet(S)
  BY <1>1, FS_Subset
<1>3. S \subseteq Nat /\ \A s \in S : MaxTasks - s \in Nat
  BY BoundsAssumption DEF Tasks
<1>4. ASSUME S # {}
      PROVE  Smallest(S) \in S
  <2>1. \E t \in S : \A s \in S : t <= s
    BY <1>3, <1>4, LeastNumber
  <2> QED
    BY <2>1, Zenon DEF Smallest
<1>5. ASSUME S # {}
      PROVE  \E m \in S : \A s \in S : s <= m
  <2> DEFINE D == {MaxTasks - s : s \in S}
  <2>1. D # {} /\ D \in SUBSET Nat
    BY <1>3, <1>5
  <2> HIDE DEF D
  <2>2. PICK x \in D : \A y \in D : x <= y
    BY <2>1, LeastNumber
  <2>4. PICK m \in S : x = MaxTasks - m
    BY <2>2 DEF D
  <2>5. \A s \in S : MaxTasks - m <= MaxTasks - s
    BY <2>2, <2>4 DEF D
  <2> QED
    BY <1>3, <2>4, <2>5, BoundsAssumption
<1> QED
  BY <1>2, <1>4, <1>5

\* The tasks selected are ready ones of the plan, and the decisions about them
\* are within the limit.
LEMMA SelectedTasks ==
  ASSUME TypeOK, PlanInv
  PROVE  /\ Selected(graph) \in SUBSET Tasks
         /\ \A U \in SUBSET Selected(graph) :
              graph.decisions + Cardinality(U) \in 0..MaxDecisions
         /\ \A t \in Selected(graph) :
              /\ graph.status[t] \in {"waiting", "running"} /\ board \in Plans
              /\ board.deps[t] \subseteq Tasks
              /\ \A d \in board.deps[t] : graph.status[d] = "completed"
<1> DEFINE F == FirstOfWorker(graph)
           S == Selected(graph)
<1>1. F \in SUBSET Tasks /\ S \in SUBSET F
  BY DEF FirstOfWorker, Selected, Ready
<1>2. graph.decisions \in 0..MaxDecisions /\ MaxDecisions \in Nat
  BY BoundsAssumption DEF TypeOK, Graph
<1>3. Limit(graph) \in Nat /\ graph.decisions + Limit(graph) <= MaxDecisions
  BY <1>2, BoundsAssumption DEF Limit
<1>4. \A t \in S : Cardinality({s \in F : s < t}) < Limit(graph)
  BY DEF Selected
<1> HIDE DEF S
<1>5. IsFiniteSet(S) /\ Cardinality(S) \in Nat /\ Cardinality(S) <= Limit(graph)
  <2>1. IsFiniteSet(S) /\ IsFiniteSet(F)
    BY <1>1, FirstAndLast
  <2>2. CASE S = {}
    BY <1>3, <2>1, <2>2, FS_EmptySet
  <2>3. CASE S # {}
    <3>1. PICK m \in S : \A s \in S : s <= m
      BY <1>1, <2>3, FirstAndLast
    <3> DEFINE L == {s \in F : s < m}
    <3>2. IsFiniteSet(L) /\ Cardinality(L) \in Nat /\ Cardinality(L) < Limit(graph)
      BY <1>4, <2>1, FS_Subset, FS_CardinalityType
    <3>3. \A s \in S : s < m \/ s = m
      BY <1>1, <3>1, BoundsAssumption DEF Tasks
    <3>4. S \subseteq L \cup {m}
      BY <1>1, <3>3
    <3> HIDE DEF L
    <3>5. /\ IsFiniteSet(L \cup {m})
          /\ \/ Cardinality(L \cup {m}) = Cardinality(L)
             \/ Cardinality(L \cup {m}) = Cardinality(L) + 1
      BY <3>2, FS_AddElement, Zenon
    <3>6. Cardinality(S) \in Nat /\ Cardinality(L \cup {m}) \in Nat
          /\ Cardinality(S) <= Cardinality(L \cup {m})
      BY <2>1, <3>4, <3>5, FS_Subset, FS_CardinalityType
    <3> QED
      BY <1>3, <2>1, <3>2, <3>5, <3>6
  <2> QED
    BY <2>2, <2>3
<1>6. ASSUME NEW U \in SUBSET S
      PROVE  graph.decisions + Cardinality(U) \in 0..MaxDecisions
  <2>1. Cardinality(U) \in Nat /\ Cardinality(U) <= Cardinality(S)
    BY <1>5, FS_Subset, FS_CardinalityType
  <2> QED
    BY <1>2, <1>3, <1>5, <2>1
<1>7. ASSUME NEW t \in S
      PROVE  /\ graph.status[t] \in {"waiting", "running"} /\ board \in Plans
             /\ board.deps[t] \subseteq Tasks
             /\ \A d \in board.deps[t] : graph.status[d] = "completed"
  <2>1. t \in Tasks /\ t \in Ready(graph)
    BY <1>1 DEF S, Selected, FirstOfWorker
  <2>2. graph.status[t] \in {"waiting", "running"}
        /\ \A d \in graph.plan.deps[t] : graph.status[d] = "completed"
    BY <2>1 DEF Ready
  <2>3. board \in Plans /\ graph.plan = board
    BY <2>1, <2>2, NoneFacts DEF TypeOK, PlanInv, Status
  <2>4. board \in Plan
    BY <2>3, PlansAssumption
  <2>5. board.deps[t] \subseteq Tasks
    BY <2>1, <2>4 DEF Plan
  <2> QED
    BY <2>2, <2>3, <2>5
<1> QED
  BY <1>1, <1>6, <1>7 DEF S

-----------------------------------------------------------------------------
(***************************************************************************)
(* Steps that end the graph.                                               *)
(***************************************************************************)

\* A new state of the graph is final: its tasks are settled or wait for the user.
Final(g) ==
  /\ g \in Graph /\ g.plan = graph.plan /\ g.batch = {}
  /\ \A t \in Tasks :
       /\ g.status[t] # "running"
       /\ g.status[t] = None <=> graph.status[t] = None
       /\ \/ g.results[t] = graph.results[t]
          \/ t \in graph.batch /\ calls[t].at = "returned" /\ g.results[t] = calls[t].result
  /\ Refused(g) \/ \A t \in Tasks : Allowed(g, t)
  /\ g.execution = "waiting_user" =>
       /\ g.current \in Tasks /\ g.status[g.current] = "waiting_user"
       /\ \A t \in Tasks : Sound(g, t)
       /\ \A t \in graph.batch : g.results[t] = calls[t].result

\* A step to such a state in which no call is left keeps the invariant.
LEMMA EndingStep ==
  ASSUME GraphInv, NEW g, Final(g), Ends(g), UNCHANGED <<tables, counts>>,
         pc = "invoke" => Joined, calls' = Collected,
         pc \in {"plan", "decide", "handoff", "invoke", "answer"}
  PROVE  GraphInv'
<1>1. calls' = NoCalls
  BY DEF GraphInv, Collected, Joined, BatchInv, NoCalls, TypeOK, Call
<1>2. graph' = g /\ pc' = "settle"
  BY DEF Ends
<1> USE <1>1, <1>2 DEF tables, counts
<1>3. TypeOK'
  BY DEF GraphInv, TypeOK, Final, Call, NoCalls
<1>4. PlanInv' /\ EmptyInv'
  BY DEF GraphInv, PlanInv, EmptyInv, BatchInv, Final, TypeOK
<1>5. BatchInv' /\ CallsInv'
  BY NoneFacts DEF GraphInv, BatchInv, CallsInv, Final, NoCalls
<1>6. DependenciesInv'
  BY DEF GraphInv, DependenciesInv, Final
<1>7. ResultsInv'
  <2> SUFFICES ASSUME g.execution = "waiting_user", NEW t \in Tasks
               PROVE  Agrees(t)'
    BY DEF ResultsInv, GoesOn
  <2>1. Sound(g, t) /\ (t \in graph.batch => g.results[t] = calls[t].result)
    BY DEF Final
  <2>2. Agrees(t) /\ GoesOn
    BY DEF GraphInv, ResultsInv, GoesOn
  <2> QED
    BY <2>1, <2>2, NotCompleted DEF Agrees, Sound, Open, Final, GraphInv, CallsInv, BatchInv, NoCalls
<1>8. CurrentInv' /\ ModeInv' /\ SettledInv' /\ QuietInv'
  BY DEF CurrentInv, ModeInv, SettledInv, QuietInv, Final, OnlyRefusalsLost, Allowed, Open,
         Refused
<1>9. RunsInv'
  BY DEF GraphInv, RunsInv, Startable
<1>10. ReferencesCommitted'
  BY DEF GraphInv, ReferencesCommitted, Final, CallsInv
<1> QED
  BY <1>3, <1>4, <1>5, <1>6, <1>7, <1>8, <1>9, <1>10 DEF GraphInv

\* A failure of a node: what is active fails with the graph.
LEMMA FailedFinal ==
  ASSUME GraphInv, pc \in {"plan", "decide", "handoff", "invoke", "answer"}
  PROVE  Final(Failed(graph))
<1>1. Failed(graph) \in Graph
  BY DEF GraphInv, TypeOK, Graph, Failed, AllActive, Status, Outcomes
<1>2. ASSUME NEW t \in Tasks
      PROVE  /\ Failed(graph).status[t] # "running"
             /\ Failed(graph).status[t] = None <=> graph.status[t] = None
             /\ Failed(graph).results[t] = graph.results[t]
             /\ Allowed(Failed(graph), t)
  <2>1. Sound(graph, t)
    BY DEF GraphInv, ResultsInv, GoesOn, Agrees
  <2>2. graph.status[t] \in Status \cup {None}
    BY DEF GraphInv, TypeOK, Graph
  <2> QED
    BY <2>1, <2>2, NoneFacts DEF GraphInv, TypeOK, Graph, Failed, AllActive, Sound, Allowed, Open,
       Active, Status, Terminal
<1>3. Failed(graph).plan = graph.plan /\ Failed(graph).batch = {}
      /\ Failed(graph).execution = "failed"
  BY DEF GraphInv, TypeOK, Graph, Failed
<1> QED
  BY <1>1, <1>2, <1>3 DEF Final

\* Decisions counted, nothing else changed.
Counted(d) == [graph EXCEPT !.decisions = d]

\* Counting a decision leaves the graph's tasks and results as they are.
LEMMA CountedGraph ==
  ASSUME TypeOK, NEW d \in 0..MaxDecisions
  PROVE  /\ Counted(d) \in Graph
         /\ Counted(d).status = graph.status /\ Counted(d).results = graph.results
         /\ Counted(d).plan = graph.plan /\ Counted(d).current = graph.current
         /\ graph = Counted(graph.decisions)
BY DEF TypeOK, Graph, Counted

\* A question about a task that is ready.
LEMMA AskedFinal ==
  ASSUME GraphInv, pc = "decide", NEW d \in 0..MaxDecisions,
         NEW t \in Tasks, graph.status[t] \in {"waiting", "running"}
  PROVE  Final(Asked(Counted(d), t))
<1> DEFINE h == Counted(d)
           g == Asked(h, t)
<1>1. h \in Graph /\ h.status = graph.status /\ h.results = graph.results
      /\ h.plan = graph.plan
  BY CountedGraph DEF GraphInv
<1> HIDE DEF h
<1>2. /\ g \in Graph /\ g.plan = graph.plan /\ g.batch = {}
      /\ g.current = t /\ g.results = graph.results
      /\ g.status = With(graph.status, t, "waiting_user")
  BY <1>1 DEF Graph, Asked, With, Status
<1> HIDE DEF g
<1>3. ASSUME NEW s \in Tasks
      PROVE  /\ g.status[s] = IF s = t THEN "waiting_user" ELSE graph.status[s]
             /\ Sound(graph, s) /\ graph.status[s] # "running"
             /\ graph.status[s] \in Status \cup {None}
  BY <1>2 DEF With, GraphInv, ResultsInv, GoesOn, Agrees, BatchInv, TypeOK, Graph
<1>4. \A s \in Tasks : Sound(g, s)
  BY <1>2, <1>3 DEF Sound, Active, Open, Status, Terminal
<1>5. \A s \in Tasks : g.status[s] = None <=> graph.status[s] = None
  BY <1>3, NoneFacts DEF Status
<1>6. \A s \in Tasks : Allowed(g, s)
  BY <1>4 DEF Sound, Allowed
<1>7. graph.batch = {}
  BY DEF GraphInv, BatchInv
<1> QED
  BY <1>2, <1>3, <1>4, <1>5, <1>6, <1>7 DEF Final, g, h

\* An answer or a refusal settles the current task, or all that are active.
LEMMA SettledFinal ==
  ASSUME GraphInv, pc \in {"decide", "answer"}, NEW d \in 0..MaxDecisions,
         NEW t \in Tasks \cup {0, None},
         t \in Tasks => graph.status[t] \in Active
  PROVE  /\ \A o \in FinishOutcomes : Final(Finished(Counted(d), t, o))
         /\ \A o \in RefusalOutcomes : Final(CannotComplete(Counted(d), t, o))
<1> DEFINE h == Counted(d)
<1>1. h \in Graph /\ h.status = graph.status /\ h.results = graph.results
      /\ h.plan = graph.plan
  BY CountedGraph DEF GraphInv
<1> HIDE DEF h
<1>2. ASSUME NEW s \in Tasks
      PROVE  /\ Sound(graph, s) /\ graph.status[s] # "running"
             /\ graph.status[s] \in Status \cup {None}
  BY DEF GraphInv, ResultsInv, GoesOn, Agrees, BatchInv, TypeOK, Graph
<1>3. ASSUME NEW to \in Terminal
      PROVE  /\ Settled(h, t, to) \in [Tasks -> Status \cup {None}]
             /\ \A s \in Tasks :
                  \/ Settled(h, t, to)[s] = graph.status[s]
                  \/ graph.status[s] \in Active /\ Settled(h, t, to)[s] = to
  BY <1>1, <1>2 DEF Settled, AllActive, With, Active, Status, Terminal, Graph
<1>4. ASSUME NEW g \in Graph, NEW to \in Terminal,
             g.plan = graph.plan, g.batch = {}, g.results = graph.results,
             g.status = Settled(h, t, to), g.execution # "waiting_user",
             \/ to = "completed" /\ g.outcome \in Outcomes \ {"system_error"}
             \/ to = "failed" /\ g.outcome = "system_error"
             \/ Refused(g)
      PROVE  Final(g)
  <2>1. ASSUME NEW s \in Tasks
        PROVE  /\ g.status[s] # "running"
               /\ g.status[s] = None <=> graph.status[s] = None
    BY <1>2, <1>3, <1>4, NoneFacts DEF Active, Status, Terminal
  <2>2. ASSUME NEW s \in Tasks, ~Refused(g)
        PROVE  Allowed(g, s)
    BY <1>2, <1>3, <1>4, <2>2 DEF Allowed, Sound, Open, Active, Status, Terminal
  <2> QED
    BY <1>4, <2>1, <2>2 DEF Final
<1>5. ASSUME NEW o \in FinishOutcomes
      PROVE  Final(Finished(h, t, o))
  <2> DEFINE g == Finished(h, t, o)
  <2>1. g \in Graph /\ g.plan = graph.plan /\ g.batch = {}
        /\ g.results = graph.results /\ g.status = Settled(h, t, "completed")
        /\ g.execution = "completed" /\ g.outcome = o
    <3>1. PICK p : p = Settled(h, t, "completed")
      OBVIOUS
    <3>2. p \in [Tasks -> Status \cup {None}] /\ None \in Tasks \cup {0, None}
      BY <1>1, <1>3, <3>1 DEF Terminal, Status
    <3>3. "completed" \in Status /\ o \in Outcomes
      BY DEF Status, FinishOutcomes, Outcomes
    <3>4. g = [h EXCEPT !.status = p, !.current = None, !.batch = {},
                        !.execution = "completed", !.outcome = o]
      BY <3>1 DEF Finished
    <3>5. h \in Graph
      BY <1>1
    <3> HIDE DEF g
    <3>6. g \in Graph
      <4>1. ASSUME NEW x \in Graph
            PROVE  [x EXCEPT !.status = p, !.current = None] \in Graph
        BY <3>2 DEF Graph
      <4>2. ASSUME NEW x \in Graph
            PROVE  [x EXCEPT !.batch = {}, !.execution = "completed"] \in Graph
        BY <3>3 DEF Graph
      <4>3. ASSUME NEW x \in Graph PROVE [x EXCEPT !.outcome = o] \in Graph
        BY <3>3 DEF Graph
      <4>4. PICK x \in Graph : x = [h EXCEPT !.status = p, !.current = None]
        BY <3>5, <4>1
      <4>5. PICK y \in Graph : y = [x EXCEPT !.batch = {}, !.execution = "completed"]
        BY <4>2
      <4>6. g = [y EXCEPT !.outcome = o]
        BY <3>4, <4>4, <4>5
      <4> QED
        BY <4>3, <4>6
    <3>7. /\ g.plan = h.plan /\ g.batch = {} /\ g.results = h.results
          /\ g.status = p /\ g.execution = "completed" /\ g.outcome = o
      BY <3>4, <3>5 DEF Graph
    <3> QED
      BY <1>1, <3>1, <3>6, <3>7
  <2>2. o \in Outcomes \ {"system_error"}
    BY DEF FinishOutcomes, Outcomes
  <2> QED
    BY <1>4, <2>1, <2>2 DEF Terminal
<1>6. ASSUME NEW o \in RefusalOutcomes
      PROVE  Final(CannotComplete(h, t, o))
  <2> DEFINE g == CannotComplete(h, t, o)
  <2>1. g \in Graph /\ g.plan = graph.plan /\ g.batch = {}
        /\ g.results = graph.results /\ g.status = Settled(h, t, "failed")
        /\ g.execution = (IF o = "system_error" THEN "failed" ELSE "completed")
        /\ g.outcome = o
    <3>1. PICK p, e : /\ p = Settled(h, t, "failed")
                      /\ e = IF o = "system_error" THEN "failed" ELSE "completed"
      OBVIOUS
    <3>2. p \in [Tasks -> Status \cup {None}] /\ None \in Tasks \cup {0, None}
      BY <1>1, <1>3, <3>1 DEF Terminal, Status
    <3>3. e \in Status /\ o \in Outcomes
      BY <3>1 DEF Status, RefusalOutcomes, Outcomes
    <3>4. g = [h EXCEPT !.status = p, !.current = None, !.batch = {}, !.execution = e,
                        !.outcome = o]
      BY <3>1 DEF CannotComplete
    <3>5. h \in Graph
      BY <1>1
    <3> HIDE DEF g
    <3>6. g \in Graph
      <4>1. ASSUME NEW x \in Graph
            PROVE  [x EXCEPT !.status = p, !.current = None] \in Graph
        BY <3>2 DEF Graph
      <4>2. ASSUME NEW x \in Graph
            PROVE  [x EXCEPT !.batch = {}, !.execution = e] \in Graph
        BY <3>3 DEF Graph
      <4>3. ASSUME NEW x \in Graph PROVE [x EXCEPT !.outcome = o] \in Graph
        BY <3>3 DEF Graph
      <4>4. PICK x \in Graph : x = [h EXCEPT !.status = p, !.current = None]
        BY <3>5, <4>1
      <4>5. PICK y \in Graph : y = [x EXCEPT !.batch = {}, !.execution = e]
        BY <4>2
      <4>6. g = [y EXCEPT !.outcome = o]
        BY <3>4, <4>4, <4>5
      <4> QED
        BY <4>3, <4>6
    <3>7. /\ g.plan = h.plan /\ g.batch = {} /\ g.results = h.results
          /\ g.status = p /\ g.execution = e /\ g.outcome = o
      BY <3>4, <3>5 DEF Graph
    <3> QED
      BY <1>1, <3>1, <3>6, <3>7
  <2> HIDE DEF g
  <2>2. o = "system_error" \/ Refused(g)
    BY <2>1 DEF Refused
  <2>3. Final(g)
    BY <1>4, <2>1, <2>2 DEF Terminal
  <2> QED
    BY <2>3 DEF g
<1> QED
  BY <1>5, <1>6 DEF h

-----------------------------------------------------------------------------
(***************************************************************************)
(* The initial state, and one lemma for each action.                       *)
(***************************************************************************)

\* The graph begins in a state of the invariant.
LEMMA InitInv == Init => GraphInv
<1> SUFFICES ASSUME Init PROVE GraphInv
  OBVIOUS
<1> USE NoneFacts DEF Init, NoCalls, NoRow
<1>1. TypeOK
  BY BoundsAssumption DEF TypeOK, Graph, Call, Row, Status
<1>2. PlanInv /\ EmptyInv /\ DependenciesInv
  BY DEF PlanInv, EmptyInv, DependenciesInv
<1>3. BatchInv /\ CallsInv
  BY NotCompleted DEF BatchInv, CallsInv, Status
<1>4. ResultsInv /\ CurrentInv /\ ModeInv /\ SettledInv /\ QuietInv
  BY NotCompleted DEF ResultsInv, Agrees, Sound, Active, Status, Terminal, CurrentInv, ModeInv,
     SettledInv, OnlyRefusalsLost, QuietInv
<1>5. RunsInv /\ ReferencesCommitted
  BY DEF RunsInv, Startable, Active, Status, Terminal, ReferencesCommitted
<1> QED
  BY <1>1, <1>2, <1>3, <1>4, <1>5 DEF GraphInv

\* A plan is made only before any worker has run.
LEMMA PlanMadeInv ==
  ASSUME GraphInv, NEW p \in Plans, PlanMade(p)
  PROVE  GraphInv'
<1>1. p \in Plan /\ p # None /\ (p.direct => p.size = 1) /\ p.size \in 1..MaxTasks
  BY PlansAssumption, NoneFacts DEF Plan
<1>2. ASSUME NEW t \in Tasks
      PROVE  /\ graph.results[t] = None /\ calls[t].at = "none"
             /\ NewRow(p, t) \in Row /\ NewRow(p, t).runs = 0
             /\ NewRow(p, t).result = None /\ NewRow(p, t).outcome = None
             /\ NewRow(p, t).status = IF t <= p.size THEN "waiting" ELSE None
  BY BoundsAssumption DEF PlanMade, GraphInv, ModeInv, BatchInv, NewRow, Row, Status
<1>3. PICK c \in IF graph.current = None THEN {None} ELSE 0..p.size :
        graph' = [graph EXCEPT !.plan = p, !.current = c,
                               !.status = [t \in Tasks |-> NewRow(p, t).status]]
  BY DEF PlanMade
<1>4. c \in Tasks \cup {0, None} /\ (c \in Tasks => c <= p.size)
  BY <1>1, <1>3, NoneFacts, BoundsAssumption DEF Tasks
<1>5. /\ graph'.plan = p /\ graph'.current = c /\ graph'.results = graph.results
      /\ graph'.batch = graph.batch
      /\ \A t \in Tasks : graph'.status[t] = NewRow(p, t).status
      /\ graph' \in Graph
  BY <1>2, <1>3, <1>4 DEF GraphInv, TypeOK, Graph, Row
<1>6. /\ board' = p /\ calls' = calls /\ evidence' = evidence /\ root' = root
      /\ resumes' = resumes /\ replans' = replans /\ pc = "plan"
      /\ pc' \in {"answer", "decide"} /\ (pc' = "answer" => p.direct)
      /\ \A t \in Tasks : rows'[t] = NewRow(p, t)
      /\ rows' = [t \in Tasks |-> NewRow(p, t)]
  BY DEF PlanMade, counts
<1>7. graph.batch = {}
  BY <1>6 DEF GraphInv, BatchInv
<1>8. TypeOK'
  BY <1>2, <1>5, <1>6 DEF GraphInv, TypeOK
<1>9. PlanInv' /\ EmptyInv' /\ BatchInv'
  BY <1>1, <1>2, <1>5, <1>6, <1>7, NoneFacts DEF PlanInv, EmptyInv, BatchInv, GraphInv, Status
<1>10. CallsInv' /\ DependenciesInv'
  BY <1>2, <1>5, <1>6, <1>7, NotCompleted DEF GraphInv, CallsInv, DependenciesInv, BatchInv
<1>11. ResultsInv' /\ ModeInv' /\ SettledInv' /\ QuietInv' /\ ReferencesCommitted'
  BY <1>2, <1>5, <1>6, NotCompleted, NoneFacts DEF GraphInv, ResultsInv, Agrees, Sound, Active, Status,
     Terminal, Open, ModeInv, SettledInv, OnlyRefusalsLost, QuietInv, ReferencesCommitted
<1>12. CurrentInv'
  BY <1>1, <1>2, <1>4, <1>5, <1>6 DEF CurrentInv, Active, Status, Terminal
<1>13. RunsInv'
  BY <1>2, <1>6 DEF RunsInv, GraphInv, TypeOK
<1> QED
  BY <1>8, <1>9, <1>10, <1>11, <1>12, <1>13 DEF GraphInv

\* Going on after a pause changes nothing but the node.
LEMMA PlanResumedInv ==
  ASSUME GraphInv, PlanResumed
  PROVE  GraphInv'
<1> USE DEF PlanResumed, tables, counts
<1>1. TypeOK' /\ PlanInv' /\ EmptyInv' /\ BatchInv' /\ CallsInv' /\ DependenciesInv'
  BY DEF GraphInv, TypeOK, PlanInv, EmptyInv, BatchInv, CallsInv, DependenciesInv
<1>2. ResultsInv' /\ CurrentInv' /\ RunsInv' /\ ModeInv' /\ SettledInv' /\ QuietInv'
      /\ ReferencesCommitted'
  BY DEF GraphInv, ResultsInv, GoesOn, Agrees, Sound, Open, CurrentInv, RunsInv, Startable,
     ModeInv, SettledInv, OnlyRefusalsLost, QuietInv, ReferencesCommitted
<1> QED
  BY <1>1, <1>2 DEF GraphInv

\* The steps of the nodes that end the graph, before any worker is called.
LEMMA NodeEndsInv ==
  ASSUME GraphInv,
         NodeFails \/ DecisionLimit \/ NoRunnableTask \/ AnswerRefused \/ Answer
         \/ \E t \in Tasks : DecideToEnd(t)
  PROVE  GraphInv'
<1>0. ASSUME NEW g, Final(g), Ends(g), UNCHANGED <<calls, tables, counts>>,
             pc \in {"plan", "decide", "handoff", "answer"}
      PROVE  GraphInv'
  <2>1. \A t \in Tasks : calls[t].at = "none" /\ calls[t].result = None
    BY <1>0 DEF GraphInv, BatchInv
  <2>2. calls' = Collected
    BY <1>0, <2>1 DEF Collected, GraphInv, TypeOK
  <2> QED
    BY <1>0, <2>2, EndingStep
<1>1. CASE NodeFails
  BY <1>0, <1>1, FailedFinal DEF NodeFails
<1>2. CASE DecisionLimit
  BY <1>0, <1>2, FailedFinal DEF DecisionLimit
<1>3. CASE NoRunnableTask
  BY <1>0, <1>3, FailedFinal DEF NoRunnableTask
<1>4. graph.decisions \in 0..MaxDecisions /\ graph = Counted(graph.decisions)
      /\ graph.current \in Tasks \cup {0, None}
  BY CountedGraph DEF GraphInv, TypeOK, Graph
<1>5. pc = "answer" /\ graph.current \in Tasks => graph.status[graph.current] \in Active
  BY DEF GraphInv, CurrentInv
<1>6. CASE AnswerRefused
  <2>1. "unsupported" \in RefusalOutcomes
    BY DEF RefusalOutcomes
  <2>2. Final(CannotComplete(graph, graph.current, "unsupported"))
    BY <1>4, <1>5, <1>6, <2>1, SettledFinal DEF AnswerRefused
  <2> QED
    BY <1>0, <1>6, <2>2 DEF AnswerRefused
<1>7. CASE Answer
  <2>1. /\ \A o \in FinishOutcomes : Final(Finished(graph, graph.current, o))
        /\ \A o \in RefusalOutcomes : Final(CannotComplete(graph, graph.current, o))
    BY <1>4, <1>5, <1>7, SettledFinal DEF Answer
  <2> QED
    BY <1>0, <1>7, <2>1 DEF Answer
<1>8. ASSUME NEW t \in Tasks, DecideToEnd(t)
      PROVE  GraphInv'
  <2> DEFINE d == graph.decisions + Cardinality({s \in Selected(graph) : s <= t})
  <2>1. d \in 0..MaxDecisions /\ graph.status[t] \in {"waiting", "running"}
    BY <1>8, SelectedTasks DEF DecideToEnd, GraphInv
  <2>2. Decided(t) = Counted(d)
    BY DEF Decided, Counted
  <2>3. graph.status[t] \in Active
    BY <2>1 DEF Active, Status, Terminal
  <2>4. /\ Final(Asked(Decided(t), t))
        /\ \A o \in FinishOutcomes : Final(Finished(Decided(t), t, o))
        /\ \A o \in RefusalOutcomes : Final(CannotComplete(Decided(t), t, o))
    <3> HIDE DEF d
    <3> QED
      BY <1>8, <2>1, <2>2, <2>3, AskedFinal, SettledFinal DEF DecideToEnd
  <2> QED
    BY <1>0, <1>8, <2>4 DEF DecideToEnd
<1> QED
  BY <1>1, <1>2, <1>3, <1>6, <1>7, <1>8

\* Delegating takes ready tasks: all they depend on has completed results.
LEMMA DelegateInv ==
  ASSUME GraphInv, Delegate
  PROVE  GraphInv'
<1> DEFINE B == Selected(graph)
           d == graph.decisions + Cardinality(B)
<1>1. /\ B \in SUBSET Tasks /\ B # {} /\ Smallest(B) \in Tasks
      /\ d \in 0..MaxDecisions
      /\ \A t \in B : /\ graph.status[t] \in {"waiting", "running"} /\ board \in Plans
                      /\ \A x \in board.deps[t] : x \in Tasks /\ graph.status[x] = "completed"
  BY SelectedTasks, FirstAndLast DEF Delegate, GraphInv
<1>2. graph' = [graph EXCEPT
         !.status = [t \in Tasks |-> IF t \in B THEN "running" ELSE graph.status[t]],
         !.current = Smallest(B), !.batch = B, !.decisions = d]
  BY DEF Delegate
<1>3. pc = "decide" /\ pc' = "handoff" /\ UNCHANGED <<calls, board, rows, evidence, root,
                                                      resumes, replans>>
  BY DEF Delegate, tables, counts
<1> HIDE DEF B, d
<1>4. /\ graph' \in Graph /\ graph'.plan = graph.plan /\ graph'.results = graph.results
      /\ graph'.batch = B /\ graph'.execution = graph.execution
      /\ \A t \in Tasks : graph'.status[t] = IF t \in B THEN "running" ELSE graph.status[t]
  BY <1>1, <1>2 DEF GraphInv, TypeOK, Graph, Status
<1>5. \A t \in Tasks : graph.status[t] # "running" /\ calls[t].at = "none"
  BY <1>3 DEF GraphInv, BatchInv
<1>6. TypeOK'
  BY <1>3, <1>4 DEF GraphInv, TypeOK
<1>7. PlanInv' /\ EmptyInv' /\ BatchInv'
  BY <1>1, <1>3, <1>4, <1>5, NoneFacts DEF GraphInv, PlanInv, EmptyInv, BatchInv, Status
<1>8. CallsInv'
  BY <1>3, <1>5 DEF GraphInv, CallsInv
<1>9. ASSUME NEW t \in Tasks
      PROVE  Agrees(t)
  BY <1>3 DEF GraphInv, ResultsInv, GoesOn
<1>10. DependenciesInv'
  <2>1. ASSUME NEW t \in B, NEW x \in board.deps[t]
        PROVE  Completed(rows[x].result)
    <3>1. x \in Tasks /\ graph.status[x] = "completed"
      BY <1>1
    <3> QED
      BY <3>1, <1>9 DEF Agrees, Sound
  <2> QED
    BY <1>3, <1>4, <2>1 DEF DependenciesInv
<1>11. ResultsInv'
  BY <1>1, <1>3, <1>4, <1>9 DEF ResultsInv, Agrees, Sound, Open, Active, Status, Terminal
<1>12. CurrentInv' /\ ModeInv' /\ SettledInv' /\ QuietInv' /\ ReferencesCommitted'
  BY <1>3, <1>4 DEF GraphInv, CurrentInv, ModeInv, SettledInv, OnlyRefusalsLost, QuietInv,
     ReferencesCommitted
<1>13. RunsInv'
  BY <1>1, <1>3, <1>4, <1>5 DEF GraphInv, RunsInv, Startable, Active, Status, Terminal
<1> QED
  BY <1>6, <1>7, <1>8, <1>10, <1>11, <1>12, <1>13 DEF GraphInv

\* The handoff calls the workers of the batch, whose tasks are not completed.
LEMMA HandoffInv ==
  ASSUME GraphInv, Handoff
  PROVE  GraphInv'
<1>1. /\ pc = "handoff" /\ pc' = "invoke"
      /\ UNCHANGED <<graph, board, rows, evidence, root, resumes, replans>>
      /\ calls' = [t \in Tasks |-> IF t \in graph.batch THEN [at |-> "invoked", result |-> None]
                                                        ELSE NoCalls[t]]
  BY DEF Handoff, tables, counts
<1>2. /\ calls' \in [Tasks -> Call]
      /\ \A t \in Tasks : /\ calls'[t].at = IF t \in graph.batch THEN "invoked" ELSE "none"
                          /\ calls'[t].result = None /\ calls[t].at = "none"
  BY <1>1 DEF NoCalls, Call, GraphInv, BatchInv
<1>3. TypeOK' /\ PlanInv' /\ EmptyInv' /\ BatchInv' /\ DependenciesInv'
  BY <1>1, <1>2 DEF GraphInv, TypeOK, PlanInv, EmptyInv, BatchInv, DependenciesInv
<1>4. ASSUME NEW t \in Tasks
      PROVE  /\ Agrees(t) /\ (Agrees(t))'
             /\ t \in graph.batch => ~Completed(rows[t].result)
  <2>1. Agrees(t)
    BY <1>1 DEF GraphInv, ResultsInv, GoesOn
  <2>2. t \in graph.batch => graph.status[t] = "running"
    BY DEF GraphInv, BatchInv
  <2>3. t \in graph.batch => ~Completed(rows[t].result)
    <3> SUFFICES ASSUME t \in graph.batch, Completed(rows[t].result) PROVE FALSE
      OBVIOUS
    <3>1. rows[t].result = graph.results[t] /\ Open(graph, t)
      BY <1>2, <2>1, <2>2 DEF Agrees, Sound, Active, Status, Terminal
    <3> QED
      BY <3>1 DEF Open, Completed, StatusOf
  <2> QED
    BY <1>1, <1>2, <2>1, <2>3 DEF Agrees, Sound, Open
<1>5. CallsInv' /\ ResultsInv'
  BY <1>1, <1>2, <1>4 DEF CallsInv, ResultsInv
<1>6. CurrentInv' /\ ModeInv' /\ SettledInv' /\ QuietInv' /\ ReferencesCommitted'
  BY <1>1 DEF GraphInv, CurrentInv, ModeInv, SettledInv, OnlyRefusalsLost, QuietInv,
     ReferencesCommitted
<1>7. RunsInv'
  BY <1>1, <1>2 DEF GraphInv, RunsInv, Startable
<1> QED
  BY <1>3, <1>5, <1>6, <1>7 DEF GraphInv

\* A step of the call for task t, which is at work: what it makes of the call, of
\* the row and of the evidence is in order.
CallMoves(t, to, row) ==
  /\ calls[t].at \notin {"none", "returned"} /\ to \in Call /\ to.at # "none"
  /\ calls' = [calls EXCEPT ![t] = to]
  /\ row \in Row /\ rows' = [rows EXCEPT ![t] = row]
  /\ evidence \subseteq evidence' /\ evidence' \subseteq Tasks
  /\ UNCHANGED <<pc, graph, board, root, counts>>
  /\ to.at \in {"ended", "returned", "raised"} => to.result # None
  /\ to.at \in {"invoked", "running", "ended", "raised"} => ~Completed(row.result)
  /\ to.at = "returned" =>
        row.result = to.result \/ (to.result = Failure /\ ~Completed(row.result))
  /\ to.result # None /\ to.result.evidence => t \in evidence'
  /\ row.result # None /\ row.result.evidence => t \in evidence'
  /\ row.runs <= resumes + 1 /\ (to.at = "invoked" => row.runs <= resumes)

\* A call that moves so, whatever step it takes, keeps the invariant.
LEMMA CallMovesInv ==
  ASSUME GraphInv, NEW t \in Tasks, NEW to, NEW row, CallMoves(t, to, row)
  PROVE  GraphInv'
<1> USE DEF counts, CallMoves
<1>1. pc = "invoke" /\ t \in graph.batch
  BY DEF GraphInv, BatchInv
<1>2. /\ calls' \in [Tasks -> Call] /\ rows' \in [Tasks -> Row]
      /\ calls'[t] = to /\ rows'[t] = row
      /\ \A s \in Tasks : s # t => calls'[s] = calls[s] /\ rows'[s] = rows[s]
  BY DEF GraphInv, TypeOK
<1>3. ~Completed(rows[t].result) /\ graph.status[t] # None
  <2>1. calls[t].at \in {"invoked", "running", "ended", "raised"}
    BY DEF GraphInv, TypeOK, Call
  <2>2. graph.status[t] = "running"
    BY <1>1 DEF GraphInv, BatchInv
  <2> QED
    BY <2>1, <2>2, NoneFacts DEF GraphInv, CallsInv, Status
<1>4. TypeOK' /\ PlanInv' /\ EmptyInv'
  BY <1>1, <1>2, <1>3 DEF GraphInv, TypeOK, PlanInv, EmptyInv
<1>5. BatchInv'
  BY <1>1, <1>2 DEF GraphInv, BatchInv
<1>6. CallsInv'
  BY <1>2 DEF GraphInv, CallsInv
<1>7. DependenciesInv'
  <2> SUFFICES ASSUME NEW s \in graph.batch, NEW x \in board.deps[s]
               PROVE  Completed(rows'[x].result)
    BY DEF DependenciesInv
  <2>1. Completed(rows[x].result)
    BY DEF GraphInv, DependenciesInv
  <2>2. x # t /\ rows'[x] = rows[x]
    BY <1>3, <2>1 DEF GraphInv, TypeOK
  <2> QED
    BY <2>1, <2>2
<1>8. ResultsInv'
  <2> SUFFICES ASSUME NEW s \in Tasks PROVE (Agrees(s))'
    BY DEF ResultsInv
  <2>1. Agrees(s)
    BY <1>1 DEF GraphInv, ResultsInv, GoesOn
  <2>2. CASE s # t
    BY <1>2, <2>1, <2>2 DEF Agrees, Sound, Open
  <2>3. CASE s = t
    <3>1. ~Completed(graph.results[t]) /\ Sound(graph, t)
      BY <1>3, <2>1, <2>3 DEF Agrees
    <3>2. Completed(row.result) => to.at = "returned"
      BY DEF Call
    <3> QED
      BY <1>2, <2>3, <3>1, <3>2 DEF Agrees, Sound, Open
  <2> QED
    BY <2>2, <2>3
<1>9. CurrentInv' /\ ModeInv' /\ SettledInv' /\ QuietInv'
  BY <1>1 DEF GraphInv, CurrentInv, ModeInv, SettledInv, OnlyRefusalsLost, QuietInv
<1>10. RunsInv'
  BY <1>2 DEF GraphInv, RunsInv, Startable
<1>11. ReferencesCommitted'
  BY <1>2 DEF GraphInv, ReferencesCommitted
<1> QED
  BY <1>4, <1>5, <1>6, <1>7, <1>8, <1>9, <1>10, <1>11 DEF GraphInv

\* Claiming a row counts one more run.
LEMMA ClaimedRow ==
  ASSUME NEW r \in Row, NEW n \in 0..(MaxResumes + 1), n = r.runs + 1
  PROVE  /\ [r EXCEPT !.status = "running", !.runs = r.runs + 1] \in Row
         /\ [r EXCEPT !.status = "running", !.runs = r.runs + 1].result = r.result
         /\ [r EXCEPT !.status = "running", !.runs = r.runs + 1].runs = n
<1> DEFINE new == [r EXCEPT !.status = "running", !.runs = n]
<1>1. new \in Row /\ new.result = r.result /\ new.runs = n
  BY DEF Row, Status
<1>2. [r EXCEPT !.status = "running", !.runs = r.runs + 1] = new
  OBVIOUS
<1> QED
  BY <1>1, <1>2

\* What the steps of a call write.
LEMMA CallStepsInv ==
  ASSUME GraphInv, NEW t \in Tasks, CallStep(t) \/ \E r \in Result : CallEnds(t, r)
  PROVE  GraphInv'
<1> DEFINE c == calls[t]
<1>1. /\ c \in Call /\ rows[t] \in Row
      /\ c.at \in {"ended", "returned", "raised"} => c.result \in Result
      /\ rows[t].runs <= resumes + 1
      /\ rows[t].result # None /\ rows[t].result.evidence => t \in evidence
      /\ c.result # None /\ c.result.evidence => t \in evidence
      /\ evidence \subseteq Tasks /\ rows = [rows EXCEPT ![t] = rows[t]]
  BY DEF GraphInv, TypeOK, Call, CallsInv, RunsInv, ReferencesCommitted
<1>2. c.at \in {"invoked", "running", "ended", "raised"} => ~Completed(rows[t].result)
  BY DEF GraphInv, CallsInv
<1>3. Failure \in Result /\ Failure.evidence = FALSE /\ ~Completed(Failure)
  BY NoneFacts, NotCompleted DEF Failure
<1>4. CASE CallRefused(t)
  <2> DEFINE to == [at |-> "returned", result |-> Failure]
  <2>1. to \in Call /\ c.at = "invoked" /\ calls' = [calls EXCEPT ![t] = to]
        /\ UNCHANGED <<pc, graph, board, root, counts, rows, evidence>>
    BY <1>3, <1>4 DEF CallRefused, Step, Call
  <2> HIDE DEF to
  <2>2. CallMoves(t, to, rows[t])
    BY <1>1, <1>2, <1>3, <2>1, NoneFacts DEF CallMoves, to
  <2> QED
    BY <2>2, CallMovesInv
<1>5. CASE CallStarted(t)
  <2> DEFINE to == [at |-> "running", result |-> None]
             row == [rows[t] EXCEPT !.status = "running", !.runs = @ + 1]
  <2>1. to \in Call /\ c.at = "invoked" /\ calls' = [calls EXCEPT ![t] = to]
        /\ UNCHANGED <<pc, graph, board, root, counts, evidence>>
    BY <1>5 DEF CallStarted, Step, Call
  <2>2. pc = "invoke" /\ graph.status[t] = "running"
    BY <2>1 DEF GraphInv, BatchInv
  <2>3. rows[t].runs <= resumes
    BY <2>1, <2>2 DEF GraphInv, RunsInv, Startable, Active, Status, Terminal
  <2>4. rows[t].runs + 1 \in 0..(MaxResumes + 1) /\ rows[t].runs + 1 <= resumes + 1
    BY <1>1, <2>3, BoundsAssumption DEF Row, GraphInv, TypeOK
  <2>5. row \in Row /\ row.result = rows[t].result /\ row.runs = rows[t].runs + 1
    BY <1>1, <2>4, ClaimedRow
  <2>6. rows' = [rows EXCEPT ![t] = row]
    BY <1>5 DEF CallStarted
  <2> HIDE DEF row, to
  <2>7. CallMoves(t, to, row)
    BY <1>1, <1>2, <2>1, <2>4, <2>5, <2>6 DEF CallMoves, to
  <2> QED
    BY <2>7, CallMovesInv
<1>6. ASSUME NEW r \in Result, CallEnds(t, r)
      PROVE  GraphInv'
  <2> DEFINE s == RollbackSafe(r)
             to == [at |-> "ended", result |-> s]
  <2>1. s \in Result /\ (s.evidence => StatusOf(r) = "completed" /\ r.evidence)
    BY SafeResult
  <2> HIDE DEF s
  <2>2. to \in Call /\ c.at = "running" /\ calls' = [calls EXCEPT ![t] = to]
        /\ UNCHANGED <<pc, graph, board, root, counts, rows>>
    BY <1>6, <2>1 DEF CallEnds, Step, Call, s
  <2>3. /\ evidence \subseteq evidence' /\ evidence' \subseteq Tasks
        /\ StatusOf(r) = "completed" /\ r.evidence => t \in evidence'
    BY <1>1, <1>6 DEF CallEnds
  <2>4. s # None
    BY <2>1, NoneFacts
  <2> HIDE DEF to
  <2>5. CallMoves(t, to, rows[t])
    BY <1>1, <1>2, <2>1, <2>2, <2>3, <2>4 DEF CallMoves, to
  <2> QED
    BY <2>5, CallMovesInv
<1>7. CASE CallTimesOut(t)
  <2> DEFINE to == [at |-> "ended", result |-> Failure]
  <2>1. to \in Call /\ c.at = "running" /\ calls' = [calls EXCEPT ![t] = to]
        /\ UNCHANGED <<pc, graph, board, root, counts, rows, evidence>>
    BY <1>3, <1>7 DEF CallTimesOut, Step, Call
  <2> HIDE DEF to
  <2>2. CallMoves(t, to, rows[t])
    BY <1>1, <1>2, <1>3, <2>1, NoneFacts DEF CallMoves, to
  <2> QED
    BY <2>2, CallMovesInv
<1>8. CASE CallRecorded(t)
  <2> DEFINE r == c.result
             to == [at |-> "returned", result |-> r]
             o == IF r.outcome \in Outcomes THEN r.outcome ELSE None
             row == [rows[t] EXCEPT !.status = StatusOf(r), !.result = r, !.outcome = o]
  <2>1. c.at = "ended" /\ calls' = [calls EXCEPT ![t] = to]
        /\ UNCHANGED <<pc, graph, board, root, counts, evidence>>
    BY <1>8 DEF CallRecorded, Step
  <2>2. r \in Result /\ to \in Call /\ StatusOf(r) \in Status
    BY <1>1, <2>1, StatusOfResult DEF Call
  <2>3. rows' = [rows EXCEPT ![t] = row]
    BY <1>8 DEF CallRecorded
  <2>4. row \in Row /\ row.result = r /\ row.runs = rows[t].runs
    BY <1>1, <2>2 DEF Row
  <2> HIDE DEF row, to
  <2>5. CallMoves(t, to, row)
    BY <1>1, <2>1, <2>2, <2>3, <2>4, NoneFacts DEF CallMoves, to
  <2> QED
    BY <2>5, CallMovesInv
<1>9. CASE CallRaises(t)
  <2> DEFINE to == [at |-> "raised", result |-> c.result]
  <2>1. c.at = "ended" /\ calls' = [calls EXCEPT ![t] = to]
        /\ UNCHANGED <<pc, graph, board, root, counts, rows, evidence>>
    BY <1>9 DEF CallRaises, Step
  <2>2. to \in Call /\ c.result # None
    BY <1>1, <2>1, NoneFacts DEF Call
  <2> HIDE DEF to
  <2>3. CallMoves(t, to, rows[t])
    BY <1>1, <1>2, <2>1, <2>2 DEF CallMoves, to
  <2> QED
    BY <2>3, CallMovesInv
<1> QED
  BY <1>4, <1>5, <1>6, <1>7, <1>8, <1>9 DEF CallStep

\* When all calls have returned, the graph takes their results.
LEMMA MergedGraph ==
  ASSUME GraphInv, Joined, \A t \in graph.batch : ~Rejected(t)
  PROVE  /\ Merged(graph) \in Graph
         /\ Merged(graph).plan = graph.plan /\ Merged(graph).batch = {}
         /\ Merged(graph).execution = graph.execution /\ Merged(graph).current = None
         /\ \A t \in graph.batch :
              /\ t \in Tasks /\ calls[t].at = "returned" /\ calls[t].result \in Result
              /\ Merged(graph).results[t] = calls[t].result
              /\ Merged(graph).status[t] = StatusOf(calls[t].result)
         /\ \A t \in Tasks \ graph.batch :
              /\ calls[t].at = "none"
              /\ Merged(graph).results[t] = graph.results[t]
              /\ Merged(graph).status[t] = graph.status[t]
         /\ \A t \in Tasks :
              /\ Sound(Merged(graph), t) /\ Merged(graph).status[t] # "running"
              /\ Merged(graph).status[t] = None <=> graph.status[t] = None
<1> DEFINE m == Merged(graph)
<1>1. pc = "invoke" /\ graph \in Graph /\ calls \in [Tasks -> Call]
  BY DEF Joined, GraphInv, TypeOK
<1>2. ASSUME NEW t \in graph.batch
      PROVE  /\ t \in Tasks /\ calls[t].at = "returned" /\ calls[t].result \in Result
             /\ graph.status[t] = "running"
  BY <1>1 DEF Joined, Rejected, GraphInv, CallsInv, BatchInv, TypeOK, Graph, Call
<1>3. ASSUME NEW t \in Tasks \ graph.batch
      PROVE  calls[t].at = "none" /\ graph.status[t] # "running" /\ Sound(graph, t)
  BY <1>1 DEF GraphInv, BatchInv, ResultsInv, GoesOn, Agrees
<1>4. \A t \in graph.batch : StatusOf(calls[t].result) \in Status
  BY <1>2, StatusOfResult
<1>5. /\ m \in Graph /\ m.plan = graph.plan /\ m.batch = {}
      /\ m.execution = graph.execution /\ m.current = None
      /\ m.results = [t \in Tasks |-> IF t \in graph.batch THEN calls[t].result
                                      ELSE graph.results[t]]
      /\ m.status = [t \in Tasks |-> IF t \in graph.batch THEN StatusOf(calls[t].result)
                                     ELSE graph.status[t]]
  BY <1>1, <1>2, <1>4 DEF Merged, Upserted, Graph
<1> HIDE DEF m
<1>6. ASSUME NEW t \in graph.batch
      PROVE  Sound(m, t) /\ m.status[t] # "running" /\ m.status[t] # None
  BY <1>2, <1>5, StatusOfResult, NoneFacts DEF Sound, Open, Active, Status, Terminal
<1>7. ASSUME NEW t \in Tasks \ graph.batch
      PROVE  Sound(m, t)
  BY <1>3, <1>5 DEF Sound, Open
<1> QED
  BY <1>2, <1>3, <1>5, <1>6, <1>7, NoneFacts DEF m, Status

\* A batch that ends the graph: rejected, waiting for the user, or failed.
LEMMA BatchEndsInv ==
  ASSUME GraphInv, BatchRejected \/ BatchAsks \/ BatchFails
  PROVE  GraphInv'
<1> DEFINE m == Merged(graph)
<1>1. CASE BatchRejected
  BY <1>1, FailedFinal, EndingStep DEF BatchRejected, Joined
<1>2. ASSUME Joined, \A t \in graph.batch : ~Rejected(t),
             NEW g \in Graph, g.plan = m.plan, g.batch = m.batch, g.status = m.status,
             g.results = m.results,
             g.execution = "waiting_user" =>
               g.current \in Tasks /\ m.status[g.current] = "waiting_user"
      PROVE  Final(g)
  <2>1. ASSUME NEW t \in Tasks
        PROVE  /\ Allowed(g, t) /\ Sound(g, t)
               /\ g.status[t] # "running" /\ (g.status[t] = None <=> graph.status[t] = None)
               /\ \/ g.results[t] = graph.results[t]
                  \/ t \in graph.batch /\ calls[t].at = "returned"
                     /\ g.results[t] = calls[t].result
    BY <1>2, MergedGraph DEF Allowed, Sound, Open
  <2>2. /\ \A t \in graph.batch : g.results[t] = calls[t].result
        /\ g.plan = graph.plan /\ g.batch = {}
    BY <1>2, MergedGraph
  <2> HIDE DEF m
  <2> QED
    BY <1>2, <2>1, <2>2 DEF Final
<1>3. CASE BatchAsks
  <2> DEFINE W == Of("waiting_user")
             g == [m EXCEPT !.execution = "waiting_user", !.current = Smallest(W)]
  <2>1. Joined /\ (\A t \in graph.batch : ~Rejected(t)) /\ W # {}
    BY <1>3 DEF BatchAsks
  <2>2. W \in SUBSET Tasks /\ \A t \in W : m.status[t] = "waiting_user"
    BY <2>1, MergedGraph DEF Of
  <2>3. Smallest(W) \in W
    BY <2>1, <2>2, FirstAndLast
  <2>4. m \in Graph
    BY <2>1, MergedGraph
  <2>5. Ends(g) /\ calls' = Collected /\ UNCHANGED <<tables, counts>>
    BY <1>3 DEF BatchAsks
  <2> HIDE DEF W, m
  <2>6. /\ g \in Graph /\ g.plan = m.plan /\ g.batch = m.batch /\ g.status = m.status
        /\ g.results = m.results /\ g.current = Smallest(W)
    BY <2>2, <2>3, <2>4 DEF Graph, Status
  <2> HIDE DEF g
  <2>7. Final(g)
    BY <1>2, <2>1, <2>2, <2>3, <2>6
  <2> QED
    BY <2>1, <2>5, <2>7, EndingStep DEF Joined
<1>4. CASE BatchFails
  <2> DEFINE g == [m EXCEPT !.execution = "failed", !.outcome = "system_error"]
  <2>1. Joined /\ (\A t \in graph.batch : ~Rejected(t))
    BY <1>4 DEF BatchFails
  <2>2. m \in Graph
    BY <2>1, MergedGraph
  <2>3. Ends(g) /\ calls' = Collected /\ UNCHANGED <<tables, counts>>
    BY <1>4 DEF BatchFails
  <2> HIDE DEF m
  <2>4. /\ g \in Graph /\ g.plan = m.plan /\ g.batch = m.batch /\ g.status = m.status
        /\ g.results = m.results /\ g.execution = "failed"
    BY <2>2 DEF Graph, Status, Outcomes
  <2> HIDE DEF g
  <2>5. Final(g)
    BY <1>2, <2>1, <2>4
  <2> QED
    BY <2>1, <2>3, <2>5, EndingStep DEF Joined
<1> QED
  BY <1>1, <1>3, <1>4

\* A batch after which the graph goes on: every task of it is settled.
LEMMA BatchMergedInv ==
  ASSUME GraphInv, BatchMerged
  PROVE  GraphInv'
<1>1. /\ Joined /\ (\A t \in graph.batch : ~Rejected(t)) /\ pc = "invoke"
      /\ graph' = Merged(graph) /\ pc' \in {"answer", "decide"} /\ calls' = Collected
      /\ UNCHANGED <<board, rows, evidence, root, resumes, replans>>
      /\ Of("waiting_user") = {}
  BY DEF BatchMerged, Joined, tables, counts
<1>2. /\ graph' \in Graph /\ graph'.plan = graph.plan /\ graph'.batch = {}
      /\ graph'.current = None
      /\ \A t \in graph.batch :
           /\ t \in Tasks /\ calls[t].at = "returned" /\ calls[t].result \in Result
           /\ graph'.results[t] = calls[t].result
           /\ graph'.status[t] = StatusOf(calls[t].result)
      /\ \A t \in Tasks \ graph.batch :
           /\ calls[t].at = "none" /\ graph'.results[t] = graph.results[t]
           /\ graph'.status[t] = graph.status[t]
      /\ \A t \in Tasks :
           /\ Sound(graph', t) /\ graph'.status[t] # "running"
           /\ graph'.status[t] = None <=> graph.status[t] = None
  BY <1>1, MergedGraph
<1>3. calls' = NoCalls
  BY <1>1 DEF GraphInv, Collected, Joined, BatchInv, NoCalls, TypeOK, Call
<1>4. TypeOK'
  BY <1>1, <1>2, <1>3 DEF GraphInv, TypeOK, Call, NoCalls
<1>5. \A t \in graph.batch : graph.status[t] # None
  BY NoneFacts DEF GraphInv, BatchInv, Status, TypeOK, Graph
<1>6. PlanInv' /\ EmptyInv'
  BY <1>1, <1>2, <1>5 DEF GraphInv, PlanInv, EmptyInv
<1>7. BatchInv' /\ DependenciesInv'
  BY <1>1, <1>2, <1>3 DEF BatchInv, DependenciesInv, NoCalls
<1>8. CallsInv' /\ QuietInv' /\ CurrentInv'
  BY <1>1, <1>2, <1>3, NoneFacts DEF CallsInv, QuietInv, CurrentInv, NoCalls
<1>9. ResultsInv'
  <2> SUFFICES ASSUME NEW t \in Tasks PROVE (Agrees(t))'
    BY DEF ResultsInv
  <2>1. Agrees(t)
    BY <1>1 DEF GraphInv, ResultsInv, GoesOn
  <2>2. CASE t \in graph.batch
    <3>1. \/ rows[t].result = graph'.results[t]
          \/ graph'.results[t] = Failure /\ ~Completed(rows[t].result)
      BY <1>2, <2>2 DEF GraphInv, CallsInv
    <3> QED
      BY <1>1, <1>2, <2>2, <3>1, NotCompleted DEF Agrees, Sound, Open
  <2>3. CASE t \notin graph.batch
    BY <1>1, <1>2, <2>1, <2>3 DEF Agrees, Sound, Open
  <2> QED
    BY <2>2, <2>3
<1>10. RunsInv'
  <2> SUFFICES ASSUME NEW t \in Tasks, graph'.status[t] \in Active
               PROVE  rows[t].runs <= resumes
    BY <1>1 DEF RunsInv, Startable, GraphInv
  <2>1. t \notin graph.batch
    BY <1>1, <1>2, StatusOfResult DEF Of, Active, Status, Terminal
  <2> QED
    BY <1>1, <1>2, <2>1 DEF GraphInv, RunsInv, Startable
<1>11. ModeInv' /\ SettledInv'
  BY <1>1 DEF ModeInv, SettledInv, OnlyRefusalsLost
<1>12. ReferencesCommitted'
  BY <1>1, <1>2 DEF GraphInv, ReferencesCommitted, CallsInv
<1> QED
  BY <1>4, <1>6, <1>7, <1>8, <1>9, <1>10, <1>11, <1>12 DEF GraphInv

-----------------------------------------------------------------------------
(***************************************************************************)
(* The gateway's transactions between two runs of the graph.               *)
(***************************************************************************)

\* Writing the state of the graph to the rows keeps their results and runs.
LEMMA SynchronizedRows ==
  ASSUME rows \in [Tasks -> Row], NEW g \in Graph
  PROVE  /\ Synchronized(g) \in [Tasks -> Row]
         /\ \A t \in Tasks :
              LET row == Synchronized(g)[t] IN
              /\ row.result = rows[t].result /\ row.runs = rows[t].runs
              /\ g.status[t] = None => row = rows[t]
              /\ g.status[t] # None => row.status = g.status[t]
                                       /\ row.outcome = OutcomeOf(g, t)
<1> SUFFICES ASSUME NEW t \in Tasks
             PROVE  LET row == Synchronized(g)[t] IN
                    /\ row \in Row
                    /\ row.result = rows[t].result /\ row.runs = rows[t].runs
                    /\ g.status[t] = None => row = rows[t]
                    /\ g.status[t] # None => row.status = g.status[t]
                                             /\ row.outcome = OutcomeOf(g, t)
  BY DEF Synchronized
<1> DEFINE s == g.status[t]
           o == OutcomeOf(g, t)
<1>1. s \in Status \cup {None} /\ rows[t] \in Row
  BY DEF Graph
<1>2. o \in Outcomes \cup {None}
  BY DEF OutcomeOf, Graph
<1>3. Synchronized(g)[t] = IF s = None THEN rows[t]
                           ELSE [rows[t] EXCEPT !.status = s, !.outcome = o]
  BY DEF Synchronized
<1> HIDE DEF s, o
<1>4. ASSUME NEW r \in Row
      PROVE  LET row == [r EXCEPT !.status = s, !.outcome = o] IN
             row \in Row /\ row.result = r.result /\ row.runs = r.runs
             /\ row.status = s /\ row.outcome = o
  BY <1>1, <1>2 DEF Row
<1>5. CASE s = None
  BY <1>1, <1>3, <1>5 DEF s, o
<1>6. CASE s # None
  BY <1>1, <1>3, <1>4, <1>6 DEF s, o
<1> QED
  BY <1>5, <1>6

\* What Allowed says of the graph is what the constraint asks of the row.
LEMMA AllowedRow ==
  ASSUME GraphInv, NEW t \in Tasks, Allowed(graph, t)
  PROVE  RowAllowed(Synchronized(graph)[t])
<1> DEFINE row == Synchronized(graph)[t]
<1>1. /\ graph \in Graph /\ graph.status[t] \in Status \cup {None}
      /\ graph.results[t] \in Result \cup {None}
      /\ graph.status[t] = None => row = rows[t]
      /\ graph.status[t] # None => row.status = graph.status[t]
                                   /\ row.outcome = OutcomeOf(graph, t)
  BY SynchronizedRows DEF GraphInv, TypeOK, Graph
<1> HIDE DEF row
<1>2. CASE graph.status[t] = None
  BY <1>1, <1>2, NoneFacts DEF GraphInv, EmptyInv, RowAllowed, Status, row
<1>3. Open(graph, t) => ~(graph.results[t] # None /\ graph.results[t].outcome \in Outcomes)
  BY DEF Open, Outcomes
<1>4. CASE graph.status[t] = "completed"
  <2>1. row.status = "completed" /\ row.outcome = OutcomeOf(graph, t)
    BY <1>1, <1>4, NoneFacts DEF Status
  <2>2. OutcomeOf(graph, t) \in Outcomes \ {"system_error"}
    <3>1. CASE Completed(graph.results[t])
      BY <1>1, <3>1, StatusOfResult, NotCompleted DEF OutcomeOf
    <3>2. CASE Open(graph, t) /\ graph.outcome \in Outcomes \ {"system_error"}
      BY <1>3, <1>4, <3>2 DEF OutcomeOf, Terminal
    <3> QED
      BY <1>4, <3>1, <3>2 DEF Allowed
  <2> QED
    BY <2>1, <2>2 DEF RowAllowed, row
<1>5. CASE graph.status[t] = "failed"
  <2>1. row.status = "failed" /\ row.outcome = OutcomeOf(graph, t)
    BY <1>1, <1>5, NoneFacts DEF Status
  <2>2. OutcomeOf(graph, t) = "system_error"
    <3>1. CASE graph.results[t] # None /\ graph.results[t].outcome = "system_error"
      BY <3>1 DEF OutcomeOf, Outcomes
    <3>2. CASE Open(graph, t) /\ graph.outcome = "system_error"
      BY <1>3, <1>5, <3>2 DEF OutcomeOf, Terminal
    <3> QED
      BY <1>5, <3>1, <3>2 DEF Allowed
  <2> QED
    BY <2>1, <2>2 DEF RowAllowed, row
<1>6. CASE graph.status[t] \in Active
  <2>1. row.status = graph.status[t] /\ row.outcome = OutcomeOf(graph, t)
    BY <1>1, <1>6, NoneFacts DEF Active
  <2>2. OutcomeOf(graph, t) = None
    BY <1>3, <1>6 DEF OutcomeOf, Allowed, Active
  <2> QED
    BY <1>6, <2>1, <2>2 DEF RowAllowed, Active, Status, Terminal, row
<1> QED
  BY <1>1, <1>2, <1>4, <1>5, <1>6 DEF Active, Status, Terminal

\* What changes a settled state's rows leaves calls, batch and results alone.
LEMMA RowsSynchronizedInv ==
  ASSUME GraphInv, pc \in {"settle", "paused"},
         NEW g \in Graph, rows' = Synchronized(g), UNCHANGED <<calls, board, evidence>>,
         graph' \in Graph, graph'.plan = graph.plan, graph'.batch = graph.batch,
         graph'.results = graph.results,
         \A t \in Tasks : /\ g.status[t] # "running"
                          /\ graph'.status[t] = g.status[t]
                          /\ g.status[t] = None <=> graph.status[t] = None,
         pc' \in {"plan", "paused", "ended"}, root' \in Status,
         resumes' \in 0..MaxResumes, replans' \in 0..1
  PROVE  /\ TypeOK' /\ PlanInv' /\ EmptyInv' /\ BatchInv' /\ CallsInv' /\ DependenciesInv'
         /\ QuietInv' /\ ReferencesCommitted'
         /\ \A t \in Tasks : rows'[t].result = rows[t].result /\ rows'[t].runs = rows[t].runs
<1>1. /\ rows' \in [Tasks -> Row]
      /\ \A t \in Tasks : /\ rows'[t].result = rows[t].result /\ rows'[t].runs = rows[t].runs
                          /\ g.status[t] = None => rows'[t] = rows[t]
                          /\ g.status[t] # None => rows'[t].status = g.status[t]
  BY SynchronizedRows DEF GraphInv, TypeOK
<1>2. graph.batch = {} /\ \A t \in Tasks : calls[t].at = "none"
  BY DEF GraphInv, BatchInv
<1>3. TypeOK' /\ PlanInv'
  BY <1>1 DEF GraphInv, TypeOK, PlanInv
<1>4. EmptyInv' /\ BatchInv' /\ DependenciesInv'
  BY <1>1, <1>2 DEF GraphInv, EmptyInv, BatchInv, DependenciesInv
<1>5. CallsInv' /\ ReferencesCommitted'
  BY <1>1, <1>2 DEF GraphInv, CallsInv, ReferencesCommitted
<1>6. QuietInv'
  BY <1>1, NoneFacts DEF QuietInv, GraphInv, EmptyInv, Status
<1> QED
  BY <1>1, <1>3, <1>4, <1>5, <1>6

\* The final state is written to rows that allow it, and the root settles.
LEMMA SettleInv ==
  ASSUME GraphInv, Settle
  PROVE  GraphInv'
<1>1. /\ pc = "settle" /\ rows' = Synchronized(graph) /\ root' = graph.execution
      /\ pc' = IF graph.execution = "waiting_user" THEN "paused" ELSE "ended"
      /\ UNCHANGED <<graph, calls, board, evidence, resumes, replans>>
  BY DEF Settle, counts
<1>2. /\ graph \in Graph /\ graph.execution \in Status
      /\ resumes \in 0..MaxResumes /\ replans \in 0..1
      /\ \A t \in Tasks : graph.status[t] # "running" /\ calls[t].at = "none"
  BY <1>1 DEF GraphInv, TypeOK, Graph, BatchInv
<1>3. /\ TypeOK' /\ PlanInv' /\ EmptyInv' /\ BatchInv' /\ CallsInv' /\ DependenciesInv'
      /\ QuietInv' /\ ReferencesCommitted'
      /\ \A t \in Tasks : rows'[t].result = rows[t].result /\ rows'[t].runs = rows[t].runs
  BY <1>1, <1>2, RowsSynchronizedInv
<1>4. ResultsInv'
  BY <1>1, <1>2, <1>3 DEF GraphInv, ResultsInv, GoesOn, Agrees, Sound, Open
<1>5. CurrentInv' /\ ModeInv' /\ SettledInv' /\ RunsInv'
  BY <1>1, <1>3 DEF GraphInv, CurrentInv, ModeInv, SettledInv, OnlyRefusalsLost, RunsInv, Startable
<1> QED
  BY <1>3, <1>4, <1>5 DEF GraphInv

\* Only the rows of a refusal are not allowed.
LEMMA SettleRefusedInv ==
  ASSUME GraphInv, SettleRefused
  PROVE  GraphInv'
<1> USE DEF SettleRefused, tables, counts
<1>1. PICK t \in Tasks : ~RowAllowed(Synchronized(graph)[t])
  BY DEF Savable, GraphInv, PlanInv
<1>2. ~Allowed(graph, t)
  BY <1>1, AllowedRow
<1>3. Refused(graph)
  BY <1>2 DEF GraphInv, SettledInv
<1>4. TypeOK' /\ PlanInv' /\ EmptyInv' /\ BatchInv' /\ CallsInv' /\ DependenciesInv'
  BY DEF GraphInv, TypeOK, PlanInv, EmptyInv, BatchInv, CallsInv, DependenciesInv
<1>5. ResultsInv' /\ CurrentInv' /\ ModeInv' /\ QuietInv' /\ ReferencesCommitted'
  BY DEF GraphInv, ResultsInv, GoesOn, CurrentInv, ModeInv, QuietInv, ReferencesCommitted
<1>6. RunsInv' /\ SettledInv'
  BY <1>3 DEF GraphInv, RunsInv, Startable, SettledInv, OnlyRefusalsLost, Refused
<1> QED
  BY <1>4, <1>5, <1>6 DEF GraphInv

\* The task that asked waits again, and whatever has run may run once more.
LEMMA ResumeInv ==
  ASSUME GraphInv, Resume
  PROVE  GraphInv'
<1> DEFINE g == Claimed(graph)
           replan == NothingDone(graph) /\ replans = 0
           mode == IF replan THEN "replan" ELSE "continue"
<1>1. /\ pc = "paused" /\ pc' = "plan" /\ resumes < MaxResumes /\ resumes' = resumes + 1
      /\ replans' = IF replan THEN replans + 1 ELSE replans
      /\ rows' = Synchronized(g) /\ root' = "running"
      /\ graph' = [g EXCEPT !.decisions = 0, !.mode = mode]
      /\ UNCHANGED <<calls, board, evidence>>
  BY DEF Resume
<1>2. graph \in Graph /\ graph.current \in Tasks /\ resumes \in Nat
      /\ graph.status[graph.current] = "waiting_user"
      /\ \A t \in Tasks : graph.status[t] # "running" /\ calls[t].at = "none"
  BY <1>1, BoundsAssumption DEF GraphInv, TypeOK, Graph, CurrentInv, BatchInv
<1>3. /\ g \in Graph /\ g.plan = graph.plan /\ g.batch = graph.batch
      /\ g.results = graph.results /\ g.current = graph.current
      /\ \A t \in Tasks : g.status[t] = IF t = graph.current THEN "waiting"
                                        ELSE graph.status[t]
  BY <1>2 DEF Claimed, With, Graph, Status
<1>4. mode \in {"replan", "continue"} /\ (mode = "replan" => NothingDone(graph))
      /\ replans' \in 0..1 /\ resumes' \in 0..MaxResumes
  BY <1>1, <1>2, BoundsAssumption DEF GraphInv, TypeOK
<1> HIDE DEF g, mode
<1>5. /\ graph' \in Graph /\ graph'.plan = graph.plan /\ graph'.batch = graph.batch
      /\ graph'.results = graph.results /\ graph'.status = g.status /\ graph'.mode = mode
  <2>1. graph' = [g EXCEPT !.decisions = 0, !.mode = mode]
    BY <1>1
  <2>2. 0 \in 0..MaxDecisions /\ mode \in {"new", "continue", "replan"}
    BY <1>4, BoundsAssumption
  <2> QED
    BY <1>3, <2>1, <2>2 DEF Graph
<1>6. \A t \in Tasks : /\ g.status[t] # "running"
                       /\ g.status[t] = None <=> graph.status[t] = None
  BY <1>2, <1>3, NoneFacts DEF Status
<1>7. /\ TypeOK' /\ PlanInv' /\ EmptyInv' /\ BatchInv' /\ CallsInv' /\ DependenciesInv'
      /\ QuietInv' /\ ReferencesCommitted'
      /\ \A t \in Tasks : rows'[t].result = rows[t].result /\ rows'[t].runs = rows[t].runs
  <2>1. root' \in Status
    BY <1>1 DEF Status
  <2> QED
    BY <1>1, <1>3, <1>4, <1>5, <1>6, <2>1, RowsSynchronizedInv
<1>8. ResultsInv'
  <2> SUFFICES ASSUME NEW t \in Tasks PROVE (Agrees(t))'
    BY DEF ResultsInv
  <2>1. Agrees(t)
    BY <1>1 DEF GraphInv, ResultsInv, GoesOn
  <2>2. graph.status[graph.current] \in Active
    BY <1>2 DEF Active, Status, Terminal
  <2> QED
    BY <1>1, <1>2, <1>3, <1>5, <1>7, <2>1, <2>2 DEF Agrees, Sound, Open
<1>9. CurrentInv' /\ SettledInv'
  BY <1>1 DEF CurrentInv, SettledInv, OnlyRefusalsLost
<1>10. ModeInv'
  BY <1>4, <1>5 DEF ModeInv, NothingDone
<1>11. RunsInv'
  BY <1>1, <1>2, <1>7 DEF GraphInv, RunsInv, TypeOK, Row
<1> QED
  BY <1>7, <1>8, <1>9, <1>10, <1>11 DEF GraphInv

-----------------------------------------------------------------------------
(***************************************************************************)
(* The theorems.                                                           *)
(***************************************************************************)

\* Every step keeps the invariant.
LEMMA NextInv == GraphInv /\ [Next]_vars => GraphInv'
<1> SUFFICES ASSUME GraphInv, [Next]_vars PROVE GraphInv'
  OBVIOUS
<1>1. CASE UNCHANGED vars
  <2> USE <1>1 DEF vars
  <2>1. TypeOK' /\ PlanInv' /\ EmptyInv' /\ BatchInv' /\ CallsInv' /\ DependenciesInv'
    BY DEF GraphInv, TypeOK, PlanInv, EmptyInv, BatchInv, CallsInv, DependenciesInv
  <2>2. ResultsInv' /\ CurrentInv' /\ RunsInv' /\ ModeInv' /\ SettledInv' /\ QuietInv'
        /\ ReferencesCommitted'
    BY DEF GraphInv, ResultsInv, GoesOn, Agrees, Sound, Open, CurrentInv, RunsInv, Startable,
       ModeInv, SettledInv, Allowed, OnlyRefusalsLost, QuietInv, ReferencesCommitted
  <2> QED
    BY <2>1, <2>2 DEF GraphInv
<1>2. CASE GraphStep
  BY <1>2, PlanMadeInv, PlanResumedInv, NodeEndsInv, DelegateInv, HandoffInv, BatchEndsInv,
     BatchMergedInv, SettleInv, SettleRefusedInv DEF GraphStep
<1>3. CASE \E t \in Tasks : CallStep(t) \/ \E r \in Result : CallEnds(t, r)
  BY <1>3, CallStepsInv
<1>4. CASE Resume
  BY <1>4, ResumeInv
<1> QED
  BY <1>1, <1>2, <1>3, <1>4 DEF Next

\* The graph's state, its calls, the board, the rows and the evidence agree in the
\* way GraphInv says, whatever is planned, decided, returned, lost or resumed.
THEOREM GraphInvariant == Spec => []GraphInv
<1> QED
  BY InitInv, NextInv, PTL DEF Spec

\* Every variable keeps its type: no run of the graph makes more decisions than
\* allowed, and no task is started more than once in it.
THEOREM TypeCorrect == Spec => []TypeOK
<1>1. GraphInv => TypeOK
  BY DEF GraphInv
<1> QED
  BY <1>1, GraphInvariant, PTL

\* _next_runnable_task_ids starts a task only when its dependencies have stored,
\* completed results, in every plan and across pauses.
THEOREM DependenciesFirst == Spec => []StartedAfterDependencies
<1>1. GraphInv => StartedAfterDependencies
  BY DEF GraphInv, BatchInv, DependenciesInv, StartedAfterDependencies
<1> QED
  BY <1>1, GraphInvariant, PTL

\* invoke_worker waits for the whole batch: no call outlives it, and no row of a
\* graph that has returned is running.
THEOREM WorkersAttended == Spec => []NoOrphanedWorker
<1>1. GraphInv => NoOrphanedWorker
  BY DEF GraphInv, BatchInv, QuietInv, NoOrphanedWorker
<1> QED
  BY <1>1, GraphInvariant, PTL

\* The completed results the graph holds are those of the rows, and no others are.
THEOREM ResultsStored == Spec => []ResultsAreStored
<1>1. GraphInv => ResultsAreStored
  <2> SUFFICES ASSUME GraphInv, pc \in {"decide", "answer", "paused"}, NEW t \in Tasks
               PROVE  Completed(graph.results[t]) \/ Completed(rows[t].result) =>
                         graph.results[t] = rows[t].result
    BY DEF ResultsAreStored
  <2>1. Agrees(t) /\ calls[t].at = "none"
    BY DEF GraphInv, ResultsInv, GoesOn, BatchInv
  <2> QED
    BY <2>1 DEF Agrees
<1> QED
  BY <1>1, GraphInvariant, PTL

\* A reference in a stored result is to evidence that is committed, also when the
\* worker's transaction was rolled back or its result was not recorded.
THEOREM ReferencesAreCommitted == Spec => []ReferencesCommitted
<1>1. GraphInv => ReferencesCommitted
  BY DEF GraphInv
<1> QED
  BY <1>1, GraphInvariant, PTL

\* A state that the board's constraints reject is a refusal; every pause, answer
\* and failure is saved.
THEOREM NothingElseLost == Spec => []OnlyRefusalsLost
<1>1. GraphInv => OnlyRefusalsLost
  BY DEF GraphInv, SettledInv
<1> QED
  BY <1>1, GraphInvariant, PTL

\* A task that has completed is not started again and keeps its result, until
\* another plan takes the place of its plan.
THEOREM CompletedStays == Spec => CompletedNotRerun
<1> DEFINE Stays(t) == /\ rows'[t].result = rows[t].result
                       /\ rows'[t].runs = rows[t].runs
<1>1. ASSUME GraphInv, Next, NEW t \in Tasks, Completed(rows[t].result)
      PROVE  board' # board \/ Stays(t)
  <2>1. ASSUME NEW p \in Plans, PlanMade(p)
        PROVE  board' # board
    <3>1. board' = p /\ p # None /\ pc = "plan" /\ graph.mode # "continue"
      BY <2>1, NoneFacts DEF PlanMade
    <3>2. CASE graph.mode = "new"
      BY <2>1, <3>1, <3>2 DEF PlanMade, PlanSavable
    <3>3. CASE graph.mode # "new"
      <4>1. board # None /\ \A s \in 1..board.size : rows[s].result = None
        BY <2>1, <3>3 DEF PlanMade, PlanSavable
      <4>2. board \in Plan
        BY <1>1, <4>1, PlansAssumption DEF GraphInv, TypeOK
      <4>3. board.size \in Nat /\ t \in Nat /\ 1 <= t
        BY <4>2, BoundsAssumption DEF Plan, Tasks
      <4>4. CASE t <= board.size
        <5>1. rows[t].result = None
          BY <4>1, <4>3, <4>4
        <5> QED
          BY <1>1, <5>1, NotCompleted
      <4>5. CASE ~(t <= board.size)
        <5>1. graph.status[t] = None
          BY <1>1, <4>1, <4>5 DEF GraphInv, PlanInv
        <5>2. rows[t].result = None
          BY <1>1, <5>1 DEF GraphInv, EmptyInv
        <5> QED
          BY <1>1, <5>2, NotCompleted
      <4> QED
        BY <4>4, <4>5
    <3> QED
      BY <3>2, <3>3
  <2>2. CASE PlanResumed \/ NodeFails \/ DecisionLimit \/ NoRunnableTask \/ Delegate
             \/ (\E s \in Tasks : DecideToEnd(s)) \/ Handoff
    BY <2>2 DEF PlanResumed, NodeFails, DecisionLimit, NoRunnableTask, Delegate, DecideToEnd,
       Handoff, tables
  <2>3. CASE BatchRejected \/ BatchAsks \/ BatchFails \/ BatchMerged \/ AnswerRefused \/ Answer
             \/ SettleRefused
    BY <2>3 DEF BatchRejected, BatchAsks, BatchFails, BatchMerged, AnswerRefused, Answer,
       SettleRefused, tables
  <2>4. rows \in [Tasks -> Row] /\ graph \in Graph
    BY <1>1 DEF GraphInv, TypeOK
  <2>5. CASE Settle
    BY <2>4, <2>5, SynchronizedRows DEF Settle
  <2>6. CASE Resume
    <3>1. Claimed(graph) \in Graph
      BY <2>4 DEF Claimed, With, Graph, Status
    <3> QED
      BY <2>4, <2>6, <3>1, SynchronizedRows DEF Resume
  <2>7. ASSUME NEW s \in Tasks, CallStep(s) \/ \E r \in Result : CallEnds(s, r)
        PROVE  Stays(t)
    <3>1. calls[t].at \notin {"invoked", "ended"}
      BY <1>1 DEF GraphInv, CallsInv
    <3>2. CASE CallRefused(s) \/ CallTimesOut(s) \/ CallRaises(s) \/ \E r \in Result : CallEnds(s, r)
      BY <3>2 DEF CallRefused, CallTimesOut, CallRaises, CallEnds
    <3>3. CASE CallStarted(s)
      <4>1. s # t
        BY <3>1, <3>3 DEF CallStarted, Step
      <4> QED
        BY <2>4, <3>3, <4>1 DEF CallStarted
    <3>4. CASE CallRecorded(s)
      <4>1. s # t
        BY <3>1, <3>4 DEF CallRecorded, Step
      <4> QED
        BY <2>4, <3>4, <4>1 DEF CallRecorded
    <3> QED
      BY <2>7, <3>2, <3>3, <3>4 DEF CallStep
  <2>8. CASE GraphStep
    BY <2>1, <2>2, <2>3, <2>5, <2>8 DEF GraphStep
  <2> QED
    BY <1>1, <2>6, <2>7, <2>8 DEF Next
<1>2. GraphInv /\ [Next]_vars =>
        [\A t \in Tasks :
           Completed(rows[t].result) =>
             \/ board' # board
             \/ rows'[t].result = rows[t].result /\ rows'[t].runs = rows[t].runs]_vars
  BY <1>1
<1> QED
  BY <1>2, GraphInvariant, PTL DEF Spec, CompletedNotRerun
=============================================================================
