-------------------------- MODULE MCSupervisorGraph --------------------------
(***************************************************************************)
(* The plans that tell the branches of the graph apart: a direct one, one  *)
(* task, two independent tasks, a chain in reverse order, a third task     *)
(* behind the second of two independent ones, and two tasks behind one.    *)
(***************************************************************************)
EXTENDS SupervisorGraph

CONSTANTS business, knowledge

Alternating == [t \in Tasks |-> IF t = 2 THEN knowledge ELSE business]

\* A plan in which the tasks of later depend on task d.
PlanOf(size, later, d, blocks, needs) ==
  [size |-> size, direct |-> FALSE, worker |-> Alternating,
   deps |-> [t \in Tasks |-> IF t \in later THEN {d} ELSE {}],
   blocks |-> blocks, needs |-> needs]
DirectPlan == [PlanOf(1, {}, 1, {}, {}) EXCEPT !.direct = TRUE]

SmallPlans ==
  { DirectPlan, PlanOf(1, {}, 1, {1}, {1}),
    PlanOf(2, {}, 1, {2}, {1}), PlanOf(2, {1}, 2, {}, {}),
    PlanOf(3, {3}, 2, {1}, {2}), PlanOf(3, {2, 3}, 1, {}, {3}) }

BothWorkers == {business, knowledge}
=============================================================================
