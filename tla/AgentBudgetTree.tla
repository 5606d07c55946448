-------------------------- MODULE AgentBudgetTree --------------------------
(***************************************************************************)
(* The parent/child budget of one agent run (app/runtime/budget.py,        *)
(* AgentBudgetTree and ChildExecutionBudget).                              *)
(*                                                                         *)
(* A root run owns limits for model calls, tool calls, input and output    *)
(* tokens and evidence.  Delegating to a worker grants it a child budget:  *)
(* the whole grant is reserved at once, the child consumes from it, and    *)
(* closing the child returns what it did not use.  Workers run             *)
(* concurrently; every method of the code holds one re-entrant lock, so a  *)
(* method is one action here.  A method that raises changes nothing, so a  *)
(* refused call is a guard that is false.                                  *)
(***************************************************************************)
EXTENDS Integers, FiniteSets

CONSTANTS
  RootId,        \* the id of the root run
  ChildIds,      \* ids of the worker runs that may be started
  TaskIds,       \* ids of the plan's tasks
  EvidenceIds,   \* evidence a worker may record
  Signatures,    \* tool name + canonical arguments, hashed by the code
  RootLimits,    \* AgentBudgetLimits
  WorkerLimits,  \* the WorkerBudgetLimits the program may grant
  Restores,      \* the AgentBudgetRestore values a run may start from
  MaxUnits,      \* the largest value a limit may have (10_000_000 in the code)
  MaxClock       \* bound of the model: the clock stops here

\* The four dimensions that are counters at the root; evidence is a set there.
Counters == {"model_calls", "tool_calls", "input_tokens", "output_tokens"}
Dims == Counters \cup {"evidence"}

RootLimitsType ==
  [cap: [Dims -> 0..MaxUnits], tasks: Nat, delegations: Nat, depth: Nat,
   timeout: Nat]
WorkerLimitsType == [cap: [Dims -> 0..MaxUnits], repeat: Nat, timeout: Nat]
RestoreType ==
  [used: [Counters -> Nat], evidence: SUBSET EvidenceIds,
   tasks: SUBSET TaskIds, delegations: Nat, duration: Nat,
   signatures: [Signatures -> Nat]]

ASSUME UnitsAssumption == MaxUnits \in Nat /\ MaxClock \in Nat
ASSUME IdsAssumption ==
  /\ RootId \notin ChildIds
  /\ IsFiniteSet(ChildIds)
  /\ IsFiniteSet(EvidenceIds)
  /\ IsFiniteSet(TaskIds)
ASSUME LimitsAssumption ==
  /\ RootLimits \in RootLimitsType
  /\ WorkerLimits \subseteq WorkerLimitsType
  /\ Restores \subseteq RestoreType

VARIABLES
  total,         \* what the root run has consumed, per counter
  evidence_ids,  \* the distinct evidence the run has recorded
  task_ids,      \* the distinct tasks that were delegated
  delegations,   \* how many children were ever allocated
  children,      \* child id -> _ChildState; its domain is the allocated ids
  restored,      \* the restore the run started from
  now            \* milliseconds since this tree was built

vars == <<total, evidence_ids, task_ids, delegations, children, restored, now>>

ChildState ==
  [parent: ChildIds \cup {RootId}, task: TaskIds, depth: Nat,
   limits: WorkerLimits, started: Nat, used: [Dims -> Nat],
   signatures: [Signatures -> Nat], closed: BOOLEAN]

(***************************************************************************)
(* A definition named X_Y is X with the defect Y; the model does not use   *)
(* it, and a property of the runs fails when it takes X's place.           *)
(***************************************************************************)

(***************************************************************************)
(* Usage and capacity.  A slot <<c, k>> is the k-th unit of child c's      *)
(* grant: the open children's slots above what they used are reserved, so  *)
(* the number of reserved slots is the code's                              *)
(* sum(c.limits - c.used for c in open children).                          *)
(***************************************************************************)
Open == {c \in DOMAIN children : ~children[c].closed}

Slots == ChildIds \X (1..MaxUnits)
ReservedSlots(d) ==
  {s \in Slots : /\ s[1] \in Open
                 /\ children[s[1]].used[d] < s[2]
                 /\ s[2] <= children[s[1]].limits.cap[d]}
Reserved(d) == Cardinality(ReservedSlots(d))

RootUsed(d) == IF d = "evidence" THEN Cardinality(evidence_ids) ELSE total[d]
Available_IgnoringReserved(d) == RootLimits.cap[d] - RootUsed(d)
Available(d) == RootLimits.cap[d] - RootUsed(d) - Reserved(d)

RootElapsed == restored.duration + now
RootTime == RootElapsed < RootLimits.timeout

ChildOpenAndTime(c) ==
  /\ c \in Open
  /\ RootTime
  /\ now - children[c].started < children[c].limits.timeout

(***************************************************************************)
(* A tree starts from a restore that is within the root limits; the        *)
(* constructor raises on any other.                                        *)
(***************************************************************************)
RestoreFits(r) ==
  /\ \A d \in Counters : r.used[d] <= RootLimits.cap[d]
  /\ Cardinality(r.evidence) <= RootLimits.cap["evidence"]
  /\ Cardinality(r.tasks) <= RootLimits.tasks
  /\ r.delegations <= RootLimits.delegations
  /\ r.duration <= RootLimits.timeout

Init ==
  \E r \in Restores :
    /\ RestoreFits(r)
    /\ restored = r
    /\ total = r.used
    /\ evidence_ids = r.evidence
    /\ task_ids = r.tasks
    /\ delegations = r.delegations
    /\ children = [c \in {} |-> {}]
    /\ now = 0

(***************************************************************************)
(* Operations on the tree.                                                 *)
(***************************************************************************)
ParentOpen(p) == p = RootId \/ p \in Open
DepthBelow(p) == IF p = RootId THEN 1 ELSE children[p].depth + 1

NewChild(p, t, l) ==
  [parent |-> p, task |-> t, depth |-> DepthBelow(p), limits |-> l,
   started |-> now, used |-> [d \in Dims |-> 0],
   signatures |-> restored.signatures, closed |-> FALSE]

AllocateChild(p, c, t, l) ==
  /\ RootTime
  /\ ParentOpen(p)
  /\ DepthBelow(p) <= RootLimits.depth
  /\ delegations < RootLimits.delegations
  /\ t \in task_ids \/ Cardinality(task_ids) < RootLimits.tasks
  /\ c \notin DOMAIN children
  /\ l.timeout <= RootLimits.timeout - RootElapsed
  /\ \A d \in Dims : l.cap[d] <= Available(d)
  /\ children' = [x \in DOMAIN children \cup {c} |->
                    IF x = c THEN NewChild(p, t, l) ELSE children[x]]
  /\ task_ids' = task_ids \cup {t}
  /\ delegations' = delegations + 1
  /\ UNCHANGED <<total, evidence_ids, restored, now>>

ReserveRootModelCall ==
  /\ RootTime
  /\ Available("model_calls") > 0
  /\ total' = [total EXCEPT !["model_calls"] = @ + 1]
  /\ UNCHANGED <<evidence_ids, task_ids, delegations, children, restored, now>>

RecordRootTokens(i, o) ==
  /\ RootTime
  /\ i <= Available("input_tokens")
  /\ o <= Available("output_tokens")
  /\ total' = [total EXCEPT !["input_tokens"] = @ + i,
                            !["output_tokens"] = @ + o]
  /\ UNCHANGED <<evidence_ids, task_ids, delegations, children, restored, now>>

(***************************************************************************)
(* Operations of a child's view of the tree.                               *)
(***************************************************************************)
RepeatAllowed_OffByOne(c, s) ==
  children[c].signatures[s] <= children[c].limits.repeat
RepeatAllowed(c, s) == children[c].signatures[s] < children[c].limits.repeat

\* A child's record after n units of d, and after one call with signature s.
Charged(r, d, n) == [r EXCEPT !.used[d] = @ + n]
Signed(r, s) == [r EXCEPT !.signatures[s] = @ + 1]

Fits(c, d, n) == children[c].used[d] + n <= children[c].limits.cap[d]

ReserveModelCall(c) ==
  /\ ChildOpenAndTime(c)
  /\ Fits(c, "model_calls", 1)
  /\ children' = [children EXCEPT ![c] = Charged(@, "model_calls", 1)]
  /\ total' = [total EXCEPT !["model_calls"] = @ + 1]
  /\ UNCHANGED <<evidence_ids, task_ids, delegations, restored, now>>

ReserveToolCall(c, s) ==
  /\ ChildOpenAndTime(c)
  /\ RepeatAllowed(c, s)
  /\ Fits(c, "tool_calls", 1)
  /\ children' = [children EXCEPT ![c] = Signed(Charged(@, "tool_calls", 1), s)]
  /\ total' = [total EXCEPT !["tool_calls"] = @ + 1]
  /\ UNCHANGED <<evidence_ids, task_ids, delegations, restored, now>>

RecordTokens(c, i, o) ==
  /\ ChildOpenAndTime(c)
  /\ Fits(c, "input_tokens", i)
  /\ Fits(c, "output_tokens", o)
  /\ children' = [children EXCEPT
       ![c] = Charged(Charged(@, "input_tokens", i), "output_tokens", o)]
  /\ total' = [total EXCEPT !["input_tokens"] = @ + i,
                            !["output_tokens"] = @ + o]
  /\ UNCHANGED <<evidence_ids, task_ids, delegations, restored, now>>

\* The child pays for every id it names, the root only for those that are new.
RecordEvidence(c, E) ==
  /\ ChildOpenAndTime(c)
  /\ Fits(c, "evidence", Cardinality(E))
  /\ Cardinality(evidence_ids) + Cardinality(E \ evidence_ids)
       <= RootLimits.cap["evidence"]
  /\ children' = [children EXCEPT ![c] = Charged(@, "evidence", Cardinality(E))]
  /\ evidence_ids' = evidence_ids \cup E
  /\ UNCHANGED <<total, task_ids, delegations, restored, now>>

CloseChild_Refunding(c) ==
  /\ c \in DOMAIN children
  /\ children' = [children EXCEPT ![c].closed = TRUE]
  /\ total' = [d \in Counters |-> total[d] - children[c].used[d]]
  /\ UNCHANGED <<evidence_ids, task_ids, delegations, restored, now>>
CloseChild(c) ==
  /\ c \in DOMAIN children
  /\ children' = [children EXCEPT ![c].closed = TRUE]
  /\ UNCHANGED <<total, evidence_ids, task_ids, delegations, restored, now>>

\* The monotonic clock; MaxClock is the bound of the model.
Tick ==
  /\ now < MaxClock
  /\ now' = now + 1
  /\ UNCHANGED <<total, evidence_ids, task_ids, delegations, children, restored>>

Next ==
  \/ \E p \in ChildIds \cup {RootId}, c \in ChildIds, t \in TaskIds,
       l \in WorkerLimits : AllocateChild(p, c, t, l)
  \/ ReserveRootModelCall
  \/ \E i, o \in 0..MaxUnits : RecordRootTokens(i, o)
  \/ \E c \in ChildIds : ReserveModelCall(c)
  \/ \E c \in ChildIds, s \in Signatures : ReserveToolCall(c, s)
  \/ \E c \in ChildIds, i, o \in 0..MaxUnits : RecordTokens(c, i, o)
  \/ \E c \in ChildIds, E \in SUBSET EvidenceIds : RecordEvidence(c, E)
  \/ \E c \in ChildIds : CloseChild(c)
  \/ Tick

Spec == Init /\ [][Next]_vars

(***************************************************************************)
(* Properties.                                                             *)
(***************************************************************************)

\* Every variable has the shape of the field it stands for.
TypeOK ==
  /\ total \in [Counters -> Nat]
  /\ evidence_ids \in SUBSET EvidenceIds
  /\ task_ids \in SUBSET TaskIds
  /\ delegations \in Nat
  /\ DOMAIN children \in SUBSET ChildIds
  /\ children \in [DOMAIN children -> ChildState]
  /\ restored \in Restores
  /\ now \in Nat

\* What the root run has consumed and what it still owes to open children
\* together never exceed a root limit, in any dimension and whatever the order
\* in which the supervisor and concurrent workers reserve, consume and close
\* (docs M2_21 plan, risk "budget distortion": children use more than the root).
NoOverbooking ==
  \A d \in Dims : RootUsed(d) + Reserved(d) <= RootLimits.cap[d]

\* Units the children consumed, open or closed.
SpentSlots(d) ==
  {s \in Slots : /\ s[1] \in DOMAIN children
                 /\ s[2] <= children[s[1]].used[d]}

\* Closing a child returns only what it did not use: everything any child ever
\* consumed, and everything consumed before a resume, stays charged to the root.
SpentStaysSpent ==
  \A d \in Counters :
    restored.used[d] + Cardinality(SpentSlots(d)) <= total[d]

\* A granted evidence allowance is always usable: evidence that fits the
\* child's own limit fits the root's, although the root counts a set shared by
\* all children and the child counts ids.
EvidenceGrantHonoured ==
  \A c \in Open : \A E \in SUBSET EvidenceIds :
    Fits(c, "evidence", Cardinality(E)) =>
      Cardinality(evidence_ids \cup E) <= RootLimits.cap["evidence"]

\* A worker's deadline lies within the root's, time before a resume included.
ChildDeadlineWithinRoot ==
  \A c \in DOMAIN children :
    restored.duration + children[c].started + children[c].limits.timeout
      <= RootLimits.timeout

\* A child repeats a tool call at most as often as its limit says, counting the
\* calls made before a resume; calls it made are charged once each.
RepeatedCallsBounded ==
  \A c \in DOMAIN children : \A s \in Signatures :
    /\ children[c].signatures[s] <= children[c].limits.repeat
         \/ children[c].signatures[s] = restored.signatures[s]
    /\ children[c].signatures[s] - restored.signatures[s]
         <= children[c].used["tool_calls"]

\* Once closed, a child stays closed and consumes nothing, so the capacity it
\* gave back cannot be spent twice (a late worker call after close).
ClosedChildIsFrozen ==
  [][\A c \in DOMAIN children :
       children[c].closed => c \in DOMAIN children' /\ children'[c] = children[c]]_vars
=============================================================================
