----------------------- MODULE AgentBudgetTreeProofs -----------------------
(***************************************************************************)
(* Proofs about AgentBudgetTree for every set of children, tasks, evidence *)
(* and limits.                                                             *)
(***************************************************************************)
EXTENDS AgentBudgetTree, FiniteSetTheorems, TLAPS

(***************************************************************************)
(* Type correctness.                                                       *)
(***************************************************************************)

\* The child record an allocation builds is a child state.
LEMMA NewChildType ==
  ASSUME TypeOK, NEW p \in ChildIds \cup {RootId}, NEW t \in TaskIds,
         NEW l \in WorkerLimits, ParentOpen(p)
  PROVE  NewChild(p, t, l) \in ChildState
<1>1. DepthBelow(p) \in Nat
  BY DEF DepthBelow, ParentOpen, Open, TypeOK, ChildState
<1>2. [d \in Dims |-> 0] \in [Dims -> Nat]
  OBVIOUS
<1>3. restored.signatures \in [Signatures -> Nat]
  BY LimitsAssumption DEF TypeOK, RestoreType
<1>4. now \in Nat
  BY DEF TypeOK
<1> QED
  BY <1>1, <1>2, <1>3, <1>4 DEF NewChild, ChildState

\* A step that replaces one child's record by another child state keeps the
\* type of the dictionary.
LEMMA ChildUpdateType ==
  ASSUME TypeOK, NEW c \in DOMAIN children, NEW r \in ChildState,
         children' = [children EXCEPT ![c] = r]
  PROVE  /\ DOMAIN children' \in SUBSET ChildIds
         /\ children' \in [DOMAIN children' -> ChildState]
BY DEF TypeOK

\* Charging a child and counting a signature leave a child state.
LEMMA ChargedType ==
  ASSUME NEW r \in ChildState, NEW d \in Dims, NEW n \in Nat
  PROVE  /\ Charged(r, d, n) \in ChildState
         /\ Charged(r, d, n).used = [r.used EXCEPT ![d] = @ + n]
         /\ Charged(r, d, n).limits = r.limits
         /\ Charged(r, d, n).closed = r.closed
         /\ Charged(r, d, n).started = r.started
         /\ Charged(r, d, n).signatures = r.signatures
BY DEF Charged, ChildState

\* Counting one call of a signature leaves a child state, too.
LEMMA SignedType ==
  ASSUME NEW r \in ChildState, NEW s \in Signatures
  PROVE  /\ Signed(r, s) \in ChildState
         /\ Signed(r, s).used = r.used
         /\ Signed(r, s).limits = r.limits
         /\ Signed(r, s).closed = r.closed
         /\ Signed(r, s).started = r.started
         /\ Signed(r, s).signatures = [r.signatures EXCEPT ![s] = @ + 1]
BY DEF Signed, ChildState

\* The initial state has the types of the restore it starts from.
LEMMA InitType == Init => TypeOK
<1> SUFFICES ASSUME Init PROVE TypeOK
  OBVIOUS
<1>1. PICK r \in Restores : /\ restored = r
                            /\ total = r.used
                            /\ evidence_ids = r.evidence
                            /\ task_ids = r.tasks
                            /\ delegations = r.delegations
                            /\ children = [c \in {} |-> {}]
                            /\ now = 0
  BY DEF Init
<1>2. r \in RestoreType
  BY LimitsAssumption
<1> QED
  BY <1>1, <1>2 DEF TypeOK, RestoreType

\* Every operation keeps the types.
LEMMA NextType == TypeOK /\ [Next]_vars => TypeOK'
<1> SUFFICES ASSUME TypeOK, [Next]_vars PROVE TypeOK'
  OBVIOUS
<1> USE UnitsAssumption
<1>1. ASSUME NEW p \in ChildIds \cup {RootId}, NEW c \in ChildIds,
             NEW t \in TaskIds, NEW l \in WorkerLimits,
             AllocateChild(p, c, t, l)
      PROVE  TypeOK'
  <2>1. NewChild(p, t, l) \in ChildState
    BY <1>1, NewChildType DEF AllocateChild
  <2>2. /\ DOMAIN children' \in SUBSET ChildIds
        /\ children' \in [DOMAIN children' -> ChildState]
    BY <1>1, <2>1 DEF AllocateChild, TypeOK
  <2> QED
    BY <1>1, <2>2 DEF AllocateChild, TypeOK
<1>2. CASE ReserveRootModelCall
  BY <1>2 DEF ReserveRootModelCall, TypeOK, Counters
<1>3. ASSUME NEW i \in 0..MaxUnits, NEW o \in 0..MaxUnits, RecordRootTokens(i, o)
      PROVE  TypeOK'
  BY <1>3 DEF RecordRootTokens, TypeOK, Counters
<1>4. ASSUME NEW c \in ChildIds, ReserveModelCall(c)
      PROVE  TypeOK'
  <2>1. c \in DOMAIN children /\ children[c] \in ChildState
    BY <1>4 DEF ReserveModelCall, ChildOpenAndTime, Open, TypeOK
  <2>2. Charged(children[c], "model_calls", 1) \in ChildState
    BY <2>1, ChargedType, SignedType DEF Dims, Counters
  <2>3. children' = [children EXCEPT ![c] = Charged(children[c], "model_calls", 1)]
    BY <1>4 DEF ReserveModelCall
  <2>4. /\ DOMAIN children' \in SUBSET ChildIds
        /\ children' \in [DOMAIN children' -> ChildState]
    BY <2>1, <2>2, <2>3, ChildUpdateType
  <2> QED
    BY <1>4, <2>4 DEF ReserveModelCall, TypeOK, Counters
<1>5. ASSUME NEW c \in ChildIds, NEW s \in Signatures, ReserveToolCall(c, s)
      PROVE  TypeOK'
  <2>1. c \in DOMAIN children /\ children[c] \in ChildState
    BY <1>5 DEF ReserveToolCall, ChildOpenAndTime, Open, TypeOK
  <2>2. Signed(Charged(children[c], "tool_calls", 1), s) \in ChildState
    BY <2>1, ChargedType, SignedType DEF Dims, Counters
  <2>3. children' = [children EXCEPT ![c] = Signed(Charged(children[c], "tool_calls", 1), s)]
    BY <1>5 DEF ReserveToolCall
  <2>4. /\ DOMAIN children' \in SUBSET ChildIds
        /\ children' \in [DOMAIN children' -> ChildState]
    BY <2>1, <2>2, <2>3, ChildUpdateType
  <2> QED
    BY <1>5, <2>4 DEF ReserveToolCall, TypeOK, Counters
<1>6. ASSUME NEW c \in ChildIds, NEW i \in 0..MaxUnits, NEW o \in 0..MaxUnits,
             RecordTokens(c, i, o)
      PROVE  TypeOK'
  <2>1. c \in DOMAIN children /\ children[c] \in ChildState
    BY <1>6 DEF RecordTokens, ChildOpenAndTime, Open, TypeOK
  <2>0. i \in Nat /\ o \in Nat
    OBVIOUS
  <2>5. Charged(children[c], "input_tokens", i) \in ChildState
    BY <2>0, <2>1, ChargedType DEF Dims, Counters
  <2>2. Charged(Charged(children[c], "input_tokens", i), "output_tokens", o) \in ChildState
    BY <2>0, <2>5, ChargedType DEF Dims, Counters
  <2>3. children' = [children EXCEPT ![c] = Charged(Charged(children[c], "input_tokens", i), "output_tokens", o)]
    BY <1>6 DEF RecordTokens
  <2>4. /\ DOMAIN children' \in SUBSET ChildIds
        /\ children' \in [DOMAIN children' -> ChildState]
    BY <2>1, <2>2, <2>3, ChildUpdateType
  <2> QED
    BY <1>6, <2>4 DEF RecordTokens, TypeOK, Counters
<1>7. ASSUME NEW c \in ChildIds, NEW E \in SUBSET EvidenceIds, RecordEvidence(c, E)
      PROVE  TypeOK'
  <2>1. c \in DOMAIN children /\ children[c] \in ChildState
    BY <1>7 DEF RecordEvidence, ChildOpenAndTime, Open, TypeOK
  <2>0. Cardinality(E) \in Nat
    BY IdsAssumption, FS_Subset, FS_CardinalityType
  <2>2. Charged(children[c], "evidence", Cardinality(E)) \in ChildState
    BY <2>1, <2>0, ChargedType, SignedType DEF Dims, Counters
  <2>3. children' = [children EXCEPT ![c] = Charged(children[c], "evidence", Cardinality(E))]
    BY <1>7 DEF RecordEvidence
  <2>4. /\ DOMAIN children' \in SUBSET ChildIds
        /\ children' \in [DOMAIN children' -> ChildState]
    BY <2>1, <2>2, <2>3, ChildUpdateType
  <2> QED
    BY <1>7, <2>4 DEF RecordEvidence, TypeOK
<1>8. ASSUME NEW c \in ChildIds, CloseChild(c)
      PROVE  TypeOK'
  <2> DEFINE r == [children[c] EXCEPT !.closed = TRUE]
  <2>1. c \in DOMAIN children /\ children[c] \in ChildState
    BY <1>8 DEF CloseChild, TypeOK
  <2>2. r \in ChildState /\ children' = [children EXCEPT ![c] = r]
    BY <1>8, <2>1 DEF CloseChild, ChildState
  <2>3. /\ DOMAIN children' \in SUBSET ChildIds
        /\ children' \in [DOMAIN children' -> ChildState]
    BY <2>1, <2>2, ChildUpdateType
  <2> QED
    BY <1>8, <2>3 DEF CloseChild, TypeOK
<1>9. CASE Tick
  BY <1>9 DEF Tick, TypeOK
<1>10. CASE UNCHANGED vars
  BY <1>10 DEF vars, TypeOK
<1> QED
  BY <1>1, <1>2, <1>3, <1>4, <1>5, <1>6, <1>7, <1>8, <1>9, <1>10 DEF Next

\* Every reachable state has the declared types.
THEOREM TypeCorrect == Spec => []TypeOK
BY InitType, NextType, PTL DEF Spec

(***************************************************************************)
(* Counting slots.                                                         *)
(***************************************************************************)

\* A child never uses more than it was granted: the strengthening that makes
\* the capacity invariant inductive (a grant overrun would make a remainder
\* negative, which the slots cannot count).
WithinGrant ==
  \A c \in DOMAIN children : \A d \in Dims :
    children[c].used[d] <= children[c].limits.cap[d]

\* The slots above a, up to and including b, of one child.
Block(c, a, b) == {c} \X ((a + 1)..b)

\* A block of one child's slots is finite and has as many slots as units.
LEMMA BlockCount ==
  ASSUME NEW c, NEW a \in Nat, NEW b \in Nat, a <= b
  PROVE  IsFiniteSet(Block(c, a, b)) /\ Cardinality(Block(c, a, b)) = b - a
<1>1. IsFiniteSet({c}) /\ Cardinality({c}) = 1
  BY FS_Singleton
<1>2. IsFiniteSet((a + 1)..b) /\ Cardinality((a + 1)..b) = b - a
  <2> DEFINE k == a + 1
  <2>1. k \in Int /\ b \in Int
    OBVIOUS
  <2>2. IsFiniteSet(k..b) /\ Cardinality(k..b) = IF k > b THEN 0 ELSE b - k + 1
    <3> HIDE DEF k
    <3> QED BY <2>1, FS_Interval
  <2> QED
    BY <2>2
<1>3. b - a \in Nat
  OBVIOUS
<1> QED
  BY <1>1, <1>2, <1>3, FS_Product DEF Block

\* All sets of slots are finite, so their cardinalities are natural numbers.
LEMMA SlotsFinite ==
  ASSUME NEW d
  PROVE  /\ IsFiniteSet(ReservedSlots(d)) /\ Reserved(d) \in Nat
         /\ IsFiniteSet(SpentSlots(d)) /\ Cardinality(SpentSlots(d)) \in Nat
<1>1. IsFiniteSet(Slots)
  <2>1. IsFiniteSet(1..MaxUnits)
    <3>1. 1 \in Int /\ MaxUnits \in Int
      BY UnitsAssumption
    <3> QED
      BY <3>1, FS_Interval
  <2> QED
    BY <2>1, IdsAssumption, FS_Product DEF Slots
<1>2. ReservedSlots(d) \in SUBSET Slots /\ SpentSlots(d) \in SUBSET Slots
  BY DEF ReservedSlots, SpentSlots
<1> QED
  BY <1>1, <1>2, FS_Subset, FS_CardinalityType DEF Reserved

\* What a child state says of one dimension is a number below the bound.
LEMMA ChildNumbers ==
  ASSUME TypeOK, NEW c \in DOMAIN children, NEW d \in Dims
  PROVE  /\ c \in ChildIds
         /\ children[c] \in ChildState
         /\ children[c].used[d] \in Nat
         /\ children[c].limits.cap[d] \in 0..MaxUnits
         /\ children[c].limits.timeout \in Nat
         /\ children[c].started \in Nat
         /\ children[c].closed \in BOOLEAN
BY LimitsAssumption DEF TypeOK, ChildState, WorkerLimitsType

\* The step touches no child but c, which keeps its grant and stays open.
OnlyChild(c) ==
  /\ DOMAIN children' = DOMAIN children
  /\ \A x \in DOMAIN children \ {c} : children'[x] = children[x]
  /\ children'[c].limits = children[c].limits
  /\ ~children'[c].closed

\* An open child that uses n more units of d, within its grant, moves exactly
\* n slots from reserved to spent; n is 0 for the dimensions it leaves alone.
LEMMA UseMovesSlots ==
  ASSUME TypeOK, NEW c \in Open, NEW d \in Dims, NEW n \in Nat, Fits(c, d, n),
         OnlyChild(c), children'[c].used[d] = children[c].used[d] + n
  PROVE  /\ Reserved(d)' = Reserved(d) - n
         /\ Cardinality(SpentSlots(d)') = Cardinality(SpentSlots(d)) + n
<1> DEFINE u == children[c].used[d]
           B == Block(c, u, u + n)
<1>1. /\ c \in DOMAIN children /\ c \in ChildIds /\ u \in Nat
      /\ children[c].limits.cap[d] \in 0..MaxUnits
      /\ u + n <= children[c].limits.cap[d]
      /\ ~children[c].closed
  BY ChildNumbers DEF Open, Fits
<1>2. IsFiniteSet(B) /\ Cardinality(B) = n
  BY <1>1, BlockCount
<1>3. \A s \in Slots : s \in B <=> s[1] = c /\ u < s[2] /\ s[2] <= u + n
  BY <1>1, UnitsAssumption DEF Slots, Block
<1>4. B \subseteq Slots
  BY <1>1, UnitsAssumption DEF Slots, Block
<1>5. /\ Open' = Open /\ DOMAIN children' = DOMAIN children
      /\ \A x \in DOMAIN children : children'[x].limits = children[x].limits
      /\ \A x \in DOMAIN children \ {c} : children'[x] = children[x]
      /\ children'[c].used[d] = u + n
  BY <1>1 DEF Open, OnlyChild
<1>6. \A s \in Slots : s[2] \in Nat
  BY UnitsAssumption DEF Slots
<1> HIDE DEF u, B
<1>7. ReservedSlots(d)' = ReservedSlots(d) \ B
  <2>1. \A s \in Slots : s \in ReservedSlots(d)' <=>
            /\ s[1] \in Open
            /\ children'[s[1]].used[d] < s[2]
            /\ s[2] <= children[s[1]].limits.cap[d]
    BY <1>5 DEF ReservedSlots, Open
  <2>2. \A s \in Slots : s[1] \in Open /\ s[1] # c =>
            children'[s[1]].used[d] = children[s[1]].used[d]
    BY <1>5 DEF Open
  <2>3. \A s \in Slots : s \in ReservedSlots(d)' <=> s \in ReservedSlots(d) /\ s \notin B
    BY <1>1, <1>3, <1>5, <1>6, <2>1, <2>2 DEF ReservedSlots, u
  <2> QED
    BY <2>3 DEF ReservedSlots, Slots
<1>8. B \subseteq ReservedSlots(d)
  BY <1>1, <1>3, <1>4, <1>6 DEF ReservedSlots, u
<1>9. SpentSlots(d)' = SpentSlots(d) \cup B
  <2>1. \A s \in Slots : s \in SpentSlots(d)' <=> s \in SpentSlots(d) \/ s \in B
    BY <1>1, <1>3, <1>5, <1>6 DEF SpentSlots, u
  <2> QED
    BY <2>1, <1>4 DEF SpentSlots, Slots
<1>10. SpentSlots(d) \cap B = {}
  BY <1>1, <1>3, <1>4, <1>6 DEF SpentSlots, u
<1> QED
  <2>1. Reserved(d)' = Reserved(d) - n
    <3>1. ReservedSlots(d) \cap B = B
      BY <1>8
    <3>2. IsFiniteSet(ReservedSlots(d))
      BY SlotsFinite
    <3>3. Cardinality(ReservedSlots(d) \ B)
            = Cardinality(ReservedSlots(d)) - Cardinality(ReservedSlots(d) \cap B)
      BY <3>2, FS_Difference
    <3> QED
      BY <1>2, <1>7, <3>1, <3>3 DEF Reserved
  <2>2. Cardinality(SpentSlots(d)') = Cardinality(SpentSlots(d)) + n
    <3>1. IsFiniteSet(SpentSlots(d)) /\ Cardinality(SpentSlots(d)) \in Nat
      BY SlotsFinite
    <3>2. Cardinality(SpentSlots(d) \cup B)
            = Cardinality(SpentSlots(d)) + Cardinality(B)
                - Cardinality(SpentSlots(d) \cap B)
      BY <1>2, <3>1, FS_Union
    <3>3. Cardinality(SpentSlots(d) \cap B) = 0
      BY <1>10, FS_EmptySet
    <3> QED
      BY <1>2, <1>9, <3>1, <3>2, <3>3
  <2> QED
    BY <2>1, <2>2

\* Allocating a child adds exactly its grant to the reserved slots, in every
\* dimension at once, and spends nothing.
LEMMA AllocateReserves ==
  ASSUME NEW p \in ChildIds \cup {RootId}, NEW c \in ChildIds,
         NEW t \in TaskIds, NEW l \in WorkerLimits, AllocateChild(p, c, t, l),
         NEW d \in Dims
  PROVE  /\ l.cap[d] \in Nat
         /\ Reserved(d)' = Reserved(d) + l.cap[d]
         /\ SpentSlots(d)' = SpentSlots(d)
<1> DEFINE n == l.cap[d]
           B == Block(c, 0, n)
<1>1. n \in 0..MaxUnits /\ n \in Nat
  BY LimitsAssumption, UnitsAssumption DEF WorkerLimitsType
<1>2. IsFiniteSet(B) /\ Cardinality(B) = n
  <2>1. 0 \in Nat /\ 0 <= n /\ n - 0 = n
    BY <1>1
  <2> HIDE DEF n
  <2> QED
    BY <1>1, <2>1, BlockCount
<1>3. \A s \in Slots : s \in B <=> s[1] = c /\ 0 < s[2] /\ s[2] <= n
  BY <1>1, UnitsAssumption DEF Slots, Block
<1>4. B \subseteq Slots
  BY <1>1, UnitsAssumption DEF Slots, Block
<1>5. /\ DOMAIN children' = DOMAIN children \cup {c}
      /\ c \notin DOMAIN children
      /\ \A x \in DOMAIN children : children'[x] = children[x]
      /\ children'[c].limits.cap[d] = n
      /\ children'[c].used[d] = 0
      /\ ~children'[c].closed
  BY DEF AllocateChild, NewChild
<1>6. Open' = Open \cup {c} /\ c \notin Open
  BY <1>5 DEF Open
<1>7. \A s \in Slots : s[2] \in Nat /\ 0 < s[2]
  BY UnitsAssumption DEF Slots
<1>8. \A x \in Open : children'[x] = children[x]
  BY <1>5 DEF Open
<1> HIDE DEF n, B
<1>9. ReservedSlots(d)' = ReservedSlots(d) \cup B
  <2>1. \A s \in Slots : s \in ReservedSlots(d)' <=> s \in ReservedSlots(d) \/ s \in B
    BY <1>1, <1>3, <1>5, <1>6, <1>7, <1>8 DEF ReservedSlots
  <2> QED
    BY <2>1, <1>4 DEF ReservedSlots, Slots
<1>10. ReservedSlots(d) \cap B = {}
  BY <1>3, <1>4, <1>6 DEF ReservedSlots
<1>11. SpentSlots(d)' = SpentSlots(d)
  <2>1. \A s \in Slots : s \in SpentSlots(d)' <=> s \in SpentSlots(d)
    BY <1>5, <1>7 DEF SpentSlots
  <2> QED
    BY <2>1 DEF SpentSlots, Slots
<1>12. Reserved(d)' = Reserved(d) + n
  <2>1. IsFiniteSet(ReservedSlots(d)) /\ Reserved(d) \in Nat
    BY SlotsFinite
  <2>2. Cardinality(ReservedSlots(d) \cup B)
          = Cardinality(ReservedSlots(d)) + Cardinality(B)
              - Cardinality(ReservedSlots(d) \cap B)
    BY <1>2, <2>1, FS_Union
  <2>3. Cardinality(ReservedSlots(d) \cap B) = 0
    BY <1>10, FS_EmptySet
  <2>4. Reserved(d)' = Cardinality(ReservedSlots(d)')
    BY DEF Reserved
  <2>5. Reserved(d) = Cardinality(ReservedSlots(d))
    BY DEF Reserved
  <2> QED
    BY <1>1, <1>2, <1>9, <2>1, <2>2, <2>3, <2>4, <2>5
<1> QED
  BY <1>1, <1>11, <1>12 DEF n

\* Closing a child only takes slots away from the reserved ones.
LEMMA CloseReleases ==
  ASSUME TypeOK, NEW c \in ChildIds, CloseChild(c), NEW d \in Dims
  PROVE  Reserved(d)' <= Reserved(d) /\ SpentSlots(d)' = SpentSlots(d)
<1>1. /\ DOMAIN children' = DOMAIN children
      /\ \A x \in DOMAIN children : /\ children'[x].limits = children[x].limits
                                    /\ children'[x].used = children[x].used
      /\ Open' \subseteq Open
  BY DEF CloseChild, TypeOK, ChildState, Open
<1>2. ReservedSlots(d)' \in SUBSET ReservedSlots(d)
  <2>1. \A s \in Slots : s \in ReservedSlots(d)' => s \in ReservedSlots(d)
    BY <1>1 DEF ReservedSlots, Open
  <2> QED
    BY <2>1 DEF ReservedSlots, Slots
<1>3. SpentSlots(d)' = SpentSlots(d)
  <2>1. \A s \in Slots : s \in SpentSlots(d)' <=> s \in SpentSlots(d)
    BY <1>1 DEF SpentSlots
  <2> QED
    BY <2>1 DEF SpentSlots, Slots
<1>4. IsFiniteSet(ReservedSlots(d))
  BY SlotsFinite
<1> QED
  BY <1>2, <1>3, <1>4, FS_Subset DEF Reserved

\* A step that leaves the children alone leaves the slots alone.
LEMMA SameSlots ==
  ASSUME children' = children, NEW d \in Dims
  PROVE  /\ ReservedSlots(d)' = ReservedSlots(d) /\ Reserved(d)' = Reserved(d)
         /\ SpentSlots(d)' = SpentSlots(d)
BY DEF ReservedSlots, Reserved, SpentSlots, Slots, Open

(***************************************************************************)
(* Capacity.                                                               *)
(***************************************************************************)

CapacityInv == TypeOK /\ WithinGrant /\ NoOverbooking /\ SpentStaysSpent

\* Numbers the capacity argument needs to know are numbers.
LEMMA RootNumbers ==
  ASSUME TypeOK, NEW d \in Dims
  PROVE  /\ RootLimits.cap[d] \in Nat
         /\ IsFiniteSet(evidence_ids)
         /\ RootUsed(d) \in Nat
         /\ d \in Counters => /\ restored.used[d] \in Nat
                              /\ RootUsed(d) = total[d]
<1>1. IsFiniteSet(evidence_ids) /\ Cardinality(evidence_ids) \in Nat
  BY IdsAssumption, FS_Subset, FS_CardinalityType DEF TypeOK
<1> QED
  BY <1>1, LimitsAssumption, UnitsAssumption
     DEF TypeOK, RootUsed, Dims, Counters, RootLimitsType, RestoreType

\* A fresh tree has no children: nothing is reserved, and what was restored
\* fits the limits.
LEMMA InitCapacity == Init => CapacityInv
<1> SUFFICES ASSUME Init PROVE CapacityInv
  OBVIOUS
<1>1. TypeOK
  BY InitType
<1>2. DOMAIN children = {}
  BY DEF Init
<1>3. WithinGrant
  BY <1>2 DEF WithinGrant
<1>4. ASSUME NEW d \in Dims PROVE Reserved(d) = 0 /\ Cardinality(SpentSlots(d)) = 0
  <2>1. ReservedSlots(d) = {} /\ SpentSlots(d) = {}
    BY <1>2 DEF ReservedSlots, SpentSlots, Open
  <2> QED
    BY <2>1, FS_EmptySet DEF Reserved
<1>5. \A d \in Dims : RootUsed(d) <= RootLimits.cap[d]
  BY DEF Init, RestoreFits, RootUsed, Dims
<1>6. NoOverbooking
  BY <1>1, <1>4, <1>5, RootNumbers DEF NoOverbooking
<1>7. SpentStaysSpent
  <2>1. \A d \in Counters : restored.used[d] = total[d]
    BY DEF Init
  <2> QED
    BY <1>1, <1>4, <2>1, RootNumbers DEF SpentStaysSpent, Dims
<1> QED
  BY <1>1, <1>3, <1>6, <1>7 DEF CapacityInv

\* What an open child uses within its grant was reserved for it: whenever the
\* root is charged no more than the child, the capacity invariant survives.
LEMMA ChildUseKeepsCapacity ==
  ASSUME CapacityInv, TypeOK', NEW c \in Open, NEW n \in [Dims -> Nat],
         \A d \in Dims : Fits(c, d, n[d]),
         OnlyChild(c),
         \A d \in Dims : children'[c].used[d] = children[c].used[d] + n[d],
         \A d \in Dims : RootUsed(d)' <= RootUsed(d) + n[d],
         \A d \in Counters : total'[d] = total[d] + n[d],
         restored' = restored
  PROVE  CapacityInv'
<1>1. ASSUME NEW d \in Dims
      PROVE  /\ Reserved(d)' = Reserved(d) - n[d]
             /\ Cardinality(SpentSlots(d)') = Cardinality(SpentSlots(d)) + n[d]
  <2>1. /\ n[d] \in Nat /\ Fits(c, d, n[d])
        /\ children'[c].used[d] = children[c].used[d] + n[d]
    OBVIOUS
  <2>2. TypeOK
    BY DEF CapacityInv
  <2> QED
    BY <2>1, <2>2, UseMovesSlots
<1>2. WithinGrant'
  <2>1. /\ DOMAIN children' = DOMAIN children
        /\ \A x \in DOMAIN children \ {c} : children'[x] = children[x]
        /\ children'[c].limits = children[c].limits
    BY DEF OnlyChild
  <2> QED
    BY <2>1 DEF CapacityInv, WithinGrant, Fits
<1>3. NoOverbooking'
  <2>1. ASSUME NEW d \in Dims PROVE RootUsed(d)' + Reserved(d)' <= RootLimits.cap[d]
    <3>1. RootUsed(d) \in Nat /\ RootLimits.cap[d] \in Nat
      BY RootNumbers DEF CapacityInv
    <3>5. RootUsed(d)' \in Nat
      <4>1. evidence_ids' \in SUBSET EvidenceIds /\ total' \in [Counters -> Nat]
        BY DEF TypeOK
      <4>2. Cardinality(evidence_ids') \in Nat
        BY <4>1, IdsAssumption, FS_Subset, FS_CardinalityType
      <4> QED
        BY <4>1, <4>2 DEF RootUsed, Dims, Counters
    <3>2. Reserved(d) \in Nat /\ n[d] \in Nat
      BY SlotsFinite
    <3>3. RootUsed(d) + Reserved(d) <= RootLimits.cap[d]
      BY DEF CapacityInv, NoOverbooking
    <3>4. RootUsed(d)' <= RootUsed(d) + n[d]
      OBVIOUS
    <3> QED
      BY <1>1, <3>1, <3>2, <3>3, <3>4, <3>5
  <2> QED
    BY <2>1 DEF NoOverbooking
<1>4. SpentStaysSpent'
  <2>1. ASSUME NEW d \in Counters
        PROVE  restored'.used[d] + Cardinality(SpentSlots(d)') <= total'[d]
    <3>1. d \in Dims
      BY DEF Dims
    <3>2. restored.used[d] \in Nat /\ total[d] \in Nat
      BY <3>1, RootNumbers DEF CapacityInv
    <3>3. Cardinality(SpentSlots(d)) \in Nat /\ n[d] \in Nat
      BY <3>1, SlotsFinite
    <3>4. restored.used[d] + Cardinality(SpentSlots(d)) <= total[d]
      BY DEF CapacityInv, SpentStaysSpent
    <3> QED
      BY <1>1, <3>1, <3>2, <3>3, <3>4
  <2> QED
    BY <2>1 DEF SpentStaysSpent
<1> QED
  BY <1>2, <1>3, <1>4 DEF CapacityInv

\* A step of the root alone keeps the capacity invariant when it charges no
\* more than what is available.
LEMMA RootUseKeepsCapacity ==
  ASSUME CapacityInv, TypeOK', children' = children, restored' = restored,
         evidence_ids' = evidence_ids,
         NEW n \in [Counters -> Nat],
         \A d \in Counters : n[d] = 0 \/ n[d] <= Available(d),
         \A d \in Counters : total'[d] = total[d] + n[d]
  PROVE  CapacityInv'
<1>1. WithinGrant'
  BY DEF CapacityInv, WithinGrant
<1>2. ASSUME NEW d \in Dims
      PROVE  RootUsed(d)' + Reserved(d)' <= RootLimits.cap[d]
  <2>1. /\ RootUsed(d) \in Nat /\ RootLimits.cap[d] \in Nat /\ Reserved(d) \in Nat
        /\ Reserved(d)' = Reserved(d)
        /\ RootUsed(d) + Reserved(d) <= RootLimits.cap[d]
    BY RootNumbers, SlotsFinite, SameSlots DEF CapacityInv, NoOverbooking
  <2>2. CASE d = "evidence"
    BY <2>1, <2>2 DEF RootUsed
  <2>3. CASE d \in Counters
    <3>1. RootUsed(d)' = RootUsed(d) + n[d] /\ n[d] \in Nat
      BY <2>3 DEF RootUsed, Counters
    <3> QED
      BY <2>1, <2>3, <3>1 DEF Available
  <2> QED
    BY <2>2, <2>3 DEF Dims
<1>3. ASSUME NEW d \in Counters
      PROVE  restored'.used[d] + Cardinality(SpentSlots(d)') <= total'[d]
  <2>1. d \in Dims
    BY DEF Dims
  <2>2. /\ restored.used[d] \in Nat /\ total[d] \in Nat
        /\ Cardinality(SpentSlots(d)) \in Nat /\ SpentSlots(d)' = SpentSlots(d)
        /\ restored.used[d] + Cardinality(SpentSlots(d)) <= total[d]
    BY <2>1, RootNumbers, SlotsFinite, SameSlots DEF CapacityInv, SpentStaysSpent
  <2>3. n[d] \in Nat
    OBVIOUS
  <2> QED
    BY <2>2, <2>3
<1> QED
  BY <1>1, <1>2, <1>3 DEF CapacityInv, NoOverbooking, SpentStaysSpent

\* Every operation keeps the capacity invariant.
LEMMA NextCapacity == CapacityInv /\ [Next]_vars => CapacityInv'
<1> SUFFICES ASSUME CapacityInv, [Next]_vars PROVE CapacityInv'
  OBVIOUS
<1>0. TypeOK /\ TypeOK'
  BY NextType DEF CapacityInv
<1>1. ASSUME NEW p \in ChildIds \cup {RootId}, NEW c \in ChildIds,
             NEW t \in TaskIds, NEW l \in WorkerLimits,
             AllocateChild(p, c, t, l)
      PROVE  CapacityInv'
  <2>1. ASSUME NEW d \in Dims
        PROVE  RootUsed(d)' + Reserved(d)' <= RootLimits.cap[d]
    <3>1. /\ RootUsed(d) \in Nat /\ RootLimits.cap[d] \in Nat /\ Reserved(d) \in Nat
          /\ RootUsed(d)' = RootUsed(d)
      BY <1>0, <1>1, RootNumbers, SlotsFinite DEF AllocateChild, RootUsed
    <3>2. l.cap[d] \in Nat /\ Reserved(d)' = Reserved(d) + l.cap[d]
      BY <1>0, <1>1, AllocateReserves
    <3>3. l.cap[d] <= RootLimits.cap[d] - RootUsed(d) - Reserved(d)
      BY <1>1 DEF AllocateChild, Available
    <3> QED
      BY <3>1, <3>2, <3>3
  <2>2. WithinGrant'
    <3>1. /\ DOMAIN children' = DOMAIN children \cup {c}
          /\ \A x \in DOMAIN children : x # c /\ children'[x] = children[x]
          /\ \A d \in Dims : children'[c].used[d] = 0
          /\ children'[c].limits = l
      BY <1>1 DEF AllocateChild, NewChild
    <3>2. \A d \in Dims : l.cap[d] \in Nat
      BY <1>0, <1>1, AllocateReserves
    <3> QED
      BY <3>1, <3>2 DEF CapacityInv, WithinGrant
  <2>3. SpentStaysSpent'
    <3>1. restored' = restored /\ total' = total
      BY <1>1 DEF AllocateChild
    <3>2. \A d \in Dims : SpentSlots(d)' = SpentSlots(d)
      BY <1>0, <1>1, AllocateReserves
    <3> QED
      BY <3>1, <3>2 DEF CapacityInv, SpentStaysSpent, Dims
  <2> QED
    BY <1>0, <2>1, <2>2, <2>3 DEF CapacityInv, NoOverbooking
<1>2. CASE ReserveRootModelCall
  <2> DEFINE n == [d \in Counters |-> IF d = "model_calls" THEN 1 ELSE 0]
  <2>1. n \in [Counters -> Nat]
    OBVIOUS
  <2>2. \A d \in Counters : n[d] = 0 \/ n[d] <= Available(d)
    <3>1. RootUsed("model_calls") \in Nat /\ RootLimits.cap["model_calls"] \in Nat
          /\ Reserved("model_calls") \in Nat
      BY <1>0, RootNumbers, SlotsFinite DEF Dims, Counters
    <3>2. 1 <= Available("model_calls")
      BY <1>2, <3>1 DEF ReserveRootModelCall, Available
    <3> QED
      BY <3>2
  <2>3. \A d \in Counters : total'[d] = total[d] + n[d]
    BY <1>0, <1>2 DEF ReserveRootModelCall, TypeOK, Counters
  <2>4. UNCHANGED <<evidence_ids, children, restored>>
    BY <1>2 DEF ReserveRootModelCall
  <2> HIDE DEF n
  <2> QED
    BY <1>0, <2>1, <2>2, <2>3, <2>4, RootUseKeepsCapacity
<1>3. ASSUME NEW i \in 0..MaxUnits, NEW o \in 0..MaxUnits, RecordRootTokens(i, o)
      PROVE  CapacityInv'
  <2> DEFINE n == [d \in Counters |-> IF d = "input_tokens" THEN i
                                      ELSE IF d = "output_tokens" THEN o ELSE 0]
  <2>0. i \in Nat /\ o \in Nat
    BY UnitsAssumption
  <2>1. n \in [Counters -> Nat]
    BY <2>0
  <2>2. \A d \in Counters : n[d] = 0 \/ n[d] <= Available(d)
    BY <1>3 DEF RecordRootTokens
  <2>3. \A d \in Counters : total'[d] = total[d] + n[d]
    BY <1>0, <1>3, <2>0 DEF RecordRootTokens, TypeOK, Counters
  <2>4. UNCHANGED <<evidence_ids, children, restored>>
    BY <1>3 DEF RecordRootTokens
  <2> HIDE DEF n
  <2> QED
    BY <1>0, <2>1, <2>2, <2>3, <2>4, RootUseKeepsCapacity
<1>4. ASSUME NEW c \in ChildIds, ReserveModelCall(c)
      PROVE  CapacityInv'
  <2> DEFINE n == [d \in Dims |-> IF d = "model_calls" THEN 1 ELSE 0]
             r == Charged(children[c], "model_calls", 1)
  <2>0. 1 \in Nat
    OBVIOUS
  <2>1. c \in Open /\ c \in DOMAIN children /\ ~children[c].closed
    BY <1>4 DEF ReserveModelCall, ChildOpenAndTime, Open
  <2>2. /\ children[c] \in ChildState
        /\ r.closed = FALSE
        /\ r.limits = children[c].limits
        /\ r.used = [children[c].used EXCEPT !["model_calls"] = @ + 1]
    <3>1. children[c] \in ChildState /\ "model_calls" \in Dims
      BY <1>0, <2>1 DEF TypeOK, Dims, Counters
    <3> QED
      BY <2>0, <2>1, <3>1, ChargedType
  <2>3. n \in [Dims -> Nat]
    BY <2>0
  <2>4. \A d \in Dims : r.used[d] = children[c].used[d] + n[d]
    BY <1>0, <2>0, <2>1, <2>2, ChildNumbers DEF ChildState
  <2>5. \A d \in Dims : Fits(c, d, n[d])
    BY <1>0, <1>4, <2>0, <2>1, ChildNumbers
       DEF ReserveModelCall, Fits, CapacityInv, WithinGrant
  <2>6. \A d \in Counters : total'[d] = total[d] + n[d]
    BY <1>0, <1>4, <2>0 DEF ReserveModelCall, TypeOK, Counters, Dims
  <2>7. \A d \in Dims : RootUsed(d)' <= RootUsed(d) + n[d]
    <3>1. evidence_ids' = evidence_ids
      BY <1>4 DEF ReserveModelCall
    <3>2. "evidence" \in Dims /\ n["evidence"] = 0
      BY DEF Dims
    <3>3. RootUsed("evidence") \in Nat /\ RootUsed("evidence")' = RootUsed("evidence")
      BY <1>0, <3>1, <3>2, RootNumbers DEF RootUsed
    <3>4. \A d \in Counters : total'[d] <= total[d] + n[d]
      BY <1>0, <2>0, <2>6 DEF TypeOK, Counters
    <3> QED
      BY <3>2, <3>3, <3>4 DEF RootUsed, Dims, Counters
  <2>8. children' = [children EXCEPT ![c] = r] /\ restored' = restored
    BY <1>4 DEF ReserveModelCall
  <2>9. OnlyChild(c) /\ children'[c] = r
    BY <2>1, <2>2, <2>8 DEF OnlyChild
  <2>10. \A d \in Dims : children'[c].used[d] = children[c].used[d] + n[d]
    BY <2>4, <2>9
  <2> HIDE DEF n, r
  <2> QED
    BY <1>0, <2>1, <2>3, <2>5, <2>6, <2>7, <2>8, <2>9, <2>10, ChildUseKeepsCapacity
<1>5. ASSUME NEW c \in ChildIds, NEW s \in Signatures, ReserveToolCall(c, s)
      PROVE  CapacityInv'
  <2> DEFINE n == [d \in Dims |-> IF d = "tool_calls" THEN 1 ELSE 0]
             r == Signed(Charged(children[c], "tool_calls", 1), s)
  <2>0. 1 \in Nat
    OBVIOUS
  <2>1. c \in Open /\ c \in DOMAIN children /\ ~children[c].closed
    BY <1>5 DEF ReserveToolCall, ChildOpenAndTime, Open
  <2>2. /\ children[c] \in ChildState
        /\ r.closed = FALSE
        /\ r.limits = children[c].limits
        /\ r.used = [children[c].used EXCEPT !["tool_calls"] = @ + 1]
    <3> DEFINE q == Charged(children[c], "tool_calls", 1)
    <3>1. children[c] \in ChildState /\ "tool_calls" \in Dims
      BY <1>0, <2>1, ChildNumbers DEF Dims, Counters
    <3>2. /\ q \in ChildState /\ q.closed = children[c].closed
          /\ q.limits = children[c].limits
          /\ q.used = [children[c].used EXCEPT !["tool_calls"] = @ + 1]
      BY <2>0, <3>1, ChargedType
    <3>3. r = Signed(q, s)
      OBVIOUS
    <3> HIDE DEF q, r
    <3>4. /\ r.closed = q.closed /\ r.limits = q.limits
          /\ r.used = q.used
      BY <2>0, <3>1, <3>2, <3>3, ChargedType, SignedType
    <3> QED
      BY <2>1, <3>1, <3>2, <3>4
  <2>3. n \in [Dims -> Nat]
    BY <2>0
  <2>4. \A d \in Dims : r.used[d] = children[c].used[d] + n[d]
    BY <1>0, <2>0, <2>1, <2>2, ChildNumbers DEF ChildState
  <2>5. \A d \in Dims : Fits(c, d, n[d])
    BY <1>0, <1>5, <2>0, <2>1, ChildNumbers
       DEF ReserveToolCall, Fits, CapacityInv, WithinGrant
  <2>6. \A d \in Counters : total'[d] = total[d] + n[d]
    BY <1>0, <1>5, <2>0 DEF ReserveToolCall, TypeOK, Counters, Dims
  <2>7. \A d \in Dims : RootUsed(d)' <= RootUsed(d) + n[d]
    <3>1. evidence_ids' = evidence_ids
      BY <1>5 DEF ReserveToolCall
    <3>2. "evidence" \in Dims /\ n["evidence"] = 0
      BY DEF Dims
    <3>3. RootUsed("evidence") \in Nat /\ RootUsed("evidence")' = RootUsed("evidence")
      BY <1>0, <3>1, <3>2, RootNumbers DEF RootUsed
    <3>4. \A d \in Counters : total'[d] <= total[d] + n[d]
      BY <1>0, <2>0, <2>6 DEF TypeOK, Counters
    <3> QED
      BY <3>2, <3>3, <3>4 DEF RootUsed, Dims, Counters
  <2>8. children' = [children EXCEPT ![c] = r] /\ restored' = restored
    BY <1>5 DEF ReserveToolCall
  <2>9. OnlyChild(c) /\ children'[c] = r
    BY <2>1, <2>2, <2>8 DEF OnlyChild
  <2>10. \A d \in Dims : children'[c].used[d] = children[c].used[d] + n[d]
    BY <2>4, <2>9
  <2> HIDE DEF n, r
  <2> QED
    BY <1>0, <2>1, <2>3, <2>5, <2>6, <2>7, <2>8, <2>9, <2>10, ChildUseKeepsCapacity
<1>6. ASSUME NEW c \in ChildIds, NEW i \in 0..MaxUnits, NEW o \in 0..MaxUnits,
             RecordTokens(c, i, o)
      PROVE  CapacityInv'
  <2> DEFINE n == [d \in Dims |-> IF d = "input_tokens" THEN i
                                  ELSE IF d = "output_tokens" THEN o ELSE 0]
             r == Charged(Charged(children[c], "input_tokens", i), "output_tokens", o)
  <2>0. i \in Nat /\ o \in Nat
    BY UnitsAssumption
  <2>1. c \in Open /\ c \in DOMAIN children /\ ~children[c].closed
    BY <1>6 DEF RecordTokens, ChildOpenAndTime, Open
  <2>2. /\ children[c] \in ChildState
        /\ r.closed = FALSE
        /\ r.limits = children[c].limits
        /\ r.used = [[children[c].used EXCEPT !["input_tokens"] = @ + i]
                      EXCEPT !["output_tokens"] = @ + o]
    <3> DEFINE q == Charged(children[c], "input_tokens", i)
    <3>1. children[c] \in ChildState /\ "input_tokens" \in Dims
          /\ "output_tokens" \in Dims
      BY <1>0, <2>1, ChildNumbers DEF Dims, Counters
    <3>2. /\ q \in ChildState /\ q.closed = children[c].closed
          /\ q.limits = children[c].limits
          /\ q.used = [children[c].used EXCEPT !["input_tokens"] = @ + i]
      BY <2>0, <3>1, ChargedType
    <3>3. r = Charged(q, "output_tokens", o)
      OBVIOUS
    <3> HIDE DEF q, r
    <3>4. /\ r.closed = q.closed /\ r.limits = q.limits
          /\ r.used = [q.used EXCEPT !["output_tokens"] = @ + o]
      BY <2>0, <3>1, <3>2, <3>3, ChargedType, SignedType
    <3> QED
      BY <2>1, <3>1, <3>2, <3>4
  <2>3. n \in [Dims -> Nat]
    BY <2>0
  <2>4. \A d \in Dims : r.used[d] = children[c].used[d] + n[d]
    BY <1>0, <2>0, <2>1, <2>2, ChildNumbers DEF ChildState
  <2>5. \A d \in Dims : Fits(c, d, n[d])
    BY <1>0, <1>6, <2>0, <2>1, ChildNumbers
       DEF RecordTokens, Fits, CapacityInv, WithinGrant
  <2>6. \A d \in Counters : total'[d] = total[d] + n[d]
    BY <1>0, <1>6, <2>0 DEF RecordTokens, TypeOK, Counters, Dims
  <2>7. \A d \in Dims : RootUsed(d)' <= RootUsed(d) + n[d]
    <3>1. evidence_ids' = evidence_ids
      BY <1>6 DEF RecordTokens
    <3>2. "evidence" \in Dims /\ n["evidence"] = 0
      BY DEF Dims
    <3>3. RootUsed("evidence") \in Nat /\ RootUsed("evidence")' = RootUsed("evidence")
      BY <1>0, <3>1, <3>2, RootNumbers DEF RootUsed
    <3>4. \A d \in Counters : total'[d] <= total[d] + n[d]
      BY <1>0, <2>0, <2>6 DEF TypeOK, Counters
    <3> QED
      BY <3>2, <3>3, <3>4 DEF RootUsed, Dims, Counters
  <2>8. children' = [children EXCEPT ![c] = r] /\ restored' = restored
    BY <1>6 DEF RecordTokens
  <2>9. OnlyChild(c) /\ children'[c] = r
    BY <2>1, <2>2, <2>8 DEF OnlyChild
  <2>10. \A d \in Dims : children'[c].used[d] = children[c].used[d] + n[d]
    BY <2>4, <2>9
  <2> HIDE DEF n, r
  <2> QED
    BY <1>0, <2>1, <2>3, <2>5, <2>6, <2>7, <2>8, <2>9, <2>10, ChildUseKeepsCapacity
<1>7. ASSUME NEW c \in ChildIds, NEW E \in SUBSET EvidenceIds, RecordEvidence(c, E)
      PROVE  CapacityInv'
  <2> DEFINE n == [d \in Dims |-> IF d = "evidence" THEN Cardinality(E) ELSE 0]
             r == Charged(children[c], "evidence", Cardinality(E))
  <2>0. Cardinality(E) \in Nat
    BY IdsAssumption, FS_Subset, FS_CardinalityType
  <2>1. c \in Open /\ c \in DOMAIN children /\ ~children[c].closed
    BY <1>7 DEF RecordEvidence, ChildOpenAndTime, Open
  <2>2. /\ children[c] \in ChildState
        /\ r.closed = FALSE
        /\ r.limits = children[c].limits
        /\ r.used = [children[c].used EXCEPT !["evidence"] = @ + Cardinality(E)]
    <3>1. children[c] \in ChildState /\ "evidence" \in Dims
      BY <1>0, <2>1 DEF TypeOK, Dims, Counters
    <3> QED
      BY <2>0, <2>1, <3>1, ChargedType
  <2>3. n \in [Dims -> Nat]
    BY <2>0
  <2>4. \A d \in Dims : r.used[d] = children[c].used[d] + n[d]
    BY <1>0, <2>0, <2>1, <2>2, ChildNumbers DEF ChildState
  <2>5. \A d \in Dims : Fits(c, d, n[d])
    BY <1>0, <1>7, <2>0, <2>1, ChildNumbers
       DEF RecordEvidence, Fits, CapacityInv, WithinGrant
  <2>6. \A d \in Counters : total'[d] = total[d] + n[d]
    BY <1>0, <1>7, <2>0 DEF RecordEvidence, TypeOK, Counters, Dims
  <2>7. \A d \in Dims : RootUsed(d)' <= RootUsed(d) + n[d]
    <3>1. IsFiniteSet(evidence_ids) /\ IsFiniteSet(E)
      BY <1>0, IdsAssumption, FS_Subset DEF TypeOK
    <3>2. Cardinality(evidence_ids \cup E)
            = Cardinality(evidence_ids) + Cardinality(E)
                - Cardinality(evidence_ids \cap E)
      BY <3>1, FS_Union
    <3>3. Cardinality(evidence_ids \cap E) \in Nat
      BY <3>1, FS_Intersection, FS_CardinalityType
    <3>4. Cardinality(evidence_ids) \in Nat
      BY <3>1, FS_CardinalityType
    <3>5. evidence_ids' = evidence_ids \cup E
      BY <1>7 DEF RecordEvidence
    <3>6. Cardinality(evidence_ids') <= Cardinality(evidence_ids) + Cardinality(E)
      BY <2>0, <3>2, <3>3, <3>4, <3>5
    <3>7. \A d \in Counters : total'[d] <= total[d] + n[d]
      BY <1>0, <2>0, <2>6 DEF TypeOK, Counters
    <3> QED
      BY <3>6, <3>7 DEF RootUsed, Dims, Counters
  <2>8. children' = [children EXCEPT ![c] = r] /\ restored' = restored
    BY <1>7 DEF RecordEvidence
  <2>9. OnlyChild(c) /\ children'[c] = r
    BY <2>1, <2>2, <2>8 DEF OnlyChild
  <2>10. \A d \in Dims : children'[c].used[d] = children[c].used[d] + n[d]
    BY <2>4, <2>9
  <2> HIDE DEF n, r
  <2> QED
    BY <1>0, <2>1, <2>3, <2>5, <2>6, <2>7, <2>8, <2>9, <2>10, ChildUseKeepsCapacity
<1>8. ASSUME NEW c \in ChildIds, CloseChild(c)
      PROVE  CapacityInv'
  <2>1. UNCHANGED <<total, evidence_ids, restored>>
    BY <1>8 DEF CloseChild
  <2>2. \A d \in Dims : Reserved(d)' <= Reserved(d) /\ SpentSlots(d)' = SpentSlots(d)
    BY <1>0, <1>8, CloseReleases
  <2>3. ASSUME NEW d \in Dims
        PROVE  RootUsed(d)' + Reserved(d)' <= RootLimits.cap[d]
    <3>1. /\ RootUsed(d) \in Nat /\ RootUsed(d)' = RootUsed(d)
          /\ RootLimits.cap[d] \in Nat
      BY <1>0, <2>1, RootNumbers DEF RootUsed
    <3>2. Reserved(d) \in Nat /\ Reserved(d)' \in Nat
      <4>1. IsFiniteSet(ReservedSlots(d))
        BY SlotsFinite
      <4>2. ReservedSlots(d)' \subseteq Slots /\ IsFiniteSet(Slots)
        <5>1. IsFiniteSet(1..MaxUnits)
          <6>1. 1 \in Int /\ MaxUnits \in Int
            BY UnitsAssumption
          <6> QED
            BY <6>1, FS_Interval
        <5> QED
          BY <5>1, IdsAssumption, FS_Product DEF ReservedSlots, Slots
      <4> QED
        BY <4>1, <4>2, FS_Subset, FS_CardinalityType DEF Reserved
    <3>3. RootUsed(d) + Reserved(d) <= RootLimits.cap[d]
      BY DEF CapacityInv, NoOverbooking
    <3> QED
      BY <2>2, <3>1, <3>2, <3>3
  <2>4. WithinGrant'
    BY <1>0, <1>8 DEF CloseChild, CapacityInv, WithinGrant, TypeOK, ChildState
  <2>5. SpentStaysSpent'
    BY <2>1, <2>2 DEF CapacityInv, SpentStaysSpent, Dims
  <2> QED
    BY <1>0, <2>3, <2>4, <2>5 DEF CapacityInv, NoOverbooking
<1>9. ASSUME UNCHANGED <<total, evidence_ids, children, restored>>
      PROVE  CapacityInv'
  <2>1. \A d \in Dims : /\ RootUsed(d)' = RootUsed(d) /\ Reserved(d)' = Reserved(d)
                        /\ SpentSlots(d)' = SpentSlots(d)
    BY <1>9, SameSlots DEF RootUsed
  <2>2. WithinGrant' /\ NoOverbooking' /\ SpentStaysSpent'
    BY <1>9, <2>1 DEF CapacityInv, WithinGrant, NoOverbooking, SpentStaysSpent, Dims
  <2> QED
    BY <1>0, <2>2 DEF CapacityInv
<1>10. CASE Tick
  BY <1>9, <1>10 DEF Tick
<1>11. CASE UNCHANGED vars
  BY <1>9, <1>11 DEF vars
<1> QED
  BY <1>1, <1>2, <1>3, <1>4, <1>5, <1>6, <1>7, <1>8, <1>10, <1>11 DEF Next

\* The capacity invariant and its strengthening hold in every reachable state.
THEOREM CapacityInvariant == Spec => []CapacityInv
BY InitCapacity, NextCapacity, PTL DEF Spec

\* For every number of workers, every grant and every order of reserving,
\* consuming and closing, the root's limits are never overbooked.
THEOREM NeverOverbooked == Spec => []NoOverbooking
<1>1. CapacityInv => NoOverbooking
  BY DEF CapacityInv
<1> QED
  BY <1>1, CapacityInvariant, PTL

\* What any child ever consumed stays charged to the root, closed or not.
THEOREM SpentNeverRefunded == Spec => []SpentStaysSpent
<1>1. CapacityInv => SpentStaysSpent
  BY DEF CapacityInv
<1> QED
  BY <1>1, CapacityInvariant, PTL

(***************************************************************************)
(* Consequences and the remaining properties.                              *)
(***************************************************************************)

\* The unused part of one open child's evidence grant is reserved.
LEMMA RemainderReserved ==
  ASSUME TypeOK, WithinGrant, NEW c \in Open
  PROVE  children[c].limits.cap["evidence"] - children[c].used["evidence"]
           <= Reserved("evidence")
<1> DEFINE u == children[c].used["evidence"]
           g == children[c].limits.cap["evidence"]
           B == Block(c, u, g)
<1>1. /\ c \in DOMAIN children /\ c \in ChildIds
      /\ u \in Nat /\ g \in 0..MaxUnits /\ g \in Nat /\ u <= g
  BY ChildNumbers, UnitsAssumption DEF Open, WithinGrant, Dims
<1>2. B \in SUBSET ReservedSlots("evidence")
  <2>1. \A s \in B : s \in Slots /\ s[1] = c /\ u < s[2] /\ s[2] <= g
    BY <1>1, UnitsAssumption DEF Slots, Block
  <2> QED
    BY <2>1 DEF ReservedSlots
<1>3. Cardinality(B) = g - u
  <2> HIDE DEF u, g
  <2> QED
    BY <1>1, BlockCount
<1>4. IsFiniteSet(ReservedSlots("evidence"))
  BY SlotsFinite
<1>5. Cardinality(B) <= Cardinality(ReservedSlots("evidence"))
  BY <1>2, <1>4, FS_Subset
<1> QED
  BY <1>3, <1>5 DEF Reserved

\* Evidence that fits an open child's grant always fits the root: the root's
\* own refusal in record_evidence can never take back what was granted.
THEOREM EvidenceGrantAlwaysHonoured == Spec => []EvidenceGrantHonoured
<1>1. CapacityInv => EvidenceGrantHonoured
  <2> SUFFICES ASSUME CapacityInv, NEW c \in Open, NEW E \in SUBSET EvidenceIds,
                      Fits(c, "evidence", Cardinality(E))
               PROVE  Cardinality(evidence_ids \cup E) <= RootLimits.cap["evidence"]
    BY DEF EvidenceGrantHonoured
  <2> USE DEF CapacityInv
  <2>1. IsFiniteSet(evidence_ids) /\ IsFiniteSet(E)
    BY IdsAssumption, FS_Subset DEF TypeOK
  <2>2. /\ Cardinality(evidence_ids) \in Nat /\ Cardinality(E) \in Nat
        /\ Cardinality(evidence_ids \cap E) \in Nat
    BY <2>1, FS_CardinalityType, FS_Intersection
  <2>3. Cardinality(evidence_ids \cup E) <= Cardinality(evidence_ids) + Cardinality(E)
    <3>1. Cardinality(evidence_ids \cup E)
            = Cardinality(evidence_ids) + Cardinality(E) - Cardinality(evidence_ids \cap E)
      BY <2>1, FS_Union
    <3> QED
      BY <2>2, <3>1
  <2>4. Cardinality(evidence_ids) + Reserved("evidence") <= RootLimits.cap["evidence"]
    BY DEF NoOverbooking, RootUsed, Dims
  <2>5. children[c].limits.cap["evidence"] - children[c].used["evidence"]
          <= Reserved("evidence")
    BY RemainderReserved
  <2>6. /\ children[c].limits.cap["evidence"] \in Nat
        /\ children[c].used["evidence"] \in Nat
        /\ RootLimits.cap["evidence"] \in Nat
        /\ Reserved("evidence") \in Nat
    BY ChildNumbers, RootNumbers, SlotsFinite, UnitsAssumption DEF Open, Dims
  <2>7. children[c].used["evidence"] + Cardinality(E) <= children[c].limits.cap["evidence"]
    BY DEF Fits
  <2>8. Cardinality(evidence_ids \cup E) \in Nat
    BY <2>1, FS_Union, FS_CardinalityType
  <2> QED
    BY <2>2, <2>3, <2>4, <2>5, <2>6, <2>7, <2>8
<1> QED
  BY <1>1, CapacityInvariant, PTL

\* A child's record keeps the limits and the start it was allocated with.
LEMMA LimitsNeverChange ==
  ASSUME TypeOK, [Next]_vars, NEW c \in DOMAIN children
  PROVE  /\ c \in DOMAIN children'
         /\ children'[c].limits = children[c].limits
         /\ children'[c].started = children[c].started
         /\ restored' = restored
         /\ children[c].closed => children'[c] = children[c]
<1>1. CASE UNCHANGED <<children, restored>>
  BY <1>1
<1>2. ASSUME NEW p \in ChildIds \cup {RootId}, NEW x \in ChildIds,
             NEW t \in TaskIds, NEW l \in WorkerLimits, AllocateChild(p, x, t, l)
      PROVE  c \in DOMAIN children' /\ children'[c] = children[c] /\ restored' = restored
  BY <1>2 DEF AllocateChild
<1>4. children[c] \in ChildState
  BY DEF TypeOK
<1>5. ASSUME NEW x \in Open
      PROVE  x \in DOMAIN children /\ children[x] \in ChildState
  BY <1>5 DEF Open, TypeOK
<1>6. ASSUME NEW x \in ChildIds, ReserveModelCall(x)
      PROVE  /\ c \in DOMAIN children' /\ restored' = restored
             /\ children'[c].limits = children[c].limits
             /\ children'[c].started = children[c].started
             /\ children[c].closed => children'[c] = children[c]
  <2> DEFINE q == Charged(children[x], "model_calls", 1)
  <2>1. x \in Open /\ restored' = restored /\ children' = [children EXCEPT ![x] = q]
    BY <1>6 DEF ReserveModelCall, ChildOpenAndTime
  <2>2. /\ children[x] \in ChildState /\ "model_calls" \in Dims /\ 1 \in Nat
    BY <1>5, <2>1 DEF Dims, Counters
  <2>3. /\ q \in ChildState /\ q.limits = children[x].limits
        /\ q.started = children[x].started
    BY <2>2, ChargedType
  <2> HIDE DEF q
  <2> QED
    BY <2>1, <2>3, <1>4 DEF Open
<1>7. ASSUME NEW x \in ChildIds, NEW s \in Signatures, ReserveToolCall(x, s)
      PROVE  /\ c \in DOMAIN children' /\ restored' = restored
             /\ children'[c].limits = children[c].limits
             /\ children'[c].started = children[c].started
             /\ children[c].closed => children'[c] = children[c]
  <2> DEFINE q == Charged(children[x], "tool_calls", 1)
  <2>1. x \in Open /\ restored' = restored
        /\ children' = [children EXCEPT ![x] = Signed(q, s)]
    BY <1>7 DEF ReserveToolCall, ChildOpenAndTime
  <2>2. /\ children[x] \in ChildState /\ "tool_calls" \in Dims /\ 1 \in Nat
    BY <1>5, <2>1 DEF Dims, Counters
  <2>3. /\ q \in ChildState /\ q.limits = children[x].limits
        /\ q.started = children[x].started
    BY <2>2, ChargedType
  <2> HIDE DEF q
  <2> QED
    BY <2>1, <2>3, <1>4, SignedType DEF Open
<1>8. ASSUME NEW x \in ChildIds, NEW i \in 0..MaxUnits, NEW o \in 0..MaxUnits,
             RecordTokens(x, i, o)
      PROVE  /\ c \in DOMAIN children' /\ restored' = restored
             /\ children'[c].limits = children[c].limits
             /\ children'[c].started = children[c].started
             /\ children[c].closed => children'[c] = children[c]
  <2> DEFINE q == Charged(children[x], "input_tokens", i)
  <2>1. x \in Open /\ restored' = restored
        /\ children' = [children EXCEPT ![x] = Charged(q, "output_tokens", o)]
    BY <1>8 DEF RecordTokens, ChildOpenAndTime
  <2>2. children[x] \in ChildState /\ i \in Nat /\ "input_tokens" \in Dims
    BY <1>5, <2>1, UnitsAssumption DEF Dims, Counters
  <2>3. /\ q \in ChildState /\ q.limits = children[x].limits
        /\ q.started = children[x].started
    BY <2>2, ChargedType
  <2> HIDE DEF q
  <2> DEFINE r == Charged(q, "output_tokens", o)
  <2>4. o \in Nat /\ "output_tokens" \in Dims
    BY UnitsAssumption DEF Dims, Counters
  <2>5. /\ r \in ChildState /\ r.limits = q.limits /\ r.started = q.started
    BY <2>3, <2>4, ChargedType
  <2>6. children' = [children EXCEPT ![x] = r]
    BY <2>1
  <2> HIDE DEF r
  <2> QED
    BY <2>1, <2>3, <2>5, <2>6, <1>4 DEF Open
<1>9. ASSUME NEW x \in ChildIds, NEW E \in SUBSET EvidenceIds, RecordEvidence(x, E)
      PROVE  /\ c \in DOMAIN children' /\ restored' = restored
             /\ children'[c].limits = children[c].limits
             /\ children'[c].started = children[c].started
             /\ children[c].closed => children'[c] = children[c]
  <2> DEFINE q == Charged(children[x], "evidence", Cardinality(E))
  <2>1. x \in Open /\ restored' = restored /\ children' = [children EXCEPT ![x] = q]
    BY <1>9 DEF RecordEvidence, ChildOpenAndTime
  <2>2. /\ children[x] \in ChildState /\ "evidence" \in Dims
        /\ Cardinality(E) \in Nat
    BY <1>5, <2>1, IdsAssumption, FS_Subset, FS_CardinalityType DEF Dims
  <2>3. /\ q \in ChildState /\ q.limits = children[x].limits
        /\ q.started = children[x].started
    BY <2>2, ChargedType
  <2> HIDE DEF q
  <2> QED
    BY <2>1, <2>3, <1>4 DEF Open
<1>10. ASSUME NEW x \in ChildIds, CloseChild(x)
       PROVE  /\ c \in DOMAIN children' /\ restored' = restored
              /\ children'[c].limits = children[c].limits
              /\ children'[c].started = children[c].started
              /\ children[c].closed => children'[c] = children[c]
  <2>1. /\ x \in DOMAIN children /\ restored' = restored
        /\ children' = [children EXCEPT ![x] = [children[x] EXCEPT !.closed = TRUE]]
    BY <1>10 DEF CloseChild
  <2>2. children[x] \in ChildState
    BY <2>1 DEF TypeOK
  <2>3. children[x].closed = TRUE =>
          [children[x] EXCEPT !.closed = TRUE] = children[x]
    BY <2>2 DEF ChildState
  <2>4. children[x].closed \in BOOLEAN
    BY <2>2 DEF ChildState
  <2> QED
    BY <2>1, <2>2, <2>3, <2>4, <1>4 DEF ChildState
<1> QED
  BY <1>1, <1>2, <1>6, <1>7, <1>8, <1>9, <1>10
     DEF Next, ReserveRootModelCall, RecordRootTokens, Tick, vars

\* A closed child is never reopened and never consumes again.
THEOREM ClosedStaysClosed == Spec => ClosedChildIsFrozen
<1>1. TypeOK /\ [Next]_vars =>
        [\A c \in DOMAIN children :
           children[c].closed => c \in DOMAIN children' /\ children'[c] = children[c]]_vars
  BY LimitsNeverChange
<1> QED
  BY <1>1, TypeCorrect, PTL DEF Spec, ClosedChildIsFrozen

\* Every worker's deadline lies within the root's shared deadline.
THEOREM DeadlinesNested == Spec => []ChildDeadlineWithinRoot
<1>1. Init => ChildDeadlineWithinRoot
  BY DEF Init, ChildDeadlineWithinRoot
<1>2. TypeOK /\ ChildDeadlineWithinRoot /\ [Next]_vars => ChildDeadlineWithinRoot'
  <2> SUFFICES ASSUME TypeOK, ChildDeadlineWithinRoot, [Next]_vars,
                      NEW c \in DOMAIN children'
               PROVE  restored'.duration + children'[c].started
                        + children'[c].limits.timeout <= RootLimits.timeout
    BY DEF ChildDeadlineWithinRoot
  <2>1. CASE c \in DOMAIN children
    BY <2>1, LimitsNeverChange DEF ChildDeadlineWithinRoot
  <2>2. CASE c \notin DOMAIN children
    <3>1. PICK p \in ChildIds \cup {RootId}, t \in TaskIds, l \in WorkerLimits :
            AllocateChild(p, c, t, l)
      <4>1. ASSUME NEW x \in ChildIds, ReserveModelCall(x)
            PROVE  DOMAIN children' = DOMAIN children
        BY <4>1 DEF ReserveModelCall
      <4>2. ASSUME NEW x \in ChildIds, NEW s \in Signatures, ReserveToolCall(x, s)
            PROVE  DOMAIN children' = DOMAIN children
        BY <4>2 DEF ReserveToolCall
      <4>3. ASSUME NEW x \in ChildIds, NEW i \in 0..MaxUnits, NEW o \in 0..MaxUnits,
                   RecordTokens(x, i, o)
            PROVE  DOMAIN children' = DOMAIN children
        BY <4>3 DEF RecordTokens
      <4>4. ASSUME NEW x \in ChildIds, NEW E \in SUBSET EvidenceIds,
                   RecordEvidence(x, E)
            PROVE  DOMAIN children' = DOMAIN children
        BY <4>4 DEF RecordEvidence
      <4>5. ASSUME NEW x \in ChildIds, CloseChild(x)
            PROVE  DOMAIN children' = DOMAIN children
        BY <4>5 DEF CloseChild
      <4>6. ASSUME children' = children
            PROVE  DOMAIN children' = DOMAIN children
        BY <4>6
      <4>7. PICK p \in ChildIds \cup {RootId}, x \in ChildIds, t \in TaskIds,
                 l \in WorkerLimits : AllocateChild(p, x, t, l)
        BY <2>2, <4>1, <4>2, <4>3, <4>4, <4>5, <4>6
           DEF Next, ReserveRootModelCall, RecordRootTokens, Tick, vars
      <4>8. x = c
        BY <2>2, <4>7 DEF AllocateChild
      <4> QED
        BY <4>7, <4>8
    <3>2. /\ children'[c].started = now /\ children'[c].limits = l
          /\ restored' = restored
          /\ l.timeout <= RootLimits.timeout - (restored.duration + now)
      BY <3>1 DEF AllocateChild, NewChild, RootElapsed
    <3>3. /\ l.timeout \in Nat /\ RootLimits.timeout \in Nat
          /\ restored.duration \in Nat /\ now \in Nat
      BY LimitsAssumption DEF TypeOK, WorkerLimitsType, RootLimitsType, RestoreType
    <3> QED
      BY <3>2, <3>3
  <2> QED
    BY <2>1, <2>2
<1> QED
  BY <1>1, <1>2, TypeCorrect, PTL DEF Spec


(***************************************************************************)
(* Repeated tool calls.                                                    *)
(***************************************************************************)

\* What an operation does to the calls a child has made: nothing, or it counts
\* one more call of a signature that may still be repeated.
SameCalls(c) ==
  /\ children'[c].signatures = children[c].signatures
  /\ children'[c].used["tool_calls"] = children[c].used["tool_calls"]

OneMoreCall(c, s) ==
  /\ children[c].signatures[s] < children[c].limits.repeat
  /\ children'[c].signatures
       = [children[c].signatures EXCEPT ![s] = children[c].signatures[s] + 1]
  /\ children'[c].used["tool_calls"] = children[c].used["tool_calls"] + 1

\* Charging another dimension leaves the tool calls alone.
LEMMA ChargingKeepsCalls ==
  ASSUME NEW r \in ChildState, NEW d \in Dims \ {"tool_calls"}, NEW n \in Nat
  PROVE  /\ Charged(r, d, n).signatures = r.signatures
         /\ Charged(r, d, n).used["tool_calls"] = r.used["tool_calls"]
BY DEF Charged, ChildState, Dims, Counters

\* Only reserve_tool_call of a child counts its calls, one call of one signature
\* at a time and only below the limit of repetitions.
LEMMA CallsCountedOneByOne ==
  ASSUME TypeOK, [Next]_vars, NEW c \in DOMAIN children
  PROVE  SameCalls(c) \/ \E s \in Signatures : OneMoreCall(c, s)
<1>1. CASE UNCHANGED children
  BY <1>1 DEF SameCalls
<1>2. ASSUME NEW p \in ChildIds \cup {RootId}, NEW x \in ChildIds,
             NEW t \in TaskIds, NEW l \in WorkerLimits, AllocateChild(p, x, t, l)
      PROVE  SameCalls(c)
  BY <1>2 DEF AllocateChild, SameCalls
<1>3. ASSUME NEW x \in Open
      PROVE  x \in DOMAIN children /\ children[x] \in ChildState
  BY <1>3 DEF Open, TypeOK
<1>4. children \in [DOMAIN children -> ChildState] /\ children[c] \in ChildState
  BY DEF TypeOK
<1>5. ASSUME NEW x \in ChildIds, ReserveModelCall(x)
      PROVE  SameCalls(c)
  <2> DEFINE q == Charged(children[x], "model_calls", 1)
  <2>1. x \in Open /\ children' = [children EXCEPT ![x] = q]
    BY <1>5 DEF ReserveModelCall, ChildOpenAndTime
  <2>2. /\ q.signatures = children[x].signatures
        /\ q.used["tool_calls"] = children[x].used["tool_calls"]
    BY <1>3, <2>1, ChargingKeepsCalls DEF Dims, Counters
  <2> HIDE DEF q
  <2> QED
    BY <1>3, <1>4, <2>1, <2>2 DEF SameCalls
<1>6. ASSUME NEW x \in ChildIds, NEW s \in Signatures, ReserveToolCall(x, s)
      PROVE  SameCalls(c) \/ OneMoreCall(c, s)
  <2> DEFINE q == Charged(children[x], "tool_calls", 1)
             r == Signed(q, s)
  <2>1. /\ x \in Open /\ children' = [children EXCEPT ![x] = r]
        /\ children[x].signatures[s] < children[x].limits.repeat
    BY <1>6 DEF ReserveToolCall, ChildOpenAndTime, RepeatAllowed
  <2>2. /\ q \in ChildState /\ q.signatures = children[x].signatures
        /\ q.used = [children[x].used EXCEPT !["tool_calls"] = @ + 1]
    BY <1>3, <2>1, ChargedType DEF Dims, Counters
  <2>3. children[x].used \in [Dims -> Nat]
    BY <1>3, <2>1 DEF ChildState
  <2>4. q.used["tool_calls"] = children[x].used["tool_calls"] + 1
    BY <2>2, <2>3 DEF Dims, Counters
  <2> HIDE DEF q
  <2>5. /\ r.used = q.used
        /\ r.signatures = [q.signatures EXCEPT ![s] = @ + 1]
    BY <2>2, SignedType
  <2> HIDE DEF r
  <2>6. CASE x = c
    BY <1>3, <1>4, <2>1, <2>2, <2>4, <2>5, <2>6 DEF OneMoreCall
  <2>7. CASE x # c
    BY <1>4, <2>1, <2>7 DEF SameCalls
  <2> QED
    BY <2>6, <2>7
<1>7. ASSUME NEW x \in ChildIds, NEW i \in 0..MaxUnits, NEW o \in 0..MaxUnits,
             RecordTokens(x, i, o)
      PROVE  SameCalls(c)
  <2> DEFINE q == Charged(children[x], "input_tokens", i)
             r == Charged(q, "output_tokens", o)
  <2>1. x \in Open /\ children' = [children EXCEPT ![x] = r]
    BY <1>7 DEF RecordTokens, ChildOpenAndTime
  <2>2. i \in Nat /\ o \in Nat
    BY UnitsAssumption
  <2>3. /\ q.signatures = children[x].signatures
        /\ q.used["tool_calls"] = children[x].used["tool_calls"]
    BY <1>3, <2>1, <2>2, ChargingKeepsCalls DEF Dims, Counters
  <2>5. q \in ChildState
    BY <1>3, <2>1, <2>2, ChargedType DEF Dims, Counters
  <2> HIDE DEF q
  <2>4. /\ r.signatures = children[x].signatures
        /\ r.used["tool_calls"] = children[x].used["tool_calls"]
    BY <2>2, <2>3, <2>5, ChargingKeepsCalls DEF Dims, Counters
  <2> HIDE DEF r
  <2> QED
    BY <1>3, <1>4, <2>1, <2>4 DEF SameCalls
<1>8. ASSUME NEW x \in ChildIds, NEW E \in SUBSET EvidenceIds, RecordEvidence(x, E)
      PROVE  SameCalls(c)
  <2> DEFINE q == Charged(children[x], "evidence", Cardinality(E))
  <2>1. x \in Open /\ children' = [children EXCEPT ![x] = q]
    BY <1>8 DEF RecordEvidence, ChildOpenAndTime
  <2>2. Cardinality(E) \in Nat
    BY IdsAssumption, FS_Subset, FS_CardinalityType
  <2>3. /\ q.signatures = children[x].signatures
        /\ q.used["tool_calls"] = children[x].used["tool_calls"]
    BY <1>3, <2>1, <2>2, ChargingKeepsCalls DEF Dims, Counters
  <2> HIDE DEF q
  <2> QED
    BY <1>3, <1>4, <2>1, <2>3 DEF SameCalls
<1>9. ASSUME NEW x \in ChildIds, CloseChild(x)
      PROVE  SameCalls(c)
  <2>1. children' = [children EXCEPT ![x] = [children[x] EXCEPT !.closed = TRUE]]
    BY <1>9 DEF CloseChild
  <2>2. x \in DOMAIN children /\ children[x] \in ChildState
    BY <1>9 DEF CloseChild, TypeOK
  <2> QED
    BY <1>4, <2>1, <2>2 DEF SameCalls, ChildState
<1> QED
  BY <1>1, <1>2, <1>5, <1>6, <1>7, <1>8, <1>9
     DEF Next, ReserveRootModelCall, RecordRootTokens, Tick, vars

\* A new child starts with the calls made before the resume and has used nothing.
LEMMA NewChildCalls ==
  ASSUME TypeOK, [Next]_vars, NEW c \in DOMAIN children' \ DOMAIN children
  PROVE  /\ children'[c].signatures = restored.signatures
         /\ children'[c].used["tool_calls"] = 0
         /\ restored' = restored
<1>1. ASSUME NEW p \in ChildIds \cup {RootId}, NEW x \in ChildIds,
             NEW t \in TaskIds, NEW l \in WorkerLimits, AllocateChild(p, x, t, l)
      PROVE  /\ children'[c].signatures = restored.signatures
             /\ children'[c].used["tool_calls"] = 0
             /\ restored' = restored
  <2>1. c = x /\ children'[c] = NewChild(p, t, l) /\ restored' = restored
    BY <1>1 DEF AllocateChild
  <2> QED
    BY <2>1 DEF NewChild, Dims, Counters
<1>2. DOMAIN children' = DOMAIN children
        \/ \E p \in ChildIds \cup {RootId}, x \in ChildIds, t \in TaskIds,
              l \in WorkerLimits : AllocateChild(p, x, t, l)
  BY DEF Next, vars, ReserveRootModelCall, RecordRootTokens, ReserveModelCall,
         ReserveToolCall, RecordTokens, RecordEvidence, CloseChild, Tick
<1> QED
  BY <1>1, <1>2

\* No child repeats a tool call more often than its limit allows beyond what was
\* repeated before a resume, and each of its calls was charged to it.
THEOREM RepeatsAreBounded == Spec => []RepeatedCallsBounded
<1>1. Init => RepeatedCallsBounded
  BY DEF Init, RepeatedCallsBounded
<1>2. TypeOK /\ RepeatedCallsBounded /\ [Next]_vars => RepeatedCallsBounded'
  <2> SUFFICES ASSUME TypeOK, RepeatedCallsBounded, [Next]_vars,
                      NEW c \in DOMAIN children', NEW s \in Signatures
               PROVE  /\ \/ children'[c].signatures[s] <= children'[c].limits.repeat
                         \/ children'[c].signatures[s] = restored'.signatures[s]
                      /\ children'[c].signatures[s] - restored'.signatures[s]
                           <= children'[c].used["tool_calls"]
    BY DEF RepeatedCallsBounded
  <2>0. restored.signatures[s] \in Nat
    BY LimitsAssumption DEF TypeOK, RestoreType
  <2>1. CASE c \in DOMAIN children
    <3>1. /\ children'[c].limits = children[c].limits /\ restored' = restored
      BY <2>1, LimitsNeverChange
    <3>2. /\ children[c].signatures \in [Signatures -> Nat]
          /\ children[c].limits.repeat \in Nat
          /\ children[c].used["tool_calls"] \in Nat
      BY <2>1, LimitsAssumption DEF TypeOK, ChildState, WorkerLimitsType, Dims, Counters
    <3>3. /\ \/ children[c].signatures[s] <= children[c].limits.repeat
             \/ children[c].signatures[s] = restored.signatures[s]
          /\ children[c].signatures[s] - restored.signatures[s]
               <= children[c].used["tool_calls"]
      BY <2>1 DEF RepeatedCallsBounded
    <3>4. CASE SameCalls(c)
      BY <3>1, <3>3, <3>4 DEF SameCalls
    <3>5. ASSUME NEW t \in Signatures, OneMoreCall(c, t)
          PROVE  /\ \/ children'[c].signatures[s] <= children'[c].limits.repeat
                    \/ children'[c].signatures[s] = restored'.signatures[s]
                 /\ children'[c].signatures[s] - restored'.signatures[s]
                      <= children'[c].used["tool_calls"]
      <4>1. children'[c].used["tool_calls"] = children[c].used["tool_calls"] + 1
        BY <3>5 DEF OneMoreCall
      <4>2. CASE s = t
        <5>1. /\ children[c].signatures[s] < children[c].limits.repeat
              /\ children'[c].signatures[s] = children[c].signatures[s] + 1
          BY <3>2, <3>5, <4>2 DEF OneMoreCall
        <5> QED
          BY <2>0, <3>1, <3>2, <3>3, <4>1, <5>1
      <4>3. CASE s # t
        <5>1. children'[c].signatures[s] = children[c].signatures[s]
          BY <3>2, <3>5, <4>3 DEF OneMoreCall
        <5> QED
          BY <2>0, <3>1, <3>2, <3>3, <4>1, <5>1
      <4> QED
        BY <4>2, <4>3
    <3> QED
      BY <2>1, <3>4, <3>5, CallsCountedOneByOne
  <2>2. CASE c \notin DOMAIN children
    BY <2>0, <2>2, NewChildCalls
  <2> QED
    BY <2>1, <2>2
<1> QED
  BY <1>1, <1>2, TypeCorrect, PTL DEF Spec
=============================================================================
