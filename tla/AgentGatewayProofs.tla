-------------------------- MODULE AgentGatewayProofs --------------------------
(***************************************************************************)
(* Proofs about AgentGateway for every set of requests, calls, processes   *)
(* and roots: who may move a root on, what a waiting root leaves behind,   *)
(* and, when one process runs the thread, that the gateway implements the  *)
(* request ledger.                                                         *)
(***************************************************************************)
EXTENDS AgentGateway, FiniteSetTheorems, SequenceTheorems, TLAPS

(***************************************************************************)
(* The inductive invariant, for any number of processes.                   *)
(***************************************************************************)

\* Where a call executes its root, and where it holds its process's event loop.
Executes == {"resume", "budget", "plan", "decide", "worker", "answer", "authorize",
             "finish"}
Holds == {"load", "replay", "claim", "begin", "resume", "budget", "finish", "deny"}

\* Checkpoints of a root are numbered in their order.
VersionsInv ==
  \A k \in DOMAIN log, i \in Roots : log[k].root = i =>
    /\ log[k].version <= Version(i)
    /\ log[k].version = Version(i) => k = Newest(OfRoot(i))

\* The row of a root has the status of its newest checkpoint.
RootsInv ==
  \A i \in Roots : roots[i] = IF OfRoot(i) = {} THEN "absent" ELSE Latest(i).status

\* A call at x executes its root: nobody has added a checkpoint since its own.
Owns(x) ==
  /\ x.pc \in Executes \cup {"deny"}
  /\ x.root \in Roots /\ roots[x.root] = "running"
  /\ x.expected = Version(x.root)
  /\ Latest(x.root).request = x.request /\ x.state.request = x.request

\* A call at x has read the checkpoint it replays.
Replays(x) ==
  /\ \E k \in DOMAIN log :
       log[k] = [root |-> x.root, version |-> x.expected, state |-> x.state]
  /\ x.state.request = x.request
  /\ x.state.status # "running" /\ ~Ended(x.state)

\* What the supervisor has in memory and returns.
Fine(x) ==
  /\ x.pc # "idle" => x.request \in Requests
  /\ x.pc \in Executes \ {"authorize", "finish"} => x.state.status = "running"
  /\ x.pc \in {"resume", "budget", "decide", "worker"} => x.state.plan # None
  /\ x.pc \in {"authorize", "finish"} =>
       /\ x.state.status \in {"waiting_user", "completed", "failed"}
       /\ x.state.status = "waiting_user" =>
            x.state.plan # None /\ x.state.task = "waiting_user" /\ x.state.current
  /\ x.pc \in {"plan", "decide", "worker", "answer", "authorize"} /\ x.replan =>
       x.state.replans = 0

Legal(x) ==
  /\ Fine(x)
  /\ x.pc \in Executes => Owns(x)
  /\ x.pc = "replay" => Replays(x)
  /\ x.pc = "deny" => Owns(x) \/ Replays(x)

OwnersInv ==
  \A g, h \in Handlers :
    Owns(handlers[g]) /\ Owns(handlers[h]) /\ handlers[g].root = handlers[h].root => g = h

\* A thread has one active root at most.
ActiveInv == \A i, j \in ActiveRoots : i = j

\* A call that holds the event loop of its process is alone in that.
LoopInv == \A h \in Handlers : handlers[h].pc \in Holds => loop[ProcessOf[h]] = h

\* Calls that may still save two checkpoints, or one.
Two == {h \in Handlers : handlers[h].pc \in {"load", "claim", "begin"}}
One == {h \in Handlers : handlers[h].pc \in {"replay", "deny"} \cup Executes}
SavesInv ==
  /\ IsFiniteSet(One) /\ IsFiniteSet(Two)
  /\ Len(log) + 2 * Cardinality(Two) + Cardinality(One) <= 2 * attempts

GatewayInv ==
  /\ TypeOK /\ VersionsInv /\ RootsInv
  /\ \A h \in Handlers : Legal(handlers[h])
  /\ OwnersInv /\ ActiveInv /\ WaitingIsClaimable /\ LoopInv /\ SavesInv

(***************************************************************************)
(* What one process adds: the calls agree on what was requested.           *)
(***************************************************************************)
OneProcess == \A g, h \in Handlers : ProcessOf[g] = ProcessOf[h]

\* The newest checkpoint of its request is the one a call at x replays.
UpToDate(x) ==
  /\ OfRequest(x.request) # {}
  /\ Replayed(x.request) = [root |-> x.root, version |-> x.expected, state |-> x.state]

\* What a call at x has found out about its request.
Asked(x) ==
  /\ x.pc \in {"claim", "begin"} => OfRequest(x.request) = {}
  /\ x.pc = "replay" => UpToDate(x)
  /\ x.pc = "deny" => Owns(x) \/ UpToDate(x)

\* A request belongs to one root.
SameRootInv ==
  \A k, l \in DOMAIN log :
    log[k].state.request = log[l].state.request => log[k].root = log[l].root

\* The newest checkpoint of a request that is executed is that of its root.
ExecutingInv ==
  \A r \in Requests : Phase(r) = "executing" =>
    Newest(OfRequest(r)) = Newest(OfRoot(Replayed(r).root))

\* A request whose loss of access is recorded is not executed again.
DeniedInv ==
  \A k \in DOMAIN log : log[k].state.outcome = "denied" =>
    Phase(log[k].state.request) # "executing"

\* Responses are made from the newest checkpoint of an answered request.
DeliveredInv ==
  \A r \in Requests :
    /\ Phase(r) \in {"new", "executing", "failed"} => delivered[r] = {}
    /\ Phase(r) = "answered" =>
         delivered[r] = {<<Replayed(r).root, Replayed(r).version>>}

RequestsInv ==
  /\ \A h \in Handlers : Asked(handlers[h])
  /\ SameRootInv /\ ExecutingInv /\ DeniedInv /\ DeliveredInv

-----------------------------------------------------------------------------
(***************************************************************************)
(* Facts about the log.                                                    *)
(***************************************************************************)

\* The order of the numbers, as a relation.
Less == {ss \in Nat \X Nat : ss[1] < ss[2]}

\* A nonempty set of numbers below a bound has a greatest one, and Newest is that.
LEMMA NewestExists ==
  ASSUME NEW n \in Nat, NEW S \in SUBSET (1..n), S # {}
  PROVE  /\ Newest(S) \in S
         /\ \A k \in S : k <= Newest(S)
<1> DEFINE D == {n - k : k \in S}
<1>1. D # {} /\ D \in SUBSET Nat
  <2>1. \A k \in S : n - k \in Nat
    OBVIOUS
  <2> QED
    BY <2>1
<1>2. IsWellFoundedOn(Less, Nat)
  BY NatLessThanWellFounded DEF OpToRel, Less
<1> HIDE DEF D
<1>3. PICK x \in D : \A y \in D : <<y, x>> \notin Less
  BY <1>1, <1>2, WFMin
<1>4. PICK m \in S : x = n - m
  BY <1>3 DEF D
<1>5. ASSUME NEW k \in S
      PROVE  k <= m
  <2>1. n - k \in D /\ n - k \in Nat /\ n - m \in Nat
    BY DEF D
  <2>2. <<n - k, n - m>> \in Nat \X Nat /\ <<n - k, n - m>> \notin Less
    BY <1>3, <1>4, <2>1
  <2>3. <<n - k, n - m>>[1] = n - k /\ <<n - k, n - m>>[2] = n - m
    OBVIOUS
  <2>4. ~(n - k < n - m)
    BY <2>2, <2>3 DEF Less
  <2> QED
    BY <2>4
<1>6. \E j \in S : \A k \in S : k <= j
  BY <1>5
<1> QED
  BY <1>6, Zenon DEF Newest

\* Nothing but the greatest number of a set is its newest.
LEMMA NewestIs ==
  ASSUME NEW n \in Nat, NEW S \in SUBSET (1..n), NEW m \in S, \A k \in S : k <= m
  PROVE  Newest(S) = m
<1>1. S # {}
  OBVIOUS
<1>2. Newest(S) \in S /\ \A k \in S : k <= Newest(S)
  BY <1>1, NewestExists
<1>3. \A a, b \in S : a <= b /\ b <= a => a = b
  OBVIOUS
<1> QED
  BY <1>2, <1>3

\* The checkpoints of a root, or of a request, are a finite part of the log.
LEMMA PartsOfLog ==
  ASSUME TypeOK, NEW i
  PROVE  /\ Len(log) \in Nat /\ DOMAIN log = 1..Len(log)
         /\ OfRoot(i) \in SUBSET (1..Len(log)) /\ OfRequest(i) \in SUBSET (1..Len(log))
         /\ IsFiniteSet(OfRoot(i)) /\ Version(i) \in Nat /\ Version(i) <= Len(log)
         /\ OfRoot(i) # {} => Newest(OfRoot(i)) \in OfRoot(i)
         /\ OfRequest(i) # {} => Newest(OfRequest(i)) \in OfRequest(i)
<1>1. Len(log) \in Nat /\ DOMAIN log = 1..Len(log)
  BY DEF TypeOK
<1>2. OfRoot(i) \in SUBSET (1..Len(log)) /\ OfRequest(i) \in SUBSET (1..Len(log))
  BY <1>1 DEF OfRoot, OfRequest
<1>3. IsFiniteSet(1..Len(log)) /\ Cardinality(1..Len(log)) = Len(log)
  <2>1. 1 \in Int /\ Len(log) \in Int
    BY <1>1
  <2>2. IsFiniteSet(1..Len(log))
        /\ Cardinality(1..Len(log)) = IF 1 > Len(log) THEN 0 ELSE Len(log) - 1 + 1
    BY <2>1, FS_Interval
  <2> QED
    BY <1>1, <2>2
<1>4. /\ IsFiniteSet(OfRoot(i)) /\ Cardinality(OfRoot(i)) <= Len(log)
  BY <1>2, <1>3, FS_Subset
<1>5. Version(i) \in Nat
  BY <1>4, FS_CardinalityType DEF Version
<1>6. OfRoot(i) # {} => Newest(OfRoot(i)) \in OfRoot(i)
  BY <1>1, <1>2, NewestExists
<1>7. OfRequest(i) # {} => Newest(OfRequest(i)) \in OfRequest(i)
  BY <1>1, <1>2, NewestExists
<1> QED
  BY <1>1, <1>2, <1>4, <1>5, <1>6, <1>7 DEF Version

\* One checkpoint more.
LEMMA Appended ==
  ASSUME TypeOK, NEW c \in Checkpoint, log' = Append(log, c)
  PROVE  /\ log' \in Seq(Checkpoint) /\ Len(log') = Len(log) + 1
         /\ DOMAIN log' = DOMAIN log \cup {Len(log')}
         /\ Len(log') \notin DOMAIN log /\ log'[Len(log')] = c
         /\ \A k \in DOMAIN log : log'[k] = log[k] /\ k < Len(log')
BY DEF TypeOK

\* It is the newest of its root, and the other roots have theirs.
LEMMA AppendedRoots ==
  ASSUME TypeOK, NEW c \in Checkpoint, log' = Append(log, c), NEW i
  PROVE  /\ c.root = i => /\ OfRoot(i)' = OfRoot(i) \cup {Len(log')}
                          /\ Version(i)' = Version(i) + 1
                          /\ Newest(OfRoot(i))' = Len(log') /\ Latest(i)' = c.state
         /\ c.root # i => /\ OfRoot(i)' = OfRoot(i) /\ Version(i)' = Version(i)
                          /\ Newest(OfRoot(i))' = Newest(OfRoot(i))
                          /\ OfRoot(i) # {} => Latest(i)' = Latest(i)
<1>1. /\ DOMAIN log' = DOMAIN log \cup {Len(log')} /\ log'[Len(log')] = c
      /\ Len(log') = Len(log) + 1
      /\ Len(log') \notin DOMAIN log
      /\ \A k \in DOMAIN log : log'[k] = log[k] /\ k < Len(log')
  BY Appended
<1>2. /\ Len(log) \in Nat /\ OfRoot(i) \in SUBSET (1..Len(log)) /\ IsFiniteSet(OfRoot(i))
      /\ OfRoot(i) # {} => Newest(OfRoot(i)) \in OfRoot(i)
      /\ DOMAIN log = 1..Len(log)
  BY PartsOfLog
<1>3. CASE c.root = i
  <2>1. OfRoot(i)' = OfRoot(i) \cup {Len(log')} /\ Len(log') \notin OfRoot(i)
    BY <1>1, <1>2, <1>3 DEF OfRoot
  <2>2. Cardinality(OfRoot(i) \cup {Len(log')}) = Cardinality(OfRoot(i)) + 1
    BY <1>2, <2>1, FS_AddElement
  <2>3. Newest(OfRoot(i) \cup {Len(log')}) = Len(log')
    <3>1. OfRoot(i) \cup {Len(log')} \in SUBSET (1..Len(log'))
      BY <1>1, <1>2
    <3>2. \A k \in OfRoot(i) \cup {Len(log')} : k <= Len(log')
      BY <1>1, <1>2
    <3>3. Len(log') \in Nat
      BY <1>1, <1>2
    <3> QED
      BY <3>1, <3>2, <3>3, NewestIs
  <2>4. Newest(OfRoot(i))' = Newest(OfRoot(i)') /\ Version(i)' = Cardinality(OfRoot(i)')
        /\ Latest(i)' = log'[Newest(OfRoot(i)')].state
    BY DEF Newest, Version, Latest
  <2> QED
    BY <1>1, <1>3, <2>1, <2>2, <2>3, <2>4 DEF Version
<1>4. CASE c.root # i
  <2>1. OfRoot(i)' = OfRoot(i)
    BY <1>1, <1>4 DEF OfRoot
  <2>2. /\ Newest(OfRoot(i))' = Newest(OfRoot(i)) /\ Version(i)' = Version(i)
        /\ Latest(i)' = log'[Newest(OfRoot(i))].state
    BY <2>1 DEF Newest, Version, Latest
  <2>3. OfRoot(i) # {} => Latest(i)' = Latest(i)
    BY <1>1, <1>2, <2>2 DEF Latest
  <2> QED
    BY <1>4, <2>1, <2>2, <2>3
<1> QED
  BY <1>3, <1>4

\* Likewise for the requests.
LEMMA AppendedRequests ==
  ASSUME TypeOK, NEW c \in Checkpoint, log' = Append(log, c), NEW r
  PROVE  /\ c.state.request = r => /\ OfRequest(r)' = OfRequest(r) \cup {Len(log')}
                                   /\ Newest(OfRequest(r))' = Len(log')
                                   /\ Replayed(r)' = c
         /\ c.state.request # r => /\ OfRequest(r)' = OfRequest(r)
                                   /\ Newest(OfRequest(r))' = Newest(OfRequest(r))
                                   /\ OfRequest(r) # {} => Replayed(r)' = Replayed(r)
                                   /\ Phase(r)' = Phase(r)
<1>1. /\ DOMAIN log' = DOMAIN log \cup {Len(log')} /\ log'[Len(log')] = c
      /\ Len(log') = Len(log) + 1
      /\ \A k \in DOMAIN log : log'[k] = log[k] /\ k < Len(log')
  BY Appended
<1>2. /\ Len(log) \in Nat /\ OfRequest(r) \in SUBSET (1..Len(log))
      /\ OfRequest(r) # {} => Newest(OfRequest(r)) \in OfRequest(r)
      /\ DOMAIN log = 1..Len(log)
  BY PartsOfLog
<1>3. CASE c.state.request = r
  <2>1. OfRequest(r)' = OfRequest(r) \cup {Len(log')}
    BY <1>1, <1>3 DEF OfRequest
  <2>2. Newest(OfRequest(r) \cup {Len(log')}) = Len(log')
    <3>1. OfRequest(r) \cup {Len(log')} \in SUBSET (1..Len(log'))
      BY <1>1, <1>2
    <3>2. \A k \in OfRequest(r) \cup {Len(log')} : k <= Len(log')
      BY <1>1, <1>2
    <3>3. Len(log') \in Nat
      BY <1>1, <1>2
    <3> QED
      BY <3>1, <3>2, <3>3, NewestIs
  <2>3. Newest(OfRequest(r))' = Newest(OfRequest(r)')
        /\ Replayed(r)' = log'[Newest(OfRequest(r)')]
    BY DEF Newest, Replayed
  <2> QED
    BY <1>1, <1>3, <2>1, <2>2, <2>3
<1>4. CASE c.state.request # r
  <2>1. OfRequest(r)' = OfRequest(r)
    BY <1>1, <1>4 DEF OfRequest
  <2>2. /\ Newest(OfRequest(r))' = Newest(OfRequest(r))
        /\ Replayed(r)' = log'[Newest(OfRequest(r))]
    BY <2>1 DEF Newest, Replayed
  <2>3. OfRequest(r) # {} => Replayed(r)' = Replayed(r)
    BY <1>1, <1>2, <2>2 DEF Replayed
  <2>4. Phase(r)' = Phase(r)
    BY <2>1, <2>3 DEF Phase
  <2> QED
    BY <1>4, <2>1, <2>2, <2>3, <2>4
<1> QED
  BY <1>3, <1>4

-----------------------------------------------------------------------------
(***************************************************************************)
(* Steps of one call.                                                      *)
(***************************************************************************)

\* The call h is at x.
Moves(h, x) ==
  /\ h \in Handlers /\ x \in Handler
  /\ handlers' = [handlers EXCEPT ![h] = x]

\* How many checkpoints a call at pc may still save.
Saves(pc) ==
  IF pc \in {"load", "claim", "begin"} THEN 2
  ELSE IF pc \in {"replay", "deny"} \cup Executes THEN 1 ELSE 0

\* The event loop is kept, dropped or taken.
Loops(h, x) ==
  \/ UNCHANGED loop /\ (x.pc \in Holds => handlers[h].pc \in Holds)
  \/ DropLoop(h) /\ handlers[h].pc \in Holds /\ x.pc \notin Holds
  \/ TakeLoop(h) /\ LoopFree(h)

\* Only the call h has moved.
LEMMA Moved ==
  ASSUME TypeOK, NEW h, NEW x, Moves(h, x)
  PROVE  /\ handlers' \in [Handlers -> Handler] /\ handlers'[h] = x
         /\ \A g \in Handlers : g # h => handlers'[g] = handlers[g]
BY DEF TypeOK, Moves

\* The event loops of the processes stay those of their calls.
LEMMA LoopStep ==
  ASSUME TypeOK, LoopInv, NEW h, NEW x, Moves(h, x), Loops(h, x)
  PROVE  LoopInv' /\ loop' \in [Processes -> Handlers \cup {None}]
<1>1. /\ loop \in [Processes -> Handlers \cup {None}] /\ h \in Handlers
      /\ \A g \in Handlers : ProcessOf[g] \in Processes /\ g # None
  BY SetsAssumption, NoneAssumption DEF TypeOK, Moves
<1>2. /\ handlers'[h] = x /\ \A g \in Handlers : g # h => handlers'[g] = handlers[g]
  BY Moved
<1>3. CASE UNCHANGED loop /\ (x.pc \in Holds => handlers[h].pc \in Holds)
  BY <1>1, <1>2, <1>3 DEF LoopInv
<1>4. CASE DropLoop(h) /\ handlers[h].pc \in Holds /\ x.pc \notin Holds
  BY <1>1, <1>2, <1>4 DEF LoopInv, DropLoop
<1>5. CASE TakeLoop(h) /\ LoopFree(h)
  BY <1>1, <1>2, <1>5 DEF LoopInv, TakeLoop, LoopFree
<1> QED
  BY <1>3, <1>4, <1>5 DEF Loops

\* Moving one element in or out of a finite set.
LEMMA OneMore ==
  ASSUME NEW S, IsFiniteSet(S), NEW T, NEW h,
         \A g : g # h => (g \in T <=> g \in S)
  PROVE  /\ IsFiniteSet(T) /\ Cardinality(S) \in Nat /\ Cardinality(T) \in Nat
         /\ Cardinality(T) + (IF h \in S THEN 1 ELSE 0)
              = Cardinality(S) + (IF h \in T THEN 1 ELSE 0)
<1> DEFINE R == S \ {h}
<1>1. /\ IsFiniteSet(R)
      /\ Cardinality(R) = IF h \in S THEN Cardinality(S) - 1 ELSE Cardinality(S)
  BY FS_RemoveElement
<1>2. /\ IsFiniteSet(R \cup {h})
      /\ Cardinality(R \cup {h}) = IF h \in R THEN Cardinality(R) ELSE Cardinality(R) + 1
  BY <1>1, FS_AddElement
<1>3. h \notin R /\ (h \in T => T = R \cup {h}) /\ (h \notin T => T = R)
  OBVIOUS
<1>4. Cardinality(S) \in Nat /\ Cardinality(R) \in Nat
  BY <1>1, FS_CardinalityType
<1> HIDE DEF R
<1>5. CASE h \in T
  <2>1. IsFiniteSet(T) /\ Cardinality(T) = Cardinality(R) + 1
    BY <1>2, <1>3, <1>5
  <2> QED
    BY <1>1, <1>4, <1>5, <2>1
<1>6. CASE h \notin T
  BY <1>1, <1>3, <1>4, <1>6
<1> QED
  BY <1>5, <1>6

\* A call saves no more checkpoints than its attempt may.
Charged(h, x) ==
  /\ attempts' \in Nat /\ Len(log') \in Nat
  /\ Len(log') + Saves(x.pc) + 2 * attempts
       <= Len(log) + Saves(handlers[h].pc) + 2 * attempts'
\* The calls together save no more checkpoints than the attempts may.
LEMMA SavesStep ==
  ASSUME TypeOK, SavesInv, NEW h, NEW x, Moves(h, x), Charged(h, x)
  PROVE  SavesInv'
<1>1. /\ handlers'[h] = x /\ h \in Handlers
      /\ \A g \in Handlers : g # h => handlers'[g] = handlers[g]
  BY Moved DEF Moves
<1>2. /\ \A g : g # h => (g \in One' <=> g \in One)
      /\ \A g : g # h => (g \in Two' <=> g \in Two)
  BY <1>1 DEF One, Two
<1>3. /\ IsFiniteSet(One') /\ Cardinality(One) \in Nat /\ Cardinality(One') \in Nat
      /\ Cardinality(One') + (IF h \in One THEN 1 ELSE 0)
           = Cardinality(One) + (IF h \in One' THEN 1 ELSE 0)
  BY <1>2, OneMore DEF SavesInv
<1>4. /\ IsFiniteSet(Two') /\ Cardinality(Two) \in Nat /\ Cardinality(Two') \in Nat
      /\ Cardinality(Two') + (IF h \in Two THEN 1 ELSE 0)
           = Cardinality(Two) + (IF h \in Two' THEN 1 ELSE 0)
  BY <1>2, OneMore DEF SavesInv
<1>5. /\ Saves(handlers[h].pc)
           = 2 * (IF h \in Two THEN 1 ELSE 0) + (IF h \in One THEN 1 ELSE 0)
      /\ Saves(x.pc) = 2 * (IF h \in Two' THEN 1 ELSE 0) + (IF h \in One' THEN 1 ELSE 0)
  BY <1>1 DEF Saves, One, Two, Executes
<1>6. Len(log) \in Nat /\ attempts \in Nat
  BY BoundsAssumption DEF TypeOK
<1>7. Len(log) + 2 * Cardinality(Two) + Cardinality(One) <= 2 * attempts
  BY DEF SavesInv
<1>8. PICK one1, one2, two1, two2 \in Nat :
        /\ one1 = IF h \in One THEN 1 ELSE 0
        /\ one2 = IF h \in One' THEN 1 ELSE 0
        /\ two1 = IF h \in Two THEN 1 ELSE 0
        /\ two2 = IF h \in Two' THEN 1 ELSE 0
  OBVIOUS
<1>9. /\ IsFiniteSet(One') /\ Cardinality(One) \in Nat /\ Cardinality(One') \in Nat
      /\ IsFiniteSet(Two') /\ Cardinality(Two) \in Nat /\ Cardinality(Two') \in Nat
  BY <1>3, <1>4
<1>10. Cardinality(One') + one1 = Cardinality(One) + one2
  BY <1>3, <1>8
<1>11. Cardinality(Two') + two1 = Cardinality(Two) + two2
  BY <1>4, <1>8
<1>12. Saves(handlers[h].pc) = 2 * two1 + one1 /\ Saves(x.pc) = 2 * two2 + one2
  BY <1>5, <1>8
<1>13. PICK c1, c2, c3, c4 \in Nat :
         /\ c1 = Cardinality(One) /\ c2 = Cardinality(One')
         /\ c3 = Cardinality(Two) /\ c4 = Cardinality(Two')
  BY <1>9
<1>14. PICK n1, n2, a1, a2 \in Nat :
         n1 = Len(log) /\ n2 = Len(log') /\ a1 = attempts /\ a2 = attempts'
  BY <1>6 DEF Charged
<1>15. n2 + (2 * two2 + one2) + 2 * a1 <= n1 + (2 * two1 + one1) + 2 * a2
  BY <1>12, <1>14 DEF Charged
<1>16. c2 + one1 = c1 + one2 /\ c4 + two1 = c3 + two2 /\ n1 + 2 * c3 + c1 <= 2 * a1
  BY <1>7, <1>10, <1>11, <1>13, <1>14
<1>17. n2 + 2 * c4 + c2 <= 2 * a2
  BY <1>15, <1>16
<1> QED
  BY <1>9, <1>13, <1>14, <1>17 DEF SavesInv

\* A step of h that saves nothing.
Local(h, x) ==
  /\ Moves(h, x) /\ Legal(x) /\ Loops(h, x)
  /\ Owns(x) => Owns(handlers[h]) /\ x.root = handlers[h].root
  /\ Saves(x.pc) + 2 * attempts <= Saves(handlers[h].pc) + 2 * attempts'
  /\ attempts' \in 0..MaxAttempts
  /\ UNCHANGED <<roots, log, granted, crashes>>
  /\ boards' \in [Roots -> Board]
  /\ \A i \in Roots : roots[i] # "running" => boards'[i] = boards[i]
  /\ delivered' \in [Requests -> SUBSET (Roots \X Nat)]

\* Such a step keeps the invariant.
LEMMA LocalStep ==
  ASSUME GatewayInv, NEW h, NEW x, Local(h, x)
  PROVE  GatewayInv'
<1>1. /\ handlers' \in [Handlers -> Handler] /\ handlers'[h] = x /\ h \in Handlers
      /\ \A g \in Handlers : g # h => handlers'[g] = handlers[g]
  BY Moved DEF GatewayInv, Local, Moves
<1>2. LoopInv' /\ loop' \in [Processes -> Handlers \cup {None}]
  BY LoopStep DEF GatewayInv, Local
<1>3. SavesInv'
  <2>1. attempts' \in Nat /\ Len(log') \in Nat /\ Len(log') = Len(log)
    BY BoundsAssumption DEF Local, GatewayInv, TypeOK
  <2>2. Saves(x.pc) \in Nat /\ Saves(handlers[h].pc) \in Nat /\ attempts \in Nat
    BY BoundsAssumption DEF Saves, GatewayInv, TypeOK
  <2>3. Charged(h, x)
    BY <2>1, <2>2 DEF Local, Charged
  <2> QED
    BY <2>3, SavesStep DEF GatewayInv, Local
<1>4. TypeOK'
  BY <1>1, <1>2 DEF GatewayInv, TypeOK, Local
<1>5. VersionsInv' /\ RootsInv'
  <2>1. /\ log' = log /\ roots' = roots
        /\ \A i : OfRoot(i)' = OfRoot(i) /\ Newest(OfRoot(i))' = Newest(OfRoot(i))
        /\ \A i : Version(i)' = Version(i) /\ Latest(i)' = Latest(i)
    BY DEF Local, Version, OfRoot, Newest, Latest
  <2>2. VersionsInv'
    BY <2>1 DEF GatewayInv, VersionsInv
  <2> QED
    BY <2>1, <2>2 DEF GatewayInv, RootsInv
<1>6. \A y : (Owns(y)' <=> Owns(y)) /\ (Replays(y)' <=> Replays(y))
  BY DEF Local, Owns, Replays, Version, OfRoot, Newest, Latest
<1>7. \A g \in Handlers : Legal(handlers'[g])
  BY <1>1 DEF GatewayInv, Local
<1>8. \A g \in Handlers : Legal(handlers[g])'
  BY <1>6, <1>7 DEF Legal, Fine
<1>9. OwnersInv'
  <2>1. \A g \in Handlers : Owns(handlers'[g]) =>
          Owns(handlers[g]) /\ handlers'[g].root = handlers[g].root
    BY <1>1 DEF Local
  <2> QED
    BY <1>6, <2>1 DEF GatewayInv, OwnersInv
<1>10. ActiveInv' /\ WaitingIsClaimable'
  <2>1. /\ ActiveRoots' = ActiveRoots /\ WaitingRoots' = WaitingRoots
        /\ \A i : Latest(i)' = Latest(i)
        /\ \A i \in WaitingRoots : boards'[i] = boards[i]
    BY DEF Local, ActiveRoots, WaitingRoots, Latest, OfRoot, Newest
  <2> QED
    BY <2>1 DEF GatewayInv, ActiveInv, WaitingIsClaimable
<1> QED
  BY <1>2, <1>3, <1>4, <1>5, <1>8, <1>9, <1>10 DEF GatewayInv

\* A step of h that saves the checkpoint c.
Saving(h, x, c) ==
  /\ Moves(h, x) /\ Fine(x) /\ Loops(h, x)
  /\ c \in Checkpoint /\ log' = Append(log, c) /\ c.version = Version(c.root) + 1
  /\ roots' = [roots EXCEPT ![c.root] = c.state.status]
  /\ \A g \in Handlers : g # h /\ Owns(handlers[g]) => handlers[g].root # c.root
  /\ \/ x.pc = "idle"
     \/ /\ x.pc \in {"resume", "plan"} /\ x.root = c.root /\ x.expected = c.version
        /\ c.state.status = "running"
        /\ x.request = c.state.request /\ x.state.request = c.state.request
  /\ c.state.status = "waiting_user" =>
       /\ c.state.plan # None /\ c.state.current
       /\ boards'[c.root].plan = c.state.plan /\ boards'[c.root].task = "waiting_user"
  /\ c.state.status \in {"running", "waiting_user"} => ActiveRoots \subseteq {c.root}
  /\ boards' \in [Roots -> Board]
  /\ \A i \in Roots : i # c.root => boards'[i] = boards[i]
  /\ UNCHANGED <<granted, attempts, crashes>>
  /\ delivered' \in [Requests -> SUBSET (Roots \X Nat)]
  /\ Saves(x.pc) + 1 <= Saves(handlers[h].pc)

\* Such a step keeps the invariant too.
LEMMA SaveStep ==
  ASSUME GatewayInv, NEW h, NEW x, NEW c, Saving(h, x, c)
  PROVE  GatewayInv'
<1>1. /\ handlers' \in [Handlers -> Handler] /\ handlers'[h] = x /\ h \in Handlers
      /\ \A g \in Handlers : g # h => handlers'[g] = handlers[g]
  BY Moved DEF GatewayInv, Saving, Moves
<1>2. /\ TypeOK /\ c \in Checkpoint /\ c.root \in Roots /\ log' = Append(log, c)
      /\ c.version = Version(c.root) + 1 /\ Version(c.root) \in Nat
      /\ c.state.status \in Status /\ roots \in [Roots -> Status \cup {"absent"}]
      /\ roots' = [roots EXCEPT ![c.root] = c.state.status]
  BY PartsOfLog DEF GatewayInv, Saving, Checkpoint, State, TypeOK
<1>3. /\ log' \in Seq(Checkpoint) /\ Len(log') = Len(log) + 1
      /\ DOMAIN log' = DOMAIN log \cup {Len(log')}
      /\ Len(log') \notin DOMAIN log /\ log'[Len(log')] = c
      /\ \A k \in DOMAIN log : log'[k] = log[k] /\ k < Len(log')
      /\ Len(log) \in Nat
  BY <1>2, Appended, PartsOfLog
<1>4. /\ OfRoot(c.root)' # {} /\ Version(c.root)' = Version(c.root) + 1
      /\ Newest(OfRoot(c.root))' = Len(log') /\ Latest(c.root)' = c.state
      /\ roots'[c.root] = c.state.status
  BY <1>2, AppendedRoots
<1>5. \A i \in Roots : i # c.root =>
        /\ OfRoot(i)' = OfRoot(i) /\ Version(i)' = Version(i)
        /\ Newest(OfRoot(i))' = Newest(OfRoot(i))
        /\ OfRoot(i) # {} => Latest(i)' = Latest(i)
        /\ roots'[i] = roots[i]
  BY <1>2, AppendedRoots
<1>6. LoopInv' /\ loop' \in [Processes -> Handlers \cup {None}]
  BY LoopStep DEF GatewayInv, Saving
<1>7. TypeOK'
  BY <1>1, <1>2, <1>3, <1>6 DEF GatewayInv, TypeOK, Saving
<1>8. SavesInv'
  <2>1. Saves(x.pc) \in Nat /\ Saves(handlers[h].pc) \in Nat /\ attempts \in Nat
    BY BoundsAssumption DEF Saves, GatewayInv, TypeOK
  <2>2. attempts' = attempts /\ Saves(x.pc) + 1 <= Saves(handlers[h].pc)
    BY DEF Saving
  <2>3. Charged(h, x)
    BY <1>3, <2>1, <2>2 DEF Charged
  <2> QED
    BY <2>3, SavesStep DEF GatewayInv, Saving
<1>9. VersionsInv'
  <2> SUFFICES ASSUME NEW k \in DOMAIN log', NEW i \in Roots, log'[k].root = i
               PROVE  /\ log'[k].version <= Version(i)'
                      /\ log'[k].version = Version(i)' => k = Newest(OfRoot(i))'
    BY DEF VersionsInv
  <2>1. CASE k = Len(log')
    BY <1>2, <1>3, <1>4, <2>1
  <2>2. CASE k # Len(log') /\ i # c.root
    BY <1>3, <1>5, <2>2 DEF GatewayInv, VersionsInv
  <2>3. CASE k # Len(log') /\ i = c.root
    <3>1. log'[k] = log[k] /\ k \in DOMAIN log /\ log[k].version \in Nat
      <4>1. k \in DOMAIN log /\ log'[k] = log[k]
        BY <1>3, <2>3
      <4>2. log[k] \in Checkpoint
        BY <1>2, <4>1 DEF TypeOK
      <4> QED
        BY <4>1, <4>2 DEF Checkpoint
    <3>2. log[k].version <= Version(c.root)
      BY <2>3, <3>1 DEF GatewayInv, VersionsInv
    <3> QED
      BY <1>2, <1>4, <2>3, <3>1, <3>2
  <2> QED
    BY <2>1, <2>2, <2>3
<1>10. RootsInv'
  BY <1>4, <1>5 DEF GatewayInv, RootsInv
<1>11. \A i \in Roots : roots[i] = "running" => OfRoot(i) # {}
  BY DEF GatewayInv, RootsInv
<1>12. \A y : y.root # c.root => (Owns(y)' <=> Owns(y))
  BY <1>5, <1>11 DEF Owns
<1>13. \A y : Replays(y) => Replays(y)'
  BY <1>3 DEF Replays
<1>14. ASSUME NEW g \in Handlers, g # h
       PROVE  Legal(handlers[g])'
  <2>1. handlers'[g] = handlers[g] /\ Legal(handlers'[g])
    BY <1>1, <1>14 DEF GatewayInv
  <2>2. Owns(handlers'[g]) => handlers'[g].root # c.root
    BY <1>14, <2>1 DEF Saving
  <2> QED
    BY <1>12, <1>13, <2>1, <2>2 DEF Legal, Fine
<1>15. Legal(handlers[h])'
  BY <1>1, <1>2, <1>4 DEF Saving, Legal, Owns, Executes
<1>16. OwnersInv'
  <2>1. ASSUME NEW g \in Handlers, g # h, Owns(handlers[g])'
        PROVE  handlers'[g].root # c.root /\ Owns(handlers[g])
    <3>1. handlers'[g] = handlers[g] /\ Legal(handlers[g])
      BY <1>1, <2>1 DEF GatewayInv
    <3>2. Owns(handlers[g]) => handlers[g].root # c.root
      BY <2>1 DEF Saving
    <3>3. SUFFICES ASSUME handlers[g].root = c.root, Replays(handlers[g])
                   PROVE  FALSE
      BY <1>12, <2>1, <3>1, <3>2 DEF Legal, Owns
    <3>4. handlers[g].expected <= Version(c.root)
      BY <1>2, <3>3 DEF Replays, GatewayInv, VersionsInv
    <3>5. handlers[g].expected = Version(c.root) + 1
      BY <1>4, <2>1, <3>1, <3>3 DEF Owns
    <3> QED
      BY <1>2, <3>4, <3>5
  <2>2. ASSUME Owns(handlers[h])'
        PROVE  handlers'[h].root = c.root
    BY <1>1, <2>2 DEF Saving, Owns, Executes
  <2>3. \A g \in Handlers : g # h => handlers'[g] = handlers[g]
    BY <1>1
  <2> QED
    BY <2>1, <2>2, <2>3 DEF GatewayInv, OwnersInv
<1>17. ActiveInv' /\ WaitingIsClaimable'
  <2>1. ActiveRoots' \subseteq ActiveRoots \cup {c.root}
    BY <1>5 DEF ActiveRoots
  <2>2. ActiveInv'
    BY <1>4, <2>1 DEF GatewayInv, ActiveInv, Saving, ActiveRoots
  <2>3. \A i \in WaitingRoots' : i # c.root =>
          /\ i \in WaitingRoots /\ Latest(i)' = Latest(i) /\ boards'[i] = boards[i]
    BY <1>5 DEF WaitingRoots, Saving, GatewayInv, RootsInv
  <2>4. c.root \in WaitingRoots' => c.state.status = "waiting_user"
    BY <1>4 DEF WaitingRoots
  <2>5. WaitingIsClaimable'
    BY <1>4, <2>3, <2>4 DEF GatewayInv, WaitingIsClaimable, Saving
  <2> QED
    BY <2>2, <2>5
<1> QED
  BY <1>6, <1>7, <1>8, <1>9, <1>10, <1>14, <1>15, <1>16, <1>17 DEF GatewayInv

-----------------------------------------------------------------------------
(***************************************************************************)
(* The steps that save nothing.                                            *)
(***************************************************************************)

\* A call that has only read its checkpoint does not own the root.
LEMMA ReplayNotOwned ==
  ASSUME GatewayInv, NEW x, Replays(x)
  PROVE  ~Owns(x)
<1> SUFFICES ASSUME Owns(x) PROVE FALSE
  OBVIOUS
<1>1. PICK k \in DOMAIN log :
        log[k] = [root |-> x.root, version |-> x.expected, state |-> x.state]
  BY DEF Replays
<1>2. x.root \in Roots /\ log[k].root = x.root /\ log[k].version = Version(x.root)
      /\ log[k].state = x.state /\ roots[x.root] = "running"
  BY <1>1 DEF Owns
<1>3. k = Newest(OfRoot(x.root)) /\ k \in OfRoot(x.root)
  BY <1>2 DEF GatewayInv, VersionsInv, OfRoot
<1>4. x.state.status = "running"
  BY <1>2, <1>3 DEF GatewayInv, RootsInv, Latest
<1> QED
  BY <1>4 DEF Replays

\* What a call's record is made of.
LEMMA Typed ==
  ASSUME TypeOK
  PROVE  /\ \A h \in Handlers : handlers[h] \in Handler
         /\ NoState \in State /\ Idle \in Handler
         /\ \A x \in Handler :
              /\ x.pc \in Pcs /\ x.request \in Requests \cup {None}
              /\ x.root \in Roots \cup {None}
              /\ x.expected \in Nat /\ x.replan \in BOOLEAN /\ x.state \in State
<1>1. NoState \in State
  BY BoundsAssumption DEF NoState, State, Status
<1>2. Idle \in Handler
  BY <1>1 DEF Idle, Handler, Pcs
<1> QED
  BY <1>1, <1>2 DEF TypeOK, Handler

\* Everything but the call, the loop and the responses is as before.
Nothing == UNCHANGED <<tables, granted, attempts, crashes>>
           /\ delivered' \in [Requests -> SUBSET (Roots \X Nat)]

\* The call ends.
LEMMA EndStep ==
  ASSUME GatewayInv, NEW h \in Handlers, handlers[h].pc \in Holds, End(h), Nothing
  PROVE  GatewayInv'
<1>1. Moves(h, Idle) /\ Idle.pc = "idle"
  BY Typed DEF End, Moves, GatewayInv, Idle
<1>2. Legal(Idle) /\ ~Owns(Idle)
  BY <1>1 DEF Legal, Fine, Owns, Executes
<1>3. Loops(h, Idle)
  BY <1>1 DEF Loops, End, Holds
<1>4. Saves("idle") = 0 /\ Saves(handlers[h].pc) \in Nat /\ attempts \in 0..MaxAttempts
      /\ attempts \in Nat
  BY BoundsAssumption DEF Saves, Executes, GatewayInv, TypeOK
<1>5. Local(h, Idle)
  BY <1>1, <1>2, <1>3, <1>4 DEF Local, Nothing, tables, GatewayInv, TypeOK
<1> QED
  BY <1>5, LocalStep

\* The call goes on at p, and keeps the event loop.
LEMMA GotoStep ==
  ASSUME GatewayInv, NEW h \in Handlers, NEW p \in Pcs, handlers[h].pc \in Holds,
         Goto(h, p), UNCHANGED <<loop, delivered>>, Nothing,
         \/ handlers[h].pc = "replay" /\ p = "deny"
         \/ handlers[h].pc = "load" /\ p = "claim"
         \/ handlers[h].pc = "claim" /\ p = "begin"
         \/ handlers[h].pc = "resume" /\ p \in {"budget", "deny"}
  PROVE  GatewayInv'
<1> DEFINE H == handlers[h]
<1>1. H \in Handler /\ Legal(H) /\ handlers \in [Handlers -> Handler]
  BY Typed DEF GatewayInv, TypeOK
<1>2. PICK x : x = [H EXCEPT !.pc = p]
  OBVIOUS
<1>3. /\ x \in Handler /\ x.pc = p /\ x.request = H.request /\ x.root = H.root
      /\ x.expected = H.expected /\ x.replan = H.replan /\ x.state = H.state
  BY <1>1, <1>2 DEF Handler
<1>4. Moves(h, x)
  BY <1>1, <1>2, <1>3 DEF Moves, Goto
<1>5. /\ Replays(H) => Replays(x)
      /\ H.pc \in Executes => (Owns(H) <=> Owns(x))
  BY <1>3 DEF Replays, Owns, Executes
<1>6. Legal(x)
  BY <1>1, <1>3, <1>5 DEF Legal, Fine, Executes, Pcs
<1>7. Owns(x) => Owns(H) /\ x.root = H.root
  <2>1. CASE H.pc = "replay"
    BY <1>1, <1>5, <2>1, ReplayNotOwned DEF Legal
  <2>2. CASE H.pc # "replay"
    BY <1>3, <1>5, <2>2 DEF Owns, Executes
  <2> QED
    BY <2>1, <2>2
<1>8. Loops(h, x)
  BY <1>3 DEF Loops, Holds
<1>9. Saves(x.pc) + 2 * attempts <= Saves(H.pc) + 2 * attempts
  <2>1. Saves(x.pc) \in Nat /\ Saves(H.pc) \in Nat /\ Saves(x.pc) <= Saves(H.pc)
    BY <1>3 DEF Saves, Executes
  <2>2. attempts \in Nat
    BY BoundsAssumption DEF GatewayInv, TypeOK
  <2> QED
    BY <2>1, <2>2
<1>10. Local(h, x)
  BY <1>4, <1>6, <1>7, <1>8, <1>9 DEF Local, Nothing, tables, GatewayInv, TypeOK
<1> QED
  BY <1>10, LocalStep

\* The reading and the refusals of a call.
LEMMA ReadingSteps ==
  ASSUME GatewayInv, NEW h \in Handlers,
         \/ ReplayRefused(h) \/ ReplayEnded(h) \/ ReplayRevoked(h)
         \/ Unknown(h) \/ ClaimRefused(h) \/ NothingToClaim(h) \/ BeginRefused(h)
         \/ ResumeAuthorized(h) \/ ResumeRevoked(h) \/ BudgetRefused(h)
         \/ DenyRefused(h) \/ FinishRefused(h)
  PROVE  GatewayInv'
<1>1. delivered \in [Requests -> SUBSET (Roots \X Nat)]
  BY DEF GatewayInv, TypeOK
<1>2. CASE ReplayRefused(h) \/ ReplayEnded(h) \/ ClaimRefused(h) \/ BeginRefused(h)
           \/ BudgetRefused(h) \/ DenyRefused(h) \/ FinishRefused(h)
  <2>1. End(h) /\ Nothing /\ handlers[h].pc \in Holds
    BY <1>1, <1>2 DEF ReplayRefused, ReplayEnded, ClaimRefused, BeginRefused,
       BudgetRefused, DenyRefused, FinishRefused, Nothing, At, Holds
  <2> QED
    BY <2>1, EndStep
<1>3. CASE ReplayRevoked(h)
  BY <1>1, <1>3, GotoStep DEF ReplayRevoked, Nothing, At, Holds, Pcs
<1>4. CASE Unknown(h)
  BY <1>1, <1>4, GotoStep DEF Unknown, Nothing, At, Holds, Pcs
<1>5. CASE NothingToClaim(h)
  BY <1>1, <1>5, GotoStep DEF NothingToClaim, Nothing, At, Holds, Pcs
<1>6. CASE ResumeAuthorized(h)
  BY <1>1, <1>6, GotoStep DEF ResumeAuthorized, Nothing, At, Holds, Pcs
<1>7. CASE ResumeRevoked(h)
  BY <1>1, <1>7, GotoStep DEF ResumeRevoked, Nothing, At, Holds, Pcs
<1> QED
  BY <1>2, <1>3, <1>4, <1>5, <1>6, <1>7

\* A response is made from the replayed checkpoint.
LEMMA ReplayAnsweredStep ==
  ASSUME GatewayInv, NEW h \in Handlers, ReplayAnswered(h)
  PROVE  GatewayInv'
<1> DEFINE H == handlers[h]
<1>1. H \in Handler /\ H.pc = "replay" /\ Legal(H)
  BY Typed DEF ReplayAnswered, At, GatewayInv
<1>2. H.expected \in Nat /\ H.request \in Requests
  BY <1>1, Typed DEF GatewayInv, Legal, Fine
<1>3. H.root \in Roots
  <2>1. PICK k \in DOMAIN log : log[k].root = H.root
    BY <1>1 DEF Legal, Replays
  <2>2. log[k] \in Checkpoint
    BY DEF GatewayInv, TypeOK
  <2> QED
    BY <2>1, <2>2 DEF Checkpoint
<1>4. delivered' \in [Requests -> SUBSET (Roots \X Nat)]
  BY <1>2, <1>3 DEF ReplayAnswered, Deliver, GatewayInv, TypeOK
<1> QED
  BY <1>1, <1>4, EndStep DEF ReplayAnswered, Nothing, Holds

\* A request arrives.
LEMMA ReceiveStep ==
  ASSUME GatewayInv, NEW h \in Handlers, NEW r \in Requests, Receive(h, r)
  PROVE  GatewayInv'
<1>1. PICK x : x = [Idle EXCEPT !.pc = "load", !.request = r]
  OBVIOUS
<1>2. x \in Handler /\ x.pc = "load" /\ x.request = r
  BY <1>1, Typed DEF GatewayInv, Idle, Handler, Pcs
<1>3. Moves(h, x)
  BY <1>1, <1>2 DEF Receive, Moves
<1>4. Legal(x) /\ ~Owns(x)
  BY <1>2 DEF Legal, Fine, Owns, Executes
<1>5. /\ attempts' = attempts + 1 /\ attempts' \in 0..MaxAttempts
      /\ attempts \in Nat /\ Saves(x.pc) = 2 /\ Saves(handlers[h].pc) = 0
  BY <1>2, BoundsAssumption DEF Receive, At, Saves, Executes, GatewayInv, TypeOK
<1>6. Local(h, x)
  BY <1>3, <1>4, <1>5 DEF Local, Loops, Receive, tables, GatewayInv, TypeOK
<1> QED
  BY <1>6, LocalStep

\* A request that has been answered is found.
LEMMA ReplayFoundStep ==
  ASSUME GatewayInv, NEW h \in Handlers, ReplayFound(h)
  PROVE  GatewayInv'
<1> DEFINE H == handlers[h]
<1>1. H \in Handler /\ H.pc = "load" /\ Legal(H) /\ handlers \in [Handlers -> Handler]
  BY Typed DEF ReplayFound, At, GatewayInv, TypeOK
<1>2. PICK k : k = Newest(OfRequest(H.request)) /\ k \in OfRequest(H.request)
  BY PartsOfLog DEF ReplayFound, GatewayInv
<1>3. PICK c : c = log[k] /\ c = Replayed(H.request)
  BY <1>2 DEF Replayed
<1>4. /\ k \in DOMAIN log /\ c \in Checkpoint /\ c.state.request = H.request
      /\ c.state.status # "running" /\ ~Ended(c.state)
  <2>1. k \in DOMAIN log /\ c.state.request = H.request
    BY <1>2, <1>3 DEF OfRequest
  <2>2. c \in Checkpoint
    <3>1. log[k] \in Checkpoint
      BY <2>1 DEF GatewayInv, TypeOK
    <3> QED
      BY <1>3, <3>1
  <2>3. c.state.status # "running" /\ ~Ended(c.state)
    BY <1>3 DEF ReplayFound
  <2> QED
    BY <2>1, <2>2, <2>3
<1>5. PICK x : x = [H EXCEPT !.pc = "replay", !.root = c.root, !.expected = c.version,
                             !.state = c.state]
  OBVIOUS
<1>6. /\ x \in Handler /\ x.pc = "replay" /\ x.request = H.request /\ x.root = c.root
      /\ x.expected = c.version /\ x.state = c.state
  BY <1>1, <1>4, <1>5 DEF Handler, Checkpoint, Pcs
<1>7. Moves(h, x)
  BY <1>1, <1>3, <1>5, <1>6 DEF Moves, ReplayFound
<1>8. c = [root |-> c.root, version |-> c.version, state |-> c.state]
  BY <1>4 DEF Checkpoint
<1>9. Legal(x) /\ ~Owns(x)
  BY <1>1, <1>3, <1>4, <1>6, <1>8 DEF Legal, Fine, Replays, Owns, Executes
<1>10. Loops(h, x)
  BY <1>1 DEF Loops, Holds, ReplayFound
<1>11. Saves(x.pc) + 2 * attempts <= Saves(H.pc) + 2 * attempts
  <2>1. Saves(x.pc) = 1 /\ Saves(H.pc) = 2
    BY <1>1, <1>6 DEF Saves, Executes
  <2>2. attempts \in Nat
    BY BoundsAssumption DEF GatewayInv, TypeOK
  <2> QED
    BY <2>1, <2>2
<1>12. Local(h, x)
  BY <1>7, <1>9, <1>10, <1>11 DEF Local, ReplayFound, tables, GatewayInv, TypeOK
<1> QED
  BY <1>12, LocalStep

-----------------------------------------------------------------------------
(***************************************************************************)
(* The supervisor's steps.                                                 *)
(***************************************************************************)

\* The state of a run, and the same with other fields.
Alike(s, to) ==
  /\ to \in State /\ to.request = s.request /\ to.replans = s.replans

\* A state with another status, outcome and task.
Written(s, status, o, task) ==
  [s EXCEPT !.status = status, !.outcome = o, !.current = FALSE, !.task = task]

\* It is a state of the same request.
LEMMA WrittenState ==
  ASSUME NEW s \in State, NEW status \in Status, NEW o \in Outcomes,
         NEW task \in Status \cup {None}
  PROVE  /\ Alike(s, Written(s, status, o, task))
         /\ Written(s, status, o, task).status = status
<1>1. PICK to : to = Written(s, status, o, task)
  OBVIOUS
<1>2. to \in State
  BY <1>1 DEF Written, State
<1>3. to.request = s.request /\ to.replans = s.replans /\ to.status = status
  BY <1>1 DEF Written, State
<1> QED
  BY <1>1, <1>2, <1>3 DEF Alike

\* A state with the result of a worker.
Reported(s, status, task, result, refs, current) ==
  [s EXCEPT !.status = status, !.task = task, !.result = result, !.refs = refs,
            !.current = current]

\* It, too, is a state of the same request, with the same plan.
LEMMA ReportedState ==
  ASSUME NEW s \in State, NEW status \in Status, NEW task \in Status,
         NEW result \in Outcomes \cup {"asked"}, NEW refs \in BOOLEAN,
         NEW current \in BOOLEAN
  PROVE  /\ Alike(s, Reported(s, status, task, result, refs, current))
         /\ Reported(s, status, task, result, refs, current).status = status
         /\ Reported(s, status, task, result, refs, current).task = task
         /\ Reported(s, status, task, result, refs, current).plan = s.plan
<1>1. [s EXCEPT !.status = status, !.task = task] \in State
  BY DEF State
<1>2. ASSUME NEW x \in State PROVE [x EXCEPT !.result = result] \in State
  BY DEF State
<1>3. ASSUME NEW x \in State PROVE [x EXCEPT !.refs = refs] \in State
  BY DEF State
<1>4. ASSUME NEW x \in State PROVE [x EXCEPT !.current = current] \in State
  BY DEF State
<1>5. PICK to : to = Reported(s, status, task, result, refs, current)
  OBVIOUS
<1>6. to \in State
  <2>1. PICK a \in State : a = [s EXCEPT !.status = status, !.task = task]
    BY <1>1
  <2>2. PICK b \in State : b = [a EXCEPT !.result = result]
    BY <1>2
  <2>3. PICK c \in State : c = [b EXCEPT !.refs = refs]
    BY <1>3
  <2>4. to = [c EXCEPT !.current = current]
    BY <1>5, <2>1, <2>2, <2>3 DEF Reported
  <2> QED
    BY <1>4, <2>4
<1>7. /\ to.request = s.request /\ to.replans = s.replans /\ to.plan = s.plan
      /\ to.status = status /\ to.task = task
  BY <1>5 DEF Reported, State
<1> QED
  BY <1>5, <1>6, <1>7 DEF Alike

\* How a run ends leaves its request and its replans alone.
LEMMA Ends ==
  ASSUME NEW s \in State, NEW t \in Status \cup {None}, NEW o \in Outcomes
  PROVE  /\ Alike(s, Failed(s)) /\ Failed(s).status = "failed"
         /\ Alike(s, Finished(s, t)) /\ Finished(s, t).status = "completed"
         /\ Alike(s, CannotComplete(s, o, t))
         /\ CannotComplete(s, o, t).status \in {"completed", "failed"}
         /\ Settled(t, "completed") \in Status \cup {None}
         /\ Settled(t, "failed") \in Status \cup {None}
<1>1. /\ Settled(t, "completed") \in Status \cup {None}
      /\ Settled(t, "failed") \in Status \cup {None}
      /\ Settled(s.task, "failed") \in Status \cup {None}
  BY DEF Settled, State, Status
<1>2. Alike(s, Failed(s)) /\ Failed(s).status = "failed"
  <2>1. PICK task \in Status \cup {None} : task = Settled(s.task, "failed")
    BY <1>1
  <2>2. Failed(s) = Written(s, "failed", "system_error", task)
    BY <2>1 DEF Failed, Written
  <2>3. "failed" \in Status /\ "system_error" \in Outcomes
    BY DEF Status, Outcomes
  <2> QED
    BY <2>2, <2>3, WrittenState
<1>3. Alike(s, Finished(s, t)) /\ Finished(s, t).status = "completed"
  <2>1. Finished(s, t) = Written(s, "completed", "answered", t)
    BY DEF Finished, Written
  <2>2. "completed" \in Status /\ "answered" \in Outcomes
    BY DEF Status, Outcomes
  <2> QED
    BY <2>1, <2>2, WrittenState
<1>4. Alike(s, CannotComplete(s, o, t))
      /\ CannotComplete(s, o, t).status \in {"completed", "failed"}
  <2>1. PICK status \in {"completed", "failed"} :
          status = IF o = "system_error" THEN "failed" ELSE "completed"
    OBVIOUS
  <2>2. CannotComplete(s, o, t) = Written(s, status, o, t)
    BY <2>1 DEF CannotComplete, Written
  <2>3. status \in Status
    BY DEF Status
  <2> QED
    BY <2>2, <2>3, WrittenState
<1> QED
  BY <1>1, <1>2, <1>3, <1>4

\* A call that executes its root goes on executing it.
Works(h, x) ==
  /\ Moves(h, x) /\ Fine(x) /\ Loops(h, x)
  /\ handlers[h].pc \in Executes /\ x.pc \in Executes \cup {"deny"}
  /\ x.request = handlers[h].request /\ x.root = handlers[h].root
  /\ x.expected = handlers[h].expected
  /\ x.state.request = handlers[h].state.request
  /\ UNCHANGED <<roots, log, granted, delivered, attempts, crashes>>
  /\ boards' \in [Roots -> Board]
  /\ \A i \in Roots : i # handlers[h].root => boards'[i] = boards[i]

\* A call that goes on executing its root keeps the invariant.
LEMMA WorkStep ==
  ASSUME GatewayInv, NEW h, NEW x, Works(h, x)
  PROVE  GatewayInv'
<1>1. Owns(handlers[h])
  BY DEF GatewayInv, Works, Moves, Legal
<1>2. Owns(x)
  BY <1>1 DEF Works, Owns
<1>3. Legal(x)
  BY <1>2 DEF Works, Legal, Executes
<1>4. Saves(x.pc) = 1 /\ Saves(handlers[h].pc) = 1 /\ attempts \in Nat
  BY BoundsAssumption DEF Works, Saves, Executes, GatewayInv, TypeOK
<1>5. \A i \in Roots : roots[i] # "running" => boards'[i] = boards[i]
  BY <1>1 DEF Works, Owns
<1>6. Local(h, x)
  BY <1>1, <1>3, <1>4, <1>5 DEF Works, Local, GatewayInv, TypeOK
<1> QED
  BY <1>6, LocalStep

\* The same for a call whose state becomes s, at another place.
LEMMA StateStep ==
  ASSUME GatewayInv, NEW h \in Handlers, NEW p \in Pcs, NEW b \in BOOLEAN, NEW s \in State,
         handlers[h].pc \in Executes, p \in Executes \cup {"deny"},
         handlers' = [handlers EXCEPT
           ![h] = [handlers[h] EXCEPT !.pc = p, !.replan = b, !.state = s]],
         \A x : /\ x.pc = p /\ x.request \in Requests /\ x.replan = b /\ x.state = s
                => Fine(x) /\ Loops(h, x),
         s.request = handlers[h].state.request,
         UNCHANGED <<roots, log, granted, delivered, attempts, crashes>>,
         boards' \in [Roots -> Board],
         \A i \in Roots : i # handlers[h].root => boards'[i] = boards[i]
  PROVE  GatewayInv'
<1> DEFINE H == handlers[h]
<1>1. H \in Handler /\ Legal(H) /\ H.request \in Requests
  BY Typed DEF GatewayInv, Legal, Fine, Executes
<1>2. PICK x : x = [H EXCEPT !.pc = p, !.replan = b, !.state = s]
  OBVIOUS
<1>3. /\ x \in Handler /\ x.pc = p /\ x.request = H.request /\ x.root = H.root
      /\ x.expected = H.expected /\ x.state = s
  BY <1>1, <1>2 DEF Handler
<1>4. x.replan = b
  BY <1>1, <1>2, Zenon DEF Handler
<1>5. Moves(h, x)
  BY <1>2, <1>3 DEF Moves
<1>6. Works(h, x)
  BY <1>1, <1>3, <1>4, <1>5 DEF Works
<1> QED
  BY <1>6, WorkStep

\* The supervisor returns s, and the result is to be authorized.
LEMMA ReturnStep ==
  ASSUME GatewayInv, NEW h \in Handlers, NEW s \in State, Return(h, s),
         handlers[h].pc \in {"plan", "decide", "worker", "answer"},
         Alike(handlers[h].state, s),
         s.status \in {"waiting_user", "completed", "failed"},
         s.status = "waiting_user" =>
           s.plan # None /\ s.task = "waiting_user" /\ s.current,
         UNCHANGED <<roots, log, granted, loop, delivered, attempts, crashes>>,
         boards' \in [Roots -> Board],
         \A i \in Roots : i # handlers[h].root => boards'[i] = boards[i]
  PROVE  GatewayInv'
<1> DEFINE H == handlers[h]
<1>1. H \in Handler /\ Legal(H) /\ handlers \in [Handlers -> Handler]
      /\ H.replan \in BOOLEAN
  BY Typed DEF GatewayInv, TypeOK
<1>2. PICK late \in BOOLEAN :
        handlers' = [handlers EXCEPT ![h].pc = "authorize",
                                     ![h].state = [s EXCEPT !.over = late]]
  BY DEF Return
<1>3. PICK t : t = [s EXCEPT !.over = late]
  OBVIOUS
<1>4. /\ t \in State /\ t.request = s.request /\ t.status = s.status /\ t.plan = s.plan
      /\ t.task = s.task /\ t.replans = s.replans
  BY <1>3 DEF State
<1>5. t.current = s.current
  BY <1>3, Zenon DEF State
<1>6. handlers' = [handlers EXCEPT
                    ![h] = [handlers[h] EXCEPT !.pc = "authorize", !.replan = H.replan,
                                               !.state = t]]
  <2>1. handlers' = [handlers EXCEPT ![h].pc = "authorize", ![h].state = t]
    BY <1>2, <1>3
  <2>2. [handlers[h] EXCEPT !.pc = "authorize", !.state = t]
           = [handlers[h] EXCEPT !.pc = "authorize", !.replan = H.replan, !.state = t]
    BY <1>1 DEF Handler
  <2> QED
    BY <1>1, <2>1, <2>2
<1>7. ASSUME NEW x, x.pc = "authorize", x.request \in Requests, x.replan = H.replan,
             x.state = t
      PROVE  Fine(x) /\ Loops(h, x)
  <2>1. H.replan => H.state.replans = 0
    BY <1>1 DEF Legal, Fine
  <2>2. Fine(x)
    BY <1>4, <1>5, <1>7, <2>1 DEF Fine, Alike, Executes
  <2> QED
    BY <1>7, <2>2 DEF Loops, Holds
<1>8. "authorize" \in Pcs /\ "authorize" \in Executes /\ H.pc \in Executes
  BY DEF Executes, Pcs
<1>9. t.request = handlers[h].state.request
  BY <1>4 DEF Alike
<1> QED
  BY <1>1, <1>4, <1>6, <1>7, <1>8, <1>9, StateStep

\* The supervisor ends the run, or asks the user.
LEMMA EndingSteps ==
  ASSUME GatewayInv, NEW h \in Handlers,
         GraphFails(h) \/ AskUser(h) \/ Finish(h) \/ Refuse(h)
  PROVE  GatewayInv'
<1> DEFINE H == handlers[h]
<1>1. H \in Handler /\ Legal(H) /\ H.state \in State
      /\ H.state.task \in Status \cup {None}
      /\ boards \in [Roots -> Board]
  <2>1. H \in Handler /\ Legal(H) /\ H.state \in State /\ boards \in [Roots -> Board]
    BY Typed DEF GatewayInv, TypeOK
  <2> QED
    BY <2>1 DEF State
<1>2. CASE GraphFails(h)
  <2>1. Alike(H.state, Failed(H.state)) /\ Failed(H.state).status = "failed"
    BY <1>1, Ends DEF Outcomes
  <2> QED
    BY <1>1, <1>2, <2>1, ReturnStep DEF GraphFails, At, tables, Alike
<1>3. CASE AskUser(h)
  <2>1. PICK s : s = [H.state EXCEPT !.status = "waiting_user",
                                     !.task = "waiting_user", !.current = TRUE]
    OBVIOUS
  <2>2. /\ Alike(H.state, s) /\ s.status = "waiting_user" /\ s.task = "waiting_user"
        /\ s.plan = H.state.plan
    BY <1>1, <2>1 DEF Alike, State, Status
  <2>3. s.current
    BY <1>1, <2>1, Zenon DEF State
  <2>4. s.plan # None
    BY <1>1, <1>3, <2>2 DEF Legal, Fine, AskUser, At
  <2> QED
    BY <1>1, <1>3, <2>1, <2>2, <2>3, <2>4, ReturnStep DEF AskUser, At, tables, Alike
<1>4. ASSUME At(h, "decide") \/ At(h, "answer"),
             NEW to \in {"completed", "failed"}, NEW task \in LeftTasks(h, to)
      PROVE  task \in Status \cup {None}
  BY <1>1, Ends, <1>4 DEF LeftTasks, Outcomes
<1>5. CASE Finish(h)
  <2>1. PICK task \in LeftTasks(h, "completed") : Return(h, Finished(H.state, task))
    BY <1>5 DEF Finish
  <2>2. task \in Status \cup {None}
    BY <1>4, <1>5, <2>1 DEF Finish
  <2>3. PICK s : s = Finished(H.state, task)
    OBVIOUS
  <2>4. Alike(H.state, s) /\ s.status = "completed"
    BY <1>1, <2>2, <2>3, Ends DEF Outcomes
  <2> QED
    BY <1>1, <1>5, <2>1, <2>3, <2>4, ReturnStep DEF Finish, At, tables, Alike
<1>6. CASE Refuse(h)
  <2>1. PICK task \in LeftTasks(h, "failed"), o \in Outcomes \ {"answered"} :
          Return(h, CannotComplete(H.state, o, task))
    BY <1>6 DEF Refuse
  <2>2. task \in Status \cup {None}
    BY <1>4, <1>6, <2>1 DEF Refuse
  <2>3. PICK s : s = CannotComplete(H.state, o, task)
    OBVIOUS
  <2>4. Alike(H.state, s) /\ s.status \in {"completed", "failed"}
    BY <1>1, <2>1, <2>2, <2>3, Ends
  <2> QED
    BY <1>1, <1>6, <2>1, <2>3, <2>4, ReturnStep DEF Refuse, At, tables, Alike
<1> QED
  BY <1>2, <1>3, <1>5, <1>6

\* A board's task and outcome are written.
LEMMA BoardWritten ==
  ASSUME GatewayInv, NEW h \in Handlers, handlers[h].pc \in Executes,
         NEW t \in Status, NEW o \in Outcomes,
         LET i == handlers[h].root IN
           \/ boards' = boards
           \/ boards' = [boards EXCEPT ![i].task = t]
           \/ boards' = [boards EXCEPT ![i].task = t, ![i].workers = TRUE]
           \/ boards' = [boards EXCEPT ![i].task = t, ![i].outcome = o]
  PROVE  /\ boards' \in [Roots -> Board]
         /\ \A i \in Roots : i # handlers[h].root => boards'[i] = boards[i]
<1>1. handlers[h].root \in Roots /\ boards \in [Roots -> Board]
  BY DEF GatewayInv, Legal, Owns, TypeOK
<1> QED
  BY <1>1 DEF Board

\* A worker starts, asks, fails or raises.
LEMMA WorkerSteps ==
  ASSUME GatewayInv, NEW h \in Handlers,
         \/ \E refs \in BOOLEAN : WorkerAsks(h, refs) \/ WorkerFails(h, refs)
         \/ WorkerRaises(h)
  PROVE  GatewayInv'
<1> DEFINE H == handlers[h]
<1>1. H \in Handler /\ Legal(H) /\ H.state \in State /\ H.pc = "worker"
  BY Typed DEF GatewayInv, WorkerAsks, WorkerFails, WorkerRaises, At
<1>2. H.state.plan # None
  BY <1>1 DEF Legal, Fine
<1>3. Alike(H.state, Failed(H.state)) /\ Failed(H.state).status = "failed"
  BY <1>1, Ends DEF Outcomes, State
<1>4. ASSUME NEW refs \in BOOLEAN, WorkerAsks(h, refs)
      PROVE  GatewayInv'
  <2>1. PICK r \in BOOLEAN : r = (H.state.refs \/ refs)
    OBVIOUS
  <2>2. PICK s : s = Reported(H.state, "waiting_user", "waiting_user", "asked", r, TRUE)
    OBVIOUS
  <2>3. Return(h, s) /\ boards' = [boards EXCEPT ![H.root].task = "waiting_user"]
        /\ UNCHANGED <<roots, log, granted, loop, delivered, attempts, crashes>>
    BY <1>4, <2>1, <2>2 DEF WorkerAsks, Reported
  <2>4. /\ Alike(H.state, s) /\ s.status = "waiting_user" /\ s.task = "waiting_user"
        /\ s.plan = H.state.plan
    <3>1. PICK w, a, yes : w = "waiting_user" /\ a = "asked" /\ yes = TRUE
      OBVIOUS
    <3>2. w \in Status /\ a \in Outcomes \cup {"asked"} /\ yes \in BOOLEAN
      BY <3>1 DEF Status
    <3>3. PICK g \in State : g = H.state
      BY <1>1
    <3>4. s = Reported(g, w, w, a, r, yes)
      BY <2>2, <3>1, <3>3
    <3>5. Alike(g, s) /\ s.status = w /\ s.task = w /\ s.plan = g.plan
      BY <3>2, <3>4, ReportedState
    <3> QED
      BY <3>1, <3>3, <3>5
  <2>5. s.current
    BY <1>1, <2>2, Zenon DEF State, Reported
  <2>6. /\ boards' \in [Roots -> Board]
        /\ \A i \in Roots : i # handlers[h].root => boards'[i] = boards[i]
    BY <1>1, <2>3, BoardWritten DEF Status, Outcomes, Executes
  <2> QED
    BY <1>1, <1>2, <2>3, <2>4, <2>5, <2>6, ReturnStep DEF Alike
<1>5. ASSUME NEW refs \in BOOLEAN, WorkerFails(h, refs)
      PROVE  GatewayInv'
  <2>1. PICK f : f = Failed(H.state)
    OBVIOUS
  <2>2. PICK r \in BOOLEAN : r = (f.refs \/ refs)
    OBVIOUS
  <2>3. PICK s : s = [f EXCEPT !.result = "system_error", !.refs = r]
    OBVIOUS
  <2>4. Return(h, s)
        /\ boards' = [boards EXCEPT ![H.root].task = "failed",
                                    ![H.root].outcome = "system_error"]
        /\ UNCHANGED <<roots, log, granted, loop, delivered, attempts, crashes>>
    BY <1>5, <2>1, <2>2, <2>3 DEF WorkerFails
  <2>5. Alike(H.state, s) /\ s.status = "failed"
    <3>1. f \in State /\ "system_error" \in Outcomes
      BY <1>3, <2>1 DEF Alike, Outcomes
    <3>2. s \in State
      BY <2>2, <2>3, <3>1 DEF State
    <3>3. s.request = f.request /\ s.replans = f.replans /\ s.status = f.status
      BY <2>3, <3>1 DEF State
    <3> QED
      BY <1>3, <2>1, <3>2, <3>3 DEF Alike
  <2>6. /\ boards' \in [Roots -> Board]
        /\ \A i \in Roots : i # handlers[h].root => boards'[i] = boards[i]
    BY <1>1, <2>4, BoardWritten DEF Status, Outcomes, Executes
  <2> QED
    BY <1>1, <2>4, <2>5, <2>6, ReturnStep DEF Alike
<1>6. CASE WorkerRaises(h)
  <2>1. PICK s : s = Failed(H.state)
    OBVIOUS
  <2>2. Return(h, s) /\ UNCHANGED <<roots, log, granted, loop, delivered, attempts, crashes>>
        /\ \/ UNCHANGED boards
           \/ boards' = [boards EXCEPT ![H.root].task = "completed",
                                       ![H.root].outcome = "answered"]
    BY <1>6, <2>1 DEF WorkerRaises
  <2>3. /\ boards' \in [Roots -> Board]
        /\ \A i \in Roots : i # handlers[h].root => boards'[i] = boards[i]
    BY <1>1, <2>2, BoardWritten DEF Status, Outcomes, Executes
  <2> QED
    BY <1>1, <1>3, <2>1, <2>2, <2>3, ReturnStep DEF Alike
<1> QED
  BY <1>4, <1>5, <1>6

\* The planner's plan is saved, and the graph goes on with it.
LEMMA SavePlanStep ==
  ASSUME GatewayInv, NEW h \in Handlers, NEW p \in Plans, SavePlan(h, p)
  PROVE  GatewayInv'
<1> DEFINE H == handlers[h]
<1>1. H \in Handler /\ Legal(H) /\ H.pc = "plan" /\ H.replan \in BOOLEAN /\ H.state \in State
      /\ handlers \in [Handlers -> Handler]
  BY Typed DEF GatewayInv, TypeOK, SavePlan, At
<1>2. H.root \in Roots /\ boards \in [Roots -> Board] /\ p # None
  BY <1>1, NoneAssumption DEF GatewayInv, Legal, Owns, Executes, TypeOK
<1>3. PICK s : s = [H.state EXCEPT !.plan = p, !.task = "waiting"]
  OBVIOUS
<1>4. /\ s \in State /\ s.request = H.state.request /\ s.plan = p
      /\ s.status = H.state.status /\ s.replans = H.state.replans
  BY <1>1, <1>3 DEF State, Status
<1>5. PICK q : q = IF p \in DirectPlans THEN "answer" ELSE "decide"
  OBVIOUS
<1>6. handlers' = [handlers EXCEPT
                    ![h] = [handlers[h] EXCEPT !.pc = q, !.replan = H.replan, !.state = s]]
  <2>1. handlers' = [handlers EXCEPT ![h].pc = q, ![h].state.plan = p,
                                     ![h].state.task = "waiting"]
    BY <1>5 DEF SavePlan
  <2>2. [handlers[h] EXCEPT !.pc = q, !.replan = H.replan, !.state = s]
          = [handlers[h] EXCEPT !.pc = q, !.state.plan = p, !.state.task = "waiting"]
    BY <1>1, <1>3 DEF Handler, State
  <2> QED
    BY <1>1, <2>1, <2>2
<1>7. ASSUME NEW x, x.pc = q, x.request \in Requests, x.replan = H.replan, x.state = s
      PROVE  Fine(x) /\ Loops(h, x)
  <2>1. (H.replan => H.state.replans = 0) /\ H.state.status = "running"
    BY <1>1 DEF Legal, Fine, Executes
  <2>2. Fine(x)
    BY <1>2, <1>4, <1>5, <1>7, <2>1 DEF Fine, Executes
  <2> QED
    BY <1>5, <1>7, <2>2 DEF Loops, Holds, SavePlan
<1>8. /\ boards' \in [Roots -> Board]
      /\ \A i \in Roots : i # H.root => boards'[i] = boards[i]
  <2>1. [NoBoard EXCEPT !.plan = p, !.task = "waiting"] \in Board
    BY DEF NoBoard, Board, Status
  <2> QED
    BY <1>2, <2>1 DEF SavePlan
<1>9. /\ q \in Pcs /\ q \in Executes \cup {"deny"} /\ H.pc \in Executes
      /\ UNCHANGED <<roots, log, granted, delivered, attempts, crashes>>
  BY <1>1, <1>5 DEF Pcs, Executes, SavePlan
<1> QED
  BY <1>1, <1>4, <1>6, <1>7, <1>8, <1>9, StateStep

\* A worker is started for the current task.
LEMMA StartWorkerStep ==
  ASSUME GatewayInv, NEW h \in Handlers, StartWorker(h)
  PROVE  GatewayInv'
<1> DEFINE H == handlers[h]
<1>1. H \in Handler /\ Legal(H) /\ H.pc = "decide" /\ H.replan \in BOOLEAN
      /\ H.state \in State /\ handlers \in [Handlers -> Handler]
  BY Typed DEF GatewayInv, TypeOK, StartWorker, At
<1>2. PICK s : s = [H.state EXCEPT !.task = "running"]
  OBVIOUS
<1>3. /\ s \in State /\ s.request = H.state.request /\ s.plan = H.state.plan
      /\ s.status = H.state.status /\ s.replans = H.state.replans
  BY <1>1, <1>2 DEF State, Status
<1>4. handlers' = [handlers EXCEPT
                    ![h] = [handlers[h] EXCEPT !.pc = "worker", !.replan = H.replan,
                                               !.state = s]]
  <2>1. handlers' = [handlers EXCEPT ![h].pc = "worker", ![h].state.task = "running"]
    BY DEF StartWorker
  <2>2. [handlers[h] EXCEPT !.pc = "worker", !.replan = H.replan, !.state = s]
          = [handlers[h] EXCEPT !.pc = "worker", !.state.task = "running"]
    BY <1>1, <1>2 DEF Handler, State
  <2> QED
    BY <1>1, <2>1, <2>2
<1>5. ASSUME NEW x, x.pc = "worker", x.request \in Requests, x.replan = H.replan, x.state = s
      PROVE  Fine(x) /\ Loops(h, x)
  <2>1. (H.replan => H.state.replans = 0) /\ H.state.status = "running"
        /\ H.state.plan # None
    BY <1>1 DEF Legal, Fine, Executes
  <2>2. Fine(x)
    BY <1>3, <1>5, <2>1 DEF Fine, Executes
  <2> QED
    BY <1>5, <2>2 DEF Loops, Holds, StartWorker
<1>6. /\ boards' \in [Roots -> Board]
      /\ \A i \in Roots : i # H.root => boards'[i] = boards[i]
  BY <1>1, BoardWritten DEF StartWorker, Status, Outcomes, Executes
<1>7. /\ "worker" \in Pcs /\ "worker" \in Executes /\ H.pc \in Executes
      /\ UNCHANGED <<roots, log, granted, delivered, attempts, crashes>>
  BY <1>1 DEF Pcs, Executes, StartWorker
<1> QED
  BY <1>1, <1>3, <1>4, <1>5, <1>6, <1>7, StateStep

\* A worker's result is recorded.
LEMMA WorkerCompletesStep ==
  ASSUME GatewayInv, NEW h \in Handlers, NEW o \in Outcomes, NEW refs \in BOOLEAN,
         WorkerCompletes(h, o, refs)
  PROVE  GatewayInv'
<1> DEFINE H == handlers[h]
<1>1. H \in Handler /\ Legal(H) /\ H.pc = "worker" /\ H.replan \in BOOLEAN
      /\ H.state \in State /\ handlers \in [Handlers -> Handler]
  BY Typed DEF GatewayInv, TypeOK, WorkerCompletes, At
<1>2. PICK r \in BOOLEAN : r = (H.state.refs \/ refs)
  OBVIOUS
<1>3. PICK s : s = [H.state EXCEPT !.task = "completed", !.result = o,
                                   !.current = FALSE, !.refs = r]
  OBVIOUS
<1>4. /\ s \in State /\ s.request = H.state.request
      /\ s.status = H.state.status /\ s.replans = H.state.replans
  <2>1. "completed" \in Status
    BY DEF Status
  <2>2. PICK a, b : /\ a = [H.state EXCEPT !.task = "completed", !.result = o]
                    /\ b = [a EXCEPT !.current = FALSE]
    OBVIOUS
  <2>3. s = [b EXCEPT !.refs = r]
    BY <1>3, <2>2
  <2>4. a \in State
    BY <1>1, <2>1, <2>2 DEF State
  <2>5. b \in State
    BY <2>2, <2>4 DEF State
  <2>6. s \in State
    BY <1>2, <2>3, <2>5 DEF State
  <2> QED
    BY <1>1, <1>3, <2>6 DEF State
<1>5. handlers' = [handlers EXCEPT
                    ![h] = [handlers[h] EXCEPT !.pc = "answer", !.replan = H.replan,
                                               !.state = s]]
  <2>1. handlers' = [handlers EXCEPT ![h].pc = "answer", ![h].state = s]
    BY <1>2, <1>3 DEF WorkerCompletes
  <2>2. [handlers[h] EXCEPT !.pc = "answer", !.replan = H.replan, !.state = s]
          = [handlers[h] EXCEPT !.pc = "answer", !.state = s]
    BY <1>1 DEF Handler
  <2> QED
    BY <1>1, <2>1, <2>2
<1>6. ASSUME NEW x, x.pc = "answer", x.request \in Requests, x.replan = H.replan, x.state = s
      PROVE  Fine(x) /\ Loops(h, x)
  <2>1. (H.replan => H.state.replans = 0) /\ H.state.status = "running"
    BY <1>1 DEF Legal, Fine, Executes
  <2>2. Fine(x)
    BY <1>4, <1>6, <2>1 DEF Fine, Executes
  <2> QED
    BY <1>6, <2>2 DEF Loops, Holds, WorkerCompletes
<1>7. /\ boards' \in [Roots -> Board]
      /\ \A i \in Roots : i # H.root => boards'[i] = boards[i]
  BY <1>1, BoardWritten DEF WorkerCompletes, Status, Outcomes, Executes
<1>8. /\ "answer" \in Pcs /\ "answer" \in Executes /\ H.pc \in Executes
      /\ UNCHANGED <<roots, log, granted, delivered, attempts, crashes>>
  BY <1>1 DEF Pcs, Executes, WorkerCompletes
<1> QED
  BY <1>1, <1>4, <1>5, <1>6, <1>7, <1>8, StateStep

\* The supervisor is awaited after a resume.
LEMMA ResumedStep ==
  ASSUME GatewayInv, NEW h \in Handlers, Resumed(h)
  PROVE  GatewayInv'
<1> DEFINE H == handlers[h]
<1>1. H \in Handler /\ Legal(H) /\ H.pc = "budget" /\ H.state \in State
      /\ handlers \in [Handlers -> Handler]
  BY Typed DEF GatewayInv, TypeOK, Resumed, At
<1>2. PICK b \in BOOLEAN : b = (H.state.result = None /\ H.state.replans = 0)
  OBVIOUS
<1>3. PICK q : q = IF b THEN "plan" ELSE "decide"
  OBVIOUS
<1>4. PICK r \in BOOLEAN : r = (~b /\ H.state.refs)
  OBVIOUS
<1>5. PICK s : s = [H.state EXCEPT !.refs = r]
  OBVIOUS
<1>6. /\ s \in State /\ s.request = H.state.request /\ s.plan = H.state.plan
      /\ s.status = H.state.status /\ s.replans = H.state.replans
  BY <1>1, <1>4, <1>5 DEF State, Status
<1>7. handlers' = [handlers EXCEPT
                    ![h] = [handlers[h] EXCEPT !.pc = q, !.replan = b, !.state = s]]
  <2>1. handlers' = [handlers EXCEPT ![h].pc = q, ![h].replan = b, ![h].state.refs = r]
    BY <1>2, <1>3, <1>4 DEF Resumed
  <2>2. [handlers[h] EXCEPT !.pc = q, !.replan = b, !.state = s]
          = [handlers[h] EXCEPT !.pc = q, !.replan = b, !.state.refs = r]
    BY <1>1, <1>5 DEF Handler, State
  <2> QED
    BY <1>1, <2>1, <2>2
<1>8. ASSUME NEW x, x.pc = q, x.request \in Requests, x.replan = b, x.state = s
      PROVE  Fine(x) /\ Loops(h, x)
  <2>1. (b => H.state.replans = 0) /\ H.state.status = "running" /\ H.state.plan # None
    BY <1>1, <1>2 DEF Legal, Fine, Executes
  <2>2. Fine(x)
    BY <1>3, <1>6, <1>8, <2>1 DEF Fine, Executes
  <2> QED
    BY <1>1, <1>3, <1>8, <2>2 DEF Loops, Holds, Resumed
<1>9. /\ boards' \in [Roots -> Board]
      /\ \A i \in Roots : i # H.root => boards'[i] = boards[i]
  BY DEF Resumed, tables, GatewayInv, TypeOK
<1>10. /\ q \in Pcs /\ q \in Executes \cup {"deny"} /\ H.pc \in Executes
       /\ UNCHANGED <<roots, log, granted, delivered, attempts, crashes>>
  BY <1>1, <1>3 DEF Pcs, Executes, Resumed, tables
<1> QED
  BY <1>1, <1>2, <1>6, <1>7, <1>8, <1>9, <1>10, StateStep

\* The result is authorized again, or access has been lost.
LEMMA FinalSteps ==
  ASSUME GatewayInv, NEW h \in Handlers, FinalAuthorized(h) \/ FinalRevoked(h)
  PROVE  GatewayInv'
<1> DEFINE H == handlers[h]
<1>1. H \in Handler /\ Legal(H) /\ H.pc = "authorize" /\ H.replan \in BOOLEAN
      /\ H.state \in State /\ handlers \in [Handlers -> Handler]
      /\ (H.replan => H.state.replans = 0)
  <2>1. H \in Handler /\ Legal(H) /\ H.pc = "authorize" /\ H.replan \in BOOLEAN
        /\ H.state \in State /\ handlers \in [Handlers -> Handler]
    BY Typed DEF GatewayInv, TypeOK, FinalAuthorized, FinalRevoked, At
  <2> QED
    BY <2>1 DEF Legal, Fine
<1>2. UNCHANGED <<roots, boards, log, granted, delivered, attempts, crashes>>
      /\ TakeLoop(h) /\ LoopFree(h)
  BY DEF FinalAuthorized, FinalRevoked, tables
<1>3. PICK n : n = IF H.replan THEN H.state.replans + 1 ELSE H.state.replans
  OBVIOUS
<1>4. n \in 0..1
  <2>1. H.state.replans \in 0..1
    BY <1>1 DEF State
  <2>2. CASE H.replan
    BY <1>1, <1>3, <2>2
  <2>3. CASE ~H.replan
    BY <1>3, <2>1, <2>3
  <2> QED
    BY <2>2, <2>3
<1>5. PICK s : s = [H.state EXCEPT !.replans = n]
  OBVIOUS
<1>6. /\ s \in State /\ s.request = H.state.request /\ s.plan = H.state.plan
      /\ s.status = H.state.status /\ s.task = H.state.task
  BY <1>1, <1>4, <1>5 DEF State
<1>7. s.current = H.state.current
  BY <1>1, <1>5, Zenon DEF State
<1>8. PICK q \in {"finish", "deny"} :
        handlers' = [handlers EXCEPT ![h].pc = q, ![h].state = s]
  BY <1>3, <1>5 DEF FinalAuthorized, FinalRevoked, Merged
<1>9. handlers' = [handlers EXCEPT
                    ![h] = [handlers[h] EXCEPT !.pc = q, !.replan = H.replan, !.state = s]]
  <2>1. [handlers[h] EXCEPT !.pc = q, !.replan = H.replan, !.state = s]
          = [handlers[h] EXCEPT !.pc = q, !.state = s]
    BY <1>1 DEF Handler
  <2> QED
    BY <1>1, <1>8, <2>1
<1>10. ASSUME NEW x, x.pc = q, x.request \in Requests, x.replan = H.replan, x.state = s
      PROVE  Fine(x) /\ Loops(h, x)
  <2>1. /\ H.state.status \in {"waiting_user", "completed", "failed"}
        /\ H.state.status = "waiting_user" =>
             H.state.plan # None /\ H.state.task = "waiting_user" /\ H.state.current
    BY <1>1, Zenon DEF Legal, Fine
  <2>2. Fine(x)
    BY <1>6, <1>7, <1>8, <1>10, <2>1 DEF Fine, Executes
  <2> QED
    BY <1>1, <1>2, <1>8, <1>10, <2>2 DEF Loops, Holds
<1>11. /\ boards' \in [Roots -> Board]
      /\ \A i \in Roots : i # H.root => boards'[i] = boards[i]
  BY <1>2 DEF GatewayInv, TypeOK
<1>12. /\ q \in Pcs /\ q \in Executes \cup {"deny"} /\ H.pc \in Executes
       /\ UNCHANGED <<roots, log, granted, delivered, attempts, crashes>>
  BY <1>1, <1>2, <1>8 DEF Pcs, Executes
<1> QED
  BY <1>1, <1>6, <1>9, <1>10, <1>11, <1>12, StateStep

-----------------------------------------------------------------------------
(***************************************************************************)
(* The steps that save a checkpoint.                                       *)
(***************************************************************************)

\* The newest checkpoint of a root is one of the log's.
LEMMA LatestTyped ==
  ASSUME GatewayInv, NEW i \in Roots, roots[i] # "absent"
  PROVE  /\ OfRoot(i) # {} /\ Latest(i) \in State /\ roots[i] = Latest(i).status
         /\ Version(i) \in Nat
<1>1. OfRoot(i) # {} /\ roots[i] = Latest(i).status
  BY DEF GatewayInv, RootsInv
<1>2. Newest(OfRoot(i)) \in DOMAIN log /\ Version(i) \in Nat
  BY <1>1, PartsOfLog DEF GatewayInv, OfRoot
<1>3. log[Newest(OfRoot(i))] \in Checkpoint
  BY <1>2 DEF GatewayInv, TypeOK
<1> QED
  BY <1>1, <1>2, <1>3 DEF Latest, Checkpoint

\* A waiting root is claimed.
LEMMA ClaimStep ==
  ASSUME GatewayInv, NEW h \in Handlers, NEW i \in Roots, Claim(h, i)
  PROVE  GatewayInv'
<1> DEFINE H == handlers[h]
<1>1. H \in Handler /\ H.pc = "claim" /\ H.request \in Requests
      /\ handlers \in [Handlers -> Handler]
  BY Typed DEF GatewayInv, Claim, At, Legal, Fine, TypeOK
<1>2. /\ roots[i] = "waiting_user" /\ Latest(i) \in State /\ Version(i) \in Nat
  BY LatestTyped DEF Claim, WaitingRoots
<1>3. PICK l : l = Latest(i)
  OBVIOUS
<1>4. PICK n : n = l.resumes + 1
  OBVIOUS
<1>5. n \in 0..MaxResumes
  <2>1. l.resumes \in 0..MaxResumes /\ l.resumes < MaxResumes
    BY <1>2, <1>3 DEF Claim, Claimable, State
  <2> QED
    BY <1>4, <2>1, BoundsAssumption
<1>6. PICK s : s = Claimed(l, H.request)
  OBVIOUS
<1>7. s = [l EXCEPT !.request = H.request, !.processed = l.processed \cup {H.request},
                    !.resumes = n, !.status = "running", !.outcome = None,
                    !.task = "waiting"]
  BY <1>4, <1>6 DEF Claimed
<1>8. /\ s \in State /\ s.request = H.request /\ s.status = "running"
      /\ s.plan = l.plan /\ l.plan # None
  <2>1. s \in State /\ s.request = H.request /\ s.status = "running" /\ s.plan = l.plan
    BY <1>1, <1>2, <1>3, <1>5, <1>7 DEF State, Status
  <2> QED
    BY <1>3, <2>1 DEF Claim, Claimable
<1>9. PICK v \in Nat : v = Version(i) + 1
  BY <1>2
<1>10. PICK x : x = [H EXCEPT !.pc = "resume", !.root = i, !.expected = v, !.state = s]
  OBVIOUS
<1>11. /\ x \in Handler /\ x.pc = "resume" /\ x.root = i /\ x.expected = v
       /\ x.state = s /\ x.request = H.request
  BY <1>1, <1>8, <1>10 DEF Handler, Pcs
<1>12. Moves(h, x)
  BY <1>3, <1>6, <1>9, <1>10, <1>11 DEF Moves, Claim
<1>13. Fine(x) /\ Loops(h, x)
  BY <1>1, <1>8, <1>11 DEF Fine, Loops, Holds, Executes, Claim
<1>14. PICK c : c = [root |-> i, version |-> v, state |-> s]
  OBVIOUS
<1>15. /\ c \in Checkpoint /\ c.root = i /\ c.version = v /\ c.state = s
  BY <1>8, <1>14 DEF Checkpoint
<1>16. log' = Append(log, c) /\ roots' = [roots EXCEPT ![i] = s.status]
  BY <1>3, <1>6, <1>9, <1>14 DEF Claim, Save
<1>17. \A g \in Handlers : Owns(handlers[g]) => handlers[g].root # i
  BY <1>2 DEF Owns
<1>18. ActiveRoots \subseteq {i}
  BY <1>2 DEF ActiveRoots, GatewayInv, ActiveInv
<1>19. /\ boards' \in [Roots -> Board] /\ \A j \in Roots : j # i => boards'[j] = boards[j]
  <2>1. boards' = [boards EXCEPT ![i].task = "waiting"] /\ boards \in [Roots -> Board]
    BY DEF Claim, GatewayInv, TypeOK
  <2> QED
    BY <2>1 DEF Board, Status
<1>20. Saves(x.pc) + 1 <= Saves(H.pc)
  BY <1>1, <1>11 DEF Saves, Executes
<1>21. /\ UNCHANGED <<granted, attempts, crashes>>
       /\ delivered' \in [Requests -> SUBSET (Roots \X Nat)]
  BY DEF Claim, GatewayInv, TypeOK
<1>22. Saving(h, x, c)
  BY <1>8, <1>9, <1>11, <1>12, <1>13, <1>15, <1>16, <1>17, <1>18, <1>19, <1>20, <1>21 DEF Saving
<1> QED
  BY <1>22, SaveStep

\* A new root is begun.
LEMMA BeginStep ==
  ASSUME GatewayInv, NEW h \in Handlers, NEW i \in Roots, Begin(h, i)
  PROVE  GatewayInv'
<1> DEFINE H == handlers[h]
<1>1. H \in Handler /\ H.pc = "begin" /\ H.request \in Requests
      /\ handlers \in [Handlers -> Handler]
  BY Typed DEF GatewayInv, Begin, At, Legal, Fine, TypeOK
<1>2. Version(i) = 0
  <2>1. ASSUME OfRoot(i) # {} PROVE FALSE
    <3>1. Newest(OfRoot(i)) \in DOMAIN log
      BY <2>1, PartsOfLog DEF GatewayInv, OfRoot
    <3>2. log[Newest(OfRoot(i))] \in Checkpoint
      BY <3>1 DEF GatewayInv, TypeOK
    <3>3. Latest(i).status \in Status
      BY <3>2 DEF Checkpoint, State, Latest
    <3> QED
      BY <2>1, <3>3 DEF Begin, GatewayInv, RootsInv, Status
  <2> QED
    BY <2>1, FS_EmptySet DEF Version
<1>3. PICK s : s = InitialState(H.request)
  OBVIOUS
<1>4. /\ s \in State /\ s.request = H.request /\ s.status = "running" /\ s.replans = 0
  BY <1>1, <1>3, Typed DEF InitialState, NoState, State, GatewayInv
<1>5. PICK x : x = [H EXCEPT !.pc = "plan", !.root = i, !.expected = 1, !.state = s]
  OBVIOUS
<1>6. /\ x \in Handler /\ x.pc = "plan" /\ x.root = i /\ x.expected = 1
      /\ x.state = s /\ x.request = H.request
  BY <1>1, <1>4, <1>5 DEF Handler, Pcs
<1>7. Moves(h, x)
  BY <1>3, <1>5, <1>6 DEF Moves, Begin
<1>8. Fine(x) /\ Loops(h, x)
  BY <1>1, <1>4, <1>6 DEF Fine, Loops, Holds, Executes, Begin
<1>9. PICK c : c = [root |-> i, version |-> Version(i) + 1, state |-> s]
  OBVIOUS
<1>10. /\ c \in Checkpoint /\ c.root = i /\ c.version = 1 /\ c.state = s
  BY <1>2, <1>4, <1>9 DEF Checkpoint
<1>11. log' = Append(log, c) /\ roots' = [roots EXCEPT ![i] = s.status]
  BY <1>3, <1>9 DEF Begin, Save
<1>12. \A g \in Handlers : Owns(handlers[g]) => handlers[g].root # i
  BY DEF Owns, Begin
<1>13. Saves(x.pc) + 1 <= Saves(H.pc)
  BY <1>1, <1>6 DEF Saves, Executes
<1>14. /\ UNCHANGED <<granted, attempts, crashes, boards>> /\ ActiveRoots = {}
       /\ delivered' \in [Requests -> SUBSET (Roots \X Nat)]
       /\ boards' \in [Roots -> Board]
  BY DEF Begin, GatewayInv, TypeOK
<1>15. c.version = Version(c.root) + 1
  BY <1>2, <1>10
<1>16. Saving(h, x, c)
  BY <1>4, <1>6, <1>7, <1>8, <1>10, <1>11, <1>12, <1>13, <1>14, <1>15 DEF Saving
<1> QED
  BY <1>16, SaveStep

\* A call whose checkpoint is still its root's newest shares the root with no
\* other call that executes it.
LEMMA SavesAlone ==
  ASSUME GatewayInv, NEW h \in Handlers, Owns(handlers[h]) \/ Replays(handlers[h]),
         handlers[h].expected = Version(handlers[h].root)
  PROVE  /\ handlers[h].root \in Roots
         /\ \A g \in Handlers : g # h /\ Owns(handlers[g]) =>
              handlers[g].root # handlers[h].root
<1> DEFINE H == handlers[h]
<1>1. CASE Owns(H)
  BY <1>1 DEF Owns, GatewayInv, OwnersInv
<1>2. CASE Replays(H)
  <2>1. PICK k \in DOMAIN log :
          log[k] = [root |-> H.root, version |-> H.expected, state |-> H.state]
    BY <1>2 DEF Replays
  <2>2. log[k] \in Checkpoint
    BY DEF GatewayInv, TypeOK
  <2>3. /\ H.root \in Roots /\ log[k].root = H.root /\ log[k].version = Version(H.root)
        /\ log[k].state = H.state
    BY <2>1, <2>2 DEF Checkpoint
  <2>4. k = Newest(OfRoot(H.root)) /\ k \in OfRoot(H.root)
    BY <2>3 DEF GatewayInv, VersionsInv, OfRoot
  <2>5. roots[H.root] = H.state.status
    BY <2>3, <2>4 DEF GatewayInv, RootsInv, Latest
  <2> QED
    BY <1>2, <2>3, <2>5 DEF Replays, Owns
<1> QED
  BY <1>1, <1>2

\* The loss of access is saved.
LEMMA DenyStep ==
  ASSUME GatewayInv, NEW h \in Handlers, Deny(h)
  PROVE  GatewayInv'
<1> DEFINE H == handlers[h]
<1>1. H \in Handler /\ H.pc = "deny" /\ Legal(H) /\ H.state \in State
  BY Typed DEF GatewayInv, Deny, At
<1>2. Savable(Denied(H.state), H.root, H.expected) /\ End(h) /\ Save(Denied(H.state), H.root)
      /\ UNCHANGED <<boards, granted, delivered, attempts, crashes>>
  BY DEF Deny
<1>3. PICK i : i = H.root
  OBVIOUS
<1>4. /\ i \in Roots /\ Version(i) \in Nat
      /\ \A g \in Handlers : g # h /\ Owns(handlers[g]) => handlers[g].root # i
  BY <1>1, <1>2, <1>3, SavesAlone, PartsOfLog DEF Savable, Legal, GatewayInv
<1>5. PICK s : s = Denied(H.state)
  OBVIOUS
<1>6. s \in State /\ s.status = "completed"
  BY <1>1, <1>5 DEF Denied, State, Status, Outcomes
<1>7. PICK c : c = [root |-> i, version |-> Version(i) + 1, state |-> s]
  OBVIOUS
<1>8. c \in Checkpoint /\ c.root = i /\ c.version = Version(i) + 1 /\ c.state = s
  BY <1>4, <1>6, <1>7 DEF Checkpoint
<1>9. log' = Append(log, c) /\ roots' = [roots EXCEPT ![i] = s.status]
  BY <1>2, <1>3, <1>5, <1>7 DEF Save
<1>10. Moves(h, Idle) /\ Idle.pc = "idle" /\ Fine(Idle) /\ Loops(h, Idle)
  BY <1>1, <1>2, Typed DEF GatewayInv, Moves, End, Idle, Fine, Executes, Loops, Holds
<1>11. Saves(Idle.pc) + 1 <= Saves(H.pc)
  BY <1>1, <1>10 DEF Saves, Executes
<1>12. /\ delivered' \in [Requests -> SUBSET (Roots \X Nat)] /\ boards' \in [Roots -> Board]
  BY <1>2 DEF GatewayInv, TypeOK
<1>13. Saving(h, Idle, c)
  BY <1>2, <1>4, <1>6, <1>8, <1>9, <1>10, <1>11, <1>12 DEF Saving
<1> QED
  BY <1>13, SaveStep

\* The root ends or pauses.
LEMMA FinishRootStep ==
  ASSUME GatewayInv, NEW h \in Handlers, FinishRoot(h)
  PROVE  GatewayInv'
<1> DEFINE H == handlers[h]
<1>1. H \in Handler /\ H.pc = "finish" /\ Legal(H) /\ H.state \in State /\ Owns(H)
  BY Typed DEF GatewayInv, FinishRoot, At, Legal, Executes
<1>2. PICK s : s = H.state
  OBVIOUS
<1>3. PICK i : i = H.root
  OBVIOUS
<1>4. /\ s.plan # None => s.plan = boards[i].plan
      /\ boards' = [boards EXCEPT ![i] = Synchronized(s, boards[i])]
      /\ End(h) /\ Save(s, i)
      /\ UNCHANGED <<granted, attempts, crashes>>
  BY <1>2, <1>3 DEF FinishRoot, Finishable, Savable
<1>5. /\ i \in Roots /\ Version(i) \in Nat /\ roots[i] = "running"
      /\ \A g \in Handlers : g # h /\ Owns(handlers[g]) => handlers[g].root # i
  BY <1>1, <1>3, SavesAlone, PartsOfLog DEF Owns, GatewayInv
<1>6. PICK c : c = [root |-> i, version |-> Version(i) + 1, state |-> s]
  OBVIOUS
<1>7. c \in Checkpoint /\ c.root = i /\ c.version = Version(i) + 1 /\ c.state = s
  BY <1>1, <1>2, <1>5, <1>6 DEF Checkpoint
<1>8. log' = Append(log, c) /\ roots' = [roots EXCEPT ![i] = s.status]
  BY <1>4, <1>6 DEF Save
<1>9. Moves(h, Idle) /\ Idle.pc = "idle" /\ Fine(Idle) /\ Loops(h, Idle)
  BY <1>1, <1>4, Typed DEF GatewayInv, Moves, End, Idle, Fine, Executes, Loops, Holds
<1>10. Saves(Idle.pc) + 1 <= Saves(H.pc)
  BY <1>1, <1>9 DEF Saves, Executes
<1>11. boards[i] \in Board /\ boards \in [Roots -> Board]
  BY <1>5 DEF GatewayInv, TypeOK
<1>12. PICK b : b = Synchronized(s, boards[i])
  OBVIOUS
<1>13. b \in Board /\ (s.plan # None => b.plan = boards[i].plan /\ b.task = s.task)
  <2>1. CASE s.plan = None
    BY <1>11, <1>12, <2>1 DEF Synchronized
  <2>2. CASE s.plan # None
    <3>1. PICK o : o = IF s.result \in Outcomes THEN s.result
                       ELSE IF s.task \in {"completed", "failed"} THEN s.outcome
                       ELSE None
      OBVIOUS
    <3>2. o \in Outcomes \cup {None} /\ s.task \in Status \cup {None}
      BY <1>1, <1>2, <3>1 DEF State
    <3>3. b = [boards[i] EXCEPT !.task = s.task, !.outcome = o]
      BY <1>12, <2>2, <3>1 DEF Synchronized
    <3> QED
      BY <1>11, <3>2, <3>3 DEF Board
  <2> QED
    BY <2>1, <2>2
<1>14. /\ boards' \in [Roots -> Board] /\ boards'[i] = b
       /\ \A j \in Roots : j # i => boards'[j] = boards[j]
  BY <1>4, <1>5, <1>11, <1>12, <1>13
<1>15. s.status = "waiting_user" =>
         /\ s.plan # None /\ s.current
         /\ boards'[i].plan = s.plan /\ boards'[i].task = "waiting_user"
  <2>1. s.status = "waiting_user" => s.plan # None /\ s.task = "waiting_user" /\ s.current
    BY <1>1, <1>2 DEF Legal, Fine
  <2> QED
    BY <1>4, <1>13, <1>14, <2>1
<1>16. ActiveRoots \subseteq {i}
  BY <1>5 DEF GatewayInv, ActiveInv, ActiveRoots
<1>17. delivered' \in [Requests -> SUBSET (Roots \X Nat)]
  <2>1. delivered \in [Requests -> SUBSET (Roots \X Nat)] /\ H.request \in Requests
    BY <1>1 DEF GatewayInv, TypeOK, Legal, Fine
  <2>2. delivered' = delivered \/ Deliver(h, Version(i) + 1)
    BY <1>3 DEF FinishRoot
  <2>3. <<i, Version(i) + 1>> \in Roots \X Nat
    BY <1>5
  <2> QED
    BY <1>3, <2>1, <2>2, <2>3 DEF Deliver
<1>18. Saving(h, Idle, c)
  BY <1>4, <1>5, <1>7, <1>8, <1>9, <1>10, <1>14, <1>15, <1>16, <1>17 DEF Saving
<1> QED
  BY <1>18, SaveStep

-----------------------------------------------------------------------------
(***************************************************************************)
(* The environment, and the invariant.                                     *)
(***************************************************************************)

\* Calls that keep their place or are gone, over the same tables.
LEMMA QuietStep ==
  ASSUME GatewayInv, UNCHANGED <<tables, attempts>>,
         granted' \in BOOLEAN, crashes' \in 0..MaxCrashes,
         delivered' \in [Requests -> SUBSET (Roots \X Nat)],
         handlers' \in [Handlers -> Handler],
         loop' \in [Processes -> Handlers \cup {None}],
         \A h \in Handlers :
           \/ handlers'[h] = Idle
           \/ handlers'[h] = handlers[h] /\ loop'[ProcessOf[h]] = loop[ProcessOf[h]]
  PROVE  GatewayInv'
<1>1. /\ log' = log /\ roots' = roots /\ boards' = boards
      /\ \A i : OfRoot(i)' = OfRoot(i) /\ Newest(OfRoot(i))' = Newest(OfRoot(i))
      /\ \A i : Version(i)' = Version(i) /\ Latest(i)' = Latest(i)
  BY DEF tables, Version, OfRoot, Newest, Latest
<1>2. VersionsInv'
  BY <1>1 DEF GatewayInv, VersionsInv
<1>3. RootsInv'
  BY <1>1 DEF GatewayInv, RootsInv
<1>4. ActiveInv' /\ WaitingIsClaimable'
  <2>1. ActiveRoots' = ActiveRoots /\ WaitingRoots' = WaitingRoots
    BY <1>1 DEF ActiveRoots, WaitingRoots
  <2> QED
    BY <1>1, <2>1 DEF GatewayInv, ActiveInv, WaitingIsClaimable
<1>5. \A y : (Owns(y)' <=> Owns(y)) /\ (Replays(y)' <=> Replays(y))
  BY <1>1 DEF Owns, Replays
<1>6. Idle.pc = "idle" /\ Legal(Idle) /\ ~Owns(Idle)
  BY DEF Idle, Legal, Fine, Owns, Executes
<1>7. \A h \in Handlers : Legal(handlers'[h])
  BY <1>6 DEF GatewayInv
<1>8. \A h \in Handlers : Legal(handlers[h])'
  BY <1>5, <1>7 DEF Legal, Fine
<1>9. OwnersInv'
  <2>1. \A h \in Handlers : Owns(handlers'[h]) => handlers'[h] = handlers[h]
    BY <1>6
  <2> QED
    BY <1>5, <2>1 DEF GatewayInv, OwnersInv
<1>10. LoopInv'
  BY <1>6 DEF GatewayInv, LoopInv, Holds
<1>11. SavesInv'
  <2>1. One' \subseteq One /\ Two' \subseteq Two
    BY <1>6 DEF One, Two, Executes
  <2>2. /\ IsFiniteSet(One') /\ Cardinality(One') <= Cardinality(One)
        /\ IsFiniteSet(Two') /\ Cardinality(Two') <= Cardinality(Two)
    BY <2>1, FS_Subset DEF GatewayInv, SavesInv
  <2>3. PICK c1, c2, c3, c4 \in Nat :
          /\ c1 = Cardinality(One) /\ c2 = Cardinality(One')
          /\ c3 = Cardinality(Two) /\ c4 = Cardinality(Two')
    BY <2>2, FS_CardinalityType DEF GatewayInv, SavesInv
  <2>4. PICK n, a \in Nat : n = Len(log) /\ a = attempts
    BY PartsOfLog, BoundsAssumption DEF GatewayInv, TypeOK
  <2>5. n + 2 * c3 + c1 <= 2 * a
    BY <2>3, <2>4 DEF GatewayInv, SavesInv
  <2>6. n + 2 * c4 + c2 <= 2 * a
    BY <2>2, <2>3, <2>5
  <2>7. n = Len(log') /\ a = attempts'
    BY <1>1, <2>4
  <2> QED
    BY <2>2, <2>3, <2>6, <2>7 DEF SavesInv
<1>12. TypeOK'
  BY <1>1 DEF GatewayInv, TypeOK
<1> QED
  BY <1>2, <1>3, <1>4, <1>8, <1>9, <1>10, <1>11, <1>12 DEF GatewayInv

\* Before the first request.
LEMMA InitInv == Init => GatewayInv
<1> SUFFICES ASSUME Init PROVE GatewayInv
  OBVIOUS
<1>1. /\ \A h \in Handlers : handlers[h] = Idle
      /\ log = <<>> /\ DOMAIN log = {} /\ Len(log) = 0 /\ log \in Seq(Checkpoint)
      /\ \A i \in Roots : roots[i] = "absent"
  BY DEF Init
<1>2. TypeOK
  <2>1. Idle \in Handler
    <3>1. NoState \in State
      BY BoundsAssumption DEF NoState, State, Status
    <3> QED
      BY <3>1 DEF Idle, Handler, Pcs
  <2>2. NoBoard \in Board
    BY DEF NoBoard, Board
  <2>3. attempts \in 0..MaxAttempts /\ crashes \in 0..MaxCrashes
    BY BoundsAssumption DEF Init
  <2> QED
    BY <1>1, <2>1, <2>2, <2>3 DEF Init, TypeOK
<1>3. VersionsInv
  BY <1>1 DEF VersionsInv
<1>4. RootsInv
  <2>1. \A i \in Roots : OfRoot(i) = {}
    BY <1>1 DEF OfRoot
  <2> QED
    BY <1>1, <2>1 DEF RootsInv
<1>5. Idle.pc = "idle" /\ Legal(Idle) /\ ~Owns(Idle)
  BY DEF Idle, Legal, Fine, Owns, Executes
<1>6. (\A h \in Handlers : Legal(handlers[h])) /\ OwnersInv
  BY <1>1, <1>5 DEF OwnersInv
<1>7. ActiveInv /\ WaitingIsClaimable
  <2>1. ActiveRoots = {} /\ WaitingRoots = {}
    BY <1>1 DEF ActiveRoots, WaitingRoots
  <2> QED
    BY <2>1 DEF ActiveInv, WaitingIsClaimable
<1>8. LoopInv
  BY <1>1, <1>5 DEF LoopInv, Holds
<1>9. SavesInv
  <2>1. One = {} /\ Two = {}
    BY <1>1, <1>5 DEF One, Two, Executes
  <2>2. IsFiniteSet({}) /\ Cardinality({}) = 0
    BY FS_EmptySet
  <2> QED
    BY <1>1, <2>1, <2>2 DEF SavesInv, Init
<1> QED
  BY <1>2, <1>3, <1>4, <1>6, <1>7, <1>8, <1>9 DEF GatewayInv

\* Every step keeps the invariant.
LEMMA NextInv == GatewayInv /\ [Next]_vars => GatewayInv'
<1> SUFFICES ASSUME GatewayInv, [Next]_vars PROVE GatewayInv'
  OBVIOUS
<1>1. ASSUME NEW h \in Handlers, Run(h)
      PROVE  GatewayInv'
  <2>1. CASE \/ ReplayRefused(h) \/ ReplayEnded(h) \/ ReplayRevoked(h)
             \/ Unknown(h) \/ ClaimRefused(h) \/ NothingToClaim(h) \/ BeginRefused(h)
             \/ ResumeAuthorized(h) \/ ResumeRevoked(h) \/ BudgetRefused(h)
             \/ DenyRefused(h) \/ FinishRefused(h)
    BY <2>1, ReadingSteps
  <2>2. CASE ReplayFound(h)
    BY <2>2, ReplayFoundStep
  <2>3. CASE ReplayAnswered(h)
    BY <2>3, ReplayAnsweredStep
  <2>4. CASE \E i \in Roots : Claim(h, i)
    BY <2>4, ClaimStep
  <2>5. CASE \E i \in Roots : Begin(h, i)
    BY <2>5, BeginStep
  <2>6. CASE Resumed(h)
    BY <2>6, ResumedStep
  <2>7. CASE FinalAuthorized(h) \/ FinalRevoked(h)
    BY <2>7, FinalSteps
  <2>8. CASE Deny(h)
    BY <2>8, DenyStep
  <2>9. CASE FinishRoot(h)
    BY <2>9, FinishRootStep
  <2> QED
    BY <1>1, <2>1, <2>2, <2>3, <2>4, <2>5, <2>6, <2>7, <2>8, <2>9 DEF Run
<1>2. ASSUME NEW h \in Handlers, Supervise(h)
      PROVE  GatewayInv'
  <2>1. CASE \E p \in Plans : SavePlan(h, p)
    BY <2>1, SavePlanStep
  <2>2. CASE GraphFails(h) \/ AskUser(h) \/ Finish(h) \/ Refuse(h)
    BY <2>2, EndingSteps
  <2>3. CASE StartWorker(h)
    BY <2>3, StartWorkerStep
  <2>4. CASE \E o \in Outcomes, refs \in BOOLEAN : WorkerCompletes(h, o, refs)
    BY <2>4, WorkerCompletesStep
  <2>5. CASE \/ \E refs \in BOOLEAN : WorkerAsks(h, refs) \/ WorkerFails(h, refs)
             \/ WorkerRaises(h)
    BY <2>5, WorkerSteps
  <2> QED
    BY <1>2, <2>1, <2>2, <2>3, <2>4, <2>5 DEF Supervise
<1>3. ASSUME NEW h \in Handlers, NEW r \in Requests, Receive(h, r)
      PROVE  GatewayInv'
  BY <1>3, ReceiveStep
<1>4. ASSUME NEW p \in Processes, Crash(p)
      PROVE  GatewayInv'
  <2>1. /\ handlers' \in [Handlers -> Handler] /\ loop' \in [Processes -> Handlers \cup {None}]
        /\ crashes' \in 0..MaxCrashes
    <3>1. crashes' \in 0..MaxCrashes
      BY <1>4, BoundsAssumption DEF Crash, GatewayInv, TypeOK
    <3>2. loop' \in [Processes -> Handlers \cup {None}]
      BY <1>4 DEF Crash, GatewayInv, TypeOK
    <3> QED
      BY <1>4, <3>1, <3>2, Typed DEF Crash, GatewayInv
  <2>2. /\ UNCHANGED <<tables, attempts>> /\ granted' \in BOOLEAN
        /\ delivered' \in [Requests -> SUBSET (Roots \X Nat)]
    BY <1>4 DEF Crash, GatewayInv, TypeOK
  <2>3. \A h \in Handlers :
           \/ handlers'[h] = Idle
           \/ handlers'[h] = handlers[h] /\ loop'[ProcessOf[h]] = loop[ProcessOf[h]]
    BY <1>4, SetsAssumption DEF Crash, GatewayInv, TypeOK
  <2> QED
    BY <2>1, <2>2, <2>3, QuietStep
<1>5. CASE ChangeGrant \/ UNCHANGED vars
  <2>1. /\ UNCHANGED <<tables, attempts, handlers, loop>> /\ granted' \in BOOLEAN
        /\ delivered' \in [Requests -> SUBSET (Roots \X Nat)] /\ crashes' \in 0..MaxCrashes
        /\ handlers' \in [Handlers -> Handler] /\ loop' \in [Processes -> Handlers \cup {None}]
    BY <1>5 DEF ChangeGrant, vars, tables, GatewayInv, TypeOK
  <2> QED
    BY <2>1, QuietStep
<1> QED
  BY <1>1, <1>2, <1>3, <1>4, <1>5 DEF Next

\* The tables and the calls of a thread agree, whatever is requested, read,
\* claimed, saved and refused in whatever order, in any number of processes.
THEOREM GatewayInvariant == Spec => []GatewayInv
  BY InitInv, NextInv, PTL DEF Spec

\* Every variable has the shape of the rows and locals it stands for.
THEOREM TypeCorrect == Spec => []TypeOK
<1>1. GatewayInv => TypeOK
  BY DEF GatewayInv
<1> QED
  BY <1>1, GatewayInvariant, PTL

\* The last checkpoint of a waiting root, its task board and its current task
\* agree, so that the next request can claim it.
THEOREM WaitingClaimable == Spec => []WaitingIsClaimable
<1>1. GatewayInv => WaitingIsClaimable
  BY DEF GatewayInv
<1> QED
  BY <1>1, GatewayInvariant, PTL

-----------------------------------------------------------------------------
(***************************************************************************)
(* What a step may never do.                                               *)
(***************************************************************************)

\* Only four actions of a call save a checkpoint and write a root's row.
LEMMA WhoSaves ==
  ASSUME [Next]_vars
  PROVE  \/ UNCHANGED <<roots, log>>
         \/ \E h \in Handlers :
              \/ \E i \in Roots : Claim(h, i) \/ Begin(h, i)
              \/ Deny(h) \/ FinishRoot(h)
<1>1. ASSUME NEW h \in Handlers, Run(h)
      PROVE  \/ UNCHANGED <<roots, log>>
             \/ \E i \in Roots : Claim(h, i) \/ Begin(h, i)
             \/ Deny(h) \/ FinishRoot(h)
  BY <1>1 DEF Run, tables, ReplayRefused, ReplayEnded, ReplayRevoked, ReplayFound,
     ReplayAnswered, Unknown, ClaimRefused, NothingToClaim, BeginRefused,
     ResumeAuthorized, ResumeRevoked, BudgetRefused, Resumed, FinalAuthorized,
     FinalRevoked, DenyRefused, FinishRefused
<1>2. ASSUME NEW h \in Handlers, Supervise(h)
      PROVE  UNCHANGED <<roots, log>>
  BY <1>2 DEF Supervise, tables, SavePlan, GraphFails, AskUser, Finish, Refuse, StartWorker,
     WorkerCompletes, WorkerAsks, WorkerFails, WorkerRaises
<1>3. ASSUME NEW h \in Handlers, NEW r \in Requests, Receive(h, r)
      PROVE  UNCHANGED <<roots, log>>
  BY <1>3 DEF Receive, tables
<1>4. ASSUME NEW p \in Processes, Crash(p)
      PROVE  UNCHANGED <<roots, log>>
  BY <1>4 DEF Crash, tables
<1>5. CASE ChangeGrant \/ UNCHANGED vars
  BY <1>5 DEF ChangeGrant, vars, tables
<1> QED
  BY <1>1, <1>2, <1>3, <1>4, <1>5 DEF Next

\* A saved checkpoint is its root's newest, and the row has its status.
LEMMA SaveChanges ==
  ASSUME GatewayInv, NEW s \in State, NEW i \in Roots, Save(s, i)
  PROVE  /\ log'[Len(log')].root = i /\ roots'[i] = s.status
         /\ \A j \in Roots : j # i => roots'[j] = roots[j]
<1>1. PICK c : c = [root |-> i, version |-> Version(i) + 1, state |-> s]
  OBVIOUS
<1>2. c \in Checkpoint /\ c.root = i
  BY <1>1, PartsOfLog DEF Checkpoint, GatewayInv
<1>3. log' = Append(log, c) /\ roots' = [roots EXCEPT ![i] = s.status]
  BY <1>1 DEF Save
<1>4. log'[Len(log')] = c /\ roots \in [Roots -> Status \cup {"absent"}]
  BY <1>2, <1>3, Appended DEF GatewayInv, TypeOK
<1> QED
  BY <1>2, <1>3, <1>4

\* A denial is that of the call that executes the root, or repeats the denial
\* of a root that no call executes: its row has the status that call has read.
LEMMA Denies ==
  ASSUME GatewayInv, NEW h \in Handlers, Deny(h)
  PROVE  LET x == handlers[h] IN
           /\ x.root \in Roots /\ x.state \in State
           /\ \/ Owns(x)
              \/ roots[x.root] = x.state.status /\ x.state.status # "running"
                 /\ ~Ended(x.state)
<1> DEFINE H == handlers[h]
<1>1. H \in Handler /\ H.state \in State /\ (Owns(H) \/ Replays(H))
      /\ H.expected = Version(H.root)
  BY Typed DEF GatewayInv, Deny, At, Legal, Savable
<1>2. H.root \in Roots
  BY <1>1, SavesAlone
<1>3. CASE Replays(H)
  <2>1. PICK k \in DOMAIN log :
          log[k] = [root |-> H.root, version |-> H.expected, state |-> H.state]
    BY <1>3 DEF Replays
  <2>2. log[k].root = H.root /\ log[k].version = Version(H.root) /\ log[k].state = H.state
    BY <1>1, <2>1
  <2>3. k = Newest(OfRoot(H.root)) /\ k \in OfRoot(H.root)
    BY <1>2, <2>2 DEF GatewayInv, VersionsInv, OfRoot
  <2>4. roots[H.root] = H.state.status
    BY <1>2, <2>2, <2>3 DEF GatewayInv, RootsInv, Latest
  <2> QED
    BY <1>1, <1>2, <1>3, <2>4 DEF Replays
<1> QED
  BY <1>1, <1>2, <1>3

\* A running root is moved on only by the call that executes it.
LEMMA RunningRootStep ==
  ASSUME GatewayInv, [Next]_vars, NEW i \in Roots, roots[i] = "running",
         log' # log, log'[Len(log')].root = i
  PROVE  \E h \in Handlers :
           /\ handlers[h].root = i /\ handlers[h].request = Latest(i).request
           /\ handlers[h].pc \in {"finish", "deny"}
<1>1. PICK h \in Handlers :
         \/ \E j \in Roots : Claim(h, j) \/ Begin(h, j)
         \/ Deny(h) \/ FinishRoot(h)
  BY WhoSaves
<1> DEFINE H == handlers[h]
<1>2. ASSUME NEW j \in Roots, Claim(h, j)
      PROVE  FALSE
  <2>1. roots[j] = "waiting_user" /\ Latest(j) \in State /\ Version(j) \in Nat
    BY <1>2, LatestTyped DEF Claim, WaitingRoots
  <2>2. PICK s : s = Claimed(Latest(j), H.request) /\ Save(s, j)
    BY <1>2 DEF Claim
  <2>3. log' = Append(log, [root |-> j, version |-> Version(j) + 1, state |-> s])
    BY <2>2 DEF Save
  <2>4. log'[Len(log')].root = j
    BY <2>3 DEF GatewayInv, TypeOK
  <2> QED
    BY <2>1, <2>4
<1>3. ASSUME NEW j \in Roots, Begin(h, j)
      PROVE  FALSE
  <2>1. PICK s : Save(s, j)
    BY <1>3 DEF Begin
  <2>2. log' = Append(log, [root |-> j, version |-> Version(j) + 1, state |-> s])
    BY <2>1 DEF Save
  <2>3. log'[Len(log')].root = j
    BY <2>2 DEF GatewayInv, TypeOK
  <2> QED
    BY <1>3, <2>3 DEF Begin
<1>4. CASE Deny(h)
  <2>1. H.root \in Roots /\ Save(Denied(H.state), H.root) /\ H.pc = "deny"
    BY <1>4, Denies DEF Deny, At
  <2>2. log' = Append(log, [root |-> H.root, version |-> Version(H.root) + 1,
                            state |-> Denied(H.state)])
    BY <2>1 DEF Save
  <2>3. H.root = i
    BY <2>2 DEF GatewayInv, TypeOK
  <2>4. Owns(H)
    BY <1>4, <2>3, Denies
  <2> QED
    BY <2>1, <2>3, <2>4 DEF Owns
<1>5. CASE FinishRoot(h)
  <2>1. Owns(H) /\ Save(H.state, H.root) /\ H.pc = "finish"
    BY <1>5 DEF FinishRoot, At, GatewayInv, Legal, Executes
  <2>2. log' = Append(log, [root |-> H.root, version |-> Version(H.root) + 1,
                            state |-> H.state])
    BY <2>1 DEF Save
  <2>3. H.root = i
    BY <2>2 DEF GatewayInv, TypeOK
  <2> QED
    BY <2>1, <2>3 DEF Owns
<1> QED
  BY <1>1, <1>2, <1>3, <1>4, <1>5

\* No replay of an earlier request, no other claim and no late denial ends or
\* pauses a root that a call executes, in whichever process.
THEOREM RunningOwned == Spec => RunningRootOwned
<1>1. GatewayInv /\ [Next]_vars =>
        [\A i \in Roots :
           roots[i] = "running" /\ log' # log /\ log'[Len(log')].root = i =>
             \E h \in Handlers :
               /\ handlers[h].root = i /\ handlers[h].request = Latest(i).request
               /\ handlers[h].pc \in {"finish", "deny"}]_vars
  BY RunningRootStep
<1> QED
  BY <1>1, GatewayInvariant, PTL DEF Spec, RunningRootOwned

\* A root that has ended keeps its status.
LEMMA EndedStep ==
  ASSUME GatewayInv, [Next]_vars, NEW i \in Roots, roots[i] \in {"completed", "failed"}
  PROVE  roots'[i] = roots[i]
<1> SUFFICES ASSUME roots' # roots PROVE roots'[i] = roots[i]
  OBVIOUS
<1>1. PICK h \in Handlers :
         \/ \E j \in Roots : Claim(h, j) \/ Begin(h, j)
         \/ Deny(h) \/ FinishRoot(h)
  BY WhoSaves
<1> DEFINE H == handlers[h]
<1>2. roots \in [Roots -> Status \cup {"absent"}]
  BY DEF GatewayInv, TypeOK
<1>3. ASSUME NEW j \in Roots, Claim(h, j)
      PROVE  roots'[i] = roots[i]
  <2>1. PICK s : roots' = [roots EXCEPT ![j] = s]
    BY <1>3 DEF Claim, Save
  <2>2. i # j
    BY <1>3 DEF Claim, WaitingRoots
  <2> QED
    BY <1>2, <2>1, <2>2
<1>4. ASSUME NEW j \in Roots, Begin(h, j)
      PROVE  roots'[i] = roots[i]
  <2>1. PICK s : roots' = [roots EXCEPT ![j] = s]
    BY <1>4 DEF Begin, Save
  <2>2. i # j
    BY <1>4 DEF Begin
  <2> QED
    BY <1>2, <2>1, <2>2
<1>5. CASE Deny(h)
  <2>1. H.root \in Roots /\ H.state \in State /\ Denied(H.state).status = "completed"
    BY <1>5, Denies DEF Denied, State
  <2>2. roots' = [roots EXCEPT ![H.root] = "completed"]
    BY <1>5, <2>1 DEF Deny, Save
  <2>3. H.root = i => roots[i] = "completed"
    BY <1>5, Denies DEF Owns, Ended
  <2> QED
    BY <1>2, <2>1, <2>2, <2>3
<1>6. CASE FinishRoot(h)
  <2>1. Owns(H) /\ roots' = [roots EXCEPT ![H.root] = H.state.status]
    BY <1>6 DEF FinishRoot, At, GatewayInv, Legal, Executes, Save
  <2> QED
    BY <1>2, <2>1 DEF Owns
<1> QED
  BY <1>1, <1>3, <1>4, <1>5, <1>6

\* A root that has completed or failed stays so, whichever process still
\* replays or denies one of its requests.
THEOREM EndedStays == Spec => EndedStaysEnded
<1>1. GatewayInv /\ [Next]_vars =>
        [\A i \in Roots : roots[i] \in {"completed", "failed"} => roots'[i] = roots[i]]_vars
  BY EndedStep
<1> QED
  BY <1>1, GatewayInvariant, PTL DEF Spec, EndedStaysEnded

-----------------------------------------------------------------------------
(***************************************************************************)
(* One process: the requests.                                              *)
(***************************************************************************)

\* Where a call relies on what it has found out about its request.
Asking == {"claim", "begin", "replay", "deny"}

\* Calls of one process do not come between the transactions of a call that
\* holds the event loop.
LEMMA LoopAlone ==
  ASSUME GatewayInv, OneProcess, NEW h \in Handlers, handlers[h].pc \in Holds
  PROVE  \A g \in Handlers : g # h => handlers[g].pc \notin Holds
BY DEF GatewayInv, LoopInv, OneProcess

\* Nothing is saved, and the calls that move know what they rely on.
LEMMA SameLog ==
  ASSUME RequestsInv, UNCHANGED <<roots, log, delivered>>,
         \A g \in Handlers : handlers'[g] = handlers[g] \/ Asked(handlers'[g])
  PROVE  RequestsInv' /\ UNCHANGED Ledger!ledgerVars
<1>1. /\ \A i : OfRoot(i)' = OfRoot(i) /\ Newest(OfRoot(i))' = Newest(OfRoot(i))
      /\ \A i : Version(i)' = Version(i) /\ Latest(i)' = Latest(i)
      /\ \A r : OfRequest(r)' = OfRequest(r) /\ Newest(OfRequest(r))' = Newest(OfRequest(r))
      /\ \A r : Replayed(r)' = Replayed(r)
  BY DEF OfRoot, Version, Newest, Latest, OfRequest, Replayed
<1>2. \A r : Phase(r)' = Phase(r)
  BY <1>1 DEF Phase
<1>3. \A x : (Asked(x)' <=> Asked(x))
  BY <1>1 DEF Asked, UpToDate, Owns
<1>4. \A h \in Handlers : Asked(handlers[h])'
  <2>1. \A h \in Handlers : Asked(handlers'[h])
    BY DEF RequestsInv
  <2> QED
    BY <1>3, <2>1 DEF Asked
<1>5. SameRootInv' /\ ExecutingInv' /\ DeniedInv' /\ DeliveredInv'
  <2>1. SameRootInv'
    BY DEF RequestsInv, SameRootInv
  <2>2. ExecutingInv'
    BY <1>1, <1>2 DEF RequestsInv, ExecutingInv
  <2>3. DeniedInv'
    BY <1>2 DEF RequestsInv, DeniedInv
  <2>4. DeliveredInv'
    BY <1>1, <1>2 DEF RequestsInv, DeliveredInv
  <2> QED
    BY <2>1, <2>2, <2>3, <2>4
<1>6. UNCHANGED Ledger!ledgerVars
  BY <1>2 DEF Ledger!ledgerVars
<1> QED
  BY <1>4, <1>5, <1>6 DEF RequestsInv

\* A call leaves the places where it relies on its request, or never was there.
LEMMA NotAsking ==
  ASSUME GatewayInv, RequestsInv, UNCHANGED <<roots, log, delivered>>,
         \A g \in Handlers : handlers'[g] = handlers[g] \/ handlers'[g].pc \notin Asking
  PROVE  RequestsInv' /\ UNCHANGED Ledger!ledgerVars
<1>1. \A g \in Handlers : handlers'[g] = handlers[g] \/ Asked(handlers'[g])
  BY DEF Asking, Asked
<1> QED
  BY <1>1, SameLog

\* The supervisor changes nothing that the client can see.
LEMMA SuperviseUnseen ==
  ASSUME GatewayInv, RequestsInv, NEW h \in Handlers, Supervise(h)
  PROVE  RequestsInv' /\ UNCHANGED Ledger!ledgerVars
<1>1. handlers \in [Handlers -> Handler]
  BY DEF GatewayInv, TypeOK
<1>2. UNCHANGED <<roots, log, delivered>>
  BY DEF Supervise, tables, SavePlan, GraphFails, AskUser, Finish, Refuse, StartWorker,
     WorkerCompletes, WorkerAsks, WorkerFails, WorkerRaises
<1>3. ASSUME NEW s, Return(h, s)
      PROVE  \A g \in Handlers : handlers'[g] = handlers[g] \/ handlers'[g].pc \notin Asking
  BY <1>1, <1>3 DEF Return, Asking, Handler
<1>4. \A g \in Handlers : handlers'[g] = handlers[g] \/ handlers'[g].pc \notin Asking
  <2>1. ASSUME NEW p \in Plans, SavePlan(h, p)
        PROVE  \A g \in Handlers : handlers'[g] = handlers[g] \/ handlers'[g].pc \notin Asking
    BY <1>1, <2>1 DEF SavePlan, Asking, Handler
  <2>2. CASE GraphFails(h) \/ AskUser(h) \/ Finish(h) \/ Refuse(h)
    BY <1>3, <2>2 DEF GraphFails, AskUser, Finish, Refuse
  <2>3. CASE StartWorker(h)
    BY <1>1, <2>3 DEF StartWorker, Asking, Handler
  <2>4. ASSUME NEW o \in Outcomes, NEW refs \in BOOLEAN, WorkerCompletes(h, o, refs)
        PROVE  \A g \in Handlers : handlers'[g] = handlers[g] \/ handlers'[g].pc \notin Asking
    BY <1>1, <2>4 DEF WorkerCompletes, Asking, Handler
  <2>5. ASSUME NEW refs \in BOOLEAN, WorkerAsks(h, refs) \/ WorkerFails(h, refs)
        PROVE  \A g \in Handlers : handlers'[g] = handlers[g] \/ handlers'[g].pc \notin Asking
    BY <1>3, <2>5 DEF WorkerAsks, WorkerFails
  <2>6. CASE WorkerRaises(h)
    BY <1>3, <2>6 DEF WorkerRaises
  <2> QED
    BY <2>1, <2>2, <2>3, <2>4, <2>5, <2>6 DEF Supervise
<1> QED
  BY <1>2, <1>4, NotAsking

\* Nor do the arrival, the reading and the refusal of requests, and crashes.
LEMMA ReadsUnseen ==
  ASSUME GatewayInv, RequestsInv,
         \/ \E h \in Handlers :
              \/ ReplayRefused(h) \/ ReplayEnded(h) \/ ReplayFound(h) \/ ReplayRevoked(h)
              \/ Unknown(h) \/ ClaimRefused(h) \/ NothingToClaim(h) \/ BeginRefused(h)
              \/ ResumeAuthorized(h) \/ ResumeRevoked(h) \/ BudgetRefused(h)
              \/ Resumed(h) \/ FinalAuthorized(h) \/ FinalRevoked(h)
              \/ DenyRefused(h) \/ FinishRefused(h)
         \/ \E h \in Handlers, r \in Requests : Receive(h, r)
         \/ \E p \in Processes : Crash(p)
         \/ ChangeGrant \/ UNCHANGED vars
  PROVE  RequestsInv' /\ UNCHANGED Ledger!ledgerVars
<1>1. handlers \in [Handlers -> Handler] /\ \A g \in Handlers : Asked(handlers[g])
  BY DEF GatewayInv, TypeOK, RequestsInv
<1>2. UNCHANGED <<roots, log, delivered>>
  BY DEF tables, ReplayRefused, ReplayEnded, ReplayRevoked, ReplayFound,
     Unknown, ClaimRefused, NothingToClaim, BeginRefused,
     ResumeAuthorized, ResumeRevoked, BudgetRefused, Resumed, FinalAuthorized,
     FinalRevoked, DenyRefused, FinishRefused, Receive, Crash, ChangeGrant, vars
<1>3. Idle.pc = "idle"
  BY DEF Idle
<1>4. ASSUME NEW h \in Handlers,
             \/ ReplayRefused(h) \/ ReplayEnded(h) \/ ClaimRefused(h) \/ BeginRefused(h)
             \/ BudgetRefused(h) \/ DenyRefused(h) \/ FinishRefused(h)
      PROVE  \A g \in Handlers : handlers'[g] = handlers[g] \/ handlers'[g].pc \notin Asking
  <2>1. handlers' = [handlers EXCEPT ![h] = Idle]
    BY <1>4 DEF ReplayRefused, ReplayEnded, ClaimRefused, BeginRefused, BudgetRefused,
       DenyRefused, FinishRefused, End
  <2> QED
    BY <1>1, <1>3, <2>1 DEF Asking
<1>5. ASSUME NEW h \in Handlers, ResumeAuthorized(h) \/ Resumed(h) \/ FinalAuthorized(h)
      PROVE  \A g \in Handlers : handlers'[g] = handlers[g] \/ handlers'[g].pc \notin Asking
  <2>1. CASE ResumeAuthorized(h)
    BY <1>1, <2>1 DEF ResumeAuthorized, Goto, Asking, Handler
  <2>2. CASE Resumed(h)
    <3> DEFINE again == handlers[h].state.result = None /\ handlers[h].state.replans = 0
    <3>1. PICK p : p = IF again THEN "plan" ELSE "decide"
      OBVIOUS
    <3>2. PICK refs : refs = (~again /\ handlers[h].state.refs)
      OBVIOUS
    <3>3. PICK x : x = [handlers[h] EXCEPT !.pc = p, !.replan = again, !.state.refs = refs]
      OBVIOUS
    <3>4. handlers' = [handlers EXCEPT ![h] = x]
      <4>1. handlers' = [handlers EXCEPT
                           ![h].pc = IF again THEN "plan" ELSE "decide",
                           ![h].replan = again,
                           ![h].state.refs = ~again /\ handlers[h].state.refs]
        BY <2>2, Zenon DEF Resumed
      <4> HIDE DEF again
      <4>2. handlers' = [handlers EXCEPT ![h].pc = p, ![h].replan = again,
                                         ![h].state.refs = refs]
        BY <3>1, <3>2, <4>1
      <4> QED
        BY <1>1, <3>3, <4>2
    <3>5. x.pc = p
      <4> HIDE DEF again
      <4>1. handlers[h] \in Handler
        BY <1>1
      <4> QED
        BY <3>3, <4>1 DEF Handler
    <3>6. x.pc \notin Asking
      BY <3>1, <3>5 DEF Asking
    <3> QED
      BY <1>1, <3>4, <3>6
  <2>3. CASE FinalAuthorized(h)
    BY <1>1, <2>3 DEF FinalAuthorized, Asking, Handler
  <2> QED
    BY <1>5, <2>1, <2>2, <2>3
<1>6. ASSUME NEW h \in Handlers, ReplayFound(h)
      PROVE  \A g \in Handlers : handlers'[g] = handlers[g] \/ Asked(handlers'[g])
  <2>1. PICK c : c = Replayed(handlers[h].request)
    OBVIOUS
  <2>2. PICK x : x = [handlers[h] EXCEPT !.pc = "replay", !.root = c.root,
                                         !.expected = c.version, !.state = c.state]
    OBVIOUS
  <2>3. OfRequest(handlers[h].request) # {} /\ handlers' = [handlers EXCEPT ![h] = x]
    BY <1>6, <2>1, <2>2 DEF ReplayFound
  <2>4. c = [root |-> c.root, version |-> c.version, state |-> c.state]
    <3>1. Newest(OfRequest(handlers[h].request)) \in OfRequest(handlers[h].request)
      BY <2>3, PartsOfLog DEF GatewayInv
    <3>2. Newest(OfRequest(handlers[h].request)) \in DOMAIN log
      BY <3>1 DEF OfRequest
    <3>3. c \in Checkpoint
      BY <2>1, <3>2 DEF Replayed, GatewayInv, TypeOK
    <3> QED
      BY <3>3 DEF Checkpoint
  <2>5. /\ x.pc = "replay" /\ x.request = handlers[h].request /\ x.root = c.root
        /\ x.expected = c.version /\ x.state = c.state
    BY <1>1, <2>2 DEF Handler
  <2>6. Asked(x)
    BY <2>1, <2>3, <2>4, <2>5 DEF Asked, UpToDate
  <2> QED
    BY <1>1, <2>3, <2>6
<1>7. ASSUME NEW h \in Handlers, FinalRevoked(h)
      PROVE  \A g \in Handlers : handlers'[g] = handlers[g] \/ Asked(handlers'[g])
  <2>1. PICK x : x = [handlers[h] EXCEPT !.pc = "deny", !.state = Merged(h)]
    OBVIOUS
  <2>2. handlers' = [handlers EXCEPT ![h] = x]
    BY <1>1, <1>7, <2>1 DEF FinalRevoked, Handler
  <2>3. /\ x.pc = "deny" /\ x.request = handlers[h].request /\ x.root = handlers[h].root
        /\ x.expected = handlers[h].expected /\ x.state = Merged(h)
    BY <1>1, <2>1 DEF Handler
  <2>4. Merged(h).request = handlers[h].state.request
    <3>1. handlers[h].state \in State
      BY <1>1 DEF Handler
    <3> QED
      BY <3>1 DEF Merged, State
  <2>5. Owns(handlers[h])
    BY <1>7 DEF FinalRevoked, At, GatewayInv, Legal, Executes
  <2>6. Asked(x)
    BY <2>3, <2>4, <2>5 DEF Asked, Owns
  <2> QED
    BY <1>1, <2>2, <2>6
<1>8. ASSUME NEW h \in Handlers,
             Unknown(h) \/ NothingToClaim(h) \/ ReplayRevoked(h) \/ ResumeRevoked(h)
      PROVE  \A g \in Handlers : handlers'[g] = handlers[g] \/ Asked(handlers'[g])
  <2>1. PICK p : /\ Goto(h, p)
                 /\ \/ p = "claim" /\ OfRequest(handlers[h].request) = {}
                    \/ p = "begin" /\ handlers[h].pc = "claim"
                    \/ p = "deny" /\ handlers[h].pc = "replay"
                    \/ p = "deny" /\ handlers[h].pc = "resume"
    BY <1>8 DEF Unknown, NothingToClaim, ReplayRevoked, ResumeRevoked, At
  <2>2. PICK x : x = [handlers[h] EXCEPT !.pc = p]
    OBVIOUS
  <2>3. handlers' = [handlers EXCEPT ![h] = x]
    BY <2>1, <2>2 DEF Goto
  <2>4. /\ x.pc = p /\ x.request = handlers[h].request /\ x.root = handlers[h].root
        /\ x.expected = handlers[h].expected /\ x.state = handlers[h].state
    BY <1>1, <2>2 DEF Handler
  <2>5. handlers[h].pc = "resume" => Owns(handlers[h])
    BY DEF GatewayInv, Legal, Executes
  <2>6. Asked(x)
    BY <1>1, <2>1, <2>4, <2>5 DEF Asked, UpToDate, Owns
  <2> QED
    BY <1>1, <2>3, <2>6
<1>9. ASSUME NEW h \in Handlers, NEW r \in Requests, Receive(h, r)
      PROVE  \A g \in Handlers : handlers'[g] = handlers[g] \/ handlers'[g].pc \notin Asking
  BY <1>1, <1>9 DEF Receive, Asking, Idle
<1>10. ASSUME NEW p \in Processes, Crash(p)
       PROVE  \A g \in Handlers : handlers'[g] = handlers[g] \/ handlers'[g].pc \notin Asking
  BY <1>3, <1>10 DEF Crash, Asking
<1>11. CASE ChangeGrant \/ UNCHANGED vars
  BY <1>2, <1>11, NotAsking DEF ChangeGrant, vars
<1> QED
  BY <1>2, <1>4, <1>5, <1>6, <1>7, <1>8, <1>9, <1>10, <1>11, NotAsking, SameLog

\* What a saved state says of the request it is saved for.
PhaseOf(s) ==
  IF s.status = "running" THEN "executing"
  ELSE IF s.status = "failed" THEN "failed"
  ELSE IF s.outcome = "denied" THEN "denied" ELSE "answered"

\* The checkpoint c of a request r is saved, for a root that nobody else
\* executes, and the responses are in order.
Saved(h, c, r) ==
  /\ handlers[h].pc \in Holds
  /\ handlers'[h].pc \notin Asking
  /\ \A g \in Handlers : g # h => handlers'[g] = handlers[g]
  /\ c \in Checkpoint /\ log' = Append(log, c) /\ c.version = Version(c.root) + 1
  /\ r \in Requests /\ c.state.request = r
  /\ \A k \in OfRequest(r) : log[k].root = c.root
  /\ roots[c.root] = "running" => Latest(c.root).request = r
  /\ PhaseOf(c.state) = "executing" => OfRequest(r) = {} /\ c.state.outcome # "denied"
  /\ \A q \in Requests : q # r => delivered'[q] = delivered[q]
  /\ PhaseOf(c.state) \in {"executing", "failed"} => delivered'[r] = {}
  /\ PhaseOf(c.state) = "answered" => delivered'[r] = {<<c.root, c.version>>}

\* The phase of the request is that of its new checkpoint.
LEMMA PhaseChanges ==
  ASSUME TypeOK, NEW c \in Checkpoint, log' = Append(log, c)
  PROVE  /\ Phase(c.state.request)' = PhaseOf(c.state)
         /\ \A q : q # c.state.request => Phase(q)' = Phase(q)
<1> DEFINE r == c.state.request
<1>1. OfRequest(r)' = OfRequest(r) \cup {Len(log')} /\ Replayed(r)' = c
  BY AppendedRequests
<1>2. Phase(r)' = PhaseOf(c.state)
  BY <1>1 DEF Phase, PhaseOf
<1>3. \A q : q # r => Phase(q)' = Phase(q)
  BY AppendedRequests
<1> QED
  BY <1>2, <1>3

\* A request that is executed has a root that runs.
LEMMA ExecutingRuns ==
  ASSUME GatewayInv, RequestsInv, NEW q \in Requests, Phase(q) = "executing"
  PROVE  LET j == Replayed(q).root IN
           j \in Roots /\ roots[j] = "running" /\ Latest(j).request = q
<1>1. OfRequest(q) # {} /\ Replayed(q).state.status = "running"
  BY DEF Phase
<1>2. Newest(OfRequest(q)) \in OfRequest(q)
  BY <1>1, PartsOfLog DEF GatewayInv
<1>3. /\ Newest(OfRequest(q)) \in DOMAIN log /\ Replayed(q) \in Checkpoint
      /\ Replayed(q).state.request = q
  BY <1>2 DEF OfRequest, Replayed, GatewayInv, TypeOK
<1>4. PICK j : j = Replayed(q).root
  OBVIOUS
<1>5. j \in Roots
  BY <1>3, <1>4 DEF Checkpoint
<1>6. Newest(OfRequest(q)) = Newest(OfRoot(j)) /\ Newest(OfRequest(q)) \in OfRoot(j)
  BY <1>3, <1>4 DEF RequestsInv, ExecutingInv, OfRoot, Replayed
<1>7. Latest(j) = Replayed(q).state
  BY <1>6 DEF Latest, Replayed
<1>8. roots[j] = "running"
  BY <1>1, <1>5, <1>6, <1>7 DEF GatewayInv, RootsInv
<1> QED
  BY <1>3, <1>4, <1>5, <1>7, <1>8

\* The calls and the requests agree again after the save.
LEMMA SavedStep ==
  ASSUME GatewayInv, RequestsInv, OneProcess, NEW h \in Handlers, NEW c, NEW r,
         Saved(h, c, r)
  PROVE  RequestsInv'
<1>1. /\ TypeOK /\ c \in Checkpoint /\ log' = Append(log, c) /\ c.state.request = r
      /\ r \in Requests
  BY DEF Saved, GatewayInv
<1>2. /\ DOMAIN log' = DOMAIN log \cup {Len(log')}
      /\ Len(log') \notin DOMAIN log /\ log'[Len(log')] = c
      /\ \A k \in DOMAIN log : log'[k] = log[k]
  BY <1>1, Appended
<1>3. /\ Newest(OfRequest(r))' = Len(log') /\ Replayed(r)' = c
      /\ Phase(r)' = PhaseOf(c.state)
      /\ Newest(OfRoot(c.root))' = Len(log')
  BY <1>1, AppendedRequests, AppendedRoots, PhaseChanges
<1>4. \A q : q # r => /\ Phase(q)' = Phase(q)
                      /\ Newest(OfRequest(q))' = Newest(OfRequest(q))
                      /\ OfRequest(q) # {} => Replayed(q)' = Replayed(q)
  BY <1>1, AppendedRequests
<1>5. \A h0 \in Handlers : Asked(handlers[h0])'
  <2>1. \A g \in Handlers : g # h => handlers[g].pc \notin Holds
    BY LoopAlone DEF Saved
  <2>2. \A g \in Handlers : handlers'[g].pc \notin Asking
    BY <2>1 DEF Saved, Asking, Holds
  <2> QED
    BY <2>2 DEF Asked, Asking
<1>6. SameRootInv'
  <2> SUFFICES ASSUME NEW k \in DOMAIN log', NEW l \in DOMAIN log',
                      log'[k].state.request = log'[l].state.request
               PROVE  log'[k].root = log'[l].root
    BY DEF SameRootInv
  <2>1. \A m \in DOMAIN log : log[m].state.request = r => log[m].root = c.root
    BY DEF Saved, OfRequest
  <2>2. \A m, n \in DOMAIN log :
          log[m].state.request = log[n].state.request => log[m].root = log[n].root
    BY DEF RequestsInv, SameRootInv
  <2> QED
    BY <1>1, <1>2, <2>1, <2>2
<1>7. ExecutingInv'
  <2> SUFFICES ASSUME NEW q \in Requests, Phase(q)' = "executing"
               PROVE  Newest(OfRequest(q))' = Newest(OfRoot(Replayed(q).root))'
    BY DEF ExecutingInv
  <2>1. CASE q = r
    <3>1. Newest(OfRoot(Replayed(q).root))' = Newest(OfRoot(c.root)')
      BY <1>3, <2>1 DEF OfRoot, Newest
    <3>2. Newest(OfRoot(c.root)') = Newest(OfRoot(c.root))'
      BY DEF Newest
    <3> QED
      BY <1>3, <2>1, <3>1, <3>2
  <2>2. CASE q # r
    <3>1. Phase(q) = "executing" /\ OfRequest(q) # {}
      BY <1>4, <2>2 DEF Phase
    <3>2. PICK j : j = Replayed(q).root
      OBVIOUS
    <3>3. j \in Roots /\ roots[j] = "running" /\ Latest(j).request = q
      BY <3>1, <3>2, ExecutingRuns
    <3>4. j # c.root
      BY <2>2, <3>3 DEF Saved
    <3>5. Newest(OfRoot(j))' = Newest(OfRoot(j))
      BY <1>1, <3>4, AppendedRoots
    <3>6. Newest(OfRequest(q)) = Newest(OfRoot(j))
      BY <3>1, <3>2 DEF RequestsInv, ExecutingInv
    <3>7. Replayed(q)' = Replayed(q) /\ Newest(OfRequest(q))' = Newest(OfRequest(q))
      BY <1>4, <2>2, <3>1
    <3>8. Newest(OfRoot(Replayed(q).root))' = Newest(OfRoot(j))'
      BY <3>2, <3>7 DEF OfRoot, Newest
    <3> QED
      BY <3>5, <3>6, <3>7, <3>8
  <2> QED
    BY <2>1, <2>2
<1>8. DeniedInv'
  <2>1. ASSUME NEW q, NEW k \in DOMAIN log', log'[k].state.outcome = "denied",
               log'[k].state.request = q
        PROVE  Phase(q)' # "executing"
    <3>1. CASE q = r
      <4> SUFFICES ASSUME PhaseOf(c.state) = "executing" PROVE FALSE
        BY <1>3, <3>1
      <4>1. OfRequest(r) = {} /\ c.state.outcome # "denied"
        BY DEF Saved
      <4> QED
        BY <1>2, <2>1, <3>1, <4>1 DEF OfRequest
    <3>2. CASE q # r
      BY <1>1, <1>2, <1>4, <2>1, <3>2 DEF RequestsInv, DeniedInv
    <3> QED
      BY <3>1, <3>2
  <2> QED
    BY <2>1 DEF DeniedInv, Phase, OfRequest, Replayed, Newest
<1>9. DeliveredInv'
  <2> SUFFICES ASSUME NEW q \in Requests
               PROVE  /\ Phase(q)' \in {"new", "executing", "failed"} => delivered'[q] = {}
                      /\ Phase(q)' = "answered" =>
                           delivered'[q] = {<<Replayed(q)'.root, Replayed(q)'.version>>}
    BY DEF DeliveredInv
  <2>1. CASE q = r
    <3>1. PhaseOf(c.state) # "new"
      BY DEF PhaseOf
    <3> QED
      BY <1>3, <2>1, <3>1 DEF Saved
  <2>2. CASE q # r
    <3>1. Phase(q) = "answered" => OfRequest(q) # {}
      BY DEF Phase
    <3>2. Phase(q)' = Phase(q) /\ delivered'[q] = delivered[q]
      BY <1>4, <2>2 DEF Saved
    <3> QED
      BY <1>4, <2>2, <3>1, <3>2 DEF RequestsInv, DeliveredInv
  <2> QED
    BY <2>1, <2>2
<1> QED
  BY <1>5, <1>6, <1>7, <1>8, <1>9 DEF RequestsInv

\* The request of a call that executes its root is executed.
LEMMA OwnerExecutes ==
  ASSUME GatewayInv, RequestsInv, NEW h \in Handlers, Owns(handlers[h]),
         handlers[h].request \in Requests
  PROVE  /\ Phase(handlers[h].request) = "executing"
         /\ \A k \in OfRequest(handlers[h].request) : log[k].root = handlers[h].root
<1>1. PICK r \in Requests : r = handlers[h].request
  OBVIOUS
<1>2. PICK i \in Roots : i = handlers[h].root
  BY DEF Owns
<1>3. roots[i] = "running" /\ Latest(i).request = r
  BY <1>1, <1>2 DEF Owns
<1>4. OfRoot(i) # {} /\ Latest(i).status = "running"
  BY <1>3, LatestTyped
<1>5. PICK k : k = Newest(OfRoot(i)) /\ k \in OfRoot(i)
  BY <1>4, PartsOfLog DEF GatewayInv
<1>6. k \in DOMAIN log /\ log[k].root = i /\ log[k].state.request = r
      /\ log[k].state.status = "running"
  BY <1>3, <1>4, <1>5 DEF OfRoot, Latest
<1>7. \A l \in OfRequest(r) : l \in OfRoot(i)
  BY <1>6 DEF RequestsInv, SameRootInv, OfRequest, OfRoot
<1>8. k \in OfRequest(r)
  BY <1>6 DEF OfRequest
<1>9. OfRequest(r) \in SUBSET (1..Len(log)) /\ OfRoot(i) \in SUBSET (1..Len(log))
      /\ Len(log) \in Nat
  BY PartsOfLog DEF GatewayInv
<1>10. \A l \in OfRequest(r) : l <= k
  BY <1>4, <1>5, <1>7, <1>9, NewestExists
<1>11. Newest(OfRequest(r)) = k
  BY <1>8, <1>9, <1>10, NewestIs
<1>12. Phase(r) = "executing"
  BY <1>6, <1>8, <1>11 DEF Phase, Replayed
<1> QED
  BY <1>1, <1>2, <1>7, <1>12 DEF OfRoot

\* Nobody executes a request while no root runs.
LEMMA NobodyExecutes ==
  ASSUME GatewayInv, RequestsInv, \A i \in Roots : roots[i] # "running"
  PROVE  \A q \in Requests : Phase(q) # "executing"
BY ExecutingRuns

\* A root is claimed or begun for a new request.
LEMMA Accepted ==
  ASSUME GatewayInv, RequestsInv, NEW h \in Handlers, NEW i \in Roots,
         Claim(h, i) \/ Begin(h, i)
  PROVE  /\ \E c : Saved(h, c, handlers[h].request) /\ PhaseOf(c.state) = "executing"
         /\ Phase(handlers[h].request) = "new" /\ UNCHANGED delivered
         /\ \A q \in Requests : Phase(q) # "executing"
<1> DEFINE H == handlers[h]
<1>1. /\ H \in Handler /\ H.request \in Requests /\ H.pc \in {"claim", "begin"}
      /\ handlers \in [Handlers -> Handler] /\ OfRequest(H.request) = {}
      /\ delivered' = delivered
  <2>1. H.pc \in {"claim", "begin"} /\ delivered' = delivered
    BY DEF Claim, Begin, At
  <2> QED
    BY <2>1, Typed DEF GatewayInv, TypeOK, Legal, Fine, RequestsInv, Asked
<1>2. PICK s \in State :
        /\ Save(s, i) /\ s.request = H.request /\ s.status = "running" /\ s.outcome = None
  <2>1. CASE Claim(h, i)
    <3>1. roots[i] = "waiting_user" /\ Latest(i) \in State
      BY <2>1, LatestTyped DEF Claim, WaitingRoots
    <3>2. PICK l : l = Latest(i)
      OBVIOUS
    <3>3. PICK n : n = l.resumes + 1
      OBVIOUS
    <3>4. n \in 0..MaxResumes
      <4>1. l.resumes \in 0..MaxResumes /\ l.resumes < MaxResumes
        BY <2>1, <3>1, <3>2 DEF Claim, Claimable, State
      <4> QED
        BY <3>3, <4>1, BoundsAssumption
    <3>5. PICK s : s = Claimed(l, H.request)
      OBVIOUS
    <3>6. s = [l EXCEPT !.request = H.request, !.processed = l.processed \cup {H.request},
                        !.resumes = n, !.status = "running", !.outcome = None,
                        !.task = "waiting"]
      BY <3>3, <3>5 DEF Claimed
    <3>7. s \in State /\ s.request = H.request /\ s.status = "running" /\ s.outcome = None
      BY <1>1, <3>1, <3>2, <3>4, <3>6 DEF State, Status
    <3> QED
      BY <2>1, <3>2, <3>5, <3>7 DEF Claim
  <2>2. CASE Begin(h, i)
    <3>1. PICK s : s = InitialState(H.request)
      OBVIOUS
    <3>2. s \in State /\ s.request = H.request /\ s.status = "running" /\ s.outcome = None
      BY <1>1, <3>1, Typed DEF InitialState, NoState, State, GatewayInv
    <3> QED
      BY <2>2, <3>1, <3>2 DEF Begin
  <2> QED
    BY <2>1, <2>2
<1>3. PICK v \in Nat : v = Version(i) + 1
  BY PartsOfLog DEF GatewayInv
<1>4. PICK c : c = [root |-> i, version |-> v, state |-> s]
  OBVIOUS
<1>5. c \in Checkpoint /\ c.root = i /\ c.version = v /\ c.state = s
  BY <1>3, <1>4 DEF Checkpoint
<1>6. log' = Append(log, c)
  BY <1>2, <1>3, <1>4 DEF Save
<1>7. roots[i] # "running" /\ \A j \in Roots : roots[j] # "running"
  <2>1. CASE Claim(h, i)
    <3>1. roots[i] = "waiting_user"
      BY <2>1 DEF Claim, WaitingRoots
    <3> QED
      BY <3>1 DEF ActiveRoots, GatewayInv, ActiveInv
  <2>2. CASE Begin(h, i)
    BY <2>2 DEF Begin, ActiveRoots
  <2> QED
    BY <2>1, <2>2
<1>8. handlers'[h].pc \notin Asking /\ \A g \in Handlers : g # h => handlers'[g] = handlers[g]
  <2>1. CASE Claim(h, i)
    BY <1>1, <2>1 DEF Claim, Handler, Asking
  <2>2. CASE Begin(h, i)
    BY <1>1, <2>2 DEF Begin, Handler, Asking
  <2> QED
    BY <2>1, <2>2
<1>9. Phase(H.request) = "new" /\ delivered[H.request] = {}
  BY <1>1 DEF Phase, RequestsInv, DeliveredInv
<1>10. PhaseOf(c.state) = "executing" /\ c.state.outcome # "denied"
  BY <1>2, <1>5 DEF PhaseOf, None
<1>11. Saved(h, c, H.request)
  BY <1>1, <1>2, <1>3, <1>5, <1>6, <1>7, <1>8, <1>9, <1>10 DEF Saved, Holds
<1> QED
  BY <1>1, <1>7, <1>9, <1>10, <1>11, NobodyExecutes

\* A denial withdraws the answer of its request, or fails the request.
LEMMA Withdrawn ==
  ASSUME GatewayInv, RequestsInv, NEW h \in Handlers, Deny(h)
  PROVE  /\ \E c : Saved(h, c, handlers[h].request) /\ PhaseOf(c.state) = "denied"
         /\ Phase(handlers[h].request) \in {"executing", "answered"}
         /\ UNCHANGED delivered
<1> DEFINE H == handlers[h]
<1>1. /\ H \in Handler /\ H.request \in Requests /\ H.pc = "deny" /\ Legal(H) /\ Asked(H)
      /\ handlers \in [Handlers -> Handler] /\ delivered' = delivered
  BY Typed DEF Deny, At, GatewayInv, TypeOK, Legal, Fine, RequestsInv
<1>2. H.root \in Roots /\ H.state \in State /\ H.state.request = H.request
  BY <1>1, Denies DEF Legal, Owns, Replays
<1>3. PICK s : s = Denied(H.state)
  OBVIOUS
<1>4. /\ s \in State /\ s.request = H.request /\ PhaseOf(s) = "denied"
  <2>1. s \in State /\ s.request = H.request /\ s.status = "completed" /\ s.outcome = "denied"
    BY <1>2, <1>3 DEF Denied, State, Status, Outcomes
  <2> QED
    BY <2>1 DEF PhaseOf
<1>5. PICK v \in Nat : v = Version(H.root) + 1
  BY PartsOfLog DEF GatewayInv
<1>6. PICK c : c = [root |-> H.root, version |-> v, state |-> s]
  OBVIOUS
<1>7. c \in Checkpoint /\ c.root = H.root /\ c.version = v /\ c.state = s
  BY <1>2, <1>4, <1>5, <1>6 DEF Checkpoint
<1>8. log' = Append(log, c)
  BY <1>3, <1>5, <1>6 DEF Deny, Save
<1>9. handlers'[h].pc \notin Asking /\ \A g \in Handlers : g # h => handlers'[g] = handlers[g]
  BY <1>1 DEF Deny, End, Idle, Asking
<1>10. roots[H.root] = "running" => Latest(H.root).request = H.request
  BY Denies DEF Owns
<1>11. /\ \A k \in OfRequest(H.request) : log[k].root = H.root
       /\ Phase(H.request) \in {"executing", "answered"}
  <2>1. CASE Owns(H)
    BY <1>1, <2>1, OwnerExecutes
  <2>2. CASE ~Owns(H)
    <3>1. /\ OfRequest(H.request) # {} /\ H.state.status # "running" /\ ~Ended(H.state)
          /\ Replayed(H.request) = [root |-> H.root, version |-> H.expected,
                                    state |-> H.state]
      BY <1>1, <2>2 DEF Legal, Asked, UpToDate, Replays
    <3>2. PICK l : l = Newest(OfRequest(H.request)) /\ l \in OfRequest(H.request)
      BY <3>1, PartsOfLog DEF GatewayInv
    <3>3. l \in DOMAIN log /\ log[l].root = H.root /\ log[l].state.request = H.request
      BY <3>1, <3>2 DEF Replayed, OfRequest
    <3>4. \A k \in OfRequest(H.request) : log[k].root = H.root
      BY <3>3 DEF RequestsInv, SameRootInv, OfRequest
    <3>5. Phase(H.request) = "answered"
      BY <3>1 DEF Phase, Ended
    <3> QED
      BY <3>4, <3>5
  <2> QED
    BY <2>1, <2>2
<1>12. Saved(h, c, H.request)
  BY <1>1, <1>4, <1>5, <1>7, <1>8, <1>9, <1>10, <1>11 DEF Saved, Holds
<1> QED
  BY <1>1, <1>4, <1>7, <1>11, <1>12

\* The result of a root answers its request, or fails it.
LEMMA Answered ==
  ASSUME GatewayInv, RequestsInv, NEW h \in Handlers, FinishRoot(h)
  PROVE  LET r == handlers[h].request IN
           /\ Phase(r) = "executing" /\ r \in Requests
           /\ \E c : /\ Saved(h, c, r) /\ PhaseOf(c.state) # "executing"
                     /\ IF PhaseOf(c.state) = "answered"
                        THEN delivered' = [delivered EXCEPT ![r] = {<<c.root, c.version>>}]
                        ELSE UNCHANGED delivered
<1> DEFINE H == handlers[h]
<1>1. /\ H \in Handler /\ H.request \in Requests /\ H.pc = "finish" /\ Owns(H)
      /\ H.state \in State /\ H.state.status # "running"
      /\ handlers \in [Handlers -> Handler]
      /\ delivered \in [Requests -> SUBSET (Roots \X Nat)]
  <2>1. H.pc = "finish" /\ Legal(H)
    BY DEF FinishRoot, At, GatewayInv
  <2> QED
    BY <2>1, Typed DEF GatewayInv, TypeOK, Legal, Fine, Executes
<1>2. PICK s \in State : s = H.state
  BY <1>1
<1>3. PICK i \in Roots : i = H.root
  BY <1>1 DEF Owns
<1>4. PICK v \in Nat : v = Version(i) + 1
  BY PartsOfLog DEF GatewayInv
<1>5. PICK c : c = [root |-> i, version |-> v, state |-> s]
  OBVIOUS
<1>6. c \in Checkpoint /\ c.root = i /\ c.version = v /\ c.state = s
  BY <1>5 DEF Checkpoint
<1>7. log' = Append(log, c)
  BY <1>2, <1>3, <1>4, <1>5 DEF FinishRoot, Save
<1>8. handlers'[h].pc \notin Asking /\ \A g \in Handlers : g # h => handlers'[g] = handlers[g]
  BY <1>1 DEF FinishRoot, End, Idle, Asking
<1>9. /\ \A k \in OfRequest(H.request) : log[k].root = i
      /\ Phase(H.request) = "executing"
  BY <1>1, <1>3, OwnerExecutes
<1>10. Latest(i).request = H.request /\ s.request = H.request /\ s.status # "running"
  BY <1>1, <1>2, <1>3 DEF Owns
<1>11. delivered[H.request] = {}
  BY <1>1, <1>9 DEF RequestsInv, DeliveredInv
<1>12. PhaseOf(s) = "answered" <=> ~Ended(s)
  BY <1>10 DEF PhaseOf, Ended
<1>13. PhaseOf(s) # "executing"
  BY <1>10 DEF PhaseOf
<1>14. IF PhaseOf(s) = "answered"
       THEN delivered' = [delivered EXCEPT ![H.request] = {<<i, v>>}]
       ELSE UNCHANGED delivered
  <2>1. CASE Ended(s)
    BY <1>2, <1>12, <2>1 DEF FinishRoot
  <2>2. CASE ~Ended(s)
    <3>1. Deliver(h, v)
      BY <1>2, <1>3, <1>4, <2>2 DEF FinishRoot
    <3> QED
      BY <1>3, <1>11, <1>12, <2>2, <3>1 DEF Deliver
  <2> QED
    BY <2>1, <2>2
<1>15. Saved(h, c, H.request)
  BY <1>1, <1>4, <1>6, <1>7, <1>8, <1>9, <1>10, <1>11, <1>13, <1>14 DEF Saved, Holds
<1> QED
  BY <1>1, <1>6, <1>9, <1>13, <1>14, <1>15

\* The ledger after a save.
LEMMA LedgerMoves ==
  ASSUME GatewayInv, NEW h \in Handlers, NEW c, NEW r, Saved(h, c, r)
  PROVE  [q \in Requests |-> Phase(q)]'
           = [[q \in Requests |-> Phase(q)] EXCEPT ![r] = PhaseOf(c.state)]
<1>1. /\ Phase(r)' = PhaseOf(c.state) /\ \A q : q # r => Phase(q)' = Phase(q)
  BY PhaseChanges DEF Saved, GatewayInv
<1> DEFINE now == [q \in Requests |-> Phase(q)]
           then == [q \in Requests |-> Phase(q)']
<1>2. now' = then
  BY DEF Phase, OfRequest, Replayed, Newest
<1>3. r \in Requests
  BY DEF Saved
<1>4. then = [now EXCEPT ![r] = PhaseOf(c.state)]
  BY <1>1, <1>3
<1> QED
  BY <1>2, <1>4

\* What a step shows to the client is a step of the ledger or nothing.
LEMMA LedgerStep ==
  ASSUME GatewayInv, GatewayInv', RequestsInv, OneProcess, [Next]_vars
  PROVE  /\ RequestsInv'
         /\ [Ledger!Next]_(Ledger!ledgerVars)
         /\ \A r \in Requests :
              (\E k \in OfRequest(r) : log[k].state.outcome = "denied") =>
                delivered'[r] = delivered[r]
<1> DEFINE ledger == [q \in Requests |-> Phase(q)]
           Quiet == /\ RequestsInv' /\ UNCHANGED Ledger!ledgerVars
<1>1. Quiet => /\ RequestsInv'
               /\ [Ledger!Next]_(Ledger!ledgerVars)
               /\ \A r \in Requests : delivered'[r] = delivered[r]
  BY DEF Ledger!ledgerVars
<1>2. ASSUME NEW h \in Handlers, NEW i \in Roots, Claim(h, i) \/ Begin(h, i)
      PROVE  /\ RequestsInv' /\ Ledger!Next /\ UNCHANGED delivered
  <2>1. PICK c : Saved(h, c, handlers[h].request) /\ PhaseOf(c.state) = "executing"
    BY <1>2, Accepted
  <2>2. PICK r \in Requests : r = handlers[h].request
    BY <2>1 DEF Saved
  <2>3. /\ Phase(r) = "new" /\ UNCHANGED delivered
        /\ \A q \in Requests : Phase(q) # "executing"
    BY <1>2, <2>2, Accepted
  <2>4. ledger' = [ledger EXCEPT ![r] = "executing"]
    BY <2>1, <2>2, LedgerMoves
  <2>5. ledger[r] = "new" /\ \A q \in Requests : ledger[q] # "executing"
    BY <2>3
  <2>6. Ledger!Accept(r)
    BY <2>3, <2>4, <2>5 DEF Ledger!Accept
  <2>7. RequestsInv'
    BY <2>1, SavedStep
  <2> QED
    BY <2>3, <2>6, <2>7 DEF Ledger!Next
<1>3. ASSUME NEW h \in Handlers, Deny(h)
      PROVE  /\ RequestsInv' /\ Ledger!Next /\ UNCHANGED delivered
  <2>1. PICK c : Saved(h, c, handlers[h].request) /\ PhaseOf(c.state) = "denied"
    BY <1>3, Withdrawn
  <2>2. PICK r \in Requests : r = handlers[h].request
    BY <2>1 DEF Saved
  <2>3. /\ Phase(r) \in {"executing", "answered"} /\ UNCHANGED delivered
    BY <1>3, <2>2, Withdrawn
  <2>4. ledger' = [ledger EXCEPT ![r] = "denied"]
    BY <2>1, <2>2, LedgerMoves
  <2>5. ledger[r] \in {"executing", "answered"}
    BY <2>3
  <2>6. Ledger!Fail(r) \/ Ledger!Withdraw(r)
    BY <2>3, <2>4, <2>5 DEF Ledger!Fail, Ledger!Withdraw
  <2>7. RequestsInv'
    BY <2>1, SavedStep
  <2> QED
    BY <2>3, <2>6, <2>7 DEF Ledger!Next
<1>4. ASSUME NEW h \in Handlers, FinishRoot(h)
      PROVE  /\ RequestsInv' /\ Ledger!Next
             /\ \A r \in Requests :
                  (\E k \in OfRequest(r) : log[k].state.outcome = "denied") =>
                    delivered'[r] = delivered[r]
  <2>1. PICK r \in Requests : r = handlers[h].request
    BY <1>4, Answered
  <2>2. Phase(r) = "executing"
    BY <1>4, <2>1, Answered
  <2>3. PICK c : /\ Saved(h, c, r) /\ PhaseOf(c.state) # "executing"
                 /\ IF PhaseOf(c.state) = "answered"
                    THEN delivered' = [delivered EXCEPT ![r] = {<<c.root, c.version>>}]
                    ELSE UNCHANGED delivered
    BY <1>4, <2>1, Answered
  <2>4. ledger' = [ledger EXCEPT ![r] = PhaseOf(c.state)]
    BY <2>3, LedgerMoves
  <2>5. ledger[r] = "executing"
    BY <2>2
  <2>6. Ledger!Next
    <3>1. CASE PhaseOf(c.state) = "answered"
      <4>1. <<c.root, c.version>> \in Roots \X (1..(2 * MaxAttempts))
        <5>1. /\ c \in Checkpoint /\ log' = Append(log, c)
              /\ c.version = Version(c.root) + 1
          BY <2>3 DEF Saved
        <5>2. c.root \in Roots /\ c.version \in Nat
          BY <5>1 DEF Checkpoint
        <5>3. Version(c.root) \in Nat /\ Version(c.root) <= Len(log) /\ Len(log) \in Nat
          BY PartsOfLog DEF GatewayInv
        <5>4. Len(log') = Len(log) + 1
          BY <5>1, Appended DEF GatewayInv
        <5>5. PICK two, one \in Nat : two = Cardinality(Two') /\ one = Cardinality(One')
          BY FS_CardinalityType DEF GatewayInv, SavesInv
        <5>6. PICK n, a \in Nat : n = Len(log') /\ a = attempts'
          BY <5>3, <5>4, BoundsAssumption DEF GatewayInv, TypeOK
        <5>7. a <= MaxAttempts /\ MaxAttempts \in Nat
          BY <5>6, BoundsAssumption DEF GatewayInv, TypeOK
        <5>8. n + 2 * two + one <= 2 * a
          BY <5>5, <5>6 DEF GatewayInv, SavesInv
        <5>9. c.version <= n /\ c.version >= 1
          BY <5>1, <5>3, <5>4, <5>6
        <5>10. c.version \in 1..(2 * MaxAttempts)
          BY <5>2, <5>7, <5>8, <5>9
        <5> QED
          BY <5>2, <5>10
      <4>2. delivered' = [delivered EXCEPT ![r] = {<<c.root, c.version>>}]
        BY <2>3, <3>1
      <4>3. Ledger!Answer(r, <<c.root, c.version>>)
        BY <2>4, <2>5, <3>1, <4>2 DEF Ledger!Answer
      <4> QED
        BY <4>1, <4>3 DEF Ledger!Next
    <3>2. CASE PhaseOf(c.state) # "answered"
      <4>1. PhaseOf(c.state) \in {"failed", "denied"} /\ UNCHANGED delivered
        BY <2>3, <3>2 DEF PhaseOf
      <4>2. Ledger!Fail(r)
        BY <2>4, <2>5, <4>1 DEF Ledger!Fail
      <4> QED
        BY <4>2 DEF Ledger!Next
    <3> QED
      BY <3>1, <3>2
  <2>7. RequestsInv'
    BY <2>3, SavedStep
  <2>8. ASSUME NEW q \in Requests, NEW k \in OfRequest(q), log[k].state.outcome = "denied"
        PROVE  delivered'[q] = delivered[q]
    <3>1. q # r
      BY <2>2, <2>8 DEF OfRequest, RequestsInv, DeniedInv
    <3> QED
      BY <2>3, <3>1 DEF Saved
  <2> QED
    BY <2>6, <2>7, <2>8
<1>5. ASSUME NEW h \in Handlers, ReplayAnswered(h)
      PROVE  Quiet
  <2>1. handlers[h].pc = "replay" /\ handlers \in [Handlers -> Handler]
        /\ handlers' = [handlers EXCEPT ![h] = Idle] /\ UNCHANGED <<roots, log>>
    BY <1>5 DEF ReplayAnswered, At, End, tables, GatewayInv, TypeOK
  <2>2. PICK x : x = handlers[h]
    OBVIOUS
  <2>3. UpToDate(x) /\ Replays(x) /\ x.request \in Requests
    BY <2>1, <2>2 DEF RequestsInv, Asked, GatewayInv, Legal, Fine
  <2>4. /\ Phase(x.request) = "answered"
        /\ Replayed(x.request).root = x.root /\ Replayed(x.request).version = x.expected
    BY <2>3 DEF UpToDate, Replays, Phase, Ended
  <2>5. delivered[x.request] = {<<x.root, x.expected>>}
    BY <2>3, <2>4 DEF RequestsInv, DeliveredInv
  <2>6. delivered' = delivered
    <3>1. delivered' = [delivered EXCEPT ![x.request] = @ \cup {<<x.root, x.expected>>}]
      BY <1>5, <2>2 DEF ReplayAnswered, Deliver
    <3>2. delivered \in [Requests -> SUBSET (Roots \X Nat)]
      BY DEF GatewayInv, TypeOK
    <3> QED
      BY <2>3, <2>5, <3>1, <3>2
  <2>7. \A g \in Handlers : handlers'[g] = handlers[g] \/ handlers'[g].pc \notin Asking
    BY <2>1 DEF Idle, Asking
  <2> QED
    BY <2>1, <2>6, <2>7, NotAsking
<1>6. ASSUME NEW h \in Handlers, Supervise(h)
      PROVE  Quiet
  BY <1>6, SuperviseUnseen
<1>7. ASSUME \/ \E h \in Handlers :
                  \/ ReplayRefused(h) \/ ReplayEnded(h) \/ ReplayFound(h)
                  \/ ReplayRevoked(h) \/ Unknown(h) \/ ClaimRefused(h)
                  \/ NothingToClaim(h) \/ BeginRefused(h)
                  \/ ResumeAuthorized(h) \/ ResumeRevoked(h) \/ BudgetRefused(h)
                  \/ Resumed(h) \/ FinalAuthorized(h) \/ FinalRevoked(h)
                  \/ DenyRefused(h) \/ FinishRefused(h)
             \/ \E h \in Handlers, r \in Requests : Receive(h, r)
             \/ \E p \in Processes : Crash(p)
             \/ ChangeGrant \/ UNCHANGED vars
      PROVE  Quiet
  BY <1>7, ReadsUnseen
<1> HIDE DEF Quiet
<1>8. ASSUME NEW h \in Handlers, Run(h)
      PROVE  \/ Quiet
             \/ \E i \in Roots : Claim(h, i) \/ Begin(h, i)
             \/ Deny(h) \/ FinishRoot(h)
  BY <1>5, <1>7, <1>8 DEF Run
<1>9. \/ Quiet
      \/ \E h \in Handlers : \/ \E i \in Roots : Claim(h, i) \/ Begin(h, i)
                             \/ Deny(h) \/ FinishRoot(h)
  BY <1>6, <1>7, <1>8 DEF Next
<1> QED
  BY <1>1, <1>2, <1>3, <1>4, <1>9

\* Before the first request.
LEMMA InitRequests == Init => RequestsInv /\ Ledger!Init
<1> SUFFICES ASSUME Init PROVE RequestsInv /\ Ledger!Init
  OBVIOUS
<1>1. /\ \A h \in Handlers : handlers[h].pc = "idle"
      /\ DOMAIN log = {} /\ delivered = [r \in Requests |-> {}]
  BY DEF Init, Idle
<1>2. \A r : OfRequest(r) = {} /\ Phase(r) = "new"
  BY <1>1 DEF OfRequest, Phase
<1>3. RequestsInv
  BY <1>1, <1>2 DEF RequestsInv, Asked, SameRootInv, ExecutingInv, DeniedInv, DeliveredInv
<1>4. Ledger!Init
  BY <1>1, <1>2 DEF Ledger!Init
<1> QED
  BY <1>3, <1>4

\* Within one process, the calls and the checkpoints agree on every request.
THEOREM RequestsInvariant ==
  ASSUME OneProcess
  PROVE  Spec => []RequestsInv
<1>1. GatewayInv /\ GatewayInv' /\ RequestsInv /\ [Next]_vars => RequestsInv'
  BY LedgerStep
<1> QED
  BY <1>1, InitRequests, GatewayInvariant, PTL DEF Spec

\* When one process runs the thread, a request whose loss of access has been
\* recorded is never answered again, even when access comes back.
THEOREM DeniedStays ==
  ASSUME OneProcess
  PROVE  Spec => DeniedStaysDenied
<1>1. GatewayInv /\ GatewayInv' /\ RequestsInv /\ [Next]_vars =>
        [\A r \in Requests :
           (\E k \in OfRequest(r) : log[k].state.outcome = "denied") =>
             delivered'[r] = delivered[r]]_vars
  BY LedgerStep
<1> QED
  BY <1>1, GatewayInvariant, RequestsInvariant, PTL DEF Spec, DeniedStaysDenied

\* When one process runs the thread, the gateway implements the ledger: a
\* request is executed once, one at a time, every response to it is made from
\* the same answer, and a withdrawn answer is not given again.
THEOREM GatewayImplementsLedger ==
  ASSUME OneProcess
  PROVE  Spec => ImplementsLedger
<1>1. GatewayInv /\ GatewayInv' /\ RequestsInv /\ [Next]_vars =>
        [Ledger!Next]_(Ledger!ledgerVars)
  BY LedgerStep
<1> QED
  BY <1>1, InitRequests, GatewayInvariant, RequestsInvariant, PTL
     DEF Spec, ImplementsLedger, Ledger!Spec
=============================================================================
