------------------------ MODULE MessageRequestProofs ------------------------
(***************************************************************************)
(* Proofs about MessageRequest, the calls around the gateway, as           *)
(* MCMessageRequest puts them side by side: for every set of requests,     *)
(* calls and processes, every assignment of calls to processes, every pool *)
(* and every bound.  No constant needs an assumption.                      *)
(***************************************************************************)
EXTENDS MCMessageRequest, TLAPS

(***************************************************************************)
(* The inductive invariant.  ThreadMatchesLedger says nothing of a call    *)
(* in progress, but its commit makes true what it says: the call has to    *)
(* know that its request is answered, and which of the two rows are there  *)
(* already or will be there by its commit.                                 *)
(***************************************************************************)
UserFound == {"findAssistant", "insertAssistant"}
BothFound == {"summarize", "commit"}
AfterAnswer == {"findUser", "insertUser"} \cup UserFound \cup BothFound
Places == {"idle", "authenticate", "open", "gateway", "supervise", "worker",
        "finish", "rollback"} \cup AfterAnswer

CallType ==
  [pc: Places, request: Requests \cup {None}, held: Nat,
   staged: SUBSET (Requests \X Http!Roles)]

TypeInv ==
  /\ ledger \in [Requests -> Http!Gateway!Phases]
  /\ answers \in [Requests -> SUBSET {"answer"}]
  /\ stored \in SUBSET (Requests \X Http!Roles)
  /\ call \in [Calls -> CallType]

AnswerInv == \A r \in Requests : ledger[r] = "answered" => answers[r] # {}

\* What a call k knows of the rows of the table and of the answers.
Knows(k) ==
  /\ k.pc # "idle" => k.request \in Requests
  /\ k.pc = "idle" => k.staged = {}
  /\ k.staged \in SUBSET Http!Rows(k.request)
  /\ k.pc \in AfterAnswer => answers[k.request] # {}
  /\ k.pc \in UserFound => <<k.request, "user">> \in stored \cup k.staged
  /\ k.pc \in BothFound => Http!Rows(k.request) \in SUBSET (stored \cup k.staged)

CallsInv == \A c \in Calls : Knows(call[c])

MessagesInv == TypeInv /\ AnswerInv /\ CallsInv /\ Http!ThreadMatchesLedger

(***************************************************************************)
(* Steps.                                                                  *)
(***************************************************************************)

\* No step takes an answer or a stored row back.
Grow ==
  /\ \A r \in Requests : answers[r] # {} => answers'[r] # {}
  /\ stored \in SUBSET stored'

\* What a call knows stays true as answers and rows are added.
LEMMA KnowledgeKept ==
  ASSUME Grow, NEW k \in CallType, Knows(k)
  PROVE  Knows(k)'
<1>1. CASE k.pc \in AfterAnswer
  <2>1. k.request \in Requests
    BY <1>1 DEF Knows, AfterAnswer, UserFound, BothFound
  <2> QED
    BY <1>1, <2>1 DEF Knows, Grow, AfterAnswer
<1>2. CASE k.pc \notin AfterAnswer
  BY <1>2 DEF Knows, AfterAnswer
<1> QED
  BY <1>1, <1>2

\* A step of one call: the other calls know what they knew.
LEMMA OneCallSteps ==
  ASSUME TypeInv, CallsInv, Grow, NEW c \in Calls, NEW k \in CallType,
         call' = [call EXCEPT ![c] = k], Knows(k)'
  PROVE  call' \in [Calls -> CallType] /\ CallsInv'
<1>1. call' \in [Calls -> CallType]
  BY DEF TypeInv
<1>2. ASSUME NEW d \in Calls
      PROVE  Knows(call[d])'
  <2>0. PICK j : j = call'[d]
    OBVIOUS
  <2>1. Knows(j)'
    <3>1. CASE d = c
      BY <2>0, <3>1 DEF TypeInv
    <3>2. CASE d # c
      <4>1. j = call[d] /\ j \in CallType /\ Knows(call[d])
        BY <2>0, <3>2 DEF TypeInv, CallsInv
      <4>2. Knows(j)
        BY <4>1
      <4> QED
        BY <4>1, <4>2, KnowledgeKept
    <3> QED
      BY <3>1, <3>2
  <2> QED
    BY <2>0, <2>1 DEF Knows
<1> QED
  BY <1>1, <1>2 DEF CallsInv

\* A step of one call that changes neither rows nor responses, while the ledger
\* stays or moves the call's request.
LEMMA QuietStep ==
  ASSUME MessagesInv, NEW c \in Calls, NEW k \in CallType,
         call' = [call EXCEPT ![c] = k], Grow, Knows(k)',
         UNCHANGED <<stored, replied>>,
         ledger' \in [Requests -> Http!Gateway!Phases],
         answers' \in [Requests -> SUBSET {"answer"}],
         AnswerInv'
  PROVE  MessagesInv'
<1>1. call' \in [Calls -> CallType] /\ CallsInv'
  BY OneCallSteps DEF MessagesInv
<1>2. Http!ThreadMatchesLedger'
  <2>1. \A m \in stored : m[1] \in Requests
    BY DEF MessagesInv, TypeInv
  <2> QED
    BY <2>1 DEF MessagesInv, Http!ThreadMatchesLedger, Grow
<1> QED
  BY <1>1, <1>2 DEF MessagesInv, TypeInv

\* The same when the gateway does nothing, which is most steps.
LEMMA LocalStep ==
  ASSUME MessagesInv, NEW c \in Calls, NEW k \in CallType,
         call' = [call EXCEPT ![c] = k], Knows(k),
         UNCHANGED <<ledger, answers, stored, replied>>
  PROVE  MessagesInv'
<1>1. Grow
  BY DEF Grow
<1>2. Knows(k)'
  BY <1>1, KnowledgeKept
<1> QED
  BY <1>1, <1>2, QuietStep DEF MessagesInv, TypeInv, AnswerInv

\* A step that only moves a call's pc to where it need know nothing of rows.
Blank == Places \ (AfterAnswer \cup {"idle"})

\* Moving a call that is in progress to such a place.
LEMMA MoveKnows ==
  ASSUME MessagesInv, NEW c \in Calls, NEW pc \in Blank, NEW n \in Nat,
         call[c].pc # "idle"
  PROVE  /\ [call[c] EXCEPT !.pc = pc] \in CallType
         /\ Knows([call[c] EXCEPT !.pc = pc])
         /\ [call[c] EXCEPT !.pc = pc, !.held = n] \in CallType
         /\ Knows([call[c] EXCEPT !.pc = pc, !.held = n])
<1>1. call[c] \in CallType /\ Knows(call[c])
  BY DEF MessagesInv, TypeInv, CallsInv
<1> QED
  BY <1>1 DEF CallType, Knows, Blank, AfterAnswer, UserFound, BothFound

\* An idle call knows nothing.
LEMMA IdleKnows == Http!Idle \in CallType /\ Knows(Http!Idle)
BY DEF Http!Idle, CallType, Places, Knows, AfterAnswer, UserFound, BothFound

(***************************************************************************)
(* The call before and inside of the gateway.                              *)
(***************************************************************************)

\* Every step that leaves the ledger and the rows alone and moves a call to a
\* place where it need know nothing.
Moves(c) ==
  /\ call[c].pc # "idle"
  /\ \E pc \in Blank :
       \/ call' = [call EXCEPT ![c].pc = pc]
       \/ \E n \in Nat : call' = [call EXCEPT ![c].pc = pc, ![c].held = n]

\* Such a step keeps the invariant, whatever the gateway does to the ledger.
LEMMA MovesKeep ==
  ASSUME MessagesInv, NEW c \in Calls, Moves(c),
         UNCHANGED <<answers, stored, replied>>,
         ledger' \in [Requests -> Http!Gateway!Phases], AnswerInv'
  PROVE  MessagesInv'
<1>0. Grow
  BY DEF Grow
<1>1. call \in [Calls -> CallType] /\ answers' \in [Requests -> SUBSET {"answer"}]
  BY DEF MessagesInv, TypeInv
<1>2. PICK k : /\ k \in CallType /\ Knows(k)
               /\ call' = [call EXCEPT ![c] = k]
  <2>1. PICK pc \in Blank :
          \/ call' = [call EXCEPT ![c].pc = pc]
          \/ \E n \in Nat : call' = [call EXCEPT ![c].pc = pc, ![c].held = n]
    BY DEF Moves
  <2>2. CASE call' = [call EXCEPT ![c].pc = pc]
    <3>1. PICK k : k = [call[c] EXCEPT !.pc = pc]
      OBVIOUS
    <3>2. k \in CallType /\ Knows(k)
      BY <3>1, MoveKnows DEF Moves
    <3>3. call' = [call EXCEPT ![c] = k]
      BY <1>1, <2>2, <3>1
    <3> QED
      BY <3>2, <3>3
  <2>3. ASSUME NEW n \in Nat, call' = [call EXCEPT ![c].pc = pc, ![c].held = n]
        PROVE  \E k : /\ k \in CallType /\ Knows(k)
                      /\ call' = [call EXCEPT ![c] = k]
    <3>1. PICK k : k = [call[c] EXCEPT !.pc = pc, !.held = n]
      OBVIOUS
    <3>2. k \in CallType /\ Knows(k)
      BY <3>1, MoveKnows DEF Moves
    <3>3. call' = [call EXCEPT ![c] = k]
      BY <1>1, <2>3, <3>1
    <3> QED
      BY <3>2, <3>3
  <2> QED
    BY <2>1, <2>2, <2>3
<1>3. Knows(k)'
  BY <1>0, <1>2, KnowledgeKept
<1> QED
  BY <1>0, <1>1, <1>2, <1>3, QuietStep

\* Authentication, the thread's check, and every way in which a call gives up.
LEMMA WaitingSteps ==
  ASSUME MessagesInv, NEW c \in Calls,
         \/ Http!Authenticate(c) \/ Http!NotAuthenticated(c) \/ Http!OpenThread(c)
         \/ Http!NoConnection(c) \/ Http!Conflict(c)
         \/ Http!StartWorker(c) \/ Http!Supervised(c)
         \/ \E role \in Http!Roles : Http!InsertRefused(c, role)
  PROVE  MessagesInv'
<1>1. Moves(c) /\ UNCHANGED <<ledger, answers, stored, replied>>
  <2> USE DEF Moves, Blank, Places, AfterAnswer, UserFound, BothFound,
              Http!At, Http!World, Http!gatewayVars
  <2>1. CASE Http!Authenticate(c)
    BY <2>1 DEF Http!Authenticate, Http!Hold
  <2>2. CASE Http!NotAuthenticated(c) \/ Http!OpenThread(c)
    BY <2>2 DEF Http!NotAuthenticated, Http!OpenThread, Http!Goto
  <2>3. CASE Http!NoConnection(c) \/ Http!Conflict(c)
    BY <2>3
       DEF Http!NoConnection, Http!Conflict, Http!Transaction, Http!Running,
           Http!Goto
  <2>4. CASE Http!StartWorker(c) \/ Http!Supervised(c)
    BY <2>4 DEF Http!StartWorker, Http!Supervised, Http!Hold
  <2>5. ASSUME NEW role \in Http!Roles, Http!InsertRefused(c, role)
        PROVE  Moves(c) /\ UNCHANGED <<ledger, answers, stored, replied>>
    <3>1. Http!InsertPc[role] # "idle"
      BY DEF Http!Roles, Http!InsertPc
    <3> QED
      BY <2>5, <3>1 DEF Http!InsertRefused, Http!Running, Http!Goto
  <2> QED
    BY <2>1, <2>2, <2>3, <2>4, <2>5
<1>2. ledger' \in [Requests -> Http!Gateway!Phases] /\ AnswerInv'
  BY <1>1 DEF MessagesInv, TypeInv, AnswerInv
<1> QED
  BY <1>1, <1>2, MovesKeep

\* The gateway's transactions that give no answer.
LEMMA LedgerSteps ==
  ASSUME MessagesInv, NEW c \in Calls,
         Http!ReplayDenied(c) \/ Http!Accept(c) \/ Http!Fail(c)
  PROVE  MessagesInv'
<1>1. Moves(c) /\ UNCHANGED <<answers, stored, replied>>
  BY DEF Moves, Blank, Places, AfterAnswer, UserFound, BothFound, Http!At, Http!World,
         Http!ReplayDenied, Http!Accept, Http!Fail, Http!Transaction, Http!Running,
         Http!Goto, Http!Gateway!Withdraw, Http!Gateway!Accept, Http!Gateway!Fail
<1>2. PICK phase \in {"executing", "failed", "denied"} :
        ledger' = [ledger EXCEPT ![Http!Request(c)] = phase]
  BY DEF Http!ReplayDenied, Http!Accept, Http!Fail, Http!Gateway!Withdraw,
         Http!Gateway!Accept, Http!Gateway!Fail
<1>3. ledger' \in [Requests -> Http!Gateway!Phases]
  BY <1>2 DEF MessagesInv, TypeInv, Http!Gateway!Phases
<1>4. AnswerInv'
  BY <1>1, <1>2 DEF MessagesInv, TypeInv, AnswerInv
<1> QED
  BY <1>1, <1>3, <1>4, MovesKeep

\* A new call takes a request; it has staged nothing.
LEMMA ReceiveStep ==
  ASSUME MessagesInv, NEW c \in Calls, NEW r \in Requests, Http!Receive(c, r)
  PROVE  MessagesInv'
<1>1. call[c] \in CallType /\ call[c].pc = "idle" /\ call[c].staged = {}
  BY DEF MessagesInv, TypeInv, CallsInv, Knows, Http!Receive, Http!At
<1>2. PICK k : k = [call[c] EXCEPT !.pc = "authenticate", !.request = r]
  OBVIOUS
<1>3. k \in CallType /\ Knows(k)
  BY <1>1, <1>2 DEF CallType, Places, Knows, AfterAnswer, UserFound, BothFound
<1>4. call' = [call EXCEPT ![c] = k]
  BY <1>2 DEF Http!Receive, MessagesInv, TypeInv
<1>5. UNCHANGED <<ledger, answers, stored, replied>>
  BY DEF Http!Receive, Http!gatewayVars
<1> QED
  BY <1>3, <1>4, <1>5, LocalStep

\* An answer is given or replayed: the call may begin to store its messages.
LEMMA AnswerStep ==
  ASSUME MessagesInv, NEW c \in Calls, Http!Answer(c) \/ Http!Replay(c)
  PROVE  MessagesInv'
<1>0. PICK r : r = call[c].request
  OBVIOUS
<1>1. /\ call[c] \in CallType /\ Knows(call[c]) /\ r \in Requests
      /\ UNCHANGED <<stored, replied>>
      /\ call' = [call EXCEPT ![c].pc = "findUser"]
  BY <1>0
     DEF MessagesInv, TypeInv, CallsInv, Knows, Http!Answer, Http!Replay,
         Http!Transaction, Http!Running, Http!At, Http!Goto, Http!World
<1>2. PICK k : k = [call[c] EXCEPT !.pc = "findUser"]
  OBVIOUS
<1>3. /\ k \in CallType /\ k.request = r /\ k.pc = "findUser"
      /\ k.staged \in SUBSET Http!Rows(r)
      /\ call' = [call EXCEPT ![c] = k]
  BY <1>0, <1>1, <1>2 DEF CallType, Places, AfterAnswer, Knows, MessagesInv, TypeInv
<1>4. /\ ledger' \in [Requests -> Http!Gateway!Phases]
      /\ answers' \in [Requests -> SUBSET {"answer"}]
      /\ answers'[r] # {} /\ AnswerInv' /\ Grow
  <2>1. CASE Http!Replay(c)
    <3>1. ledger[r] = "answered" /\ UNCHANGED <<ledger, answers>>
      BY <1>0, <2>1 DEF Http!Replay, Http!Request, Http!gatewayVars
    <3> QED
      BY <1>1, <3>1 DEF MessagesInv, TypeInv, AnswerInv, Grow
  <2>2. CASE Http!Answer(c)
    <3>1. /\ ledger' = [ledger EXCEPT ![r] = "answered"]
          /\ answers' = [answers EXCEPT ![r] = {"answer"}]
      BY <1>0, <2>2 DEF Http!Answer, Http!Request, Http!Gateway!Answer
    <3> QED
      BY <1>1, <3>1 DEF MessagesInv, TypeInv, AnswerInv, Grow, Http!Gateway!Phases
  <2> QED
    BY <2>1, <2>2
<1>5. Knows(k)'
  BY <1>1, <1>3, <1>4 DEF Knows, UserFound, BothFound
<1> QED
  BY <1>1, <1>3, <1>4, <1>5, QuietStep

(***************************************************************************)
(* The two messages.                                                       *)
(***************************************************************************)

\* A message is found: the call goes on knowing that its row is stored.  It is
\* not: the call goes on to insert it.
LEMMA FindStep ==
  ASSUME MessagesInv, NEW c \in Calls, NEW role \in Http!Roles, Http!Find(c, role)
  PROVE  MessagesInv'
<1>0. PICK r : r = call[c].request
  OBVIOUS
<1>1. /\ call[c] \in CallType /\ Knows(call[c]) /\ r \in Requests
      /\ answers[r] # {} /\ call[c].pc = Http!FindPc[role]
      /\ UNCHANGED <<ledger, answers, stored, replied>>
  BY <1>0
     DEF MessagesInv, TypeInv, CallsInv, Knows, Http!Find, Http!Running, Http!At,
         Http!World, Http!gatewayVars, Http!FindPc, Http!Roles, AfterAnswer,
         UserFound, BothFound
<1>2. PICK pc : /\ pc = IF <<r, role>> \in stored
                        THEN Http!AfterPc[role] ELSE Http!InsertPc[role]
                /\ call' = [call EXCEPT ![c].pc = pc]
  BY <1>0 DEF Http!Find, Http!Goto, Http!Request
<1>3. PICK k : k = [call[c] EXCEPT !.pc = pc]
  OBVIOUS
<1>4. call' = [call EXCEPT ![c] = k]
  BY <1>2, <1>3 DEF MessagesInv, TypeInv
<1>5. k \in CallType /\ Knows(k)
  <2>1. CASE role = "user"
    <3>1. /\ call[c].pc = "findUser"
          /\ (pc = "findAssistant" /\ <<r, "user">> \in stored) \/ pc = "insertUser"
      BY <1>1, <1>2, <2>1 DEF Http!FindPc, Http!AfterPc, Http!InsertPc
    <3> QED
      BY <1>0, <1>1, <1>3, <3>1
         DEF CallType, Knows, Places, AfterAnswer, UserFound, BothFound
  <2>2. CASE role = "assistant"
    <3>1. /\ call[c].pc = "findAssistant"
          /\ \/ pc = "summarize" /\ <<r, "assistant">> \in stored
             \/ pc = "insertAssistant"
      BY <1>1, <1>2, <2>2 DEF Http!FindPc, Http!AfterPc, Http!InsertPc
    <3>2. <<r, "user">> \in stored \cup call[c].staged
      BY <1>0, <1>1, <3>1 DEF Knows, UserFound
    <3>3. k.request = r /\ k.pc = pc /\ k.staged = call[c].staged /\ k \in CallType
      BY <1>0, <1>1, <1>3, <3>1 DEF CallType, Places, AfterAnswer, UserFound, BothFound
    <3>4. CASE pc = "summarize"
      <4>1. Http!Rows(r) \in SUBSET (stored \cup call[c].staged)
        BY <3>1, <3>2, <3>4 DEF Http!Rows, Http!Roles
      <4> QED
        BY <1>0, <1>1, <3>3, <3>4, <4>1 DEF Knows, UserFound, BothFound
    <3>5. CASE pc = "insertAssistant"
      BY <1>0, <1>1, <3>2, <3>3, <3>5 DEF Knows, UserFound, BothFound
    <3> QED
      BY <3>1, <3>3, <3>4, <3>5
  <2> QED
    BY <2>1, <2>2 DEF Http!Roles
<1> QED
  BY <1>1, <1>4, <1>5, LocalStep

\* An inserted row is staged until the session commits.
LEMMA InsertStep ==
  ASSUME MessagesInv, NEW c \in Calls, NEW role \in Http!Roles, Http!Insert(c, role)
  PROVE  MessagesInv'
<1>0. PICK r : r = call[c].request
  OBVIOUS
<1>1. /\ call[c] \in CallType /\ Knows(call[c]) /\ r \in Requests
      /\ answers[r] # {} /\ call[c].pc = Http!InsertPc[role]
      /\ UNCHANGED <<ledger, answers, stored, replied>>
  BY <1>0
     DEF MessagesInv, TypeInv, CallsInv, Knows, Http!Insert, Http!Running, Http!At,
         Http!World, Http!gatewayVars, Http!InsertPc, Http!Roles, AfterAnswer,
         UserFound, BothFound
<1>2. call' = [call EXCEPT ![c].pc = Http!AfterPc[role],
                           ![c].staged = @ \cup {<<r, role>>}]
  BY <1>0 DEF Http!Insert, Http!Request
<1>3. PICK k : k = [call[c] EXCEPT !.pc = Http!AfterPc[role],
                                  !.staged = @ \cup {<<r, role>>}]
  OBVIOUS
<1>4. call' = [call EXCEPT ![c] = k]
  BY <1>2, <1>3 DEF MessagesInv, TypeInv
<1>5. /\ k.pc = Http!AfterPc[role] /\ k.request = r
      /\ k.staged = call[c].staged \cup {<<r, role>>}
      /\ k.staged \in SUBSET Http!Rows(r) /\ k \in CallType
  <2>1. Http!AfterPc[role] \in Places
    BY DEF Http!AfterPc, Http!Roles, Places, AfterAnswer, UserFound, BothFound
  <2>2. <<r, role>> \in Http!Rows(r) /\ <<r, role>> \in Requests \X Http!Roles
    BY <1>1 DEF Http!Rows
  <2> QED
    BY <1>0, <1>1, <1>3, <2>1, <2>2 DEF CallType, Knows
<1>6. Knows(k)
  <2>1. CASE role = "user"
    BY <1>1, <1>5, <2>1 DEF Knows, Http!AfterPc, UserFound, BothFound
  <2>2. CASE role = "assistant"
    <3>1. <<r, "user">> \in stored \cup call[c].staged
      BY <1>0, <1>1, <2>2 DEF Knows, Http!InsertPc, UserFound
    <3>2. Http!Rows(r) \in SUBSET (stored \cup k.staged)
      BY <1>5, <2>2, <3>1 DEF Http!Rows, Http!Roles
    <3> QED
      BY <1>1, <1>5, <2>2, <3>2 DEF Knows, Http!AfterPc, UserFound, BothFound
  <2> QED
    BY <2>1, <2>2 DEF Http!Roles
<1> QED
  BY <1>1, <1>4, <1>6, <1>5, LocalStep

\* The summaries are built, or refused.
LEMMA SummarizeStep ==
  ASSUME MessagesInv, NEW c \in Calls, Http!Summarize(c)
  PROVE  MessagesInv'
<1>1. /\ call[c] \in CallType /\ Knows(call[c]) /\ call[c].pc = "summarize"
      /\ UNCHANGED <<ledger, answers, stored, replied>>
  BY DEF MessagesInv, TypeInv, CallsInv, Http!Summarize, Http!Running, Http!At,
         Http!World, Http!gatewayVars
<1>2. PICK pc \in {"commit", "rollback"} : call' = [call EXCEPT ![c].pc = pc]
  BY DEF Http!Summarize, Http!Goto
<1>3. PICK k : k = [call[c] EXCEPT !.pc = pc]
  OBVIOUS
<1>4. call' = [call EXCEPT ![c] = k]
  BY <1>2, <1>3 DEF MessagesInv, TypeInv
<1>5. k \in CallType /\ Knows(k)
  BY <1>1, <1>3 DEF CallType, Places, Knows, AfterAnswer, UserFound, BothFound
<1> QED
  BY <1>1, <1>4, <1>5, LocalStep

\* Storing what a call has staged when it knows both rows: afterwards the rows
\* of every stored message are complete and answered.
LEMMA StagedIsComplete ==
  ASSUME MessagesInv, NEW c \in Calls, call[c].pc = "commit",
         stored' = stored \cup call[c].staged, UNCHANGED answers
  PROVE  /\ Http!Rows(call[c].request) \in SUBSET stored'
         /\ stored' \in SUBSET (Requests \X Http!Roles)
         /\ \A m \in stored' : Http!Rows(m[1]) \subseteq stored' /\ answers'[m[1]] # {}
<1> DEFINE r == call[c].request
<1>1. /\ call[c].staged \in SUBSET Http!Rows(r) /\ r \in Requests
      /\ Http!Rows(r) \in SUBSET (stored \cup call[c].staged) /\ answers[r] # {}
  BY DEF MessagesInv, CallsInv, Knows, AfterAnswer, BothFound
<1> HIDE DEF r
<1>2. ASSUME NEW m \in call[c].staged
      PROVE  m[1] = r /\ m \in Requests \X Http!Roles
  BY <1>1, <1>2 DEF Http!Rows
<1>3. ASSUME NEW m \in stored'
      PROVE  Http!Rows(m[1]) \subseteq stored' /\ answers'[m[1]] # {}
  <2>1. CASE m \in stored
    BY <2>1 DEF MessagesInv, Http!ThreadMatchesLedger
  <2>2. CASE m \in call[c].staged
    BY <1>1, <1>2, <2>2
  <2> QED
    BY <1>3, <2>1, <2>2
<1>4. stored' \in SUBSET (Requests \X Http!Roles)
  BY <1>2 DEF MessagesInv, TypeInv
<1> QED
  BY <1>1, <1>3, <1>4 DEF r

\* The commit stores the rows before the response, a failed one may store them
\* and gives no response.
LEMMA CommitStep ==
  ASSUME MessagesInv, NEW c \in Calls, Http!Commit(c) \/ Http!CommitFails(c)
  PROVE  MessagesInv'
<1>1. /\ call[c].pc = "commit" /\ call[c] \in CallType /\ Knows(call[c])
      /\ UNCHANGED <<ledger, answers>>
      /\ stored' = stored \/ stored' = stored \cup call[c].staged
  BY DEF Http!Commit, Http!CommitFails, Http!Running, Http!At, Http!gatewayVars,
         MessagesInv, TypeInv, CallsInv
<1>2. Grow
  BY <1>1 DEF Grow
<1>3. /\ stored' \in SUBSET (Requests \X Http!Roles)
      /\ \A m \in stored' : Http!Rows(m[1]) \subseteq stored' /\ answers'[m[1]] # {}
  <2>1. CASE stored' = stored
    BY <1>1, <2>1 DEF MessagesInv, TypeInv, Http!ThreadMatchesLedger
  <2>2. CASE stored' = stored \cup call[c].staged
    BY <1>1, <2>2, StagedIsComplete
  <2> QED
    BY <1>1, <2>1, <2>2
<1>4. \A r \in replied' : Http!Rows(r) \subseteq stored'
  <2>1. CASE Http!Commit(c)
    <3>1. /\ stored' = stored \cup call[c].staged
          /\ replied' = replied \cup {call[c].request}
      BY <2>1 DEF Http!Commit, Http!Request
    <3>2. Http!Rows(call[c].request) \subseteq stored'
      BY <1>1, <3>1, StagedIsComplete
    <3> QED
      BY <3>1, <3>2 DEF MessagesInv, Http!ThreadMatchesLedger
  <2>2. CASE Http!CommitFails(c)
    BY <1>2, <2>2
       DEF Http!CommitFails, Http!World, Grow, MessagesInv, Http!ThreadMatchesLedger
  <2> QED
    BY <2>1, <2>2
<1>5. PICK k : k \in CallType /\ Knows(k) /\ call' = [call EXCEPT ![c] = k]
  <2>1. CASE Http!Commit(c)
    <3>1. PICK k : k = Http!Idle
      OBVIOUS
    <3>2. call' = [call EXCEPT ![c] = k]
      BY <2>1, <3>1 DEF Http!Commit
    <3> QED
      BY <3>1, <3>2, IdleKnows
  <2>2. CASE Http!CommitFails(c)
    <3>1. PICK k : k = [call[c] EXCEPT !.pc = "rollback", !.staged = {}]
      OBVIOUS
    <3>2. call' = [call EXCEPT ![c] = k]
      BY <2>2, <3>1 DEF Http!CommitFails, MessagesInv, TypeInv
    <3>3. k \in CallType /\ Knows(k)
      BY <1>1, <3>1 DEF CallType, Places, Knows, AfterAnswer, UserFound, BothFound
    <3> QED
      BY <3>2, <3>3
  <2> QED
    BY <2>1, <2>2
<1>6. Knows(k)'
  BY <1>2, <1>5, KnowledgeKept
<1>7. call' \in [Calls -> CallType] /\ CallsInv'
  BY <1>2, <1>5, <1>6, OneCallSteps DEF MessagesInv
<1> QED
  BY <1>1, <1>3, <1>4, <1>7
     DEF MessagesInv, TypeInv, AnswerInv, Http!ThreadMatchesLedger

\* A rollback forgets what was staged.
LEMMA RollbackStep ==
  ASSUME MessagesInv, NEW c \in Calls, Http!Rollback(c)
  PROVE  MessagesInv'
<1>1. PICK k : k = Http!Idle
  OBVIOUS
<1>2. call' = [call EXCEPT ![c] = k] /\ UNCHANGED <<ledger, answers, stored, replied>>
  BY <1>1 DEF Http!Rollback, Http!World, Http!gatewayVars
<1> QED
  BY <1>1, <1>2, IdleKnows, LocalStep

\* A process that dies takes its calls and what they staged with it.
LEMMA CrashStep ==
  ASSUME MessagesInv, NEW p \in CallProcesses, Http!Crash(p)
  PROVE  MessagesInv'
<1>1. /\ UNCHANGED <<ledger, answers, stored, replied>>
      /\ call' = [c \in Calls |-> IF CallProcessOf[c] = p THEN Http!Idle ELSE call[c]]
  BY DEF Http!Crash, Http!gatewayVars
<1>2. call' \in [Calls -> CallType]
  BY <1>1, IdleKnows DEF MessagesInv, TypeInv
<1>3. ASSUME NEW c \in Calls
      PROVE  Knows(call[c])'
  <2>1. Knows(Http!Idle) /\ Knows(call[c])
    BY IdleKnows DEF MessagesInv, CallsInv
  <2>2. CASE CallProcessOf[c] = p
    <3>1. call'[c] = Http!Idle
      BY <1>1, <2>2
    <3> QED
      BY <1>1, <2>1, <3>1 DEF Knows
  <2>3. CASE CallProcessOf[c] # p
    <3>1. call'[c] = call[c]
      BY <1>1, <2>3
    <3> QED
      BY <1>1, <2>1, <3>1 DEF Knows
  <2> QED
    BY <2>2, <2>3
<1> QED
  BY <1>1, <1>2, <1>3
     DEF MessagesInv, TypeInv, AnswerInv, CallsInv, Http!ThreadMatchesLedger

-----------------------------------------------------------------------------

\* Calls start idle, with nothing stored and nothing answered.
LEMMA InitMessages == Http!Init => MessagesInv
<1> SUFFICES ASSUME Http!Init PROVE MessagesInv
  OBVIOUS
<1>1. Knows(Http!Idle) /\ Http!Idle \in CallType
  BY IdleKnows
<1> QED
  BY <1>1
     DEF Http!Init, Http!Gateway!Init, Http!Gateway!Phases, MessagesInv, TypeInv,
         AnswerInv, CallsInv, Http!ThreadMatchesLedger

\* Every step of a call and every crash keep the invariant.
LEMMA NextMessages == MessagesInv /\ [Http!Next]_Http!vars => MessagesInv'
<1> SUFFICES ASSUME MessagesInv, [Http!Next]_Http!vars PROVE MessagesInv'
  OBVIOUS
<1>1. ASSUME NEW c \in Calls, Http!Steps(c)
      PROVE  MessagesInv'
  <2>1. CASE \/ Http!Authenticate(c) \/ Http!NotAuthenticated(c) \/ Http!OpenThread(c)
             \/ Http!NoConnection(c) \/ Http!Conflict(c)
             \/ Http!StartWorker(c) \/ Http!Supervised(c)
             \/ \E role \in Http!Roles : Http!InsertRefused(c, role)
    BY <2>1, WaitingSteps
  <2>2. CASE Http!ReplayDenied(c) \/ Http!Accept(c) \/ Http!Fail(c)
    BY <2>2, LedgerSteps
  <2>3. CASE Http!Answer(c) \/ Http!Replay(c)
    BY <2>3, AnswerStep
  <2>4. ASSUME NEW role \in Http!Roles, Http!Find(c, role) \/ Http!Insert(c, role)
        PROVE  MessagesInv'
    BY <2>4, FindStep, InsertStep
  <2>5. CASE Http!Summarize(c) \/ Http!Commit(c) \/ Http!CommitFails(c) \/ Http!Rollback(c)
    BY <2>5, SummarizeStep, CommitStep, RollbackStep
  <2> QED
    BY <1>1, <2>1, <2>2, <2>3, <2>4, <2>5 DEF Http!Steps
<1>2. ASSUME NEW c \in Calls, NEW r \in Requests, Http!Receive(c, r)
      PROVE  MessagesInv'
  BY <1>2, ReceiveStep
<1>3. ASSUME NEW p \in CallProcesses, Http!Crash(p)
      PROVE  MessagesInv'
  BY <1>3, CrashStep
<1>4. CASE UNCHANGED Http!vars
  BY <1>4
     DEF Http!vars, Http!gatewayVars, MessagesInv, TypeInv, AnswerInv, CallsInv,
         Knows, Http!ThreadMatchesLedger
<1> QED
  BY <1>1, <1>2, <1>3, <1>4 DEF Http!Next

\* What every call knows of rows and answers is true in every reachable state.
THEOREM MessagesInvariant == Http!Spec => []MessagesInv
BY InitMessages, NextMessages, PTL DEF Http!Spec

\* A request that got its response has both messages, and every stored message
\* has its counterpart and an answer of the gateway, whatever calls are repeated,
\* fail or die, and whichever commit takes effect without saying so.
THEOREM MessagesMatchLedger == StageSpec => []ThreadMatchesLedger
<1> DEFINE IInv == stage = "calls" => MessagesInv
<1>1. StageInit => IInv
  BY InitMessages DEF StageInit
<1>2. IInv /\ [StageNext]_stageVars => IInv'
  <2> SUFFICES ASSUME IInv, [StageNext]_stageVars, stage' = "calls"
               PROVE  MessagesInv'
    OBVIOUS
  <2>1. stage = "calls" /\ [Http!Next]_Http!vars
    BY DEF StageNext, Inside, Around, stageVars, callVars, Http!vars, Http!gatewayVars
  <2> QED
    BY <2>1, NextMessages
<1>3. IInv => ThreadMatchesLedger
  BY DEF MessagesInv, ThreadMatchesLedger
<1> QED
  BY <1>1, <1>2, <1>3, PTL DEF StageSpec
=============================================================================
