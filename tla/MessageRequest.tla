--------------------------- MODULE MessageRequest ---------------------------
(***************************************************************************)
(* POST /threads/{id}/messages around the gateway (api/routers/threads.py, *)
(* api/dependencies.py): the request's own session, the gateway's further  *)
(* transactions from the same connection pool, and the two messages that   *)
(* are stored after the root run has ended.                                *)
(*                                                                         *)
(* The gateway is what RequestLedger promises.  Authentication runs in a   *)
(* thread; everything else runs on the event loop of the process, which    *)
(* its calls share and which a call keeps except while it awaits its       *)
(* supervisor.  A call that needs a connection when all are taken blocks   *)
(* the loop until the pool gives up.                                       *)
(***************************************************************************)
EXTENDS Naturals, FiniteSets, FiniteSetsExt

CONSTANTS
  Requests,    \* request ids, of one thread
  Calls,       \* HTTP calls that can be in progress at once
  Processes,
  ProcessOf,   \* the process that serves a call
  PoolSize,    \* connections a process may have open
  MaxCalls,    \* bound of the model: calls in a behaviour
  MaxCrashes,  \* bound of the model
  None

VARIABLES
  ledger, answers,   \* RequestLedger
  stored,            \* committed message rows, <<request, role>>
  call,              \* the local state of each call
  turn,              \* the call each event loop is executing, or None
  replied,           \* requests that got a 200 response
  started, crashes

gatewayVars == <<ledger, answers>>
vars == <<gatewayVars, stored, call, turn, replied, started, crashes>>

\* That every response to a request is made from one answer is the ledger's
\* promise, so add_message_once finds no other content under a message's id.
Gateway == INSTANCE RequestLedger WITH Answers <- {"answer"}

Roles == {"user", "assistant"}
Rows(r) == {r} \X Roles

\* held counts the call's connections: its session's and its worker's.
Idle == [pc |-> "idle", request |-> None, held |-> 0, staged |-> {}]

Init ==
  /\ Gateway!Init
  /\ stored = {}
  /\ call = [c \in Calls |-> Idle]
  /\ turn = [p \in Processes |-> None]
  /\ replied = {}
  /\ started = 0
  /\ crashes = 0

-----------------------------------------------------------------------------
At(c, pc) == call[c].pc = pc
Request(c) == call[c].request

LoopFree(c) == turn[ProcessOf[c]] = None
Running(c, pc) == At(c, pc) /\ turn[ProcessOf[c]] = c

Keep == UNCHANGED turn
TakeTurn(c) == LoopFree(c) /\ turn' = [turn EXCEPT ![ProcessOf[c]] = c]
DropTurn(c) == turn' = [turn EXCEPT ![ProcessOf[c]] = None]

Used(p) == MapThenSumSet(LAMBDA c : call[c].held, {c \in Calls : ProcessOf[c] = p})

FreeConnection(c) == Used(ProcessOf[c]) < PoolSize

Goto(c, pc) == call' = [call EXCEPT ![c].pc = pc]

Hold(c, pc, n) == call' = [call EXCEPT ![c].pc = pc, ![c].held = n]

World == UNCHANGED <<replied, started, crashes>>

-----------------------------------------------------------------------------
\* get_current_user is a plain function: it runs in a thread and takes the
\* connection that the request's session keeps to its end.
Receive(c, r) ==
  /\ At(c, "idle") /\ started < MaxCalls
  /\ call' = [call EXCEPT ![c].pc = "authenticate", ![c].request = r]
  /\ started' = started + 1
  /\ UNCHANGED <<gatewayVars, stored, turn, replied, crashes>>

Authenticate(c) ==
  /\ At(c, "authenticate") /\ FreeConnection(c)
  /\ Hold(c, "open", 1)
  /\ UNCHANGED <<gatewayVars, stored>> /\ Keep /\ World

\* A bad token, an unknown user, or no connection in time.
NotAuthenticated(c) ==
  /\ At(c, "authenticate") /\ TakeTurn(c)
  /\ Goto(c, "rollback")
  /\ UNCHANGED <<gatewayVars, stored>> /\ World

\* require_owned_active_thread, then gateway.run begins.
OpenThread(c) ==
  /\ At(c, "open") /\ TakeTurn(c)
  /\ \/ Goto(c, "gateway") \/ Goto(c, "rollback")
  /\ UNCHANGED <<gatewayVars, stored>> /\ World

\* Each transaction of the gateway has a connection of its own for a moment.
Transaction(c, pc) == Running(c, pc) /\ FreeConnection(c)

NoConnection_WaitsForEver(c) == FALSE
\* QueuePool raises when pool_timeout is over.
NoConnection(c) ==
  /\ \E pc \in {"gateway", "finish"} : Running(c, pc)
  /\ ~FreeConnection(c)
  /\ Goto(c, "rollback")
  /\ UNCHANGED <<gatewayVars, stored>> /\ Keep /\ World

Replay(c) ==
  /\ Transaction(c, "gateway") /\ ledger[Request(c)] = "answered"
  /\ Goto(c, "findUser")
  /\ UNCHANGED <<gatewayVars, stored>> /\ Keep /\ World

ReplayDenied(c) ==
  /\ Transaction(c, "gateway") /\ Gateway!Withdraw(Request(c))
  /\ Goto(c, "rollback")
  /\ UNCHANGED stored /\ Keep /\ World

\* The request runs, has failed or was denied, or another one runs.
Conflict(c) ==
  /\ Transaction(c, "gateway") /\ ledger[Request(c)] # "answered"
  /\ Goto(c, "rollback")
  /\ UNCHANGED <<gatewayVars, stored>> /\ Keep /\ World

Accept(c) ==
  /\ Transaction(c, "gateway") /\ Gateway!Accept(Request(c))
  /\ Goto(c, "supervise") /\ DropTurn(c)
  /\ UNCHANGED stored /\ World

\* A worker's session holds a connection while the worker awaits its model.
StartWorker(c) ==
  /\ At(c, "supervise") /\ LoopFree(c) /\ FreeConnection(c)
  /\ Hold(c, "worker", 2)
  /\ UNCHANGED <<gatewayVars, stored>> /\ Keep /\ World

\* The supervisor returns; without a connection its worker fails.
Supervised(c) ==
  /\ At(c, "supervise") \/ At(c, "worker")
  /\ TakeTurn(c)
  /\ Hold(c, "finish", 1)
  /\ UNCHANGED <<gatewayVars, stored>> /\ World

Answer(c) ==
  /\ Transaction(c, "finish") /\ Gateway!Answer(Request(c), "answer")
  /\ Goto(c, "findUser")
  /\ UNCHANGED stored /\ Keep /\ World

Fail(c) ==
  /\ Transaction(c, "finish") /\ Gateway!Fail(Request(c))
  /\ Goto(c, "rollback")
  /\ UNCHANGED stored /\ Keep /\ World

-----------------------------------------------------------------------------
(* add_message_once for the user's and then the assistant's message.       *)

FindPc == [user |-> "findUser", assistant |-> "findAssistant"]
InsertPc == [user |-> "insertUser", assistant |-> "insertAssistant"]
AfterPc == [user |-> "findAssistant", assistant |-> "summarize"]

Find(c, role) ==
  /\ Running(c, FindPc[role])
  /\ Goto(c, IF <<Request(c), role>> \in stored THEN AfterPc[role] ELSE InsertPc[role])
  /\ UNCHANGED <<gatewayVars, stored>> /\ Keep /\ World

\* The insert waits for another session that has inserted the same id.
Contended(row) == \E d \in Calls : row \in call[d].staged

Insert(c, role) ==
  LET row == <<Request(c), role>> IN
    /\ Running(c, InsertPc[role])
    /\ ~Contended(row) /\ row \notin stored
    /\ call' = [call EXCEPT ![c].pc = AfterPc[role], ![c].staged = @ \cup {row}]
    /\ UNCHANGED <<gatewayVars, stored>> /\ Keep /\ World

\* The id exists by now, or the wait exceeds the statement timeout.
InsertRefused(c, role) ==
  LET row == <<Request(c), role>> IN
    /\ Running(c, InsertPc[role])
    /\ Contended(row) \/ row \in stored
    /\ Goto(c, "rollback")
    /\ UNCHANGED <<gatewayVars, stored>> /\ Keep /\ World

\* get_agent_summaries reauthorizes the evidence once more.
Summarize(c) ==
  /\ Running(c, "summarize")
  /\ Goto(c, "commit") \/ Goto(c, "rollback")
  /\ UNCHANGED <<gatewayVars, stored>> /\ Keep /\ World

\* The session's dependency has function scope: it ends before the response.
Commit_AfterResponse(c) ==
  /\ Running(c, "commit")
  /\ call' = [call EXCEPT ![c] = Idle] /\ DropTurn(c)
  /\ stored' \in {stored, stored \cup call[c].staged}
  /\ replied' = replied \cup {Request(c)}
  /\ UNCHANGED <<gatewayVars, started, crashes>>
Commit(c) ==
  /\ Running(c, "commit")
  /\ call' = [call EXCEPT ![c] = Idle] /\ DropTurn(c)
  /\ stored' = stored \cup call[c].staged
  /\ replied' = replied \cup {Request(c)}
  /\ UNCHANGED <<gatewayVars, started, crashes>>

\* RequestTransactionError; the commit may have taken effect all the same.
CommitFails(c) ==
  /\ Running(c, "commit")
  /\ stored' \in {stored, stored \cup call[c].staged}
  /\ call' = [call EXCEPT ![c].pc = "rollback", ![c].staged = {}]
  /\ UNCHANGED gatewayVars /\ Keep /\ World

Rollback(c) ==
  /\ Running(c, "rollback")
  /\ call' = [call EXCEPT ![c] = Idle] /\ DropTurn(c)
  /\ UNCHANGED <<gatewayVars, stored>> /\ World

Crash(p) ==
  /\ crashes < MaxCrashes
  /\ call' = [c \in Calls |-> IF ProcessOf[c] = p THEN Idle ELSE call[c]]
  /\ turn' = [turn EXCEPT ![p] = None]
  /\ crashes' = crashes + 1
  /\ UNCHANGED <<gatewayVars, stored, replied, started>>

Steps(c) ==
  \/ Authenticate(c) \/ NotAuthenticated(c) \/ OpenThread(c) \/ NoConnection(c)
  \/ Replay(c) \/ ReplayDenied(c) \/ Conflict(c) \/ Accept(c)
  \/ StartWorker(c) \/ Supervised(c) \/ Answer(c) \/ Fail(c)
  \/ \E role \in Roles : Find(c, role) \/ Insert(c, role) \/ InsertRefused(c, role)
  \/ Summarize(c) \/ Commit(c) \/ CommitFails(c) \/ Rollback(c)

Next ==
  \/ \E c \in Calls : Steps(c) \/ \E r \in Requests : Receive(c, r)
  \/ \E p \in Processes : Crash(p)

\* The loop runs what is ready, and every wait has a timeout.
Spec == Init /\ [][Next]_vars /\ \A c \in Calls : WF_vars(Steps(c))

-----------------------------------------------------------------------------
\* The thread's messages agree with what the gateway answered and with what the
\* client was told: a request that got its response has both messages, and a
\* message has its counterpart and an answer, although the messages are stored
\* after the root has ended, calls are repeated and any step may fail.
ThreadMatchesLedger ==
  /\ \A r \in replied : Rows(r) \subseteq stored
  /\ \A m \in stored : Rows(m[1]) \subseteq stored /\ answers[m[1]] # {}

\* A call returns, also when every connection of the pool is held by calls that
\* wait for the same event loop, or its insert waits for another process.
CallReturns == \A c \in Calls : ~At(c, "idle") ~> At(c, "idle")
=============================================================================
