# A verification project for deep-search-pro

The program is a FastAPI service over PostgreSQL and an object storage. A user
uploads files, turns them into versions of documents that are parsed, chunked,
embedded and activated, and asks questions that a supervised group of agents
answers from business data and from the indexed documents. This directory has
TLA+ modules of the parts whose correctness depends on the order of steps of
several actors, configurations that TLC checks, and proofs that TLAPS checks.

The modules are translated from the Python code; the development records under
`docs/` are only quoted where a run refutes one of their sentences. Code paths
below are relative to the repository's `app/`.

## 1. The system's components

**Hierarchical agent budget** (`runtime/budget.py`, `AgentBudgetTree` and
`ChildExecutionBudget`). State: what the root has consumed, the sets of evidence
and tasks, the children with grant, use, start and `closed`. Operations:
allocate a child, reserve a model or tool call, record tokens and evidence,
close. Parallel workers call it from several threads under one re-entrant lock.
Hard: capacity that is reserved, used and returned by several children at once;
the part of the budget a resumed run has already spent. Correct when no order
overspends a limit, what is spent stays spent, a grant can be used, and a closed
child is silent.

**Agent gateway and runtime persistence** (`agents/gateway.py`,
`services/agent_runtime.py`, `repositories/agent_runtime.py`,
`models/runtime.py`). State: root runs, task rows, the append-only log of
checkpoints of a thread. Operations: replay a request, claim a waiting root,
begin a root, check the authorization of references, save and replace a plan,
record worker runs, finish, deny. Each is a transaction of its own, between them
the call holds copies of what it read; calls run in one event loop per process
and in several processes. Hard: repeated and concurrent requests, replay while
another call resumes the same root, revoked access, crashes. Correct when a
request is executed once, one root of a thread is active, an answer never
changes, and a pause can be resumed.

**Supervisor control graph and worker calls**
(`agents/graphs/engineered_multi_agent.py`, `agents/supervisor.py`,
`agents/runtime/worker.py`, `dispatcher.py`, `termination.py`). State: the plan,
the status and result of each task, the batch, the decisions taken. Operations:
plan, decide, hand off, invoke the workers of a batch concurrently, compose the
answer, pause and resume. Hard: calls that end in any order, time out, are rolled
back or fail to be recorded; pauses in the middle of a batch. Correct when
dependencies are respected, results, rows and evidence agree, and the graph
always returns.

**Document parsing, chunking and indexing** (`services/documents/*`,
`repositories/documents.py`, `repositories/document_indexes.py`). State: version
rows, file status, chunk sets, index sets, two "active" pointers, objects in the
storage. Operations: claim, work outside of transactions, complete or fail.
Hard: two calls for one version, two versions overtaking each other, a change of
the embedding identity, deletion of the file in between, failed compensations,
crashes. Correct when readers are served a complete set and never an older
version again, claims exclude each other, and nothing is left half done.

**Files and object storage** (`services/files.py`, `services/storage/local.py`,
`api/dependencies.py`). State: file rows, objects, temporary files, the
compensations of a request. An upload of several parts writes each object, then
flushes its row; the request commits at its end, or removes what it wrote. Hard:
a part, a step or the commit that fails after others have succeeded; readers and
a crash in between. Correct when a batch is accepted as a whole or leaves
nothing, and a row that is found has its object.

**Parsers and chunkers** (`services/documents/parsers/docling.py`, `routing.py`,
`chunking/chunker.py`, `chunking/tables.py`). A parse may run in a disposable
process that is watched over a pipe: it can hang, die, grow, start helpers or
answer too late. The chunkers cut texts and tables into windows that overlap.
Correct when only whole results are used, nothing of the process tree survives,
the parse comes back, and what a chunk declares to repeat is what the chunk
before it ends with.

**Workers and their harness** (`agents/workers/*`, `agents/runtime/harness.py`,
`runtime/executor.py`, `runtime/permissions.py`, `runtime/trace.py`): a bounded
loop of model decisions and tool calls. Audit rows are committed in transactions
of their own, the worker's results in one at the end. Hard: a tool that times
out after it has written, a lost audit write, a cancellation while the model is
awaited. Correct when only audited and successful calls leave Evidence, the
outcome agrees with the audit rows, and every attempt ends.

**Retrieval and context** (`services/retrieval`, `repositories/retrieval.py`,
`services/evidence.py`): two ranked searches, fusion, reranking, a second read
of the chosen windows under locks, and a Context within budgets. Hard: documents
that are published, revoked or deleted between two statements; locks that are
held while the model is awaited; overlaps, copies and budgets. Correct when what
is committed as Evidence was published and readable at that moment, a search
ends, and the Context shows the best anchor, nothing twice and nothing cut in
the wrong place.

**Message requests** (`api/routers/threads.py`, `services/conversation.py`):
authentication, the gateway, and the two messages of the conversation, stored
after the root has ended in the request's own session. Hard: repeated requests,
a failing commit, a connection pool that several calls exhaust while they share
one event loop. Correct when messages, answers and responses agree and every
call returns.

**Answer composition** (`llm/agent_structured.py`, `llm/agent_evidence.py`,
`agents/runtime/provider.py`, `compose_answer` of the graph, `_finish_root`):
labels for the candidate Evidence, the model's text with one repair, the checks
on its citations, and the rows that are stored. Correct when an answer names
what its text cites and what every task requires.

**The rest**: native parsers, heading heuristics and quality scores; the other
routes and the authentication; prompts and transport of the language models;
static capability and tool catalogs; services for memory, knowledge, products
and inventory (one transaction each); the first milestone's inventory route;
offline evaluation; the prototype and the front end.

How they interact: `POST /threads/{id}/messages` calls the gateway, which saves
through the runtime service, builds a budget tree and runs the supervisor graph;
the graph calls workers, which consume child budgets, read through the tools and
retrieval, and record their runs through the runtime service.
The graph then composes the answer, and the gateway stores it with its Evidence.
`POST /documents/{id}/versions/{id}/index` runs the whole document pipeline in
one call, parsers and chunkers included; retrieval reads only what the two active
pointers lead to. Request
handlers share nothing but the database, the storage and, within a process, the
event loop.

## 2. Modules and plan

| module | what it is | state of work |
| --- | --- | --- |
| `AgentBudgetTree` | the budget tree | checked, proved |
| `AgentBudgetTreeProofs` | its theorems | |
| `AgentGateway` | requests, transactions and crashes of one thread | checked, proved |
| `AgentGatewayProofs` | its theorems, the ledger refinement among them | |
| `RequestLedger` | what the gateway promises a client | abstract specification |
| `MessageRequest` | the HTTP calls around the gateway, over `RequestLedger` | checked, proved |
| `MessageRequestProofs` | its theorems | |
| `SupervisorGraph` | one root run: graph, workers, rows, pauses | checked, proved |
| `SupervisorGraphProofs` | its theorems | |
| `WorkerLoop` | one attempt of a worker, with tools, audit and transaction | checked, proved |
| `WorkerCall` | that attempt as one call of `SupervisorGraph` | refinement, checked, proved |
| `KnowledgeSearch` | searches of several runs over changing documents | checked, proved |
| `ContextBuilding` | fusion, reranking and the Context of one search | checked, proved |
| `AnswerComposition` | from worker results to the stored answer | checked, proved |
| `AnsweringProofs` | the theorems of these five | |
| `FileUpload` | one batch of files, its readers and its clean-up | checked, proved |
| `DoclingProcess` | one parse in a disposable process | checked, proved |
| `TextChunking` | the windows of a text | checked, proved |
| `TableChunking` | row windows and column bands of a table | checked, proved |
| `IngestionProofs` | the theorems of these four | |
| `DocumentIndexing` | the pipeline of one document's versions | checked, proved |
| `DocumentIndexingProofs` | its theorems | |
| `ActiveIndex` | what indexing promises readers | abstract specification |
| `FiniteSums` | lemmas about sums over finite sets, used by three of the proofs | |
| `MCAgentBudgetTree`, `MCAgentGateway`, `MCSupervisorGraph`, `MCDocumentIndexing`, `MCTableChunking` | instances of one module | |
| `MCServerProcesses` | `DocumentIndexing` and a two-process `AgentGateway` | |
| `MCMessageRequest` | `AgentGateway` and `MessageRequest` | |
| `MCIngestion` | `FileUpload`, `DoclingProcess`, `TextChunking`, `TableChunking` | |
| `MCAnswering` | `WorkerCall`, `KnowledgeSearch`, `ContextBuilding`, `AnswerComposition` | |

Every module of the plan is written; "proved" means that each of its safety
invariants and step properties that a run checks is a theorem too.

The last four put modules side by side that describe the same path at different
granularities. The variable `stage` chooses one at the start; the variables of
the others keep a fixed value, so that a behaviour of such an instance is a
behaviour of one module, and the states of the run are the sum of theirs.
What joins them is in the modules: `MessageRequest` runs over the ledger that
`AgentGateway` is shown to implement; a parse, a chunk set and a file are one step
each of `DocumentIndexing`; a whole search is one operation of `WorkerLoop`, an
attempt of which is shown to implement one call of `SupervisorGraph` (`WorkerCall`),
whose results are the inputs of `AnswerComposition`; what `ContextBuilding` assumes
of the chunks of a text (`LaidOut`) is what `ChunksAreLaidOut` proves of
`TextChunking`.

The order of the plan is that of the damage a wrong order of steps can do:
money (budget), answers (gateway, supervisor), documents, then uploads, parsing,
retrieval and the composition of answers. `AgentGateway` and `SupervisorGraph` describe the same
run at two granularities: the gateway keeps the current task of a plan and lets
the supervisor do anything its final states can be, the supervisor keeps all
tasks and leaves out who may execute the root. The budget tree is separate: for
both a refused call is one of the failures they already have.

In every module a definition named `X_Y` is `X` with the defect `Y`. The model
does not use it; it documents which mistake a property catches, and the property
fails when it takes the place of `X`.

## 3. What the modules say and how they correspond to the code

`PROJECT.json` ("map") gives the lines each definition stands for.

### AgentBudgetTree

A method that changes state is an action, its checks the guard: every method
holds the tree's lock and a method that raises changes nothing. `AllocateChild`
reserves the whole grant; what open children still may use is the set of *slots*
`<<child, k>>` above their use, so that the code's sum is a cardinality (an
ASSUME of the MC module compares the two, and the proofs use the finite-set
theorems). `Tick` advances the clock, `restored` is the `AgentBudgetRestore` of a
resumed run. Root token counters are recorded after the fact, as in the code.

### AgentGateway

A *handler* is one call of `AgentGateway.run`; each of its transactions is one
action, `pc` is where it is, and its record holds what it has read: the
checkpoint's state and the version it will expect. Everything in `run` but the
supervisor is synchronous, so a handler keeps its process's loop (`loop`) except
between `Supervise` steps. `log` is `agent_checkpoints`, `roots` the status of
`agent_runs`, `boards` what the checks read of `agent_tasks`. `Crash` drops every
handler of a process, `ChangeGrant` revokes or restores the access to what the
answer refers to. A save whose row violates a CHECK constraint is rolled back
with its transaction (`RowAllowed`). The board keeps the row of the current
task; plans of several tasks are the next module's subject.

### SupervisorGraph

The nodes and routes of the LangGraph are the values of `pc` and the actions of
`GraphStep`; `CallStep` and `CallEnds` are `WorkerRuntime.invoke` running
concurrently for the tasks of a batch: refused, started (with its row), ended
with any legal result, timed out, recorded, or raising. `Joined` is
`asyncio.gather(..., return_exceptions=True)`. A worker that asks or fails has
its session rolled back, so that evidence is committed only with a completed
result. `Settle` is the gateway's final transaction, `Resume` the claim by the
next request with the state `resumed_supervisor_graph_state` builds. The
read-only filter on batches is no guard here, since every registered worker is
read-only. The plans of the instance have up to three tasks: the graph accepts
them and its unit tests use them, while the production planner gives each worker
at most one task. Every finding is reached with plans of two tasks.

### DocumentIndexing

A call is one run of `DocumentIndexService.index_version`. Every transaction is
an action with the tests and writes of its repository method, and so is every
step between transactions: parsing and writing the object (`Parse`), writing the
chunk object (`Chunk`), `Embed`, deleting an object after a failure. A call holds
the version, the embedding identity of its process, the attempt number of its
claim and the active version it read before the claim (`seen`). The claims are
conditional updates, so of two calls one sees the other's. Errors are a choice
where the code can raise: reading, parsing, quality, storage, embedding,
database. `Fault` counts what is worse: a process that dies, a compensation or
failure record that fails; the version at which it happens joins `lost`. The
same bound counts a commit that takes effect and is reported as failed (`Unheard`): the call then
compensates as after any error and deletes the object of the row that has just become
ready, and `unheard` remembers its key. A claim whose commit ends like this is
`Crash`, since no handler catches the error; `DatabaseFails` is such an error without
an effect. For the completion of an index set nothing is compensated, and its failure
record does nothing to a ready set. `AddVersion` and `DeleteFile` are the other routes
that change what the pipeline reads. A transaction whose rows are locked by `FOR UPDATE` is atomic; the one
that is not, which records a parse failure while the file is deleted, may lose
its whole effect, as the code's CHECK constraint makes it do. The lock orders of
the transactions do not form a cycle: `fail_index_set` locks an index set only
for the attempt of its own call, for which no completion runs any more.

`ImplementsActiveIndex` maps `published` to the ready index sets and `served` to
the two active pointers.

### MessageRequest

A call is one `POST /threads/{id}/messages`. It holds the connections of its own
session and of its worker (`held`), takes a turn of its process's event loop, and
gives it up only while it authenticates (in a thread) or awaits its supervisor.
A transaction of the gateway is a step of `RequestLedger`, taken with a further
connection; without one the loop is blocked until the pool gives up
(`NoConnection`). After the answer the call finds or inserts the two messages by
their ids, summarizes and commits; a commit may fail or lose its
acknowledgement, an insert may wait for another process's row. The client may
repeat any request.

### FileUpload

Each step of the storage's put (write to a temporary file, link, unlink), of the
registration, of the commit and of the clean-up is an action. `request` holds the
parts, how far the handler is and the objects it registered for compensation; the
keys are fresh. A part's row that is refused removes its own object; the
compensations remove the others, newest first. Readers find the row in one step
and open the object in another, `SoftDelete` hides a row.

### DoclingProcess

`parent.pc` follows the router and the loop that polls the pipe, the worker's
life, the memory of the tree and the deadline, one after the other; every exit
passes through the listing, `terminate` and `kill` of the process tree. The
worker may start helpers, write a message in two steps, exit with any code, die,
or hang at any place except within a write. Time is the flag `late`.

### TextChunking and TableChunking

The text of a heading group is a row of tokens; `marks` says what kinds of
boundary follow each. `Window` is one turn of `_chunk_group`'s loop: the end that
`_window_end` chooses, the chunk with what it declares to repeat, and the next
start. A table is a header row and data rows of cells with their sizes; `Window`
takes as many rows as fit, `HeaderOnly` is a table without data. A row that is too
wide is split: `SplitRow` begins, its merged cells decide the column `groups` no
band may cut, each `EmitBand` takes a band of whole groups (`bands`, `group`), and
`RowSplit` appends them; `Unsplittable` is a group that is too wide by itself. A
rendered row costs a token besides its cells.

### WorkerLoop

`Loop` has the bounded decision loop of both workers (`worker` says which):
budget, the model's action, its validation, tools and the final result. A tool
call passes the harness: permission check and audit row, start, operation,
finish, each audit write a transaction that may fail (`lost`). What operations
write is `staged` in the worker's transaction together with the call that wrote
it, and `committed` or rolled back at the end. An operation that raises usually leaves
nothing; an inventory search may leave its row, which it flushes before it builds the
view that can be refused (`LeftStaged`). That row is committed when the attempt still
finishes with a partial result, without Evidence or unsupported. Tools run synchronously, so the
deadline of `asyncio.wait_for` cancels an attempt only while it awaits the model
(`Cancelled`), and a tool's own deadline is noticed after the operation.

`WorkerCall` says what the supervisor sees of an attempt. `callOf` is the attempt's
entry in `SupervisorGraph`'s `calls`: "running" until the attempt has ended, then
"ended" with `CallResult`, which forgets which references a result has and joins the
outcomes that `SupervisorGraph` does not tell apart. `backed` is its `evidence`: the
task is in it when the result refers to something and all of that was handed over or
is committed. An attempt may also commit and still return a failure, when the
acknowledgement of the commit is lost; nothing refers to that Evidence, and `backed`
does not count it. A process that dies leaves its call running, as `SupervisorGraph`,
which has no crashes, would see it. The rest of `invoke` (the claim of the row, the
record of the result) is in `SupervisorGraph` only.

### KnowledgeSearch

A run makes the statements of a search one by one: dense, lexical, a second read
of the reranked windows, and `Persist`, which reads the sources again under
`FOR UPDATE`, writes Context and Evidence and keeps the locks while the run
awaits its model; then the attempt commits or rolls back and the summaries of
the reply are read. `World` publishes, deletes, grants and revokes between any
two statements, unless a lock forbids it. Runs of one loop exclude each other
except at an await; a blocked statement holds the loop until its timeout.

### ContextBuilding

Four steps: `Fuse` (reciprocal ranks, as fractions), `Rerank` (score, then the
tie-breaks), `Consider` (one candidate of the builder: anchors first, then their
neighbours, with duplicates, overlaps and both budgets) and `Build` (reading
order and numbering). The three orders are relations (`FusedOrder`,
`RerankedOrder`, `WindowOrder`), and `Sorted` puts a member where as many come
before it as its place says. A chunk is a stretch of its document's tokens; the
instance has a document of three overlapping chunks and a copy of its beginning.

### AnswerComposition

The initial states are the results a graph may hold when it composes or has one
more decision to take. `NumberEvidence` labels the candidates in the order of the
results; `Accepted`, `Repair` and `NotAccepted` are what may follow the model's
output, which is any text of labels (given, never given, malformed) with any
claim of what it cites. A repair reserves a call of the budget first. `FinishRoot`
writes the rows, numbered from 1.

## 4. What is checked

All passing runs finish with the whole state space explored.

| run | question | instance | states |
| --- | --- | --- | --- |
| `budget` | can any order of supervisor and workers overspend, lose or block budget? | two children, depth 2, limits 1 or 2, three evidence ids of which two fit, fresh and resumed root | 736,752 |
| `gateway` | is a request executed once and answered by one answer? | one process, two calls at a time, three requests, four calls, one crash, one resume, changes of access | 113,962 |
| `server_processes` | what holds when only the database is shared? Are readers served one complete and never older set, do claims exclude each other, is anything left half done; does an ended root stay ended? | documents: two calls at a time, three in all, two versions, two identities, one fault; or a thread: two processes, two requests, four calls | 850,744 |
| `messages` | do messages agree with answers; does a running root settle and every call return? | calls: three in two processes, two requests, pools of two connections, one crash; or the gateway: two requests, two calls; fairness | 126,604 |
| `supervisor` | do dependencies, results, rows and evidence agree, and does the graph return? | six plans of up to three tasks, batches of two, two resumes, one new plan, fairness | 347,800 |
| `ingestion` | is a batch all or nothing, is a parse whole and over, are chunks and overlaps right? | batches of up to three parts, two readers, one fault; two helper processes; texts of seven tokens with four kinds of boundary sets; tables of up to four rows and two columns | 315,247 |
| `answering` | are Evidence, audit and outcome consistent, is Evidence current, is the Context faithful, is the answer supported? | three decisions, three Evidence ids; two runs, users and loops, one document of two generations; every pair of rankings of four chunks; two tasks and two Evidence ids | 324,145 |

The properties, by the question they answer:

* `NoOverbooking`, `SpentStaysSpent`: reserved and consumed units together stay
  within every limit; what a child used is never handed out again.
  `EvidenceGrantHonoured`: the root counts distinct evidence, a child counts
  ids, and still no grant is refused. `RepeatedCallsBounded`: calls from before a
  resume count, once. (`ChildDeadlineWithinRoot` and `ClosedChildIsFrozen` are
  proved and not run.)
* `ImplementsLedger`: the gateway implements `RequestLedger`, so that a request
  is accepted only while no other is executed, and is answered by one answer.
  `RunningRootOwned`, `EndedStaysEnded`: no second call moves a root that another
  one executes. `WaitingIsClaimable`: a pause has the shape the next claim
  insists on, after every path that pauses. `DeniedStaysDenied`: an answer that
  was withdrawn is not given again when access returns. `RunningRootSettles`: a
  running root ends, pauses or has lost its process.
* `ThreadMatchesLedger`: a response implies both messages, a message its
  counterpart and an answer. `CallReturns`: no call waits for ever for a
  connection, a row or the loop.
* `StartedAfterDependencies`, `CompletedNotRerun`, `NoOrphanedWorker`,
  `ResultsAreStored`, `ReferencesCommitted`, `OnlyRefusalsLost`, `GraphReturns`
  relate the graph's state, the task rows, the committed evidence and the calls
  in progress.
* `ActiveServed`: the active version is complete, whatever later attempts do.
  `ImplementsActiveIndex`: one set at a time becomes ready and active in one
  step and the served version never gets older. `OneWorker`: no phase of a
  version is worked at twice, under whatever identity. `SettledWhenQuiet`: once
  no call works at a version, nothing is claimed and a retry is possible.
  `ObjectsMatchRows`: ready rows have their objects, unless the commit that made the
  row ready was reported as failed (`unheard`); failed ones leave none.
* `SettledBatch`: a batch is accepted as a whole or leaves nothing, whichever
  part and step failed. `FoundIsServed`: a row that is found has its object.
* `OnlyWholeResults`: only a result read to its end, from a worker that ended by
  itself, is released. `WorkerIsGone`: the worker and all that was listed of its
  tree have ended. `ParseReturns`: every parse comes back.
* `OverlapIsShared`: what a chunk declares to repeat is the end of the chunk
  before it. `RowsPackedOnce`: no row is lost or packed twice, every value keeps
  its header, repeated rows are the previous chunk's.
* `EvidenceIsAudited`: committed Evidence was written by an allowed call whose audit
  row says that it succeeded, or by an inventory call whose row says error because
  the view of its Evidence was refused after the flush; the result never names the
  latter. `OutcomeMatchesAudit`: the outcome agrees with the audit rows, and
  `no_evidence` means that no succeeded call has committed any. `AttemptIsCall`: every step of an attempt is a step of
  `SupervisorGraph`'s worker call or invisible to it, and the result that ends the
  call refers to what is committed, to Evidence only in an answer
  (`ReferencesAreStored`).
  `AttemptEnds`: an attempt ends although the model never answers.
* `SourcesHeld`: what an attempt commits was published and readable when it
  commits. `RunEnds`: a run that searches ends, locks or not.
* `ContextIsFaithful`: a text is shown once, the best anchor is shown, and a
  chunk ranked better by both routes comes first.
* `AnswerIsSupported`: a composed answer names exactly what its text cites, and
  "answered" implies Evidence for every task that requires some, also after a
  repair; a refusal or a failure names nothing. A run that ends by a decision
  instead of a composition is only promised that its Evidence was found: `decide`
  looks neither at its text nor at the tasks before.

The type invariants of `AgentBudgetTree`, `DocumentIndexing` and `SupervisorGraph`
also say what bounds and CHECK constraints relate (a batch must shrink to the
decisions that are left); all three are proved, the third is checked by
`supervisor` as well.

### Disagreements with the documentation

Five runs check a sentence of the repository that the code does not keep.
`PROJECT.json` ("findings") quotes the sentences.

| run | what happens |
| --- | --- |
| `gateway_refusal` | a direct question that is refused cannot be saved: the task row would be failed with outcome `unsupported`, which a CHECK forbids; the root stays running and the thread refuses every message |
| `supervisor_unfinished` | after two workers of a batch have asked, a resume continues one of their tasks |
| `documents_reuse` | a call that finds a ready set of its identity returns ready although another identity's set stays active |
| `tables_overlap` | after a row was split into column bands, the next window declares the whole header as overlap with a chunk that shows only some of its columns |
| `answer_labels` | the text of an answer cites the labels of all candidates, the stored mapping numbers the cited Evidence anew: a text that cites `[E2]` first is stored with `[E2]` naming another Evidence or nothing. The mapping is so far read by tests only |

Seen while modelling, and admitted by the models, without a run of their own:

* a claimed root whose time is used up makes the budget's constructor raise
  outside of every handler, and the root stays running;
* a replay of an earlier request of a resumed root denies with an old version,
  and the denial is not recorded;
* the document claim compares with an active version read before its lock and may
  claim an older version; the completion refuses it, only work is wasted;
* a commit that succeeds but whose acknowledgement is lost makes the
  compensations of an upload remove the objects of committed rows
  (`FoundIsServed` excepts it). After a parse it leaves a ready row without its object
  (`ObjectsMatchRows` excepts it) and a version that can neither be used nor be parsed
  again, since only pending and failed ones are claimed. The record of that stage
  (`M2_07_11_DOCUMENT_PARSING.md`, line 858) says that a failed completion is
  compensated and can be retried;
* an inventory tool flushes its Evidence row before the view of it can be refused (a
  title may be longer than the view allows). The call then fails, and when the worker
  still finishes with a partial result the row is committed (`EvidenceIsAudited` admits
  it, and says that no result names it). The record of the inventory core
  (`M1_07_11_INVENTORY_CORE.md`, line 521) says that it is rolled back;
* a Docling worker that sends its result and ends between `poll(0)` and
  `is_alive()` is reported as a crash; one that ends before its children are
  listed leaves them running (`WorkerIsGone` speaks of those that were listed);
* a pool that is exhausted in the final transaction leaves the root running;
* Evidence that one worker hands over and another opens appears in the results of
  both; the labels cannot be given and the run fails (`InputRefused`), while a
  test of the knowledge worker treats such a result as normal;
* a blocking failure and a question in one batch pause the run, and after the
  resume it may end with an answer although the blocking task failed;
* a neighbour may be shown in the Context without its anchor, a trimmed segment
  may stand before the one that holds its beginning, and chunks cut under larger
  limits may exceed a lowered `context_max_tokens`.

### Bounds

`MaxAttempts`, `MaxStarts`, `MaxCrashes`, `MaxFaults`, `MaxClock`, `MaxUnits` and
`MaxVersion` are bounds of the models, `MaxResumes` is the code's constant made
smaller. Four calls are enough for a request to be begun, paused, resumed and
replayed while another call interleaves, in one behaviour; two resumes let a task
be paused, continued and paused again. Three starts of the document pipeline let
two calls race and a third retry or reuse what they left; two versions are enough
for one to overtake the other, two identities for a set to be replaced and
reused. The budget's limits are such that every grant can just fit or just not
fit. Three HTTP calls with pools of two connections let two calls exhaust a pool
while the third, in another process, holds a row. Three parts let a batch fail
after, between and before others. Seven tokens with a target of four and an
overlap of two give windows that end at each kind of boundary, at the target and
at the hard limit; four rows and two columns give a split row before, between and
after others. Three decisions of a worker are enough for a call that fails after
one that succeeded; two generations of one document for a search that starts on
one and ends on the other; a Context of three chunks and a copy for every overlap
and duplicate the builder distinguishes, with budgets that hold some of them. Two
tasks, two Evidence ids and a text of two labels give every order, omission and
repetition of citations; a third label is one that was never given. Deadlock is
not checked: starts, requests and the clock are bounded, and all
these systems may be at rest.

Symmetry: requests and roots, handlers of one process, indexing calls and
identities are interchangeable. `answering` fixes one run's user and loop.
Liveness is checked without symmetry.

### Fairness

`messages`, `supervisor`, `ingestion` and `answering` use some; the other runs are
about safety.

* `AgentGateway` and `MessageRequest`: weak fairness of every call as a whole. The
  event loop runs every task that is ready, database statements and the pool have
  timeouts, providers and workers answer or time out. Not of crashes, of another
  request of the client, or of access to return.
* `SupervisorGraph`: weak fairness of the graph and of the calls' own steps, not of
  `CallEnds`: a worker may hang, and `asyncio.wait_for` has to end the call.
* `DoclingProcess`: the parent runs, time passes, and a write to the pipe that has
  begun goes on. The worker may be stuck anywhere else.
* `WorkerLoop`: the attempt's own steps, the passing of its deadline and the
  cancellation that follows; not the model's answers.
* `KnowledgeSearch`: weak fairness of a run's statements. `Resume` needs strong
  fairness: it is disabled whenever another run holds the loop, and asyncio's
  queue serves every task that is ready.

## 5. What is proved

Every safety invariant and every step property of a passing run is proved, for all
values of the constants that the named assumptions admit. An assumption says what
the code's settings or types enforce; the instances satisfy them all. Properties
that `MCMessageRequest`, `MCIngestion` and `MCAnswering` state of a component they
instantiate are proved of `StageSpec`, the specification of the run, from an
invariant of the component's own specification; those of the modules they extend
(`TextChunking`, `WorkerLoop`, `WorkerCall`) and of the other modules are proved of `Spec`.

**`AgentBudgetTreeProofs`** (`UnitsAssumption`, `IdsAssumption`,
`LimitsAssumption`): every finite set of children, tasks and evidence, all limits,
grants and restores.

* `TypeCorrect` and, from it, `DeadlinesNested`;
* `CapacityInvariant`: `CapacityInv == TypeOK /\ WithinGrant /\ NoOverbooking /\
  SpentStaysSpent` is inductive; `NeverOverbooked` and `SpentNeverRefunded`
  follow. `WithinGrant` (a child uses at most its grant) is what
  `NoOverbooking` lacks by itself: without it a child's consumption would not
  move units from reserved to used one by one, and closing could release less
  than was reserved. The lemmas `UseMovesSlots`, `AllocateReserves` and
  `CloseReleases` compute how a step changes the set of reserved slots, from
  `BlockCount` (the slots of a child between two numbers are as many as their
  difference);
* `EvidenceGrantAlwaysHonoured`: what is left of an open child's grant is part
  of what is reserved, so a set that fits the child fits the root;
* `ClosedStaysClosed`, by a case for each action, and `RepeatsAreBounded`.

**`AgentGatewayProofs`** (`SetsAssumption`, `BoundsAssumption`, `NoneAssumption`).
For any number of processes:

* `GatewayInvariant`. `GatewayInv` says of every call what it may rely on: one
  that executes a root `Owns` it (the root runs and nobody has added a checkpoint
  since the call's own), one that replays holds a checkpoint of the log that was
  neither running nor ended. `VersionsInv` and `RootsInv` tie versions and root
  rows to the log, `LoopInv` says which calls hold their event loop, `SavesInv`
  counts the checkpoints calls may still add. Every save compares the version it
  expects. `ReplayNotOwned` says what that is worth: a call that replays a
  checkpoint never owns the root, so that its denial of a root that another call
  executes is refused;
* `TypeCorrect`, `WaitingClaimable`, `RunningOwned` and `EndedStays`.

When one process runs the thread (`OneProcess`, a hypothesis of the theorems):

* `RequestsInvariant`: the calls also agree on every request. A request belongs to
  one root, and the newest checkpoint of an executed request is that of its root;
* `DeniedStays` and `GatewayImplementsLedger`: `LedgerStep` maps every step of the
  gateway to a step of `RequestLedger` or to a stutter.

The hypothesis is needed: with two processes TLC finds both properties violated.
Two calls of one request may both find no checkpoint of it; the database refuses a
second root only while the first is active, so that after the first has failed the
other call begins the request anew.

**`SupervisorGraphProofs`** (`BoundsAssumption`, `PlansAssumption`,
`NoneAssumption`): every number of tasks, every set of plans over them, all limits.
`GraphInv` has a part for each pair of things that must agree: plan and board
(`PlanInv`), batch, task states and calls (`BatchInv`), calls and rows (`CallsInv`),
dependencies of the batch (`DependenciesInv`), results and rows (`ResultsInv`), the
task that waits (`CurrentInv`), starts and resumes (`RunsInv`), final states and
the CHECK constraints of the rows (`SettledInv`), and that no row runs at rest
(`QuietInv`). The six safety invariants of the run follow from one or two parts
each. `CompletedStays`, that a completed task is not started again, needs three: no
call that is yet to start or to be recorded belongs to a completed row
(`CallsInv`), and a new plan takes the place of one whose rows have no result
(`PlanInv`, `EmptyInv`).

**`MessageRequestProofs`** (no assumption; any set of calls, any assignment of
calls to processes): `MessagesInvariant` and `MessagesMatchLedger`. `Knows(k)` says
what a call at each place knows of answers and rows, also of those it has staged;
both only grow (`Grow`), so that no other call can take that away, and the commit
makes true what `ThreadMatchesLedger` says.

**`DocumentIndexingProofs`** (`CallsAssumption`, `BoundsAssumption`,
`NoneAssumption`): every number of versions, every finite set of calls and of
embedding identities, every bound on calls and faults.

* `TypeCorrect`. `TypeOK` holds the types and the CHECK constraints between the
  columns. `TypeInv` adds what it lacks to be inductive: a call at work has a
  version and an identity;
* `ActiveAlwaysServed` and `ServesActiveIndex`. A lemma for each action but one
  shows that it satisfies `Kept`: the active version and every version's set
  stay, no ready parse or chunk set is taken back, and no set becomes ready or
  stops being ready. The exception, `CompleteIndexSet`, either does the same or
  `Publishes` one set. `NextKeepsOrPublishes` combines the lemmas; the invariant
  follows from the two cases, and under the refinement mapping `Kept` is a
  stutter and `Publishes` a step of `ActiveIndex`;
* `ClaimsExclude`. `OneWorker` says nothing about the rows, which decide the
  claims; `WorkInv` relates both. For each phase it names the versions whose rows
  are claimed (or have become ready in a commit that was reported as failed, whose
  call still works: `ParsingTaken`, `ChunkingTaken`), and says that a worker's
  version is among them and that no two workers share one. `StepExclusive` is the argument for one step of one phase:
  the call stays outside or inside, leaves and gives up at most its own version,
  or enters with a version that was not claimed. For indexing the last case needs
  that the claim looks at the sets of all identities;
* `ObjectsAlwaysMatchRows` and `QuietIsSettled`, both on top of `WorkInv`.
  `ObjectsInv` says for each kind of object that a ready row has its object, and
  that an object without a ready row belongs to a call that will complete or undo
  it, or to a lost version (`Backed`). The first has one exception, the keys in
  `unheard`. It needs that a call never deletes the object of any other ready row:
  whoever is about to undo has its version claimed, or its own row in `unheard`. `QuietInv` says the same of claims: a
  claimed row has a call at work, or its version is lost (`Attended`). `BackedStep`
  and its counterpart for claims are the argument for one step of one call.

**`IngestionProofs`** has the four stages of `MCIngestion`.

* `FileUpload` (`PartsAssumption`): `UploadInvariant`, `BatchesSettled`,
  `FilesServed`. `Counts`, `RowsFollow` and `ObjectsFollow` say, for each place of
  the code, how many parts have a row, an object and a registered compensation, so
  that what is left after an error is what the compensations will remove.
* `DoclingProcess`: `ParseInvariant`, `WholeResults`, `WorkersGone`, for every set
  of helpers. `StatusInv` and `ProcessInv` say what the parent's polls know.
* `TableChunking` (`TableAssumption`: the column groups are `Stretches`, one after
  the other without a gap): `TableInvariant`, `RowsArePacked`. The chunks own
  exactly the cells packed so far, the bands of a split row those of its finished
  groups (`Tiles`), and values have their headers (`Headed`). The hard part is
  `RepeatsInv`: after a row was split, `previous` names a row that no single chunk
  shows whole, and the next window would repeat it. It never does, because a row
  that does not fit alone does not fit with another one either (`Heavy`): sums are
  monotone (`TotalMonotone`).
* `TextChunking` (`ConfigAssumption`, what `ChunkingConfig` and `_chunk_group`
  enforce): `RepeatsItsPredecessor`, for every length, every assignment of
  boundaries and all sizes. The invariant `Inv` says that the chunks so far are the
  windows of their starts, each start computed from the window before.
  `WindowBounds` and `NextStartBounds` bound one window; `EndsMonotone` is the
  heart: a window that starts later ends no earlier, whatever kinds of boundary the
  two ends were chosen from, so that the repeated tokens are the last ones of the
  chunk before. `NoChunkWithinAnother` needs that half the target is longer than
  the overlap; without it a chunk can lie within its predecessor, and may overlap
  with the chunk before that. `ChunksAreLaidOut` needs half the target to be at
  least twice the overlap, which the default settings satisfy (a target of 600, an
  overlap of 100 and a heading context of at most 120): then a chunk overlaps with
  the one before it in what it declares and with no earlier one.

**`AnsweringProofs`** has the four stages of `MCAnswering`.

* `WorkerLoop` (`LimitsAssumption`): `LoopInvariant`, `PublishedIsAudited`,
  `CarryInvariant`, `ReferencesStored`, `OutcomeIsTrue`, for every set of Evidence
  and every number of decisions. `LoopInv` follows Evidence from the call that writes it
  (`StagedInv`, `StagedSeenInv`) over what the model has observed (`ObservedInv`)
  to the result and what is committed (`ResultInv`, `PublishedInv`), and counts
  audit rows and model calls (`RunningInv`). `InventoryInv` numbers the Evidence of the
  business-data worker by the calls that write it: what a failed call left behind is
  therefore nothing that an observation has seen, and no result names it. `CarryInv`
  adds that only a success brings Evidence; an attempt that gives up returns all it has
  seen, and this is none because giving up is accepted only when nothing has succeeded.
* `WorkerCall`: `AttemptImplementsCall`. An ended attempt takes no step
  (`EndedIsOver`), one that goes on shows nothing, and the result of one that ends
  is one `SupervisorGraph` knows and keeps as it is: a result that is not completed
  has no references for `RollbackSafe` to remove, and a completed one refers only to
  what is committed (`SeenOfCall`, from `LoopInv` and `CarryInv`).
* `KnowledgeSearch`: `SearchInvariant`, `SourcesStayHeld`, for any number of runs,
  users, documents and generations. `HeldInv` is `SourcesHeld` with types: the locks
  keep the world from changing a source between the last check and the commit, and
  waiting for other locks keeps two attempts apart.
* `ContextBuilding` (`ContextAssumption`): `ContextInvariant`,
  `ContextsAreFaithful`, for all routes, scores, layouts and budgets. Each of the
  three relations is shown to be an order (`Orders`); that the fused one is takes
  the comparison of fractions (`CrosswiseTransitive`, `SumGrows`). Then a member's
  place is the number of those before it (`PlacesDiffer`), and a cut keeps nothing
  that comes after what it drops (`CutKeepsFirst`). The selection renders and fits
  at every step, and the best anchor is considered first and fits
  (`OneFits`). Trimming is exact because of `LaidOut` (`SegmentsDisjoint`,
  `TokensShown`).
* `AnswerComposition` (no assumption): `AnswersAreSupported`. The property is
  decided when an answer is accepted, so `AnswerInv` says it of the answer's own
  Evidence; what is accepted was found because labels stand for distinct Evidence
  of the results (`LabelsInv`), and counts for its task because a result without
  references cannot pass for one with Evidence (`ResultsInv`).

**`FiniteSums`** has what these proofs need of `MapThenSumSet`, which folds a set in
an order nobody knows: a sum is independent of the order, grows by what is added,
and is monotone. The library's induction over sets takes an operator as parameter,
which no installed prover instantiates. The induction is on the size of a set
instead, by a counterexample of least size (`LeastNumber`, from `WFMin`), so that
everything stays first-order.

## 6. What is only model-checked, and what is left out

Liveness, which is out of the prover's reach, is checked on the instances only:
`RunningRootSettles` and `CallReturns` (`messages`), `GraphReturns` (`supervisor`),
`ParseReturns` (`ingestion`), `AttemptEnds` and `RunEnds` (`answering`).

Limits of what is proved: `DeniedStaysDenied` and `ImplementsLedger` are theorems
about one process only, and runs check them there only. `MessageRequest` runs over
`RequestLedger`, and so does what is proved of it. `EndedStays` is proved of
`AgentGateway`, of which the second stage of `MCServerProcesses` is an instance.
`ContextAssumption` speaks of chunks of texts: the chunks of a table with a split
row may declare an overlap that is none (`tables_overlap`), and chunks that were
cut under larger limits may exceed a Context's. Of the
modules that describe one path at different granularities, `AgentGateway` and `MessageRequest` are
joined by a theorem about the ledger, `TextChunking` and `ContextBuilding` by one about
layouts, `WorkerLoop` and `SupervisorGraph` by one about the call. `AnswerComposition`
starts from results with references for answers only, as `ReferencesStored` says of
an attempt, and as many as a task requires, as `Rejected` of `SupervisorGraph` says
for one; that these are all is argued and not proved, like the joints between
`FileUpload`, `DoclingProcess`, `TableChunking` and `DocumentIndexing` and between
`AgentGateway` and `SupervisorGraph`.

Left out of the modules that exist:

* the text of messages, plans and documents, the contents of memories, the
  redaction and hashing of arguments; of an answer only the labels in its text;
* what a statement costs: durations are flags or small numbers;
* the repeated-action and no-progress limits of the supervisor, each of which
  ends in a failure the graph may have anyway;
* `activate_version`, `soft_delete_document` and the manual state transitions of
  `services/documents/service.py`, which no route calls, and the audit of access
  changes;
* more than one chunk configuration, and the month in an object's key: a retry in
  another month writes a new object and does not meet the old one;
* the random ids that break ties between chunks of equal score (an order of the
  model's chunks instead), and the test of `_can_compose_partial` that a result has
  contents: what either worker returns as answered or partial has some;
* vector distances, lexical scores and reranker scores, which are arbitrary ranks,
  and the resource usage an answer adds to the run's counters.

A claim of the document pipeline has no lease. A process that dies, or a failure
record that is lost, leaves the version claimed; the records of that stage admit
it. `SettledWhenQuiet`, and `ObjectsMatchRows` where it speaks of objects without a
row, are therefore about versions at which this has not happened, the other
properties about all.

### Not modelled

* `evals/`: batch scripts that score recorded answers, outside of the service and
  half of the lines of the repository.
* The native parsers, the heuristics that find headings and repeated page edges,
  and the quality scores: they compute data from bytes and have no states.
* Prompts, transport and schemas of the language models: what a model may answer
  is nondeterministic wherever one is asked.
* The services for memory, knowledge, products and inventory, the other routes and
  the authentication: one transaction each, or projections of rows.
* The inventory graph of the first milestone with its flat `ExecutionBudget`: the
  message route does not use it any more, and the budget is a sequential special
  case of the budget tree.
* The prototype (`agent/`, `api/`, `tools/` at the top level), the scripts and the
  front end.

The modelled lines are therefore a small part of the repository: most of it is
evaluation code, schemas and single-transaction services.

## 7. Running it

    tlc -workers 2 -config MCAgentBudgetTree.cfg MCAgentBudgetTree.tla
    tlc -workers 2 -config MCServerProcesses.cfg MCServerProcesses.tla
    tlc -workers 2 -config MCIngestion.cfg MCIngestion.tla
    tlc -workers 2 -config MCAnswering.cfg MCAnswering.tla
    tlc -workers 2 -config MCMessageRequest.cfg MCMessageRequest.tla
    tlapm AgentBudgetTreeProofs.tla
    tlapm AgentGatewayProofs.tla
    tlapm SupervisorGraphProofs.tla
    tlapm MessageRequestProofs.tla
    tlapm DocumentIndexingProofs.tla
    tlapm IngestionProofs.tla
    tlapm AnsweringProofs.tla
    tlapm FiniteSums.tla

`PROJECT.json` lists every run with its module, configuration and expected
outcome.
