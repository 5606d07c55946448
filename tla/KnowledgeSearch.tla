--------------------------- MODULE KnowledgeSearch ---------------------------
(***************************************************************************)
(* Knowledge searches of several agent runs over documents that are        *)
(* published, granted, revoked and deleted meanwhile: hybrid retrieval,    *)
(* reranking, rehydration of the context windows and the persistence of    *)
(* the Context with its Evidence (services/retrieval, services/evidence,   *)
(* repositories/retrieval), up to the summaries the HTTP reply shows.      *)
(*                                                                         *)
(* Every statement sees what is committed when it runs, so the world may   *)
(* change between any two of them.  The last one before the Evidence is    *)
(* written locks its rows FOR UPDATE, and the worker's transaction keeps   *)
(* those locks while the worker awaits its next model decision.  Runs      *)
(* served by one process share an event loop on which database calls are   *)
(* synchronous: a call that waits for a lock stops the whole loop.         *)
(*                                                                         *)
(* A source is a document with the generation (version and index set) its  *)
(* chunks belong to; chunk texts and scores are left to ContextBuilding.   *)
(***************************************************************************)
EXTENDS Naturals, FiniteSets

CONSTANTS Runs, Users, Loops, Docs, MaxGeneration, None

VARIABLES
    userOf, loopOf,  \* whose run it is, and the event loop that executes it
    active,          \* the published generation of each document, 0 if none
    readers,         \* the users document_access_clause lets read it
    live,            \* neither the document nor its file is soft deleted
    turn,            \* the run each event loop is executing, None when free
    pc,
    hits,            \* sources found so far
    context,         \* sources of the built context
    staged,          \* sources of the Evidence written in an open transaction
    cited            \* sources of the Evidence the committed attempt returned

world == <<active, readers, live>>
fixed == <<userOf, loopOf>>
vars == <<fixed, world, turn, pc, hits, context, staged, cited>>

(* authorized_active_chunks_statement: what a statement of u sees now. *)
Visible(u) == {<<d, active[d]>> : d \in
                 {x \in Docs : active[x] > 0 /\ live[x] /\ u \in readers[x]}}

Sees(r) == Visible(userOf[r])

(* Rows a transaction has locked: the documents of its staged Evidence. *)
Locked(r) == {s[1] : s \in staged[r]}

LockedByOther(r, docs) == \E q \in Runs \ {r} : Locked(q) \cap docs # {}

-----------------------------------------------------------------------------
At(r, label) == pc[r] = label /\ turn[loopOf[r]] = r

Goto(r, label) == pc' = [pc EXCEPT ![r] = label]

(* The call returns; the coroutine awaits and the event loop is free. *)
Await(r, label) ==
    /\ Goto(r, label)
    /\ turn' = [turn EXCEPT ![loopOf[r]] = None]

Stay == UNCHANGED turn

(* The Tool reports an error; the worker goes on to its next decision. *)
ToolFails(r) ==
    /\ Await(r, "decide")
    /\ hits' = [hits EXCEPT ![r] = {}]
    /\ context' = [context EXCEPT ![r] = {}]
    /\ UNCHANGED <<staged, cited>>

(* An awaiting coroutine is resumed when its event loop is free. *)
Awaiting == {"start", "decide", "answer"}

Resume(r) ==
    /\ pc[r] \in Awaiting
    /\ turn[loopOf[r]] = None
    /\ turn' = [turn EXCEPT ![loopOf[r]] = r]
    /\ Goto(r, CASE pc[r] = "start" -> "dense"
                 [] pc[r] = "decide" -> "settle"
                 [] pc[r] = "answer" -> "summaries")
    /\ UNCHANGED <<fixed, world, hits, context, staged, cited>>

(* DenseRetrievalService, then LexicalRetrievalService: two statements. *)
Dense(r) ==
    /\ At(r, "dense")
    /\ \/ \E found \in SUBSET Sees(r) :
             /\ hits' = [hits EXCEPT ![r] = found]
             /\ Goto(r, "lexical")
             /\ Stay
             /\ UNCHANGED <<context, staged, cited>>
       \/ ToolFails(r)
    /\ UNCHANGED <<fixed, world>>

OneGeneration(sources) ==
    \A s, t \in sources : s[1] = t[1] => s = t

(* The routes are fused; conflicting generations are an internal error. *)
Lexical(r) ==
    /\ At(r, "lexical")
    /\ \/ \E found \in SUBSET Sees(r) :
             /\ OneGeneration(hits[r] \cup found)
             /\ hits' = [hits EXCEPT ![r] = @ \cup found]
             /\ Goto(r, "rerank")
             /\ Stay
             /\ UNCHANGED <<context, staged, cited>>
       \/ ToolFails(r)
    /\ UNCHANGED <<fixed, world>>

(* The Reranker keeps a part of the candidates, or is unavailable. *)
Rerank(r) ==
    /\ At(r, "rerank")
    /\ \/ \E kept \in SUBSET hits[r] :
             /\ hits[r] # {} => kept # {}
             /\ hits' = [hits EXCEPT ![r] = kept]
             /\ Goto(r, "rehydrate")
             /\ Stay
             /\ UNCHANGED <<context, staged, cited>>
       \/ ToolFails(r)
    /\ UNCHANGED <<fixed, world>>

(* rehydrate_context_windows and build: every anchor must still be         *)
(* visible; the selection may leave candidates out but never all of them.  *)
Rehydrate(r) ==
    /\ At(r, "rehydrate")
    /\ IF hits[r] \subseteq Sees(r)
       THEN \E chosen \in SUBSET hits[r] :
               /\ hits[r] # {} => chosen # {}
               /\ context' = [context EXCEPT ![r] = chosen]
               /\ Goto(r, "persist")
               /\ Stay
               /\ UNCHANGED <<hits, staged, cited>>
       ELSE ToolFails(r)
    /\ UNCHANGED <<fixed, world>>

(* Two transactions that insert the same Context wait for each other. *)
SameContext(r) ==
    \E q \in Runs \ {r} :
       /\ pc[q] \in {"decide", "settle"}
       /\ userOf[q] = userOf[r]
       /\ context[q] = context[r]

Blocked(r) ==
    \/ LockedByOther(r, {s[1] : s \in context[r]})
    \/ SameContext(r)

\* Mutant: the sources are checked again but not locked.
Persist_WithoutLock(r) ==
    /\ At(r, "persist")
    /\ IF context[r] \subseteq Sees(r)
       THEN /\ staged' = [staged EXCEPT ![r] = context[r]]
            /\ Await(r, "decide")
            /\ UNCHANGED <<hits, context, cited>>
       ELSE ToolFails(r)
    /\ UNCHANGED <<fixed, world>>

(* persist_document_context: reauthorize under lock, then write; any other *)
(* failure rolls the savepoint back and with it the locks.                 *)
Persist(r) ==
    /\ At(r, "persist")
    /\ ~Blocked(r)
    /\ \/ /\ context[r] \subseteq Sees(r)
          /\ staged' = [staged EXCEPT ![r] = context[r]]
          /\ Await(r, "decide")
          /\ UNCHANGED <<hits, context, cited>>
       \/ ToolFails(r)
    /\ UNCHANGED <<fixed, world>>

\* Mutant: the statement waits for the lock as long as it takes.
StatementTimeout_Never(r) ==
    /\ FALSE
    /\ UNCHANGED <<fixed, world>>

(* A statement that waits for a lock is cancelled by statement_timeout. *)
StatementTimeout(r) ==
    /\ At(r, "persist")
    /\ Blocked(r)
    /\ ToolFails(r)
    /\ UNCHANGED <<fixed, world>>

(* The worker's attempt ends: commit with its references, or rollback. *)
Settle(r) ==
    /\ At(r, "settle")
    /\ \/ /\ cited' = [cited EXCEPT ![r] = staged[r]]
          /\ Await(r, "answer")
       \/ /\ Await(r, "failed")
          /\ UNCHANGED cited
    /\ staged' = [staged EXCEPT ![r] = {}]
    /\ hits' = [hits EXCEPT ![r] = {}]
    /\ UNCHANGED <<fixed, world, context>>

(* get_agent_summaries: each Evidence is authorized again on its own, in   *)
(* the session that also holds the two messages; one refusal and the whole *)
(* reply is lost although the run has completed.                           *)
Summaries(r) ==
    /\ At(r, "summaries")
    /\ IF cited[r] \subseteq Sees(r) THEN Await(r, "served") ELSE Await(r, "failed")
    /\ UNCHANGED <<fixed, world, hits, context, staged, cited>>

(* The process dies: its transactions are rolled back. *)
Crash(l) ==
    /\ \E r \in Runs : loopOf[r] = l /\ pc[r] \notin {"served", "failed"}
    /\ pc' = [r \in Runs |->
                IF loopOf[r] = l /\ pc[r] # "served" THEN "failed" ELSE pc[r]]
    /\ staged' = [r \in Runs |-> IF loopOf[r] = l THEN {} ELSE staged[r]]
    /\ turn' = [turn EXCEPT ![l] = None]
    /\ UNCHANGED <<fixed, world, hits, context, cited>>

-----------------------------------------------------------------------------
(* Other transactions.  Publication and deletion update rows a search may  *)
(* have locked and wait for it; access list rows are not among them.       *)
Unlocked(d) == \A r \in Runs : d \notin Locked(r)

Publish(d) ==
    /\ Unlocked(d)
    /\ active[d] < MaxGeneration
    /\ active' = [active EXCEPT ![d] = @ + 1]
    /\ UNCHANGED <<fixed, readers, live, turn, pc, hits, context, staged, cited>>

SoftDelete(d) ==
    /\ Unlocked(d)
    /\ live[d]
    /\ live' = [live EXCEPT ![d] = FALSE]
    /\ UNCHANGED <<fixed, active, readers, turn, pc, hits, context, staged, cited>>

GrantAcl(d, u) ==
    /\ u \notin readers[d]
    /\ readers' = [readers EXCEPT ![d] = @ \cup {u}]
    /\ UNCHANGED <<fixed, active, live, turn, pc, hits, context, staged, cited>>

(* An operator removes an access list row; no route of the API does. *)
Revoke(d, u) ==
    /\ u \in readers[d]
    /\ readers' = [readers EXCEPT ![d] = @ \ {u}]
    /\ UNCHANGED <<fixed, active, live, turn, pc, hits, context, staged, cited>>

-----------------------------------------------------------------------------
Init ==
    /\ userOf \in [Runs -> Users]
    /\ loopOf \in [Runs -> Loops]
    /\ active = [d \in Docs |-> 1]
    /\ readers \in [Docs -> {Users, {}}]
    /\ live = [d \in Docs |-> TRUE]
    /\ turn = [l \in Loops |-> None]
    /\ pc = [r \in Runs |-> "start"]
    /\ hits = [r \in Runs |-> {}]
    /\ context = [r \in Runs |-> {}]
    /\ staged = [r \in Runs |-> {}]
    /\ cited = [r \in Runs |-> {}]

Steps(r) ==
    \/ Dense(r) \/ Lexical(r) \/ Rerank(r) \/ Rehydrate(r)
    \/ Persist(r) \/ StatementTimeout(r) \/ Settle(r) \/ Summaries(r)

World ==
    \/ \E d \in Docs : Publish(d) \/ SoftDelete(d)
    \/ \E d \in Docs, u \in Users : GrantAcl(d, u) \/ Revoke(d, u)
    \/ \E l \in Loops : Crash(l)

Next == (\E r \in Runs : Resume(r) \/ Steps(r)) \/ World

(* Calls return, blocked statements time out, and the event loop resumes   *)
(* every awaiting coroutine: the model answers or its call times out.      *)
Fairness == \A r \in Runs : WF_vars(Steps(r)) /\ SF_vars(Resume(r))

Spec == Init /\ [][Next]_vars /\ Fairness

-----------------------------------------------------------------------------
(* While Evidence is written but not committed, nobody can replace or      *)
(* delete its sources, and no other search holds them: what the attempt    *)
(* commits is the generation that is published when it commits.            *)
SourcesHeld ==
    \A r \in Runs :
       /\ \A s \in staged[r] : active[s[1]] = s[2] /\ live[s[1]]
       /\ ~LockedByOther(r, Locked(r))

(* Every run ends, although a search may wait for the locks of another one *)
(* that only the blocked event loop could let go on.                       *)
RunEnds == \A r \in Runs : <>(pc[r] \in {"served", "failed"})
===============================================================================
