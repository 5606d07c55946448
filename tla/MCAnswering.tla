------------------------------ MODULE MCAnswering ------------------------------
(***************************************************************************)
(* What stands behind one answer, side by side: an attempt of a worker,    *)
(* the knowledge searches of two runs over documents that change, the      *)
(* Context one search builds, and the answer composed of what the workers  *)
(* found.  Each abstracts what the others detail (an operation of          *)
(* WorkerLoop is a whole search, a hit of KnowledgeSearch has no text, a   *)
(* result of AnswerComposition is a whole attempt), so an execution of     *)
(* this instance is an execution of one of them.                           *)
(***************************************************************************)
EXTENDS WorkerCall

CONSTANTS Runs, Users, Loops, Docs, MaxGeneration,
          Layout, RouteDepth, Scores, RrfK, CandidateCount, TopK, MaxTokens,
          MaxSegments,
          Cited, TaskCount, MaxLabels, MaxText, MaxAnswerCalls

VARIABLES
    stage,                                              \* the one that runs
    userOf, loopOf, active, readers, live, turn,        \* KnowledgeSearch
    searchPc, hits, context, stagedSources, cited,
    routes, score, fused, results, pending, selected,   \* ContextBuilding
    bundle, contextPc,
    required, workerResults, capacity, composePc,       \* AnswerComposition
    candidates, attempt, answer, rows

searchVars == <<userOf, loopOf, active, readers, live, turn,
                searchPc, hits, context, stagedSources, cited>>
contextVars == <<routes, score, fused, results, pending, selected, bundle, contextPc>>
answerVars == <<required, workerResults, capacity, composePc, candidates, attempt,
                answer, rows>>

Search == INSTANCE KnowledgeSearch WITH pc <- searchPc, staged <- stagedSources
Context == INSTANCE ContextBuilding WITH pc <- contextPc
Composition == INSTANCE AnswerComposition WITH
                 Evidence <- Cited, MaxModelCalls <- MaxAnswerCalls,
                 results <- workerResults, pc <- composePc

\* A document of three overlapping chunks, and a copy of its beginning.
MCLayout ==
    <<[text |-> "t", chunks |-> <<[first |-> 1, last |-> 3, repeats |-> 0],
                                  [first |-> 3, last |-> 5, repeats |-> 1],
                                  [first |-> 5, last |-> 6, repeats |-> 1]>>],
      [text |-> "t", chunks |-> <<[first |-> 1, last |-> 3, repeats |-> 0]>>]>>

\* What TextChunking makes of a document, for sizes and an overlap far enough
\* apart: every chunk has text of its own, overlaps with the chunk before it in
\* what it repeats and with no earlier one, and fits into an empty Context.
LaidOut(chunks) ==
    /\ chunks \in Seq([first : Nat, last : Nat, repeats : Nat])
    /\ \A i \in DOMAIN chunks :
         /\ chunks[i].first + chunks[i].repeats <= chunks[i].last
         /\ chunks[i].last + 1 <= chunks[i].first + MaxTokens
         /\ i > 1 =>
              /\ chunks[i - 1].first <= chunks[i].first
              /\ chunks[i - 1].last < chunks[i].first + chunks[i].repeats
              /\ chunks[i].repeats > 0 =>
                   chunks[i - 1].last + 1 = chunks[i].first + chunks[i].repeats
         /\ \A j \in 1..i - 2 : chunks[j].last < chunks[i].first

ASSUME ContextAssumption ==
    /\ {RrfK, CandidateCount, TopK, MaxTokens} \subseteq Nat
    /\ MaxSegments \in Nat \ {0}
    /\ Scores \subseteq Nat
    /\ DOMAIN Layout \subseteq Nat
    /\ \A doc \in DOMAIN Layout : LaidOut(Layout[doc].chunks)

-----------------------------------------------------------------------------
\* The variables of a stage that does not run.
Idle == "idle"

IdleWorker ==
    /\ worker = "knowledge" /\ forbidden = {} /\ deadline = "ahead"
    /\ pc = "crashed" /\ decisions = 0 /\ signatures = {}
    /\ action = None /\ outcome = None /\ observations = <<>>
    /\ reserved = [models |-> 0, tools |-> 0] /\ counted = 0
    /\ calls = <<>> /\ lost = FALSE /\ staged = {} /\ aborted = FALSE
    /\ committed = {} /\ result = None

IdleSearch ==
    /\ userOf = Idle /\ loopOf = Idle /\ active = Idle /\ readers = Idle
    /\ live = Idle /\ turn = Idle /\ searchPc = [r \in Runs |-> "failed"]
    /\ hits = Idle /\ context = Idle /\ stagedSources = Idle /\ cited = Idle

IdleContext ==
    /\ routes = Idle /\ score = Idle /\ fused = Idle /\ results = Idle
    /\ pending = Idle /\ selected = Idle /\ bundle = Idle /\ contextPc = Idle

IdleAnswer ==
    /\ required = Idle /\ workerResults = Idle /\ capacity = Idle
    /\ composePc = Idle /\ candidates = Idle /\ attempt = Idle
    /\ answer = Idle /\ rows = Idle

\* Users and event loops are interchangeable: one run's are fixed.
OneOf(S) == CHOOSE x \in S : TRUE

SearchInit ==
    /\ Search!Init
    /\ userOf[OneOf(Runs)] = OneOf(Users)
    /\ loopOf[OneOf(Runs)] = OneOf(Loops)

StageInit ==
    \/ stage = "worker" /\ Init /\ IdleSearch /\ IdleContext /\ IdleAnswer
    \/ stage = "search" /\ SearchInit /\ IdleWorker /\ IdleContext /\ IdleAnswer
    \/ stage = "context" /\ Context!Init /\ IdleWorker /\ IdleSearch /\ IdleAnswer
    \/ stage = "answer" /\ Composition!Init /\ IdleWorker /\ IdleSearch /\ IdleContext

Works == stage = "worker" /\ UNCHANGED <<stage, searchVars, contextVars, answerVars>>

Searches == stage = "search" /\ UNCHANGED <<stage, vars, contextVars, answerVars>>

ContextNext ==
    stage = "context" /\ Context!Next /\ UNCHANGED <<stage, vars, searchVars, answerVars>>

AnswerNext ==
    stage = "answer" /\ Composition!Next
      /\ UNCHANGED <<stage, vars, searchVars, contextVars>>

StageNext == (Works /\ Next) \/ (Searches /\ Search!Next) \/ ContextNext \/ AnswerNext

stageVars == <<stage, vars, searchVars, contextVars, answerVars>>

\* The fairness of WorkerLoop and of KnowledgeSearch.
StageSpec ==
    /\ StageInit /\ [][StageNext]_stageVars
    /\ WF_stageVars(Works /\ Loop)
    /\ WF_stageVars(Works /\ DeadlinePasses)
    /\ WF_stageVars(Works /\ Cancelled)
    /\ \A r \in Runs : /\ WF_stageVars(Searches /\ Search!Steps(r))
                       /\ SF_stageVars(Searches /\ Search!Resume(r))

-----------------------------------------------------------------------------
\* What an attempt commits is published when it commits.
SourcesHeld == stage = "search" => Search!SourcesHeld

\* A run that searches ends.
RunEnds == Search!RunEnds

\* The Context shows the best anchor, nothing twice and nothing incomplete.
ContextIsFaithful == stage = "context" => Context!ContextIsFaithful

\* A stored answer names Evidence that was found, and all that is required.
AnswerIsSupported == stage = "answer" => Composition!AnswerIsSupported
================================================================================
