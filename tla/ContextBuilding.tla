--------------------------- MODULE ContextBuilding ---------------------------
(***************************************************************************)
(* From two ranked routes to the numbered Context a model may cite: rank   *)
(* fusion (hybrid), reranking, and the Context Builder's selection among   *)
(* the anchors and their neighbours, deduplication, overlap trimming,      *)
(* budgets and order (services/retrieval).                                 *)
(*                                                                         *)
(* The chunks are those of one published generation per document, already  *)
(* authorized (KnowledgeSearch has what may change between statements).  A *)
(* chunk is a stretch of its document's tokens; two documents may have the *)
(* same text.  What a chunk declares to repeat is its first tokens and the *)
(* last ones of the chunk before it (TextChunking proves that it is).      *)
(***************************************************************************)
EXTENDS Naturals, SequencesExt, FiniteSetsExt

CONSTANTS Layout, RouteDepth, Scores, RrfK, CandidateCount, TopK,
          MaxTokens, MaxSegments

(* Layout[doc] has the document's text and the chunks' [first, last, repeats]. *)
Chunks == UNION {{<<doc, i>> : i \in DOMAIN Layout[doc].chunks} :
                   doc \in DOMAIN Layout}

Facts(c) == Layout[c[1]].chunks[c[2]]

VARIABLES
    routes,     \* <<dense, lexical>>: the chunks each route found, best first
    score,      \* the reranker's normalized score of each chunk
    fused,      \* the hybrid candidates
    results,    \* the reranked anchors
    pending,    \* candidates the builder has still to consider
    selected,
    bundle,     \* the segments [chunk, first] in reading order
    pc

vars == <<routes, score, fused, results, pending, selected, bundle, pc>>

-----------------------------------------------------------------------------
Hits == ToSet(routes[1]) \cup ToSet(routes[2])

RankIn(route, c) ==
    IF c \in ToSet(route) THEN CHOOSE i \in DOMAIN route : route[i] = c ELSE 0

(* 1 / (k + rank), or nothing: a fraction <<numerator, denominator>> *)
Share(route, c) ==
    IF c \in ToSet(route) THEN <<1, RrfK + RankIn(route, c)>> ELSE <<0, 1>>

RrfScore(c) ==
    LET d == Share(routes[1], c)
        l == Share(routes[2], c)
    IN <<d[1] * l[2] + l[1] * d[2], d[2] * l[2]>>

Greater(x, y) == x[1] * y[2] > y[1] * x[2]

(* Chunk identifiers are compared last. *)
IdBefore(c, d) ==
    \/ c[1] < d[1]
    \/ c[1] = d[1] /\ c[2] < d[2]

\* Mutant: the lexical route's rank replaces the dense one.
FusedBefore_LastRoute(c, d) ==
    LET s(x) == IF x \in ToSet(routes[2]) THEN Share(routes[2], x)
                ELSE Share(routes[1], x)
    IN Greater(s(c), s(d)) \/ (~Greater(s(d), s(c)) /\ IdBefore(c, d))

FusedBefore(c, d) ==
    \/ Greater(RrfScore(c), RrfScore(d))
    \/ ~Greater(RrfScore(d), RrfScore(c)) /\ IdBefore(c, d)

FusedOrder == {p \in Hits \X Hits : FusedBefore(p[1], p[2])}

(* The members of S in the order R: as many come before a member as its    *)
(* place says.                                                             *)
Before(S, R, c) == {d \in S : <<d, c>> \in R}

Sorted(S, R) ==
    [i \in 1..Cardinality(S) |->
       CHOOSE c \in S : Cardinality(Before(S, R, c)) = i - 1]

FirstOf(s, n) == SubSeq(s, 1, IF Len(s) < n THEN Len(s) ELSE n)

RerankedBefore(c, d) ==
    \/ score[c] > score[d]
    \/ score[c] = score[d] /\ RankIn(fused, c) < RankIn(fused, d)

RerankedOrder ==
    {p \in ToSet(fused) \X ToSet(fused) : RerankedBefore(p[1], p[2])}

-----------------------------------------------------------------------------
(* rehydrate_context_windows: an anchor and the chunks next to it. *)
Window(c) == {c, <<c[1], c[2] - 1>>, <<c[1], c[2] + 1>>} \cap Chunks

InWindows(anchors) == UNION {Window(anchors[i]) : i \in DOMAIN anchors}

(* A chunk stands in the first window that has it. *)
WindowOf(anchors, c) ==
    CHOOSE i \in DOMAIN anchors :
       /\ c \in Window(anchors[i])
       /\ \A j \in 1..i - 1 : c \notin Window(anchors[j])

(* Window by window, previous before next. *)
WindowOrder(anchors) ==
    {p \in InWindows(anchors) \X InWindows(anchors) :
       LET i == WindowOf(anchors, p[1])
           j == WindowOf(anchors, p[2])
       IN i < j \/ (i = j /\ p[1][2] < p[2][2])}

(* _priority_candidates: every anchor, then the neighbours by anchor. *)
Candidates(anchors) ==
    anchors \o Sorted(InWindows(anchors) \ ToSet(anchors), WindowOrder(anchors))

\* Mutant: the overlap is trimmed although nobody shows the text.
FirstShown_Always(c, chosen) == Facts(c).first + Facts(c).repeats

(* _trim_overlap: only when the chunk before it is selected as well. *)
FirstShown(c, chosen) ==
    IF Facts(c).repeats > 0 /\ <<c[1], c[2] - 1>> \in chosen
    THEN Facts(c).first + Facts(c).repeats
    ELSE Facts(c).first

Text(c, first) == <<Layout[c[1]].text, first, Facts(c).last>>

RawText(c) == Text(c, Facts(c).first)

ShownText(c, chosen) == Text(c, FirstShown(c, chosen))

TokenCount(c, chosen) == Facts(c).last + 1 - FirstShown(c, chosen)

(* _render_candidates succeeds: no segment is empty and no two are equal. *)
Renders(chosen) ==
    /\ \A c \in chosen : FirstShown(c, chosen) <= Facts(c).last
    /\ \A c, d \in chosen : ShownText(c, chosen) = ShownText(d, chosen) => c = d

TotalTokens(chosen) ==
    LET tokens == [c \in chosen |-> TokenCount(c, chosen)]
    IN MapThenSumSet(LAMBDA c : tokens[c], chosen)

WithinBudget(chosen) ==
    /\ Cardinality(chosen) <= MaxSegments
    /\ TotalTokens(chosen) <= MaxTokens

(* A candidate is taken if its text is new and the whole trial still fits. *)
Takes(chosen, c) ==
    /\ \A d \in chosen : RawText(d) # RawText(c)
    /\ Renders(chosen \cup {c})
    /\ WithinBudget(chosen \cup {c})

(* _natural_order: window by window, previous, anchor, next. *)
ReadingOrder(anchors, chosen) == Sorted(chosen, WindowOrder(anchors))

-----------------------------------------------------------------------------
(* A route returns each chunk once, up to its candidate depth. *)
Rankings ==
    {r \in UNION {[1..n -> Chunks] : n \in 0..RouteDepth} : IsInjective(r)}

Init ==
    /\ routes \in Rankings \X Rankings
    /\ score \in [Chunks -> Scores]
    /\ fused = <<>> /\ results = <<>> /\ pending = <<>> /\ bundle = <<>>
    /\ selected = {}
    /\ pc = "fuse"

Fuse ==
    /\ pc = "fuse"
    /\ fused' = FirstOf(Sorted(Hits, FusedOrder), CandidateCount)
    /\ pc' = "rerank"
    /\ UNCHANGED <<routes, score, results, pending, selected, bundle>>

Rerank ==
    /\ pc = "rerank"
    /\ results' = FirstOf(Sorted(ToSet(fused), RerankedOrder), TopK)
    /\ pending' = Candidates(results')
    /\ pc' = "select"
    /\ UNCHANGED <<routes, score, fused, selected, bundle>>

Consider ==
    /\ pc = "select" /\ pending # <<>>
    /\ LET c == Head(pending)
       IN selected' = IF Takes(selected, c) THEN selected \cup {c} ELSE selected
    /\ pending' = Tail(pending)
    /\ UNCHANGED <<routes, score, fused, results, bundle, pc>>

(* A non-empty result without any segment is a data contract error. *)
Build ==
    /\ pc = "select" /\ pending = <<>>
    /\ IF results # <<>> /\ selected = {}
       THEN pc' = "refused" /\ UNCHANGED bundle
       ELSE /\ pc' = "built"
            /\ bundle' = LET order == ReadingOrder(results, selected)
                         IN [i \in DOMAIN order |->
                               [chunk |-> order[i],
                                first |-> FirstShown(order[i], selected)]]
    /\ UNCHANGED <<routes, score, fused, results, pending, selected>>

Next == Fuse \/ Rerank \/ Consider \/ Build

Spec == Init /\ [][Next]_vars

-----------------------------------------------------------------------------
(* The tokens of its document a segment shows. *)
Shows(segment) == segment.first..Facts(segment.chunk).last

Segments(doc) == {i \in DOMAIN bundle : bundle[i].chunk[1] = doc}

(* No token of a selected chunk is lost or shown twice: trimming takes     *)
(* away exactly what the segment of the previous chunk shows.              *)
ShownExactlyOnce ==
    \A doc \in DOMAIN Layout :
       /\ \A i, j \in Segments(doc) : i # j => Shows(bundle[i]) \cap Shows(bundle[j]) = {}
       /\ UNION {Shows(bundle[i]) : i \in Segments(doc)}
            = UNION {Facts(c).first..Facts(c).last :
                       c \in {x \in selected : x[1] = doc}}

(* The best anchor is always quoted, itself or as an equal text: a chunk   *)
(* never exceeds the budget alone, so a result never ends in a refusal.    *)
BestAnchorShown ==
    /\ pc # "refused"
    /\ results # <<>> => \E c \in selected : RawText(c) = RawText(results[1])

(* d is no better than c on either route and worse on one. *)
Dominates(c, d) ==
    LET atLeast(route) == \/ RankIn(route, d) = 0
                          \/ RankIn(route, c) \in 1..RankIn(route, d)
    IN c # d /\ atLeast(routes[1]) /\ atLeast(routes[2])

(* A chunk that both routes rank before another one is not cut while the   *)
(* other is kept, and the reranker drops none for a lower score.           *)
RankingIsFair ==
    /\ pc # "fuse" => \A c, d \in Hits :
          Dominates(c, d) /\ d \in ToSet(fused) =>
             RankIn(fused, c) \in 1..RankIn(fused, d) - 1
    /\ pc \notin {"fuse", "rerank"} => \A c, d \in ToSet(fused) :
          d \in ToSet(results) /\ score[c] > score[d] =>
             RankIn(results, c) \in 1..RankIn(results, d) - 1

(* The Context shows the best of what both routes found, within both       *)
(* budgets, without repetition or gaps, and never without the best anchor. *)
ContextIsFaithful ==
    /\ RankingIsFair
    /\ pc \in {"built", "refused"} =>
          WithinBudget(selected) /\ ShownExactlyOnce /\ BestAnchorShown
===============================================================================
