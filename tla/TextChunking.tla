---------------------------- MODULE TextChunking ----------------------------
(***************************************************************************)
(* The overlapping windows a heading group of a document is cut into       *)
(* (StructureAwareTextChunker._chunk_group, _window_end).                   *)
(*                                                                         *)
(* The group is a row of Length tokens.  marks[i] are the kinds of         *)
(* boundary found after token i: a sentence or clause mark is a token of   *)
(* its own, a paragraph break or a space is the gap behind the token.      *)
(* Target and Hard are what the heading context leaves of the configured   *)
(* target_tokens and max_tokens.                                           *)
(***************************************************************************)
EXTENDS Naturals, Sequences

CONSTANTS Length, Target, Hard, Overlap, Marks

ASSUME ConfigAssumption ==
    /\ Length \in Nat \ {0}
    /\ Marks \subseteq SUBSET (1..4)
    /\ Overlap \in Nat /\ Target \in Nat /\ Hard \in Nat
    /\ Overlap >= 1              \* ChunkingConfig: overlap_tokens >= 80
    /\ Overlap < Target          \* _chunk_group refuses a longer heading
    /\ Target <= Hard            \* ChunkingConfig: target <= max

VARIABLES
    marks,    \* kinds of boundary after each token
    start,    \* the next window's first token
    chunks,   \* the chunks built so far
    pc        \* "running", "done", or "raised" (DocumentChunkingError)

vars == <<marks, start, chunks, pc>>

Tokens == 1..Length

Kinds == 1..4      \* _BOUNDARY_PATTERNS: paragraph, sentence, clause, space
Gaps == {1, 4}

(* A chunk's tokens and how many of them it declares to repeat. *)
ChunkType == [first: Tokens, last: Tokens, overlap: Nat]

-----------------------------------------------------------------------------
(* The earliest token a window that starts at s may end with. *)
Minimum(s) == s + (IF Target \div 2 > 1 THEN Target \div 2 ELSE 1) - 1

(* Where pattern.finditer(text, minimum_end, hard_end) matches. *)
Boundaries(k, s) ==
    {i \in Tokens :
        /\ k \in marks[i]
        /\ IF k \in Gaps
           THEN i >= Minimum(s) /\ i < s + Hard - 1
           ELSE i > Minimum(s) /\ i <= s + Hard - 1}

(* position <= target_end; a gap's position is the start of the next token *)
BeforeTarget(k, s) ==
    {i \in Boundaries(k, s) :
        IF k \in Gaps THEN i < s + Target - 1 ELSE i <= s + Target - 1}

(* The strongest boundary: the last before the target or the first behind. *)
EndsAt(k, s, e) ==
    /\ \A j \in Kinds : j < k => Boundaries(j, s) = {}
    /\ e \in Boundaries(k, s)
    /\ IF BeforeTarget(k, s) # {}
       THEN e \in BeforeTarget(k, s) /\ \A i \in BeforeTarget(k, s) : i <= e
       ELSE \A i \in Boundaries(k, s) : e <= i

(* _window_end: the last token of the window that starts at s. *)
WindowEnd(s, e) ==
    IF Length - s + 1 <= Hard
    THEN e = Length
    ELSE \/ \E k \in Kinds : EndsAt(k, s, e)
         \/ /\ \A k \in Kinds : Boundaries(k, s) = {}
            /\ e = s + Target - 1

\* Mutant: the window steps back one token too far.
NextStart_OffByOne(s, e) ==
    IF e - Overlap > s + 1 THEN e - Overlap ELSE s + 1

NextStart(s, e) ==
    IF e - Overlap + 1 > s + 1 THEN e - Overlap + 1 ELSE s + 1

(* Tokens of the previous chunk that a chunk [first..last] repeats. *)
Repeated(first, last) ==
    IF chunks = <<>> THEN 0
    ELSE LET previous == chunks[Len(chunks)].last
             end == IF previous < last THEN previous ELSE last
         IN IF end >= first THEN end - first + 1 ELSE 0

-----------------------------------------------------------------------------
Init ==
    /\ marks \in [Tokens -> Marks]
    /\ start = 1
    /\ chunks = <<>>
    /\ pc = "running"

(* One pass of the loop: a chunk, and then the end or the next window,     *)
(* which has to start further on.                                          *)
Window ==
    /\ pc = "running"
    /\ \E e \in Tokens :
         /\ WindowEnd(start, e)
         /\ chunks' = Append(chunks,
                [first |-> start, last |-> e, overlap |-> Repeated(start, e)])
         /\ pc' = IF e = Length THEN "done"
                  ELSE IF NextStart(start, e) > start THEN "running" ELSE "raised"
         /\ start' = IF pc' = "running" THEN NextStart(start, e) ELSE start
    /\ UNCHANGED marks

Next == Window

Spec == Init /\ [][Next]_vars

-----------------------------------------------------------------------------
(* The chunks run through the whole group: the loop never gets stuck.      *)
GroupCovered ==
    /\ pc # "raised"
    /\ chunks # <<>> => chunks[1].first = 1
    /\ pc = "done" => chunks # <<>> /\ chunks[Len(chunks)].last = Length

(* What a chunk declares to repeat is the end of the chunk before it.      *)
Repeats(n) ==
    LET before == chunks[n - 1]
    IN /\ before.first < chunks[n].first
       /\ before.last <= chunks[n].last
       /\ chunks[n].first <= before.last + 1
       /\ chunks[n].overlap = before.last + 1 - chunks[n].first

(* Every token is in a chunk, a chunk fits the budget, and its declared    *)
(* overlap is at once its own beginning and the end of the chunk before    *)
(* it: ContextBuilder refuses every other declaration, and a search that   *)
(* finds such a chunk fails.                                               *)
OverlapIsShared ==
    /\ GroupCovered
    /\ \A n \in DOMAIN chunks :
          /\ chunks[n].last - chunks[n].first + 1 <= Hard
          /\ chunks[n].overlap <= Overlap
          /\ n > 1 => Repeats(n)
===============================================================================
