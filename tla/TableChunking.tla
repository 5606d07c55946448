---------------------------- MODULE TableChunking ----------------------------
(***************************************************************************)
(* The row windows a table is cut into, and the column bands of a row that *)
(* is too wide for one (StructureAwareTableChunker).                       *)
(*                                                                         *)
(* Row 0 is the header, if there is one.  A cell is <<row, column>> and    *)
(* size[cell] its tokens; a rendered row costs one token more, and another *)
(* when it is marked as context.  A chunk's own cells are new source data, *)
(* its context cells are repeated; it may declare the latter as overlap    *)
(* with the chunk before it.  Headers are always repeated: no setting      *)
(* reaches repeat_table_headers.                                           *)
(***************************************************************************)
EXTENDS Naturals, Sequences, FiniteSetsExt

CONSTANTS MaxRows, Columns, Sizes, Groupings, TargetTokens, MaxTokens,
          RowOverlap

VARIABLES
    size,      \* the tokens of each cell
    rows,      \* the number of data rows
    headers,   \* {0} or {}
    groups,    \* the column groups no merged cell of the row to split crosses
    cursor,    \* data rows already packed
    previous,  \* the new rows of the last window
    chunks,
    bands,     \* chunks of the row that is being split
    group,     \* the column group its next chunk begins with
    pc         \* "running", "splitting", "done", or "raised"

table == <<size, rows, headers>>
vars == <<table, groups, cursor, previous, chunks, bands, group, pc>>

Cells(rs, band) == rs \X (band[1]..band[2])

Wide == <<1, Columns>>

Shown(chunk) == chunk.own \cup chunk.context

-----------------------------------------------------------------------------
First == chunks = <<>>     \* first_window

(* _row_selections: which rows a window shows as context. *)
ContextRows(overlap) == (IF First THEN {} ELSE headers) \cup overlap
OwnRows(new) == (IF First THEN headers ELSE {}) \cup new

(* _draft: the token count of the rows in a column band. *)
Weight(overlap, new, band) ==
    LET context == ContextRows(overlap)
        own == OwnRows(new)
    IN MapThenSumSet(LAMBDA cell : size[cell], Cells(context \cup own, band))
         + Cardinality(own) + 2 * Cardinality(context)

Chunk(overlap, new, band, declare) ==
    LET context == Cells(ContextRows(overlap), band)
    IN [own |-> Cells(OwnRows(new), band),
        context |-> context,
        overlap |-> declare /\ ~First /\ context # {}]

NewRows(n) == cursor + 1..cursor + n

(* previous_primary_rows[-table_row_overlap:], then without its first rows *)
Suffixes ==
    {s \in SUBSET previous :
        /\ Cardinality(s) <= RowOverlap
        /\ \A r \in s, q \in previous : q > r => q \in s}

Fits(overlap, n) == Weight(overlap, NewRows(n), Wide) <= MaxTokens

(* The most overlap with which a first new row fits. *)
OverlapRows(overlap) ==
    /\ overlap \in Suffixes
    /\ Fits(overlap, 1)
    /\ \A s \in Suffixes : Fits(s, 1) => s \subseteq overlap

(* Rows are added until the target is reached or the next does not fit. *)
Accepted(overlap, n) ==
    /\ Fits(overlap, n)
    /\ \A m \in 1..n - 1 : Weight(overlap, NewRows(m), Wide) < TargetTokens
    /\ (cursor + n < rows /\ Weight(overlap, NewRows(n), Wide) < TargetTokens)
          => ~Fits(overlap, n + 1)

(* The row to split if not even one fits: a table without data rows has    *)
(* its header to split.                                                    *)
Step == IF rows = 0 THEN 0 ELSE 1
NextRow == NewRows(Step)

(* The column bands a row, with its headers, is split into. *)
Band(g, k) == <<groups[g][1], groups[k][2]>>

BandWeight(k) == Weight({}, NextRow, Band(group, k))

(* A band grows until the target is reached or the next group does not fit. *)
BandEnd(k) ==
    /\ BandWeight(k) <= MaxTokens
    /\ \A j \in group..k - 1 : BandWeight(j) < TargetTokens
    /\ (k < Len(groups) /\ BandWeight(k) < TargetTokens) => BandWeight(k + 1) > MaxTokens

-----------------------------------------------------------------------------
Init ==
    /\ rows \in 0..MaxRows
    /\ headers \in {{}, {0}}
    /\ rows + Cardinality(headers) > 0
    /\ size \in [(headers \cup 1..rows) \X (1..Columns) -> Sizes]
    /\ groups \in Groupings
    /\ cursor = 0
    /\ previous = {}
    /\ chunks = <<>>
    /\ bands = <<>> /\ group = 1
    /\ pc = "running"

NothingSplit == UNCHANGED <<groups, bands, group>>

Moved(n) ==
    /\ cursor' = cursor + n
    /\ pc' = IF cursor + n = rows THEN "done" ELSE "running"
    /\ UNCHANGED table

(* A table without data rows is its header. *)
HeaderOnly ==
    /\ pc = "running" /\ rows = 0
    /\ Weight({}, {}, Wide) <= MaxTokens
    /\ chunks' = <<Chunk({}, {}, Wide, FALSE)>>
    /\ pc' = "done"
    /\ NothingSplit
    /\ UNCHANGED <<table, cursor, previous>>

Window ==
    /\ pc = "running" /\ rows > 0
    /\ \E overlap \in Suffixes, n \in 1..rows - cursor :
         /\ OverlapRows(overlap)
         /\ Accepted(overlap, n)
         /\ chunks' = Append(chunks, Chunk(overlap, NewRows(n), Wide, TRUE))
         /\ previous' = NewRows(n)
         /\ NothingSplit
         /\ Moved(n)

(* _emit_or_split_columns: not even one row fits, with no overlap at all.  *)
(* Its merged cells decide what the bands may cut.                         *)
SplitRow ==
    /\ pc = "running"
    /\ Weight({}, NextRow, Wide) > MaxTokens
    /\ pc' = "splitting"
    /\ groups' \in Groupings
    /\ UNCHANGED <<table, cursor, previous, chunks, bands, group>>

EmitBand ==
    /\ pc = "splitting" /\ group <= Len(groups)
    /\ \E k \in group..Len(groups) :
         /\ BandEnd(k)
         /\ bands' = Append(bands, Chunk({}, NextRow, Band(group, k), FALSE))
         /\ group' = k + 1
    /\ UNCHANGED <<table, groups, cursor, previous, chunks, pc>>

(* The cells of a column group, which no band may cut, are too many. *)
Unsplittable ==
    /\ pc = "splitting" /\ group <= Len(groups)
    /\ BandWeight(group) > MaxTokens
    /\ pc' = "raised"
    /\ bands' = <<>> /\ group' = 1
    /\ UNCHANGED <<table, groups, cursor, previous, chunks>>

\* Mutant: the row is split, but the next window still overlaps the older one.
RowSplit_KeepsPrevious ==
    /\ pc = "splitting" /\ group > Len(groups)
    /\ chunks' = chunks \o bands
    /\ UNCHANGED <<previous, groups>>
    /\ bands' = <<>> /\ group' = 1
    /\ Moved(Step)
RowSplit ==
    /\ pc = "splitting" /\ group > Len(groups)
    /\ chunks' = chunks \o bands
    /\ previous' = NextRow
    /\ bands' = <<>> /\ group' = 1
    /\ UNCHANGED groups
    /\ Moved(Step)

Next == HeaderOnly \/ Window \/ SplitRow \/ EmitBand \/ Unsplittable \/ RowSplit

Spec == Init /\ [][Next]_vars

-----------------------------------------------------------------------------
(* Nothing of the table is lost or copied as new data: every cell of the   *)
(* packed rows is some chunk's own exactly once, and no value is shown     *)
(* without the header of its column.                                       *)
EachCellOnce ==
    LET packed == Cells(headers \cup 1..cursor, Wide)
    IN First \/ \A cell \in packed :
                   Cardinality({n \in DOMAIN chunks : cell \in chunks[n].own}) = 1

ValuesHaveHeaders ==
    \A n \in DOMAIN chunks : \A cell \in Shown(chunks[n]), h \in headers :
       <<h, cell[2]>> \in Shown(chunks[n])

(* A repeated data row is one the chunk before it shows. *)
RepeatedRowsShared ==
    \A n \in DOMAIN chunks :
       {cell \in chunks[n].context : cell[1] \notin headers} \subseteq
          (IF n = 1 THEN {} ELSE Shown(chunks[n - 1]))

(* Packing a table into chunks keeps its rows, headers and repetitions in  *)
(* order, through row windows and column bands alike.                      *)
RowsPackedOnce == EachCellOnce /\ ValuesHaveHeaders /\ RepeatedRowsShared

(* ChunkOverlap, contracts.py: what a chunk declares as overlap is a       *)
(* duplication from the immediately previous chunk.                        *)
DeclaredOverlapIsShared ==
    \A n \in DOMAIN chunks : chunks[n].overlap =>
       n > 1 /\ chunks[n].context \subseteq Shown(chunks[n - 1])
===============================================================================
