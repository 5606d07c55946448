------------------------------ MODULE MCIngestion ------------------------------
(***************************************************************************)
(* The stages a file goes through before it is indexed, side by side: its  *)
(* upload, the parse in a disposable process, and the chunks of its text   *)
(* and of its tables.  The stages share no state, so an execution of this  *)
(* instance is an execution of one of them while the others stay idle;     *)
(* DocumentIndexing has the rows that carry a file from one to the next.   *)
(***************************************************************************)
EXTENDS TextChunking

CONSTANTS Requests, Readers, Parts, MaxParts, MaxSize,
          Helpers,
          MaxRows, Columns, Sizes, Groupings, TargetTokens, MaxTokens, RowOverlap

VARIABLES
  stage,                                                    \* the one that runs
  request, row, objects, temporaries, download, faults,     \* FileUpload
  route, parent, worker, pipe, helpers, late,               \* DoclingProcess
  size, rows, headers, groups, cursor, previous,            \* TableChunking
  tableChunks, bands, group, tablePc

uploadVars == <<request, row, objects, temporaries, download, faults>>
parseVars == <<route, parent, worker, pipe, helpers, late>>
tableVars == <<size, rows, headers, groups, cursor, previous,
               tableChunks, bands, group, tablePc>>

File == INSTANCE FileUpload
Docling == INSTANCE DoclingProcess
Table == INSTANCE TableChunking WITH chunks <- tableChunks, pc <- tablePc

\* The settings require that a request may have at least one file.
ASSUME PartsAssumption == MaxParts \in Nat \ {0}

\* What _atomic_column_groups returns are stretches of columns, one after the
\* other and without a gap.
Stretches(gs) ==
  /\ gs \in Seq(Nat \X Nat) /\ gs # <<>>
  /\ gs[1][1] = 1 /\ gs[Len(gs)][2] = Columns
  /\ \A g, h \in DOMAIN gs : /\ gs[g][1] <= gs[g][2]
                             /\ g < h => gs[g][2] < gs[h][1]
                             /\ h = g + 1 => gs[h][1] = gs[g][2] + 1

\* Sizes and limits are numbers, and a table has a column.
ASSUME TableAssumption ==
  /\ MaxRows \in Nat /\ MaxTokens \in Nat /\ Columns \in Nat \ {0}
  /\ Sizes \subseteq Nat
  /\ \A gs \in Groupings : Stretches(gs)

\* Good parts and disguised ones.
MCParts ==
  {[extension |-> "pdf", declared |-> "pdf", size |-> 1, content |-> "pdf"],
   [extension |-> "pdf", declared |-> "pdf", size |-> 1, content |-> "text"]}

\* A paragraph break is white space as well; a sentence may end a line.
MCMarks == {{}, {1, 4}, {2}, {4}}

\* Two columns, with or without a merged cell that joins them.
MCGroupings == {<<<<1, 1>>, <<2, 2>>>>, <<<<1, 2>>>>}

---------------------------------------------------------------------------
\* The variables of a stage that does not run.
Idle == "idle"

IdleUpload == /\ request = Idle /\ row = Idle /\ objects = Idle
              /\ temporaries = Idle /\ download = Idle /\ faults = Idle

IdleParse == /\ route = Idle /\ parent = [pc |-> "done"] /\ worker = Idle
             /\ pipe = Idle /\ helpers = Idle /\ late = Idle

IdleTable == /\ size = Idle /\ rows = Idle /\ headers = Idle /\ groups = Idle
             /\ cursor = Idle /\ previous = Idle
             /\ tableChunks = Idle /\ bands = Idle /\ group = Idle /\ tablePc = Idle

IdleText ==
  marks = [i \in Tokens |-> {}] /\ start = 1 /\ chunks = <<>> /\ pc = "running"

StageInit ==
  \/ stage = "upload" /\ File!Init /\ IdleParse /\ IdleText /\ IdleTable
  \/ stage = "parse" /\ Docling!Init /\ IdleUpload /\ IdleText /\ IdleTable
  \/ stage = "text" /\ Init /\ IdleUpload /\ IdleParse /\ IdleTable
  \/ stage = "table" /\ Table!Init /\ IdleUpload /\ IdleParse /\ IdleText

UploadNext ==
  stage = "upload" /\ File!Next /\ UNCHANGED <<stage, parseVars, vars, tableVars>>

Parses == stage = "parse" /\ UNCHANGED <<stage, uploadVars, vars, tableVars>>

TextNext == stage = "text" /\ Next /\ UNCHANGED <<stage, uploadVars, parseVars, tableVars>>

TableNext ==
  stage = "table" /\ Table!Next /\ UNCHANGED <<stage, uploadVars, parseVars, vars>>

StageNext == UploadNext \/ (Parses /\ Docling!Next) \/ TextNext \/ TableNext

stageVars == <<stage, uploadVars, parseVars, vars, tableVars>>

\* The fairness of DoclingProcess; the other stages promise nothing of the kind.
StageSpec ==
  /\ StageInit /\ [][StageNext]_stageVars
  /\ WF_stageVars(Parses /\ Docling!Parent)
  /\ WF_stageVars(Parses /\ Docling!DeadlinePasses)
  /\ WF_stageVars(Parses /\ Docling!EndResult)

---------------------------------------------------------------------------
\* A batch of uploaded files is accepted as a whole or leaves nothing.
SettledBatch == stage = "upload" => File!SettledBatch

\* A download that finds a row gets its object.
FoundIsServed == stage = "upload" => File!FoundIsServed

\* Only a whole result of the route that was decided is released.
OnlyWholeResults == stage = "parse" => Docling!OnlyWholeResults

\* The worker process and what was listed of its tree are gone.
WorkerIsGone == stage = "parse" => Docling!WorkerIsGone

\* A parse always comes back.
ParseReturns == Docling!ParseReturns

\* A table's chunks keep its rows, headers and repetitions in order.
RowsPackedOnce == stage = "table" => Table!RowsPackedOnce
================================================================================
