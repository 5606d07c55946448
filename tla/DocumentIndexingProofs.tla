----------------------- MODULE DocumentIndexingProofs -----------------------
(***************************************************************************)
(* Proofs about DocumentIndexing for every number of versions and every    *)
(* set of calls and embedding identities: type correctness, that the       *)
(* active version is complete, that the pipeline implements ActiveIndex,   *)
(* that its claims exclude each other, that ready rows have their objects  *)
(* and that a version at which no call works is settled.                   *)
(***************************************************************************)
EXTENDS DocumentIndexing, TLAPS

(***************************************************************************)
(* A call at work has a version and an identity; that is what TypeOK lacks *)
(* to be inductive.                                                        *)
(***************************************************************************)
Working(c) == calls[c].pc \notin {"idle", "returned"}
CallsWork ==
  \A c \in Calls :
    Working(c) => calls[c].version \in Versions /\ calls[c].identity \in Identities
TypeInv == TypeOK /\ CallsWork

(***************************************************************************)
(* What a step that publishes nothing keeps, for each variable: its type,  *)
(* the CHECK constraints, and all that readers are led to.                 *)
(***************************************************************************)
Objects == {ParsedKey(v) : v \in Versions} \cup {ChunkKey(v) : v \in Versions}

VersionsKept ==
  /\ version' \in [Versions -> VersionRow]
  /\ \A v \in Versions :
       /\ VersionChecks(version'[v])
       /\ version'[v].set = version[v].set
       /\ version[v].parse = "ready" => version'[v].parse = "ready"
FilesKept == file' \in [Versions -> FileStatus]
ChunkSetsKept ==
  /\ chunkSet' \in [Versions -> {"absent", "chunking", "ready", "failed"}]
  /\ \A v \in Versions : chunkSet[v] = "ready" => chunkSet'[v] = "ready"
SetsKept ==
  /\ sets' \in [Versions \X Identities -> SetRow]
  /\ \A p \in Versions \X Identities :
       /\ SetChecks(sets'[p])
       /\ sets'[p].status = "ready" <=> sets[p].status = "ready"
ObjectsKept == objects' \subseteq Objects
CallsKept == calls' \in [Calls -> Call] /\ CallsWork'
FaultsKept ==
  lost' \subseteq Versions /\ unheard' \subseteq Objects /\ faults' \in 0..MaxFaults
Kept ==
  /\ active' = active
  /\ VersionsKept /\ FilesKept /\ ChunkSetsKept /\ SetsKept
  /\ ObjectsKept /\ CallsKept /\ FaultsKept
  /\ starts' \in 0..MaxStarts

\* A step that keeps everything keeps the type invariant.
LEMMA KeptType == ASSUME TypeInv, Kept PROVE TypeInv'
BY DEF TypeInv, TypeOK, RowsTyped, LocalsTyped, Kept, VersionsKept, FilesKept,
       ChunkSetsKept, SetsKept, ObjectsKept, CallsKept, FaultsKept, Objects

\* A variable a step leaves alone is kept.
LEMMA Same ==
  ASSUME TypeInv
  PROVE  /\ version' = version => VersionsKept
         /\ file' = file => FilesKept
         /\ chunkSet' = chunkSet => ChunkSetsKept
         /\ sets' = sets => SetsKept
         /\ objects' = objects => ObjectsKept
         /\ calls' = calls => CallsKept
         /\ starts' = starts => starts' \in 0..MaxStarts
BY DEF TypeInv, TypeOK, RowsTyped, LocalsTyped, CallsWork, Working, VersionsKept,
       FilesKept, ChunkSetsKept, SetsKept, ObjectsKept, CallsKept, Objects

\* Writing one version row.
LEMMA VersionWritten ==
  ASSUME TypeInv, NEW v \in Versions, NEW r \in VersionRow,
         VersionChecks(r), r.set = version[v].set,
         version[v].parse = "ready" => r.parse = "ready",
         version' = [version EXCEPT ![v] = r]
  PROVE  VersionsKept
BY DEF TypeInv, TypeOK, RowsTyped, VersionsKept

\* Writing the parse status of a version that is not ready, so that no index
\* of it can be.
LEMMA ParseWritten ==
  ASSUME TypeInv, NEW v \in Versions, version[v].parse # "ready",
         NEW p \in {"pending", "parsing", "ready", "failed"},
         version' = [version EXCEPT ![v].parse = p]
  PROVE  VersionsKept
<1> DEFINE r == [version[v] EXCEPT !.parse = p]
<1>1. r \in VersionRow /\ r.set = version[v].set /\ r.index = version[v].index
  BY DEF TypeInv, TypeOK, RowsTyped, VersionRow
<1>2. VersionChecks(r)
  BY <1>1 DEF TypeInv, TypeOK, VersionChecks
<1>3. version' = [version EXCEPT ![v] = r]
  OBVIOUS
<1> HIDE DEF r
<1> QED
  BY <1>1, <1>2, <1>3, VersionWritten

\* Writing the index status of a version: "ready" exactly if it names a set.
LEMMA IndexWritten ==
  ASSUME TypeInv, NEW v \in Versions, NEW i \in {"indexing", "ready", "failed"},
         version[v].set = None <=> i # "ready",
         version' = [version EXCEPT ![v].index = i]
  PROVE  VersionsKept
<1> DEFINE r == [version[v] EXCEPT !.index = i]
<1>1. /\ r \in VersionRow /\ r.set = version[v].set
      /\ r.parse = version[v].parse /\ r.index = i
  BY DEF TypeInv, TypeOK, RowsTyped, VersionRow
<1>2. VersionChecks(r)
  BY <1>1 DEF TypeInv, TypeOK, VersionChecks
<1>3. version' = [version EXCEPT ![v] = r]
  OBVIOUS
<1> HIDE DEF r
<1> QED
  BY <1>1, <1>2, <1>3, VersionWritten

\* Writing the status of a file.
LEMMA FileWritten ==
  ASSUME TypeInv, NEW v \in Versions, NEW s \in FileStatus,
         file' = [file EXCEPT ![v] = s]
  PROVE  FilesKept
BY DEF TypeInv, TypeOK, RowsTyped, FilesKept

\* Writing the status of a chunk set, which is not taken back once it is ready.
LEMMA ChunkSetWritten ==
  ASSUME TypeInv, NEW v \in Versions, NEW s \in {"chunking", "ready", "failed"},
         chunkSet[v] = "ready" => s = "ready",
         chunkSet' = [chunkSet EXCEPT ![v] = s]
  PROVE  ChunkSetsKept
BY DEF TypeInv, TypeOK, RowsTyped, ChunkSetsKept

\* Writing an index set that is not ready and does not become so.
LEMMA SetWritten ==
  ASSUME TypeInv, NEW p \in Versions \X Identities, NEW r \in SetRow,
         sets[p].status # "ready", r.status # "ready", SetChecks(r),
         sets' = [sets EXCEPT ![p] = r]
  PROVE  SetsKept
BY DEF TypeInv, TypeOK, RowsTyped, SetsKept

\* A call at work is at work at a version, under an identity.
LEMMA AtWork ==
  ASSUME TypeInv, NEW c \in Calls, NEW pc \in Pcs \ {"idle", "returned"}, At(c, pc)
  PROVE  /\ Working(c)
         /\ calls[c] \in Call
         /\ calls[c].version \in Versions /\ calls[c].identity \in Identities
BY DEF TypeInv, TypeOK, LocalsTyped, CallsWork, Working, At

\* A call takes a new record that has a version and an identity.
LEMMA CallWritten ==
  ASSUME TypeInv, NEW c \in Calls, NEW r \in Call,
         r.version \in Versions, r.identity \in Identities,
         calls' = [calls EXCEPT ![c] = r]
  PROVE  CallsKept
BY DEF TypeInv, TypeOK, LocalsTyped, CallsWork, Working, CallsKept

\* A call that goes on keeps its locals.
LEMMA GoesOn ==
  ASSUME TypeInv, NEW c \in Calls, Working(c), NEW pc \in Pcs, Goto(c, pc)
  PROVE  CallsKept
BY DEF TypeInv, TypeOK, LocalsTyped, CallsWork, Working, Goto, Call, CallsKept

\* A call that raises or returns forgets them.
LEMMA Ends ==
  ASSUME TypeInv, NEW c \in Calls, Raise(c) \/ Return(c)
  PROVE  CallsKept
<1> DEFINE done == [Idle EXCEPT !.pc = "returned"]
<1>1. Idle \in Call /\ Idle.pc = "idle"
  BY BoundsAssumption DEF Idle, Call, Pcs
<1>2. done \in Call /\ done.pc = "returned"
  BY BoundsAssumption DEF Idle, Call, Pcs
<1>3. calls' = [calls EXCEPT ![c] = Idle] \/ calls' = [calls EXCEPT ![c] = done]
  BY DEF Raise, Return
<1> HIDE DEF done
<1> QED
  BY <1>1, <1>2, <1>3
  DEF TypeInv, TypeOK, LocalsTyped, CallsWork, Working, CallsKept

\* Counting a fault, or none.
LEMMA FaultCounted ==
  ASSUME TypeInv
  PROVE  /\ NoFault => FaultsKept
         /\ \A v \in Versions : Fault(v) => FaultsKept
         /\ \A keys \in SUBSET Objects : Unheard(keys) => FaultsKept
BY BoundsAssumption
DEF TypeInv, TypeOK, LocalsTyped, Fault, Unheard, NoFault, FaultsKept, Objects

(***************************************************************************)
(* Every action but the completion of an index set keeps what readers are  *)
(* led to.                                                                 *)
(***************************************************************************)
\* The routes that add a version and delete a file.
LEMMA AddVersionKeeps == ASSUME TypeInv, NEW v \in Versions, AddVersion(v) PROVE Kept
<1>1. VersionsKept
  <2>1. version[v].parse = "absent"
    BY DEF AddVersion, Exists, Versions
  <2> QED
    BY <2>1, ParseWritten DEF AddVersion
<1> QED
  BY <1>1, Same, FaultCounted DEF AddVersion, Kept

\* Deleting a file writes no row but its own.
LEMMA DeleteFileKeeps == ASSUME TypeInv, NEW v \in Versions, DeleteFile(v) PROVE Kept
<1>1. FilesKept
  BY FileWritten DEF DeleteFile, FileStatus
<1> QED
  BY <1>1, Same, FaultCounted DEF DeleteFile, Kept

\* A new call of index_version.
LEMMA StartKeeps == ASSUME TypeInv, NEW c \in Calls, Start(c) PROVE Kept
<1>1. CallsKept
  <2>1. PICK v \in Versions, e \in Identities, pc \in {"load", "claim_parse"} :
          calls' = [calls EXCEPT ![c] =
                      [pc |-> pc, version |-> v, identity |-> e, seen |-> 0,
                       attempt |-> 0]]
    BY DEF Start
  <2>2. pc \in Pcs /\ v \in 0..MaxVersion /\ 0 \in 0..MaxVersion
    BY BoundsAssumption DEF Pcs, Versions
  <2> QED
    BY <2>1, <2>2
    DEF TypeInv, TypeOK, LocalsTyped, CallsWork, Working, Call, CallsKept
<1>2. starts' \in 0..MaxStarts
  BY BoundsAssumption DEF Start, TypeInv, TypeOK, LocalsTyped
<1> QED
  BY <1>1, <1>2, Same, FaultCounted DEF Start, Kept, rows

\* Parsing.
LEMMA ClaimParseKeeps == ASSUME TypeInv, NEW c \in Calls, ClaimParse(c) PROVE Kept
<1> DEFINE v == calls[c].version
<1>1. Working(c) /\ v \in Versions
  BY AtWork DEF ClaimParse, Pcs
<1>2. CallsKept
  BY <1>1, GoesOn, Ends DEF ClaimParse, Pcs
<1>3. VersionsKept
  BY <1>1, ParseWritten, Same DEF ClaimParse, ParseClaimable
<1>4. FilesKept
  BY <1>1, FileWritten, Same DEF ClaimParse, FileStatus
<1> QED
  BY <1>2, <1>3, <1>4, Same, FaultCounted DEF ClaimParse, Kept

\* Parsing may put an object.
LEMMA ParseKeeps == ASSUME TypeInv, NEW c \in Calls, Parse(c) PROVE Kept
<1>1. Working(c) /\ calls[c].version \in Versions
  BY AtWork DEF Parse, Pcs
<1>2. CallsKept
  BY <1>1, GoesOn DEF Parse, Pcs
<1>3. ObjectsKept
  BY <1>1, Same DEF Parse, ObjectsKept, Objects, TypeInv, TypeOK, LocalsTyped
<1> QED
  BY <1>2, <1>3, Same, FaultCounted DEF Parse, Kept, rows

\* The parse of a version becomes ready, or nothing is written.
LEMMA CompleteParseKeeps == ASSUME TypeInv, NEW c \in Calls, CompleteParse(c) PROVE Kept
<1> DEFINE v == calls[c].version
<1>1. Working(c) /\ v \in Versions
  BY AtWork DEF CompleteParse, Pcs
<1>2. CallsKept
  BY <1>1, GoesOn DEF CompleteParse, Pcs
<1>3. VersionsKept
  BY <1>1, ParseWritten, Same DEF CompleteParse
<1>4. FaultsKept
  BY <1>1, FaultCounted DEF CompleteParse, Objects
<1> QED
  BY <1>2, <1>3, <1>4, Same DEF CompleteParse, Kept

\* Deleting an object after a failure.
LEMMA DeletedKeeps ==
  ASSUME TypeInv, NEW v \in Versions, NEW key, Deleted(v, key)
  PROVE  ObjectsKept /\ FaultsKept
BY Same, FaultCounted
DEF Deleted, ObjectsKept, Objects, TypeInv, TypeOK, LocalsTyped

\* The parsed object is deleted, or the version is lost.
LEMMA UndoParseKeeps == ASSUME TypeInv, NEW c \in Calls, UndoParse(c) PROVE Kept
<1>1. Working(c) /\ calls[c].version \in Versions
  BY AtWork DEF UndoParse, Pcs
<1>2. CallsKept
  BY <1>1, GoesOn DEF UndoParse, Pcs
<1>3. ObjectsKept /\ FaultsKept
  BY <1>1, DeletedKeeps DEF UndoParse
<1> QED
  BY <1>2, <1>3, Same DEF UndoParse, Kept, rows

\* A failed parse takes back no ready one.
LEMMA RecordParseFailureKeeps ==
  ASSUME TypeInv, NEW c \in Calls, RecordParseFailure(c) PROVE Kept
<1> DEFINE v == calls[c].version
<1>1. Working(c) /\ v \in Versions
  BY AtWork DEF RecordParseFailure, Pcs
<1>2. CallsKept
  BY <1>1, GoesOn DEF RecordParseFailure, Pcs
<1>3. VersionsKept
  <2>1. \/ version' = version
        \/ /\ version[v].parse = "parsing"
           /\ version' = [version EXCEPT ![v].parse = "failed"]
    BY <1>1 DEF RecordParseFailure, TypeInv, TypeOK, RowsTyped, VersionRow
  <2> QED
    BY <1>1, <2>1, ParseWritten, Same
<1>4. FilesKept
  BY <1>1, Same
  DEF RecordParseFailure, FilesKept, FileStatus, TypeInv, TypeOK, RowsTyped
<1>5. FaultsKept
  BY <1>1, FaultCounted
  DEF RecordParseFailure, FaultsKept, Objects, TypeInv, TypeOK, LocalsTyped
<1> QED
  BY <1>2, <1>3, <1>4, <1>5, Same DEF RecordParseFailure, Kept

\* A late failure makes the index status agree with the set that is active.
LEMMA RecordEarlyFailureKeeps ==
  ASSUME TypeInv, NEW c \in Calls, RecordEarlyFailure(c) PROVE Kept
<1> DEFINE v == calls[c].version
<1>1. v \in Versions
  BY AtWork DEF RecordEarlyFailure, Pcs
<1>2. CallsKept
  BY Ends DEF RecordEarlyFailure
<1>3. VersionsKept
  BY <1>1, IndexWritten, Same DEF RecordEarlyFailure, Restored
<1>4. FilesKept
  BY <1>1, FileWritten, Same DEF RecordEarlyFailure, Restored, FileStatus
<1>5. FaultsKept
  BY <1>1, FaultCounted DEF RecordEarlyFailure
<1> QED
  BY <1>2, <1>3, <1>4, <1>5, Same DEF RecordEarlyFailure, Kept

\* Reading the parsed input writes nothing.
LEMMA LoadParsedKeeps == ASSUME TypeInv, NEW c \in Calls, LoadParsed(c) PROVE Kept
<1>1. Working(c)
  BY AtWork DEF LoadParsed, Pcs
<1>2. CallsKept
  BY <1>1, GoesOn, Ends DEF LoadParsed, Pcs
<1> QED
  BY <1>2, Same, FaultCounted DEF LoadParsed, Kept, rows

\* Reading the chunks again writes nothing.
LEMMA ReloadChunksKeeps == ASSUME TypeInv, NEW c \in Calls, ReloadChunks(c) PROVE Kept
<1>1. Working(c)
  BY AtWork DEF ReloadChunks, Pcs
<1>2. CallsKept
  BY <1>1, GoesOn, Ends DEF ReloadChunks, Pcs
<1> QED
  BY <1>2, Same, FaultCounted DEF ReloadChunks, Kept, rows

\* Chunking.
LEMMA ClaimChunksKeeps == ASSUME TypeInv, NEW c \in Calls, ClaimChunks(c) PROVE Kept
<1>1. Working(c) /\ calls[c].version \in Versions
  BY AtWork DEF ClaimChunks, Pcs
<1>2. CallsKept
  BY <1>1, GoesOn, Ends DEF ClaimChunks, Pcs
<1>3. ChunkSetsKept
  BY <1>1, ChunkSetWritten, Same DEF ClaimChunks, ChunksClaimable
<1> QED
  BY <1>2, <1>3, Same, FaultCounted DEF ClaimChunks, Kept

\* Chunking may put an object.
LEMMA ChunkKeeps == ASSUME TypeInv, NEW c \in Calls, Chunk(c) PROVE Kept
<1>1. Working(c) /\ calls[c].version \in Versions
  BY AtWork DEF Chunk, Pcs
<1>2. CallsKept
  BY <1>1, GoesOn DEF Chunk, Pcs
<1>3. ObjectsKept
  BY <1>1, Same DEF Chunk, ObjectsKept, Objects, TypeInv, TypeOK, LocalsTyped
<1> QED
  BY <1>2, <1>3, Same, FaultCounted DEF Chunk, Kept, rows

\* The chunk set becomes ready, or nothing is written.
LEMMA CompleteChunksKeeps == ASSUME TypeInv, NEW c \in Calls, CompleteChunks(c) PROVE Kept
<1>1. Working(c) /\ calls[c].version \in Versions
  BY AtWork DEF CompleteChunks, Pcs
<1>2. CallsKept
  BY <1>1, GoesOn DEF CompleteChunks, Pcs
<1>3. ChunkSetsKept
  BY <1>1, ChunkSetWritten, Same DEF CompleteChunks
<1>4. FaultsKept
  BY <1>1, FaultCounted DEF CompleteChunks, Objects
<1> QED
  BY <1>2, <1>3, <1>4, Same DEF CompleteChunks, Kept

\* The chunk object is deleted, or the version is lost.
LEMMA UndoChunksKeeps == ASSUME TypeInv, NEW c \in Calls, UndoChunks(c) PROVE Kept
<1>1. Working(c) /\ calls[c].version \in Versions
  BY AtWork DEF UndoChunks, Pcs
<1>2. CallsKept
  BY <1>1, GoesOn DEF UndoChunks, Pcs
<1>3. ObjectsKept /\ FaultsKept
  BY <1>1, DeletedKeeps DEF UndoChunks
<1> QED
  BY <1>2, <1>3, Same DEF UndoChunks, Kept, rows

\* A failed chunking takes back no ready set.
LEMMA RecordChunkFailureKeeps ==
  ASSUME TypeInv, NEW c \in Calls, RecordChunkFailure(c) PROVE Kept
<1> DEFINE v == calls[c].version
<1>1. Working(c) /\ v \in Versions
  BY AtWork DEF RecordChunkFailure, Pcs
<1>2. CallsKept
  BY <1>1, GoesOn DEF RecordChunkFailure, Pcs
<1>3. ChunkSetsKept
  <2>1. \/ chunkSet' = chunkSet
        \/ /\ chunkSet[v] = "chunking"
           /\ chunkSet' = [chunkSet EXCEPT ![v] = "failed"]
    BY <1>1 DEF RecordChunkFailure, TypeInv, TypeOK, RowsTyped
  <2> QED
    BY <1>1, <2>1, ChunkSetWritten, Same
<1>4. FaultsKept
  BY <1>1, FaultCounted DEF RecordChunkFailure
<1> QED
  BY <1>2, <1>3, <1>4, Same DEF RecordChunkFailure, Kept

\* Indexing, up to the completion.
LEMMA ReadActiveKeeps == ASSUME TypeInv, NEW c \in Calls, ReadActive(c) PROVE Kept
<1>1. Working(c)
  BY AtWork DEF ReadActive, Pcs
<1>2. CallsKept
  <2> DEFINE reader == [calls[c] EXCEPT !.pc = "claim_index", !.seen = active]
  <2>1. calls[c] \in Call /\ active \in 0..MaxVersion
    BY DEF TypeInv, TypeOK, RowsTyped, LocalsTyped
  <2>2. /\ reader \in Call /\ reader.version = calls[c].version
        /\ reader.identity = calls[c].identity
    BY <2>1 DEF Call, Pcs
  <2>3. calls' = [calls EXCEPT ![c] = reader]
    BY <2>1 DEF ReadActive, TypeInv, TypeOK, LocalsTyped, Call
  <2>4. calls[c].version \in Versions /\ calls[c].identity \in Identities
    BY <1>1 DEF TypeInv, CallsWork
  <2> QED
    BY <2>2, <2>3, <2>4, CallWritten
<1> QED
  BY <1>2, Same, FaultCounted DEF ReadActive, Kept, rows

\* Embedding writes nothing.
LEMMA EmbedKeeps == ASSUME TypeInv, NEW c \in Calls, Embed(c) PROVE Kept
<1>1. Working(c)
  BY AtWork DEF Embed, Pcs
<1>2. CallsKept
  BY <1>1, GoesOn DEF Embed, Pcs
<1> QED
  BY <1>2, Same, FaultCounted DEF Embed, Kept, rows

\* A failing transaction writes nothing.
LEMMA DatabaseFailsKeeps ==
  ASSUME TypeInv, NEW c \in Calls, DatabaseFails(c) PROVE Kept
<1>1. CallsKept
  BY Ends DEF DatabaseFails
<1> QED
  BY <1>1, Same, FaultCounted DEF DatabaseFails, Kept, rows

\* The process of a call dies.
LEMMA CrashKeeps == ASSUME TypeInv, NEW c \in Calls, Crash(c) PROVE Kept
<1>1. CallsKept
  BY Ends DEF Crash
<1>2. calls[c].version \in Versions
  BY DEF Crash, TypeInv, CallsWork, Working
<1>3. FaultsKept
  BY <1>2, FaultCounted DEF Crash
<1> QED
  BY <1>1, <1>3, Same DEF Crash, Kept, rows

\* A claim makes a set that is not ready an indexing one without chunk rows.
LEMMA ClaimIndexSetKeeps == ASSUME TypeInv, NEW c \in Calls, ClaimIndexSet(c) PROVE Kept
<1> DEFINE v == calls[c].version
           e == calls[c].identity
           row == sets[<<v, e>>]
<1>1. Working(c) /\ v \in Versions /\ e \in Identities
  BY AtWork DEF ClaimIndexSet, Pcs
<1>2. row \in SetRow /\ SetChecks(row)
  BY <1>1 DEF TypeInv, TypeOK, RowsTyped
<1>3. \/ (Raise(c) \/ Return(c)) /\ UNCHANGED <<sets, version, file>>
      \/ /\ Reclaimable(row)
         /\ sets' = [sets EXCEPT ![<<v, e>>] =
              [row EXCEPT !.status = "indexing", !.attempt = row.attempt + 1]]
         /\ version' = [version EXCEPT ![v].index =
                           IF version[v].set = None THEN "indexing" ELSE @]
         /\ file' = [file EXCEPT ![v] = "indexing"]
         /\ calls' = [calls EXCEPT ![c].pc = "embed", ![c].attempt = row.attempt + 1]
  BY DEF ClaimIndexSet
<1>4. CASE (Raise(c) \/ Return(c)) /\ UNCHANGED <<sets, version, file>>
  <2>1. CallsKept
    BY <1>4, Ends
  <2> QED
    BY <1>4, <2>1, Same, FaultCounted DEF ClaimIndexSet, Kept
<1>5. CASE ~((Raise(c) \/ Return(c)) /\ UNCHANGED <<sets, version, file>>)
  <2> DEFINE claimed ==
        [row EXCEPT !.status = "indexing", !.attempt = row.attempt + 1]
  <2>1. claimed \in SetRow /\ claimed.status = "indexing" /\ ~claimed.chunks
    <3>1. Reclaimable(row)
      BY <1>3, <1>5
    <3>2. row.attempt + 1 \in Nat /\ ~row.chunks
      BY <1>2, <3>1 DEF SetRow, SetChecks, Reclaimable
    <3> QED
      BY <1>2, <3>2 DEF SetRow
  <2>2. /\ Reclaimable(row)
        /\ sets' = [sets EXCEPT ![<<v, e>>] = claimed]
        /\ version' = [version EXCEPT ![v].index =
                          IF version[v].set = None THEN "indexing" ELSE @]
        /\ file' = [file EXCEPT ![v] = "indexing"]
        /\ calls' = [calls EXCEPT ![c].pc = "embed", ![c].attempt = row.attempt + 1]
    BY <1>3, <1>5
  <2> HIDE DEF claimed
  <2>3. SetsKept
    BY <1>1, <1>2, <2>1, <2>2, SetWritten DEF SetChecks, Reclaimable
  <2>4. VersionsKept
    <3>1. \/ version' = version
          \/ /\ version[v].set = None
             /\ version' = [version EXCEPT ![v].index = "indexing"]
      BY <1>1, <2>2 DEF TypeInv, TypeOK, RowsTyped, VersionRow
    <3> QED
      BY <1>1, <3>1, IndexWritten, Same
  <2>5. FilesKept
    BY <1>1, <2>2, FileWritten DEF FileStatus
  <2>6. CallsKept
    <3> DEFINE embedding == [calls[c] EXCEPT !.pc = "embed", !.attempt = row.attempt + 1]
    <3>1. row.attempt + 1 \in Nat
      BY <1>2 DEF SetRow
    <3>2. calls[c] \in Call
      BY DEF TypeInv, TypeOK, LocalsTyped
    <3>3. embedding \in Call /\ embedding.version = v /\ embedding.identity = e
      BY <3>1, <3>2 DEF Call, Pcs
    <3>4. calls' = [calls EXCEPT ![c] = embedding]
      BY <2>2, <3>2 DEF TypeInv, TypeOK, LocalsTyped, Call
    <3> QED
      BY <1>1, <3>3, <3>4, CallWritten
  <2> QED
    BY <2>3, <2>4, <2>5, <2>6, Same, FaultCounted DEF ClaimIndexSet, Kept
<1> QED
  BY <1>4, <1>5

\* A failure leaves a set that was indexing without chunk rows, and the version
\* and its file as what is active has them.
LEMMA RecordIndexFailureKeeps ==
  ASSUME TypeInv, NEW c \in Calls, RecordIndexFailure(c) PROVE Kept
<1> DEFINE v == calls[c].version
           e == calls[c].identity
           row == sets[<<v, e>>]
<1>1. v \in Versions /\ e \in Identities
  BY AtWork DEF RecordIndexFailure, Pcs
<1>2. row \in SetRow
  BY <1>1 DEF TypeInv, TypeOK, RowsTyped
<1>3. CallsKept
  BY Ends DEF RecordIndexFailure
<1>4. FaultsKept
  BY <1>1, FaultCounted DEF RecordIndexFailure
<1>5. SetsKept /\ VersionsKept /\ FilesKept
  <2>1. CASE UNCHANGED <<version, file, sets>>
    BY <2>1, Same
  <2>2. CASE ~UNCHANGED <<version, file, sets>>
    <3> DEFINE failed == [row EXCEPT !.status = "failed", !.chunks = FALSE]
    <3>1. failed \in SetRow /\ failed.status = "failed" /\ ~failed.chunks
      BY <1>2 DEF SetRow
    <3>2. /\ row.status = "indexing"
          /\ sets' = [sets EXCEPT ![<<v, e>>] = failed]
          /\ version' = [version EXCEPT ![v].index =
                            IF version[v].set = None THEN "failed"
                            ELSE IF Live(v) THEN "ready" ELSE @]
          /\ file' = [file EXCEPT ![v] = FileAfterFailure(v)]
      BY <2>2 DEF RecordIndexFailure, Claimed
    <3> HIDE DEF failed
    <3>3. SetsKept
      BY <1>1, <3>1, <3>2, SetWritten DEF SetChecks
    <3>4. VersionsKept
      <4>1. \/ version' = version
            \/ /\ version[v].set = None
               /\ version' = [version EXCEPT ![v].index = "failed"]
            \/ /\ version[v].set # None
               /\ version' = [version EXCEPT ![v].index = "ready"]
        BY <1>1, <3>2 DEF TypeInv, TypeOK, RowsTyped, VersionRow
      <4> QED
        BY <1>1, <4>1, IndexWritten, Same
    <3>5. FilesKept
      <4>1. FileAfterFailure(v) \in FileStatus
        BY <1>1 DEF FileAfterFailure, FileStatus, Live, TypeInv, TypeOK, RowsTyped
      <4> QED
        BY <1>1, <3>2, <4>1, FileWritten
    <3> QED
      BY <3>3, <3>4, <3>5
  <2> QED
    BY <2>1, <2>2
<1> QED
  BY <1>3, <1>4, <1>5, Same DEF RecordIndexFailure, Kept

(***************************************************************************)
(* The completion of an index set, the one step that publishes.            *)
(***************************************************************************)
Publishes(v, e) ==
  /\ sets[<<v, e>>].status # "ready" /\ ActiveAllows(active, v)
  /\ active' = v /\ version'[v].set = e
  /\ version'[v].parse = "ready" /\ chunkSet'[v] = "ready"
  /\ \A p \in Versions \X Identities :
       sets'[p].status = "ready" <=> p = <<v, e>> \/ sets[p].status = "ready"

\* The completion publishes the call's set, or keeps everything.
LEMMA CompletionPublishes ==
  ASSUME TypeInv, NEW c \in Calls, CompleteIndexSet(c)
  PROVE  Kept \/ (TypeInv' /\ \E v \in Versions, e \in Identities : Publishes(v, e))
<1> DEFINE v == calls[c].version
           e == calls[c].identity
           row == sets[<<v, e>>]
           ready == [row EXCEPT !.status = "ready", !.chunks = TRUE]
           indexed == [version[v] EXCEPT !.index = "ready", !.set = e]
<1>1. Working(c) /\ v \in Versions /\ e \in Identities
  BY AtWork DEF CompleteIndexSet, Pcs
<1>2. row \in SetRow /\ version[v] \in VersionRow
  BY <1>1 DEF TypeInv, TypeOK, RowsTyped
<1>3. CallsKept
  BY <1>1, GoesOn, Ends DEF CompleteIndexSet, Pcs
<1>4. \/ UNCHANGED <<active, version, file, sets>>
      \/ /\ Completable(c, v, e)
         /\ sets' = [sets EXCEPT ![<<v, e>>] = ready]
         /\ version' = [version EXCEPT ![v] = indexed]
         /\ active' = v
         /\ file' = [file EXCEPT ![v] = "ready"]
  BY DEF CompleteIndexSet
<1>7. FaultsKept
  BY FaultCounted DEF CompleteIndexSet
<1>5. CASE UNCHANGED <<active, version, file, sets>>
  BY <1>3, <1>5, <1>7, Same DEF CompleteIndexSet, Kept
<1>6. CASE ~UNCHANGED <<active, version, file, sets>>
  <2>1. /\ version[v].parse = "ready" /\ chunkSet[v] = "ready"
        /\ row.status = "indexing" /\ ActiveAllows(active, v)
    BY <1>4, <1>6 DEF Completable, Graph, Claimed
  <2>2. ready \in SetRow /\ ready.status = "ready" /\ ready.chunks
    BY <1>2 DEF SetRow
  <2>3. /\ indexed \in VersionRow /\ indexed.index = "ready"
        /\ indexed.set = e /\ indexed.parse = version[v].parse
    BY <1>1, <1>2 DEF VersionRow
  <2> HIDE DEF ready, indexed
  <2>4. /\ sets' \in [Versions \X Identities -> SetRow]
        /\ \A p \in Versions \X Identities :
             /\ SetChecks(sets'[p])
             /\ sets'[p].status = "ready" <=> p = <<v, e>> \/ sets[p].status = "ready"
    <3>1. /\ sets' = [sets EXCEPT ![<<v, e>>] = ready]
          /\ <<v, e>> \in Versions \X Identities
      BY <1>1, <1>4, <1>6
    <3>2. /\ sets \in [Versions \X Identities -> SetRow]
          /\ \A p \in Versions \X Identities : SetChecks(sets[p])
      BY DEF TypeInv, TypeOK, RowsTyped
    <3>3. sets' \in [Versions \X Identities -> SetRow]
      BY <2>2, <3>1, <3>2
    <3>4. sets'[<<v, e>>] = ready
      BY <3>1, <3>2
    <3>5. \A p \in Versions \X Identities : p # <<v, e>> => sets'[p] = sets[p]
      BY <3>1, <3>2
    <3>6. SetChecks(ready)
      BY <2>2 DEF SetChecks
    <3> QED
      BY <2>2, <3>2, <3>3, <3>4, <3>5, <3>6
  <2>5. /\ version' \in [Versions -> VersionRow] /\ version'[v] = indexed
        /\ \A w \in Versions : VersionChecks(version'[w])
    BY <1>1, <1>4, <1>6, <2>1, <2>3 DEF VersionChecks, TypeInv, TypeOK, RowsTyped
  <2>6. active' \in 0..MaxVersion /\ FilesKept
    BY <1>1, <1>4, <1>6, FileWritten, BoundsAssumption DEF FileStatus, Versions
  <2>7. ObjectsKept /\ FaultsKept /\ ChunkSetsKept /\ starts' \in 0..MaxStarts
    BY <1>7, Same DEF CompleteIndexSet
  <2>8. TypeInv'
    BY <1>3, <2>4, <2>5, <2>6, <2>7
    DEF TypeInv, TypeOK, RowsTyped, LocalsTyped, CallsKept, FilesKept, ObjectsKept,
        Objects, FaultsKept, ChunkSetsKept
  <2>9. Publishes(v, e)
    BY <1>1, <1>4, <1>6, <2>1, <2>3, <2>4, <2>5, <2>7 DEF Publishes, ChunkSetsKept
  <2> QED
    BY <1>1, <2>8, <2>9
<1> QED
  BY <1>5, <1>6

\* A step keeps everything or publishes one index set.
LEMMA NextKeepsOrPublishes ==
  ASSUME TypeInv, [Next]_vars
  PROVE  Kept \/ (TypeInv' /\ \E v \in Versions, e \in Identities : Publishes(v, e))
<1>1. CASE UNCHANGED vars
  <2>1. NoFault
    BY <1>1 DEF vars, NoFault
  <2> QED
    BY <1>1, <2>1, Same, FaultCounted DEF vars, rows, Kept
<1>2. ASSUME NEW v \in Versions, AddVersion(v) \/ DeleteFile(v) PROVE Kept
  BY <1>2, AddVersionKeeps, DeleteFileKeeps
<1>3. ASSUME NEW c \in Calls,
             \/ Start(c) \/ ClaimParse(c) \/ Parse(c) \/ CompleteParse(c)
             \/ UndoParse(c) \/ RecordParseFailure(c) \/ RecordEarlyFailure(c)
      PROVE  Kept
  BY <1>3, StartKeeps, ClaimParseKeeps, ParseKeeps, CompleteParseKeeps,
     UndoParseKeeps, RecordParseFailureKeeps, RecordEarlyFailureKeeps
<1>4. ASSUME NEW c \in Calls,
             \/ LoadParsed(c) \/ ClaimChunks(c) \/ Chunk(c) \/ CompleteChunks(c)
             \/ UndoChunks(c) \/ RecordChunkFailure(c) \/ ReloadChunks(c)
      PROVE  Kept
  BY <1>4, LoadParsedKeeps, ClaimChunksKeeps, ChunkKeeps, CompleteChunksKeeps,
     UndoChunksKeeps, RecordChunkFailureKeeps, ReloadChunksKeeps
<1>5. ASSUME NEW c \in Calls,
             \/ ReadActive(c) \/ ClaimIndexSet(c) \/ Embed(c)
             \/ RecordIndexFailure(c) \/ DatabaseFails(c) \/ Crash(c)
      PROVE  Kept
  BY <1>5, ReadActiveKeeps, ClaimIndexSetKeeps, EmbedKeeps,
     RecordIndexFailureKeeps, DatabaseFailsKeeps, CrashKeeps
<1>6. ASSUME NEW c \in Calls, CompleteIndexSet(c)
      PROVE  Kept \/ (TypeInv' /\ \E v \in Versions, e \in Identities : Publishes(v, e))
  BY <1>6, CompletionPublishes
<1> QED
  BY <1>1, <1>2, <1>3, <1>4, <1>5, <1>6 DEF Next

(***************************************************************************)
(* The theorems.                                                           *)
(***************************************************************************)
\* The initial state has the types, and no call is at work.
LEMMA InitType == Init => TypeInv
<1> SUFFICES ASSUME Init PROVE TypeInv
  OBVIOUS
<1>1. Idle \in Call /\ Idle.pc = "idle"
  BY BoundsAssumption DEF Idle, Call, Pcs
<1>2. LocalsTyped /\ CallsWork
  BY <1>1, BoundsAssumption DEF Init, LocalsTyped, CallsWork, Working
<1>3. RowsTyped
  BY BoundsAssumption DEF Init, RowsTyped, VersionRow, SetRow, FileStatus
<1>4. /\ \A v \in Versions : VersionChecks(version[v])
      /\ \A p \in Versions \X Identities : SetChecks(sets[p])
  BY DEF Init, VersionChecks, SetChecks
<1> QED
  BY <1>2, <1>3, <1>4 DEF TypeInv, TypeOK

\* The inductive type invariant.
LEMMA TypeInvariant == Spec => []TypeInv
<1>1. TypeInv /\ [Next]_vars => TypeInv'
  BY NextKeepsOrPublishes, KeptType
<1> QED
  BY <1>1, InitType, PTL DEF Spec

\* The rows of the pipeline have their types and no transaction runs into a
\* CHECK constraint between their columns (models/knowledge.py), for every
\* number of versions, calls and embedding identities.
THEOREM TypeCorrect == Spec => []TypeOK
<1>1. TypeInv => TypeOK
  BY DEF TypeInv
<1> QED
  BY <1>1, TypeInvariant, PTL

\* Whatever calls race, fail or die, the active version is parsed, chunked and
\* indexed, and the set it names is ready with its chunk rows (what
\* authorized_active_chunks_statement relies on).
THEOREM ActiveAlwaysServed == Spec => []ActiveServed
<1>1. Init => ActiveServed
  BY DEF Init, ActiveServed
<1>2. TypeInv /\ TypeInv' /\ ActiveServed /\ [Next]_vars => ActiveServed'
  <2> SUFFICES ASSUME TypeInv, TypeInv', ActiveServed, [Next]_vars, active' # 0
               PROVE  ActiveServed'
    BY DEF ActiveServed
  <2>1. CASE Kept
    <3>1. active \in Versions /\ active' = active
      BY <2>1, BoundsAssumption DEF Kept, TypeInv, TypeOK, RowsTyped, Versions
    <3>2. version[active].set \in Identities
      BY <3>1 DEF ActiveServed, TypeInv, TypeOK, RowsTyped, VersionRow
    <3>3. /\ version'[active].parse = "ready" /\ chunkSet'[active] = "ready"
          /\ version'[active].set = version[active].set
          /\ sets'[<<active, version[active].set>>].status = "ready"
      BY <2>1, <3>1, <3>2
      DEF ActiveServed, Kept, VersionsKept, ChunkSetsKept, SetsKept
    <3> QED
      BY <3>1, <3>2, <3>3, NoneAssumption
      DEF ActiveServed, TypeInv, TypeOK, VersionChecks, SetChecks
  <2>2. CASE \E v \in Versions, e \in Identities : Publishes(v, e)
    <3>1. PICK v \in Versions, e \in Identities : Publishes(v, e)
      BY <2>2
    <3>2. /\ active' = v /\ version'[v].set = e /\ e # None
          /\ version'[v].parse = "ready" /\ chunkSet'[v] = "ready"
          /\ sets'[<<v, e>>].status = "ready"
      BY <3>1, NoneAssumption DEF Publishes
    <3> QED
      BY <3>2 DEF ActiveServed, TypeInv, TypeOK, VersionChecks, SetChecks
  <2> QED
    BY <2>1, <2>2, NextKeepsOrPublishes
<1> QED
  BY <1>1, <1>2, TypeInvariant, PTL DEF Spec

\* The pipeline implements ActiveIndex: every step leaves readers what they
\* have or publishes one complete set, and an older version never replaces a
\* newer one (complete_index_set, _active_version_allows).
THEOREM ServesActiveIndex == Spec => ImplementsActiveIndex
<1>1. Init => Readers!Init
  BY DEF Init, Readers!Init
<1>2. ASSUME TypeInv, ActiveServed, [Next]_vars
      PROVE  [Readers!Next]_(Readers!indexVars)
  <2>1. CASE Kept
    <3>1. active # 0 => active \in Versions
      BY <1>2, BoundsAssumption DEF TypeInv, TypeOK, RowsTyped, Versions
    <3>2. UNCHANGED <<{p \in Versions \X Identities : sets[p].status = "ready"},
                      IF active = 0 THEN <<>> ELSE <<active, version[active].set>> >>
      BY <2>1, <3>1 DEF Kept, SetsKept, VersionsKept
    <3> QED
      BY <3>2 DEF Readers!indexVars
  <2>2. CASE \E v \in Versions, e \in Identities : Publishes(v, e)
    <3>1. PICK v \in Versions, e \in Identities : Publishes(v, e)
      BY <2>2
    <3>2. Readers!Publish(v, e)
      BY <3>1, BoundsAssumption
      DEF Readers!Publish, Publishes, ActiveAllows, Versions
    <3> QED
      BY <3>2 DEF Readers!Next
  <2> QED
    BY <1>2, <2>1, <2>2, NextKeepsOrPublishes
<1> QED
  BY <1>1, <1>2, TypeInvariant, ActiveAlwaysServed, PTL
  DEF Spec, ImplementsActiveIndex, Readers!Spec

\* A version is lost for good, and so is what a commit did without being heard.
LEMMA LostStays == Next => lost \subseteq lost' /\ unheard \subseteq unheard'
<1>1. ASSUME NEW v \in Versions, AddVersion(v) \/ DeleteFile(v)
      PROVE  lost \subseteq lost' /\ unheard \subseteq unheard'
  BY <1>1 DEF AddVersion, DeleteFile, NoFault
<1>2. ASSUME NEW c \in Calls,
             Start(c) \/ ClaimParse(c) \/ Parse(c) \/ CompleteParse(c) \/ UndoParse(c)
      PROVE  lost \subseteq lost' /\ unheard \subseteq unheard'
  BY <1>2 DEF Start, ClaimParse, Parse, CompleteParse, UndoParse, Deleted, NoFault,
              Fault, Unheard
<1>3. ASSUME NEW c \in Calls,
             \/ RecordParseFailure(c) \/ RecordEarlyFailure(c) \/ LoadParsed(c)
             \/ ClaimChunks(c) \/ Chunk(c)
      PROVE  lost \subseteq lost' /\ unheard \subseteq unheard'
  BY <1>3 DEF RecordParseFailure, RecordEarlyFailure, LoadParsed, ClaimChunks, Chunk,
              NoFault, Fault
<1>4. ASSUME NEW c \in Calls,
             \/ CompleteChunks(c) \/ UndoChunks(c) \/ RecordChunkFailure(c)
             \/ ReloadChunks(c) \/ ReadActive(c)
      PROVE  lost \subseteq lost' /\ unheard \subseteq unheard'
  BY <1>4 DEF CompleteChunks, UndoChunks, RecordChunkFailure, ReloadChunks, ReadActive,
              Deleted, NoFault, Fault, Unheard
<1>5. ASSUME NEW c \in Calls,
             \/ ClaimIndexSet(c) \/ Embed(c) \/ CompleteIndexSet(c)
             \/ RecordIndexFailure(c) \/ DatabaseFails(c) \/ Crash(c)
      PROVE  lost \subseteq lost' /\ unheard \subseteq unheard'
  BY <1>5 DEF ClaimIndexSet, Embed, CompleteIndexSet, RecordIndexFailure,
              DatabaseFails, Crash, NoFault, Fault, Unheard
<1> QED
  BY <1>1, <1>2, <1>3, <1>4, <1>5 DEF Next

(***************************************************************************)
(* The claims exclude each other.  A phase has the pcs in which a call     *)
(* works in it and the versions whose rows say that it is claimed; the     *)
(* inductive invariant is that a worker's version is claimed and that two  *)
(* workers do not share one.  Claimed versions without a worker may exist, *)
(* after a crash.  A row whose completion was not heard of counts as       *)
(* claimed: it is ready, so that nobody can claim it, and its call is      *)
(* still there to compensate and to record a failure.                      *)
(***************************************************************************)
Exclusive(pcs, held, cs) ==
  /\ \A c \in Calls : cs[c].pc \in pcs => cs[c].version \in held
  /\ \A c, d \in Calls :
       cs[c].pc \in pcs /\ cs[d].pc \in pcs /\ cs[c].version = cs[d].version => c = d

ParsingHeld == {v \in Versions : version[v].parse = "parsing"}
ChunkingHeld == {v \in Versions : chunkSet[v] = "chunking"}
ParsingTaken ==
  ParsingHeld \cup
    {v \in Versions : version[v].parse = "ready" /\ ParsedKey(v) \in unheard}
ChunkingTaken ==
  ChunkingHeld \cup
    {v \in Versions : chunkSet[v] = "ready" /\ ChunkKey(v) \in unheard}
IndexingHeld ==
  {v \in Versions : \E e \in Identities : sets[<<v, e>>].status = "indexing"}

WorkInv ==
  /\ Exclusive(Parsing, ParsingTaken, calls)
  /\ Exclusive(Chunking, ChunkingTaken, calls)
  /\ Exclusive(Indexing, IndexingHeld, calls)

\* A step of one call keeps a phase exclusive if the call is outside afterwards
\* and at most its own claim was given up, or stays inside, or enters with a
\* claim on a version that was free.
LEMMA StepExclusive ==
  ASSUME NEW c \in Calls, NEW pcs, NEW held, NEW kept, NEW cs, NEW next,
         Exclusive(pcs, held, cs),
         \A d \in Calls : d # c => next[d] = cs[d],
         \/ next[c].pc \notin pcs /\ held \subseteq kept
         \/ /\ next[c].pc \notin pcs /\ cs[c].pc \in pcs
            /\ held \ {cs[c].version} \subseteq kept
         \/ /\ next[c].pc \in pcs /\ cs[c].pc \in pcs
            /\ next[c].version = cs[c].version /\ held \subseteq kept
         \/ /\ next[c].version \notin held
            /\ next[c].version \in kept /\ held \subseteq kept
  PROVE  Exclusive(pcs, kept, next)
BY DEF Exclusive

\* How a call's own steps change calls.
LEMMA Moved ==
  ASSUME TypeInv, NEW c \in Calls
  PROVE  /\ \A pc : Goto(c, pc) =>
              /\ \A d \in Calls : d # c => calls'[d] = calls[d]
              /\ calls'[c].pc = pc /\ calls'[c].version = calls[c].version
              /\ calls'[c].identity = calls[c].identity
              /\ calls'[c].attempt = calls[c].attempt
         /\ Raise(c) \/ Return(c) =>
              /\ \A d \in Calls : d # c => calls'[d] = calls[d]
              /\ calls'[c].pc \in {"idle", "returned"}
BY DEF TypeInv, TypeOK, LocalsTyped, Call, Goto, Raise, Return, Idle

\* A step that claims and gives up nothing, by a call that enters no phase.
Advances(c) ==
  /\ \A d \in Calls : d # c => calls'[d] = calls[d]
  /\ \A phase \in {Parsing, Chunking, Indexing} :
       calls'[c].pc \in phase =>
         calls[c].pc \in phase /\ calls'[c].version = calls[c].version

\* Such a step keeps every phase exclusive.
LEMMA AdvanceExcludes ==
  ASSUME WorkInv, NEW c \in Calls, Advances(c),
         ParsingTaken \subseteq ParsingTaken', ChunkingTaken \subseteq ChunkingTaken',
         IndexingHeld \subseteq IndexingHeld'
  PROVE  WorkInv'
<1>1. Exclusive(Parsing, ParsingTaken', calls')
  BY StepExclusive DEF WorkInv, Advances
<1>2. Exclusive(Chunking, ChunkingTaken', calls')
  BY StepExclusive DEF WorkInv, Advances
<1>3. Exclusive(Indexing, IndexingHeld', calls')
  BY StepExclusive DEF WorkInv, Advances
<1> QED
  BY <1>1, <1>2, <1>3 DEF WorkInv, Exclusive, Parsing, Chunking, Indexing

\* The steps that write no row.
LEMMA NoRowExcludes ==
  ASSUME TypeInv, WorkInv, NEW c \in Calls,
         \/ Start(c) \/ Parse(c) \/ UndoParse(c) \/ LoadParsed(c) \/ Chunk(c)
         \/ UndoChunks(c) \/ ReloadChunks(c) \/ ReadActive(c) \/ Embed(c)
         \/ DatabaseFails(c) \/ Crash(c)
  PROVE  WorkInv'
<1> SUFFICES Advances(c)
  <2>1. UNCHANGED rows
    BY DEF Start, Parse, UndoParse, LoadParsed, Chunk, UndoChunks, ReloadChunks,
           ReadActive, Embed, DatabaseFails, Crash
  <2>2. unheard \subseteq unheard'
    BY LostStays DEF Next
  <2> QED
    BY <2>1, <2>2, AdvanceExcludes
    DEF rows, ParsingTaken, ChunkingTaken, ParsingHeld, ChunkingHeld, IndexingHeld
<1> USE DEF At, Parsing, Chunking, Indexing
<1>1. CASE Start(c)
  BY <1>1 DEF Start, Advances, TypeInv, TypeOK, LocalsTyped
<1>2. CASE Parse(c)
  BY <1>2, Moved DEF Parse, Advances
<1>3. CASE UndoParse(c)
  BY <1>3, Moved DEF UndoParse, Advances
<1>4. CASE LoadParsed(c)
  BY <1>4, Moved DEF LoadParsed, Advances
<1>5. CASE Chunk(c)
  BY <1>5, Moved DEF Chunk, Advances
<1>6. CASE UndoChunks(c)
  BY <1>6, Moved DEF UndoChunks, Advances
<1>7. CASE ReloadChunks(c)
  BY <1>7, Moved DEF ReloadChunks, Advances
<1>8. CASE ReadActive(c)
  BY <1>8 DEF ReadActive, Advances, TypeInv, TypeOK, LocalsTyped, Call
<1>9. CASE Embed(c)
  BY <1>9, Moved DEF Embed, Advances
<1>10. CASE DatabaseFails(c) \/ Crash(c)
  BY <1>10, Moved DEF DatabaseFails, Crash, Advances
<1> QED
  BY <1>1, <1>2, <1>3, <1>4, <1>5, <1>6, <1>7, <1>8, <1>9, <1>10

\* Only the claims of parsing, its completion and its failure write a version's
\* parse status.
LEMMA ParseStatusStays ==
  ASSUME TypeInv, NEW c \in Calls,
         \/ RecordEarlyFailure(c) \/ ClaimIndexSet(c) \/ CompleteIndexSet(c)
         \/ RecordIndexFailure(c)
  PROVE  \A w \in Versions : version'[w].parse = version[w].parse
<1> DEFINE v == calls[c].version
           e == calls[c].identity
<1>1. v \in Versions
  BY AtWork DEF RecordEarlyFailure, ClaimIndexSet, CompleteIndexSet, RecordIndexFailure, Pcs
<1>2. \/ version' = version
      \/ \E i : version' = [version EXCEPT ![v].index = i]
      \/ version' = [version EXCEPT ![v] = [@ EXCEPT !.index = "ready", !.set = e]]
  BY DEF RecordEarlyFailure, Restored, ClaimIndexSet, CompleteIndexSet, RecordIndexFailure
<1>3. /\ version = [w \in Versions |-> version[w]]
      /\ \A w \in Versions : version[w] \in VersionRow
  BY DEF TypeInv, TypeOK, RowsTyped
<1>4. CASE \E i : version' = [version EXCEPT ![v].index = i]
  BY <1>1, <1>3, <1>4 DEF VersionRow
<1>5. CASE version' = [version EXCEPT ![v] = [@ EXCEPT !.index = "ready", !.set = e]]
  BY <1>1, <1>3, <1>5 DEF VersionRow
<1> QED
  BY <1>2, <1>4, <1>5

\* The late record of a failure writes no claim.
LEMMA EarlyFailureExcludes ==
  ASSUME TypeInv, WorkInv, NEW c \in Calls, RecordEarlyFailure(c)
  PROVE  WorkInv'
<1>1. Advances(c)
  BY Moved DEF RecordEarlyFailure, Advances, Parsing, Chunking, Indexing
<1>2. \A v \in Versions : version'[v].parse = version[v].parse
  BY ParseStatusStays
<1>3. unheard \subseteq unheard'
  BY LostStays DEF Next
<1> QED
  BY <1>1, <1>2, <1>3, AdvanceExcludes
  DEF RecordEarlyFailure, ParsingTaken, ChunkingTaken, ParsingHeld, ChunkingHeld,
      IndexingHeld

\* The other routes claim nothing and give nothing up.
LEMMA RoutesExclude ==
  ASSUME TypeInv, WorkInv, NEW v \in Versions, AddVersion(v) \/ DeleteFile(v)
  PROVE  WorkInv'
<1>1. calls' = calls /\ chunkSet' = chunkSet /\ sets' = sets /\ unheard' = unheard
  BY DEF AddVersion, DeleteFile, NoFault
<1>2. ParsingTaken \subseteq ParsingTaken'
  <2>1. CASE AddVersion(v)
    <3>1. version[v].parse = "absent"
      BY <2>1 DEF AddVersion, Exists, Versions
    <3>2. \A w \in Versions : w # v => version'[w] = version[w]
      BY <2>1 DEF AddVersion, TypeInv, TypeOK, RowsTyped
    <3> QED
      BY <1>1, <3>1, <3>2 DEF ParsingTaken, ParsingHeld
  <2>2. CASE DeleteFile(v)
    BY <1>1, <2>2 DEF DeleteFile, ParsingTaken, ParsingHeld
  <2> QED
    BY <2>1, <2>2
<1> QED
  BY <1>1, <1>2
  DEF WorkInv, Exclusive, ChunkingTaken, ChunkingHeld, IndexingHeld, Parsing, Chunking,
      Indexing

\* Parsing: claim, completion and failure.
LEMMA ParsingExcludes ==
  ASSUME TypeInv, WorkInv, NEW c \in Calls,
         ClaimParse(c) \/ CompleteParse(c) \/ RecordParseFailure(c)
  PROVE  WorkInv'
<1> DEFINE v == calls[c].version
<1>1. v \in Versions
  BY AtWork DEF ClaimParse, CompleteParse, RecordParseFailure, Pcs
<1>2. \A d \in Calls : d # c => calls'[d] = calls[d]
  BY Moved DEF ClaimParse, CompleteParse, RecordParseFailure
<1>3. calls'[c].pc \notin Chunking \cup Indexing
  BY Moved DEF ClaimParse, CompleteParse, RecordParseFailure, Chunking, Indexing
<1>8. unheard \subseteq unheard'
  BY LostStays DEF Next
<1>4. ChunkingTaken \subseteq ChunkingTaken' /\ IndexingHeld' = IndexingHeld
  BY <1>8 DEF ClaimParse, CompleteParse, RecordParseFailure, ChunkingTaken, ChunkingHeld,
     IndexingHeld
<1>5. Exclusive(Chunking, ChunkingTaken', calls')
  BY <1>2, <1>3, <1>4, StepExclusive DEF WorkInv
<1>6. Exclusive(Indexing, IndexingHeld', calls')
  BY <1>2, <1>3, <1>4, StepExclusive DEF WorkInv
<1>7. Exclusive(Parsing, ParsingTaken', calls')
  <2>1. CASE ClaimParse(c)
    <3>1. CASE ParseClaimable(v) /\ version' = [version EXCEPT ![v].parse = "parsing"]
               /\ Goto(c, "parse")
      <4>1. v \notin ParsingTaken /\ ParsingTaken \cup {v} \subseteq ParsingTaken'
        BY <1>1, <1>8, <3>1
        DEF ParsingTaken, ParsingHeld, ParseClaimable, TypeInv, TypeOK, RowsTyped,
            VersionRow
      <4>2. calls'[c].version = v
        BY <3>1, Moved
      <4> QED
        BY <1>2, <4>1, <4>2, StepExclusive DEF WorkInv
    <3>2. CASE Raise(c) /\ version' = version
      <4>1. calls'[c].pc \notin Parsing /\ ParsingTaken \subseteq ParsingTaken'
        BY <1>8, <3>2, Moved DEF Parsing, ParsingTaken, ParsingHeld
      <4> QED
        BY <1>2, <4>1, StepExclusive DEF WorkInv
    <3> QED
      BY <2>1, <3>1, <3>2 DEF ClaimParse
  <2>2. CASE CompleteParse(c) \/ RecordParseFailure(c)
    <3>1. calls[c].pc \in Parsing /\ calls'[c].version = v
      BY <2>2, Moved DEF CompleteParse, RecordParseFailure, At, Parsing
    <3>2. ParsingTaken \ {v} \subseteq ParsingTaken'
      BY <1>1, <1>8, <2>2
      DEF CompleteParse, RecordParseFailure, ParsingTaken, ParsingHeld, TypeInv, TypeOK,
          RowsTyped, VersionRow
    <3>3. CASE version' = version
      <4>1. ParsingTaken \subseteq ParsingTaken'
        BY <1>8, <3>3 DEF ParsingTaken, ParsingHeld
      <4> QED
        BY <1>2, <3>1, <4>1, StepExclusive DEF WorkInv
    <3>4. CASE calls'[c].pc \notin Parsing
      BY <1>2, <3>1, <3>2, <3>4, StepExclusive DEF WorkInv
    <3>5. CASE version' = [version EXCEPT ![v].parse = "ready"] /\ Unheard({ParsedKey(v)})
               /\ Goto(c, "undo_parse")
      <4>1. v \in ParsingTaken'
        BY <1>1, <3>5
        DEF Unheard, ParsingTaken, TypeInv, TypeOK, RowsTyped, VersionRow
      <4>2. ParsingTaken \subseteq ParsingTaken' /\ calls'[c].pc \in Parsing
        BY <3>2, <3>5, <4>1, Moved DEF Parsing
      <4> QED
        BY <1>2, <3>1, <4>2, StepExclusive DEF WorkInv
    <3> QED
      BY <2>2, <3>3, <3>4, <3>5, Moved
      DEF CompleteParse, RecordParseFailure, Parsing
  <2> QED
    BY <2>1, <2>2
<1> QED
  BY <1>5, <1>6, <1>7 DEF WorkInv, Exclusive, Parsing, Chunking, Indexing

\* Chunking: claim, completion and failure.
LEMMA ChunkingExcludes ==
  ASSUME TypeInv, WorkInv, NEW c \in Calls,
         ClaimChunks(c) \/ CompleteChunks(c) \/ RecordChunkFailure(c)
  PROVE  WorkInv'
<1> DEFINE v == calls[c].version
<1>1. v \in Versions
  BY AtWork DEF ClaimChunks, CompleteChunks, RecordChunkFailure, Pcs
<1>2. \A d \in Calls : d # c => calls'[d] = calls[d]
  BY Moved DEF ClaimChunks, CompleteChunks, RecordChunkFailure
<1>3. calls'[c].pc \notin Parsing \cup Indexing
  BY Moved DEF ClaimChunks, CompleteChunks, RecordChunkFailure, Parsing, Indexing
<1>8. unheard \subseteq unheard'
  BY LostStays DEF Next
<1>4. ParsingTaken \subseteq ParsingTaken' /\ IndexingHeld' = IndexingHeld
  BY <1>8 DEF ClaimChunks, CompleteChunks, RecordChunkFailure, ParsingTaken, ParsingHeld,
     IndexingHeld
<1>5. Exclusive(Parsing, ParsingTaken', calls')
  BY <1>2, <1>3, <1>4, StepExclusive DEF WorkInv
<1>6. Exclusive(Indexing, IndexingHeld', calls')
  BY <1>2, <1>3, <1>4, StepExclusive DEF WorkInv
<1>7. Exclusive(Chunking, ChunkingTaken', calls')
  <2>1. CASE ClaimChunks(c)
    <3>1. CASE ChunksClaimable(v) /\ chunkSet' = [chunkSet EXCEPT ![v] = "chunking"]
               /\ Goto(c, "chunk")
      <4>1. v \notin ChunkingTaken /\ ChunkingTaken \cup {v} \subseteq ChunkingTaken'
        BY <1>1, <1>8, <3>1
        DEF ChunkingTaken, ChunkingHeld, ChunksClaimable, TypeInv, TypeOK, RowsTyped
      <4>2. calls'[c].version = v
        BY <3>1, Moved
      <4> QED
        BY <1>2, <4>1, <4>2, StepExclusive DEF WorkInv
    <3>2. CASE Raise(c) /\ chunkSet' = chunkSet
      <4>1. calls'[c].pc \notin Chunking /\ ChunkingTaken \subseteq ChunkingTaken'
        BY <1>8, <3>2, Moved DEF Chunking, ChunkingTaken, ChunkingHeld
      <4> QED
        BY <1>2, <4>1, StepExclusive DEF WorkInv
    <3> QED
      BY <2>1, <3>1, <3>2 DEF ClaimChunks
  <2>2. CASE CompleteChunks(c) \/ RecordChunkFailure(c)
    <3>1. calls[c].pc \in Chunking /\ calls'[c].version = v
      BY <2>2, Moved DEF CompleteChunks, RecordChunkFailure, At, Chunking
    <3>2. ChunkingTaken \ {v} \subseteq ChunkingTaken'
      BY <1>1, <1>8, <2>2
      DEF CompleteChunks, RecordChunkFailure, ChunkingTaken, ChunkingHeld, TypeInv, TypeOK,
          RowsTyped
    <3>3. CASE chunkSet' = chunkSet
      <4>1. ChunkingTaken \subseteq ChunkingTaken'
        BY <1>8, <3>3 DEF ChunkingTaken, ChunkingHeld
      <4> QED
        BY <1>2, <3>1, <4>1, StepExclusive DEF WorkInv
    <3>4. CASE calls'[c].pc \notin Chunking
      BY <1>2, <3>1, <3>2, <3>4, StepExclusive DEF WorkInv
    <3>5. CASE chunkSet' = [chunkSet EXCEPT ![v] = "ready"] /\ Unheard({ChunkKey(v)})
               /\ Goto(c, "undo_chunks")
      <4>1. v \in ChunkingTaken'
        BY <1>1, <3>5 DEF Unheard, ChunkingTaken, TypeInv, TypeOK, RowsTyped
      <4>2. ChunkingTaken \subseteq ChunkingTaken' /\ calls'[c].pc \in Chunking
        BY <3>2, <3>5, <4>1, Moved DEF Chunking
      <4> QED
        BY <1>2, <3>1, <4>2, StepExclusive DEF WorkInv
    <3> QED
      BY <2>2, <3>3, <3>4, <3>5, Moved
      DEF CompleteChunks, RecordChunkFailure, Chunking
  <2> QED
    BY <2>1, <2>2
<1> QED
  BY <1>5, <1>6, <1>7 DEF WorkInv, Exclusive, Parsing, Chunking, Indexing

\* Indexing: the claim of a version under an identity looks at the sets of all
\* identities, its end only at its own.
LEMMA IndexingExcludes ==
  ASSUME TypeInv, WorkInv, NEW c \in Calls,
         ClaimIndexSet(c) \/ CompleteIndexSet(c) \/ RecordIndexFailure(c)
  PROVE  WorkInv'
<1> DEFINE v == calls[c].version
           e == calls[c].identity
           entry == [calls EXCEPT ![c].pc = "embed",
                                  ![c].attempt = sets[<<v, e>>].attempt + 1]
<1>1. v \in Versions /\ e \in Identities
  BY AtWork DEF ClaimIndexSet, CompleteIndexSet, RecordIndexFailure, Pcs
<1>2. calls' = entry \/ Goto(c, "record_index") \/ Raise(c) \/ Return(c)
  BY DEF ClaimIndexSet, CompleteIndexSet, RecordIndexFailure
<1>3. /\ \A d \in Calls : d # c => entry[d] = calls[d]
      /\ entry[c].pc = "embed" /\ entry[c].version = v
  BY DEF TypeInv, TypeOK, LocalsTyped, Call
<1> HIDE DEF entry
<1>4. \A d \in Calls : d # c => calls'[d] = calls[d]
  BY <1>2, <1>3, Moved
<1>5. calls'[c].pc \notin Parsing \cup Chunking
  BY <1>2, <1>3, Moved DEF Parsing, Chunking
<1>6. \A w \in Versions : version'[w].parse = version[w].parse
  BY ParseStatusStays
<1>11. unheard \subseteq unheard'
  BY LostStays DEF Next
<1>7. ParsingTaken \subseteq ParsingTaken' /\ ChunkingTaken \subseteq ChunkingTaken'
  BY <1>6, <1>11
  DEF ClaimIndexSet, CompleteIndexSet, RecordIndexFailure, ParsingTaken, ChunkingTaken,
      ParsingHeld, ChunkingHeld
<1>8. Exclusive(Parsing, ParsingTaken', calls')
  BY <1>4, <1>5, <1>7, StepExclusive DEF WorkInv
<1>9. Exclusive(Chunking, ChunkingTaken', calls')
  BY <1>4, <1>5, <1>7, StepExclusive DEF WorkInv
<1>10. Exclusive(Indexing, IndexingHeld', calls')
  <2>1. CASE sets' = sets /\ calls' # entry
    <3>1. IndexingHeld' = IndexingHeld
      BY <2>1 DEF IndexingHeld
    <3>2. CASE calls'[c].pc \notin Indexing
      BY <1>4, <3>1, <3>2, StepExclusive DEF WorkInv
    <3>3. CASE CompleteIndexSet(c) /\ Goto(c, "record_index")
      <4>1. /\ calls[c].pc \in Indexing /\ calls'[c].pc \in Indexing
            /\ calls'[c].version = v
        BY <3>3, Moved DEF CompleteIndexSet, At, Indexing
      <4> QED
        BY <1>4, <3>1, <4>1, StepExclusive DEF WorkInv
    <3> QED
      BY <2>1, <3>2, <3>3, Moved
      DEF ClaimIndexSet, CompleteIndexSet, RecordIndexFailure, Indexing, entry
  <2>2. CASE ClaimIndexSet(c) /\ calls' = entry
    <3>1. /\ SetClaimable(c, v, e) /\ Reclaimable(sets[<<v, e>>])
          /\ sets' = [sets EXCEPT ![<<v, e>>] =
               [sets[<<v, e>>] EXCEPT !.status = "indexing",
                                      !.attempt = sets[<<v, e>>].attempt + 1]]
      <4>1. calls'[c].pc = "embed"
        BY <1>3, <2>2
      <4> QED
        BY <2>2, <4>1, Moved DEF ClaimIndexSet, entry
    <3>2. v \notin IndexingHeld
      BY <1>1, <3>1 DEF SetClaimable, OtherCandidate, Reclaimable, IndexingHeld
    <3>3. IndexingHeld \cup {v} \subseteq IndexingHeld'
      BY <1>1, <3>1 DEF IndexingHeld, TypeInv, TypeOK, RowsTyped, SetRow
    <3> QED
      BY <1>3, <1>4, <2>2, <3>2, <3>3, StepExclusive DEF WorkInv
  <2>3. CASE /\ CompleteIndexSet(c) \/ RecordIndexFailure(c)
             /\ Return(c) \/ Raise(c)
    <3>1. calls[c].pc \in Indexing /\ calls'[c].pc \notin Indexing
      BY <2>3, Moved DEF CompleteIndexSet, RecordIndexFailure, At, Indexing
    <3>2. \A w \in Versions, d \in Identities : w # v =>
            sets'[<<w, d>>] = sets[<<w, d>>]
      BY <1>1, <2>3
      DEF CompleteIndexSet, RecordIndexFailure, TypeInv, TypeOK, RowsTyped
    <3>3. IndexingHeld \ {v} \subseteq IndexingHeld'
      BY <3>2 DEF IndexingHeld
    <3> QED
      BY <1>4, <3>1, <3>3, StepExclusive DEF WorkInv
  <2>4. CASE ClaimIndexSet(c)
    <3>1. calls' = entry \/ sets' = sets
      BY <2>4 DEF ClaimIndexSet, entry
    <3> QED
      BY <2>1, <2>2, <2>4, <3>1
  <2>5. CASE CompleteIndexSet(c) \/ RecordIndexFailure(c)
    <3>1. calls' # entry
      <4>1. calls'[c].pc # "embed"
        <5>1. Goto(c, "record_index") \/ Raise(c) \/ Return(c)
          BY <2>5 DEF CompleteIndexSet, RecordIndexFailure
        <5> QED
          BY <5>1, Moved
      <4> QED
        BY <1>3, <4>1
    <3> QED
      BY <2>1, <2>3, <2>5, <3>1 DEF CompleteIndexSet, RecordIndexFailure
  <2> QED
    BY <2>4, <2>5
<1> QED
  BY <1>8, <1>9, <1>10 DEF WorkInv, Exclusive, Parsing, Chunking, Indexing

\* A worker's version is claimed, and no two workers of a phase share one.
LEMMA WorkInvariant == Spec => []WorkInv
<1>1. Init => WorkInv
  BY DEF Init, WorkInv, Exclusive, Idle, Parsing, Chunking, Indexing
<1>2. TypeInv /\ WorkInv /\ [Next]_vars => WorkInv'
  <2> SUFFICES ASSUME TypeInv, WorkInv, [Next]_vars PROVE WorkInv'
    OBVIOUS
  <2>1. CASE UNCHANGED vars
    BY <2>1 DEF vars, rows, WorkInv, Exclusive, ParsingTaken, ChunkingTaken, ParsingHeld,
                ChunkingHeld, IndexingHeld, Parsing, Chunking, Indexing
  <2>2. CASE Next
    BY <2>2, RoutesExclude, NoRowExcludes, EarlyFailureExcludes, ParsingExcludes,
       ChunkingExcludes, IndexingExcludes DEF Next
  <2> QED
    BY <2>1, <2>2
<1> QED
  BY <1>1, <1>2, TypeInvariant, PTL DEF Spec

\* At most one call parses a version, one chunks it and one indexes it, for
\* every number of calls, versions and identities: no step outside of the
\* transactions needs a lock of its own (claim_parse, claim_chunk_set,
\* claim_index_set).
THEOREM ClaimsExclude == Spec => []OneWorker
<1>1. WorkInv => OneWorker
  BY DEF WorkInv, Exclusive, OneWorker
<1> QED
  BY <1>1, WorkInvariant, PTL

(***************************************************************************)
(* Quiet versions.  Whatever a version is in the middle of, a claim, an    *)
(* object that no ready row names, is the business of a call at work,      *)
(* unless a call was lost at the version.                                  *)
(***************************************************************************)
Attended(pcs, held, gone, cs) ==
  \A v \in held \ gone : \E c \in Calls : cs[c].version = v /\ cs[c].pc \in pcs

\* A version whose index, file or set is being made.
BusyHeld ==
  {v \in Versions : version[v].index = "indexing" \/ file[v] = "indexing"}

\* A call that indexes holds the claim of its own version, identity and attempt.
ClaimsHeld ==
  \A c \in Calls : calls[c].pc \in Indexing =>
    Claimed(c, calls[c].version, calls[c].identity)

\* A claimed set has the call that claimed it.
SetsAttended ==
  \A v \in Versions \ lost, e \in Identities :
    sets[<<v, e>>].status = "indexing" =>
      \E c \in Calls : /\ calls[c].version = v /\ calls[c].identity = e
                       /\ calls[c].pc \in Indexing

FilesFollow ==
  \A v \in Versions : file[v] \in {"indexing", "ready"} => version[v].parse = "ready"

QuietInv ==
  /\ Attended(Parsing, ParsingHeld, lost, calls)
  /\ Attended(Chunking, ChunkingHeld, lost, calls)
  /\ Attended(Indexing, BusyHeld, lost, calls)
  /\ ClaimsHeld /\ SetsAttended /\ FilesFollow

\* The versions with a ready row, those with an object, and those whose row
\* became ready unheard.
Backed(complete, undo, ready, has, excused, gone, cs) ==
  /\ ready \subseteq has \cup excused
  /\ \A v \in has \ gone :
       v \in ready \/ \E c \in Calls : cs[c].version = v /\ cs[c].pc \in {complete, undo}
  /\ \A c \in Calls : cs[c].pc = complete => cs[c].version \in has

Parsed == {v \in Versions : version[v].parse = "ready"}
HasParsed == {v \in Versions : ParsedKey(v) \in objects}
ParsedUnheard == {v \in Versions : ParsedKey(v) \in unheard}
Chunked == {v \in Versions : chunkSet[v] = "ready"}
HasChunks == {v \in Versions : ChunkKey(v) \in objects}
ChunkedUnheard == {v \in Versions : ChunkKey(v) \in unheard}

ObjectsInv ==
  /\ Backed("complete_parse", "undo_parse", Parsed, HasParsed, ParsedUnheard,
            lost, calls)
  /\ Backed("complete_chunks", "undo_chunks", Chunked, HasChunks, ChunkedUnheard,
            lost, calls)

\* Writing an object, completing the row it belongs to, deleting it, and moving
\* on, for one call and one kind of object.
LEMMA BackedStep ==
  ASSUME NEW c \in Calls, NEW complete, NEW undo, NEW ready, NEW has, NEW excused,
         NEW gone, NEW cs, NEW rdy, NEW hs, NEW exc, NEW gn, NEW next,
         Backed(complete, undo, ready, has, excused, gone, cs),
         \A d \in Calls : d # c => next[d] = cs[d], gone \subseteq gn, excused \subseteq exc,
         \/ /\ rdy = ready /\ hs = has /\ next[c].pc # complete
            /\ cs[c].pc \in {complete, undo} =>
                 \/ next[c].pc = undo /\ next[c].version = cs[c].version
                 \/ cs[c].version \in gn
         \/ /\ rdy = ready /\ next[c].pc = complete /\ hs = has \cup {next[c].version}
            /\ cs[c].pc \notin {complete, undo}
         \/ /\ cs[c].pc = complete /\ next[c].pc # complete
            /\ hs = has /\ rdy = ready \cup {cs[c].version}
         \/ /\ next[c].pc # complete /\ rdy = ready
            /\ cs[c].version \notin ready \/ cs[c].version \in exc
            /\ hs = has \ {cs[c].version}
            /\ \A d \in Calls :
                 d # c /\ cs[d].pc = complete => cs[d].version # cs[c].version
  PROVE  Backed(complete, undo, rdy, hs, exc, gn, next)
<1>1. CASE /\ rdy = ready /\ hs = has /\ next[c].pc # complete
           /\ cs[c].pc \in {complete, undo} =>
                \/ next[c].pc = undo /\ next[c].version = cs[c].version
                \/ cs[c].version \in gn
  BY <1>1 DEF Backed
<1>2. CASE /\ rdy = ready /\ next[c].pc = complete /\ hs = has \cup {next[c].version}
           /\ cs[c].pc \notin {complete, undo}
  BY <1>2 DEF Backed
<1>3. CASE /\ cs[c].pc = complete /\ next[c].pc # complete
           /\ hs = has /\ rdy = ready \cup {cs[c].version}
  BY <1>3 DEF Backed
<1>4. CASE /\ next[c].pc # complete /\ rdy = ready
           /\ cs[c].version \notin ready \/ cs[c].version \in exc
           /\ hs = has \ {cs[c].version}
           /\ \A d \in Calls :
                d # c /\ cs[d].pc = complete => cs[d].version # cs[c].version
  BY <1>4 DEF Backed
<1> QED
  BY <1>1, <1>2, <1>3, <1>4

\* A step that touches no object and completes no row, by a call that neither
\* holds nor puts one.
LEMMA NoObjectStep ==
  ASSUME ObjectsInv, NEW c \in Calls, \A d \in Calls : d # c => calls'[d] = calls[d],
         lost \subseteq lost', ParsedUnheard \subseteq ParsedUnheard',
         ChunkedUnheard \subseteq ChunkedUnheard',
         UNCHANGED <<Parsed, HasParsed, Chunked, HasChunks>>,
         calls'[c].pc \notin {"complete_parse", "complete_chunks"},
         \/ calls[c].pc \notin {"complete_parse", "undo_parse",
                                "complete_chunks", "undo_chunks"}
         \/ calls[c].version \in lost'
  PROVE  ObjectsInv'
<1>1. Backed("complete_parse", "undo_parse", Parsed', HasParsed', ParsedUnheard',
            lost', calls')
  BY BackedStep DEF ObjectsInv
<1>2. Backed("complete_chunks", "undo_chunks", Chunked', HasChunks', ChunkedUnheard',
            lost', calls')
  BY BackedStep DEF ObjectsInv
<1> QED
  BY <1>1, <1>2 DEF ObjectsInv, Backed

\* The two kinds of object have different keys.
LEMMA KeysDiffer ==
  \A v, w : /\ ParsedKey(v) # ChunkKey(w)
            /\ ParsedKey(v) = ParsedKey(w) => v = w
            /\ ChunkKey(v) = ChunkKey(w) => v = w
BY DEF ParsedKey, ChunkKey

\* Most steps touch no object.
LEMMA OtherStepsBack ==
  ASSUME TypeInv, ObjectsInv, NEW c \in Calls,
         \/ Start(c) \/ ClaimParse(c) \/ RecordParseFailure(c) \/ RecordEarlyFailure(c)
         \/ LoadParsed(c) \/ ClaimChunks(c) \/ RecordChunkFailure(c) \/ ReloadChunks(c)
         \/ ReadActive(c) \/ ClaimIndexSet(c) \/ Embed(c) \/ CompleteIndexSet(c)
         \/ RecordIndexFailure(c) \/ DatabaseFails(c) \/ Crash(c)
  PROVE  ObjectsInv'
<1>1. lost \subseteq lost' /\ unheard \subseteq unheard'
  BY LostStays DEF Next
<1>2. objects' = objects
  BY DEF Start, ClaimParse, RecordParseFailure, RecordEarlyFailure, LoadParsed,
         ClaimChunks, RecordChunkFailure, ReloadChunks, ReadActive, ClaimIndexSet,
         Embed, CompleteIndexSet, RecordIndexFailure, DatabaseFails, Crash
<1>3. \A d \in Calls : d # c => calls'[d] = calls[d]
  <2>1. CASE Start(c) \/ ReadActive(c)
    BY <2>1 DEF Start, ReadActive, TypeInv, TypeOK, LocalsTyped
  <2>2. CASE ClaimIndexSet(c)
    <3>1. \/ Return(c) \/ Raise(c)
          \/ calls' = [calls EXCEPT ![c].pc = "embed",
                         ![c].attempt = sets[<<calls[c].version, calls[c].identity>>].attempt + 1]
      BY <2>2 DEF ClaimIndexSet
    <3> QED
      BY <3>1, Moved DEF TypeInv, TypeOK, LocalsTyped
  <2>3. CASE ClaimParse(c) \/ RecordParseFailure(c) \/ RecordEarlyFailure(c)
             \/ LoadParsed(c) \/ ClaimChunks(c) \/ RecordChunkFailure(c)
    BY <2>3, Moved DEF ClaimParse, RecordParseFailure, RecordEarlyFailure,
       LoadParsed, ClaimChunks, RecordChunkFailure
  <2>4. CASE ReloadChunks(c) \/ Embed(c) \/ CompleteIndexSet(c)
             \/ RecordIndexFailure(c) \/ DatabaseFails(c) \/ Crash(c)
    BY <2>4, Moved DEF ReloadChunks, Embed, CompleteIndexSet, RecordIndexFailure,
       DatabaseFails, Crash
  <2> QED
    BY <2>1, <2>2, <2>3, <2>4
<1>4. calls'[c].pc \notin {"complete_parse", "complete_chunks"}
  <2>1. CASE Start(c)
    BY <2>1 DEF Start, TypeInv, TypeOK, LocalsTyped
  <2>2. CASE ReadActive(c)
    BY <2>2 DEF ReadActive, TypeInv, TypeOK, LocalsTyped, Call
  <2>3. CASE ClaimIndexSet(c)
    <3>1. \/ Return(c) \/ Raise(c)
          \/ calls' = [calls EXCEPT ![c].pc = "embed",
                         ![c].attempt = sets[<<calls[c].version, calls[c].identity>>].attempt + 1]
      BY <2>3 DEF ClaimIndexSet
    <3>2. CASE calls' = [calls EXCEPT ![c].pc = "embed",
                 ![c].attempt = sets[<<calls[c].version, calls[c].identity>>].attempt + 1]
      BY <3>2 DEF TypeInv, TypeOK, LocalsTyped, Call
    <3> QED
      BY <3>1, <3>2, Moved
  <2>4. CASE ClaimParse(c) \/ RecordParseFailure(c) \/ RecordEarlyFailure(c)
    BY <2>4, Moved DEF ClaimParse, RecordParseFailure, RecordEarlyFailure
  <2>5. CASE LoadParsed(c) \/ ClaimChunks(c) \/ RecordChunkFailure(c)
    BY <2>5, Moved DEF LoadParsed, ClaimChunks, RecordChunkFailure
  <2>6. CASE ReloadChunks(c) \/ Embed(c)
    BY <2>6, Moved DEF ReloadChunks, Embed
  <2>7. CASE CompleteIndexSet(c) \/ RecordIndexFailure(c) \/ DatabaseFails(c) \/ Crash(c)
    BY <2>7, Moved DEF CompleteIndexSet, RecordIndexFailure, DatabaseFails, Crash
  <2> QED
    BY <2>1, <2>2, <2>3, <2>4, <2>5, <2>6, <2>7
<1>5. \/ calls[c].pc \notin {"complete_parse", "undo_parse",
                             "complete_chunks", "undo_chunks"}
      \/ calls[c].version \in lost'
  BY DEF At, Start, ClaimParse, RecordParseFailure, RecordEarlyFailure, LoadParsed,
         ClaimChunks, RecordChunkFailure, ReloadChunks, ReadActive, ClaimIndexSet,
         Embed, CompleteIndexSet, RecordIndexFailure, DatabaseFails, Crash, Fault
<1>6. Parsed' = Parsed
  <2>1. CASE ClaimParse(c) \/ RecordParseFailure(c)
    <3>1. calls[c].version \in Versions
      BY <2>1, AtWork DEF ClaimParse, RecordParseFailure, Pcs
    <3>2. \/ version' = version
          \/ /\ version[calls[c].version].parse # "ready"
             /\ \E p \in {"parsing", "failed"} :
                  version' = [version EXCEPT ![calls[c].version].parse = p]
          \/ /\ RecordParseFailure(c)
             /\ version' = [version EXCEPT ![calls[c].version].parse =
                              IF @ = "parsing" THEN "failed" ELSE @]
      BY <2>1 DEF ClaimParse, ParseClaimable, RecordParseFailure
    <3> QED
      BY <3>1, <3>2 DEF Parsed, TypeInv, TypeOK, RowsTyped, VersionRow
  <2>2. CASE RecordEarlyFailure(c) \/ ClaimIndexSet(c) \/ CompleteIndexSet(c)
             \/ RecordIndexFailure(c)
    BY <2>2, ParseStatusStays DEF Parsed
  <2>3. CASE version' = version
    BY <2>3 DEF Parsed
  <2> QED
    BY <2>1, <2>2, <2>3 DEF rows, Start, LoadParsed, ClaimChunks, RecordChunkFailure,
       ReloadChunks, ReadActive, Embed, DatabaseFails, Crash
<1>7. Chunked' = Chunked
  <2>1. CASE ClaimChunks(c) \/ RecordChunkFailure(c)
    <3>1. calls[c].version \in Versions
      BY <2>1, AtWork DEF ClaimChunks, RecordChunkFailure, Pcs
    <3> QED
      BY <2>1, <3>1 DEF ClaimChunks, ChunksClaimable, RecordChunkFailure, Chunked,
         TypeInv, TypeOK, RowsTyped
  <2>2. CASE chunkSet' = chunkSet
    BY <2>2 DEF Chunked
  <2> QED
    BY <2>1, <2>2 DEF rows, Start, ClaimParse, RecordParseFailure, RecordEarlyFailure,
       LoadParsed, ReloadChunks, ReadActive, ClaimIndexSet, Embed, CompleteIndexSet,
       RecordIndexFailure, DatabaseFails, Crash
<1>8. /\ ParsedUnheard \subseteq ParsedUnheard'
      /\ ChunkedUnheard \subseteq ChunkedUnheard'
  BY <1>1 DEF ParsedUnheard, ChunkedUnheard
<1> QED
  BY <1>1, <1>2, <1>3, <1>4, <1>5, <1>6, <1>7, <1>8, NoObjectStep DEF HasParsed, HasChunks

\* Parsing puts its object before the row becomes ready, and takes it back only
\* while the row is still claimed by this call or became ready unheard.
LEMMA ParsingBacks ==
  ASSUME TypeInv, WorkInv, ObjectsInv, NEW c \in Calls,
         Parse(c) \/ CompleteParse(c) \/ UndoParse(c)
  PROVE  ObjectsInv'
<1> DEFINE v == calls[c].version
<1>1. lost \subseteq lost' /\ unheard \subseteq unheard'
  BY LostStays DEF Next
<1>2. v \in Versions /\ calls[c].pc \in Parsing
  BY AtWork DEF Parse, CompleteParse, UndoParse, Pcs, At, Parsing
<1>3. \A d \in Calls : d # c => calls'[d] = calls[d]
  BY Moved DEF Parse, CompleteParse, UndoParse
<1>4. calls'[c].version = v /\ calls'[c].pc \notin {"complete_chunks"}
  BY Moved DEF Parse, CompleteParse, UndoParse
<1>5. v \notin Parsed \/ v \in ParsedUnheard
  BY <1>2 DEF WorkInv, Exclusive, ParsingTaken, ParsingHeld, Parsed, ParsedUnheard
<1>6. \A d \in Calls : d # c /\ calls[d].pc = "complete_parse" => calls[d].version # v
  BY <1>2 DEF WorkInv, Exclusive, Parsing
<1>9. /\ ParsedUnheard \subseteq ParsedUnheard'
      /\ ChunkedUnheard \subseteq ChunkedUnheard'
  BY <1>1 DEF ParsedUnheard, ChunkedUnheard
<1>7. Backed("complete_chunks", "undo_chunks", Chunked', HasChunks', ChunkedUnheard',
            lost', calls')
  <2>1. Chunked' = Chunked
    BY DEF Parse, CompleteParse, UndoParse, rows, Chunked
  <2>2. HasChunks' = HasChunks
    BY KeysDiffer DEF Parse, CompleteParse, UndoParse, Deleted, HasChunks
  <2> QED
    BY <1>1, <1>2, <1>3, <1>4, <1>9, <2>1, <2>2, BackedStep DEF ObjectsInv, Parsing
<1>8. Backed("complete_parse", "undo_parse", Parsed', HasParsed', ParsedUnheard',
            lost', calls')
  <2>1. CASE Parse(c)
    <3>1. Parsed' = Parsed /\ calls[c].pc = "parse"
      BY <2>1 DEF Parse, rows, Parsed, At
    <3>2. CASE objects' = objects /\ calls'[c].pc # "complete_parse"
      <4>1. HasParsed' = HasParsed
        BY <3>2 DEF HasParsed
      <4> QED
        BY <1>1, <1>3, <1>9, <3>1, <3>2, <4>1, BackedStep DEF ObjectsInv
    <3>3. CASE objects' = objects \cup {ParsedKey(v)} /\ calls'[c].pc = "complete_parse"
      <4>1. HasParsed' = HasParsed \cup {v}
        BY <1>2, <3>3, KeysDiffer DEF HasParsed
      <4> QED
        BY <1>1, <1>3, <1>9, <1>4, <3>1, <3>3, <4>1, BackedStep DEF ObjectsInv
    <3> QED
      BY <2>1, <3>2, <3>3, Moved DEF Parse
  <2>2. CASE CompleteParse(c)
    <3>1. HasParsed' = HasParsed /\ calls[c].pc = "complete_parse"
      BY <2>2 DEF CompleteParse, HasParsed, At
    <3>2. CASE version' = [version EXCEPT ![v].parse = "ready"] /\ calls'[c].pc \in {"load", "undo_parse"}
      <4>1. Parsed' = Parsed \cup {v}
        BY <1>2, <3>2 DEF Parsed, TypeInv, TypeOK, RowsTyped, VersionRow
      <4> QED
        BY <1>1, <1>3, <1>9, <3>1, <3>2, <4>1, BackedStep DEF ObjectsInv
    <3>3. CASE version' = version /\ calls'[c].pc = "undo_parse"
      <4>1. Parsed' = Parsed
        BY <3>3 DEF Parsed
      <4> QED
        BY <1>1, <1>3, <1>9, <1>4, <3>1, <3>3, <4>1, BackedStep DEF ObjectsInv
    <3> QED
      BY <2>2, <3>2, <3>3, Moved DEF CompleteParse
  <2>3. CASE UndoParse(c)
    <3>1. Parsed' = Parsed /\ calls'[c].pc = "record_parse"
      BY <2>3, Moved DEF UndoParse, rows, Parsed
    <3>2. CASE objects' = objects \ {ParsedKey(v)}
      <4>1. HasParsed' = HasParsed \ {v}
        BY <1>2, <3>2, KeysDiffer DEF HasParsed
      <4> QED
        BY <1>1, <1>3, <1>5, <1>6, <1>9, <3>1, <4>1, BackedStep DEF ObjectsInv
    <3>3. CASE objects' = objects /\ v \in lost'
      <4>1. HasParsed' = HasParsed
        BY <3>3 DEF HasParsed
      <4> QED
        BY <1>1, <1>3, <1>9, <3>1, <3>3, <4>1, BackedStep DEF ObjectsInv
    <3> QED
      BY <2>3, <3>2, <3>3 DEF UndoParse, Deleted, Fault
  <2> QED
    BY <2>1, <2>2, <2>3
<1> QED
  BY <1>7, <1>8 DEF ObjectsInv, Backed

\* Chunking does the same with its object, which may be there already.
LEMMA ChunkingBacks ==
  ASSUME TypeInv, WorkInv, ObjectsInv, NEW c \in Calls,
         Chunk(c) \/ CompleteChunks(c) \/ UndoChunks(c)
  PROVE  ObjectsInv'
<1> DEFINE v == calls[c].version
<1>1. lost \subseteq lost' /\ unheard \subseteq unheard'
  BY LostStays DEF Next
<1>2. v \in Versions /\ calls[c].pc \in Chunking
  BY AtWork DEF Chunk, CompleteChunks, UndoChunks, Pcs, At, Chunking
<1>3. \A d \in Calls : d # c => calls'[d] = calls[d]
  BY Moved DEF Chunk, CompleteChunks, UndoChunks
<1>4. calls'[c].version = v /\ calls'[c].pc \notin {"complete_parse"}
  BY Moved DEF Chunk, CompleteChunks, UndoChunks
<1>5. v \notin Chunked \/ v \in ChunkedUnheard
  BY <1>2 DEF WorkInv, Exclusive, ChunkingTaken, ChunkingHeld, Chunked, ChunkedUnheard
<1>6. \A d \in Calls : d # c /\ calls[d].pc = "complete_chunks" => calls[d].version # v
  BY <1>2 DEF WorkInv, Exclusive, Chunking
<1>9. /\ ParsedUnheard \subseteq ParsedUnheard'
      /\ ChunkedUnheard \subseteq ChunkedUnheard'
  BY <1>1 DEF ParsedUnheard, ChunkedUnheard
<1>7. Backed("complete_parse", "undo_parse", Parsed', HasParsed', ParsedUnheard',
            lost', calls')
  <2>1. Parsed' = Parsed
    BY DEF Chunk, CompleteChunks, UndoChunks, rows, Parsed
  <2>2. HasParsed' = HasParsed
    BY KeysDiffer DEF Chunk, CompleteChunks, UndoChunks, Deleted, HasParsed
  <2> QED
    BY <1>1, <1>2, <1>3, <1>4, <1>9, <2>1, <2>2, BackedStep DEF ObjectsInv, Chunking
<1>8. Backed("complete_chunks", "undo_chunks", Chunked', HasChunks', ChunkedUnheard',
            lost', calls')
  <2>1. CASE Chunk(c)
    <3>1. Chunked' = Chunked /\ calls[c].pc = "chunk"
      BY <2>1 DEF Chunk, rows, Chunked, At
    <3>2. CASE objects' = objects /\ calls'[c].pc # "complete_chunks"
      <4>1. HasChunks' = HasChunks
        BY <3>2 DEF HasChunks
      <4> QED
        BY <1>1, <1>3, <1>9, <3>1, <3>2, <4>1, BackedStep DEF ObjectsInv
    <3>3. CASE objects' = objects \cup {ChunkKey(v)} /\ calls'[c].pc = "complete_chunks"
      <4>1. HasChunks' = HasChunks \cup {v}
        BY <1>2, <3>3, KeysDiffer DEF HasChunks
      <4> QED
        BY <1>1, <1>3, <1>9, <1>4, <3>1, <3>3, <4>1, BackedStep DEF ObjectsInv
    <3> QED
      BY <2>1, <3>2, <3>3, Moved DEF Chunk
  <2>2. CASE CompleteChunks(c)
    <3>1. HasChunks' = HasChunks /\ calls[c].pc = "complete_chunks"
      BY <2>2 DEF CompleteChunks, HasChunks, At
    <3>2. CASE chunkSet' = [chunkSet EXCEPT ![v] = "ready"] /\ calls'[c].pc \in {"reload", "undo_chunks"}
      <4>1. Chunked' = Chunked \cup {v}
        BY <1>2, <3>2 DEF Chunked, TypeInv, TypeOK, RowsTyped
      <4> QED
        BY <1>1, <1>3, <1>9, <3>1, <3>2, <4>1, BackedStep DEF ObjectsInv
    <3>3. CASE chunkSet' = chunkSet /\ calls'[c].pc = "undo_chunks"
      <4>1. Chunked' = Chunked
        BY <3>3 DEF Chunked
      <4> QED
        BY <1>1, <1>3, <1>9, <1>4, <3>1, <3>3, <4>1, BackedStep DEF ObjectsInv
    <3> QED
      BY <2>2, <3>2, <3>3, Moved DEF CompleteChunks
  <2>3. CASE UndoChunks(c)
    <3>1. Chunked' = Chunked /\ calls'[c].pc = "record_chunks"
      BY <2>3, Moved DEF UndoChunks, rows, Chunked
    <3>2. CASE objects' = objects \ {ChunkKey(v)}
      <4>1. HasChunks' = HasChunks \ {v}
        BY <1>2, <3>2, KeysDiffer DEF HasChunks
      <4> QED
        BY <1>1, <1>3, <1>5, <1>6, <1>9, <3>1, <4>1, BackedStep DEF ObjectsInv
    <3>3. CASE objects' = objects /\ v \in lost'
      <4>1. HasChunks' = HasChunks
        BY <3>3 DEF HasChunks
      <4> QED
        BY <1>1, <1>3, <1>9, <3>1, <3>3, <4>1, BackedStep DEF ObjectsInv
    <3> QED
      BY <2>3, <3>2, <3>3 DEF UndoChunks, Deleted, Fault
  <2> QED
    BY <2>1, <2>2, <2>3
<1> QED
  BY <1>7, <1>8 DEF ObjectsInv, Backed

\* Ready rows have their objects, and an object without a ready row is about to
\* be completed or taken back, for every number of calls and versions: a
\* compensation removes the object of a row that is ready only after the commit
\* that made it ready was reported as failed.
THEOREM ObjectsAlwaysMatchRows == Spec => []ObjectsMatchRows
<1>1. Init => ObjectsInv
  BY DEF Init, ObjectsInv, Backed, Parsed, HasParsed, Chunked, HasChunks, Idle
<1>2. TypeInv /\ WorkInv /\ ObjectsInv /\ [Next]_vars => ObjectsInv'
  <2> SUFFICES ASSUME TypeInv, WorkInv, ObjectsInv, [Next]_vars PROVE ObjectsInv'
    OBVIOUS
  <2>1. CASE UNCHANGED vars
    BY <2>1 DEF vars, rows, ObjectsInv, Backed, Parsed, HasParsed, ParsedUnheard, Chunked,
                HasChunks, ChunkedUnheard
  <2>2. ASSUME NEW v \in Versions, AddVersion(v) \/ DeleteFile(v)
        PROVE  ObjectsInv'
    <3>1. UNCHANGED <<objects, calls, chunkSet, lost, unheard>>
      BY <2>2 DEF AddVersion, DeleteFile, NoFault
    <3>2. Parsed' = Parsed
      <4>1. CASE AddVersion(v)
        BY <4>1 DEF AddVersion, Exists, Versions, Parsed, TypeInv, TypeOK, RowsTyped, VersionRow
      <4>2. CASE DeleteFile(v)
        BY <4>2 DEF DeleteFile, Parsed
      <4> QED
        BY <2>2, <4>1, <4>2
    <3> QED
      BY <3>1, <3>2 DEF ObjectsInv, Backed, HasParsed, ParsedUnheard, Chunked, HasChunks,
         ChunkedUnheard
  <2>3. CASE Next
    BY <2>2, <2>3, OtherStepsBack, ParsingBacks, ChunkingBacks DEF Next
  <2> QED
    BY <2>1, <2>3
<1>3. ObjectsInv => ObjectsMatchRows
  BY DEF ObjectsInv, Backed, Parsed, HasParsed, ParsedUnheard, Chunked, HasChunks,
         ChunkedUnheard, ObjectsMatchRows, WorkersOf
<1> QED
  BY <1>1, <1>2, <1>3, TypeInvariant, WorkInvariant, PTL DEF Spec

(***************************************************************************)
(* Quiet versions: the steps.                                              *)
(***************************************************************************)

\* A phase stays attended if every version that is claimed afterwards was so
\* before and not the stepping call's, or is the call's now.
LEMMA AttendedStep ==
  ASSUME NEW c \in Calls, NEW pcs, NEW held, NEW gone, NEW cs,
         NEW kept, NEW gn, NEW next,
         Attended(pcs, held, gone, cs),
         \A d \in Calls : d # c => next[d] = cs[d], gone \subseteq gn,
         \A v \in kept \ gn :
           \/ next[c].version = v /\ next[c].pc \in pcs
           \/ v \in held /\ ~(cs[c].version = v /\ cs[c].pc \in pcs)
  PROVE  Attended(pcs, kept, gn, next)
BY DEF Attended

\* A step that begins no work and ends only what is lost by it.
LEMMA PhasesIdle ==
  ASSUME QuietInv, NEW c \in Calls, \A d \in Calls : d # c => calls'[d] = calls[d],
         lost \subseteq lost',
         ParsingHeld' \subseteq ParsingHeld, ChunkingHeld' \subseteq ChunkingHeld,
         BusyHeld' \subseteq BusyHeld,
         \A pcs \in {Parsing, Chunking, Indexing} :
           calls[c].pc \in pcs =>
             \/ calls'[c].pc \in pcs /\ calls'[c].version = calls[c].version
             \/ calls[c].version \in lost'
  PROVE  /\ Attended(Parsing, ParsingHeld', lost', calls')
         /\ Attended(Chunking, ChunkingHeld', lost', calls')
         /\ Attended(Indexing, BusyHeld', lost', calls')
<1>1. Attended(Parsing, ParsingHeld', lost', calls')
  BY AttendedStep DEF QuietInv
<1>2. Attended(Chunking, ChunkingHeld', lost', calls')
  BY AttendedStep DEF QuietInv
<1>3. Attended(Indexing, BusyHeld', lost', calls')
  BY AttendedStep DEF QuietInv
<1> QED
  BY <1>1, <1>2, <1>3

\* The sets keep what is said of them when none is written and the call that
\* steps does not leave the work at a set, unless it is lost.
LEMMA SetsIdle ==
  ASSUME ClaimsHeld, SetsAttended, NEW c \in Calls,
         \A d \in Calls : d # c => calls'[d] = calls[d],
         lost \subseteq lost', sets' = sets,
         calls'[c].pc \in Indexing =>
           /\ calls[c].pc \in Indexing
           /\ calls'[c].version = calls[c].version
           /\ calls'[c].identity = calls[c].identity
           /\ calls'[c].attempt = calls[c].attempt,
         calls[c].pc \in Indexing =>
           calls'[c].pc \in Indexing \/ calls[c].version \in lost'
  PROVE  ClaimsHeld' /\ SetsAttended'
<1>1. ClaimsHeld'
  BY DEF ClaimsHeld, Claimed, Indexing
<1>2. SetsAttended'
  BY DEF SetsAttended, Indexing
<1> QED
  BY <1>1, <1>2

\* The steps that write no row.
LEMMA NoRowQuiet ==
  ASSUME TypeInv, QuietInv, NEW c \in Calls,
         \/ Start(c) \/ Parse(c) \/ UndoParse(c) \/ LoadParsed(c) \/ Chunk(c)
         \/ UndoChunks(c) \/ ReloadChunks(c) \/ ReadActive(c) \/ Embed(c)
         \/ DatabaseFails(c) \/ Crash(c)
  PROVE  QuietInv'
<1>1. UNCHANGED rows
  BY DEF Start, Parse, UndoParse, LoadParsed, Chunk, UndoChunks, ReloadChunks,
         ReadActive, Embed, DatabaseFails, Crash
<1>2. lost \subseteq lost'
  BY LostStays DEF Next
<1>3. /\ \A d \in Calls : d # c => calls'[d] = calls[d]
      /\ \A pcs \in {Parsing, Chunking, Indexing} :
           calls[c].pc \in pcs =>
             \/ calls'[c].pc \in pcs /\ calls'[c].version = calls[c].version
             \/ calls[c].version \in lost'
      /\ calls'[c].pc \in Indexing =>
           /\ calls[c].pc \in Indexing
           /\ calls'[c].version = calls[c].version
           /\ calls'[c].identity = calls[c].identity
           /\ calls'[c].attempt = calls[c].attempt
  <2> USE DEF At, Parsing, Chunking, Indexing
  <2>1. CASE Start(c)
    BY <2>1 DEF Start, TypeInv, TypeOK, LocalsTyped
  <2>2. CASE Parse(c)
    BY <2>2, Moved DEF Parse
  <2>3. CASE UndoParse(c)
    BY <2>3, Moved DEF UndoParse
  <2>4. CASE LoadParsed(c)
    BY <2>4, Moved DEF LoadParsed
  <2>5. CASE Chunk(c)
    BY <2>5, Moved DEF Chunk
  <2>6. CASE UndoChunks(c)
    BY <2>6, Moved DEF UndoChunks
  <2>7. CASE ReloadChunks(c)
    BY <2>7, Moved DEF ReloadChunks
  <2>8. CASE ReadActive(c)
    BY <2>8 DEF ReadActive, TypeInv, TypeOK, LocalsTyped, Call
  <2>9. CASE Embed(c)
    BY <2>9, Moved DEF Embed
  <2>10. CASE DatabaseFails(c) \/ Crash(c)
    BY <2>10, Moved DEF DatabaseFails, Crash, Fault
  <2> QED
    BY <2>1, <2>2, <2>3, <2>4, <2>5, <2>6, <2>7, <2>8, <2>9, <2>10
<1>4. UNCHANGED <<ParsingHeld, ChunkingHeld, BusyHeld>>
  BY <1>1 DEF rows, ParsingHeld, ChunkingHeld, BusyHeld
<1>5. /\ Attended(Parsing, ParsingHeld', lost', calls')
      /\ Attended(Chunking, ChunkingHeld', lost', calls')
      /\ Attended(Indexing, BusyHeld', lost', calls')
  BY <1>2, <1>3, <1>4, PhasesIdle
<1>6. ClaimsHeld' /\ SetsAttended'
  BY <1>1, <1>2, <1>3, SetsIdle DEF rows, QuietInv
<1>7. FilesFollow'
  BY <1>1 DEF rows, FilesFollow, QuietInv
<1> QED
  BY <1>5, <1>6, <1>7 DEF QuietInv, Attended, Parsing, Chunking, Indexing

\* A step of a call that is neither before nor afterwards at work at a set, and
\* writes no set, keeps what is said of them.
LEMMA SetsUntouched ==
  ASSUME QuietInv, NEW c \in Calls, \A d \in Calls : d # c => calls'[d] = calls[d],
         lost \subseteq lost', sets' = sets,
         calls[c].pc \notin Indexing, calls'[c].pc \notin Indexing
  PROVE  ClaimsHeld' /\ SetsAttended'
BY SetsIdle DEF QuietInv

\* The late record of a failure makes a file ready only if its index is.
LEMMA EarlyFailureQuiet ==
  ASSUME TypeInv, QuietInv, NEW c \in Calls, RecordEarlyFailure(c)
  PROVE  QuietInv'
<1> DEFINE v == calls[c].version
<1>0. v \in Versions
  BY AtWork DEF RecordEarlyFailure, Pcs
<1>1. /\ \A d \in Calls : d # c => calls'[d] = calls[d]
      /\ lost \subseteq lost' /\ sets' = sets /\ chunkSet' = chunkSet
      /\ calls[c].pc \notin Parsing \cup Chunking \cup Indexing
      /\ calls'[c].pc \notin Parsing \cup Chunking \cup Indexing
  BY Moved DEF RecordEarlyFailure, At, Parsing, Chunking, Indexing, NoFault, Fault
<1>2. \A w \in Versions : version'[w].parse = version[w].parse
  BY ParseStatusStays
<1>3. \/ UNCHANGED <<version, file>>
      \/ /\ version[v].set = None
         /\ version' = [version EXCEPT ![v].index = "failed"]
         /\ file' = [file EXCEPT ![v] = "failed"]
      \/ /\ version[v].set # None
         /\ version' = [version EXCEPT ![v].index = "ready"]
         /\ file' = [file EXCEPT ![v] = "ready"]
  BY DEF RecordEarlyFailure, Restored
<1>4. BusyHeld' \subseteq BusyHeld
  BY <1>0, <1>3 DEF BusyHeld, TypeInv, TypeOK, RowsTyped, VersionRow
<1>5. ParsingHeld' = ParsingHeld /\ ChunkingHeld' = ChunkingHeld
  BY <1>1, <1>2 DEF ParsingHeld, ChunkingHeld
<1>6. /\ Attended(Parsing, ParsingHeld', lost', calls')
      /\ Attended(Chunking, ChunkingHeld', lost', calls')
      /\ Attended(Indexing, BusyHeld', lost', calls')
  BY <1>1, <1>4, <1>5, PhasesIdle
<1>7. ClaimsHeld' /\ SetsAttended'
  BY <1>1, SetsUntouched
<1>8. FilesFollow'
  <2>1. version[v].set # None => version[v].parse = "ready"
    BY <1>0 DEF TypeInv, TypeOK, VersionChecks
  <2> QED
    BY <1>0, <1>2, <1>3, <2>1 DEF FilesFollow, QuietInv, TypeInv, TypeOK, RowsTyped
<1> QED
  BY <1>6, <1>7, <1>8 DEF QuietInv, Attended, Parsing, Chunking, Indexing

\* The routes begin and end no work.
LEMMA RoutesQuiet ==
  ASSUME TypeInv, QuietInv, NEW v \in Versions, AddVersion(v) \/ DeleteFile(v)
  PROVE  QuietInv'
<1>1. UNCHANGED <<calls, chunkSet, sets, lost>>
  BY DEF AddVersion, DeleteFile, NoFault
<1>2. ParsingHeld' \subseteq ParsingHeld /\ BusyHeld' \subseteq BusyHeld
  <2>1. CASE AddVersion(v)
    <3>1. file' = file /\ version' = [version EXCEPT ![v].parse = "pending"]
      BY <2>1 DEF AddVersion
    <3> QED
      BY <3>1 DEF ParsingHeld, BusyHeld, TypeInv, TypeOK, RowsTyped, VersionRow
  <2>2. CASE DeleteFile(v)
    <3>1. version' = version /\ file' = [file EXCEPT ![v] = "soft_deleted"]
      BY <2>2 DEF DeleteFile
    <3> QED
      BY <3>1 DEF ParsingHeld, BusyHeld, TypeInv, TypeOK, RowsTyped
  <2> QED
    BY <2>1, <2>2
<1>3. FilesFollow'
  <2>1. CASE AddVersion(v)
    <3>1. version[v].parse = "absent"
      BY <2>1 DEF AddVersion, Exists, Versions
    <3> QED
      BY <2>1, <3>1 DEF AddVersion, FilesFollow, QuietInv, TypeInv, TypeOK, RowsTyped,
         VersionRow
  <2>2. CASE DeleteFile(v)
    BY <2>2 DEF DeleteFile, FilesFollow, QuietInv, TypeInv, TypeOK, RowsTyped
  <2> QED
    BY <2>1, <2>2
<1>4. ChunkingHeld' = ChunkingHeld
  BY <1>1 DEF ChunkingHeld
<1>5. /\ Attended(Parsing, ParsingHeld', lost', calls')
      /\ Attended(Chunking, ChunkingHeld', lost', calls')
      /\ Attended(Indexing, BusyHeld', lost', calls')
  BY <1>1, <1>2, <1>4 DEF Attended, QuietInv
<1>6. ClaimsHeld' /\ SetsAttended'
  BY <1>1 DEF ClaimsHeld, SetsAttended, Claimed, QuietInv, Indexing
<1> QED
  BY <1>3, <1>5, <1>6 DEF QuietInv, Attended, Parsing, Chunking, Indexing

\* Parsing: a claim is taken by a call at work, and given up or lost with it.
LEMMA ParsingQuiet ==
  ASSUME TypeInv, WorkInv, QuietInv, NEW c \in Calls,
         ClaimParse(c) \/ CompleteParse(c) \/ RecordParseFailure(c)
  PROVE  QuietInv'
<1> DEFINE v == calls[c].version
<1>0. v \in Versions
  BY AtWork DEF ClaimParse, CompleteParse, RecordParseFailure, Pcs
<1>1. /\ \A d \in Calls : d # c => calls'[d] = calls[d]
      /\ lost \subseteq lost' /\ sets' = sets /\ chunkSet' = chunkSet
      /\ calls[c].pc \notin Chunking \cup Indexing
      /\ calls'[c].pc \notin Chunking \cup Indexing
  BY Moved DEF ClaimParse, CompleteParse, RecordParseFailure, At, Chunking, Indexing,
     NoFault, Fault, Unheard
<1>2. ChunkingHeld' = ChunkingHeld
  BY <1>1 DEF ChunkingHeld
<1>3. BusyHeld' \subseteq BusyHeld
  <2>1. \A w \in Versions : version'[w].index = version[w].index
    <3>1. \/ version' = version \/ version' = [version EXCEPT ![v].parse = "parsing"]
          \/ version' = [version EXCEPT ![v].parse = "ready"]
          \/ version' = [version EXCEPT ![v].parse = IF @ = "parsing" THEN "failed" ELSE @]
      BY DEF ClaimParse, CompleteParse, RecordParseFailure
    <3> QED
      BY <1>0, <3>1 DEF TypeInv, TypeOK, RowsTyped, VersionRow
  <2>2. \A w \in Versions : file'[w] = "indexing" => file[w] = "indexing"
    <3>1. \/ file' = file \/ file' = [file EXCEPT ![v] = "parsing"]
          \/ file' = [file EXCEPT ![v] = IF @ = "parsing" THEN "failed" ELSE @]
      BY DEF ClaimParse, CompleteParse, RecordParseFailure
    <3> QED
      BY <1>0, <3>1 DEF TypeInv, TypeOK, RowsTyped
  <2> QED
    BY <2>1, <2>2 DEF BusyHeld
<1>4. Attended(Chunking, ChunkingHeld', lost', calls')
  BY <1>1, <1>2, AttendedStep DEF QuietInv
<1>5. Attended(Indexing, BusyHeld', lost', calls')
  BY <1>1, <1>3, AttendedStep DEF QuietInv
<1>6. ClaimsHeld' /\ SetsAttended'
  BY <1>1, SetsUntouched
<1>7. Attended(Parsing, ParsingHeld', lost', calls')
  <2>1. \A w \in ParsingHeld' \ lost' :
          \/ calls'[c].version = w /\ calls'[c].pc \in Parsing
          \/ w \in ParsingHeld /\ ~(calls[c].version = w /\ calls[c].pc \in Parsing)
    <3>1. CASE ClaimParse(c)
      <4>1. CASE version' = [version EXCEPT ![v].parse = "parsing"] /\ Goto(c, "parse")
        <5>1. ParsingHeld' \subseteq ParsingHeld \cup {v}
          BY <1>0, <4>1 DEF ParsingHeld, TypeInv, TypeOK, RowsTyped, VersionRow
        <5>2. calls[c].pc \notin Parsing
          BY <3>1 DEF ClaimParse, At, Parsing
        <5> QED
          BY <4>1, <5>1, <5>2, Moved DEF Parsing
      <4>2. CASE version' = version
        <5>1. ParsingHeld' = ParsingHeld /\ calls[c].pc \notin Parsing
          BY <3>1, <4>2 DEF ClaimParse, At, Parsing, ParsingHeld
        <5> QED
          BY <5>1
      <4> QED
        BY <3>1, <4>1, <4>2 DEF ClaimParse
    <3>2. CASE CompleteParse(c)
      <4>1. CASE version' = [version EXCEPT ![v].parse = "ready"]
        <5>1. ParsingHeld' \subseteq ParsingHeld \ {v}
          BY <1>0, <4>1 DEF ParsingHeld, TypeInv, TypeOK, RowsTyped, VersionRow
        <5> QED
          BY <5>1
      <4>2. CASE version' = version /\ Goto(c, "undo_parse")
        <5>1. ParsingHeld' = ParsingHeld
          BY <4>2 DEF ParsingHeld
        <5> QED
          BY <4>2, <5>1, Moved DEF Parsing
      <4> QED
        BY <3>2, <4>1, <4>2 DEF CompleteParse
    <3>3. CASE RecordParseFailure(c)
      <4>1. CASE version' = [version EXCEPT ![v].parse = IF @ = "parsing" THEN "failed" ELSE @]
        <5>1. ParsingHeld' \subseteq ParsingHeld \ {v}
          BY <1>0, <4>1 DEF ParsingHeld, TypeInv, TypeOK, RowsTyped, VersionRow
        <5> QED
          BY <5>1
      <4>2. CASE version' = version /\ v \in lost'
        <5>1. ParsingHeld' = ParsingHeld
          BY <4>2 DEF ParsingHeld
        <5> QED
          BY <4>2, <5>1
      <4> QED
        BY <3>3, <4>1, <4>2 DEF RecordParseFailure, Fault
    <3> QED
      BY <3>1, <3>2, <3>3
  <2> QED
    BY <1>1, <2>1, AttendedStep DEF QuietInv
<1>8. FilesFollow'
  <2>1. \A w \in Versions : file'[w] \in {"indexing", "ready"} => file[w] = file'[w]
    BY <1>0 DEF ClaimParse, CompleteParse, RecordParseFailure, TypeInv, TypeOK, RowsTyped
  <2>2. \A w \in Versions : version[w].parse = "ready" => version'[w].parse = "ready"
    BY <1>0 DEF ClaimParse, ParseClaimable, CompleteParse, RecordParseFailure, TypeInv,
       TypeOK, RowsTyped, VersionRow
  <2> QED
    BY <2>1, <2>2 DEF FilesFollow, QuietInv
<1> QED
  BY <1>4, <1>5, <1>6, <1>7, <1>8 DEF QuietInv, Attended, Parsing, Chunking, Indexing

\* Chunking the same.
LEMMA ChunkingQuiet ==
  ASSUME TypeInv, WorkInv, QuietInv, NEW c \in Calls,
         ClaimChunks(c) \/ CompleteChunks(c) \/ RecordChunkFailure(c)
  PROVE  QuietInv'
<1> DEFINE v == calls[c].version
<1>0. v \in Versions
  BY AtWork DEF ClaimChunks, CompleteChunks, RecordChunkFailure, Pcs
<1>1. /\ \A d \in Calls : d # c => calls'[d] = calls[d]
      /\ lost \subseteq lost' /\ UNCHANGED <<sets, version, file>>
      /\ calls[c].pc \notin Parsing \cup Indexing
      /\ calls'[c].pc \notin Parsing \cup Indexing
  BY Moved DEF ClaimChunks, CompleteChunks, RecordChunkFailure, At, Parsing, Indexing,
     NoFault, Fault, Unheard
<1>2. ParsingHeld' = ParsingHeld /\ BusyHeld' = BusyHeld
  BY <1>1 DEF ParsingHeld, BusyHeld
<1>3. Attended(Parsing, ParsingHeld', lost', calls')
  BY <1>1, <1>2, AttendedStep DEF QuietInv
<1>4. Attended(Indexing, BusyHeld', lost', calls')
  BY <1>1, <1>2, AttendedStep DEF QuietInv
<1>5. ClaimsHeld' /\ SetsAttended'
  BY <1>1, SetsUntouched
<1>6. FilesFollow'
  BY <1>1 DEF FilesFollow, QuietInv
<1>7. Attended(Chunking, ChunkingHeld', lost', calls')
  <2>1. \A w \in ChunkingHeld' \ lost' :
          \/ calls'[c].version = w /\ calls'[c].pc \in Chunking
          \/ w \in ChunkingHeld /\ ~(calls[c].version = w /\ calls[c].pc \in Chunking)
    <3>1. CASE chunkSet' = [chunkSet EXCEPT ![v] = "chunking"] /\ ClaimChunks(c)
               /\ Goto(c, "chunk")
      <4>1. ChunkingHeld' \subseteq ChunkingHeld \cup {v}
        BY <1>0, <3>1 DEF ChunkingHeld, TypeInv, TypeOK, RowsTyped
      <4>2. calls[c].pc \notin Chunking
        BY <3>1 DEF ClaimChunks, At, Chunking
      <4> QED
        BY <3>1, <4>1, <4>2, Moved DEF Chunking
    <3>2. CASE /\ chunkSet' = chunkSet
               /\ calls[c].pc \notin Chunking \/ Goto(c, "undo_chunks") \/ v \in lost'
      <4>1. ChunkingHeld' = ChunkingHeld
        BY <3>2 DEF ChunkingHeld
      <4> QED
        BY <3>2, <4>1, Moved DEF Chunking
    <3>3. CASE /\ calls[c].pc \in Chunking
               /\ \/ chunkSet' = [chunkSet EXCEPT ![v] = "ready"]
                  \/ chunkSet' = [chunkSet EXCEPT ![v] = IF @ = "chunking" THEN "failed" ELSE @]
      <4>1. ChunkingHeld' \subseteq ChunkingHeld \ {v}
        BY <1>0, <3>3 DEF ChunkingHeld, TypeInv, TypeOK, RowsTyped
      <4> QED
        BY <4>1
    <3> QED
      BY <3>1, <3>2, <3>3 DEF ClaimChunks, CompleteChunks, RecordChunkFailure, At, Chunking,
         Fault
  <2> QED
    BY <1>1, <2>1, AttendedStep DEF QuietInv
<1> QED
  BY <1>3, <1>4, <1>5, <1>6, <1>7 DEF QuietInv, Attended, Parsing, Chunking, Indexing

\* Work on a version and its set: the claim, the completion and the failure.
LEMMA IndexingQuiet ==
  ASSUME TypeInv, WorkInv, QuietInv, NEW c \in Calls,
         ClaimIndexSet(c) \/ CompleteIndexSet(c) \/ RecordIndexFailure(c)
  PROVE  QuietInv'
<1> DEFINE v == calls[c].version
           e == calls[c].identity
           row == sets[<<v, e>>]
           entry == [calls EXCEPT ![c].pc = "embed", ![c].attempt = row.attempt + 1]
<1>0. /\ v \in Versions /\ e \in Identities
      /\ calls \in [Calls -> Call] /\ sets \in [Versions \X Identities -> SetRow]
      /\ version \in [Versions -> VersionRow] /\ file \in [Versions -> FileStatus]
      /\ row \in SetRow
  BY AtWork DEF ClaimIndexSet, CompleteIndexSet, RecordIndexFailure, Pcs, TypeInv, TypeOK,
     LocalsTyped, RowsTyped
<1>1. /\ entry[c].pc = "embed" /\ entry[c].version = v /\ entry[c].identity = e
      /\ entry[c].attempt = row.attempt + 1
      /\ \A d \in Calls : d # c => entry[d] = calls[d]
  BY <1>0 DEF Call
<1> HIDE DEF entry
<1>2. calls' = entry \/ Goto(c, "record_index") \/ Raise(c) \/ Return(c)
  BY DEF ClaimIndexSet, CompleteIndexSet, RecordIndexFailure, entry
<1>3. /\ \A d \in Calls : d # c => calls'[d] = calls[d]
      /\ calls[c].pc \notin Parsing \cup Chunking
      /\ calls'[c].pc \notin Parsing \cup Chunking
  <2>1. calls[c].pc \in {"claim_index", "complete_index", "record_index"}
    BY DEF ClaimIndexSet, CompleteIndexSet, RecordIndexFailure, At
  <2> QED
    BY <1>1, <1>2, <2>1, Moved DEF Parsing, Chunking
<1>4. lost \subseteq lost'
  BY LostStays DEF Next
<1>5. \A w \in Versions : version'[w].parse = version[w].parse
  BY ParseStatusStays
<1>6. ParsingHeld' = ParsingHeld /\ ChunkingHeld' = ChunkingHeld
  BY <1>5 DEF ClaimIndexSet, CompleteIndexSet, RecordIndexFailure, ParsingHeld, ChunkingHeld
<1>7. /\ Attended(Parsing, ParsingHeld', lost', calls')
      /\ Attended(Chunking, ChunkingHeld', lost', calls')
  <2>1. Attended(Parsing, ParsingHeld', lost', calls')
    BY <1>3, <1>4, <1>6, AttendedStep DEF QuietInv
  <2>2. Attended(Chunking, ChunkingHeld', lost', calls')
    BY <1>3, <1>4, <1>6, AttendedStep DEF QuietInv
  <2> QED
    BY <2>1, <2>2
<1>8. \A d \in Calls : calls[d].pc \in Indexing =>
        calls[d].version \in Versions /\ calls[d].identity \in Identities
  BY <1>0 DEF TypeInv, CallsWork, Working, Indexing
<1>9. ASSUME Attended(Indexing, BusyHeld', lost', calls'), ClaimsHeld', SetsAttended',
             FilesFollow'
      PROVE  QuietInv'
  BY <1>7, <1>9 DEF QuietInv, Attended, Parsing, Chunking, Indexing
\* nothing is written
<1>10. ASSUME UNCHANGED <<version, file, sets>>,
              calls[c].pc \in Indexing =>
                Goto(c, "record_index") \/ v \in lost',
              calls' # entry, ~Goto(c, "record_index") \/ calls[c].pc \in Indexing
       PROVE  QuietInv'
  <2>1. BusyHeld' = BusyHeld
    BY <1>10 DEF BusyHeld
  <2>2. /\ calls[c].pc \in Indexing =>
             \/ calls'[c].pc \in Indexing /\ calls'[c].version = v
             \/ v \in lost'
        /\ calls'[c].pc \in Indexing =>
             /\ calls[c].pc \in Indexing
             /\ calls'[c].version = calls[c].version
             /\ calls'[c].identity = calls[c].identity
             /\ calls'[c].attempt = calls[c].attempt
    BY <1>2, <1>10, Moved DEF Indexing
  <2>3. Attended(Indexing, BusyHeld', lost', calls')
    BY <1>3, <1>4, <2>1, <2>2, AttendedStep DEF QuietInv
  <2>4. ClaimsHeld' /\ SetsAttended'
    BY <1>3, <1>4, <1>10, <2>2, SetsIdle DEF QuietInv
  <2>5. FilesFollow'
    BY <1>10 DEF FilesFollow, QuietInv
  <2> QED
    BY <1>9, <2>3, <2>4, <2>5
\* a claim
<1>11. ASSUME ClaimIndexSet(c), calls' = entry
       PROVE  QuietInv'
  <2>1. /\ SetClaimable(c, v, e) /\ Reclaimable(row)
        /\ sets' = [sets EXCEPT ![<<v, e>>] =
             [row EXCEPT !.status = "indexing", !.attempt = row.attempt + 1]]
        /\ version' = [version EXCEPT ![v].index =
                         IF version[v].set = None THEN "indexing" ELSE @]
        /\ file' = [file EXCEPT ![v] = "indexing"]
    <3>1. calls'[c].pc = "embed"
      BY <1>1, <1>11
    <3> QED
      BY <1>11, <3>1, Moved DEF ClaimIndexSet, entry
  <2>2. v \notin IndexingHeld /\ version[v].parse = "ready"
    BY <1>0, <2>1 DEF SetClaimable, Graph, OtherCandidate, Reclaimable, IndexingHeld
  <2>3. \A d \in Calls : calls[d].pc \in Indexing => calls[d].version # v
    BY <2>2 DEF WorkInv, Exclusive
  <2>4. BusyHeld' \subseteq BusyHeld \cup {v}
    BY <1>0, <2>1 DEF BusyHeld, VersionRow
  <2>5. Attended(Indexing, BusyHeld', lost', calls')
    <3>1. \A w \in BusyHeld' \ lost' :
            \/ calls'[c].version = w /\ calls'[c].pc \in Indexing
            \/ w \in BusyHeld /\ ~(calls[c].version = w /\ calls[c].pc \in Indexing)
      BY <1>1, <1>11, <2>3, <2>4 DEF Indexing
    <3> QED
      BY <1>3, <1>4, <3>1, AttendedStep DEF QuietInv
  <2>6. /\ sets'[<<v, e>>].status = "indexing"
        /\ sets'[<<v, e>>].attempt = row.attempt + 1
        /\ \A w \in Versions, d \in Identities :
             <<w, d>> # <<v, e>> => sets'[<<w, d>>] = sets[<<w, d>>]
    BY <1>0, <2>1 DEF SetRow
  <2>7. ClaimsHeld'
    <3>1. ASSUME NEW d \in Calls, d # c, calls[d].pc \in Indexing
          PROVE  sets'[<<calls[d].version, calls[d].identity>>]
                   = sets[<<calls[d].version, calls[d].identity>>]
      <4>1. <<calls[d].version, calls[d].identity>> # <<v, e>>
        BY <2>3, <3>1
      <4> QED
        BY <1>8, <2>6, <3>1, <4>1
    <3> QED
      BY <1>1, <1>3, <1>11, <2>6, <3>1 DEF ClaimsHeld, Claimed, QuietInv, Indexing
  <2>8. SetsAttended'
    <3>1. ASSUME NEW w \in Versions \ lost', NEW d \in Identities,
                 sets'[<<w, d>>].status = "indexing"
          PROVE  \E b \in Calls : /\ calls'[b].version = w /\ calls'[b].identity = d
                                  /\ calls'[b].pc \in Indexing
      <4>1. CASE <<w, d>> = <<v, e>>
        BY <1>1, <1>11, <4>1 DEF Indexing
      <4>2. CASE <<w, d>> # <<v, e>>
        <5>1. PICK b \in Calls : /\ calls[b].version = w /\ calls[b].identity = d
                                 /\ calls[b].pc \in Indexing
          BY <1>4, <2>6, <3>1, <4>2 DEF QuietInv, SetsAttended
        <5>2. b # c
          BY <1>11, <5>1 DEF ClaimIndexSet, At, Indexing
        <5> QED
          BY <1>3, <5>1, <5>2
      <4> QED
        BY <4>1, <4>2
    <3> QED
      BY <3>1 DEF SetsAttended, Indexing
  <2>9. FilesFollow'
    BY <1>0, <1>5, <2>1, <2>2 DEF FilesFollow, QuietInv
  <2> QED
    BY <1>9, <2>5, <2>7, <2>8, <2>9
\* an end, with a row that is not claimed any more
<1>12. ASSUME calls[c].pc \in Indexing, Raise(c) \/ Return(c),
              NEW r, sets' = [sets EXCEPT ![<<v, e>>] = r], r.status # "indexing",
              v \notin BusyHeld', BusyHeld' \subseteq BusyHeld, FilesFollow'
       PROVE  QuietInv'
  <2>1. calls'[c].pc \notin Indexing
    BY <1>12, Moved DEF Indexing
  <2>2. \A d \in Calls : d # c /\ calls[d].pc \in Indexing => calls[d].version # v
    BY <1>12 DEF WorkInv, Exclusive
  <2>3. Attended(Indexing, BusyHeld', lost', calls')
    BY <1>3, <1>4, <1>12, AttendedStep DEF QuietInv
  <2>4. ClaimsHeld'
    <3>1. ASSUME NEW d \in Calls, d # c, calls[d].pc \in Indexing
          PROVE  sets'[<<calls[d].version, calls[d].identity>>]
                   = sets[<<calls[d].version, calls[d].identity>>]
      <4>1. <<calls[d].version, calls[d].identity>> # <<v, e>>
        BY <2>2, <3>1
      <4> QED
        BY <1>0, <1>8, <1>12, <3>1, <4>1
    <3> QED
      BY <1>3, <2>1, <3>1 DEF ClaimsHeld, Claimed, QuietInv, Indexing
  <2>5. SetsAttended'
    <3>1. ASSUME NEW w \in Versions \ lost', NEW d \in Identities,
                 sets'[<<w, d>>].status = "indexing"
          PROVE  \E b \in Calls : /\ calls'[b].version = w /\ calls'[b].identity = d
                                  /\ calls'[b].pc \in Indexing
      <4>1. <<w, d>> # <<v, e>> /\ sets[<<w, d>>].status = "indexing"
        BY <1>0, <1>12, <3>1
      <4>2. PICK b \in Calls : /\ calls[b].version = w /\ calls[b].identity = d
                               /\ calls[b].pc \in Indexing
        BY <1>4, <4>1 DEF QuietInv, SetsAttended
      <4>3. b # c
        BY <4>1, <4>2
      <4> QED
        BY <1>3, <4>2, <4>3
    <3> QED
      BY <3>1 DEF SetsAttended, Indexing
  <2> QED
    BY <1>9, <1>12, <2>3, <2>4, <2>5
<1>13. CASE ClaimIndexSet(c)
  <2>1. CASE calls' = entry
    BY <1>11, <1>13, <2>1
  <2>2. CASE calls' # entry
    <3>1. UNCHANGED <<version, file, sets>> /\ (Raise(c) \/ Return(c))
      BY <1>13, <2>2 DEF ClaimIndexSet, entry
    <3>2. calls[c].pc \notin Indexing /\ ~Goto(c, "record_index")
      BY <1>13, <3>1, Moved DEF ClaimIndexSet, At, Indexing
    <3> QED
      BY <1>10, <2>2, <3>1, <3>2
  <2> QED
    BY <2>1, <2>2
<1>14. CASE CompleteIndexSet(c)
  <2>0. calls[c].pc \in Indexing
    BY <1>14 DEF CompleteIndexSet, At, Indexing
  <2>1. CASE Goto(c, "record_index") /\ UNCHANGED <<version, file, sets>>
    <3>1. calls' # entry
      BY <1>1, <2>1, Moved
    <3> QED
      BY <1>10, <2>0, <2>1, <3>1
  <2>2. CASE /\ Completable(c, v, e) /\ (Return(c) \/ Raise(c))
             /\ sets' = [sets EXCEPT ![<<v, e>>] = [@ EXCEPT !.status = "ready", !.chunks = TRUE]]
             /\ version' = [version EXCEPT ![v] = [@ EXCEPT !.index = "ready", !.set = e]]
             /\ file' = [file EXCEPT ![v] = "ready"]
    <3>1. BusyHeld' \subseteq BusyHeld /\ v \notin BusyHeld'
      BY <1>0, <2>2 DEF BusyHeld, VersionRow
    <3>2. FilesFollow'
      BY <1>0, <1>5, <2>2 DEF FilesFollow, QuietInv, Completable, Graph
    <3>3. PICK r : r = [row EXCEPT !.status = "ready", !.chunks = TRUE]
      OBVIOUS
    <3>4. sets' = [sets EXCEPT ![<<v, e>>] = r] /\ r.status # "indexing"
      BY <1>0, <2>2, <3>3 DEF SetRow
    <3> QED
      BY <1>12, <2>0, <2>2, <3>1, <3>2, <3>4
  <2> QED
    BY <1>14, <2>1, <2>2 DEF CompleteIndexSet
<1>15. CASE RecordIndexFailure(c)
  <2>0. calls[c].pc \in Indexing /\ Raise(c) /\ Claimed(c, v, e)
    BY <1>15 DEF RecordIndexFailure, At, Indexing, QuietInv, ClaimsHeld
  <2>1. CASE UNCHANGED <<version, file, sets>> /\ v \in lost'
    <3>1. calls' # entry
      BY <1>1, <2>0, Moved
    <3> QED
      BY <1>10, <2>0, <2>1, <3>1
  <2>2. CASE /\ sets' = [sets EXCEPT ![<<v, e>>] = [@ EXCEPT !.status = "failed", !.chunks = FALSE]]
             /\ version' = [version EXCEPT ![v].index =
                  IF version[v].set = None THEN "failed"
                  ELSE IF Live(v) THEN "ready" ELSE @]
             /\ file' = [file EXCEPT ![v] = FileAfterFailure(v)]
    <3>0. version[v].set # None => version[v].index = "ready" /\ version[v].parse = "ready"
      BY <1>0 DEF TypeInv, TypeOK, VersionChecks
    <3>1. /\ FileAfterFailure(v) # "indexing"
          /\ FileAfterFailure(v) = "ready" => version[v].parse = "ready"
      BY <3>0 DEF FileAfterFailure, Live
    <3> HIDE DEF FileAfterFailure
    <3>2. BusyHeld' \subseteq BusyHeld /\ v \notin BusyHeld'
      BY <1>0, <2>2, <3>0, <3>1 DEF BusyHeld, VersionRow
    <3>3. FilesFollow'
      BY <1>0, <1>5, <2>2, <3>1 DEF FilesFollow, QuietInv
    <3>4. PICK r : r = [row EXCEPT !.status = "failed", !.chunks = FALSE]
      OBVIOUS
    <3>5. sets' = [sets EXCEPT ![<<v, e>>] = r] /\ r.status # "indexing"
      BY <1>0, <2>2, <3>4 DEF SetRow
    <3> QED
      BY <1>12, <2>0, <3>2, <3>3, <3>5
  <2> QED
    BY <1>15, <2>0, <2>1, <2>2 DEF RecordIndexFailure, Fault
<1> QED
  BY <1>13, <1>14, <1>15

\* A version at which no call works and none was lost is not left in the middle
\* of anything, for every number of calls, versions and identities, and however
\* late a failure is recorded.
THEOREM QuietIsSettled == Spec => []SettledWhenQuiet
<1>1. Init => QuietInv
  BY DEF Init, QuietInv, Attended, ParsingHeld, ChunkingHeld, BusyHeld, ClaimsHeld,
         SetsAttended, FilesFollow, Idle, Indexing
<1>2. TypeInv /\ WorkInv /\ QuietInv /\ [Next]_vars => QuietInv'
  <2> SUFFICES ASSUME TypeInv, WorkInv, QuietInv, [Next]_vars PROVE QuietInv'
    OBVIOUS
  <2>1. CASE UNCHANGED vars
    BY <2>1 DEF vars, rows, QuietInv, Attended, ParsingHeld, ChunkingHeld, BusyHeld,
                ClaimsHeld, Claimed, SetsAttended, FilesFollow, Parsing, Chunking, Indexing
  <2>2. CASE Next
    BY <2>2, RoutesQuiet, NoRowQuiet, EarlyFailureQuiet, ParsingQuiet, ChunkingQuiet,
       IndexingQuiet DEF Next
  <2> QED
    BY <2>1, <2>2
<1>3. TypeInv /\ QuietInv => SettledWhenQuiet
  <2> SUFFICES ASSUME TypeInv, QuietInv, NEW v \in Versions \ lost, WorkersOf(v) = {}
               PROVE  Settled(v)
    BY DEF SettledWhenQuiet
  <2>1. v \notin ParsingHeld /\ v \notin ChunkingHeld /\ v \notin BusyHeld
    BY DEF QuietInv, Attended, WorkersOf
  <2>2. \A e \in Identities : sets[<<v, e>>].status # "indexing"
    BY DEF QuietInv, SetsAttended, WorkersOf
  <2>3. version[v].index = "failed" => version[v].set = None
    BY DEF TypeInv, TypeOK, VersionChecks
  <2>4. version[v].parse \in {"pending", "failed"} =>
          file[v] \in {"uploaded", "failed", "parsing", "soft_deleted"}
    BY DEF QuietInv, FilesFollow, TypeInv, TypeOK, RowsTyped, FileStatus
  <2> QED
    BY <2>1, <2>2, <2>3, <2>4 DEF Settled, ParsingHeld, ChunkingHeld, BusyHeld
<1> QED
  BY <1>1, <1>2, <1>3, TypeInvariant, WorkInvariant, PTL DEF Spec
=============================================================================
