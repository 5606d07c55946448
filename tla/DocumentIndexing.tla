-------------------------- MODULE DocumentIndexing --------------------------
(***************************************************************************)
(* The indexing of the versions of one document: calls of                  *)
(* DocumentIndexService.index_version that parse, chunk, embed and         *)
(* activate a version, while other calls do the same, versions are added   *)
(* and files are deleted.                                                  *)
(*                                                                         *)
(* A call runs in a thread of some server process and shares only the      *)
(* database and the object storage with the others.  Each of its           *)
(* transactions is one action, and so is each of its steps outside of      *)
(* them: reading and parsing, writing an object, embedding.  A version     *)
(* has one file of its own and one deterministic chunk set; it has one     *)
(* index set per embedding identity, which is a setting of the process.    *)
(***************************************************************************)
EXTENDS Naturals, FiniteSets

CONSTANTS
  Calls,       \* calls of index_version that can be in progress at once
  MaxVersion,  \* bound of the model: versions of the document
  Identities,  \* embedding identities the server processes are set up with
  MaxStarts,   \* bound of the model: calls of index_version in a behaviour
  MaxFaults    \* bound of the model: crashes and failing compensations

ASSUME CallsAssumption == IsFiniteSet(Calls) /\ IsFiniteSet(Identities)
ASSUME BoundsAssumption ==
  MaxVersion \in Nat /\ MaxStarts \in Nat /\ MaxFaults \in Nat

Versions == 1..MaxVersion

None == "none"
ASSUME NoneAssumption == None \notin Identities

VARIABLES
  active,    \* documents.active_version_id as a version_no, 0 for NULL
  version,   \* version_no -> its document_versions row
  file,      \* version_no -> status of its files row
  chunkSet,  \* version_no -> status of its document_chunk_sets row
  sets,      \* version_no, identity -> its document_index_sets row
  objects,   \* keys that hold an object in the storage
  calls,     \* call -> its program counter and local variables
  lost,      \* versions at which a call died or could not record its failure
  unheard,   \* keys whose row became ready in a commit reported as failed
  starts, faults

rows == <<active, version, file, chunkSet, sets>>
vars == <<rows, objects, calls, lost, unheard, starts, faults>>

FileStatus ==
  {"uploaded", "parsing", "indexing", "ready", "failed", "soft_deleted"}
VersionRow ==
  [parse: {"absent", "pending", "parsing", "ready", "failed"},
   index: {"pending", "indexing", "ready", "failed"},
   set: Identities \cup {None}]
SetRow == [status: {"absent", "indexing", "ready", "failed"}, attempt: Nat,
           chunks: BOOLEAN]
Pcs == {"idle", "claim_parse", "parse", "complete_parse", "undo_parse",
        "record_parse", "load", "claim_chunks", "chunk", "complete_chunks",
        "undo_chunks", "record_chunks", "reload", "read_active",
        "claim_index", "embed", "complete_index", "record_index",
        "record_early", "returned"}
Call == [pc: Pcs, version: 0..MaxVersion, identity: Identities \cup {None},
         seen: 0..MaxVersion, attempt: Nat]

Idle == [pc |-> "idle", version |-> 0, identity |-> None, seen |-> 0,
         attempt |-> 0]

\* Every file is uploaded and belongs to no version yet; only then can the
\* document be created with its first version.
Init ==
  /\ active = 0
  /\ version = [v \in Versions |->
                  [parse |-> "absent", index |-> "pending", set |-> None]]
  /\ file = [v \in Versions |-> "uploaded"]
  /\ chunkSet = [v \in Versions |-> "absent"]
  /\ sets = [p \in Versions \X Identities |->
               [status |-> "absent", attempt |-> 0, chunks |-> FALSE]]
  /\ objects = {}
  /\ calls = [c \in Calls |-> Idle]
  /\ lost = {}
  /\ unheard = {}
  /\ starts = 0
  /\ faults = 0

ParsedKey(v) == <<"parsed", v>>
ChunkKey(v) == <<"chunks", v>>

(***************************************************************************)
(* A definition named X_Y is X with the defect Y; the model does not use   *)
(* it, and a property of the runs fails when it takes X's place.           *)
(***************************************************************************)

Exists(v) == version[v].parse # "absent"
Live(v) == file[v] # "soft_deleted"

\* document_live_file_clause: while nothing is active any version's file
\* will do, later only that of the active version.
Manageable ==
  \E v \in Versions : Exists(v) /\ Live(v) /\ active \in {0, v}

At(c, pc) == calls[c].pc = pc
Goto(c, pc) == calls' = [calls EXCEPT ![c].pc = pc]
\* A call raises; which error it is makes no difference to what it leaves.
Raise(c) == calls' = [calls EXCEPT ![c] = Idle]
Return(c) == calls' = [calls EXCEPT ![c] = [Idle EXCEPT !.pc = "returned"]]

\* A fault at version v: what the call should have done now is not done.
Fault(v) ==
  /\ faults < MaxFaults
  /\ faults' = faults + 1
  /\ lost' = lost \cup {v}
  /\ UNCHANGED unheard
\* A commit takes effect and is reported as failed: its connection breaks
\* before the answer.  The rows of keys have become ready by it.
Unheard(keys) ==
  /\ faults < MaxFaults
  /\ faults' = faults + 1
  /\ unheard' = unheard \cup keys
  /\ UNCHANGED lost
NoFault == UNCHANGED <<lost, unheard, faults>>

(***************************************************************************)
(* Versions and files.                                                     *)
(***************************************************************************)
AddVersion(v) ==
  /\ \A w \in Versions : Exists(w) <=> w < v
  /\ v > 1 => Manageable
  /\ file[v] = "uploaded"
  /\ version' = [version EXCEPT ![v].parse = "pending"]
  /\ UNCHANGED <<active, file, chunkSet, sets, objects, calls, starts>>
  /\ NoFault

DeleteFile(v) ==
  /\ Exists(v) /\ Live(v)
  /\ file' = [file EXCEPT ![v] = "soft_deleted"]
  /\ UNCHANGED <<active, version, chunkSet, sets, objects, calls, starts>>
  /\ NoFault

(***************************************************************************)
(* Parsing.  _ensure_parsed reads the status in a transaction of its own;  *)
(* the claim decides.  A call that it refuses leaves nothing and is left   *)
(* out.                                                                    *)
(***************************************************************************)
Start(c) ==
  /\ calls[c].pc \in {"idle", "returned"}
  /\ starts < MaxStarts
  /\ starts' = starts + 1
  /\ \E v \in Versions, e \in Identities :
       /\ Exists(v) /\ Manageable
       /\ \E pc \in {"load", "claim_parse"} :
            /\ pc = "load" => version[v].parse = "ready"
            /\ pc = "claim_parse" => version[v].parse \in {"pending", "failed"}
            /\ calls' = [calls EXCEPT ![c] =
                 [pc |-> pc, version |-> v, identity |-> e, seen |-> 0,
                  attempt |-> 0]]
  /\ UNCHANGED <<rows, objects>>
  /\ NoFault

ParseClaimable_AnyStatus(v) ==
  Manageable /\ file[v] \in {"uploaded", "failed", "parsing"}
ParseClaimable(v) ==
  /\ Manageable
  /\ version[v].parse \in {"pending", "failed"}
  /\ file[v] \in {"uploaded", "failed", "parsing"}

\* The file goes through validating to parsing within the transaction.  When
\* it is deleted in the middle of it, a CHECK of files rolls it back.
ClaimParse(c) ==
  LET v == calls[c].version IN
  /\ At(c, "claim_parse")
  /\ \/ /\ ParseClaimable(v)
        /\ version' = [version EXCEPT ![v].parse = "parsing"]
        /\ file' = [file EXCEPT ![v] = "parsing"]
        /\ Goto(c, "parse")
     \/ /\ ~ParseClaimable(v)
        /\ Raise(c)
        /\ UNCHANGED <<version, file>>
  /\ UNCHANGED <<active, chunkSet, sets, objects, starts>>
  /\ NoFault

\* Reading, parsing or the quality check fails; or the result is written; or
\* put fails, also because the key holds an object, which undo then deletes.
Parse(c) ==
  LET v == calls[c].version IN
  /\ At(c, "parse")
  /\ \/ Goto(c, "record_parse") /\ UNCHANGED objects
     \/ Goto(c, "undo_parse") /\ UNCHANGED objects
     \/ /\ ParsedKey(v) \notin objects
        /\ objects' = objects \cup {ParsedKey(v)}
        /\ Goto(c, "complete_parse")
  /\ UNCHANGED <<rows, starts>>
  /\ NoFault

CompleteParse_NoUndo(c) ==
  LET v == calls[c].version IN
  /\ At(c, "complete_parse")
  /\ \/ /\ version[v].parse = "parsing"
        /\ version' = [version EXCEPT ![v].parse = "ready"]
        /\ \/ Goto(c, "load") /\ NoFault
           \/ Goto(c, "undo_parse") /\ Unheard({ParsedKey(v)})
     \/ Goto(c, "record_parse") /\ UNCHANGED version /\ NoFault
  /\ UNCHANGED <<active, file, chunkSet, sets, objects, starts>>
\* After a database error the call does not know whether the row is ready; it
\* compensates as if it were not.
CompleteParse(c) ==
  LET v == calls[c].version IN
  /\ At(c, "complete_parse")
  /\ \/ /\ version[v].parse = "parsing"
        /\ version' = [version EXCEPT ![v].parse = "ready"]
        /\ \/ Goto(c, "load") /\ NoFault
           \/ Goto(c, "undo_parse") /\ Unheard({ParsedKey(v)})
     \/ Goto(c, "undo_parse") /\ UNCHANGED version /\ NoFault
  /\ UNCHANGED <<active, file, chunkSet, sets, objects, starts>>

\* An error of delete is ignored.
Deleted(v, key) ==
  \/ objects' = objects \ {key} /\ NoFault
  \/ UNCHANGED objects /\ Fault(v)

UndoParse(c) ==
  /\ At(c, "undo_parse")
  /\ Deleted(calls[c].version, ParsedKey(calls[c].version))
  /\ Goto(c, "record_parse")
  /\ UNCHANGED <<rows, starts>>

\* The failure is recorded, or is lost with its whole transaction: when the
\* database fails, or when the file is deleted between the transaction's read
\* of it and its write, which a CHECK of files refuses.
RecordParseFailure(c) ==
  LET v == calls[c].version IN
  /\ At(c, "record_parse")
  /\ \/ /\ version' = [version EXCEPT ![v].parse =
                         IF @ = "parsing" THEN "failed" ELSE @]
        /\ file' = [file EXCEPT ![v] = IF @ = "parsing" THEN "failed" ELSE @]
        /\ NoFault
     \/ /\ ~Live(v) /\ lost' = lost \cup {v}
        /\ UNCHANGED <<version, file, unheard, faults>>
     \/ Fault(v) /\ UNCHANGED <<version, file>>
  /\ Goto(c, "record_early")
  /\ UNCHANGED <<active, chunkSet, sets, objects, starts>>

(***************************************************************************)
(* fail_pipeline_before_claim: parsing or chunking has failed, perhaps     *)
(* while another call is already trying again.                             *)
(***************************************************************************)
Restored(v) ==
  IF version[v].set = None
  THEN /\ version' = [version EXCEPT ![v].index = "failed"]
       /\ file' = [file EXCEPT ![v] = "failed"]
  ELSE /\ version' = [version EXCEPT ![v].index = "ready"]
       /\ file' = [file EXCEPT ![v] = "ready"]

RecordEarlyFailure(c) ==
  LET v == calls[c].version IN
  /\ At(c, "record_early")
  /\ \/ Live(v) /\ Restored(v) /\ NoFault
     \/ ~Live(v) /\ UNCHANGED <<version, file>> /\ NoFault
     \/ Fault(v) /\ UNCHANGED <<version, file>>
  /\ Raise(c)
  /\ UNCHANGED <<active, chunkSet, sets, objects, starts>>

(***************************************************************************)
(* Chunking.                                                               *)
(***************************************************************************)
\* _load_parsed_input, then _load_ready_artifact.  Reading an object may fail.
LoadParsed(c) ==
  LET v == calls[c].version IN
  /\ At(c, "load")
  /\ \/ (~Manageable \/ version[v].parse # "ready") /\ Raise(c)
     \/ Manageable /\ version[v].parse = "ready" /\ Goto(c, "record_early")
     \/ /\ Manageable /\ version[v].parse = "ready" /\ ParsedKey(v) \in objects
        /\ \/ /\ chunkSet[v] = "ready" /\ ChunkKey(v) \in objects
              /\ Goto(c, "read_active")
           \/ chunkSet[v] # "ready" /\ Goto(c, "claim_chunks")
  /\ UNCHANGED <<rows, objects, starts>>
  /\ NoFault

ChunksClaimable(v) ==
  Manageable /\ version[v].parse = "ready" /\ chunkSet[v] \in {"absent", "failed"}

ClaimChunks(c) ==
  LET v == calls[c].version IN
  /\ At(c, "claim_chunks")
  /\ \/ /\ ChunksClaimable(v)
        /\ chunkSet' = [chunkSet EXCEPT ![v] = "chunking"]
        /\ Goto(c, "chunk")
     \/ ~ChunksClaimable(v) /\ Raise(c) /\ UNCHANGED chunkSet
  /\ UNCHANGED <<active, version, file, sets, objects, starts>>
  /\ NoFault

\* The artifact is a function of the parsed input, so an object that is
\* there already is the same one and is used.
Chunk(c) ==
  LET v == calls[c].version IN
  /\ At(c, "chunk")
  /\ \/ Goto(c, "record_chunks") /\ UNCHANGED objects
     \/ /\ objects' = objects \cup {ChunkKey(v)}
        /\ Goto(c, "complete_chunks")
  /\ UNCHANGED <<rows, starts>>
  /\ NoFault

CompleteChunks(c) ==
  LET v == calls[c].version IN
  /\ At(c, "complete_chunks")
  /\ \/ /\ chunkSet[v] = "chunking"
        /\ chunkSet' = [chunkSet EXCEPT ![v] = "ready"]
        /\ \/ Goto(c, "reload") /\ NoFault
           \/ Goto(c, "undo_chunks") /\ Unheard({ChunkKey(v)})
     \/ Goto(c, "undo_chunks") /\ UNCHANGED chunkSet /\ NoFault
  /\ UNCHANGED <<active, version, file, sets, objects, starts>>

UndoChunks(c) ==
  /\ At(c, "undo_chunks")
  /\ Deleted(calls[c].version, ChunkKey(calls[c].version))
  /\ Goto(c, "record_chunks")
  /\ UNCHANGED <<rows, starts>>

RecordChunkFailure(c) ==
  LET v == calls[c].version IN
  /\ At(c, "record_chunks")
  /\ \/ /\ chunkSet' = [chunkSet EXCEPT ![v] =
                          IF @ = "chunking" THEN "failed" ELSE @]
        /\ NoFault
     \/ Fault(v) /\ UNCHANGED chunkSet
  /\ Goto(c, "record_early")
  /\ UNCHANGED <<active, version, file, sets, objects, starts>>

ReloadChunks(c) ==
  LET v == calls[c].version IN
  /\ At(c, "reload")
  /\ \/ /\ chunkSet[v] = "ready" /\ ChunkKey(v) \in objects
        /\ Goto(c, "read_active")
     \/ Goto(c, "record_early")
  /\ UNCHANGED <<rows, objects, starts>>
  /\ NoFault

(***************************************************************************)
(* Indexing.                                                               *)
(***************************************************************************)
\* The session that claims loads the document first, and keeps the object:
\* the locking query of the claim does not refresh its active version.
ReadActive(c) ==
  /\ At(c, "read_active")
  /\ calls' = [calls EXCEPT ![c].pc = "claim_index", ![c].seen = active]
  /\ UNCHANGED <<rows, objects, starts>>
  /\ NoFault

Graph(v) == version[v].parse = "ready" /\ Live(v) /\ chunkSet[v] = "ready"
ActiveAllows(a, v) == a = 0 \/ a <= v

OtherCandidate(v, e) ==
  \E d \in Identities \ {e} : sets[<<v, d>>].status = "indexing"

SetClaimable(c, v, e) ==
  /\ Graph(v)
  /\ ActiveAllows(calls[c].seen, v)
  /\ ~OtherCandidate(v, e)

Reclaimable_Ready(row) == row.status \in {"absent", "failed", "ready"}
Reclaimable(row) == row.status \in {"absent", "failed"}

\* claim_index_set: a ready set whose rows are all there is reused.
ClaimIndexSet(c) ==
  LET v == calls[c].version
      e == calls[c].identity
      row == sets[<<v, e>>]
  IN
  /\ At(c, "claim_index")
  /\ \/ /\ SetClaimable(c, v, e)
        /\ Reclaimable(row)
        /\ sets' = [sets EXCEPT ![<<v, e>>] =
             [row EXCEPT !.status = "indexing", !.attempt = row.attempt + 1]]
        /\ version' = [version EXCEPT ![v].index =
                         IF version[v].set = None THEN "indexing" ELSE @]
        /\ file' = [file EXCEPT ![v] = "indexing"]
        /\ calls' = [calls EXCEPT ![c].pc = "embed",
                                  ![c].attempt = row.attempt + 1]
     \/ /\ SetClaimable(c, v, e) /\ row.status = "ready" /\ row.chunks
        /\ Return(c)
        /\ UNCHANGED <<sets, version, file>>
     \/ /\ \/ ~SetClaimable(c, v, e)
           \/ row.status = "indexing"
           \/ row.status = "ready" /\ ~row.chunks
        /\ Raise(c)
        /\ UNCHANGED <<sets, version, file>>
  /\ UNCHANGED <<active, chunkSet, objects, starts>>
  /\ NoFault

Embed(c) ==
  /\ At(c, "embed")
  /\ Goto(c, "complete_index") \/ Goto(c, "record_index")
  /\ UNCHANGED <<rows, objects, starts>>
  /\ NoFault

Claimed(c, v, e) ==
  sets[<<v, e>>].status = "indexing" /\ sets[<<v, e>>].attempt = calls[c].attempt

Completable(c, v, e) == Graph(v) /\ Claimed(c, v, e) /\ ActiveAllows(active, v)

\* complete_index_set: the rows, the set, the version, the document and the
\* file in one transaction.  Of a call that does not hear of its commit the
\* failure record would find the set ready for good, no claim of its attempt;
\* it changes nothing and is left out.
CompleteIndexSet(c) ==
  LET v == calls[c].version
      e == calls[c].identity
  IN
  /\ At(c, "complete_index")
  /\ \/ /\ Completable(c, v, e)
        /\ sets' = [sets EXCEPT ![<<v, e>>] =
             [@ EXCEPT !.status = "ready", !.chunks = TRUE]]
        /\ version' = [version EXCEPT ![v] =
             [@ EXCEPT !.index = "ready", !.set = e]]
        /\ active' = v
        /\ file' = [file EXCEPT ![v] = "ready"]
        /\ \/ Return(c) /\ NoFault
           \/ Raise(c) /\ Unheard({})
     \/ /\ Goto(c, "record_index") /\ NoFault
        /\ UNCHANGED <<active, version, file, sets>>
  /\ UNCHANGED <<chunkSet, objects, starts>>

FileAfterFailure_KeepsIndexing(v) ==
  IF Live(v) /\ version[v].set = None THEN "failed" ELSE file[v]
FileAfterFailure(v) ==
  CASE ~Live(v)                           -> file[v]
    [] Live(v) /\ version[v].set = None   -> "failed"
    [] Live(v) /\ version[v].set # None   -> "ready"

\* fail_index_set
RecordIndexFailure(c) ==
  LET v == calls[c].version
      e == calls[c].identity
  IN
  /\ At(c, "record_index")
  /\ \/ /\ Claimed(c, v, e)
        /\ sets' = [sets EXCEPT ![<<v, e>>] =
             [@ EXCEPT !.status = "failed", !.chunks = FALSE]]
        /\ version' = [version EXCEPT ![v].index =
             IF version[v].set = None THEN "failed"
             ELSE IF Live(v) THEN "ready" ELSE @]
        /\ file' = [file EXCEPT ![v] = FileAfterFailure(v)]
        /\ NoFault
     \/ ~Claimed(c, v, e) /\ UNCHANGED <<version, file, sets>> /\ NoFault
     \/ Fault(v) /\ UNCHANGED <<version, file, sets>>
  /\ Raise(c)
  /\ UNCHANGED <<active, chunkSet, objects, starts>>

\* A transaction that reads or claims fails without an effect.  index_version
\* records only failures of parsing and of chunking themselves, so the error of
\* the database leaves it as it is.
DatabaseFails(c) ==
  /\ calls[c].pc \in {"claim_parse", "load", "claim_chunks", "reload",
                      "read_active", "claim_index"}
  /\ Raise(c)
  /\ UNCHANGED <<rows, objects, starts>>
  /\ NoFault

\* The process of a call dies; or the commit of its claim took effect and was
\* reported as failed, which no handler catches either.
Crash(c) ==
  /\ calls[c].pc \notin {"idle", "returned"}
  /\ Fault(calls[c].version)
  /\ Raise(c)
  /\ UNCHANGED <<rows, objects, starts>>

Next ==
  \/ \E v \in Versions : AddVersion(v) \/ DeleteFile(v)
  \/ \E c \in Calls :
       \/ Start(c)
       \/ ClaimParse(c) \/ Parse(c) \/ CompleteParse(c) \/ UndoParse(c)
       \/ RecordParseFailure(c) \/ RecordEarlyFailure(c)
       \/ LoadParsed(c) \/ ClaimChunks(c) \/ Chunk(c) \/ CompleteChunks(c)
       \/ UndoChunks(c) \/ RecordChunkFailure(c) \/ ReloadChunks(c)
       \/ ReadActive(c) \/ ClaimIndexSet(c) \/ Embed(c) \/ CompleteIndexSet(c)
       \/ RecordIndexFailure(c)
       \/ DatabaseFails(c) \/ Crash(c)

Spec == Init /\ [][Next]_vars

(***************************************************************************)
(* Properties.                                                             *)
(***************************************************************************)
RowsTyped ==
  /\ active \in 0..MaxVersion
  /\ version \in [Versions -> VersionRow]
  /\ file \in [Versions -> FileStatus]
  /\ chunkSet \in [Versions -> {"absent", "chunking", "ready", "failed"}]
  /\ sets \in [Versions \X Identities -> SetRow]

LocalsTyped ==
  /\ objects \subseteq {ParsedKey(v) : v \in Versions}
                 \cup {ChunkKey(v) : v \in Versions}
  /\ calls \in [Calls -> Call]
  /\ lost \subseteq Versions
  /\ unheard \subseteq {ParsedKey(v) : v \in Versions}
                 \cup {ChunkKey(v) : v \in Versions}
  /\ starts \in 0..MaxStarts /\ faults \in 0..MaxFaults

VersionChecks(row) ==
  /\ row.index = "ready" => row.parse = "ready"
  /\ row.set # None => row.index = "ready"
SetChecks(row) == row.chunks <=> row.status = "ready"

\* Rows have their types and satisfy the CHECK constraints that relate their
\* columns: a ready index has a ready parse, a version that names an active
\* index set is ready itself, and only a ready set has chunk rows.  No
\* transaction of the pipeline runs into one of them.
TypeOK ==
  /\ RowsTyped
  /\ LocalsTyped
  /\ \A v \in Versions : VersionChecks(version[v])
  /\ \A p \in Versions \X Identities : SetChecks(sets[p])

\* What readers are led to is complete: the active version is parsed and
\* indexed and names a ready set whose chunk rows are stored, whatever later
\* attempts at this or other versions do, fail at or crash in
\* (authorized_active_chunks_statement finds the rows of the document).
ActiveServed ==
  active # 0 =>
    /\ version[active].parse = "ready" /\ chunkSet[active] = "ready"
    /\ version[active].index = "ready" /\ version[active].set # None
    /\ sets[<<active, version[active].set>>].status = "ready"
    /\ sets[<<active, version[active].set>>].chunks

\* The pipeline implements ActiveIndex: a set becomes ready and active in one
\* step, and a call that was overtaken by a newer version does not put its
\* older one back (complete_index_set and its _active_version_allows).
Readers == INSTANCE ActiveIndex WITH
  published <- {p \in Versions \X Identities : sets[p].status = "ready"},
  served <- IF active = 0 THEN <<>> ELSE <<active, version[active].set>>
ImplementsActiveIndex == Readers!Spec

\* At most one call parses a version, one chunks it and one indexes it, under
\* whatever identity: the claims exclude each other although the work runs
\* outside of transactions.
Parsing == {"parse", "complete_parse", "undo_parse", "record_parse"}
Chunking == {"chunk", "complete_chunks", "undo_chunks", "record_chunks"}
Indexing == {"embed", "complete_index", "record_index"}
OneWorker ==
  \A c, d \in Calls, phase \in {Parsing, Chunking, Indexing} :
    /\ calls[c].version = calls[d].version
    /\ calls[c].pc \in phase /\ calls[d].pc \in phase
    => c = d

\* When no call works at a version and none has died or lost its failure, the
\* version is not left in the middle of anything: no claim is held, a failed
\* index has nothing active, and a parse that may be tried again finds its
\* file in a status from which it can start.  A failure that is recorded late,
\* after another call has begun again, must not break this.
WorkersOf(v) == {c \in Calls : calls[c].version = v}
Settled(v) ==
  /\ version[v].parse # "parsing" /\ chunkSet[v] # "chunking"
  /\ \A e \in Identities : sets[<<v, e>>].status # "indexing"
  /\ version[v].index # "indexing" /\ file[v] # "indexing"
  /\ version[v].index = "failed" => version[v].set = None
  /\ version[v].parse \in {"pending", "failed"} =>
       file[v] \in {"uploaded", "failed", "parsing", "soft_deleted"}
SettledWhenQuiet ==
  \A v \in Versions \ lost : WorkersOf(v) = {} => Settled(v)

\* A ready row's object is in the storage, unless the commit that made the row
\* ready was reported as failed: only then may a compensation have taken it.
\* Where no call works and no compensation has been lost, an object belongs to
\* a ready row: a completion that fails takes back what it had written.
ObjectsMatchRows ==
  \A v \in Versions :
    /\ version[v].parse = "ready" => ParsedKey(v) \in objects \cup unheard
    /\ chunkSet[v] = "ready" => ChunkKey(v) \in objects \cup unheard
    /\ v \notin lost /\ WorkersOf(v) = {} =>
         /\ ParsedKey(v) \in objects => version[v].parse = "ready"
         /\ ChunkKey(v) \in objects => chunkSet[v] = "ready"

\* The docstring of index_version says that it activates the version: when a
\* call returns ready, its version serves the set of the call's identity.
ReturnedIsActive ==
  [][\A c \in Calls :
       calls[c].pc # "returned" /\ calls'[c].pc = "returned" =>
         /\ active' = calls[c].version
         /\ version'[active'].set = calls[c].identity]_vars
=============================================================================
