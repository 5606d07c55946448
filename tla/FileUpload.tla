----------------------------- MODULE FileUpload -----------------------------
(***************************************************************************)
(* POST /files: a multipart batch is accepted as a whole or not at all.    *)
(*                                                                         *)
(* For each part the service checks name, type, size and signature, puts   *)
(* the object under a fresh key and flushes the row that names it; when    *)
(* the handler has returned, the request session commits.  File system and *)
(* database share no transaction: a part whose row is refused removes its  *)
(* own object, and the request's compensations remove the objects of the   *)
(* earlier parts, newest first, when the handler or the commit raises.     *)
(*                                                                         *)
(* Every step of a put, of the registration, of the commit and of the      *)
(* clean-up is an action, so that readers and the end of the process come  *)
(* in between.  The keys are fresh UUIDs: <<r, i>> is the i-th part of     *)
(* request r.                                                              *)
(***************************************************************************)
EXTENDS Naturals, Sequences, FiniteSets

CONSTANTS
  Requests,     \* upload requests, all served by one process
  Readers,      \* downloads
  Parts,        \* the multipart parts a client may send, of PartType
  MaxParts,     \* upload_max_files_per_request
  MaxSize       \* upload_max_file_size_bytes, in units of the instance

\* A part is what the validation reads of it: the extension of its name, the
\* declared media type, its size and what its bytes are.
PartType == [extension : {"pdf", "docx", "xlsx", "csv", "other"},
             declared  : {"pdf", "docx", "xlsx", "csv", "text", "other"},
             size      : Nat,
             content   : {"pdf", "docx", "xlsx", "zip", "text", "binary"}]

VARIABLES
  request,      \* the local state of each upload
  row,          \* files: the row of each key, "pending" until the commit
  objects,      \* keys with a published object
  temporaries,  \* keys whose private temporary file exists
  download,     \* the local state of each reader
  faults        \* history: which faults have happened, "delete", "ack", "crash"

vars == <<request, row, objects, temporaries, download, faults>>

Keys == Requests \X (1 .. MaxParts)
NoKey == <<>>

---------------------------------------------------------------------------
(* Validation of one part                                                  *)

AllowedDeclared ==
  [pdf |-> {"pdf"}, docx |-> {"docx"}, xlsx |-> {"xlsx"}, csv |-> {"csv", "text"}]

\* What the signature check demands of the bytes: a PDF head and trailer, a
\* bounded and unencrypted archive with the members of its own format, or text
\* that no binary signature matches.
SignatureOf == [pdf |-> "pdf", docx |-> "docx", xlsx |-> "xlsx", csv |-> "text"]

ValidUpload(p) ==
  /\ p.extension \in DOMAIN AllowedDeclared
  /\ p.declared \in AllowedDeclared[p.extension]
  /\ p.size \in 1 .. MaxSize
  /\ p.content = SignatureOf[p.extension]

---------------------------------------------------------------------------
(* The request                                                             *)

\* batch is what the client sent, item the part in hand, undo the keys whose
\* compensation is registered, and pc the place in the code:
\*   validate, write, link, unlink, register, own   one part of the batch
\*   commit, rollback, compensate                   the exits of the dependencies
\*   answered, refused, dead                        201, an error, process gone
RequestType ==
  [pc    : {"validate", "write", "link", "unlink", "register", "own", "commit",
            "rollback", "compensate", "answered", "refused", "dead"},
   batch : Seq(Parts),
   item  : 1 .. MaxParts,
   undo  : Seq(Keys)]

DownloadType == [pc : {"idle", "found", "served", "missing"}, key : Keys \cup {NoKey}]

Key(r) == <<r, request[r].item>>
Goto(r, pc) == request' = [request EXCEPT ![r].pc = pc]
Ended(r) == request[r].pc \in {"answered", "refused", "dead"}
Pending(r) == {k \in Keys : k[1] = r /\ row[k] = "pending"}
RowsOf(r, status) == [k \in Keys |-> IF k \in Pending(r) THEN status ELSE row[k]]

\* An empty or too long batch is refused before the first part is read; the
\* exception passes through both dependencies, which find nothing to undo.
Init ==
  /\ \E batch \in [Requests -> UNION {[1 .. n -> Parts] : n \in 0 .. MaxParts + 1}] :
       request = [r \in Requests |->
                    [pc    |-> IF Len(batch[r]) \in 1 .. MaxParts
                               THEN "validate" ELSE "rollback",
                     batch |-> batch[r], item |-> 1, undo |-> <<>>]]
  /\ row = [k \in Keys |-> "none"]
  /\ objects = {}
  /\ temporaries = {}
  /\ download = [d \in Readers |-> [pc |-> "idle", key |-> NoKey]]
  /\ faults = {}

Validate(r) ==
  /\ request[r].pc = "validate"
  /\ Goto(r, IF ValidUpload(request[r].batch[request[r].item]) THEN "write" ELSE "rollback")
  /\ UNCHANGED <<row, objects, temporaries, download, faults>>

\* put writes and syncs the whole stream to a private temporary file.
PutWrites(r) ==
  /\ request[r].pc = "write"
  /\ temporaries' = temporaries \cup {Key(r)}
  /\ Goto(r, "link")
  /\ UNCHANGED <<row, objects, download, faults>>

\* The directory cannot be made, the stream cannot be read or the file cannot
\* be written: the temporary is removed, as far as that succeeds.
PutFails(r) ==
  /\ request[r].pc \in {"write", "link"}
  /\ temporaries' \in {temporaries \ {Key(r)}, temporaries \cup {Key(r)}}
  /\ Goto(r, "rollback")
  /\ UNCHANGED <<row, objects, download, faults>>

\* The hard link publishes the complete object under its key at once.
PutLinks(r) ==
  /\ request[r].pc = "link"
  /\ objects' = objects \cup {Key(r)}
  /\ Goto(r, "unlink")
  /\ UNCHANGED <<row, temporaries, download, faults>>

\* Removing the temporary is best effort: a failure is swallowed.
PutUnlinks(r) ==
  /\ request[r].pc = "unlink"
  /\ temporaries' \in {temporaries \ {Key(r)}, temporaries}
  /\ Goto(r, "register")
  /\ UNCHANGED <<row, objects, download, faults>>

\* Mutant: the last part's object is not registered for compensation.
Register_LastWithoutUndo(r) ==
  /\ request[r].pc = "register"
  /\ row' = [row EXCEPT ![Key(r)] = "pending"]
  /\ request' = [request EXCEPT
       ![r].undo = IF request[r].item < Len(request[r].batch)
                   THEN Append(request[r].undo, Key(r)) ELSE request[r].undo,
       ![r].item = IF request[r].item < Len(request[r].batch)
                   THEN request[r].item + 1 ELSE request[r].item,
       ![r].pc   = IF request[r].item < Len(request[r].batch)
                   THEN "validate" ELSE "commit"]
  /\ UNCHANGED <<objects, temporaries, download, faults>>

\* The row is flushed into the request's transaction, the compensation of its
\* object is registered and the next part, if any, is taken up.
Register(r) ==
  /\ request[r].pc = "register"
  /\ row' = [row EXCEPT ![Key(r)] = "pending"]
  /\ request' = [request EXCEPT
       ![r].undo = Append(request[r].undo, Key(r)),
       ![r].item = IF request[r].item < Len(request[r].batch)
                   THEN request[r].item + 1 ELSE request[r].item,
       ![r].pc   = IF request[r].item < Len(request[r].batch)
                   THEN "validate" ELSE "commit"]
  /\ UNCHANGED <<objects, temporaries, download, faults>>

\* The insert is refused (or the row does not validate): upload_file removes
\* the object itself, for which no compensation is registered yet.
RegisterFails(r) ==
  /\ request[r].pc = "register"
  /\ Goto(r, "own")
  /\ UNCHANGED <<row, objects, temporaries, download, faults>>

OwnCompensation(r) ==
  /\ request[r].pc = "own"
  /\ \/ objects' = objects \ {Key(r)} /\ faults' = faults
     \/ objects' = objects /\ faults' = faults \cup {"delete"}
  /\ Goto(r, "rollback")
  /\ UNCHANGED <<row, temporaries, download>>

CommitSucceeds(r) ==
  /\ request[r].pc = "commit"
  /\ row' = RowsOf(r, "uploaded")
  /\ Goto(r, "answered")
  /\ UNCHANGED <<objects, temporaries, download, faults>>

CommitFails(r) ==
  /\ request[r].pc = "commit"
  /\ Goto(r, "rollback")
  /\ UNCHANGED <<row, objects, temporaries, download, faults>>

\* The server commits and the connection is lost before it says so: the driver
\* raises as if nothing had been committed.
CommitAckLost(r) ==
  /\ request[r].pc = "commit"
  /\ row' = RowsOf(r, "uploaded")
  /\ faults' = faults \cup {"ack"}
  /\ Goto(r, "rollback")
  /\ UNCHANGED <<objects, temporaries, download>>

\* The session dependency rolls back, then the error reaches the compensations.
Rollback(r) ==
  /\ request[r].pc = "rollback"
  /\ row' = RowsOf(r, "none")
  /\ Goto(r, "compensate")
  /\ UNCHANGED <<objects, temporaries, download, faults>>

\* Newest first; one failing deletion does not keep the others from running.
Compensate(r) ==
  /\ request[r].pc = "compensate"
  /\ request[r].undo # <<>>
  /\ LET undo == request[r].undo
         k    == undo[Len(undo)]
     IN /\ \/ objects' = objects \ {k} /\ faults' = faults
           \/ objects' = objects /\ faults' = faults \cup {"delete"}
        /\ request' = [request EXCEPT ![r].undo = SubSeq(undo, 1, Len(undo) - 1)]
  /\ UNCHANGED <<row, temporaries, download>>

Refuse(r) ==
  /\ request[r].pc = "compensate"
  /\ request[r].undo = <<>>
  /\ Goto(r, "refused")
  /\ UNCHANGED <<row, objects, temporaries, download, faults>>

\* The process ends (or, at shutdown, cancels its requests: CancelledError is
\* no Exception, so neither dependency compensates).  Open transactions vanish.
Crash ==
  /\ \E r \in Requests : ~Ended(r)
  /\ request' = [r \in Requests |->
                   IF Ended(r) THEN request[r] ELSE [request[r] EXCEPT !.pc = "dead"]]
  /\ row' = [k \in Keys |-> IF row[k] = "pending" THEN "none" ELSE row[k]]
  /\ faults' = faults \cup {"crash"}
  /\ UNCHANGED <<objects, temporaries, download>>

---------------------------------------------------------------------------
(* The other routes                                                        *)

\* open_download reads the committed row of a file that is not deleted ...
Find(d, k) ==
  /\ download[d].pc = "idle"
  /\ row[k] = "uploaded"
  /\ download' = [download EXCEPT ![d] = [pc |-> "found", key |-> k]]
  /\ UNCHANGED <<request, row, objects, temporaries, faults>>

\* ... and opens the object the row names, outside of any transaction.
Open(d) ==
  /\ download[d].pc = "found"
  /\ download' = [download EXCEPT
       ![d].pc = IF download[d].key \in objects THEN "served" ELSE "missing"]
  /\ UNCHANGED <<request, row, objects, temporaries, faults>>

\* Mutant: deleting a file removes its object as well.
SoftDelete_RemovesObject(k) ==
  /\ row[k] = "uploaded"
  /\ row' = [row EXCEPT ![k] = "soft_deleted"]
  /\ objects' = objects \ {k}
  /\ UNCHANGED <<request, temporaries, download, faults>>

\* DELETE /files/{id} hides the row and keeps the object.
SoftDelete(k) ==
  /\ row[k] = "uploaded"
  /\ row' = [row EXCEPT ![k] = "soft_deleted"]
  /\ UNCHANGED <<request, objects, temporaries, download, faults>>

Upload(r) ==
  \/ Validate(r) \/ PutWrites(r) \/ PutFails(r) \/ PutLinks(r) \/ PutUnlinks(r)
  \/ Register(r) \/ RegisterFails(r) \/ OwnCompensation(r)
  \/ CommitSucceeds(r) \/ CommitFails(r) \/ CommitAckLost(r)
  \/ Rollback(r) \/ Compensate(r) \/ Refuse(r)

Next ==
  \/ \E r \in Requests : Upload(r)
  \/ Crash
  \/ \E d \in Readers, k \in Keys : Find(d, k)
  \/ \E d \in Readers : Open(d)
  \/ \E k \in Keys : SoftDelete(k)

Spec == Init /\ [][Next]_vars

---------------------------------------------------------------------------
(* Properties                                                              *)

TypeOK ==
  /\ request \in [Requests -> RequestType]
  /\ row \in [Keys -> {"none", "pending", "uploaded", "soft_deleted"}]
  /\ objects \subseteq Keys
  /\ temporaries \subseteq Keys
  /\ download \in [Readers -> DownloadType]
  /\ faults \subseteq {"delete", "ack", "crash"}

BatchKeys(r) == {<<r, i>> : i \in 1 .. Len(request[r].batch)}

\* A batch is accepted as a whole or leaves nothing: after 201 every part has
\* its row and its object; after an error no row was ever visible and, unless
\* a deletion failed, no object is left, whichever part and step failed.
\* (router: one transaction per batch; RequestCompensations: undo the rest.)
SettledBatch ==
  \A r \in Requests :
    /\ request[r].pc = "answered" =>
         \A k \in BatchKeys(r) : row[k] \in {"uploaded", "soft_deleted"} /\ k \in objects
    /\ request[r].pc = "refused" /\ faults \cap {"delete", "ack"} = {} =>
         \A k \in Keys : k[1] = r => row[k] = "none" /\ k \notin objects

\* A reader that finds a row gets its object: the object is there before the
\* row is visible and outlives a deletion of the file between the two steps.
\* Only a lost commit acknowledgement may break it.
FoundIsServed ==
  "ack" \notin faults =>
    \A d \in Readers : download[d].pc # "missing"
=============================================================================
