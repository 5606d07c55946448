-------------------------- MODULE IngestionProofs --------------------------
(***************************************************************************)
(* Proofs about the stages a file goes through before it is indexed, for   *)
(* every set of requests, readers, parts and helper processes and every    *)
(* size of a batch: FileUpload, DoclingProcess and TableChunking as        *)
(* MCIngestion puts them side by side, then the chunks of a text           *)
(* (TextChunking).                                                         *)
(***************************************************************************)
EXTENDS MCIngestion, FiniteSums, SequenceTheorems, TLAPS

(***************************************************************************)
(* FileUpload: the inductive invariant.                                    *)
(*                                                                         *)
(* SettledBatch speaks of the end of a request.  What makes it true is     *)
(* what every place of the code knows of its rows and objects: the parts   *)
(* before the one in hand have a pending row, an object and a registered   *)
(* compensation, the one in hand has an object from the link on, the later *)
(* ones have nothing; after an error the objects left are among those      *)
(* whose compensation is still to run.                                     *)
(***************************************************************************)
InHand == {"validate", "write", "link", "unlink", "register", "own"}
Linked == {"unlink", "register", "own"}
Shown == {"uploaded", "soft_deleted"}

\* What request r, in the local state q, knows of the rows rw and the objects
\* os, when the faults fs have happened.
Counts(r, q) ==
  /\ \A i \in 1 .. Len(q.undo) : q.undo[i] = <<r, i>>
  /\ Len(q.undo) \in 0 .. MaxParts
  /\ q.pc \in InHand \cup {"commit", "answered"} => Len(q.batch) \in 1 .. MaxParts
  /\ q.pc \in InHand => q.item \in 1 .. Len(q.batch) /\ Len(q.undo) = q.item - 1
  /\ q.pc = "commit" => Len(q.undo) = Len(q.batch)
  /\ q.pc = "refused" => q.undo = <<>>

RowsFollow(r, q, rw, fs) ==
  \A i \in 1 .. MaxParts :
    /\ q.pc \in InHand \cup {"commit"} /\ i <= Len(q.undo) => rw[<<r, i>>] = "pending"
    /\ q.pc \in InHand \cup {"commit"} /\ i > Len(q.undo) => rw[<<r, i>>] = "none"
    /\ q.pc = "rollback" /\ "ack" \notin fs => rw[<<r, i>>] \in {"none", "pending"}
    /\ q.pc \in {"compensate", "refused", "dead"} /\ "ack" \notin fs =>
         rw[<<r, i>>] = "none"
    /\ q.pc = "answered" /\ i <= Len(q.batch) => rw[<<r, i>>] \in Shown
    /\ q.pc = "answered" /\ i > Len(q.batch) => rw[<<r, i>>] = "none"

ObjectsFollow(r, q, os, fs) ==
  \A i \in 1 .. MaxParts :
    /\ q.pc \in InHand \cup {"commit"} =>
         (<<r, i>> \in os <=> i <= Len(q.undo) \/ (q.pc \in Linked /\ i = q.item))
    /\ q.pc \in {"rollback", "compensate", "refused"} /\ "delete" \notin fs =>
         (<<r, i>> \in os => i <= Len(q.undo))
    /\ q.pc = "answered" /\ i <= Len(q.batch) => <<r, i>> \in os

Follows(r, q, rw, os, fs) ==
  Counts(r, q) /\ RowsFollow(r, q, rw, fs) /\ ObjectsFollow(r, q, os, fs)

\* A reader holds the key of a row that was shown to it.
Reads(d) ==
  /\ download[d].pc = "found" => download[d].key \in File!Keys
  /\ "ack" \notin faults =>
       /\ download[d].pc = "found" => row[download[d].key] \in Shown
       /\ download[d].pc # "missing"

UploadInv ==
  /\ File!TypeOK
  /\ \A r \in Requests : Follows(r, request[r], row, objects, faults)
  /\ \A d \in Readers : Reads(d)

(***************************************************************************)
(* One step of a request.                                                  *)
(***************************************************************************)

\* What a step of request r leaves of the others' rows and objects, and of the
\* rows that readers have found.
Others(r) ==
  /\ \A s \in Requests \ {r} :
       /\ request'[s] = request[s]
       /\ \A i \in 1 .. MaxParts :
            /\ row'[<<s, i>>] = row[<<s, i>>]
            /\ <<s, i>> \in objects' <=> <<s, i>> \in objects
  /\ \A k \in File!Keys : row[k] \in Shown => row'[k] \in Shown
  /\ faults \subseteq faults'
  /\ download' = download

Own(r) == Follows(r, request'[r], row', objects', faults')

\* A key is a request and a number.
LEMMA KeyParts ==
  /\ \A r \in Requests, i \in 1 .. MaxParts : <<r, i>> \in File!Keys
  /\ \A k \in File!Keys : k[1] \in Requests /\ k[2] \in 1 .. MaxParts /\ k = <<k[1], k[2]>>
BY DEF File!Keys

\* The facts about a request that every step needs.
LEMMA RequestFacts ==
  ASSUME UploadInv, NEW r \in Requests
  PROVE  /\ request[r] \in File!RequestType
         /\ DOMAIN request = Requests
         /\ row \in [File!Keys -> {"none", "pending", "uploaded", "soft_deleted"}]
         /\ Follows(r, request[r], row, objects, faults)
         /\ objects \subseteq File!Keys
BY DEF UploadInv, File!TypeOK

\* A step that only moves one request to another place of the code leaves all
\* else, and leaves it well-typed.
LEMMA GotoFacts ==
  ASSUME UploadInv, NEW r \in Requests, NEW p, File!Goto(r, p)
  PROVE  /\ request'[r] = [request[r] EXCEPT !.pc = p]
         /\ request'[r].pc = p
         /\ request'[r].batch = request[r].batch
         /\ request'[r].item = request[r].item
         /\ request'[r].undo = request[r].undo
         /\ \A s \in Requests \ {r} : request'[s] = request[s]
BY DEF UploadInv, File!TypeOK, File!RequestType, File!Goto

\* A request that goes to another place of the code stays a request.
LEMMA GotoTyped ==
  ASSUME UploadInv, NEW r \in Requests,
         NEW p \in {"validate", "write", "link", "unlink", "register", "own", "commit",
                    "answered", "rollback", "compensate", "refused", "dead"},
         File!Goto(r, p)
  PROVE  request' \in [Requests -> File!RequestType]
<1>1. PICK q \in File!RequestType : q = request[r]
  BY RequestFacts
<1>2. [q EXCEPT !.pc = p] \in File!RequestType
  BY DEF File!RequestType
<1>3. request \in [Requests -> File!RequestType]
  BY DEF UploadInv, File!TypeOK
<1> QED
  BY <1>1, <1>2, <1>3 DEF File!Goto

\* The moves that change neither rows nor objects and keep what is known of them.
Moves ==
  {<<"validate", "write">>, <<"validate", "rollback">>, <<"write", "link">>,
   <<"write", "rollback">>, <<"link", "rollback">>, <<"unlink", "register">>,
   <<"register", "own">>, <<"commit", "rollback">>}

\* Such a move, for any rows, objects and faults.
LEMMA MovesFollow ==
  ASSUME NEW r, NEW q \in File!RequestType, NEW p, <<q.pc, p>> \in Moves,
         NEW rw, NEW os, NEW fs, Follows(r, q, rw, os, fs)
  PROVE  Follows(r, [q EXCEPT !.pc = p], rw, os, fs)
<1> DEFINE k == [q EXCEPT !.pc = p]
<1>1. k.pc = p /\ k.batch = q.batch /\ k.item = q.item /\ k.undo = q.undo
  BY DEF File!RequestType
<1> HIDE DEF k
<1>2. MaxParts \in Nat /\ Len(q.undo) \in Nat
  BY PartsAssumption DEF Follows, Counts
<1>3. Counts(r, k)
  <2>1. p \in {"write", "rollback", "link", "register", "own"}
    BY DEF Moves
  <2>2. p \in InHand => q.pc \in InHand
    BY DEF Moves, InHand
  <2>3. p # "commit" /\ p # "answered" /\ p # "refused"
    BY <2>1
  <2>4. q.pc \in InHand => q.pc \in InHand \cup {"commit"}
    OBVIOUS
  <2> QED
    BY <1>1, <2>2, <2>3, <2>4 DEF Follows, Counts
<1>4. RowsFollow(r, k, rw, fs)
  <2> SUFFICES ASSUME NEW i \in 1 .. MaxParts
               PROVE  p = "rollback" => rw[<<r, i>>] \in {"none", "pending"}
    <3>1. q.pc \in InHand \cup {"commit"} /\ (p \in InHand => q.pc \in InHand)
          /\ p \in InHand \cup {"rollback"}
      BY DEF Moves, InHand
    <3> QED
      BY <1>1, <3>1 DEF Follows, RowsFollow, InHand
  <2>1. i <= Len(q.undo) \/ i > Len(q.undo)
    BY <1>2
  <2>2. q.pc \in InHand \cup {"commit"}
    BY DEF Moves, InHand
  <2> QED
    BY <2>1, <2>2 DEF Follows, RowsFollow
<1>5. ObjectsFollow(r, k, os, fs)
  BY <1>1 DEF Follows, ObjectsFollow, Moves, InHand, Linked
<1> QED
  BY <1>3, <1>4, <1>5 DEF Follows, k

\* The steps of a request that only move it.
LEMMA MoveStep ==
  ASSUME UploadInv, NEW r \in Requests, NEW p, File!Goto(r, p),
         <<request[r].pc, p>> \in Moves,
         UNCHANGED <<row, objects, download, faults>>,
         temporaries' \subseteq File!Keys
  PROVE  Others(r) /\ Own(r) /\ File!TypeOK'
<1>1. Others(r)
  BY GotoFacts DEF Others
<1>2. Own(r)
  <2>1. request'[r] = [request[r] EXCEPT !.pc = p]
    BY GotoFacts
  <2>2. Follows(r, [request[r] EXCEPT !.pc = p], row, objects, faults)
    BY MovesFollow, RequestFacts
  <2> QED
    BY <2>1, <2>2 DEF Own
<1>3. p \in {"write", "rollback", "link", "register", "own"}
  BY DEF Moves
<1>4. File!TypeOK'
  BY <1>3 DEF UploadInv, File!TypeOK, File!Goto, File!RequestType
<1> QED
  BY <1>1, <1>2, <1>4

\* The key of the part in hand.
LEMMA KeyInHand ==
  ASSUME UploadInv, NEW r \in Requests
  PROVE  File!Key(r) = <<r, request[r].item>> /\ File!Key(r) \in File!Keys
BY DEF UploadInv, File!TypeOK, File!RequestType, File!Key, File!Keys

\* Validation, the put up to the link, its failures, the removal of the
\* temporary, a refused row and a failing commit.
LEMMA MovingSteps ==
  ASSUME UploadInv, NEW r \in Requests,
         \/ File!Validate(r) \/ File!PutWrites(r) \/ File!PutFails(r)
         \/ File!PutUnlinks(r) \/ File!RegisterFails(r) \/ File!CommitFails(r)
  PROVE  Others(r) /\ Own(r) /\ File!TypeOK'
<1> USE KeyInHand
<1>0. temporaries \subseteq File!Keys
  BY DEF UploadInv, File!TypeOK
<1>1. CASE File!Validate(r)
  <2>1. File!Goto(r, "write") \/ File!Goto(r, "rollback")
    BY <1>1 DEF File!Validate
  <2>2. /\ <<request[r].pc, "write">> \in Moves /\ <<request[r].pc, "rollback">> \in Moves
        /\ UNCHANGED <<row, objects, temporaries, download, faults>>
    BY <1>1 DEF File!Validate, Moves
  <2> QED
    BY <1>0, <2>1, <2>2, MoveStep
<1>2. CASE File!PutWrites(r)
  BY <1>0, <1>2, MoveStep DEF File!PutWrites, Moves
<1>3. CASE File!PutFails(r)
  <2>1. /\ File!Goto(r, "rollback") /\ <<request[r].pc, "rollback">> \in Moves
        /\ UNCHANGED <<row, objects, download, faults>>
        /\ temporaries' \subseteq File!Keys
    BY <1>0, <1>3 DEF File!PutFails, Moves
  <2> QED
    BY <2>1, MoveStep
<1>4. CASE File!PutUnlinks(r)
  <2>1. /\ File!Goto(r, "register") /\ <<request[r].pc, "register">> \in Moves
        /\ UNCHANGED <<row, objects, download, faults>>
        /\ temporaries' \subseteq File!Keys
    BY <1>0, <1>4 DEF File!PutUnlinks, Moves
  <2> QED
    BY <2>1, MoveStep
<1>5. CASE File!RegisterFails(r)
  BY <1>0, <1>5, MoveStep DEF File!RegisterFails, Moves
<1>6. CASE File!CommitFails(r)
  BY <1>0, <1>6, MoveStep DEF File!CommitFails, Moves
<1> QED
  BY <1>1, <1>2, <1>3, <1>4, <1>5, <1>6

\* The link publishes the object of the part in hand.
LEMMA LinkStep ==
  ASSUME UploadInv, NEW r \in Requests, File!PutLinks(r)
  PROVE  Others(r) /\ Own(r) /\ File!TypeOK'
<1> DEFINE q == request[r]
<1>1. /\ q.pc = "link" /\ File!Goto(r, "unlink")
      /\ objects' = objects \cup {File!Key(r)}
      /\ UNCHANGED <<row, temporaries, download, faults>>
  BY DEF File!PutLinks
<1>2. PICK j : j = request'[r]
  OBVIOUS
<1>3. /\ j.pc = "unlink" /\ j.batch = q.batch /\ j.item = q.item /\ j.undo = q.undo
      /\ \A s \in Requests \ {r} : request'[s] = request[s]
  BY <1>1, <1>2, GotoFacts
<1>4. /\ q \in File!RequestType
      /\ Counts(r, q) /\ RowsFollow(r, q, row, faults) /\ ObjectsFollow(r, q, objects, faults)
  BY RequestFacts DEF Follows
<1>5. File!Key(r) = <<r, q.item>> /\ File!Key(r) \in File!Keys
  BY KeyInHand
<1>6. \A s \in Requests, i \in 1 .. MaxParts :
        <<s, i>> \in objects' <=> <<s, i>> \in objects \/ (s = r /\ i = q.item)
  BY <1>1, <1>5
<1> HIDE DEF q
<1>7. Others(r)
  BY <1>1, <1>3, <1>6 DEF Others
<1>8. Counts(r, j)
  BY <1>1, <1>3, <1>4 DEF Counts, InHand
<1>9. RowsFollow(r, j, row', faults')
  BY <1>1, <1>3, <1>4 DEF RowsFollow, InHand
<1>10. ObjectsFollow(r, j, objects', faults')
  BY <1>1, <1>3, <1>4, <1>6 DEF ObjectsFollow, InHand, Linked
<1>11. Own(r)
  BY <1>2, <1>8, <1>9, <1>10 DEF Own, Follows
<1>12. File!TypeOK'
  BY <1>1, <1>5 DEF UploadInv, File!TypeOK, File!Goto, File!RequestType
<1> QED
  BY <1>7, <1>11, <1>12

\* The row of the part in hand joins the pending ones, and its object those
\* whose compensation is registered; then comes the next part or the commit.
LEMMA RegisterStep ==
  ASSUME UploadInv, NEW r \in Requests, File!Register(r)
  PROVE  Others(r) /\ Own(r) /\ File!TypeOK'
<1>1. PICK q : q = request[r]
  OBVIOUS
<1>2. /\ q \in File!RequestType /\ q.pc = "register"
      /\ Counts(r, q) /\ RowsFollow(r, q, row, faults) /\ ObjectsFollow(r, q, objects, faults)
  BY <1>1, RequestFacts DEF Follows, File!Register
<1>3. /\ Len(q.undo) = q.item - 1 /\ q.item \in 1 .. Len(q.batch) /\ q.item \in 1 .. MaxParts
      /\ Len(q.batch) \in 1 .. MaxParts /\ MaxParts \in Nat
      /\ q.undo \in Seq(File!Keys) /\ q.batch \in Seq(Parts)
  BY <1>2, PartsAssumption DEF Counts, InHand, File!RequestType
<1>4. PICK key : key = <<r, q.item>> /\ key = File!Key(r) /\ key \in File!Keys
  BY <1>1, KeyInHand
<1>5. PICK j : j = [q EXCEPT !.undo = Append(q.undo, key),
                             !.item = IF q.item < Len(q.batch) THEN q.item + 1 ELSE q.item,
                             !.pc = IF q.item < Len(q.batch) THEN "validate" ELSE "commit"]
  OBVIOUS
<1>6. /\ j.undo = Append(q.undo, key) /\ j.batch = q.batch
      /\ j.item = IF q.item < Len(q.batch) THEN q.item + 1 ELSE q.item
      /\ j.pc = IF q.item < Len(q.batch) THEN "validate" ELSE "commit"
  BY <1>2, <1>5 DEF File!RequestType
<1>7. /\ request' = [request EXCEPT ![r] = j]
      /\ row' = [row EXCEPT ![key] = "pending"]
      /\ UNCHANGED <<objects, temporaries, download, faults>>
  <2>1. request' = [request EXCEPT ![r] = [request[r] EXCEPT
            !.undo = Append(request[r].undo, File!Key(r)),
            !.item = IF request[r].item < Len(request[r].batch)
                     THEN request[r].item + 1 ELSE request[r].item,
            !.pc = IF request[r].item < Len(request[r].batch) THEN "validate" ELSE "commit"]]
    BY DEF File!Register, UploadInv, File!TypeOK, File!RequestType
  <2> QED
    BY <1>1, <1>4, <1>5, <2>1 DEF File!Register
<1>8. /\ Len(j.undo) = q.item
      /\ \A i \in 1 .. q.item : j.undo[i] = <<r, i>>
  <2>1. Len(j.undo) = Len(q.undo) + 1
    BY <1>3, <1>4, <1>6
  <2>2. \A i \in 1 .. Len(q.undo) : j.undo[i] = q.undo[i]
    BY <1>3, <1>4, <1>6
  <2>3. j.undo[Len(q.undo) + 1] = key
    BY <1>3, <1>4, <1>6
  <2>4. Len(q.undo) + 1 = q.item
        /\ \A i \in 1 .. q.item : i = q.item \/ i \in 1 .. Len(q.undo)
    BY <1>3
  <2>5. \A i \in 1 .. Len(q.undo) : q.undo[i] = <<r, i>>
    BY <1>2 DEF Counts
  <2> QED
    BY <1>4, <2>1, <2>2, <2>3, <2>4, <2>5
<1>9. j \in File!RequestType
  <2>1. j.pc \in {"validate", "commit"} /\ j.item \in 1 .. MaxParts
    BY <1>3, <1>6
  <2>2. Append(q.undo, key) \in Seq(File!Keys)
    BY <1>3, <1>4
  <2> QED
    BY <1>2, <1>5, <1>6, <2>1, <2>2 DEF File!RequestType
<1>10. /\ row'[<<r, q.item>>] = "pending"
       /\ \A k \in File!Keys \ {key} : row'[k] = row[k]
       /\ row[key] = "none"
  <2>1. row[key] = "none"
    BY <1>2, <1>3, <1>4 DEF RowsFollow, InHand
  <2> QED
    BY <1>4, <1>7, <2>1, RequestFacts
<1>11. /\ \A s \in Requests \ {r}, i \in 1 .. MaxParts : row'[<<s, i>>] = row[<<s, i>>]
       /\ \A i \in 1 .. MaxParts : i # q.item => row'[<<r, i>>] = row[<<r, i>>]
  BY <1>4, <1>10, KeyParts
<1>12. Others(r)
  BY <1>4, <1>7, <1>10, <1>11 DEF Others, Shown
<1>13. \A i \in 1 .. MaxParts :
         /\ i <= Len(j.undo) => row'[<<r, i>>] = "pending"
         /\ i > Len(j.undo) => row'[<<r, i>>] = "none"
  <2>1. \A i \in 1 .. MaxParts :
          /\ i = q.item \/ i <= Len(q.undo) \/ i > Len(q.undo)
          /\ i < q.item <=> i <= Len(q.undo)
    BY <1>3
  <2>2. \A i \in 1 .. MaxParts :
          /\ i <= Len(q.undo) => row[<<r, i>>] = "pending"
          /\ i > Len(q.undo) => row[<<r, i>>] = "none"
    BY <1>2 DEF RowsFollow, InHand
  <2>3. \A i \in 1 .. MaxParts : (i < q.item \/ i = q.item <=> i <= Len(j.undo))
                                 /\ (i > Len(j.undo) => i > Len(q.undo))
    BY <1>3, <1>8
  <2> QED
    BY <1>10, <1>11, <2>1, <2>2, <2>3
<1>14. \A i \in 1 .. MaxParts : <<r, i>> \in objects' <=> i <= Len(j.undo)
  <2>1. \A i \in 1 .. MaxParts : i <= Len(j.undo) <=> i <= Len(q.undo) \/ i = q.item
    BY <1>3, <1>8
  <2> QED
    BY <1>2, <1>7, <2>1 DEF ObjectsFollow, InHand, Linked
<1>15. ASSUME q.item < Len(q.batch) PROVE Follows(r, j, row', objects', faults')
  <2>1. j.pc = "validate" /\ j.item = q.item + 1 /\ Len(j.undo) = j.item - 1
    BY <1>3, <1>6, <1>8, <1>15
  <2>2. Counts(r, j)
    BY <1>3, <1>6, <1>8, <1>15, <2>1 DEF Counts, InHand
  <2>3. RowsFollow(r, j, row', faults')
    BY <1>13, <2>1 DEF RowsFollow, InHand
  <2>4. ObjectsFollow(r, j, objects', faults')
    BY <1>14, <2>1 DEF ObjectsFollow, InHand, Linked
  <2> QED
    BY <2>2, <2>3, <2>4 DEF Follows
<1>16. ASSUME ~(q.item < Len(q.batch)) PROVE Follows(r, j, row', objects', faults')
  <2>1. j.pc = "commit" /\ j.item = q.item /\ q.item = Len(q.batch)
    BY <1>3, <1>6, <1>16
  <2>2. Counts(r, j)
    BY <1>3, <1>6, <1>8, <2>1 DEF Counts, InHand
  <2>3. RowsFollow(r, j, row', faults')
    BY <1>13, <2>1 DEF RowsFollow, InHand
  <2>4. ObjectsFollow(r, j, objects', faults')
    BY <1>14, <2>1 DEF ObjectsFollow, InHand, Linked
  <2> QED
    BY <2>2, <2>3, <2>4 DEF Follows
<1>17. Follows(r, j, row', objects', faults')
  BY <1>15, <1>16
<1>18. request'[r] = j
  BY <1>7, RequestFacts
<1>19. File!TypeOK'
  BY <1>7, <1>9, <1>4 DEF UploadInv, File!TypeOK
<1> QED
  BY <1>12, <1>17, <1>18, <1>19 DEF Own

\* upload_file removes the object of a row that was refused.
LEMMA OwnCompensationStep ==
  ASSUME UploadInv, NEW r \in Requests, File!OwnCompensation(r)
  PROVE  Others(r) /\ Own(r) /\ File!TypeOK'
<1>1. PICK q : q = request[r]
  OBVIOUS
<1>2. /\ q \in File!RequestType /\ q.pc = "own" /\ q.item \in 1 .. MaxParts
      /\ Counts(r, q) /\ RowsFollow(r, q, row, faults) /\ ObjectsFollow(r, q, objects, faults)
  BY <1>1, RequestFacts DEF Follows, File!OwnCompensation, File!RequestType
<1>3. /\ File!Goto(r, "rollback") /\ UNCHANGED <<row, temporaries, download>>
      /\ File!Key(r) = <<r, q.item>>
      /\ \/ objects' = objects \ {<<r, q.item>>} /\ faults' = faults
         \/ objects' = objects /\ faults' = faults \cup {"delete"}
  BY <1>1, KeyInHand DEF File!OwnCompensation
<1>4. PICK j : j = request'[r]
  OBVIOUS
<1>5. /\ j.pc = "rollback" /\ j.batch = q.batch /\ j.item = q.item /\ j.undo = q.undo
      /\ \A s \in Requests \ {r} : request'[s] = request[s]
  BY <1>1, <1>3, <1>4, GotoFacts
<1>6. Others(r)
  BY <1>3, <1>5 DEF Others
<1>7. Counts(r, j)
  BY <1>2, <1>5 DEF Counts, InHand
<1>8. RowsFollow(r, j, row', faults')
  <2>1. \A i \in 1 .. MaxParts : row[<<r, i>>] \in {"none", "pending"}
    <3>1. \A i \in 1 .. MaxParts : i <= Len(q.undo) \/ i > Len(q.undo)
      BY <1>2, PartsAssumption DEF Counts
    <3> QED
      BY <1>2, <3>1 DEF RowsFollow, InHand
  <2> QED
    BY <1>3, <1>5, <2>1 DEF RowsFollow, InHand
<1>9. ObjectsFollow(r, j, objects', faults')
  BY <1>2, <1>3, <1>5 DEF ObjectsFollow, InHand, Linked
<1>10. File!TypeOK'
  <2>1. request' \in [Requests -> File!RequestType]
    BY <1>3, GotoTyped
  <2> QED
    BY <1>3, <2>1 DEF UploadInv, File!TypeOK
<1> QED
  BY <1>4, <1>6, <1>7, <1>8, <1>9, <1>10 DEF Own, Follows

\* What the end of the transaction of r does to rows.
LEMMA RowsOfFacts ==
  ASSUME UploadInv, NEW r \in Requests, NEW status \in {"none", "uploaded"},
         row' = File!RowsOf(r, status)
  PROVE  /\ \A s \in Requests \ {r}, i \in 1 .. MaxParts : row'[<<s, i>>] = row[<<s, i>>]
         /\ \A i \in 1 .. MaxParts :
              /\ row[<<r, i>>] = "pending" => row'[<<r, i>>] = status
              /\ row[<<r, i>>] # "pending" => row'[<<r, i>>] = row[<<r, i>>]
         /\ \A k \in File!Keys : row[k] \in Shown => row'[k] = row[k]
         /\ row' \in [File!Keys -> {"none", "pending", "uploaded", "soft_deleted"}]
<1>1. \A k \in File!Keys :
        /\ k[1] = r /\ row[k] = "pending" => row'[k] = status
        /\ k[1] # r \/ row[k] # "pending" => row'[k] = row[k]
  BY DEF File!RowsOf, File!Pending
<1>2. row' \in [File!Keys -> {"none", "pending", "uploaded", "soft_deleted"}]
  BY RequestFacts DEF File!RowsOf, File!Pending
<1> QED
  BY <1>1, <1>2, KeyParts DEF Shown

\* The commit, acknowledged or not.
LEMMA CommitStep ==
  ASSUME UploadInv, NEW r \in Requests, File!CommitSucceeds(r) \/ File!CommitAckLost(r)
  PROVE  Others(r) /\ Own(r) /\ File!TypeOK'
<1>1. PICK q : q = request[r]
  OBVIOUS
<1>2. /\ q \in File!RequestType /\ q.pc = "commit"
      /\ Counts(r, q) /\ RowsFollow(r, q, row, faults) /\ ObjectsFollow(r, q, objects, faults)
      /\ Len(q.undo) = Len(q.batch) /\ Len(q.undo) \in 0 .. MaxParts /\ MaxParts \in Nat
  BY <1>1, RequestFacts, PartsAssumption
     DEF Follows, File!CommitSucceeds, File!CommitAckLost, Counts
<1>3. /\ row' = File!RowsOf(r, "uploaded") /\ UNCHANGED <<objects, temporaries, download>>
      /\ \/ File!Goto(r, "answered") /\ faults' = faults
         \/ File!Goto(r, "rollback") /\ faults' = faults \cup {"ack"}
  BY DEF File!CommitSucceeds, File!CommitAckLost
<1>4. PICK j : j = request'[r]
  OBVIOUS
<1>5. /\ j.pc = "answered" \/ (j.pc = "rollback" /\ "ack" \in faults')
      /\ j.batch = q.batch /\ j.item = q.item /\ j.undo = q.undo
      /\ \A s \in Requests \ {r} : request'[s] = request[s]
  BY <1>1, <1>3, <1>4, GotoFacts
<1>6. Others(r)
  BY <1>3, <1>5, RowsOfFacts DEF Others
<1>7. Counts(r, j)
  BY <1>2, <1>5 DEF Counts, InHand
<1>8. \A i \in 1 .. MaxParts :
        /\ i <= Len(q.batch) => row'[<<r, i>>] = "uploaded"
        /\ i > Len(q.batch) => row'[<<r, i>>] = "none"
  BY <1>2, <1>3, RowsOfFacts DEF RowsFollow
<1>9. RowsFollow(r, j, row', faults')
  BY <1>5, <1>8 DEF RowsFollow, InHand, Shown
<1>10. ObjectsFollow(r, j, objects', faults')
  BY <1>2, <1>3, <1>5 DEF ObjectsFollow, InHand, Linked
<1>11. File!TypeOK'
  <2>1. row' \in [File!Keys -> {"none", "pending", "uploaded", "soft_deleted"}]
    BY <1>3, RowsOfFacts
  <2>2. PICK p \in {"answered", "rollback"} : File!Goto(r, p)
    BY <1>3
  <2>3. request' \in [Requests -> File!RequestType]
    BY <2>2, GotoTyped
  <2>4. faults' \subseteq {"delete", "ack", "crash"}
    BY <1>3 DEF UploadInv, File!TypeOK
  <2> QED
    BY <1>3, <2>1, <2>3, <2>4 DEF UploadInv, File!TypeOK
<1> QED
  BY <1>4, <1>6, <1>7, <1>9, <1>10, <1>11 DEF Own, Follows

\* The rollback takes the pending rows away.
LEMMA RollbackStep ==
  ASSUME UploadInv, NEW r \in Requests, File!Rollback(r)
  PROVE  Others(r) /\ Own(r) /\ File!TypeOK'
<1>1. PICK q : q = request[r]
  OBVIOUS
<1>2. /\ q \in File!RequestType /\ q.pc = "rollback"
      /\ Counts(r, q) /\ RowsFollow(r, q, row, faults) /\ ObjectsFollow(r, q, objects, faults)
  BY <1>1, RequestFacts DEF Follows, File!Rollback
<1>3. /\ row' = File!RowsOf(r, "none") /\ File!Goto(r, "compensate")
      /\ UNCHANGED <<objects, temporaries, download, faults>>
  BY DEF File!Rollback
<1>4. PICK j : j = request'[r]
  OBVIOUS
<1>5. /\ j.pc = "compensate"
      /\ j.batch = q.batch /\ j.item = q.item /\ j.undo = q.undo
      /\ \A s \in Requests \ {r} : request'[s] = request[s]
  BY <1>1, <1>3, <1>4, GotoFacts
<1>6. Others(r)
  BY <1>3, <1>5, RowsOfFacts DEF Others
<1>7. Counts(r, j)
  BY <1>2, <1>5 DEF Counts, InHand
<1>8. RowsFollow(r, j, row', faults')
  BY <1>2, <1>3, <1>5, RowsOfFacts DEF RowsFollow, InHand, Shown
<1>9. ObjectsFollow(r, j, objects', faults')
  BY <1>2, <1>3, <1>5 DEF ObjectsFollow, InHand, Linked
<1>10. File!TypeOK'
  <2>1. row' \in [File!Keys -> {"none", "pending", "uploaded", "soft_deleted"}]
    BY <1>3, RowsOfFacts
  <2>2. request' \in [Requests -> File!RequestType]
    BY <1>3, GotoTyped
  <2> QED
    BY <1>3, <2>1, <2>2 DEF UploadInv, File!TypeOK
<1> QED
  BY <1>4, <1>6, <1>7, <1>8, <1>9, <1>10 DEF Own, Follows

\* One compensation: the newest object goes, or stays with a fault.
LEMMA CompensateStep ==
  ASSUME UploadInv, NEW r \in Requests, File!Compensate(r)
  PROVE  Others(r) /\ Own(r) /\ File!TypeOK'
<1>1. PICK q : q = request[r]
  OBVIOUS
<1>2. /\ q \in File!RequestType /\ q.pc = "compensate" /\ q.undo # <<>>
      /\ q.undo \in Seq(File!Keys) /\ MaxParts \in Nat
      /\ Counts(r, q) /\ RowsFollow(r, q, row, faults) /\ ObjectsFollow(r, q, objects, faults)
  BY <1>1, RequestFacts, PartsAssumption DEF Follows, File!Compensate, File!RequestType
<1>3. PICK n : n = Len(q.undo)
  OBVIOUS
<1>4. n \in 1 .. MaxParts /\ q.undo[n] = <<r, n>>
  <2>1. n \in 0 .. MaxParts /\ n # 0
    BY <1>2, <1>3 DEF Counts
  <2>2. n \in 1 .. n
    BY <2>1
  <2> QED
    BY <1>2, <1>3, <2>1, <2>2 DEF Counts
<1>5. PICK rest : rest = SubSeq(q.undo, 1, n - 1)
  OBVIOUS
<1>6. /\ rest \in Seq(File!Keys) /\ Len(rest) = n - 1
      /\ \A i \in 1 .. n - 1 : rest[i] = q.undo[i]
  BY <1>2, <1>3, <1>4, <1>5
<1>7. /\ request' = [request EXCEPT ![r].undo = rest]
      /\ UNCHANGED <<row, temporaries, download>>
      /\ \/ objects' = objects \ {<<r, n>>} /\ faults' = faults
         \/ objects' = objects /\ faults' = faults \cup {"delete"}
  BY <1>1, <1>3, <1>4, <1>5 DEF File!Compensate
<1>8. PICK j : j = request'[r]
  OBVIOUS
<1>9. /\ j.pc = "compensate" /\ j.batch = q.batch /\ j.item = q.item /\ j.undo = rest
      /\ \A s \in Requests \ {r} : request'[s] = request[s]
  BY <1>1, <1>2, <1>7, <1>8, RequestFacts DEF File!RequestType
<1>10. Others(r)
  BY <1>7, <1>9, <1>4 DEF Others
<1>11. Counts(r, j)
  <2>1. \A i \in 1 .. Len(j.undo) : (j.undo)[i] = <<r, i>>
    <3>1. \A i \in 1 .. n : (q.undo)[i] = <<r, i>>
      BY <1>2, <1>3 DEF Counts
    <3>2. \A i \in 1 .. n - 1 : i \in 1 .. n
      BY <1>4
    <3>3. \A i \in 1 .. n - 1 : rest[i] = <<r, i>>
      BY <1>6, <3>1, <3>2
    <3> QED
      BY <1>6, <1>9, <3>3
  <2>2. Len(j.undo) \in 0 .. MaxParts
    <3>1. n - 1 \in 0 .. MaxParts
      BY <1>2, <1>4
    <3> QED
      BY <1>6, <1>9, <3>1
  <2> QED
    BY <1>9, <2>1, <2>2 DEF Counts, InHand
<1>12. RowsFollow(r, j, row', faults')
  BY <1>2, <1>7, <1>9 DEF RowsFollow, InHand
<1>13. ObjectsFollow(r, j, objects', faults')
  <2>1. \A i \in 1 .. MaxParts : i <= n => i = n \/ i <= Len(rest)
    BY <1>4, <1>6
  <2> QED
    BY <1>2, <1>3, <1>7, <1>9, <2>1 DEF ObjectsFollow, InHand, Linked
<1>14. File!TypeOK'
  <2>1. [q EXCEPT !.undo = rest] \in File!RequestType
    BY <1>2, <1>6 DEF File!RequestType
  <2>2. request \in [Requests -> File!RequestType]
    BY DEF UploadInv, File!TypeOK
  <2>3. request' \in [Requests -> File!RequestType]
    BY <1>1, <1>7, <2>1, <2>2
  <2> QED
    BY <1>7, <2>3 DEF UploadInv, File!TypeOK
<1> QED
  BY <1>8, <1>10, <1>11, <1>12, <1>13, <1>14 DEF Own, Follows

\* When no compensation is left the error is returned.
LEMMA RefuseStep ==
  ASSUME UploadInv, NEW r \in Requests, File!Refuse(r)
  PROVE  Others(r) /\ Own(r) /\ File!TypeOK'
<1>1. PICK q : q = request[r]
  OBVIOUS
<1>2. /\ q \in File!RequestType /\ q.pc = "compensate" /\ q.undo = <<>>
      /\ Counts(r, q) /\ RowsFollow(r, q, row, faults) /\ ObjectsFollow(r, q, objects, faults)
  BY <1>1, RequestFacts DEF Follows, File!Refuse
<1>3. File!Goto(r, "refused") /\ UNCHANGED <<row, objects, temporaries, download, faults>>
  BY DEF File!Refuse
<1>4. PICK j : j = request'[r]
  OBVIOUS
<1>5. /\ j.pc = "refused" /\ j.batch = q.batch /\ j.item = q.item /\ j.undo = q.undo
      /\ \A s \in Requests \ {r} : request'[s] = request[s]
  BY <1>1, <1>3, <1>4, GotoFacts
<1>6. Others(r)
  BY <1>3, <1>5 DEF Others
<1>7. Follows(r, j, row', objects', faults')
  BY <1>2, <1>3, <1>5 DEF Follows, Counts, RowsFollow, ObjectsFollow, InHand, Linked
<1>8. File!TypeOK'
  <2>1. request' \in [Requests -> File!RequestType]
    BY <1>3, GotoTyped
  <2> QED
    BY <1>3, <2>1 DEF UploadInv, File!TypeOK
<1> QED
  BY <1>4, <1>6, <1>7, <1>8 DEF Own

(***************************************************************************)
(* All steps, and the theorems.                                            *)
(***************************************************************************)

\* More faults are harmless to what a request knows.
LEMMA OthersFollow ==
  ASSUME UploadInv, NEW r \in Requests, Others(r), Own(r), File!TypeOK'
  PROVE  UploadInv'
<1>1. ASSUME NEW s \in Requests
      PROVE  Follows(s, request'[s], row', objects', faults')
  <2>1. CASE s = r
    BY <2>1 DEF Own
  <2>2. CASE s # r
    <3>1. PICK q : q = request[s]
      OBVIOUS
    <3>2. /\ request'[s] = q /\ faults \subseteq faults'
          /\ \A i \in 1 .. MaxParts : /\ row'[<<s, i>>] = row[<<s, i>>]
                                      /\ <<s, i>> \in objects' <=> <<s, i>> \in objects
      BY <2>2, <3>1 DEF Others
    <3>3. Counts(s, q) /\ RowsFollow(s, q, row, faults) /\ ObjectsFollow(s, q, objects, faults)
      BY <3>1, RequestFacts DEF Follows
    <3>4. RowsFollow(s, q, row', faults') /\ ObjectsFollow(s, q, objects', faults')
      BY <3>2, <3>3 DEF RowsFollow, ObjectsFollow
    <3> QED
      BY <3>2, <3>3, <3>4 DEF Follows
  <2> QED
    BY <2>1, <2>2
<1>2. ASSUME NEW d \in Readers PROVE Reads(d)'
  BY DEF UploadInv, Reads, Others
<1> QED
  BY <1>1, <1>2 DEF UploadInv

\* Every step of an upload.
LEMMA UploadStep ==
  ASSUME UploadInv, NEW r \in Requests, File!Upload(r)
  PROVE  UploadInv'
<1>1. Others(r) /\ Own(r) /\ File!TypeOK'
  BY MovingSteps, LinkStep, RegisterStep, OwnCompensationStep, CommitStep, RollbackStep,
     CompensateStep, RefuseStep DEF File!Upload
<1> QED
  BY <1>1, OthersFollow

\* The process ends: open transactions vanish, the objects stay.
LEMMA CrashStep ==
  ASSUME UploadInv, File!Crash
  PROVE  UploadInv'
<1>1. /\ \A r \in Requests :
           request'[r] = IF File!Ended(r) THEN request[r] ELSE [request[r] EXCEPT !.pc = "dead"]
      /\ \A k \in File!Keys : row'[k] = IF row[k] = "pending" THEN "none" ELSE row[k]
      /\ faults' = faults \cup {"crash"}
      /\ UNCHANGED <<objects, temporaries, download>>
  BY DEF File!Crash
<1>2. File!TypeOK'
  <2>1. ASSUME NEW r \in Requests PROVE request'[r] \in File!RequestType
    <3>1. PICK q \in File!RequestType : q = request[r]
      BY RequestFacts
    <3>2. [q EXCEPT !.pc = "dead"] \in File!RequestType
      BY DEF File!RequestType
    <3> QED
      BY <1>1, <3>1, <3>2
  <2>2. request' \in [Requests -> File!RequestType]
    BY <2>1 DEF File!Crash
  <2>3. row' \in [File!Keys -> {"none", "pending", "uploaded", "soft_deleted"}]
    BY RequestFacts DEF File!Crash
  <2> QED
    BY <1>1, <2>2, <2>3 DEF UploadInv, File!TypeOK
<1>3. ASSUME NEW r \in Requests
      PROVE  Follows(r, request'[r], row', objects', faults')
  <2>1. PICK q : q = request[r]
    OBVIOUS
  <2>2. PICK j : j = request'[r]
    OBVIOUS
  <2>3. /\ q \in File!RequestType
        /\ Counts(r, q) /\ RowsFollow(r, q, row, faults) /\ ObjectsFollow(r, q, objects, faults)
    BY <2>1, RequestFacts DEF Follows
  <2>4. \A i \in 1 .. MaxParts :
          /\ row[<<r, i>>] = "pending" => row'[<<r, i>>] = "none"
          /\ row[<<r, i>>] # "pending" => row'[<<r, i>>] = row[<<r, i>>]
    BY <1>1, KeyParts
  <2>5. ASSUME q.pc \in {"answered", "refused", "dead"}
        PROVE  Follows(r, j, row', objects', faults')
    <3>1. j = q
      BY <1>1, <2>1, <2>2, <2>5 DEF File!Ended
    <3> QED
      BY <1>1, <2>3, <2>4, <2>5, <3>1
         DEF Follows, RowsFollow, ObjectsFollow, InHand, Linked, Shown
  <2>6. ASSUME q.pc \notin {"answered", "refused", "dead"}
        PROVE  Follows(r, j, row', objects', faults')
    <3>1. j.pc = "dead" /\ j.batch = q.batch /\ j.item = q.item /\ j.undo = q.undo
      BY <1>1, <2>1, <2>2, <2>3, <2>6 DEF File!Ended, File!RequestType
    <3>2. \A i \in 1 .. MaxParts : i <= Len(q.undo) \/ i > Len(q.undo)
      BY <2>3, PartsAssumption DEF Counts
    <3>3. q.pc \in InHand \cup {"commit", "rollback", "compensate"}
      BY <2>3, <2>6 DEF File!RequestType, InHand
    <3>4. "ack" \notin faults => \A i \in 1 .. MaxParts : row[<<r, i>>] \in {"none", "pending"}
      BY <2>3, <3>2, <3>3 DEF RowsFollow
    <3>5. RowsFollow(r, j, row', faults')
      BY <1>1, <2>4, <3>1, <3>4 DEF RowsFollow, InHand
    <3>6. ObjectsFollow(r, j, objects', faults')
      BY <3>1 DEF ObjectsFollow, InHand
    <3>7. Counts(r, j)
      BY <2>3, <3>1 DEF Counts, InHand
    <3> QED
      BY <3>5, <3>6, <3>7 DEF Follows
  <2> QED
    BY <2>2, <2>5, <2>6
<1>4. ASSUME NEW d \in Readers PROVE Reads(d)'
  BY <1>1 DEF UploadInv, Reads, Shown
<1> QED
  BY <1>2, <1>3, <1>4 DEF UploadInv

\* A row that is shown while no acknowledgement was lost belongs to a request
\* that is answered, so that nobody removes its object.
LEMMA ShownIsAnswered ==
  ASSUME UploadInv, NEW k \in File!Keys, row[k] \in Shown
  PROVE  /\ request[k[1]].pc \in {"answered"} \/ "ack" \in faults
         /\ "ack" \notin faults => k \in objects
<1>1. PICK r, i : r \in Requests /\ i \in 1 .. MaxParts /\ k = <<r, i>> /\ r = k[1]
  BY KeyParts
<1>2. PICK q : q = request[r]
  OBVIOUS
<1>3. /\ q \in File!RequestType
      /\ Counts(r, q) /\ RowsFollow(r, q, row, faults) /\ ObjectsFollow(r, q, objects, faults)
  BY <1>1, <1>2, RequestFacts DEF Follows
<1>4. i <= Len(q.undo) \/ i > Len(q.undo)
  BY <1>1, <1>3, PartsAssumption DEF Counts
<1>5. q.pc \notin InHand \cup {"commit"}
  BY <1>1, <1>3, <1>4 DEF RowsFollow, Shown
<1>6. "ack" \notin faults => q.pc = "answered"
  BY <1>1, <1>3, <1>5 DEF RowsFollow, Shown, File!RequestType, InHand
<1>7. i <= Len(q.batch) \/ i > Len(q.batch)
  BY <1>1, <1>3, PartsAssumption DEF File!RequestType
<1>8. "ack" \notin faults => <<r, i>> \in objects
  BY <1>1, <1>3, <1>6, <1>7 DEF RowsFollow, ObjectsFollow, Shown
<1> QED
  BY <1>1, <1>2, <1>6, <1>8

\* A deletion of a file hides its row and nothing else.
LEMMA SoftDeleteStep ==
  ASSUME UploadInv, NEW k \in File!Keys, File!SoftDelete(k)
  PROVE  UploadInv'
<1>1. /\ row[k] = "uploaded" /\ row' = [row EXCEPT ![k] = "soft_deleted"]
      /\ UNCHANGED <<request, objects, temporaries, download, faults>>
  BY DEF File!SoftDelete
<1>2. File!TypeOK'
  BY <1>1 DEF UploadInv, File!TypeOK
<1>3. \A l \in File!Keys : /\ row[l] \in Shown <=> row'[l] \in Shown
                           /\ row[l] \notin Shown => row'[l] = row[l]
  BY <1>1, RequestFacts DEF UploadInv, File!TypeOK, Shown
<1>4. ASSUME NEW r \in Requests
      PROVE  Follows(r, request'[r], row', objects', faults')
  <2>1. PICK q : q = request[r]
    OBVIOUS
  <2>2. Counts(r, q) /\ RowsFollow(r, q, row, faults) /\ ObjectsFollow(r, q, objects, faults)
    BY <2>1, RequestFacts DEF Follows
  <2>3. \A i \in 1 .. MaxParts :
          /\ row[<<r, i>>] \in Shown <=> row'[<<r, i>>] \in Shown
          /\ row[<<r, i>>] \notin Shown => row'[<<r, i>>] = row[<<r, i>>]
    BY <1>3, KeyParts
  <2>4. RowsFollow(r, q, row', faults)
    BY <2>2, <2>3 DEF RowsFollow, Shown
  <2> QED
    BY <1>1, <2>1, <2>2, <2>4 DEF Follows
<1>5. ASSUME NEW d \in Readers PROVE Reads(d)'
  BY <1>1, <1>3 DEF UploadInv, Reads
<1> QED
  BY <1>2, <1>4, <1>5 DEF UploadInv

\* A reader finds a row, and opens the object it names.
LEMMA ReaderStep ==
  ASSUME UploadInv, NEW d \in Readers,
         File!Open(d) \/ \E k \in File!Keys : File!Find(d, k)
  PROVE  UploadInv'
<1>1. UNCHANGED <<request, row, objects, temporaries, faults>>
  BY DEF File!Open, File!Find
<1>2. \A e \in Readers \ {d} : download'[e] = download[e]
  BY DEF File!Open, File!Find, UploadInv, File!TypeOK
<1>3. CASE \E k \in File!Keys : File!Find(d, k)
  <2>1. PICK k \in File!Keys : File!Find(d, k)
    BY <1>3
  <2>2. row[k] = "uploaded" /\ download' = [download EXCEPT ![d] = [pc |-> "found", key |-> k]]
    BY <2>1 DEF File!Find
  <2>3. File!TypeOK'
    BY <1>1, <2>2 DEF UploadInv, File!TypeOK, File!DownloadType
  <2>4. download'[d] = [pc |-> "found", key |-> k]
    BY <2>2 DEF UploadInv, File!TypeOK
  <2> QED
    BY <1>1, <1>2, <2>2, <2>3, <2>4 DEF UploadInv, Reads, Shown
<1>4. CASE File!Open(d)
  <2>1. PICK p : /\ p \in {"served", "missing"}
                 /\ p = IF download[d].key \in objects THEN "served" ELSE "missing"
                 /\ download[d].pc = "found" /\ download' = [download EXCEPT ![d].pc = p]
    BY <1>4 DEF File!Open
  <2>2. download[d].key \in File!Keys /\ ("ack" \notin faults => row[download[d].key] \in Shown)
    BY <2>1 DEF UploadInv, Reads
  <2>3. "ack" \notin faults => p # "missing"
    BY <2>1, <2>2, ShownIsAnswered
  <2>4. File!TypeOK'
    BY <1>1, <2>1 DEF UploadInv, File!TypeOK, File!DownloadType
  <2>5. download'[d].pc = p
    BY <2>1 DEF UploadInv, File!TypeOK, File!DownloadType
  <2> QED
    BY <1>1, <1>2, <2>1, <2>3, <2>4, <2>5 DEF UploadInv, Reads
<1> QED
  BY <1>3, <1>4

\* Every step of FileUpload.
LEMMA UploadNextStep ==
  ASSUME UploadInv, [File!Next]_File!vars
  PROVE  UploadInv'
<1>1. CASE UNCHANGED File!vars
  BY <1>1 DEF UploadInv, File!vars, Reads, File!TypeOK
<1>2. CASE File!Next
  BY <1>2, UploadStep, CrashStep, ReaderStep, SoftDeleteStep DEF File!Next
<1> QED
  BY <1>1, <1>2

\* Nothing is written at first, and a batch of an inadmissible length is
\* already refused.
LEMMA UploadInit ==
  ASSUME File!Init
  PROVE  UploadInv
<1> USE PartsAssumption
<1>1. PICK batch \in [Requests -> UNION {[1 .. n -> Parts] : n \in 0 .. MaxParts + 1}] :
        request = [r \in Requests |->
                    [pc    |-> IF Len(batch[r]) \in 1 .. MaxParts
                               THEN "validate" ELSE "rollback",
                     batch |-> batch[r], item |-> 1, undo |-> <<>>]]
  BY DEF File!Init
<1>2. \A r \in Requests : batch[r] \in Seq(Parts)
  OBVIOUS
<1>3. File!TypeOK
  <2>1. ASSUME NEW r \in Requests PROVE request[r] \in File!RequestType
    BY <1>1, <1>2 DEF File!RequestType
  <2>2. request \in [Requests -> File!RequestType]
    BY <1>1, <2>1
  <2> QED
    BY <2>2 DEF File!Init, File!TypeOK, File!DownloadType
<1>4. ASSUME NEW r \in Requests
      PROVE  Follows(r, request[r], row, objects, faults)
  <2>1. PICK q : q = request[r]
    OBVIOUS
  <2>2. /\ q.pc \in {"validate", "rollback"} /\ q.undo = <<>> /\ q.item = 1
        /\ q.pc = "validate" => Len(q.batch) \in 1 .. MaxParts
    BY <1>1, <2>1
  <2>3. \A i \in 1 .. MaxParts : row[<<r, i>>] = "none" /\ <<r, i>> \notin objects /\ i > 0
    BY KeyParts DEF File!Init
  <2>4. Counts(r, q) /\ RowsFollow(r, q, row, faults) /\ ObjectsFollow(r, q, objects, faults)
    BY <2>2, <2>3 DEF Counts, RowsFollow, ObjectsFollow, InHand, Linked
  <2> QED
    BY <2>1, <2>4 DEF Follows
<1>5. ASSUME NEW d \in Readers PROVE Reads(d)
  BY DEF File!Init, Reads
<1> QED
  BY <1>3, <1>4, <1>5 DEF UploadInv

\* What the invariant says of the end of a request and of readers.
LEMMA UploadImplies ==
  ASSUME UploadInv
  PROVE  File!SettledBatch /\ File!FoundIsServed
<1>1. ASSUME NEW r \in Requests, request[r].pc = "answered",
             NEW k \in File!BatchKeys(r)
      PROVE  row[k] \in {"uploaded", "soft_deleted"} /\ k \in objects
  <2>1. PICK i \in 1 .. Len(request[r].batch) : k = <<r, i>>
    BY DEF File!BatchKeys
  <2>2. i \in 1 .. MaxParts /\ i <= Len(request[r].batch)
    BY <1>1, RequestFacts, PartsAssumption DEF Follows, Counts
  <2> QED
    BY <1>1, <2>1, <2>2, RequestFacts DEF Follows, RowsFollow, ObjectsFollow, Shown
<1>2. ASSUME NEW r \in Requests, request[r].pc = "refused", faults \cap {"delete", "ack"} = {},
             NEW k \in File!Keys, k[1] = r
      PROVE  row[k] = "none" /\ k \notin objects
  <2>1. PICK i \in 1 .. MaxParts : k = <<r, i>>
    BY <1>2, KeyParts
  <2>2. request[r].undo = <<>> /\ Len(request[r].undo) = 0 /\ ~(i <= 0)
    BY <1>2, RequestFacts, PartsAssumption DEF Follows, Counts
  <2> QED
    BY <1>2, <2>1, <2>2, RequestFacts DEF Follows, RowsFollow, ObjectsFollow
<1>3. File!SettledBatch
  BY <1>1, <1>2 DEF File!SettledBatch
<1>4. File!FoundIsServed
  BY DEF UploadInv, Reads, File!FoundIsServed
<1> QED
  BY <1>3, <1>4

(***************************************************************************)
(* DoclingProcess: the inductive invariant.                                *)
(*                                                                         *)
(* What is released at the end is decided long before: the payload when    *)
(* the parent receives it, the exit code when it checks it.  In between    *)
(* the worker may die, be terminated or go on, so the invariant follows    *)
(* the parent through the code: which places have a worker, which have a   *)
(* payload, where the status is still open, and from where on the worker   *)
(* is gone and reaped.                                                     *)
(***************************************************************************)
Early == {"decide", "start"}
Waits == {"poll", "alive", "memory", "deadline", "wait", "join", "check"}
Stops == {"list", "terminate", "kill", "rest"}
Later == {"adapt", "release", "done"}

\* The status and the payload it stands for, and the route that asked for it.
StatusInv ==
  /\ parent.pc \in Early \cup Waits => parent.status = Docling!NoStatus
  /\ parent.pc \in {"join", "check"} => parent.payload \in Docling!Results
  /\ parent.status = "success" =>
       parent.payload = "S" /\ worker.pc = "exited" /\ worker.code = 0
  /\ parent.pc = "adapt" => parent.status = "success"
  /\ parent.pc \in {"start", "adapt"} \cup Waits \cup Stops => route # "native"
  /\ parent.pc = "release" => IF route = "native" THEN worker.pc = "absent"
                                                  ELSE parent.status = "success"
  /\ parent.pc # "done" => parent.outcome = "none"

\* The processes: which there are, and that they are gone in the end.
ProcessInv ==
  /\ worker.pc = "writing" => worker.message \in Docling!Results
  /\ parent.pc \in Early => worker.pc = "absent"
  /\ parent.pc \in Waits => worker.pc # "absent"
  /\ parent.pc = "check" => worker.pc = "exited"
  /\ parent.pc \in {"rest"} \cup Later =>
       worker.pc = "absent" \/ (worker.pc = "exited" /\ worker.reaped)
  /\ parent.pc \in Early \cup Waits => parent.listed = {}
  /\ parent.pc \in Later => parent.listed \cap Docling!Live = {}

ParseInv ==
  Docling!TypeOK /\ StatusInv /\ ProcessInv /\ Docling!OnlyWholeResults

(***************************************************************************)
(* One step of the parent or of a process.                                 *)
(***************************************************************************)

\* Everything the steps below need to expand of the parent's and the worker's
\* state.
LEMMA ParseTypes ==
  ASSUME ParseInv
  PROVE  /\ route \in {"native", "docling", "hybrid"}
         /\ parent \in Docling!ParentType /\ worker \in Docling!WorkerType
         /\ pipe \in Seq(Docling!Message)
         /\ helpers \in [Helpers -> {"unborn", "live", "gone"}] /\ late \in BOOLEAN
         /\ parent.pc \in Early \cup Waits \cup Stops \cup Later
         /\ worker.pc \in {"absent", "exited"} \/ Docling!Alive
BY DEF ParseInv, Docling!TypeOK, Docling!ParentType, Docling!WorkerType, Docling!Alive,
       Early, Waits, Stops, Later

\* The parent goes to another place of the code.
LEMMA ParentMoves ==
  ASSUME NEW p \in Docling!ParentType,
         NEW l \in Early \cup Waits \cup Stops \cup Later
  PROVE  /\ [p EXCEPT !.pc = l] \in Docling!ParentType
         /\ [p EXCEPT !.pc = l].pc = l
         /\ [p EXCEPT !.pc = l].status = p.status
         /\ [p EXCEPT !.pc = l].payload = p.payload
         /\ [p EXCEPT !.pc = l].listed = p.listed
         /\ [p EXCEPT !.pc = l].outcome = p.outcome
BY DEF Docling!ParentType, Early, Waits, Stops, Later

\* The statuses of a parse without a result.
Failures ==
  {"parent_failure", "worker_crash", "memory_probe_failed", "memory_limit", "timeout",
   "result_too_large", "shutdown_timeout", "worker_failure", "protocol_failure"}

\* The parent notes such a status and goes to stop the processes.
LEMMA ParentFails ==
  ASSUME NEW p \in Docling!ParentType, NEW s \in Failures
  PROVE  /\ [p EXCEPT !.pc = "list", !.status = s] \in Docling!ParentType
         /\ [p EXCEPT !.pc = "list", !.status = s].pc = "list"
         /\ [p EXCEPT !.pc = "list", !.status = s].status # "success"
         /\ [p EXCEPT !.pc = "list", !.status = s].payload = p.payload
         /\ [p EXCEPT !.pc = "list", !.status = s].listed = p.listed
         /\ [p EXCEPT !.pc = "list", !.status = s].outcome = p.outcome
BY DEF Docling!ParentType, Failures

\* The parent takes a result and goes to join the worker.
LEMMA ParentTakes ==
  ASSUME NEW p \in Docling!ParentType, NEW m \in Docling!Results
  PROVE  /\ [p EXCEPT !.pc = "join", !.payload = m] \in Docling!ParentType
         /\ [p EXCEPT !.pc = "join", !.payload = m].pc = "join"
         /\ [p EXCEPT !.pc = "join", !.payload = m].status = p.status
         /\ [p EXCEPT !.pc = "join", !.payload = m].payload = m
         /\ [p EXCEPT !.pc = "join", !.payload = m].listed = p.listed
         /\ [p EXCEPT !.pc = "join", !.payload = m].outcome = p.outcome
BY DEF Docling!ParentType

\* The worker's end is noted.
LEMMA WorkerReaped ==
  ASSUME NEW w \in Docling!WorkerType
  PROVE  /\ [w EXCEPT !.reaped = TRUE] \in Docling!WorkerType
         /\ [w EXCEPT !.reaped = TRUE].pc = w.pc
         /\ [w EXCEPT !.reaped = TRUE].message = w.message
         /\ [w EXCEPT !.reaped = TRUE].code = w.code
BY DEF Docling!WorkerType

\* The router decides, and releases what it decided for.
LEMMA RouterStep ==
  ASSUME ParseInv, Docling!Router
  PROVE  ParseInv'
<1>1. PICK p \in Docling!ParentType : p = parent
  BY ParseTypes
<1>2. UNCHANGED <<route, worker, pipe, helpers, late>>
  BY DEF Docling!Router, Docling!Decide, Docling!EnhancementFails, Docling!Adapt,
         Docling!Release
<1>3. \/ /\ p.pc = "decide"
         /\ \/ parent' = [p EXCEPT !.pc = "done", !.outcome = "failed"]
            \/ route = "native" /\ parent' = [p EXCEPT !.pc = "release"]
            \/ route # "native" /\ parent' = [p EXCEPT !.pc = "start"]
      \/ p.pc \in {"start", "adapt"} /\ parent' = [p EXCEPT !.pc = "done", !.outcome = "failed"]
      \/ p.pc = "adapt" /\ parent' = [p EXCEPT !.pc = "release"]
      \/ /\ p.pc = "release"
         /\ \/ parent' = [p EXCEPT !.pc = "done", !.outcome = route]
            \/ parent' = [p EXCEPT !.pc = "done", !.outcome = "rejected"]
  <2>1. CASE Docling!Decide
    BY <1>1, <2>1 DEF Docling!Decide, Docling!Goto
  <2>2. CASE Docling!EnhancementFails
    BY <1>1, <2>2 DEF Docling!EnhancementFails
  <2>3. CASE Docling!Adapt
    BY <1>1, <2>3 DEF Docling!Adapt, Docling!Goto
  <2>4. CASE Docling!Release
    BY <1>1, <2>4 DEF Docling!Release
  <2> QED
    BY <2>1, <2>2, <2>3, <2>4 DEF Docling!Router
<1>4. parent' \in Docling!ParentType
  <2>1. PICK l \in {"done", "release", "start"},
             o \in {p.outcome, "failed", "native", "docling", "hybrid", "rejected"} :
          parent' = [p EXCEPT !.pc = l, !.outcome = o]
    <3>1. [p EXCEPT !.pc = "release"] = [p EXCEPT !.pc = "release", !.outcome = p.outcome]
      BY DEF Docling!ParentType
    <3>2. [p EXCEPT !.pc = "start"] = [p EXCEPT !.pc = "start", !.outcome = p.outcome]
      BY DEF Docling!ParentType
    <3> QED
      BY <1>3, <3>1, <3>2, ParseTypes
  <2>2. o \in {"none", "native", "docling", "hybrid", "failed", "rejected"}
    BY <1>1 DEF Docling!ParentType
  <2> QED
    BY <2>1, <2>2 DEF Docling!ParentType
<1>5. /\ parent'.status = p.status /\ parent'.payload = p.payload /\ parent'.listed = p.listed
      /\ \/ p.pc \in {"decide", "start", "adapt"} /\ parent'.pc = "done"
            /\ parent'.outcome = "failed"
         \/ p.pc = "decide" /\ route = "native" /\ parent'.pc = "release"
            /\ parent'.outcome = p.outcome
         \/ p.pc = "decide" /\ route # "native" /\ parent'.pc = "start"
            /\ parent'.outcome = p.outcome
         \/ p.pc = "adapt" /\ parent'.pc = "release" /\ parent'.outcome = p.outcome
         \/ p.pc = "release" /\ parent'.pc = "done" /\ parent'.outcome \in {route, "rejected"}
  BY <1>1, <1>3 DEF Docling!ParentType
<1>6. PICK n : n = parent'
  OBVIOUS
<1>7. Docling!TypeOK'
  BY <1>2, <1>4 DEF ParseInv, Docling!TypeOK
<1>8. StatusInv'
  BY <1>1, <1>2, <1>5, <1>6 DEF ParseInv, StatusInv, ProcessInv, Early, Waits, Stops
<1>9. ProcessInv'
  BY <1>1, <1>2, <1>5, <1>6
     DEF ParseInv, StatusInv, ProcessInv, Early, Waits, Later, Docling!Live
<1>10. Docling!OnlyWholeResults'
  BY <1>1, <1>2, <1>5, <1>6, ParseTypes
     DEF ParseInv, StatusInv, ProcessInv, Early, Docling!OnlyWholeResults
<1> QED
  BY <1>7, <1>8, <1>9, <1>10 DEF ParseInv

\* Moves of the parent in its waiting loop, and its failures there.
LEMMA WaitStep ==
  ASSUME ParseInv,
         \/ Docling!PollEmpty \/ Docling!ReceiveEndOfFile \/ Docling!ProbeMemory
         \/ Docling!CheckDeadline \/ Docling!Wait
  PROVE  ParseInv'
<1>1. PICK p \in Docling!ParentType : p = parent
  BY ParseTypes
<1>2. UNCHANGED <<route, worker, pipe, helpers, late>>
  BY DEF Docling!PollEmpty, Docling!ReceiveEndOfFile, Docling!ProbeMemory,
         Docling!CheckDeadline, Docling!Wait
<1>3. /\ p.pc \in {"poll", "memory", "deadline", "wait"}
      /\ \/ \E l \in {"poll", "alive", "deadline", "wait"} : parent' = [p EXCEPT !.pc = l]
         \/ \E s \in {"worker_crash", "memory_limit", "memory_probe_failed", "timeout"} :
              parent' = [p EXCEPT !.pc = "list", !.status = s]
  <2>1. CASE Docling!PollEmpty
    BY <1>1, <2>1 DEF Docling!PollEmpty, Docling!Goto
  <2>2. CASE Docling!ReceiveEndOfFile
    BY <1>1, <2>2 DEF Docling!ReceiveEndOfFile, Docling!Fail
  <2>3. CASE Docling!ProbeMemory
    BY <1>1, <2>3 DEF Docling!ProbeMemory, Docling!Goto, Docling!Fail
  <2>4. CASE Docling!CheckDeadline
    BY <1>1, <2>4 DEF Docling!CheckDeadline, Docling!Goto, Docling!Fail
  <2>5. CASE Docling!Wait
    BY <1>1, <2>5 DEF Docling!Wait, Docling!Goto
  <2> QED
    BY <2>1, <2>2, <2>3, <2>4, <2>5
<1>4. PICK n : n = parent'
  OBVIOUS
<1>5. /\ n \in Docling!ParentType
      /\ n.payload = p.payload /\ n.listed = p.listed /\ n.outcome = p.outcome
      /\ \/ n.pc \in {"poll", "alive", "deadline", "wait"} /\ n.status = p.status
         \/ n.pc = "list" /\ n.status # "success"
  <2>1. CASE \E l \in {"poll", "alive", "deadline", "wait"} : parent' = [p EXCEPT !.pc = l]
    <3>1. PICK l \in {"poll", "alive", "deadline", "wait"} : n = [p EXCEPT !.pc = l]
      BY <1>4, <2>1
    <3>2. l \in Waits
      BY DEF Waits
    <3> QED
      BY <3>1, <3>2, ParentMoves
  <2>2. CASE \E s \in {"worker_crash", "memory_limit", "memory_probe_failed", "timeout"} :
               parent' = [p EXCEPT !.pc = "list", !.status = s]
    <3>1. PICK s \in {"worker_crash", "memory_limit", "memory_probe_failed", "timeout"} :
            n = [p EXCEPT !.pc = "list", !.status = s]
      BY <1>4, <2>2
    <3>2. s \in Failures
      BY DEF Failures
    <3> QED
      BY <3>1, <3>2, ParentFails
  <2> QED
    BY <1>3, <2>1, <2>2
<1>6. Docling!TypeOK'
  BY <1>2, <1>4, <1>5 DEF ParseInv, Docling!TypeOK
<1>7. StatusInv'
  BY <1>1, <1>2, <1>3, <1>4, <1>5
     DEF ParseInv, StatusInv, Early, Waits, Stops, Docling!NoStatus
<1>8. ProcessInv'
  BY <1>1, <1>2, <1>3, <1>4, <1>5 DEF ParseInv, ProcessInv, Early, Waits, Later
<1>9. Docling!OnlyWholeResults'
  BY <1>1, <1>2, <1>3, <1>4, <1>5 DEF ParseInv, StatusInv, Waits, Docling!OnlyWholeResults
<1> QED
  BY <1>6, <1>7, <1>8, <1>9 DEF ParseInv

\* A message is received: the ready message, a result, or a torn one.
LEMMA ReceiveStep ==
  ASSUME ParseInv, Docling!Receive
  PROVE  ParseInv'
<1>1. PICK p \in Docling!ParentType : p = parent
  BY ParseTypes
<1>2. /\ UNCHANGED <<route, worker, helpers, late>>
      /\ p.pc = "poll" /\ pipe # <<>> /\ pipe' = Tail(pipe) /\ Head(pipe) # "partial"
  BY <1>1 DEF Docling!Receive
<1>3. Head(pipe) \in {"R", "torn"} \cup Docling!Results /\ pipe' \in Seq(Docling!Message)
  BY <1>2, ParseTypes DEF Docling!Message, Docling!Results
<1>4. PICK n : n = parent'
  OBVIOUS
<1>5. \/ n = p
      \/ n = [p EXCEPT !.pc = "list", !.status = "result_too_large"]
      \/ \E m \in Docling!Results : n = [p EXCEPT !.pc = "join", !.payload = m]
  <2>1. CASE Head(pipe) = "R"
    BY <1>1, <1>4, <2>1 DEF Docling!Receive, Docling!Results
  <2>2. CASE Head(pipe) = "torn"
    BY <1>1, <1>4, <2>2 DEF Docling!Receive, Docling!Fail, Docling!Results
  <2>3. CASE Head(pipe) \in Docling!Results
    BY <1>1, <1>4, <2>3 DEF Docling!Receive, Docling!Results
  <2> QED
    BY <1>3, <2>1, <2>2, <2>3
<1>6. /\ n \in Docling!ParentType /\ n.listed = p.listed /\ n.outcome = p.outcome
      /\ \/ n.pc = "poll" /\ n.status = p.status
         \/ n.pc = "list" /\ n.status # "success"
         \/ n.pc = "join" /\ n.status = p.status /\ n.payload \in Docling!Results
  <2>1. CASE n = p
    BY <1>2, <2>1
  <2>2. CASE n = [p EXCEPT !.pc = "list", !.status = "result_too_large"]
    <3>1. "result_too_large" \in Failures
      BY DEF Failures
    <3> QED
      BY <2>2, <3>1, ParentFails
  <2>3. CASE \E m \in Docling!Results : n = [p EXCEPT !.pc = "join", !.payload = m]
    <3>1. PICK m \in Docling!Results : n = [p EXCEPT !.pc = "join", !.payload = m]
      BY <2>3
    <3> QED
      BY <3>1, ParentTakes
  <2> QED
    BY <1>5, <2>1, <2>2, <2>3
<1>7. Docling!TypeOK'
  BY <1>2, <1>3, <1>4, <1>6 DEF ParseInv, Docling!TypeOK
<1>8. StatusInv'
  BY <1>1, <1>2, <1>4, <1>6
     DEF ParseInv, StatusInv, Early, Waits, Stops, Docling!NoStatus
<1>9. ProcessInv'
  BY <1>1, <1>2, <1>4, <1>6 DEF ParseInv, ProcessInv, Early, Waits, Later
<1>10. Docling!OnlyWholeResults'
  BY <1>1, <1>2, <1>4, <1>6 DEF ParseInv, StatusInv, Waits, Docling!OnlyWholeResults
<1> QED
  BY <1>7, <1>8, <1>9, <1>10 DEF ParseInv

\* The worker is looked after: a worker that has ended is reaped, here and
\* after its result.
LEMMA ReapStep ==
  ASSUME ParseInv, Docling!CheckAlive \/ Docling!Join
  PROVE  ParseInv'
<1>1. PICK p \in Docling!ParentType : p = parent
  BY ParseTypes
<1>2. PICK w \in Docling!WorkerType : w = worker
  BY ParseTypes
<1>3. UNCHANGED <<route, pipe, helpers, late>> /\ p.pc \in {"alive", "join"}
  BY <1>1 DEF Docling!CheckAlive, Docling!Join
<1>4. \/ /\ worker' = w
         /\ \/ p.pc = "alive" /\ parent' = [p EXCEPT !.pc = "memory"]
            \/ parent' = [p EXCEPT !.pc = "list", !.status = "shutdown_timeout"]
      \/ /\ ~Docling!Alive /\ worker' = [w EXCEPT !.reaped = TRUE]
         /\ \/ parent' = [p EXCEPT !.pc = "list", !.status = "worker_crash"]
            \/ p.pc = "join" /\ parent' = [p EXCEPT !.pc = "check"]
  <2>1. CASE Docling!CheckAlive
    BY <1>1, <1>2, <2>1 DEF Docling!CheckAlive, Docling!Goto, Docling!Fail
  <2>2. CASE Docling!Join
    BY <1>1, <1>2, <2>2 DEF Docling!Join, Docling!Goto, Docling!Fail
  <2> QED
    BY <2>1, <2>2
<1>5. PICK n, v : n = parent' /\ v = worker'
  OBVIOUS
<1>6. /\ n \in Docling!ParentType /\ v \in Docling!WorkerType
      /\ v.pc = w.pc /\ v.message = w.message /\ v.code = w.code
      /\ n.listed = p.listed /\ n.outcome = p.outcome /\ n.payload = p.payload
      /\ \/ n.pc = "memory" /\ n.status = p.status
         \/ n.pc = "list" /\ n.status # "success"
         \/ n.pc = "check" /\ p.pc = "join" /\ n.status = p.status /\ ~Docling!Alive
  <2>1. "memory" \in Waits /\ "check" \in Waits
    BY DEF Waits
  <2>2. /\ v \in Docling!WorkerType
        /\ v.pc = w.pc /\ v.message = w.message /\ v.code = w.code
    BY <1>4, <1>5, WorkerReaped
  <2>3. CASE n = [p EXCEPT !.pc = "memory"]
    BY <2>1, <2>2, <2>3, ParentMoves
  <2>4. CASE p.pc = "join" /\ ~Docling!Alive /\ n = [p EXCEPT !.pc = "check"]
    BY <2>1, <2>2, <2>4, ParentMoves
  <2>5. CASE \E s \in {"worker_crash", "shutdown_timeout"} :
               n = [p EXCEPT !.pc = "list", !.status = s]
    <3>1. PICK s \in {"worker_crash", "shutdown_timeout"} :
            n = [p EXCEPT !.pc = "list", !.status = s]
      BY <2>5
    <3>2. s \in Failures
      BY DEF Failures
    <3> QED
      BY <2>2, <3>1, <3>2, ParentFails
  <2> QED
    BY <1>4, <1>5, <2>3, <2>4, <2>5
<1>7. w.pc # "absent"
  BY <1>1, <1>2, <1>3 DEF ParseInv, ProcessInv, Waits
<1>8. n.pc = "check" => w.pc = "exited"
  BY <1>2, <1>6, <1>7, ParseTypes
<1>9. Docling!TypeOK'
  BY <1>3, <1>5, <1>6 DEF ParseInv, Docling!TypeOK
<1>10. StatusInv'
  BY <1>1, <1>2, <1>3, <1>5, <1>6
     DEF ParseInv, StatusInv, Early, Waits, Stops, Docling!NoStatus
<1>11. ProcessInv'
  BY <1>1, <1>2, <1>3, <1>5, <1>6, <1>7, <1>8 DEF ParseInv, ProcessInv, Early, Waits, Later
<1>12. Docling!OnlyWholeResults'
  BY <1>1, <1>2, <1>3, <1>5, <1>6 DEF ParseInv, StatusInv, Waits, Docling!OnlyWholeResults
<1> QED
  BY <1>9, <1>10, <1>11, <1>12 DEF ParseInv

\* The check: success needs a snapshot and the exit code 0.
LEMMA CheckStep ==
  ASSUME ParseInv, Docling!Check
  PROVE  ParseInv'
<1>1. PICK p \in Docling!ParentType : p = parent
  BY ParseTypes
<1>2. p.pc = "check" /\ UNCHANGED <<route, worker, pipe, helpers, late>>
  BY <1>1 DEF Docling!Check
<1>3. /\ worker.pc = "exited" /\ p.payload \in Docling!Results /\ p.outcome = "none"
      /\ p.listed = {} /\ route # "native"
  BY <1>1, <1>2 DEF ParseInv, StatusInv, ProcessInv, Early, Waits
<1>4. PICK s \in {"worker_crash", "worker_failure", "protocol_failure", "success"} :
        /\ parent' = [p EXCEPT !.pc = "list", !.status = s]
        /\ s = "success" => worker.code = 0 /\ p.payload \notin {"F", "bad"}
  <2>1. CASE worker.code # 0
    <3>1. parent' = [p EXCEPT !.pc = "list", !.status = "worker_crash"]
      BY <1>1, <2>1 DEF Docling!Check, Docling!Fail
    <3> QED
      BY <2>1, <3>1
  <2>2. CASE worker.code = 0 /\ p.payload = "F"
    <3>1. parent' = [p EXCEPT !.pc = "list", !.status = "worker_failure"]
      BY <1>1, <2>2 DEF Docling!Check, Docling!Fail
    <3> QED
      BY <2>2, <3>1
  <2>3. CASE worker.code = 0 /\ p.payload = "bad"
    <3>1. parent' = [p EXCEPT !.pc = "list", !.status = "protocol_failure"]
      BY <1>1, <2>3 DEF Docling!Check, Docling!Fail
    <3> QED
      BY <2>3, <3>1
  <2>4. CASE worker.code = 0 /\ p.payload \notin {"F", "bad"}
    <3>1. parent' = [p EXCEPT !.pc = "list", !.status = "success"]
      BY <1>1, <2>4 DEF Docling!Check, Docling!Fail
    <3> QED
      BY <2>4, <3>1
  <2> QED
    BY <2>1, <2>2, <2>3, <2>4
<1>5. PICK n : n = parent'
  OBVIOUS
<1>6. /\ n \in Docling!ParentType /\ n.pc = "list" /\ n.payload = p.payload
      /\ n.listed = {} /\ n.outcome = "none" /\ n.status = s
  <2>1. n = [p EXCEPT !.pc = "list", !.status = s]
    BY <1>4, <1>5
  <2>2. n.pc = "list" /\ n.payload = p.payload /\ n.listed = p.listed
        /\ n.outcome = p.outcome /\ n.status = s
    BY <2>1 DEF Docling!ParentType
  <2>3. n \in Docling!ParentType
    BY <2>1 DEF Docling!ParentType
  <2> QED
    BY <1>3, <2>2, <2>3
<1>7. s = "success" => p.payload = "S"
  BY <1>3, <1>4 DEF Docling!Results
<1>8. Docling!TypeOK'
  BY <1>2, <1>5, <1>6 DEF ParseInv, Docling!TypeOK
<1>9. StatusInv'
  BY <1>2, <1>3, <1>4, <1>5, <1>6, <1>7 DEF StatusInv, Early, Waits, Stops
<1>10. ProcessInv'
  BY <1>2, <1>3, <1>5, <1>6 DEF ProcessInv, Early, Waits, Later
<1>11. Docling!OnlyWholeResults'
  BY <1>5, <1>6 DEF Docling!OnlyWholeResults
<1> QED
  BY <1>8, <1>9, <1>10, <1>11 DEF ParseInv

\* The worker is started, or cannot be.
LEMMA StartStep ==
  ASSUME ParseInv, Docling!StartWorker \/ Docling!StartFails
  PROVE  ParseInv'
<1>1. PICK p \in Docling!ParentType : p = parent
  BY ParseTypes
<1>2. PICK w \in Docling!WorkerType : w = worker
  BY ParseTypes
<1>3. /\ p.pc = "start" /\ UNCHANGED <<route, pipe, helpers, late>>
      /\ \/ worker' = [w EXCEPT !.pc = "starting"] /\ parent' = [p EXCEPT !.pc = "poll"]
         \/ worker' = w /\ parent' = [p EXCEPT !.pc = "list", !.status = "parent_failure"]
  BY <1>1, <1>2 DEF Docling!StartWorker, Docling!StartFails, Docling!Goto, Docling!Fail,
                    Docling!NoStatus
<1>4. /\ p.status = "parent_failure" /\ p.listed = {} /\ p.outcome = "none"
      /\ route # "native" /\ w.pc = "absent"
  BY <1>1, <1>2, <1>3 DEF ParseInv, StatusInv, ProcessInv, Early, Docling!NoStatus
<1>5. PICK n, v : n = parent' /\ v = worker'
  OBVIOUS
<1>6. /\ n \in Docling!ParentType /\ v \in Docling!WorkerType
      /\ n.listed = {} /\ n.outcome = "none" /\ n.status = "parent_failure"
      /\ \/ n.pc = "poll" /\ v.pc = "starting"
         \/ n.pc = "list" /\ v.pc = "absent"
  BY <1>3, <1>4, <1>5 DEF Docling!ParentType, Docling!WorkerType
<1>7. Docling!TypeOK'
  BY <1>3, <1>5, <1>6 DEF ParseInv, Docling!TypeOK
<1>8. StatusInv'
  BY <1>3, <1>4, <1>5, <1>6 DEF StatusInv, Early, Waits, Stops, Docling!NoStatus
<1>9. ProcessInv'
  BY <1>3, <1>5, <1>6 DEF ProcessInv, Early, Waits, Later
<1>10. Docling!OnlyWholeResults'
  BY <1>5, <1>6 DEF Docling!OnlyWholeResults
<1> QED
  BY <1>7, <1>8, <1>9, <1>10 DEF ParseInv

\* A worker that dies leaves its last message torn.
LEMMA TornType ==
  ASSUME ParseInv
  PROVE  Docling!Torn \in Seq(Docling!Message)
<1>1. pipe \in Seq(Docling!Message) /\ "torn" \in Docling!Message
  BY ParseTypes DEF Docling!Message
<1> QED
  BY <1>1 DEF Docling!Torn

\* The end of the process tree: who is asked to terminate may end or not, who
\* is killed ends, and who has ended stays as it was.
LEMMA StopStep ==
  ASSUME ParseInv, Docling!ListDescendants \/ Docling!Terminate \/ Docling!Kill
  PROVE  ParseInv'
<1>1. PICK p \in Docling!ParentType : p = parent
  BY ParseTypes
<1>2. PICK w \in Docling!WorkerType : w = worker
  BY ParseTypes
<1>3. PICK n, v : n = parent' /\ v = worker'
  OBVIOUS
<1>4. UNCHANGED <<route, late>>
  BY DEF Docling!ListDescendants, Docling!Terminate, Docling!Kill
<1>5. /\ pipe' \in Seq(Docling!Message)
      /\ helpers' \in [Helpers -> {"unborn", "live", "gone"}]
  <2>1. /\ pipe' \in {pipe, Docling!Torn}
        /\ helpers' = helpers \/ \E hs \in SUBSET Helpers : helpers' = Docling!Ending(hs)
    BY DEF Docling!ListDescendants, Docling!Terminate, Docling!Kill, Docling!Live
  <2> QED
    BY <2>1, ParseTypes, TornType DEF Docling!Ending
<1>6. /\ n \in Docling!ParentType
      /\ n.status = p.status /\ n.payload = p.payload /\ n.outcome = p.outcome
      /\ p.pc \in {"list", "terminate", "kill"} /\ n.pc \in {"terminate", "kill", "rest"}
      /\ n.pc = "rest" => p.pc = "kill"
  <2>1. CASE Docling!ListDescendants
    BY <1>1, <1>3, <2>1 DEF Docling!ListDescendants, Docling!ParentType, Docling!Live
  <2>2. CASE Docling!Terminate
    BY <1>1, <1>3, <2>2 DEF Docling!Terminate, Docling!Goto, Docling!ParentType
  <2>3. CASE Docling!Kill
    BY <1>1, <1>3, <2>3 DEF Docling!Kill, Docling!Goto, Docling!ParentType
  <2> QED
    BY <2>1, <2>2, <2>3
<1>7. /\ v \in Docling!WorkerType /\ v.message = w.message
      /\ \/ v.pc = w.pc /\ v.code = w.code
         \/ v.pc = "exited" /\ Docling!Alive
      /\ p.pc = "kill" => v.pc \in {"absent", "exited"} /\ (v.pc = "exited" => v.reaped)
  <2>1. CASE Docling!ListDescendants
    BY <1>1, <1>2, <1>3, <2>1 DEF Docling!ListDescendants
  <2>2. CASE Docling!Terminate
    BY <1>1, <1>2, <1>3, <2>2 DEF Docling!Terminate, Docling!Dead, Docling!WorkerType
  <2>3. CASE Docling!Kill
    <3>1. CASE Docling!Alive
      BY <1>2, <1>3, <2>3, <3>1 DEF Docling!Kill, Docling!Dead, Docling!WorkerType
    <3>2. CASE ~Docling!Alive
      <4>1. w.pc \in {"absent", "exited"}
        BY <1>2, <3>2, ParseTypes
      <4>2. v = [w EXCEPT !.reaped = (w.pc = "exited")]
        BY <1>2, <1>3, <2>3, <3>2 DEF Docling!Kill
      <4>3. v.reaped = (w.pc = "exited")
        BY <4>2, Zenon DEF Docling!WorkerType
      <4>4. v.pc = w.pc /\ v.code = w.code /\ v.message = w.message
        BY <4>2 DEF Docling!WorkerType
      <4>5. v \in Docling!WorkerType
        <5>1. CASE w.pc = "exited"
          BY <4>2, <5>1 DEF Docling!WorkerType
        <5>2. CASE w.pc # "exited"
          BY <4>2, <5>2 DEF Docling!WorkerType
        <5> QED
          BY <5>1, <5>2
      <4> QED
        BY <4>1, <4>3, <4>4, <4>5
    <3> QED
      BY <3>1, <3>2
  <2> QED
    BY <2>1, <2>2, <2>3
<1>8. Docling!TypeOK'
  BY <1>3, <1>4, <1>5, <1>6, <1>7 DEF ParseInv, Docling!TypeOK
<1>9. w.pc = "exited" => v.pc = "exited" /\ v.code = w.code
  BY <1>2, <1>7 DEF Docling!Alive
<1>10. StatusInv'
  BY <1>1, <1>2, <1>3, <1>4, <1>6, <1>9 DEF ParseInv, StatusInv, Early, Waits, Stops
<1>11. ProcessInv'
  BY <1>1, <1>2, <1>3, <1>6, <1>7 DEF ParseInv, ProcessInv, Early, Waits, Later
<1>12. Docling!OnlyWholeResults'
  <2>1. p.outcome = "none"
    BY <1>1, <1>6 DEF ParseInv, StatusInv
  <2> QED
    BY <1>3, <1>6, <2>1 DEF Docling!OnlyWholeResults
<1> QED
  BY <1>8, <1>10, <1>11, <1>12 DEF ParseInv

\* What is left of the listed processes is killed, and the call goes on only
\* after a success.
LEMMA KillRestStep ==
  ASSUME ParseInv, Docling!KillRest
  PROVE  ParseInv'
<1>1. PICK p \in Docling!ParentType : p = parent
  BY ParseTypes
<1>2. PICK n : n = parent'
  OBVIOUS
<1>3. /\ p.pc = "rest" /\ UNCHANGED <<route, worker, pipe, late>>
      /\ helpers' = Docling!Ending(p.listed)
      /\ \/ p.status = "success" /\ n = [p EXCEPT !.pc = "adapt"]
         \/ n = [p EXCEPT !.pc = "done", !.outcome = "failed"]
  BY <1>1, <1>2 DEF Docling!KillRest
<1>4. /\ n \in Docling!ParentType
      /\ n.status = p.status /\ n.payload = p.payload /\ n.listed = p.listed
      /\ \/ p.status = "success" /\ n.pc = "adapt" /\ n.outcome = p.outcome
         \/ n.pc = "done" /\ n.outcome = "failed"
  BY <1>3 DEF Docling!ParentType
<1>5. \A h \in Helpers : h \in p.listed => helpers'[h] = "gone"
  BY <1>3 DEF Docling!Ending
<1>6. helpers' \in [Helpers -> {"unborn", "live", "gone"}]
  BY <1>3, ParseTypes DEF Docling!Ending
<1>7. Docling!TypeOK'
  BY <1>2, <1>3, <1>4, <1>6 DEF ParseInv, Docling!TypeOK
<1>8. StatusInv'
  BY <1>1, <1>2, <1>3, <1>4 DEF ParseInv, StatusInv, Early, Waits, Stops
<1>9. ProcessInv'
  BY <1>1, <1>2, <1>3, <1>4, <1>5
     DEF ParseInv, ProcessInv, Early, Waits, Later, Docling!Live
<1>10. Docling!OnlyWholeResults'
  <2>1. p.outcome = "none"
    BY <1>1, <1>3 DEF ParseInv, StatusInv
  <2> QED
    BY <1>2, <1>4, <2>1 DEF Docling!OnlyWholeResults
<1> QED
  BY <1>7, <1>8, <1>9, <1>10 DEF ParseInv

\* The worker and its helpers go on by themselves, and time passes.  A worker
\* that has ended does nothing more, and what is gone is not started again.
LEMMA WorldStep ==
  ASSUME ParseInv, Docling!Worker \/ Docling!HelperEnds \/ Docling!DeadlinePasses
  PROVE  ParseInv'
<1>1. PICK w \in Docling!WorkerType : w = worker
  BY ParseTypes
<1>2. PICK v : v = worker'
  OBVIOUS
<1>3. UNCHANGED <<route, parent>>
  BY DEF Docling!Worker, Docling!SendReady, Docling!StartHelper, Docling!BeginResult,
         Docling!EndResult, Docling!Exit, Docling!WorkerDies, Docling!HelperEnds,
         Docling!DeadlinePasses
<1>4. /\ v \in Docling!WorkerType
      /\ v.pc = "writing" => v.message \in Docling!Results
      /\ v.pc = "absent" <=> w.pc = "absent"
      /\ w.pc = "exited" => v = w
  <2>1. CASE Docling!SendReady
    BY <1>1, <1>2, <2>1 DEF Docling!SendReady, Docling!WorkerType
  <2>2. CASE Docling!BeginResult
    BY <1>1, <1>2, <2>2 DEF Docling!BeginResult, Docling!WorkerType
  <2>3. CASE Docling!EndResult
    BY <1>1, <1>2, <2>3 DEF Docling!EndResult, Docling!WorkerType
  <2>4. CASE Docling!Exit
    BY <1>1, <1>2, <2>4 DEF Docling!Exit, Docling!WorkerType
  <2>5. CASE Docling!WorkerDies
    BY <1>1, <1>2, <2>5 DEF Docling!WorkerDies, Docling!Dead, Docling!Alive, Docling!WorkerType
  <2>6. CASE Docling!StartHelper \/ Docling!HelperEnds \/ Docling!DeadlinePasses
    BY <1>1, <1>2, <2>6 DEF Docling!StartHelper, Docling!HelperEnds, Docling!DeadlinePasses,
                            ParseInv, ProcessInv
  <2> QED
    BY <2>1, <2>2, <2>3, <2>4, <2>5, <2>6 DEF Docling!Worker
<1>5. pipe' \in Seq(Docling!Message)
  <2>1. pipe \in Seq(Docling!Message) /\ {"R", "partial"} \cup Docling!Results \subseteq Docling!Message
    BY ParseTypes DEF Docling!Message, Docling!Results
  <2>2. CASE Docling!EndResult
    <3>1. worker.message \in Docling!Results
      BY <2>2 DEF ParseInv, ProcessInv, Docling!EndResult
    <3>2. PICK m \in Docling!Message : pipe' = [pipe EXCEPT ![Len(pipe)] = m]
      BY <2>1, <2>2, <3>1 DEF Docling!EndResult
    <3>3. pipe \in [1 .. Len(pipe) -> Docling!Message] /\ Len(pipe) \in Nat
      BY <2>1
    <3>4. pipe' \in [1 .. Len(pipe) -> Docling!Message]
      BY <3>2, <3>3
    <3> QED
      BY <3>3, <3>4
  <2>3. CASE Docling!SendReady \/ Docling!BeginResult
    <3>1. PICK m \in Docling!Message : pipe' = Append(pipe, m)
      BY <2>1, <2>3 DEF Docling!SendReady, Docling!BeginResult
    <3> QED
      BY <2>1, <3>1
  <2>4. CASE Docling!WorkerDies
    BY <2>4, TornType DEF Docling!WorkerDies
  <2>5. CASE \/ Docling!Exit \/ Docling!StartHelper \/ Docling!HelperEnds
             \/ Docling!DeadlinePasses
    BY <2>1, <2>5 DEF Docling!Exit, Docling!StartHelper, Docling!HelperEnds,
                      Docling!DeadlinePasses
  <2> QED
    BY <2>2, <2>3, <2>4, <2>5 DEF Docling!Worker
<1>6. late' \in BOOLEAN
  BY ParseTypes DEF Docling!Worker, Docling!SendReady, Docling!StartHelper,
     Docling!BeginResult, Docling!EndResult, Docling!Exit, Docling!WorkerDies,
     Docling!HelperEnds, Docling!DeadlinePasses
<1>7. /\ helpers' \in [Helpers -> {"unborn", "live", "gone"}]
      /\ w.pc \in {"absent", "exited"} =>
           \A h \in Helpers : helpers'[h] = "live" => helpers[h] = "live"
  <2>1. CASE Docling!StartHelper
    BY <1>1, <2>1, ParseTypes DEF Docling!StartHelper
  <2>2. CASE Docling!HelperEnds
    BY <2>2, ParseTypes DEF Docling!HelperEnds, Docling!Ending
  <2>3. CASE UNCHANGED helpers
    BY <2>3, ParseTypes
  <2> QED
    BY <2>1, <2>2, <2>3 DEF Docling!Worker, Docling!SendReady, Docling!BeginResult,
       Docling!EndResult, Docling!Exit, Docling!WorkerDies, Docling!DeadlinePasses
<1>8. Docling!TypeOK'
  BY <1>2, <1>3, <1>4, <1>5, <1>6, <1>7 DEF ParseInv, Docling!TypeOK
<1>9. StatusInv'
  BY <1>1, <1>2, <1>3, <1>4 DEF ParseInv, StatusInv
<1>10. ProcessInv'
  <2>1. parent.pc \in Later => w.pc \in {"absent", "exited"}
    BY <1>1 DEF ParseInv, ProcessInv
  <2> QED
    BY <1>1, <1>2, <1>3, <1>4, <1>7, <2>1 DEF ParseInv, ProcessInv, Docling!Live
<1>11. Docling!OnlyWholeResults'
  BY <1>1, <1>2, <1>3, <1>4 DEF ParseInv, Docling!OnlyWholeResults
<1> QED
  BY <1>8, <1>9, <1>10, <1>11 DEF ParseInv

\* Every step of DoclingProcess.
LEMMA ParseNextStep ==
  ASSUME ParseInv, [Docling!Next]_Docling!vars
  PROVE  ParseInv'
<1>1. CASE UNCHANGED Docling!vars
  BY <1>1 DEF ParseInv, StatusInv, ProcessInv, Docling!vars, Docling!TypeOK,
              Docling!OnlyWholeResults, Docling!Live
<1>2. CASE Docling!Next
  BY <1>2, RouterStep, WaitStep, ReceiveStep, ReapStep, CheckStep, StartStep, StopStep,
     KillRestStep, WorldStep
     DEF Docling!Next, Docling!Parent, Docling!WaitLoop, Docling!StopProcess
<1> QED
  BY <1>1, <1>2

\* A parse begins with nothing decided and no process.
LEMMA ParseInit ==
  ASSUME Docling!Init
  PROVE  ParseInv
<1>1. Docling!TypeOK
  <2>1. parent \in Docling!ParentType
    BY DEF Docling!Init, Docling!ParentType, Docling!NoStatus
  <2>2. worker \in Docling!WorkerType
    BY DEF Docling!Init, Docling!WorkerType
  <2>3. pipe \in Seq(Docling!Message)
    BY DEF Docling!Init
  <2>4. helpers \in [Helpers -> {"unborn", "live", "gone"}]
    BY DEF Docling!Init
  <2> QED
    BY <2>1, <2>2, <2>3, <2>4 DEF Docling!Init, Docling!TypeOK
<1>2. /\ parent.pc = "decide" /\ parent.status = Docling!NoStatus /\ parent.listed = {}
      /\ parent.outcome = "none" /\ worker.pc = "absent" /\ Docling!NoStatus # "success"
  BY DEF Docling!Init, Docling!NoStatus
<1>3. StatusInv /\ ProcessInv /\ Docling!OnlyWholeResults
  BY <1>2 DEF StatusInv, ProcessInv, Docling!OnlyWholeResults, Early, Waits, Stops, Later
<1> QED
  BY <1>1, <1>3 DEF ParseInv

\* What the invariant says once the call goes on.
LEMMA ParseImplies ==
  ASSUME ParseInv
  PROVE  Docling!OnlyWholeResults /\ Docling!WorkerIsGone
BY DEF ParseInv, ProcessInv, Later, Docling!WorkerIsGone

(***************************************************************************)
(* Their theorems, for each component and for the instance in which the    *)
(* stages stand side by side.                                              *)
(***************************************************************************)

(***************************************************************************)
(* TableChunking: the inductive invariant.                                 *)
(*                                                                         *)
(* That no cell is lost or taken twice is a matter of the loop's place:    *)
(* the chunks own exactly the rows packed so far, the bands of a row that  *)
(* is being split exactly the column groups done so far (Tiles).  That     *)
(* what is repeated stands in the chunk before it rests on arithmetic: the *)
(* last chunk of a row that was split shows only a part of it, and the     *)
(* loop would take all of that row as overlap; but a row that does not fit *)
(* alone does not fit with another one either (Heavy, TotalMonotone).      *)
(***************************************************************************)
Cell == Nat \X Nat
TableChunk == [own: SUBSET Cell, context: SUBSET Cell, overlap: BOOLEAN]

TableType ==
  /\ rows \in Nat /\ headers \in {{}, {0}} /\ groups \in Groupings
  /\ size \in [(headers \cup 1..rows) \X (1..Columns) -> Nat]
  /\ cursor \in 0..rows /\ previous \in SUBSET (1..cursor)
  /\ tableChunks \in Seq(TableChunk) /\ bands \in Seq(TableChunk)
  /\ group \in 1..(Len(groups) + 1)
  /\ tablePc \in {"running", "splitting", "done", "raised"}
  /\ Table!First => cursor = 0
  /\ tablePc \in {"running", "splitting"} =>
        IF rows = 0 THEN Table!First ELSE cursor < rows
  /\ tablePc # "splitting" => bands = <<>> /\ group = 1

\* The chunks of a list own the given cells, each of them once.
Tiles(list, cells) ==
  /\ \A n \in DOMAIN list : list[n].own \subseteq cells
  /\ \A cell \in cells : \E n \in DOMAIN list :
        \A m \in DOMAIN list : cell \in list[m].own <=> m = n

\* The rows packed so far, and the columns of the split row that are done.
Packed == IF Table!First THEN {} ELSE Table!Cells(headers \cup 1..cursor, Table!Wide)
Done == IF group = 1 THEN 0 ELSE groups[group - 1][2]

\* Every value comes with the header of its column.
Headed(list) ==
  \A n \in DOMAIN list : \A cell \in Table!Shown(list[n]), h \in headers :
     <<h, cell[2]>> \in Table!Shown(list[n])

\* The data a chunk repeats.
RepeatedData(chunk) == {cell \in chunk.context : cell[1] \notin headers}

\* A row that fits with no other row as overlap.
Heavy(r) ==
  Total(size, Table!Cells(headers \cup {r}, Table!Wide)) + 1 + 2 * Cardinality(headers)
    > MaxTokens

SplitInv ==
  tablePc = "splitting" =>
     /\ Table!Weight({}, Table!NextRow, Table!Wide) > MaxTokens
     /\ Tiles(bands, Table!Cells(Table!OwnRows(Table!NextRow), <<1, Done>>))
     /\ Headed(bands)
     /\ \A n \in DOMAIN bands : RepeatedData(bands[n]) = {}

RepeatsInv ==
  /\ \A n \in DOMAIN tableChunks :
        RepeatedData(tableChunks[n]) \subseteq
           (IF n = 1 THEN {} ELSE Table!Shown(tableChunks[n - 1]))
  /\ previous # {} =>
        /\ ~Table!First
        /\ \/ Table!Cells(previous, Table!Wide)
                \subseteq Table!Shown(tableChunks[Len(tableChunks)])
           \/ \E r \in 1..cursor : previous = {r} /\ Heavy(r)

TableInv ==
  TableType /\ SplitInv /\ RepeatsInv /\ Tiles(tableChunks, Packed) /\ Headed(tableChunks)

\* A list without chunks owns nothing.
LEMMA NothingOwned == Tiles(<<>>, {}) /\ Headed(<<>>)
BY DEF Tiles, Headed

\* What the list of chunks is with one more.
LEMMA OneMore ==
  ASSUME NEW k \in Seq(TableChunk), NEW c \in TableChunk
  PROVE  /\ Append(k, c) = k \o <<c>> /\ Append(k, c) # <<>>
         /\ Append(k, c) \in Seq(TableChunk) /\ <<c>> \in Seq(TableChunk)
         /\ Len(k) \in Nat /\ Len(Append(k, c)) = Len(k) + 1
         /\ DOMAIN k = 1..Len(k) /\ DOMAIN Append(k, c) = 1..Len(k) + 1
         /\ Append(k, c)[Len(k) + 1] = c
         /\ \A n \in 1..Len(k) : Append(k, c)[n] = k[n]
OBVIOUS

\* A chunk owns its own cells.
LEMMA OneOwned ==
  ASSUME NEW c \in TableChunk
  PROVE  Tiles(<<c>>, c.own)
<1>1. DOMAIN <<c>> = {1} /\ <<c>>[1] = c
  OBVIOUS
<1> QED
  BY <1>1 DEF Tiles

\* Where the chunks of two lists stand when one follows the other.
LEMMA TwoLists ==
  ASSUME NEW k \in Seq(TableChunk), NEW l \in Seq(TableChunk)
  PROVE  /\ k \o l \in Seq(TableChunk) /\ Len(k) \in Nat /\ Len(l) \in Nat
         /\ Len(k \o l) = Len(k) + Len(l)
         /\ DOMAIN k = 1..Len(k) /\ DOMAIN l = 1..Len(l)
         /\ DOMAIN (k \o l) = 1..(Len(k) + Len(l))
         /\ \A n \in DOMAIN k : n \in DOMAIN (k \o l) /\ (k \o l)[n] = k[n]
         /\ \A n \in DOMAIN l :
               Len(k) + n \in DOMAIN (k \o l) /\ (k \o l)[Len(k) + n] = l[n]
<1>1. /\ k \o l \in Seq(TableChunk) /\ Len(k) \in Nat /\ Len(l) \in Nat
      /\ Len(k \o l) = Len(k) + Len(l)
      /\ DOMAIN k = 1..Len(k) /\ DOMAIN l = 1..Len(l)
      /\ DOMAIN (k \o l) = 1..(Len(k) + Len(l))
  BY ConcatProperties, LenProperties
<1>2. \A n \in DOMAIN k : n \in DOMAIN (k \o l) /\ (k \o l)[n] = k[n]
  BY <1>1, ConcatProperties
<1>3. \A n \in DOMAIN l : Len(k) + n \in DOMAIN (k \o l) /\ (k \o l)[Len(k) + n] = l[n]
  BY <1>1, ConcatProperties
<1> QED
  BY <1>1, <1>2, <1>3

\* A chunk of the two stands in the first list or in the second.
LEMMA EitherList ==
  ASSUME NEW k \in Seq(TableChunk), NEW l \in Seq(TableChunk), NEW n \in DOMAIN (k \o l)
  PROVE  \/ n \in DOMAIN k /\ (k \o l)[n] = k[n]
         \/ \E m \in DOMAIN l : n = Len(k) + m /\ (k \o l)[n] = l[m]
<1>1. CASE n <= Len(k)
  <2>1. n \in DOMAIN k
    BY <1>1, TwoLists
  <2> QED
    BY <2>1, TwoLists
<1>2. CASE n > Len(k)
  <2>1. PICK m \in DOMAIN l : n = Len(k) + m
    <3>1. n - Len(k) \in DOMAIN l /\ n = Len(k) + (n - Len(k))
      BY <1>2, TwoLists
    <3> QED
      BY <3>1
  <2>2. (k \o l)[Len(k) + m] = l[m]
    BY TwoLists
  <2> QED
    BY <2>1, <2>2
<1> QED
  BY <1>1, <1>2, TwoLists

\* Two lists that own different cells own them all one after the other.
LEMMA TilesConcat ==
  ASSUME NEW k \in Seq(TableChunk), NEW l \in Seq(TableChunk), NEW A, NEW B,
         Tiles(k, A), Tiles(l, B), A \cap B = {}
  PROVE  Tiles(k \o l, A \cup B)
<1>1. ASSUME NEW n \in DOMAIN (k \o l)
      PROVE  (k \o l)[n].own \subseteq A \cup B
  BY EitherList DEF Tiles
<1>2. ASSUME NEW cell \in A
      PROVE  \E n \in DOMAIN (k \o l) :
                \A m \in DOMAIN (k \o l) : cell \in (k \o l)[m].own <=> m = n
  <2>1. PICK n \in DOMAIN k : \A m \in DOMAIN k : cell \in k[m].own <=> m = n
    BY DEF Tiles
  <2>2. \A m \in DOMAIN l : cell \notin l[m].own
    BY DEF Tiles
  <2>3. n \in DOMAIN (k \o l) /\ n <= Len(k)
    BY TwoLists
  <2>4. ASSUME NEW m \in DOMAIN (k \o l)
        PROVE  cell \in (k \o l)[m].own <=> m = n
    <3>1. CASE m \in DOMAIN k /\ (k \o l)[m] = k[m]
      BY <2>1, <3>1
    <3>2. CASE \E i \in DOMAIN l : m = Len(k) + i /\ (k \o l)[m] = l[i]
      BY <2>2, <2>3, <3>2, TwoLists
    <3> QED
      BY <3>1, <3>2, EitherList
  <2> QED
    BY <2>3, <2>4
<1>3. ASSUME NEW cell \in B
      PROVE  \E n \in DOMAIN (k \o l) :
                \A m \in DOMAIN (k \o l) : cell \in (k \o l)[m].own <=> m = n
  <2>1. PICK n \in DOMAIN l : \A m \in DOMAIN l : cell \in l[m].own <=> m = n
    BY DEF Tiles
  <2>2. \A m \in DOMAIN k : cell \notin k[m].own
    BY DEF Tiles
  <2>3. Len(k) + n \in DOMAIN (k \o l)
    BY TwoLists
  <2>4. ASSUME NEW m \in DOMAIN (k \o l)
        PROVE  cell \in (k \o l)[m].own <=> m = Len(k) + n
    <3>1. CASE m \in DOMAIN k /\ (k \o l)[m] = k[m]
      <4>1. m # Len(k) + n
        BY <3>1, TwoLists
      <4> QED
        BY <2>2, <3>1, <4>1
    <3>2. CASE \E i \in DOMAIN l : m = Len(k) + i /\ (k \o l)[m] = l[i]
      <4>1. PICK i \in DOMAIN l : m = Len(k) + i /\ (k \o l)[m] = l[i]
        BY <3>2
      <4>2. m = Len(k) + n <=> i = n
        BY <4>1, TwoLists
      <4> QED
        BY <2>1, <4>1, <4>2
    <3> QED
      BY <3>1, <3>2, EitherList
  <2> QED
    BY <2>3, <2>4
<1> QED
  BY <1>1, <1>2, <1>3 DEF Tiles

\* Values keep their headers when lists follow each other.
LEMMA HeadedConcat ==
  ASSUME NEW k \in Seq(TableChunk), NEW l \in Seq(TableChunk), Headed(k), Headed(l)
  PROVE  Headed(k \o l)
<1>1. ASSUME NEW n \in DOMAIN (k \o l)
      PROVE  \A cell \in Table!Shown((k \o l)[n]), h \in headers :
                <<h, cell[2]>> \in Table!Shown((k \o l)[n])
  <2>1. CASE n \in DOMAIN k /\ (k \o l)[n] = k[n]
    BY <2>1 DEF Headed
  <2>2. CASE \E m \in DOMAIN l : n = Len(k) + m /\ (k \o l)[n] = l[m]
    BY <2>2 DEF Headed
  <2> QED
    BY <2>1, <2>2, EitherList
<1> QED
  BY <1>1 DEF Headed

\* What a chunk owns, shows and repeats.
LEMMA ChunkParts ==
  ASSUME NEW overlap \in SUBSET Nat, NEW new \in SUBSET Nat,
         NEW band \in Nat \X Nat, headers \in {{}, {0}}, NEW c,
         \E declare \in BOOLEAN : c = Table!Chunk(overlap, new, band, declare)
  PROVE  /\ c \in TableChunk
         /\ c.own = Table!Cells(Table!OwnRows(new), band)
         /\ Table!Shown(c) =
               Table!Cells(Table!ContextRows(overlap) \cup Table!OwnRows(new), band)
         /\ RepeatedData(c) \subseteq Table!Cells(overlap, band)
         /\ Headed(<<c>>)
<1>1. Table!ContextRows(overlap) \in SUBSET Nat /\ Table!OwnRows(new) \in SUBSET Nat
  <2>1. headers \subseteq Nat
    OBVIOUS
  <2> QED
    BY <2>1 DEF Table!ContextRows, Table!OwnRows
<1>2. ASSUME NEW rs \in SUBSET Nat
      PROVE  Table!Cells(rs, band) \in SUBSET Cell
  <2>1. band[1]..band[2] \in SUBSET Nat
    OBVIOUS
  <2>2. rs \X (band[1]..band[2]) \subseteq Nat \X Nat
    BY Zenon, <2>1
  <2> QED
    BY Zenon, <2>2 DEF Cell, Table!Cells
<1>3. /\ c.own = Table!Cells(Table!OwnRows(new), band)
      /\ c.context = Table!Cells(Table!ContextRows(overlap), band)
      /\ c \in TableChunk
  <2>1. PICK declare \in BOOLEAN : c = Table!Chunk(overlap, new, band, declare)
    OBVIOUS
  <2> QED
    BY <1>1, <1>2, <2>1 DEF Table!Chunk, TableChunk
<1>4. Table!Shown(c) =
        Table!Cells(Table!ContextRows(overlap) \cup Table!OwnRows(new), band)
  BY <1>3 DEF Table!Shown, Table!Cells
<1>5. RepeatedData(c) \subseteq Table!Cells(overlap, band)
  BY <1>3 DEF RepeatedData, Table!Cells, Table!ContextRows
<1>6. headers \subseteq Table!ContextRows(overlap) \cup Table!OwnRows(new)
  BY DEF Table!ContextRows, Table!OwnRows
<1>7. Headed(<<c>>)
  <2>1. DOMAIN <<c>> = {1} /\ <<c>>[1] = c
    OBVIOUS
  <2>2. \A cell \in Table!Shown(c), h \in headers : <<h, cell[2]>> \in Table!Shown(c)
    BY <1>4, <1>6 DEF Table!Cells
  <2> QED
    BY <2>1, <2>2 DEF Headed
<1> QED
  BY <1>3, <1>4, <1>5, <1>7

\* The table's sums and sizes are the library's.
LEMMA SameOperators ==
  /\ \A S : Table!Cardinality(S) = Cardinality(S)
  /\ \A cells : Table!MapThenSumSet(LAMBDA cell : size[cell], cells) = Total(size, cells)
<1>1. \A S : Table!Cardinality(S) = Cardinality(S)
  BY Zenon DEF Table!Cardinality, Cardinality
<1>2. \A cells : Table!MapThenSumSet(LAMBDA cell : size[cell], cells) = Total(size, cells)
  BY Zenon DEF Table!MapThenSumSet, Table!MapThenFoldSet, Total, MapThenSumSet, MapThenFoldSet
<1> QED
  BY <1>1, <1>2

\* What a stretch of a table weighs.
LEMMA WeightIsTotal ==
  ASSUME NEW overlap, NEW new, NEW band
  PROVE  Table!Weight(overlap, new, band) =
           Total(size, Table!Cells(Table!ContextRows(overlap) \cup Table!OwnRows(new), band))
             + Cardinality(Table!OwnRows(new)) + 2 * Cardinality(Table!ContextRows(overlap))
  BY Zenon, SameOperators DEF Table!Weight

\* Cells of different rows.
LEMMA CellsRows ==
  ASSUME NEW r, NEW s, NEW band
  PROVE  /\ Table!Cells(r \cup s, band) = Table!Cells(r, band) \cup Table!Cells(s, band)
         /\ r \cap s = {} => Table!Cells(r, band) \cap Table!Cells(s, band) = {}
         /\ r \subseteq s => Table!Cells(r, band) \subseteq Table!Cells(s, band)
         /\ Table!Cells({}, band) = {}
BY Zenon DEF Table!Cells

\* Cells of bands that follow each other.
LEMMA CellsBands ==
  ASSUME NEW r, NEW b \in Nat, NEW c \in Nat
  PROVE  /\ Table!Cells(r, <<1, 0>>) = {}
         /\ b <= c =>
              /\ Table!Cells(r, <<1, b>>) \cap Table!Cells(r, <<b + 1, c>>) = {}
              /\ Table!Cells(r, <<1, b>>) \cup Table!Cells(r, <<b + 1, c>>) =
                   Table!Cells(r, <<1, c>>)
<1>1. /\ Table!Cells(r, <<1, b>>) = r \X (1 .. b)
      /\ Table!Cells(r, <<1, 0>>) = r \X (1 .. 0)
      /\ Table!Cells(r, <<b + 1, c>>) = r \X (b + 1 .. c)
      /\ Table!Cells(r, <<1, c>>) = r \X (1 .. c)
  BY DEF Table!Cells
<1>2. 1 .. 0 = {}
  OBVIOUS
<1>3. ASSUME b <= c
      PROVE  /\ (1 .. b) \cap (b + 1 .. c) = {}
             /\ (1 .. b) \cup (b + 1 .. c) = 1 .. c
  BY <1>3
<1>4. \A x, y : x \cap y = {} => (r \X x) \cap (r \X y) = {}
  BY Zenon
<1>5. \A x, y : (r \X x) \cup (r \X y) = r \X (x \cup y)
  BY Zenon
<1>6. Table!Cells(r, <<1, 0>>) = {}
  BY Zenon, <1>1, <1>2
<1>7. ASSUME b <= c
      PROVE  /\ Table!Cells(r, <<1, b>>) \cap Table!Cells(r, <<b + 1, c>>) = {}
             /\ Table!Cells(r, <<1, b>>) \cup Table!Cells(r, <<b + 1, c>>) =
                  Table!Cells(r, <<1, c>>)
  BY Zenon, <1>1, <1>3, <1>4, <1>5, <1>7
<1> QED
  BY Zenon, <1>6, <1>7

\* The next rows, with the header if it is the first time, complete what is
\* packed.
LEMMA PackedMore ==
  ASSUME NEW n \in Nat, cursor \in Nat, headers \in {{}, {0}}, Table!First => cursor = 0,
         Columns \in Nat,
         NEW more, more = Table!Cells(Table!OwnRows(Table!NewRows(n)), Table!Wide)
  PROVE  /\ Packed \cap more = {}
         /\ Packed \cup more = Table!Cells(headers \cup 1..(cursor + n), Table!Wide)
<1>1. Table!NewRows(n) = cursor + 1..cursor + n /\ Table!Wide = <<1, Columns>>
  BY DEF Table!NewRows, Table!Wide
<1>2. 1..cursor \cup (cursor + 1..cursor + n) = 1..(cursor + n)
  OBVIOUS
<1>3. CASE Table!First
  <2>1. Packed = {}
    BY <1>3 DEF Packed
  <2>2. more = Table!Cells(headers \cup 1..(cursor + n), Table!Wide)
    <3>1. Table!NewRows(n) = 1..(cursor + n)
      BY <1>1, <1>3
    <3> QED
      BY <1>3, <3>1 DEF Table!OwnRows
  <2> QED
    BY <2>1, <2>2
<1>4. CASE ~Table!First
  <2>1. Packed = Table!Cells(headers \cup 1..cursor, <<1, Columns>>)
    BY <1>1, <1>4 DEF Packed
  <2>2. more = Table!Cells(cursor + 1..cursor + n, <<1, Columns>>)
    <3>1. {} \cup (cursor + 1..cursor + n) = cursor + 1..cursor + n
      OBVIOUS
    <3> QED
      BY <1>1, <1>4, <3>1 DEF Table!OwnRows
  <2>3. (headers \cup 1..cursor) \cap (cursor + 1..cursor + n) = {}
    OBVIOUS
  <2>4. (headers \cup 1..cursor) \cup (cursor + 1..cursor + n) = headers \cup 1..(cursor + n)
    BY <1>2
  <2> DEFINE old == headers \cup 1..cursor
             new == cursor + 1..cursor + n
  <2> HIDE DEF old, new
  <2>5. /\ Table!Cells(old \cup new, <<1, Columns>>) =
             Table!Cells(old, <<1, Columns>>) \cup Table!Cells(new, <<1, Columns>>)
        /\ old \cap new = {} =>
             Table!Cells(old, <<1, Columns>>) \cap Table!Cells(new, <<1, Columns>>) = {}
    BY Zenon, CellsRows
  <2>6. Packed \cap more = {}
    BY <2>1, <2>2, <2>3, <2>5 DEF old, new
  <2>7. Packed \cup more = Table!Cells(headers \cup 1..(cursor + n), <<1, Columns>>)
    BY <2>1, <2>2, <2>4, <2>5 DEF old, new
  <2> QED
    BY <1>1, <2>6, <2>7
<1> QED
  BY <1>3, <1>4

\* The cells of a table's rows are so many, and weigh a number; more rows
\* weigh no less.
LEMMA CellsWeigh ==
  ASSUME TableType, NEW s \in SUBSET (headers \cup 1..rows), NEW r \in SUBSET s
  PROVE  /\ IsFiniteSet(s) /\ Cardinality(s) \in Nat
         /\ IsFiniteSet(r) /\ Cardinality(r) \in Nat /\ Cardinality(r) <= Cardinality(s)
         /\ Total(size, Table!Cells(s, Table!Wide)) \in Nat
         /\ Total(size, Table!Cells(r, Table!Wide)) \in Nat
         /\ Total(size, Table!Cells(r, Table!Wide)) <= Total(size, Table!Cells(s, Table!Wide))
<1> DEFINE all == headers \cup 1..rows
           cs == Table!Cells(s, Table!Wide)
           cr == Table!Cells(r, Table!Wide)
<1>1. IsFiniteSet(all)
  <2>1. IsFiniteSet(headers)
    <3>1. headers = {} \/ headers = {0}
      BY DEF TableType
    <3>2. IsFiniteSet({}) /\ IsFiniteSet({0})
      BY Zenon, FS_EmptySet, FS_Singleton
    <3> QED
      BY Zenon, <3>1, <3>2
  <2>2. IsFiniteSet(1..rows)
    <3>1. 1 \in Int /\ rows \in Int
      BY DEF TableType
    <3> QED
      BY Zenon, <3>1, FS_Interval
  <2> QED
    BY <2>1, <2>2, FS_Union
<1>2. /\ IsFiniteSet(s) /\ Cardinality(s) \in Nat
      /\ IsFiniteSet(r) /\ Cardinality(r) \in Nat /\ Cardinality(r) <= Cardinality(s)
  BY <1>1, FS_Subset, FS_CardinalityType
<1>3. IsFiniteSet(cs)
  <2>1. IsFiniteSet(1..Columns)
    <3>1. 1 \in Int /\ Columns \in Int
      BY TableAssumption
    <3> QED
      BY Zenon, <3>1, FS_Interval
  <2>2. cs = s \X (1..Columns)
    BY DEF Table!Cells, Table!Wide
  <2>3. IsFiniteSet(s \X (1..Columns))
    BY Zenon, <1>2, <2>1, FS_Product
  <2> QED
    BY Zenon, <2>2, <2>3
<1>4. cr \subseteq cs /\ cs \subseteq all \X (1..Columns)
  <2>1. cs = s \X (1..Columns) /\ cr = r \X (1..Columns)
    BY DEF Table!Cells, Table!Wide
  <2> QED
    BY Zenon, <2>1
<1>5. size \in [all \X (1..Columns) -> Nat]
  BY DEF TableType
<1>6. /\ \A x \in cs : size[x] \in Nat
      /\ \A x \in cr : size[x] \in Nat
  BY <1>4, <1>5
<1>7. IsFiniteSet(cr)
  BY <1>3, <1>4, FS_Subset
<1> HIDE DEF cs, cr
<1>8. Total(size, cs) \in Nat /\ Total(size, cr) \in Nat
  BY <1>3, <1>6, <1>7, TotalType
<1>9. Total(size, cr) <= Total(size, cs)
  BY <1>3, <1>4, <1>6, TotalMonotone
<1> QED
  BY <1>2, <1>8, <1>9 DEF cs, cr

\* A row that has to be split is heavy.
LEMMA SplitIsHeavy ==
  ASSUME TableType, cursor < rows, Table!Weight({}, Table!NextRow, Table!Wide) > MaxTokens
  PROVE  Table!NextRow = {cursor + 1} /\ Heavy(cursor + 1)
<1> DEFINE c == cursor + 1
           T == Total(size, Table!Cells(headers \cup {c}, Table!Wide))
           H == Cardinality(headers)
<1>1. Table!NextRow = {c}
  <2>1. rows # 0 /\ cursor \in Nat
    BY DEF TableType
  <2>2. cursor + 1..cursor + 1 = {c}
    BY <2>1
  <2> QED
    BY <2>1, <2>2 DEF Table!NextRow, Table!Step, Table!NewRows
<1>2. /\ headers \cup {c} \in SUBSET (headers \cup 1..rows)
      /\ {c} \in SUBSET (headers \cup {c}) /\ headers \in SUBSET (headers \cup {c})
      /\ c \notin headers
  BY DEF TableType
<1>3. /\ T \in Nat /\ H \in Nat /\ Cardinality({c}) = 1
      /\ IsFiniteSet(headers) /\ Cardinality(headers \cup {c}) = H + 1
  <2>1. T \in Nat /\ H \in Nat /\ IsFiniteSet(headers)
    BY <1>2, CellsWeigh
  <2>2. Cardinality({c}) = 1
    BY FS_Singleton
  <2>3. Cardinality(headers \cup {c}) = H + 1
    BY <1>2, <2>1, FS_AddElement
  <2> QED
    BY <2>1, <2>2, <2>3
<1>4. Table!Weight({}, Table!NextRow, Table!Wide) =
        Total(size, Table!Cells(Table!ContextRows({}) \cup Table!OwnRows({c}), Table!Wide))
          + Cardinality(Table!OwnRows({c})) + 2 * Cardinality(Table!ContextRows({}))
  BY <1>1, WeightIsTotal
<1>5. CASE Table!First
  <2>1. Table!ContextRows({}) = {} /\ Table!OwnRows({c}) = headers \cup {c}
    BY <1>5 DEF Table!ContextRows, Table!OwnRows
  <2>2. {} \cup (headers \cup {c}) = headers \cup {c} /\ Cardinality({}) = 0
    BY FS_EmptySet
  <2>3. Table!Weight({}, Table!NextRow, Table!Wide) = T + (H + 1) + 2 * 0
    BY <1>3, <1>4, <2>1, <2>2
  <2> QED
    BY <1>1, <1>3, <2>3, TableAssumption DEF Heavy
<1>6. CASE ~Table!First
  <2>1. Table!ContextRows({}) = headers /\ Table!OwnRows({c}) = {c}
    BY <1>6 DEF Table!ContextRows, Table!OwnRows
  <2>2. Table!Weight({}, Table!NextRow, Table!Wide) = T + 1 + 2 * H
    BY <1>3, <1>4, <2>1
  <2> QED
    BY <1>1, <1>3, <2>2 DEF Heavy
<1> QED
  BY <1>5, <1>6

\* No row fits together with a heavy one as its overlap.
LEMMA HeavyAlone ==
  ASSUME TableType, ~Table!First, cursor < rows, NEW r \in 1..cursor, Heavy(r)
  PROVE  ~Table!Fits({r}, 1)
<1> DEFINE c == cursor + 1
           all == headers \cup {r} \cup {c}
           T == Total(size, Table!Cells(headers \cup {r}, Table!Wide))
           A == Total(size, Table!Cells(all, Table!Wide))
           H == Cardinality(headers)
<1>1. Table!NewRows(1) = {c}
  <2>1. cursor + 1..cursor + 1 = {c}
    BY DEF TableType
  <2> QED
    BY <2>1 DEF Table!NewRows
<1>2. /\ all \in SUBSET (headers \cup 1..rows)
      /\ headers \cup {r} \in SUBSET all /\ headers \cup {r} \in SUBSET (headers \cup 1..rows)
      /\ headers \in SUBSET (headers \cup {r})
      /\ r \notin headers
  BY DEF TableType
<1>3. /\ T \in Nat /\ A \in Nat /\ T <= A /\ H \in Nat /\ IsFiniteSet(headers)
  BY <1>2, CellsWeigh
<1>4. Cardinality({c}) = 1 /\ Cardinality(headers \cup {r}) = H + 1
  BY <1>2, <1>3, FS_Singleton, FS_AddElement
<1>5. Table!ContextRows({r}) = headers \cup {r} /\ Table!OwnRows({c}) = {c}
  BY DEF Table!ContextRows, Table!OwnRows
<1>6. Table!Weight({r}, Table!NewRows(1), Table!Wide) = A + 1 + 2 * (H + 1)
  BY <1>1, <1>4, <1>5, WeightIsTotal
<1> QED
  BY <1>3, <1>6, TableAssumption DEF Heavy, Table!Fits


\* One more chunk, of the next rows, whose overlap the last one shows.
LEMMA WindowStep ==
  ASSUME TableInv, Table!Window
  PROVE  TableInv'
<1>0. PICK L : L = Len(tableChunks)
  OBVIOUS
<1>1. PICK overlap \in Table!Suffixes, n \in 1..rows - cursor :
        /\ Table!OverlapRows(overlap)
        /\ tableChunks' = Append(tableChunks,
                                 Table!Chunk(overlap, Table!NewRows(n), Table!Wide, TRUE))
        /\ previous' = Table!NewRows(n)
        /\ Table!NothingSplit /\ Table!Moved(n)
  BY DEF Table!Window
<1>2. PICK new : new = Table!NewRows(n)
  OBVIOUS
<1>3. PICK c : c = Table!Chunk(overlap, new, Table!Wide, TRUE)
  OBVIOUS
<1>4. /\ tablePc = "running" /\ rows > 0 /\ cursor < rows
      /\ headers' = headers /\ rows' = rows /\ size' = size /\ groups' = groups
      /\ bands' = bands /\ group' = group
      /\ cursor' = cursor + n
      /\ tablePc' = IF cursor + n = rows THEN "done" ELSE "running"
  BY <1>1 DEF Table!Window, Table!NothingSplit, Table!Moved, Table!table, TableInv, TableType
<1>5. /\ cursor \in Nat /\ rows \in Nat /\ n \in Nat \ {0} /\ cursor + n <= rows
      /\ headers \in {{}, {0}} /\ (Table!First => cursor = 0)
      /\ tableChunks \in Seq(TableChunk) /\ Columns \in Nat
      /\ new = cursor + 1..cursor + n /\ Table!Wide = <<1, Columns>>
      /\ previous \in SUBSET (1..cursor)
  BY <1>1, <1>2, TableAssumption DEF TableInv, TableType, Table!NewRows, Table!Wide
<1>6. overlap \in SUBSET previous /\ Table!Fits(overlap, 1)
  BY <1>1 DEF Table!Suffixes, Table!OverlapRows
<1>7. ASSUME overlap # {}
      PROVE  ~Table!First /\ Table!Cells(overlap, Table!Wide) \subseteq
                               Table!Shown(tableChunks[L])
  <2>1. /\ ~Table!First
        /\ \/ Table!Cells(previous, Table!Wide) \subseteq Table!Shown(tableChunks[L])
           \/ \E r \in 1..cursor : previous = {r} /\ Heavy(r)
    BY <1>0, <1>6, <1>7 DEF TableInv, RepeatsInv
  <2>2. CASE Table!Cells(previous, Table!Wide) \subseteq Table!Shown(tableChunks[L])
    <3>1. Table!Cells(overlap, Table!Wide) \subseteq Table!Cells(previous, Table!Wide)
      BY <1>6, CellsRows
    <3> QED
      BY <2>1, <2>2, <3>1
  <2>3. CASE \E r \in 1..cursor : previous = {r} /\ Heavy(r)
    <3>1. PICK r \in 1..cursor : previous = {r} /\ Heavy(r)
      BY <2>3
    <3>2. overlap = {r}
      BY <1>6, <1>7, <3>1
    <3>3. ~Table!Fits({r}, 1)
      BY <1>4, <2>1, <3>1, HeavyAlone DEF TableInv
    <3> QED
      BY <1>6, <3>2, <3>3
  <2> QED
    BY <2>1, <2>2, <2>3
<1>8. /\ c \in TableChunk
      /\ c.own = Table!Cells(Table!OwnRows(new), Table!Wide)
      /\ Table!Shown(c) =
            Table!Cells(Table!ContextRows(overlap) \cup Table!OwnRows(new), Table!Wide)
      /\ RepeatedData(c) \subseteq Table!Cells(overlap, Table!Wide)
      /\ Headed(<<c>>)
  <2>1. /\ overlap \in SUBSET Nat /\ new \in SUBSET Nat /\ headers \in {{}, {0}}
        /\ Table!Wide \in Nat \X Nat
    BY <1>5, <1>6
  <2>2. \E declare \in BOOLEAN : c = Table!Chunk(overlap, new, Table!Wide, declare)
    BY Zenon, <1>3
  <2> QED
    BY <2>1, <2>2, ChunkParts
<1>9. /\ tableChunks' = tableChunks \o <<c>>
      /\ tableChunks' \in Seq(TableChunk) /\ <<c>> \in Seq(TableChunk)
      /\ L \in Nat /\ Len(tableChunks') = L + 1
      /\ tableChunks'[L + 1] = c
      /\ \A m \in 1..L : tableChunks'[m] = tableChunks[m]
      /\ DOMAIN tableChunks' = 1..L + 1 /\ DOMAIN tableChunks = 1..L
      /\ tableChunks' # <<>>
  <2>1. tableChunks' = Append(tableChunks, c)
    BY Zenon, <1>1, <1>2, <1>3
  <2>2. tableChunks \in Seq(TableChunk) /\ c \in TableChunk
    BY <1>5, <1>8
  <2> QED
    BY Zenon, <1>0, <2>1, <2>2, OneMore
<1>10. previous' = new
  BY Zenon, <1>1, <1>2
<1>11. TableType'
  <2>1. previous' \in SUBSET (1..cursor') /\ cursor' \in 0..rows'
    BY <1>4, <1>5, <1>10
  <2>2. ~(Table!First)'
    BY <1>9 DEF Table!First
  <2> QED
    BY <1>4, <1>5, <1>9, <2>1, <2>2 DEF TableInv, TableType
<1>12. SplitInv'
  BY <1>4 DEF SplitInv
<1>13. RepeatsInv'
  <2>1. ASSUME NEW m \in 1..L + 1
        PROVE  RepeatedData(tableChunks'[m]) \subseteq
                  (IF m = 1 THEN {} ELSE Table!Shown(tableChunks'[m - 1]))
    <3>1. CASE m = L + 1
      <4>1. CASE overlap = {}
        BY <1>8, <1>9, <3>1, <4>1, CellsRows
      <4>2. CASE overlap # {}
        <5>1. L # 0 /\ m # 1 /\ tableChunks'[m - 1] = tableChunks[L]
          BY <1>5, <1>7, <1>9, <3>1, <4>2 DEF Table!First
        <5> QED
          BY <1>7, <1>8, <1>9, <3>1, <4>2, <5>1
      <4> QED
        BY <4>1, <4>2
    <3>2. CASE m \in 1..L
      <4>1. tableChunks'[m] = tableChunks[m]
        BY <1>9, <3>2
      <4>2. m # 1 => tableChunks'[m - 1] = tableChunks[m - 1]
        BY <1>9, <3>2
      <4> QED
        BY <1>9, <3>2, <4>1, <4>2 DEF TableInv, RepeatsInv
    <3>3. m = L + 1 \/ m \in 1..L
      BY <1>9
    <3> QED
      BY <3>1, <3>2, <3>3
  <2>2. ~(Table!First)'
    BY <1>9 DEF Table!First
  <2>3. Table!Cells(previous', Table!Wide) \subseteq Table!Shown(tableChunks'[L + 1])
    <3>1. new \subseteq Table!ContextRows(overlap) \cup Table!OwnRows(new)
      BY DEF Table!OwnRows
    <3>2. Table!Cells(new, Table!Wide) \subseteq Table!Shown(c)
      BY <1>8, <3>1, CellsRows
    <3> QED
      BY <1>1, <1>9, <1>2, <3>2
  <2> QED
    BY <1>4, <1>9, <2>1, <2>2, <2>3
       DEF RepeatsInv, RepeatedData, Table!Shown, Table!Cells, Table!Wide
<1>14. Tiles(tableChunks, Packed)'
  <2>1. PICK more : more = Table!Cells(Table!OwnRows(Table!NewRows(n)), Table!Wide)
    OBVIOUS
  <2>2. /\ Packed \cap more = {}
        /\ Packed \cup more = Table!Cells(headers \cup 1..(cursor + n), Table!Wide)
    BY <1>5, <2>1, PackedMore
  <2>3. Tiles(<<c>>, more)
    BY <1>2, <1>8, <2>1, OneOwned
  <2>4. Tiles(tableChunks', Packed \cup more)
    BY <1>5, <1>9, <2>2, <2>3, TilesConcat DEF TableInv
  <2>5. Packed' = Packed \cup more
    BY <1>4, <1>9, <2>2 DEF Packed, Table!First, Table!Cells, Table!Wide
  <2> QED
    BY <2>4, <2>5 DEF Tiles
<1>15. Headed(tableChunks)'
  <2>1. Headed(tableChunks')
    BY <1>5, <1>8, <1>9, HeadedConcat DEF TableInv
  <2> QED
    BY <1>4, <2>1 DEF Headed, Table!Shown
<1> QED
  BY <1>11, <1>12, <1>13, <1>14, <1>15 DEF TableInv

\* A table without data rows has its header as its only chunk.
LEMMA HeaderOnlyStep ==
  ASSUME TableInv, Table!HeaderOnly
  PROVE  TableInv'
<1>1. PICK c : c = Table!Chunk({}, {}, Table!Wide, FALSE)
  OBVIOUS
<1>2. tableChunks' = <<c>>
  BY Zenon, <1>1 DEF Table!HeaderOnly
<1>3. /\ tablePc = "running" /\ rows = 0 /\ tablePc' = "done"
      /\ headers' = headers /\ rows' = rows /\ size' = size /\ groups' = groups
      /\ bands' = bands /\ group' = group /\ cursor' = cursor /\ previous' = previous
  BY DEF Table!HeaderOnly, Table!NothingSplit, Table!table
<1>4. /\ cursor = 0 /\ previous = {} /\ Table!First
      /\ headers \in {{}, {0}} /\ Table!Wide \in Nat \X Nat /\ Columns \in Nat
  BY <1>3, TableAssumption DEF TableInv, TableType, Table!Wide
<1>5. /\ c \in TableChunk
      /\ c.own = Table!Cells(Table!OwnRows({}), Table!Wide)
      /\ RepeatedData(c) \subseteq Table!Cells({}, Table!Wide)
      /\ Headed(<<c>>)
  <2>1. PICK none, new, band : none = {} /\ new = {} /\ band = Table!Wide
    OBVIOUS
  <2>2. \E declare \in BOOLEAN : c = Table!Chunk(none, new, band, declare)
    BY Zenon, <1>1, <2>1
  <2>3. none \in SUBSET Nat /\ new \in SUBSET Nat /\ band \in Nat \X Nat
    BY <1>4, <2>1
  <2>4. headers \in {{}, {0}}
    BY <1>4
  <2>5. /\ c \in TableChunk
        /\ c.own = Table!Cells(Table!OwnRows(new), band)
        /\ Table!Shown(c) =
              Table!Cells(Table!ContextRows(none) \cup Table!OwnRows(new), band)
        /\ RepeatedData(c) \subseteq Table!Cells(none, band)
        /\ Headed(<<c>>)
    BY <2>2, <2>3, <2>4, ChunkParts
  <2> QED
    BY <2>1, <2>5
<1>6. DOMAIN <<c>> = {1} /\ <<c>>[1] = c /\ <<c>> \in Seq(TableChunk) /\ <<c>> # <<>>
  BY <1>5
<1>7. ~(Table!First)'
  BY <1>2, <1>6 DEF Table!First
<1>8. TableType'
  BY <1>2, <1>3, <1>6, <1>7 DEF TableInv, TableType
<1>9. SplitInv'
  BY <1>3 DEF SplitInv
<1>10. RepeatsInv'
  <2>1. RepeatedData(c) = {}
    BY <1>5, CellsRows
  <2> QED
    BY <1>2, <1>3, <1>4, <1>6, <2>1 DEF RepeatsInv, RepeatedData
<1>11. Tiles(tableChunks, Packed)'
  <2>1. Table!NewRows(0) = {} /\ cursor + 0 = cursor /\ Packed = {}
    BY <1>4 DEF Table!NewRows, Packed
  <2>2. c.own = Table!Cells(headers \cup 1..cursor, Table!Wide)
    <3>1. 0 \in Nat /\ c.own = Table!Cells(Table!OwnRows(Table!NewRows(0)), Table!Wide)
      BY <1>5, <2>1
    <3>2. Packed \cup c.own = Table!Cells(headers \cup 1..(cursor + 0), Table!Wide)
      BY <1>4, <3>1, PackedMore
    <3> QED
      BY <2>1, <3>2
  <2>3. Tiles(<<c>>, c.own)
    BY <1>5, OneOwned
  <2>4. Packed' = c.own
    BY <1>3, <1>7, <2>2 DEF Packed, Table!Cells, Table!Wide
  <2> QED
    BY <1>2, <2>3, <2>4 DEF Tiles
<1>12. Headed(tableChunks)'
  BY <1>2, <1>3, <1>5 DEF Headed, Table!Shown
<1> QED
  BY <1>8, <1>9, <1>10, <1>11, <1>12 DEF TableInv

\* What a row that is to be split weighs.
LEMMA SplitWeight ==
  Table!Weight({}, Table!NextRow, Table!Wide) =
    Total(size, Table!Cells(Table!ContextRows({}) \cup Table!OwnRows(Table!NextRow),
                            Table!Wide))
      + Cardinality(Table!OwnRows(Table!NextRow)) + 2 * Cardinality(Table!ContextRows({}))
BY WeightIsTotal

\* What stays of the invariant when the list of chunks and the table do.
LEMMA ChunksStay ==
  ASSUME TableInv, tableChunks' = tableChunks, headers' = headers, cursor' = cursor,
         previous' = previous, rows' = rows, size' = size
  PROVE  /\ RepeatsInv' /\ Tiles(tableChunks, Packed)' /\ Headed(tableChunks)'
         /\ Table!Weight({}, Table!NextRow, Table!Wide)'
              = Table!Weight({}, Table!NextRow, Table!Wide)
         /\ Table!OwnRows(Table!NextRow)' = Table!OwnRows(Table!NextRow)
<1>1. RepeatsInv'
  <2>1. ASSUME NEW r
        PROVE  Heavy(r)' <=> Heavy(r)
    BY Zenon DEF Heavy
  <2>2. (\E r \in 1..cursor : previous = {r} /\ Heavy(r)) <=>
          (\E r \in 1..cursor : previous = {r} /\ Heavy(r))'
    BY <2>1
  <2> QED
    BY <2>2 DEF TableInv, RepeatsInv, RepeatedData, Table!Shown, Table!Cells,
                Table!Wide, Table!First
<1>2. Tiles(tableChunks, Packed)'
  BY DEF TableInv, Tiles, Packed, Table!First, Table!Cells, Table!Wide
<1>3. Headed(tableChunks)'
  BY DEF TableInv, Headed, Table!Shown
<1>4. /\ Table!NextRow' = Table!NextRow
      /\ Table!OwnRows(Table!NextRow)' = Table!OwnRows(Table!NextRow)
      /\ Table!ContextRows({})' = Table!ContextRows({})
  BY DEF Table!NextRow, Table!Step, Table!NewRows, Table!OwnRows, Table!ContextRows,
         Table!First
<1>5. Table!Weight({}, Table!NextRow, Table!Wide)'
        = Table!Weight({}, Table!NextRow, Table!Wide)
  <2> DEFINE cells == Table!Cells(Table!ContextRows({}) \cup Table!OwnRows(Table!NextRow),
                                  Table!Wide)
             sum == Total(size, cells) + Cardinality(Table!OwnRows(Table!NextRow))
                      + 2 * Cardinality(Table!ContextRows({}))
  <2>1. (Table!Weight({}, Table!NextRow, Table!Wide) = sum)'
    BY SplitWeight, PTL
  <2>2. sum' = sum
    BY Zenon, <1>4
  <2> QED
    BY Zenon, <2>1, <2>2, SplitWeight
<1> QED
  BY <1>1, <1>2, <1>3, <1>4, <1>5

\* A row that does not fit is to be split.
LEMMA SplitRowStep ==
  ASSUME TableInv, Table!SplitRow
  PROVE  TableInv'
<1>1. /\ tablePc = "running" /\ tablePc' = "splitting"
      /\ Table!Weight({}, Table!NextRow, Table!Wide) > MaxTokens
      /\ tableChunks' = tableChunks /\ headers' = headers /\ cursor' = cursor
      /\ previous' = previous /\ rows' = rows /\ size' = size /\ groups' \in Groupings
      /\ bands' = bands /\ group' = group
  BY DEF Table!SplitRow, Table!NothingSplit, Table!table
<1>2. /\ RepeatsInv' /\ Tiles(tableChunks, Packed)' /\ Headed(tableChunks)'
      /\ Table!Weight({}, Table!NextRow, Table!Wide)' > MaxTokens
  BY <1>1, ChunksStay
<1>3. bands' = <<>> /\ group' = 1
  BY <1>1 DEF TableInv, TableType
<1>4. TableType'
  <2>1. group' \in 1..(Len(groups') + 1)
    <3>1. Len(groups') \in Nat
      BY <1>1, TableAssumption DEF Stretches
    <3> QED
      BY <1>3, <3>1
  <2> QED
    BY <1>1, <1>3, <2>1 DEF TableInv, TableType, Table!First
<1>5. SplitInv'
  <2>1. Done' = 0
    BY <1>3 DEF Done
  <2>2. (Table!Cells(Table!OwnRows(Table!NextRow), <<1, Done>>))' = {}
    BY <2>1 DEF Table!Cells
  <2> QED
    BY <1>2, <1>3, <2>2 DEF SplitInv, Tiles, Headed
<1> QED
  BY <1>2, <1>4, <1>5 DEF TableInv

\* A row that cannot be split ends the table, and its bands are given up.
LEMMA UnsplittableStep ==
  ASSUME TableInv, Table!Unsplittable
  PROVE  TableInv'
<1>1. /\ tablePc' = "raised" /\ bands' = <<>> /\ group' = 1
      /\ tableChunks' = tableChunks /\ headers' = headers /\ cursor' = cursor
      /\ previous' = previous /\ rows' = rows /\ size' = size /\ groups' = groups
  BY DEF Table!Unsplittable, Table!table
<1>2. RepeatsInv' /\ Tiles(tableChunks, Packed)' /\ Headed(tableChunks)'
  BY <1>1, ChunksStay
<1>3. TableType'
  <2>1. Len(groups) \in Nat
    BY TableAssumption DEF TableInv, TableType, Stretches
  <2>2. 1 \in 1..(Len(groups) + 1) /\ <<>> \in Seq(TableChunk)
    BY <2>1
  <2> QED
    BY <1>1, <2>2 DEF TableInv, TableType, Table!First
<1>4. SplitInv'
  BY <1>1 DEF SplitInv
<1> QED
  BY <1>2, <1>3, <1>4 DEF TableInv

\* Where the bands of a row that is being split go on, and where they end.
LEMMA BandsFollow ==
  ASSUME TableType
  PROVE  /\ groups \in Seq(Nat \X Nat) /\ Len(groups) \in Nat \ {0}
         /\ DOMAIN groups = 1..Len(groups) /\ Done \in Nat
         /\ group = Len(groups) + 1 => Done = Columns
         /\ \A k \in group..Len(groups) :
               /\ k \in 1..Len(groups) /\ groups[k][2] \in Nat /\ Done <= groups[k][2]
               /\ group \in 1..Len(groups)
               /\ Table!Band(group, k) = <<Done + 1, groups[k][2]>>
<1>1. /\ groups \in Seq(Nat \X Nat) /\ groups # <<>>
      /\ groups[1][1] = 1 /\ groups[Len(groups)][2] = Columns
      /\ \A g, h \in DOMAIN groups : /\ groups[g][1] <= groups[g][2]
                                     /\ g < h => groups[g][2] < groups[h][1]
                                     /\ h = g + 1 => groups[h][1] = groups[g][2] + 1
  BY TableAssumption DEF TableType, Stretches
<1>2. /\ Len(groups) \in Nat \ {0} /\ DOMAIN groups = 1..Len(groups)
      /\ \A g \in 1..Len(groups) : groups[g] \in Nat \X Nat
  BY <1>1
<1>3. \A g \in 1..Len(groups) : groups[g][1] \in Nat /\ groups[g][2] \in Nat
  BY <1>2
<1>4. group \in 1..Len(groups) + 1
  BY <1>2 DEF TableType
<1>5. Done \in Nat
  <2>1. group # 1 => group - 1 \in 1..Len(groups)
    BY <1>2, <1>4
  <2> QED
    BY <1>3, <2>1 DEF Done
<1>6. ASSUME group = Len(groups) + 1 PROVE Done = Columns
  <2>1. group # 1 /\ group - 1 = Len(groups)
    BY <1>2, <1>6
  <2> QED
    BY <1>1, <2>1 DEF Done
<1>7. ASSUME NEW k \in group..Len(groups)
      PROVE  /\ k \in 1..Len(groups) /\ groups[k][2] \in Nat /\ Done <= groups[k][2]
             /\ group \in 1..Len(groups)
             /\ Table!Band(group, k) = <<Done + 1, groups[k][2]>>
  <2>1. k \in 1..Len(groups) /\ group \in 1..Len(groups)
    BY <1>2, <1>4
  <2>2. groups[group][1] = Done + 1
    <3>1. CASE group = 1
      BY <1>1, <3>1 DEF Done
    <3>2. CASE group # 1
      <4>1. group - 1 \in 1..Len(groups) /\ group = (group - 1) + 1
        BY <2>1, <3>2
      <4> QED
        BY <1>1, <1>2, <2>1, <3>2, <4>1 DEF Done
    <3> QED
      BY <3>1, <3>2
  <2>3. groups[group][1] <= groups[k][2]
    <3>1. k = group \/ group < k
      BY <2>1
    <3>2. groups[group][1] <= groups[group][2] /\ groups[k][1] <= groups[k][2]
      BY <1>1, <1>2, <2>1
    <3>3. group < k => groups[group][2] < groups[k][1]
      BY <1>1, <1>2, <2>1
    <3>4. /\ groups[group][1] \in Nat /\ groups[group][2] \in Nat
          /\ groups[k][1] \in Nat /\ groups[k][2] \in Nat
      BY <1>3, <2>1
    <3> QED
      BY <3>1, <3>2, <3>3, <3>4
  <2>4. groups[k][2] \in Nat
    BY <1>3, <2>1
  <2>5. Done <= groups[k][2]
    BY <1>5, <2>2, <2>3, <2>4
  <2> QED
    BY <2>1, <2>2, <2>4, <2>5 DEF Table!Band
<1> QED
  BY <1>1, <1>2, <1>5, <1>6, <1>7

\* One more band of the row, up to a column group that ends it.
LEMMA EmitBandStep ==
  ASSUME TableInv, Table!EmitBand
  PROVE  TableInv'
<1>1. PICK k \in group..Len(groups) :
        /\ bands' = Append(bands, Table!Chunk({}, Table!NextRow, Table!Band(group, k), FALSE))
        /\ group' = k + 1
  BY Zenon DEF Table!EmitBand
<1>2. PICK c : c = Table!Chunk({}, Table!NextRow, Table!Band(group, k), FALSE)
  OBVIOUS
<1>3. bands' = Append(bands, c)
  BY Zenon, <1>1, <1>2
<1>4. /\ tablePc = "splitting" /\ tablePc' = tablePc
      /\ tableChunks' = tableChunks /\ headers' = headers /\ cursor' = cursor
      /\ previous' = previous /\ rows' = rows /\ size' = size /\ groups' = groups
  BY DEF Table!EmitBand, Table!table
<1>5. /\ RepeatsInv' /\ Tiles(tableChunks, Packed)' /\ Headed(tableChunks)'
      /\ Table!Weight({}, Table!NextRow, Table!Wide)'
           = Table!Weight({}, Table!NextRow, Table!Wide)
      /\ Table!OwnRows(Table!NextRow)' = Table!OwnRows(Table!NextRow)
  BY <1>4, ChunksStay
<1>6. /\ groups \in Seq(Nat \X Nat) /\ Len(groups) \in Nat \ {0} /\ Done \in Nat
      /\ k \in 1..Len(groups) /\ groups[k][2] \in Nat /\ Done <= groups[k][2]
      /\ Table!Band(group, k) = <<Done + 1, groups[k][2]>>
  BY BandsFollow DEF TableInv
<1>7. /\ bands \in Seq(TableChunk) /\ headers \in {{}, {0}}
      /\ Table!Weight({}, Table!NextRow, Table!Wide) > MaxTokens
      /\ Tiles(bands, Table!Cells(Table!OwnRows(Table!NextRow), <<1, Done>>))
      /\ Headed(bands)
      /\ \A n \in DOMAIN bands : RepeatedData(bands[n]) = {}
  BY <1>4 DEF TableInv, TableType, SplitInv
<1>8. /\ c \in TableChunk
      /\ c.own = Table!Cells(Table!OwnRows(Table!NextRow), Table!Band(group, k))
      /\ RepeatedData(c) \subseteq Table!Cells({}, Table!Band(group, k))
      /\ Headed(<<c>>)
  <2>1. \E declare \in BOOLEAN :
           c = Table!Chunk({}, Table!NextRow, Table!Band(group, k), declare)
    BY Zenon, <1>2
  <2>2. Table!NextRow \in SUBSET Nat
    <3>1. cursor \in Nat /\ Table!Step \in Nat
      BY DEF TableInv, TableType, Table!Step
    <3> QED
      BY <3>1 DEF Table!NextRow, Table!NewRows
  <2>3. Table!Band(group, k) \in Nat \X Nat
    BY <1>6
  <2>4. {} \in SUBSET Nat
    OBVIOUS
  <2>5. PICK new, band : new = Table!NextRow /\ band = Table!Band(group, k)
    OBVIOUS
  <2>6. \E declare \in BOOLEAN : c = Table!Chunk({}, new, band, declare)
    BY Zenon, <2>1, <2>5
  <2>7. new \in SUBSET Nat /\ band \in Nat \X Nat
    BY Zenon, <2>2, <2>3, <2>5
  <2>8. headers \in {{}, {0}}
    BY <1>7
  <2>9. /\ c \in TableChunk
        /\ c.own = Table!Cells(Table!OwnRows(new), band)
        /\ RepeatedData(c) \subseteq Table!Cells({}, band)
        /\ Headed(<<c>>)
    <3>1. PICK none : none = {}
      OBVIOUS
    <3>2. \E declare \in BOOLEAN : c = Table!Chunk(none, new, band, declare)
      BY <2>6, <3>1
    <3>3. none \in SUBSET Nat
      BY <3>1
    <3>4. /\ c \in TableChunk
          /\ c.own = Table!Cells(Table!OwnRows(new), band)
          /\ Table!Shown(c) =
                Table!Cells(Table!ContextRows(none) \cup Table!OwnRows(new), band)
          /\ RepeatedData(c) \subseteq Table!Cells(none, band)
          /\ Headed(<<c>>)
      BY <2>7, <2>8, <3>2, <3>3, ChunkParts
    <3> QED
      BY <3>1, <3>4
  <2> QED
    <3>1. c.own = Table!Cells(Table!OwnRows(new), Table!Band(group, k))
      BY <2>5, <2>9
    <3>2. Table!OwnRows(new) = Table!OwnRows(Table!NextRow)
      BY <2>5
    <3>3. c.own = Table!Cells(Table!OwnRows(Table!NextRow), Table!Band(group, k))
      BY <3>1, <3>2
    <3>4. RepeatedData(c) \subseteq Table!Cells({}, Table!Band(group, k))
      BY <2>5, <2>9
    <3> QED
      BY <2>9, <3>3, <3>4
<1>9. /\ bands' = bands \o <<c>> /\ bands' \in Seq(TableChunk) /\ <<c>> \in Seq(TableChunk)
      /\ Len(bands) \in Nat
      /\ DOMAIN bands = 1..Len(bands) /\ DOMAIN bands' = 1..Len(bands) + 1
      /\ bands'[Len(bands) + 1] = c
      /\ \A n \in 1..Len(bands) : bands'[n] = bands[n]
  BY <1>3, <1>7, <1>8, OneMore
<1>10. TableType'
  <2>1. group' \in 1..(Len(groups) + 1)
    BY <1>1, <1>6
  <2> QED
    BY <1>4, <1>9, <2>1 DEF TableInv, TableType, Table!First
<1>11. SplitInv'
  <2>1. Done' = groups[k][2]
    <3>1. group' # 1 /\ group' - 1 = k
      BY <1>1, <1>6
    <3> QED
      BY <1>4, <3>1 DEF Done
  <2>2. PICK own : own = Table!OwnRows(Table!NextRow)
    OBVIOUS
  <2>3. Tiles(bands', Table!Cells(own, <<1, groups[k][2]>>))
    <3>1. /\ Table!Cells(own, <<1, Done>>) \cap Table!Cells(own, <<Done + 1, groups[k][2]>>)
               = {}
          /\ Table!Cells(own, <<1, Done>>) \cup Table!Cells(own, <<Done + 1, groups[k][2]>>)
               = Table!Cells(own, <<1, groups[k][2]>>)
      BY <1>6, CellsBands
    <3>2. c.own = Table!Cells(own, <<Done + 1, groups[k][2]>>)
      BY <1>6, <1>8, <2>2
    <3>3. Tiles(<<c>>, c.own) /\ Tiles(bands, Table!Cells(own, <<1, Done>>))
      BY <1>7, <1>8, <2>2, OneOwned
    <3>4. Tiles(bands \o <<c>>, Table!Cells(own, <<1, Done>>) \cup c.own)
      BY <1>7, <1>9, <3>1, <3>2, <3>3, TilesConcat
    <3> QED
      BY <1>9, <3>1, <3>2, <3>4
  <2>4. Tiles(bands, Table!Cells(Table!OwnRows(Table!NextRow), <<1, Done>>))'
    <3>1. Table!Cells(Table!OwnRows(Table!NextRow), <<1, Done>>)'
            = Table!Cells(own, <<1, groups[k][2]>>)
      BY <1>5, <2>1, <2>2 DEF Table!Cells
    <3> QED
      BY <2>3, <3>1 DEF Tiles
  <2>5. Headed(bands)'
    <3>1. Headed(bands')
      BY <1>7, <1>8, <1>9, HeadedConcat
    <3> QED
      BY <1>4, <3>1 DEF Headed, Table!Shown
  <2>6. \A n \in DOMAIN bands' : RepeatedData(bands'[n]) = {}
    <3>1. RepeatedData(c) = {}
      BY <1>8, CellsRows
    <3> QED
      BY <1>7, <1>9, <3>1
  <2>7. (\A n \in DOMAIN bands : RepeatedData(bands[n]) = {})'
    BY <1>4, <2>6 DEF RepeatedData
  <2> QED
    BY <1>5, <1>7, <2>4, <2>5, <2>7 DEF SplitInv
<1> QED
  BY <1>5, <1>10, <1>11 DEF TableInv

\* The bands of a split row are its chunks, and it may be the next overlap.
LEMMA RowSplitStep ==
  ASSUME TableInv, Table!RowSplit
  PROVE  TableInv'
<1>1. /\ tablePc = "splitting" /\ group > Len(groups)
      /\ tableChunks' = tableChunks \o bands /\ bands' = <<>> /\ group' = 1
      /\ headers' = headers /\ rows' = rows /\ size' = size /\ groups' = groups
      /\ previous' = Table!NextRow /\ cursor' = cursor + Table!Step
      /\ tablePc' = IF cursor + Table!Step = rows THEN "done" ELSE "running"
  BY DEF Table!RowSplit, Table!Moved, Table!table
<1>2. /\ rows \in Nat /\ cursor \in Nat /\ cursor <= rows /\ headers \in {{}, {0}}
      /\ tableChunks \in Seq(TableChunk) /\ bands \in Seq(TableChunk)
      /\ (Table!First => cursor = 0) /\ Columns \in Nat
      /\ IF rows = 0 THEN Table!First ELSE cursor < rows
  BY <1>1, TableAssumption DEF TableInv, TableType
<1>3. /\ Len(groups) \in Nat \ {0} /\ Done = Columns
  <2>1. Len(groups) \in Nat \ {0} /\ group \in 1..(Len(groups) + 1)
    BY BandsFollow DEF TableInv, TableType
  <2>2. group = Len(groups) + 1
    BY <1>1, <2>1
  <2> QED
    BY <2>1, <2>2, BandsFollow DEF TableInv
<1>4. PICK own : own = Table!Cells(Table!OwnRows(Table!NextRow), Table!Wide)
  OBVIOUS
<1>5. /\ Table!Weight({}, Table!NextRow, Table!Wide) > MaxTokens
      /\ Tiles(bands, own) /\ Headed(bands)
      /\ \A n \in DOMAIN bands : RepeatedData(bands[n]) = {}
  BY <1>1, <1>3, <1>4 DEF TableInv, SplitInv, Table!Wide
<1>6. Table!Step \in Nat /\ Table!NextRow = Table!NewRows(Table!Step)
  BY DEF Table!Step, Table!NextRow
<1>7. ASSUME rows # 0
      PROVE  /\ Table!Step = 1 /\ Table!NextRow = {cursor + 1} /\ Heavy(cursor + 1)
             /\ bands # <<>>
  <2>1. Table!NextRow = {cursor + 1} /\ Heavy(cursor + 1)
    BY <1>2, <1>5, <1>7, SplitIsHeavy DEF TableInv
  <2>2. <<cursor + 1, 1>> \in own
    <3>1. cursor + 1 \in Table!OwnRows(Table!NextRow)
      BY <2>1 DEF Table!OwnRows
    <3>2. 1 \in 1..Columns
      BY TableAssumption
    <3> QED
      BY <1>4, <3>1, <3>2 DEF Table!Cells, Table!Wide
  <2>3. bands # <<>>
    BY <1>5, <2>2 DEF Tiles
  <2> QED
    BY <1>7, <2>1, <2>3 DEF Table!Step
<1>8. ASSUME rows = 0
      PROVE  /\ Table!Step = 0 /\ Table!NextRow = {} /\ cursor = 0 /\ Table!First
  <2>1. cursor = 0 /\ Table!Step = 0
    BY <1>2, <1>8 DEF Table!Step
  <2>2. 1..0 = {}
    OBVIOUS
  <2> QED
    BY <1>2, <1>8, <2>1, <2>2 DEF Table!NextRow, Table!NewRows
<1>9. (Table!First)' => rows = 0 /\ bands = <<>>
  <2>1. tableChunks \o bands = <<>> => bands = <<>>
    BY <1>2
  <2> QED
    BY <1>1, <1>7, <2>1 DEF Table!First
<1>10. TableType'
  <2>1. tableChunks' \in Seq(TableChunk) /\ <<>> \in Seq(TableChunk)
    BY <1>1, <1>2
  <2>2. cursor' \in 0..rows' /\ previous' \in SUBSET (1..cursor')
    <3>1. CASE rows = 0
      BY <1>1, <1>2, <1>8, <3>1
    <3>2. CASE rows # 0
      BY <1>1, <1>2, <1>7, <3>2
    <3> QED
      BY <3>1, <3>2
  <2>3. (Table!First)' => cursor' = 0
    BY <1>1, <1>8, <1>9
  <2>4. tablePc' \in {"running", "splitting"} =>
           IF rows' = 0 THEN (Table!First)' ELSE cursor' < rows'
    BY <1>1, <1>2, <1>7, <1>8
  <2>5. group' \in 1..(Len(groups') + 1) /\ tablePc' \in {"running", "done"}
    BY <1>1, <1>3
  <2> QED
    BY <1>1, <2>1, <2>2, <2>3, <2>4, <2>5 DEF TableInv, TableType
<1>11. SplitInv'
  BY <1>1 DEF SplitInv
<1>12. RepeatsInv'
  <2>1. ASSUME NEW n \in DOMAIN tableChunks'
        PROVE  RepeatedData(tableChunks'[n]) \subseteq
                  (IF n = 1 THEN {} ELSE Table!Shown(tableChunks'[n - 1]))
    <3>1. CASE n \in DOMAIN tableChunks /\ tableChunks'[n] = tableChunks[n]
      <4>1. n # 1 => tableChunks'[n - 1] = tableChunks[n - 1]
        <5>1. n # 1 => n - 1 \in DOMAIN tableChunks
          BY <1>2, <3>1, TwoLists
        <5> QED
          BY <1>1, <1>2, <5>1, TwoLists
      <4> QED
        BY <3>1, <4>1 DEF TableInv, RepeatsInv
    <3>2. CASE \E m \in DOMAIN bands : tableChunks'[n] = bands[m]
      BY <1>5, <3>2
    <3>3. n \in DOMAIN (tableChunks \o bands)
      BY <1>1
    <3>4. \/ n \in DOMAIN tableChunks /\ (tableChunks \o bands)[n] = tableChunks[n]
          \/ \E m \in DOMAIN bands : (tableChunks \o bands)[n] = bands[m]
      BY <1>2, <3>3, EitherList
    <3> QED
      BY <1>1, <3>1, <3>2, <3>4
  <2>2. ASSUME previous' # {}
        PROVE  /\ ~(Table!First)'
               /\ \E r \in 1..cursor' : previous' = {r} /\ Heavy(r)
    <3>1. rows # 0
      BY <1>1, <1>8, <2>2
    <3>2. ~(Table!First)'
      BY <1>9, <3>1
    <3>3. cursor + 1 \in 1..cursor'
      BY <1>1, <1>2, <1>7, <3>1
    <3> QED
      BY <1>1, <1>7, <3>1, <3>2, <3>3
  <2>3. ASSUME NEW r
        PROVE  Heavy(r)' <=> Heavy(r)
    BY <1>1, Zenon DEF Heavy
  <2> QED
    BY <1>1, <2>1, <2>2, <2>3 DEF RepeatsInv, Table!Shown, RepeatedData
<1>13. Tiles(tableChunks, Packed)'
  <2>1. /\ Packed \cap own = {}
        /\ Packed \cup own = Table!Cells(headers \cup 1..(cursor + Table!Step), Table!Wide)
    BY <1>2, <1>4, <1>6, PackedMore
  <2>2. Tiles(tableChunks', Packed \cup own)
    BY <1>1, <1>2, <1>5, <2>1, TilesConcat DEF TableInv
  <2>3. CASE ~(Table!First)'
    <3>1. Packed' = Packed \cup own
      BY <1>1, <2>1, <2>3 DEF Packed, Table!Cells, Table!Wide
    <3> QED
      BY <2>2, <3>1 DEF Tiles
  <2>4. CASE (Table!First)'
    <3>1. Packed' = {} /\ tableChunks' = <<>>
      BY <2>4 DEF Packed, Table!First
    <3> QED
      BY <3>1, NothingOwned DEF Tiles
  <2> QED
    BY <2>3, <2>4
<1>14. Headed(tableChunks)'
  <2>1. Headed(tableChunks')
    BY <1>1, <1>2, <1>5, HeadedConcat DEF TableInv
  <2> QED
    BY <1>1, <2>1 DEF Headed, Table!Shown
<1> QED
  BY <1>10, <1>11, <1>12, <1>13, <1>14 DEF TableInv

\* Every step keeps the invariant.
LEMMA TableNextStep ==
  ASSUME TableInv, Table!Next \/ UNCHANGED Table!vars
  PROVE  TableInv'
<1>1. CASE Table!Next
  BY <1>1, HeaderOnlyStep, WindowStep, SplitRowStep, EmitBandStep, UnsplittableStep,
     RowSplitStep DEF Table!Next
<1>2. CASE UNCHANGED Table!vars
  <2>1. /\ tableChunks' = tableChunks /\ headers' = headers /\ cursor' = cursor
        /\ previous' = previous /\ rows' = rows /\ size' = size /\ groups' = groups
        /\ bands' = bands /\ group' = group /\ tablePc' = tablePc
    BY <1>2 DEF Table!vars, Table!table
  <2>2. /\ RepeatsInv' /\ Tiles(tableChunks, Packed)' /\ Headed(tableChunks)'
        /\ Table!Weight({}, Table!NextRow, Table!Wide)'
             = Table!Weight({}, Table!NextRow, Table!Wide)
        /\ Table!OwnRows(Table!NextRow)' = Table!OwnRows(Table!NextRow)
    BY <2>1, ChunksStay
  <2>3. TableType'
    BY <2>1 DEF TableInv, TableType, Table!First
  <2>4. SplitInv'
    BY <2>1, <2>2 DEF TableInv, SplitInv, Tiles, Headed, RepeatedData, Done,
                      Table!Cells, Table!Shown
  <2> QED
    BY <2>2, <2>3, <2>4 DEF TableInv
<1> QED
  BY <1>1, <1>2

\* It holds before the first row.
LEMMA TableInit ==
  ASSUME Table!Init
  PROVE  TableInv
<1>1. /\ rows \in 0..MaxRows /\ headers \in {{}, {0}} /\ groups \in Groupings
      /\ size \in [(headers \cup 1..rows) \X (1..Columns) -> Sizes]
      /\ cursor = 0 /\ previous = {} /\ tableChunks = <<>> /\ bands = <<>> /\ group = 1
      /\ tablePc = "running"
  BY DEF Table!Init
<1>2. rows \in Nat /\ Sizes \subseteq Nat
  BY <1>1, TableAssumption
<1>3. size \in [(headers \cup 1..rows) \X (1..Columns) -> Nat]
  <2> DEFINE cells == (headers \cup 1..rows) \X (1..Columns)
  <2>1. size \in [cells -> Sizes]
    BY <1>1
  <2> HIDE DEF cells
  <2>2. size \in [cells -> Nat]
    BY <1>2, <2>1
  <2> QED
    BY <2>2 DEF cells
<1>4. Table!First
  BY <1>1 DEF Table!First
<1>5. TableType
  <2>1. group \in 1..(Len(groups) + 1)
    <3>1. Len(groups) \in Nat
      BY <1>1, TableAssumption DEF Stretches
    <3> QED
      BY <1>1, <3>1
  <2> QED
    BY <1>1, <1>2, <1>3, <1>4, <2>1 DEF TableType
<1>6. SplitInv
  BY <1>1 DEF SplitInv
<1>7. RepeatsInv
  BY <1>1 DEF RepeatsInv
<1> QED
  BY <1>1, <1>4, <1>5, <1>6, <1>7, NothingOwned DEF TableInv, Packed

\* What the chunks have in common follows.
LEMMA TableImplies ==
  ASSUME TableInv
  PROVE  Table!RowsPackedOnce
<1>1. Table!EachCellOnce
  <2>1. SUFFICES ASSUME ~Table!First,
                        NEW cell \in Table!Cells(headers \cup 1..cursor, Table!Wide)
                 PROVE  Table!Cardinality({n \in DOMAIN tableChunks :
                                             cell \in tableChunks[n].own}) = 1
    BY DEF Table!EachCellOnce
  <2>2. PICK n \in DOMAIN tableChunks :
          \A m \in DOMAIN tableChunks : cell \in tableChunks[m].own <=> m = n
    BY <2>1 DEF TableInv, Tiles, Packed
  <2>3. {m \in DOMAIN tableChunks : cell \in tableChunks[m].own} = {n}
    BY <2>2
  <2>4. Cardinality({n}) = 1
    BY FS_Singleton
  <2> QED
    BY <2>3, <2>4, SameOperators
<1>2. Table!ValuesHaveHeaders
  BY DEF TableInv, Headed, Table!ValuesHaveHeaders
<1>3. Table!RepeatedRowsShared
  BY DEF TableInv, RepeatsInv, RepeatedData, Table!RepeatedRowsShared
<1> QED
  BY <1>1, <1>2, <1>3 DEF Table!RowsPackedOnce

\* In any number of concurrent uploads, rows and objects of a request follow
\* the place where it is, whatever fails and whoever reads.
THEOREM UploadInvariant == File!Spec => []UploadInv
<1>1. File!Init => UploadInv
  BY UploadInit
<1>2. UploadInv /\ [File!Next]_File!vars => UploadInv'
  BY UploadNextStep
<1> QED
  BY <1>1, <1>2, PTL DEF File!Spec

\* The parse keeps what it knows of its worker, status and payload.
THEOREM ParseInvariant == Docling!Spec => []ParseInv
<1>1. Docling!Init => ParseInv
  BY ParseInit
<1>2. ParseInv /\ [Docling!Next]_Docling!vars => ParseInv'
  BY ParseNextStep
<1> QED
  BY <1>1, <1>2, PTL DEF Docling!Spec

\* The stage that runs keeps its invariant, and the others have none to keep.
StagesInv ==
  /\ stage = "upload" => UploadInv
  /\ stage = "parse" => ParseInv
  /\ stage = "table" => TableInv

\* Each step of the instance is a step of the stage that runs.
LEMMA StagesKept == StageSpec => []StagesInv
<1>1. StageInit => StagesInv
  BY UploadInit, ParseInit, TableInit DEF StageInit, StagesInv
<1>2. StagesInv /\ [StageNext]_stageVars => StagesInv'
  <2> SUFFICES ASSUME StagesInv, [StageNext]_stageVars PROVE StagesInv'
    OBVIOUS
  <2>1. stage' = stage
    BY DEF StageNext, UploadNext, Parses, TextNext, TableNext, stageVars
  <2>2. ASSUME stage = "upload" PROVE UploadInv'
    <3>1. [File!Next]_File!vars
      BY <2>2 DEF StageNext, UploadNext, Parses, TextNext, TableNext, stageVars, uploadVars,
                  File!vars
    <3> QED
      BY <2>2, <3>1, UploadNextStep DEF StagesInv
  <2>3. ASSUME stage = "parse" PROVE ParseInv'
    <3>1. [Docling!Next]_Docling!vars
      BY <2>3 DEF StageNext, UploadNext, Parses, TextNext, TableNext, stageVars, parseVars,
                  Docling!vars
    <3> QED
      BY <2>3, <3>1, ParseNextStep DEF StagesInv
  <2>4. ASSUME stage = "table" PROVE TableInv'
    <3>1. Table!Next \/ UNCHANGED Table!vars
      BY <2>4 DEF StageNext, UploadNext, Parses, TextNext, TableNext, stageVars, tableVars,
                  Table!vars, Table!table
    <3> QED
      BY <2>4, <3>1, TableNextStep DEF StagesInv
  <2> QED
    BY <2>1, <2>2, <2>3, <2>4 DEF StagesInv
<1> QED
  BY <1>1, <1>2, PTL DEF StageSpec

\* A batch is accepted as a whole or leaves nothing, whichever part and step
\* failed.
THEOREM BatchesSettled == StageSpec => []SettledBatch
<1>1. StagesInv => SettledBatch
  BY UploadImplies DEF StagesInv, SettledBatch
<1> QED
  BY <1>1, StagesKept, PTL

\* A reader that finds a row gets its object, in any interleaving with
\* uploads, failures and deletions.
THEOREM FilesServed == StageSpec => []FoundIsServed
<1>1. StagesInv => FoundIsServed
  BY UploadImplies DEF StagesInv, FoundIsServed
<1> QED
  BY <1>1, StagesKept, PTL

\* Only a whole result of the decided route is released, of a worker that
\* ended by itself with code 0.
THEOREM WholeResults == StageSpec => []OnlyWholeResults
<1>1. StagesInv => OnlyWholeResults
  BY ParseImplies DEF StagesInv, OnlyWholeResults
<1> QED
  BY <1>1, StagesKept, PTL

\* When the call goes on, its worker and what was listed of its tree are gone.
THEOREM WorkersGone == StageSpec => []WorkerIsGone
<1>1. StagesInv => WorkerIsGone
  BY ParseImplies DEF StagesInv, WorkerIsGone
<1> QED
  BY <1>1, StagesKept, PTL

\* Every cell of the packed rows is new data in one chunk, no value is shown
\* without its header, and what is repeated stands in the chunk before,
\* whatever the table, its merged cells and the limits are.
THEOREM RowsArePacked == StageSpec => []RowsPackedOnce
<1>1. StagesInv => RowsPackedOnce
  BY TableImplies DEF StagesInv, RowsPackedOnce
<1> QED
  BY <1>1, StagesKept, PTL

\* Packing a table keeps the invariant, whatever else goes on.
THEOREM TableInvariant == Table!Spec => []TableInv
<1>1. Table!Init => TableInv
  BY TableInit
<1>2. TableInv /\ [Table!Next]_Table!vars => TableInv'
  BY TableNextStep
<1> QED
  BY <1>1, <1>2, PTL DEF Table!Spec

(***************************************************************************)
(* TextChunking: what the chunker declares to repeat is repeated, whatever *)
(* the text, its boundaries and the configured sizes are.                  *)
(*                                                                         *)
(* The loop never compares a window with the one before it, so the whole   *)
(* argument is that _window_end is monotone in the window's start          *)
(* (EndsMonotone): a boundary in front of the old end that the new window  *)
(* could choose was there for the old window, which preferred its own.     *)
(***************************************************************************)
TypeOK ==
    /\ marks \in [Tokens -> Marks]
    /\ start \in Tokens
    /\ chunks \in Seq(ChunkType)
    /\ pc \in {"running", "done", "raised"}

(* Each chunk is a window, and each starts where the one before it said. *)
Windows ==
    /\ \A n \in DOMAIN chunks : WindowEnd(chunks[n].first, chunks[n].last)
    /\ \A n \in DOMAIN chunks : n > 1 =>
          /\ chunks[n - 1].last < Length
          /\ chunks[n].first = NextStart(chunks[n - 1].first, chunks[n - 1].last)
          /\ chunks[n].overlap = chunks[n - 1].last + 1 - chunks[n].first
    /\ \A n \in DOMAIN chunks : n = 1 => chunks[n].overlap = 0

(* The running loop stands where the last chunk sends it. *)
Resumes ==
    /\ GroupCovered
    /\ chunks = <<>> => start = 1
    /\ pc = "running" /\ chunks # <<>> =>
          LET last == chunks[Len(chunks)]
          IN last.last < Length /\ start = NextStart(last.first, last.last)

Inv == TypeOK /\ Windows /\ Resumes

-----------------------------------------------------------------------------
Half == (IF Target \div 2 > 1 THEN Target \div 2 ELSE 1) - 1

(* Half of the target, at least one token, is less than the target. *)
LEMMA HalfBounds ==
    /\ Half \in Nat /\ Half < Target
    /\ \A s \in Tokens : Minimum(s) = s + Half
<1>1. Target \in Nat /\ Target >= 2
  BY ConfigAssumption
<1>2. Target \div 2 \in Nat /\ Target \div 2 < Target
  BY <1>1
<1> QED
  BY <1>1, <1>2 DEF Half, Minimum, Tokens

(* A window has at least its minimum and at most its hard maximum. *)
LEMMA WindowBounds ==
    ASSUME NEW s \in Tokens, NEW e \in Tokens, WindowEnd(s, e)
    PROVE  /\ s <= e
           /\ e - s + 1 <= Hard
           /\ e = Length \/ s + Half <= e
<1> USE HalfBounds, ConfigAssumption DEF Tokens
<1>1. CASE Length - s + 1 <= Hard
  BY <1>1 DEF WindowEnd
<1>2. CASE ~(Length - s + 1 <= Hard)
  <2>1. CASE \E k \in Kinds : EndsAt(k, s, e)
    <3>1. PICK k \in Kinds : e \in Boundaries(k, s)
      BY <2>1 DEF EndsAt
    <3> QED
      BY <3>1 DEF Boundaries
  <2>2. CASE e = s + Target - 1
    BY <2>2
  <2> QED
    BY <1>2, <2>1, <2>2 DEF WindowEnd
<1> QED
  BY <1>1, <1>2

(* A boundary the later window sees before e, the earlier one saw too. *)
LEMMA SeenBefore ==
    ASSUME NEW s \in Tokens, NEW t \in Tokens, s < t,
           NEW e \in Tokens, e <= s + Hard - 1,
           NEW k \in Kinds, NEW i \in Boundaries(k, t), i < e
    PROVE  i \in Boundaries(k, s)
  BY HalfBounds, ConfigAssumption DEF Boundaries, Tokens

(* A boundary of the earlier window that lies far enough, the later sees. *)
LEMMA SeenAgain ==
    ASSUME NEW s \in Tokens, NEW t \in Tokens, s < t,
           NEW k \in Kinds, NEW i \in Boundaries(k, s), t + Half < i
    PROVE  /\ i \in Boundaries(k, t)
           /\ i \in BeforeTarget(k, s) => i \in BeforeTarget(k, t)
<1>1. i \in Boundaries(k, t)
  BY HalfBounds, ConfigAssumption DEF Boundaries, Tokens
<1> QED
  BY <1>1, HalfBounds, ConfigAssumption DEF BeforeTarget, Boundaries, Tokens

(* _window_end is monotone: a later window never ends earlier. *)
LEMMA EndsMonotone ==
    ASSUME NEW s \in Tokens, NEW t \in Tokens, s < t,
           NEW e \in Tokens, WindowEnd(s, e),
           NEW f \in Tokens, WindowEnd(t, f)
    PROVE  e <= f
<1>1. CASE Length - t + 1 <= Hard
  BY <1>1 DEF WindowEnd, Tokens
<1>2. CASE ~(Length - t + 1 <= Hard)
  <2> SUFFICES ASSUME f < e
               PROVE  FALSE
    BY DEF Tokens
  <2>1. ~(Length - s + 1 <= Hard)
    BY <1>2, ConfigAssumption DEF Tokens
  <2>2. e <= s + Hard - 1
    BY WindowBounds, ConfigAssumption DEF Tokens
  <2>3. t + Half <= f
    BY <1>2, WindowBounds, HalfBounds, ConfigAssumption DEF Tokens
  <2>4. t + Half < e
    BY <2>3, HalfBounds DEF Tokens
  <2>5. CASE \E m \in Kinds : EndsAt(m, t, f)
    <3>1. PICK m \in Kinds : EndsAt(m, t, f)
      BY <2>5
    <3>2. f \in Boundaries(m, t)
      BY <3>1 DEF EndsAt
    <3>3. f \in Boundaries(m, s)
      BY <2>2, <3>2, SeenBefore
    <3>4. PICK k \in Kinds : EndsAt(k, s, e)
      BY <2>1, <3>3 DEF WindowEnd
    <3>5. e \in Boundaries(k, s)
      BY <3>4 DEF EndsAt
    <3>6. /\ e \in Boundaries(k, t)
          /\ e \in BeforeTarget(k, s) => e \in BeforeTarget(k, t)
      BY <2>4, <3>5, SeenAgain
    <3>7. ~(m < k) /\ ~(k < m)
      BY <3>1, <3>3, <3>4, <3>6 DEF EndsAt
    <3>8. m = k
      BY <3>7 DEF Kinds
    <3>9. CASE BeforeTarget(k, s) # {}
      <4>1. e \in BeforeTarget(k, t)
        BY <3>4, <3>6, <3>9 DEF EndsAt
      <4>2. e <= f
        BY <3>1, <3>8, <4>1 DEF EndsAt
      <4> QED
        BY <4>2 DEF Tokens
    <3>10. CASE BeforeTarget(k, s) = {}
      <4>1. e <= f
        BY <3>3, <3>4, <3>8, <3>10 DEF EndsAt
      <4> QED
        BY <4>1 DEF Tokens
    <3> QED
      BY <3>9, <3>10
  <2>6. CASE /\ \A k \in Kinds : Boundaries(k, t) = {}
             /\ f = t + Target - 1
    <3>1. e # s + Target - 1
      BY <2>6, ConfigAssumption DEF Tokens
    <3>2. PICK k \in Kinds : EndsAt(k, s, e)
      BY <2>1, <3>1 DEF WindowEnd
    <3>3. e \in Boundaries(k, s)
      BY <3>2 DEF EndsAt
    <3>4. e \in Boundaries(k, t)
      BY <2>4, <3>3, SeenAgain
    <3> QED
      BY <2>6, <3>4
  <2> QED
    BY <1>2, <2>5, <2>6 DEF WindowEnd
<1> QED
  BY <1>1, <1>2

(* The next window starts further on, in or right behind the last chunk. *)
LEMMA NextStartBounds ==
    ASSUME NEW s \in Tokens, NEW e \in Tokens, s <= e, e < Length
    PROVE  /\ NextStart(s, e) \in Tokens
           /\ s < NextStart(s, e)
           /\ NextStart(s, e) <= e + 1
           /\ e + 1 - NextStart(s, e) <= Overlap
  BY ConfigAssumption DEF NextStart, Tokens

-----------------------------------------------------------------------------
(* No chunk has been cut. *)
LEMMA InitInv == Init => Inv
<1> SUFFICES ASSUME Init PROVE Inv
  OBVIOUS
<1>1. 1 \in Tokens
  BY ConfigAssumption DEF Tokens
<1>2. chunks = <<>> /\ chunks \in Seq(ChunkType) /\ DOMAIN chunks = {}
  BY DEF Init
<1> QED
  BY <1>1, <1>2 DEF Init, Inv, TypeOK, Windows, Resumes, GroupCovered

(* Every turn of the loop keeps the invariant. *)
LEMMA StepInv == Inv /\ [Next]_vars => Inv'
<1> SUFFICES ASSUME Inv, [Next]_vars PROVE Inv'
  OBVIOUS
<1>1. CASE UNCHANGED vars
  BY <1>1 DEF Inv, TypeOK, Windows, Resumes, GroupCovered, vars, WindowEnd, EndsAt,
              BeforeTarget, Boundaries, ChunkType
<1>2. CASE Window
  <2> USE <1>2 DEF Inv
  <2>1. pc = "running" /\ UNCHANGED marks
    BY DEF Window
  <2>2. PICK e \in Tokens :
           /\ WindowEnd(start, e)
           /\ chunks' = Append(chunks,
                  [first |-> start, last |-> e, overlap |-> Repeated(start, e)])
           /\ pc' = IF e = Length THEN "done"
                    ELSE IF NextStart(start, e) > start THEN "running"
                         ELSE "raised"
           /\ start' = IF pc' = "running" THEN NextStart(start, e) ELSE start
    BY DEF Window
  <2> DEFINE old == Len(chunks)
             earlier == chunks[old]
             c == [first |-> start, last |-> e, overlap |-> Repeated(start, e)]
  <2>3. start \in Tokens /\ e \in Tokens /\ start <= e /\ Length \in Nat
    BY <2>2, WindowBounds, ConfigAssumption DEF TypeOK
  <2>4. chunks \in Seq(ChunkType) /\ old \in Nat /\ DOMAIN chunks = 1..old
    BY DEF TypeOK
  <2>5. chunks # <<>> =>
           /\ old >= 1 /\ old \in DOMAIN chunks /\ earlier \in ChunkType
           /\ earlier.first \in Tokens /\ earlier.last \in Tokens
           /\ WindowEnd(earlier.first, earlier.last)
           /\ earlier.last < Length
           /\ start = NextStart(earlier.first, earlier.last)
    <3> SUFFICES ASSUME chunks # <<>>
                 PROVE  /\ old >= 1 /\ old \in DOMAIN chunks /\ earlier \in ChunkType
                        /\ earlier.first \in Tokens /\ earlier.last \in Tokens
                        /\ WindowEnd(earlier.first, earlier.last)
                        /\ earlier.last < Length
                        /\ start = NextStart(earlier.first, earlier.last)
      OBVIOUS
    <3>1. old >= 1 /\ old \in DOMAIN chunks
      BY <2>4
    <3>2. earlier \in ChunkType
      BY <2>4, <3>1
    <3>3. WindowEnd(earlier.first, earlier.last)
      BY <3>1 DEF Windows
    <3> QED
      BY <2>1, <3>1, <3>2, <3>3 DEF Resumes, ChunkType
  <2>6. /\ chunks # <<>> => c.overlap = earlier.last + 1 - start
        /\ chunks = <<>> => c.overlap = 0
        /\ c.overlap \in Nat
    <3>1. CASE chunks = <<>>
      BY <3>1 DEF Repeated
    <3>2. CASE chunks # <<>>
      <4>1. /\ earlier.first <= earlier.last
            /\ earlier.first < start
            /\ start <= earlier.last + 1
        BY <2>5, <3>2, WindowBounds, NextStartBounds
      <4>2. earlier.last <= e
        BY <2>2, <2>3, <2>5, <3>2, <4>1, EndsMonotone
      <4> HIDE DEF earlier
      <4>3. Repeated(start, e) = earlier.last + 1 - start
        BY <2>3, <2>5, <3>2, <4>1, <4>2 DEF Repeated, Tokens, earlier
      <4> QED
        BY <2>3, <2>5, <3>2, <4>1, <4>3 DEF Tokens
    <3> QED
      BY <3>1, <3>2
  <2>7. c \in ChunkType
    BY <2>3, <2>6 DEF ChunkType
  <2>8. /\ c.first = start /\ c.last = e
    OBVIOUS
  <2> HIDE DEF c, earlier
  <2>9. /\ chunks' \in Seq(ChunkType)
        /\ Len(chunks') = old + 1 /\ DOMAIN chunks' = 1..(old + 1)
        /\ chunks'[old + 1] = c
        /\ \A n \in 1..old : chunks'[n] = chunks[n]
    BY <2>2, <2>4, <2>7 DEF c
  <2>10. \A s, x : WindowEnd(s, x)' <=> WindowEnd(s, x)
    BY <2>1 DEF WindowEnd, EndsAt, BeforeTarget, Boundaries
  <2>11. TypeOK'
    <3>1. pc' = "running" => start' \in Tokens
      BY <2>2, <2>3, NextStartBounds DEF Tokens
    <3> QED
      BY <2>1, <2>2, <2>3, <2>9, <3>1 DEF TypeOK, ChunkType
  <2>12. Windows'
    <3>1. \A n \in DOMAIN chunks' :
             WindowEnd(chunks'[n].first, chunks'[n].last)
      BY <2>2, <2>4, <2>8, <2>9 DEF Windows
    <3>2. ASSUME NEW n \in DOMAIN chunks', n > 1
          PROVE  /\ chunks'[n - 1].last < Length
                 /\ chunks'[n].first
                      = NextStart(chunks'[n - 1].first, chunks'[n - 1].last)
                 /\ chunks'[n].overlap
                      = chunks'[n - 1].last + 1 - chunks'[n].first
      <4>1. CASE n \in 1..old
        <5>1. n - 1 \in 1..old /\ chunks'[n] = chunks[n]
                               /\ chunks'[n - 1] = chunks[n - 1]
          BY <2>4, <2>9, <3>2, <4>1
        <5> QED
          BY <2>4, <3>2, <4>1, <5>1 DEF Windows
      <4>2. CASE n = old + 1
        <5>1. old >= 1 /\ chunks # <<>> /\ chunks'[n] = c
              /\ chunks'[n - 1] = earlier
          BY <2>4, <2>9, <3>2, <4>2 DEF earlier
        <5> QED
          BY <2>5, <2>6, <2>8, <5>1
      <4> QED
        BY <2>4, <2>9, <4>1, <4>2
    <3>3. \A n \in DOMAIN chunks' : n = 1 => chunks'[n].overlap = 0
      <4>1. CASE old = 0
        BY <2>4, <2>6, <2>9, <4>1
      <4>2. CASE old # 0
        BY <2>4, <2>9, <4>2 DEF Windows
      <4> QED
        BY <4>1, <4>2
    <3> QED
      BY <2>10, <3>1, <3>2, <3>3 DEF Windows, NextStart
  <2>13. Resumes'
    <3>1. pc' = "running" => e < Length /\ start' = NextStart(start, e)
      BY <2>2, <2>3 DEF Tokens
    <3>2. pc' \in {"running", "done"} /\ (pc' = "done" => e = Length)
      <4>1. CASE e = Length
        BY <2>2, <4>1
      <4>2. CASE e # Length
        <5>1. start < NextStart(start, e) /\ NextStart(start, e) \in Tokens
          BY <2>3, <4>2, NextStartBounds DEF Tokens
        <5> QED
          BY <2>2, <2>3, <4>2, <5>1 DEF Tokens
      <4> QED
        BY <4>1, <4>2
    <3>3. chunks'[1].first = 1
      <4>1. CASE old = 0
        BY <2>4, <2>8, <2>9, <4>1 DEF Resumes
      <4>2. CASE old # 0
        BY <2>4, <2>9, <4>2 DEF Resumes, GroupCovered
      <4> QED
        BY <4>1, <4>2
    <3>4. chunks' # <<>> /\ chunks'[Len(chunks')].last = e
      BY <2>4, <2>8, <2>9
    <3> QED
      BY <2>4, <2>8, <2>9, <3>1, <3>2, <3>3, <3>4
      DEF Resumes, GroupCovered, NextStart
  <2> QED
    BY <2>11, <2>12, <2>13
<1> QED
  BY <1>1, <1>2 DEF Next

(* Each chunk is the window of its first token. *)
LEMMA ChunkIsWindow ==
    ASSUME Inv, NEW n \in DOMAIN chunks
    PROVE  /\ chunks[n].first \in Tokens /\ chunks[n].last \in Tokens
           /\ WindowEnd(chunks[n].first, chunks[n].last)
<1>1. chunks[n] \in ChunkType
  BY DEF Inv, TypeOK
<1> QED
  BY <1>1 DEF Inv, Windows, ChunkType

(* The invariant holds of every group of tokens. *)
LEMMA Invariance == Spec => []Inv
  BY InitInv, StepInv, PTL DEF Spec

-----------------------------------------------------------------------------
(* Whatever the boundaries and sizes, the chunks cover the group, each     *)
(* fits the hard maximum, and what it declares to repeat is the end of the *)
(* chunk before it; the loop never raises for want of progress.            *)
THEOREM RepeatsItsPredecessor == Spec => []OverlapIsShared
<1>1. Inv => OverlapIsShared
  <2> SUFFICES ASSUME Inv, NEW n \in DOMAIN chunks
               PROVE  /\ chunks[n].last - chunks[n].first + 1 <= Hard
                      /\ chunks[n].overlap <= Overlap
                      /\ n > 1 => Repeats(n)
    BY DEF OverlapIsShared, Inv, Resumes
  <2> DEFINE a == chunks[n - 1]
             b == chunks[n]
  <2>1. b.first \in Tokens /\ b.last \in Tokens /\ WindowEnd(b.first, b.last)
    BY ChunkIsWindow
  <2>2. CASE n = 1
    BY <2>1, <2>2, WindowBounds, ConfigAssumption DEF Inv, Windows
  <2>3. CASE n > 1
    <3>1. n - 1 \in DOMAIN chunks
      BY <2>3 DEF Inv, TypeOK
    <3>2. a.first \in Tokens /\ a.last \in Tokens /\ WindowEnd(a.first, a.last)
      BY <3>1, ChunkIsWindow
    <3>3. /\ a.last < Length
          /\ b.first = NextStart(a.first, a.last)
          /\ b.overlap = a.last + 1 - b.first
      BY <2>3 DEF Inv, Windows
    <3>4. /\ a.first < b.first /\ b.first <= a.last + 1
          /\ a.last + 1 - b.first <= Overlap
      BY <3>2, <3>3, WindowBounds, NextStartBounds
    <3>5. a.last <= b.last
      BY <2>1, <3>2, <3>4, EndsMonotone
    <3> QED
      BY <2>1, <3>3, <3>4, <3>5, WindowBounds DEF Repeats
  <2> QED
    BY <2>2, <2>3 DEF Inv, TypeOK
<1> QED
  BY <1>1, Invariance, PTL

(* Two consecutive chunks: how far apart they start and end. *)
LEMMA NextChunk ==
    ASSUME Inv, NEW n \in DOMAIN chunks, n > 1
    PROVE  LET a == chunks[n - 1]
               b == chunks[n]
           IN /\ n - 1 \in DOMAIN chunks
              /\ a.first \in Tokens /\ a.last \in Tokens
              /\ b.first \in Tokens /\ b.last \in Tokens
              /\ a.first < b.first /\ a.last < Length
              /\ b.overlap = a.last + 1 - b.first
              /\ b.first <= a.last + 1 /\ a.last + 1 - b.first <= Overlap
              /\ a.last = Length \/ a.first + Half <= a.last
              /\ b.last = Length \/ b.first + Half <= b.last
              /\ b.first <= b.last /\ b.last - b.first + 1 <= Hard
<1> DEFINE a == chunks[n - 1]
           b == chunks[n]
<1>1. n - 1 \in DOMAIN chunks
  BY DEF Inv, TypeOK
<1>2. /\ a.first \in Tokens /\ a.last \in Tokens /\ WindowEnd(a.first, a.last)
      /\ b.first \in Tokens /\ b.last \in Tokens /\ WindowEnd(b.first, b.last)
  BY <1>1, ChunkIsWindow
<1>3. /\ a.last < Length /\ b.first = NextStart(a.first, a.last)
      /\ b.overlap = a.last + 1 - b.first
  BY DEF Inv, Windows
<1> HIDE DEF a, b
<1>4. /\ a.first <= a.last /\ (a.last = Length \/ a.first + Half <= a.last)
      /\ b.first <= b.last /\ (b.last = Length \/ b.first + Half <= b.last)
      /\ b.last - b.first + 1 <= Hard
  BY <1>2, WindowBounds
<1>5. a.first < b.first /\ b.first <= a.last + 1 /\ a.last + 1 - b.first <= Overlap
  BY <1>2, <1>3, <1>4, NextStartBounds
<1> QED
  BY <1>1, <1>2, <1>3, <1>4, <1>5 DEF a, b

(* A chunk ends after the one before it. *)
EveryChunkIsNew ==
    \A n \in DOMAIN chunks : n > 1 => chunks[n - 1].last < chunks[n].last

(* No chunk lies within the one before it, provided half of the target is  *)
(* more than the overlap; the widest heading context the settings allow    *)
(* does not leave that much.                                               *)
LEMMA InvNew ==
    ASSUME Inv, Target \div 2 > Overlap
    PROVE  EveryChunkIsNew
<1> SUFFICES ASSUME NEW n \in DOMAIN chunks, n > 1
             PROVE  chunks[n - 1].last < chunks[n].last
  BY DEF EveryChunkIsNew
<1>1. Half \in Nat /\ Half >= Overlap
  BY HalfBounds, ConfigAssumption DEF Half
<1> QED
  BY <1>1, NextChunk, ConfigAssumption DEF Tokens

(* So every chunk adds to the text, in every step. *)
THEOREM NoChunkWithinAnother ==
    ASSUME Target \div 2 > Overlap
    PROVE  Spec => []EveryChunkIsNew
<1>1. Inv => EveryChunkIsNew
  BY InvNew
<1> QED
  BY <1>1, Invariance, PTL

(* What the Context Builder relies on when it trims overlaps and budgets a *)
(* selection (LaidOut of MCAnswering, with Hard for its limit).            *)
OnlyNeighboursOverlap ==
    \A n \in DOMAIN chunks :
      /\ chunks[n].first + chunks[n].overlap <= chunks[n].last
      /\ chunks[n].last + 1 <= chunks[n].first + Hard
      /\ n > 1 =>
           /\ chunks[n - 1].first <= chunks[n].first
           /\ chunks[n - 1].last + 1 = chunks[n].first + chunks[n].overlap
      /\ \A m \in 1 .. n - 2 : chunks[m].last < chunks[n].first

(* Half of the target at least twice the overlap, as the settings' default *)
(* values leave it with the widest default heading context: then a chunk   *)
(* overlaps with the one before it and with no earlier one.                *)
THEOREM ChunksAreLaidOut ==
    ASSUME Target \div 2 >= 2 * Overlap
    PROVE  Spec => []OnlyNeighboursOverlap
<1>1. Target \div 2 > Overlap /\ Half \in Nat /\ Half + 1 >= 2 * Overlap
  BY HalfBounds, ConfigAssumption DEF Half
<1>2. ASSUME Inv
      PROVE  OnlyNeighboursOverlap
  <2>1. chunks \in Seq(ChunkType)
    BY <1>2 DEF Inv, TypeOK
  <2>2. ASSUME NEW n \in DOMAIN chunks, n > 2
        PROVE  chunks[n - 2].last < chunks[n].first
    <3>1. n > 1 /\ n - 1 \in DOMAIN chunks /\ n - 1 > 1 /\ (n - 1) - 1 = n - 2
      BY <2>1, <2>2
    <3>2. /\ chunks[n - 1].last < Length
          /\ chunks[n - 1].last = Length \/ chunks[n - 1].first + Half <= chunks[n - 1].last
          /\ chunks[n - 1].last + 1 - chunks[n].first <= Overlap
          /\ chunks[n].first \in Tokens /\ chunks[n - 1].last \in Tokens
          /\ chunks[n - 1].first \in Tokens
      <4>1. n > 1
        BY <3>1
      <4> QED
        BY <1>2, <2>2, <4>1, NextChunk
    <3>3. /\ chunks[n - 2].last + 1 - chunks[n - 1].first <= Overlap
          /\ chunks[n - 2].last \in Tokens
      BY <1>2, <3>1, NextChunk
    <3> QED
      BY <1>1, <3>2, <3>3, ConfigAssumption DEF Tokens
  <2> DEFINE After(n) == n \in DOMAIN chunks =>
                           \A m \in 1 .. n - 2 : chunks[m].last < chunks[n].first
             Good == {n \in Nat : After(n)}
  <2>3. Good = Nat
    <3>1. After(0)
      OBVIOUS
    <3>2. ASSUME NEW n \in Nat, After(n)
          PROVE  After(n + 1)
      <4> SUFFICES ASSUME n + 1 \in DOMAIN chunks, NEW m \in 1 .. (n + 1) - 2
                   PROVE  chunks[m].last < chunks[n + 1].first
        OBVIOUS
      <4>1. n + 1 > 2 /\ (n + 1) - 1 = n /\ (n + 1) - 2 = n - 1 /\ n \in DOMAIN chunks
        BY <2>1
      <4>2. CASE m = n - 1
        BY <2>2, <4>1, <4>2
      <4>3. CASE m # n - 1
        <5>1. m \in 1 .. n - 2 /\ m \in DOMAIN chunks
          BY <2>1, <4>1, <4>3
        <5>2. chunks[m].last < chunks[n].first
          BY <3>2, <4>1, <5>1
        <5>3. /\ chunks[n].first < chunks[n + 1].first
              /\ chunks[n].first \in Tokens /\ chunks[n + 1].first \in Tokens
          BY <1>2, <4>1, NextChunk
        <5>4. chunks[m].last \in Tokens
          BY <1>2, <5>1, ChunkIsWindow
        <5> QED
          BY <5>2, <5>3, <5>4, ConfigAssumption DEF Tokens
      <4> QED
        BY <4>2, <4>3
    <3> HIDE DEF After
    <3>3. Good \in SUBSET Nat /\ 0 \in Good /\ \A n \in Good : n + 1 \in Good
      BY <3>1, <3>2
    <3> HIDE DEF Good
    <3> QED
      BY <3>3, AllNumbers
  <2>4. ASSUME NEW n \in DOMAIN chunks, n > 1
        PROVE  /\ chunks[n].first + chunks[n].overlap <= chunks[n].last
               /\ chunks[n].last + 1 <= chunks[n].first + Hard
               /\ chunks[n - 1].first <= chunks[n].first
               /\ chunks[n - 1].last + 1 = chunks[n].first + chunks[n].overlap
    <3>1. chunks[n - 1].last < chunks[n].last
      BY <1>1, <1>2, <2>4, InvNew DEF EveryChunkIsNew
    <3> QED
      BY <1>2, <2>4, <3>1, NextChunk, ConfigAssumption DEF Tokens
  <2>5. ASSUME NEW n \in DOMAIN chunks, n = 1
        PROVE  /\ chunks[n].first + chunks[n].overlap <= chunks[n].last
               /\ chunks[n].last + 1 <= chunks[n].first + Hard
    <3>1. chunks[n].overlap = 0
      BY <1>2, <2>5 DEF Inv, Windows
    <3>2. /\ chunks[n].first \in Tokens /\ chunks[n].last \in Tokens
          /\ WindowEnd(chunks[n].first, chunks[n].last)
      BY <1>2, ChunkIsWindow
    <3> QED
      BY <3>1, <3>2, WindowBounds, ConfigAssumption DEF Tokens
  <2>6. \A n \in DOMAIN chunks : n \in Nat /\ (n = 1 \/ n > 1)
    BY <2>1
  <2>7. \A n \in DOMAIN chunks : \A m \in 1 .. n - 2 : chunks[m].last < chunks[n].first
    BY <2>3, <2>6
  <2> HIDE DEF After, Good
  <2> QED
    BY <2>4, <2>5, <2>6, <2>7 DEF OnlyNeighboursOverlap
<1> QED
  BY <1>2, Invariance, PTL
=============================================================================
