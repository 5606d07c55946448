------------------------- MODULE MCDocumentIndexing -------------------------
(***************************************************************************)
(* Two calls at a time for two versions of a document, in server processes *)
(* set up with one or two embedding identities.                            *)
(***************************************************************************)
EXTENDS DocumentIndexing, TLC

CONSTANTS c1, c2, bge, other

AnyCall == Permutations(Calls) \cup Permutations(Identities)
=============================================================================
