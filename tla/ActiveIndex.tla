---------------------------- MODULE ActiveIndex ----------------------------
(***************************************************************************)
(* What indexing promises the readers of one document: they are served     *)
(* one complete index set of one version, a set is served from the moment  *)
(* it is complete, and the served version is never replaced by an older    *)
(* one.  Every set is published at most once.                              *)
(***************************************************************************)
EXTENDS Naturals

CONSTANTS Versions, Identities

VARIABLES
  published,  \* the complete index sets, as pairs of version and identity
  served      \* the pair readers are served, or <<>>

indexVars == <<published, served>>

Init == published = {} /\ served = <<>>

Publish(v, e) ==
  /\ <<v, e>> \notin published
  /\ served = <<>> \/ served[1] <= v
  /\ published' = published \cup {<<v, e>>}
  /\ served' = <<v, e>>

Next == \E v \in Versions, e \in Identities : Publish(v, e)

Spec == Init /\ [][Next]_indexVars
=============================================================================
