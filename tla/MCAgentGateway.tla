-------------------------- MODULE MCAgentGateway --------------------------
(***************************************************************************)
(* Small instances of AgentGateway: one process whose event loop two calls *)
(* share.  MCServerProcesses has two processes.                            *)
(***************************************************************************)
EXTENDS AgentGateway, TLC

CONSTANTS r1, r2, r3, h1, h2, p1, p2, i1, i2, a, b, direct

OneProcess == [h \in Handlers |-> p1]

SameProcess ==
  Permutations(Requests) \cup Permutations(Handlers) \cup Permutations(Roots)
===========================================================================
