------------------------- MODULE MCAgentBudgetTree -------------------------
(***************************************************************************)
(* A small instance of AgentBudgetTree: two children over a depth of two,  *)
(* one more evidence id than the root admits, a root that starts afresh or *)
(* resumes with part of its budget spent, and grants that just fit, so     *)
(* that every refusal can happen.                                          *)
(***************************************************************************)
EXTENDS AgentBudgetTree, FiniteSetsExt

CONSTANTS root, c1, c2, t1, t2, e1, e2, e3, s1

Cap(m, t, i, o, e) ==
  [model_calls |-> m, tool_calls |-> t, input_tokens |-> i,
   output_tokens |-> o, evidence |-> e]
Used(m, t, i, o) ==
  [model_calls |-> m, tool_calls |-> t, input_tokens |-> i, output_tokens |-> o]

MCRootLimits ==
  [cap |-> Cap(2, 2, 1, 1, 2), tasks |-> 1, delegations |-> 3, depth |-> 2,
   timeout |-> 3]
MCWorkerLimits ==
  { [cap |-> Cap(1, 1, 1, 0, 1), repeat |-> 1, timeout |-> 2],
    [cap |-> Cap(1, 2, 0, 1, 2), repeat |-> 1, timeout |-> 1] }
MCRestores ==
  { [used |-> Used(0, 0, 0, 0), evidence |-> {}, tasks |-> {},
     delegations |-> 0, duration |-> 0, signatures |-> [s \in {s1} |-> 0]],
    [used |-> Used(1, 1, 0, 0), evidence |-> {e1}, tasks |-> {t1},
     delegations |-> 1, duration |-> 1, signatures |-> [s \in {s1} |-> 1]] }
MCTasks == {t1, t2}
MCEvidence == {e1, e2, e3}
MCChildren == {c1, c2}

\* The slots count what the code's sum adds up, for every small grant and use.
ASSUME SlotsAreTheSum ==
  \A open \in SUBSET {1, 2}, cap, used \in [{1, 2} -> 0..2] :
    (\A c \in open : used[c] <= cap[c]) =>
      Cardinality({s \in {1, 2} \X (1..2) : s[1] \in open /\ used[s[1]] < s[2]
                                               /\ s[2] <= cap[s[1]]})
        = MapThenSumSet(LAMBDA c : cap[c] - used[c], open)
=============================================================================
