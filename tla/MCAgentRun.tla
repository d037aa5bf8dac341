----------------------------- MODULE MCAgentRun -----------------------------
(***************************************************************************)
(* The instance of AgentRun for TLC.                                       *)
(***************************************************************************)
EXTENDS AgentRun, TLC

Symmetry == Permutations(Clients)

\* Two states are the same for the safety properties when they differ only in
\* what no later step looks at: how a finished job ended, and what an idle
\* handler or a worker past its second statement last carried.
SafetyView ==
    <<row, triggers, ops, at, wat, crashes, spent,
      [c \in Clients |-> IF at[c] = "idle" THEN << >> ELSE <<op[c], seen[c]>>],
      [id \in JobIds |-> IF jobs[id] \in Finished THEN "kept" ELSE jobs[id]],
      [id \in JobIds |-> IF wat[id] = "rewrite" THEN wseen[id] ELSE "none"]>>
=============================================================================
