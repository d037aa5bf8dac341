--------------------------- MODULE MCWorkflowEngine ---------------------------
(***************************************************************************)
(* Workflow instances for TLC.  A .cfg picks one of the graphs below for   *)
(* the constants of WorkflowEngine.                                        *)
(***************************************************************************)
EXTENDS WorkflowClaims, WorkflowRefinement, TLC

Edge(t, on, outcome) == [task |-> t, on |-> on, outcome |-> outcome]

AllRequired == [t \in Tasks |-> TRUE]
AllBlock    == [t \in Tasks |-> "block"]
AllSkip     == [t \in Tasks |-> "skip"]
AllRevise   == [t \in Tasks |-> "needs_revision"]
OneAttempt  == [t \in Tasks |-> 1]
TwoAttempts == [t \in Tasks |-> 2]

(* Reconcilers are interchangeable.                                        *)
ReconcilerSymmetry == Permutations(Reconcilers)

(* An agent run whose result a checkpoint waits for.                       *)
ChainType == [t \in Tasks |-> IF t = "agent" THEN "agent_task" ELSE "checkpoint"]
ChainDeps == {Edge("check", "agent", "success")}

(* A document a person writes and another signs.                           *)
ReviewType == [t \in Tasks |-> IF t = "draft" THEN "manual" ELSE "approval"]
ReviewDeps == {Edge("sign", "draft", "success")}

(* Two reviewers with different rejection policies: one can only skip her  *)
(* branch, the other cancels the workflow.  The run behind the first may   *)
(* fail; the run that replaces it when she rejects may not.                *)
VetoType == [t \in Tasks |-> IF t \in {"skipper", "vetoer"} THEN "approval" ELSE "agent_task"]
VetoDeps == {Edge("ship", "skipper", "success"), Edge("replace", "skipper", "skipped")}
VetoPolicy == [t \in Tasks |-> IF t = "vetoer" THEN "cancel" ELSE "skip"]
ReplaceBlocks == [t \in Tasks |-> IF t = "replace" THEN "block" ELSE "skip"]

(* A failure that may be skipped; the other failures block.                *)
BranchPolicy == [t \in Tasks |-> IF t = "try" THEN "skip" ELSE "block"]

(* An agent run behind a sign-off that can skip it, and before one that    *)
(* can cancel the workflow.                                                *)
GateType == [t \in Tasks |-> IF t = "agent" THEN "agent_task" ELSE "approval"]
GateDeps == {Edge("agent", "skipper", "success"), Edge("vetoer", "agent", "skipped")}

(* A compensation of a task that is itself skipped.                        *)
OrphanType == [t \in Tasks |-> IF t = "try" THEN "agent_task" ELSE "checkpoint"]
OrphanDeps == {Edge("then", "try", "success"), Edge("undo", "then", "failed")}

(* Two agent runs side by side, one of them with a dependent.              *)
PairType == [t \in Tasks |-> IF t = "check" THEN "checkpoint" ELSE "agent_task"]
NoneRequired == [t \in Tasks |-> FALSE]
NoDeps == {}
=============================================================================
