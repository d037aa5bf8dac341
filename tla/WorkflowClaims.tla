---------------------------- MODULE WorkflowClaims ----------------------------
(***************************************************************************)
(* Statements that comments and tests of the repository make about the     *)
(* engine and that the code does not keep.  Each is the property of one    *)
(* claim_*.cfg, whose counterexample is described in README.md.            *)
(***************************************************************************)
EXTENDS WorkflowLiveness

(* "a non-terminal task with a permanently unsatisfiable dependency        *)
(* (upstream terminal-unmatched) is skipped" (finalizeWorkflow).           *)
UnsatisfiableIsSkipped ==
  \A e \in Deps :
    (wf.status = "active" /\ isTerminalTaskStatus(task[e.on]) /\ ~EdgeHolds(e)
       ~> isTerminalTaskStatus(task[e.task]) \/ wf.status # "active")

(* "a `skip`-policy or optional failure does not block completion"         *)
(* (rollUpWorkflowStatus): a workflow fails only through a required task.  *)
OptionalFailureDoesNotBlock ==
  wf.status = "failed" =>
    \E t \in Tasks : task[t] = "failed" /\ Required[t] /\ FailurePolicy[t] = "block"

(* "a terminal workflow has no live dispatch" (finalizeWorkflow).          *)
TerminalHasNoLiveDispatch ==
  wf.status \in {"completed", "failed"} =>
    \A r \in Reconcilers, t \in Tasks : claim[r][t].out \notin {"dispatching", "created"}

(* "this resolves to the existing child run (or creates the one the crash  *)
(* prevented), never a duplicate" (claimReadyTasks): a task never has two  *)
(* runs under way.                                                         *)
NeverADuplicate ==
  \A t \in Tasks : \A m, n \in DOMAIN attempts[t] :
    attempts[t][m].run = "live" /\ attempts[t][n].run = "live" => m = n

(* "cancelChildRun MUST be idempotent and tolerant of an already-terminal  *)
(* child run" (cancelWorkflow): a run that ended keeps its status.         *)
EndedRunIsKept ==
  [][\A t \in Tasks : \A n \in DOMAIN attempts[t] :
       attempts[t][n].run \in {"completed", "failed"} =>
         attempts'[t][n].run = attempts[t][n].run]_vars

(* "A CONSUMED (terminal) approval task is settled history - never reopen  *)
(* it" (diffApplySpecRows): the approval of a task that went through is    *)
(* not waiting for a decision.                                             *)
ConsumedIsSettled ==
  \A t \in Gated : task[t] = "succeeded" => approval[t].status # "pending"
=============================================================================
