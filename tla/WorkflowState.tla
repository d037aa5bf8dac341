---------------------------- MODULE WorkflowState ----------------------------
(***************************************************************************)
(* The pure decision functions of the workflow engine                      *)
(* (packages/workflows/src/state and engine/gate-eval.ts): the status      *)
(* enumerations, the per-edge dependency rule, the three gates, the        *)
(* effective readiness derived from them and the terminal roll-up.         *)
(* Reasons, blocker references and event payloads are display data and are *)
(* left out.                                                               *)
(***************************************************************************)
EXTENDS Naturals

TASK_STATUSES == {"idle", "scheduled", "pending_approval", "running",
                  "succeeded", "failed", "skipped", "cancelled"}

WORKFLOW_STATUSES == {"draft", "active", "paused", "completed", "cancelled",
                      "failed"}

ATTEMPT_STATUSES == {"pending", "running", "succeeded", "failed"}

APPROVAL_STATUSES == {"pending", "granted", "rejected", "needs_revision"}

DEPENDENCY_OUTCOMES == {"success", "skipped", "failed"}

(* WORKFLOW_TRANSITIONS and ATTEMPT_TRANSITIONS.                           *)
WORKFLOW_TRANSITIONS(from) ==
  CASE from = "draft"  -> {"active", "cancelled"}
    [] from = "active" -> {"paused", "completed", "failed", "cancelled"}
    [] from = "paused" -> {"active", "cancelled"}
    [] OTHER -> {}

ATTEMPT_TRANSITIONS(from) ==
  CASE from = "pending" -> {"running", "failed"}
    [] from = "running" -> {"succeeded", "failed"}
    [] OTHER -> {}

isTerminalTaskStatus(s) == s \in {"succeeded", "skipped", "cancelled", "failed"}

isTerminalWorkflowStatus(s) == s \in {"completed", "cancelled", "failed"}

-----------------------------------------------------------------------------
(* Dependency edges.                                                       *)

\* Faulty variant: a skipped upstream counts as a success.
SatisfiedByLax(outcome) ==
  IF outcome = "failed" THEN {"failed"} ELSE {"succeeded", "skipped"}

(* The upstream statuses that satisfy an edge; every other terminal status *)
(* blocks it and every live status leaves it pending.                      *)
SatisfiedBy(outcome) ==
  CASE outcome = "success" -> {"succeeded"}
    [] outcome = "skipped" -> {"succeeded", "skipped"}
    [] outcome = "failed"  -> {"failed"}

resolveDependency(up, outcome) ==
  CASE up \in SatisfiedBy(outcome) -> "satisfied"
    [] isTerminalTaskStatus(up) /\ up \notin SatisfiedBy(outcome) -> "blocked"
    [] OTHER -> "pending"

\* Faulty variant: an edge that accepts a skip no longer accepts a success.
terminalUnmatchedStrict(up, outcome) ==
  \/ up = "failed" /\ outcome # "failed"
  \/ up = "skipped" /\ outcome = "success"
  \/ up = "succeeded" /\ outcome # "success"
  \/ up = "cancelled"

\* Faulty variant: a skip is not propagated.
terminalUnmatchedDirect(up, outcome) ==
  \/ up = "failed" /\ outcome # "failed"
  \/ up = "succeeded" /\ outcome = "failed"
  \/ up = "cancelled"

(* finalizeWorkflow has its own test for an edge that can never be         *)
(* satisfied any more; it is not the "blocked" of resolveDependency.       *)
terminalUnmatched(up, outcome) ==
  \/ up = "failed" /\ outcome # "failed"
  \/ up = "skipped" /\ outcome = "success"
  \/ up = "succeeded" /\ outcome = "failed"
  \/ up = "cancelled"

-----------------------------------------------------------------------------
(* Gates.                                                                  *)

timingGate(isDue) == IF isDue THEN "passed" ELSE "pending"

dependencyGate(resolutions) ==
  CASE "blocked" \in resolutions -> "blocked"
    [] "blocked" \notin resolutions /\ "pending" \in resolutions -> "pending"
    [] OTHER -> "passed"

approvalGate(hasApproval, status) ==
  CASE ~hasApproval -> "not_required"
    [] hasApproval /\ status = "granted" -> "passed"
    [] OTHER -> "pending"

passed(gate) == gate \in {"passed", "not_required"}

deriveEffectiveGateState(timing, dependency, approval) ==
  LET timingAndDepsOk == passed(timing) /\ passed(dependency)
  IN  CASE dependency = "blocked" -> "blocked"
        [] timingAndDepsOk /\ approval = "pending" -> "pending_approval"
        [] ~timingAndDepsOk /\ dependency # "blocked"
              /\ passed(approval) /\ passed(dependency) -> "scheduled"
        [] timingAndDepsOk /\ passed(approval) -> "dispatchable"
        [] OTHER -> "blocked"

-----------------------------------------------------------------------------
(* Roll-up of the task statuses into a workflow status.                    *)

\* Faulty variant: the failure policy of a failed task is not looked at.
rollUpAnyPolicy(status, required, policy) ==
  LET T == DOMAIN status
      allTerminal == \A t \in T : isTerminalTaskStatus(status[t])
  IN  CASE T = {} -> "active"
        [] T # {} /\ allTerminal -> "completed"
        [] OTHER -> "active"

rollUpWorkflowStatus(status, required, policy) ==
  LET T == DOMAIN status
      hasBlockingFailure == \E t \in T : /\ status[t] = "failed"
                                         /\ required[t]
                                         /\ policy[t] = "block"
      allTerminal == \A t \in T : isTerminalTaskStatus(status[t])
  IN  CASE T = {} -> "active"
        [] T # {} /\ hasBlockingFailure -> "failed"
        [] T # {} /\ ~hasBlockingFailure /\ allTerminal -> "completed"
        [] OTHER -> "active"
=============================================================================
