--------------------------- MODULE WorkflowLiveness ---------------------------
(***************************************************************************)
(* What the engine must eventually do.                                     *)
(*                                                                         *)
(* Fairness.  The repeatable job of ensureWorkflowEngine ticks for ever    *)
(* and a tick that is not blocked goes on (weak fairness of StartTick and  *)
(* TickStep); due dates, solicitation instants, lease expiries and crash   *)
(* thresholds are reached; an enqueued run ends.  Nothing is assumed of    *)
(* people: they may never answer, resume or complete anything.             *)
(*                                                                         *)
(* One timing assumption, taken from ENGINE_OPS: heartbeats are well under *)
(* the lease TTL and an instantaneous executor well under crashRecoveryMs, *)
(* so a dispatch only looks dead once nobody is dispatching it.  Without   *)
(* it two reconcilers could steal a dispatch from each other for ever.     *)
(***************************************************************************)
EXTENDS WorkflowEngine

Unattended(t) == \A r \in Reconcilers : claim[r][t].out = "none"

OnTime ==
  \A t \in Tasks : ~Unattended(t) =>
    /\ lease'[t].expired => lease[t].expired
    /\ aged'[t] => aged[t]

RunEventuallyEnds(t) ==
  \E n \in DOMAIN attempts[t], how \in {"completed", "failed"} : RunEnds(t, n, how)

Fairness ==
  /\ \A r \in Reconcilers : WF_vars(StartTick(r)) /\ WF_vars(TickStep(r))
  /\ \A t \in Tasks :
       /\ WF_vars(DueArrives(t))
       /\ WF_vars(SolicitationArrives(t))
       /\ WF_vars(Unattended(t) /\ RowAges(t))
       /\ WF_vars(Unattended(t) /\ LeaseExpires(t))
       /\ WF_vars(RunEventuallyEnds(t))

FairSpec == Init /\ [][Next /\ OnTime]_vars /\ Fairness

(* Somebody has to act before the workflow can go on: it is paused, a      *)
(* manual task is under way, or an approval is open or was sent back.      *)
WaitsForPerson ==
  \/ wf.status = "paused"
  \/ \E t \in Tasks : Type[t] = "manual" /\ task[t] = "running"
  \/ \E t \in Gated : /\ ~isTerminalTaskStatus(task[t])
                      /\ Decidable(t) \/ approval[t].status = "needs_revision"

(* An active workflow is never stuck: it ends or asks a person, whatever   *)
(* crashes, failed runs, retries and skipped branches it goes through.     *)
Progress == wf.status = "active" ~> isTerminalWorkflowStatus(wf.status) \/ WaitsForPerson

(* A dispatch never hangs: a running task that awaits no person is settled *)
(* or its workflow leaves the active state, also when its dispatcher       *)
(* crashed before the run was created, before it was enqueued or before    *)
(* the outcome was recorded.                                               *)
DispatchSettles ==
  \A t \in Tasks : Type[t] # "manual" =>
    (task[t] = "running" ~> task[t] # "running" \/ wf.status # "active")

(* "a crash after the decision can never strand the workflow"              *)
(* (applyRejectedApprovalPolicies): a rejection under the skip or cancel   *)
(* policy takes effect.                                                    *)
RejectionTakesEffect ==
  \A t \in Gated :
    (approval[t].status = "rejected" ~>
       wf.status # "active" \/ (RejectionPolicy[t] = "skip" /\ isTerminalTaskStatus(task[t])))
=============================================================================
