-------------------------- MODULE WorkflowLifecycle --------------------------
(***************************************************************************)
(* What happens to a workflow from outside a reconcile tick: the lifecycle *)
(* operations of engine/lifecycle.ts, the approval decision and the paused *)
(* edit of store.ts, the agent runs themselves, and the clock.             *)
(*                                                                         *)
(* startWorkflow, pauseWorkflow, resumeWorkflow, renameWorkflowCas and     *)
(* markManualDone take no advisory lock; each ends in one compare-and-set  *)
(* that fails if the row moved since it was read, so each is one step.     *)
(* cancelWorkflow, decideWorkflowApproval and updateWorkflowDraftSpec take *)
(* the lock and are one step while nobody else holds it.                   *)
(***************************************************************************)
EXTENDS WorkflowReconciler

(* The advisory lock is free.                                              *)
Unlocked == tx.holder = NoOne

StatusChange(from, to) ==
  /\ wf.status \in from
  /\ WriteWorkflow(to)
  /\ UNCHANGED <<task, title, due, opens, aged, attempts, lease, approval, locals>>

startWorkflow == StatusChange({"draft"}, "active")

(* Bounded by MaxVersion: a user could pause and resume forever.           *)
pauseWorkflow == wf.ver < MaxVersion /\ StatusChange({"active"}, "paused")

resumeWorkflow == StatusChange({"paused"}, "active")

(* A rename is allowed in any status and moves only lock_version.          *)
renameWorkflowCas ==
  /\ wf.ver < MaxVersion
  /\ WriteWorkflow(wf.status)
  /\ UNCHANGED <<task, title, due, opens, aged, attempts, lease, approval, locals>>

(* The stamp a cancel puts on an undecided approval.                       *)
Invalidated(a) == [status |-> a.status, solicited |-> a.solicited,
                   invalidated |-> TRUE, hash |-> a.hash]

cancelWorkflow ==
  LET torn == {t \in Tasks : task[t] \in Cancellable}
  IN  /\ Unlocked
      /\ wf.status \in {"active", "paused"}
      /\ WriteWorkflow("cancelled")
      /\ kill' = [kill EXCEPT ![Web] = PersistedChildren]
      /\ task' = [t \in Tasks |-> IF t \in torn THEN "cancelled" ELSE task[t]]
      /\ Touch(torn)
      /\ approval' = [t \in Gated |->
           IF approval[t].status = "pending"
           THEN Invalidated(approval[t]) ELSE approval[t]]
      /\ lease' = [t \in Tasks |-> Released(t)]
      /\ UNCHANGED <<title, due, opens, attempts, tx, pc, polled, claim, outbox,
                     sent, crashes>>

(* The side effects of cancelWorkflow after its commit.                    *)
CancelCollected == \E k \in kill[Web], ok \in BOOLEAN : StopRun(Web, k, ok)

WebCrash ==
  /\ kill[Web] # {} /\ crashes < MaxCrashes
  /\ crashes' = crashes + 1
  /\ kill' = [kill EXCEPT ![Web] = {}]
  /\ UNCHANGED <<rows, tx, pc, polled, claim, outbox, sent>>

CompletableManually(t) == Type[t] = "manual" /\ task[t] = "running"

(* The attempt row of the manual task stays running.                       *)
markManualDone(t) ==
  /\ CompletableManually(t)
  /\ task' = [task EXCEPT ![t] = "succeeded"]
  /\ Touch({t})
  /\ UNCHANGED <<wf, title, due, opens, attempts, lease, approval, locals>>

Decidable(t) == /\ approval[t].status = "pending"
                /\ ~approval[t].invalidated
                /\ approval[t].solicited

\* Faulty variant: the approver's word is stored instead of the status.
DecisionStatusRaw(t, decision) == decision

DecisionStatus(t, decision) ==
  CASE decision = "approved" -> "granted"
    [] decision = "rejected" /\ RejectionPolicy[t] = "needs_revision" -> "needs_revision"
    [] OTHER -> "rejected"

Decided(a, status) == [status |-> status, solicited |-> a.solicited,
                       invalidated |-> a.invalidated, hash |-> a.hash]

decideWorkflowApproval(t, decision) ==
  /\ Unlocked
  /\ Decidable(t)
  /\ approval' = [approval EXCEPT ![t] = Decided(@, DecisionStatus(t, decision))]
  /\ UNCHANGED <<wf, task, title, due, opens, aged, attempts, lease, locals>>

(* A task with evidence keeps its execution identity and its due date.     *)
Frozen(t) ==
  \/ attempts[t] # << >>
  \/ task[t] \notin {"idle", "scheduled"}
  \/ t \in Gated /\ (\/ approval[t].status # "pending" \/ approval[t].invalidated
                     \/ approval[t].solicited)

(* The schedule is resolved again: what is not frozen may move, being      *)
(* anchored on a task whose due date a retry pushed back.                  *)
Rescheduled(dates, solicitations) ==
  /\ \A t \in Tasks : Frozen(t) => dates[t] = due[t] /\ solicitations[t] = opens[t]
  /\ \A t \in Tasks \ Gated : solicitations[t]

(* The rows rewritten for the edit that is never frozen, new titles: every *)
(* task row is written and each open approval whose review packet changed  *)
(* is reopened at once.                                                    *)
diffApplySpecRows(titles) ==
  /\ title' = titles
  /\ approval' = Reopened(titles)
  /\ \E dates, solicitations \in [Tasks -> BOOLEAN] :
       /\ Rescheduled(dates, solicitations)
       /\ due' = dates /\ opens' = solicitations
  /\ Touch(Tasks)
  /\ UNCHANGED <<task, attempts, lease>>

(* updateWorkflowDraftSpec on a paused workflow.                           *)
updatePausedSpec(t, newTitle) ==
  /\ Unlocked
  /\ wf.status = "paused" /\ wf.ver < MaxVersion
  /\ WriteWorkflow(wf.status)
  /\ diffApplySpecRows([title EXCEPT ![t] = newTitle])
  /\ UNCHANGED locals

-----------------------------------------------------------------------------
(* The agents package: an enqueued run ends one way or the other.          *)
RunEnds(t, n, how) ==
  /\ n \in DOMAIN attempts[t] /\ attempts[t][n].run = "live"
  /\ how \in {"completed", "failed"}
  /\ attempts' = SetRun(t, n, how)
  /\ UNCHANGED <<wf, task, title, due, opens, aged, lease, approval, locals>>

-----------------------------------------------------------------------------
(* The clock.                                                              *)

DueArrives(t) ==
  /\ ~due[t]
  /\ due' = [due EXCEPT ![t] = TRUE]
  /\ UNCHANGED <<wf, task, title, opens, aged, attempts, lease, approval, locals>>

SolicitationArrives(t) ==
  /\ ~opens[t]
  /\ opens' = [opens EXCEPT ![t] = TRUE]
  /\ UNCHANGED <<wf, task, title, due, aged, attempts, lease, approval, locals>>

(* Nobody wrote the row for crashRecoveryMs; only running instantaneous    *)
(* tasks are asked for their age.                                          *)
RowAges(t) ==
  /\ task[t] = "running" /\ Type[t] \in INSTANTANEOUS_EXECUTOR_TYPES
  /\ ~aged[t] /\ Len(attempts[t]) < MaxRows
  /\ aged' = [aged EXCEPT ![t] = TRUE]
  /\ UNCHANGED <<wf, task, title, due, opens, attempts, lease, approval, locals>>

(* No heartbeat reached the lease for dispatchLeaseTtlMs.                  *)
LeaseExpires(t) ==
  /\ lease[t].token # NoOne /\ ~lease[t].expired
  /\ lease' = [lease EXCEPT ![t] = WithExpiry(@, TRUE)]
  /\ UNCHANGED <<wf, task, title, due, opens, aged, attempts, approval, locals>>

Clock == \E t \in Tasks : \/ DueArrives(t) \/ SolicitationArrives(t)
                          \/ RowAges(t) \/ LeaseExpires(t)

Users ==
  \/ startWorkflow \/ pauseWorkflow \/ resumeWorkflow \/ renameWorkflowCas
  \/ cancelWorkflow \/ CancelCollected \/ WebCrash
  \/ \E t \in Tasks : markManualDone(t)
  \/ \E t \in Gated, d \in {"approved", "rejected"} : decideWorkflowApproval(t, d)
  \/ \E t \in Tasks, x \in Titles : updatePausedSpec(t, x)

Runs == \E t \in Tasks : \E n \in DOMAIN attempts[t] :
          \E how \in {"completed", "failed"} : RunEnds(t, n, how)
=============================================================================
