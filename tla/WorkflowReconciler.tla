-------------------------- MODULE WorkflowReconciler --------------------------
(***************************************************************************)
(* One reconcile tick (engine/reconciler.ts, reconcileWorkflow) as the     *)
(* sequence of transactions it is, run by any number of reconcilers:       *)
(*                                                                         *)
(*   poll -> settle -> reject (-> teardown) -> stale                       *)
(*        -> claim -> dispatch -> claim -> ... -> finalize                 *)
(*        -> solicit -> notify                                             *)
(*                                                                         *)
(* Every phase but poll, dispatch, teardown and notify is a transaction    *)
(* under the advisory lock of the workflow.  BeginTx takes the lock and    *)
(* reads the workflow row; the phase's own action does the rest and        *)
(* commits.  Between the two only the writers that take no lock can act:   *)
(* pauseWorkflow, resumeWorkflow, startWorkflow, renameWorkflowCas and     *)
(* markManualDone.                                                         *)
(***************************************************************************)
EXTENDS WorkflowTables

Goto(r, phase) == pc' = [pc EXCEPT ![r] = phase]

Commit == tx' = NoTx

(* r is in the transaction of its phase.                                   *)
InTx(r, phase) == pc[r] = phase /\ tx.holder = r

\* Faulty variant: a phase runs whatever the status of the workflow.
SawAnyStatus == TRUE

SawActive == tx.status = "active"

BeginTx(r) ==
  /\ pc[r] \in {"settle", "reject", "stale", "claim", "finalize", "solicit"}
  /\ tx.holder = NoOne
  /\ tx' = [holder |-> r, status |-> wf.status, ver |-> wf.ver]
  /\ UNCHANGED <<rows, pc, polled, claim, kill, outbox, sent, crashes>>

(* A phase that finds the workflow not active commits nothing.             *)
SkipPhase(r, phase, next) ==
  /\ InTx(r, phase) /\ ~SawActive
  /\ Commit /\ Goto(r, next)
  /\ UNCHANGED <<rows, polled, claim, kill, outbox, sent, crashes>>

(* A database error in a phase that reconcileWorkflow guards with its own  *)
(* try/catch: the transaction rolls back and the tick goes on.  An error   *)
(* anywhere else ends the tick, which is a Crash of this tick.             *)
PhaseFails(r, phase, next) ==
  /\ InTx(r, phase) /\ crashes < MaxCrashes
  /\ crashes' = crashes + 1
  /\ polled' = [polled EXCEPT ![r] = {}]
  /\ Commit /\ Goto(r, next)
  /\ UNCHANGED <<rows, claim, kill, outbox, sent>>

\* Faulty variant: the update does not compare lock_version.
WorkflowCasUnchecked == TRUE

(* Compare-and-set on the lock_version the transaction read.               *)
WorkflowCas == tx.ver = wf.ver

WriteWorkflow(status) == wf' = [status |-> status, ver |-> wf.ver + 1]

(* A write to a task row refreshes updated_at.                             *)
Touch(T) == aged' = [t \in Tasks |-> aged[t] /\ t \notin T]

\* Faulty variant: the lease row is left behind.
ReleasedKept(t) == lease[t]

(* The lease row of t is deleted.                                          *)
Released(t) == NoLease

-----------------------------------------------------------------------------
(* Start of a tick; poll and settle: pollRunningAgentTasks.                *)

StartTick(r) ==
  /\ pc[r] = "off"
  /\ Goto(r, "poll")
  /\ UNCHANGED <<rows, tx, polled, claim, kill, outbox, sent, crashes>>

(* The child-run statuses worth settling, read outside the lock.  A failed *)
(* status read is the same as a run that has not finished yet.             *)
Resolved(t, n) ==
  /\ task[t] = "running" /\ Type[t] = "agent_task"
  /\ IsRunning(t, n) /\ attempts[t][n].child
  /\ \A m \in DOMAIN attempts[t] :
       m > n => ~(IsRunning(t, m) /\ attempts[t][m].child)
  /\ attempts[t][n].run \in {"completed", "failed", "stopped"}

PollRead(r) ==
  LET found == {k \in UNION {{t} \X DOMAIN attempts[t] : t \in Tasks} :
                  Resolved(k[1], k[2])}
  IN  /\ pc[r] = "poll"
      /\ polled' = [polled EXCEPT ![r] =
           {[task |-> k[1], no |-> k[2],
             failed |-> attempts[k[1]][k[2]].run # "completed"] : k \in found}]
      /\ Goto(r, IF found = {} THEN "reject" ELSE "settle")
      /\ UNCHANGED <<rows, tx, claim, kill, outbox, sent, crashes>>

\* Faulty variant: one attempt more than the budget.
HasRetryOffByOne(t, no) == no <= MaxAttempts[t]

(* applyTaskFailure: retry with backoff inside the budget, else give up.   *)
HasRetry(t, no) == no < MaxAttempts[t]

AfterFailure(t, no) == IF HasRetry(t, no) THEN "scheduled" ELSE "failed"

DeadLetters(F, no) ==
  {[kind |-> "task_failed", task |-> t] : t \in {u \in F : ~HasRetry(u, no[u])}}

(* The re-check under the lock: the task and the attempt are still live.   *)
StillPolled(p) ==
  /\ task[p.task] = "running"
  /\ IsRunning(p.task, p.no) /\ attempts[p.task][p.no].child

SettlePolled(r) ==
  LET live == {p \in polled[r] : StillPolled(p)}
      done == {p.task : p \in live}
      no   == [t \in done |-> (CHOOSE p \in live : p.task = t).no]
      bad  == {p.task : p \in {q \in live : q.failed}}
  IN  /\ InTx(r, "settle") /\ SawActive
      /\ attempts' = [t \in Tasks |->
           IF t \in done
           THEN [attempts[t] EXCEPT ![no[t]] =
                   WithStatus(@, IF t \in bad THEN "failed" ELSE "succeeded")]
           ELSE attempts[t]]
      /\ task' = [t \in Tasks |->
           CASE t \in done \ bad -> "succeeded"
             [] t \in bad -> AfterFailure(t, no[t])
             [] OTHER -> task[t]]
      /\ due' = [t \in Tasks |-> due[t] /\ ~(t \in bad /\ HasRetry(t, no[t]))]
      /\ Touch(done)
      /\ outbox' = [outbox EXCEPT ![r] = @ \cup DeadLetters(bad, no)]
      /\ polled' = [polled EXCEPT ![r] = {}]
      /\ Commit /\ Goto(r, "reject")
      /\ UNCHANGED <<wf, title, opens, lease, approval, claim, kill, sent, crashes>>

SettleInactive(r) ==
  /\ InTx(r, "settle") /\ ~SawActive
  /\ polled' = [polled EXCEPT ![r] = {}]
  /\ Commit /\ Goto(r, "reject")
  /\ UNCHANGED <<rows, claim, kill, outbox, sent, crashes>>

-----------------------------------------------------------------------------
(* applyRejectedApprovalPolicies and the teardown of collected child runs. *)

\* Faulty variant: only the skip policy of a rejection is honoured.
RejectedWithSkipOnly(policy) ==
  {t \in Gated : /\ approval[t].status = "rejected" /\ RejectionPolicy[t] = "skip"
                 /\ policy = "skip"}

RejectedWith(policy) ==
  {t \in Gated : approval[t].status = "rejected" /\ RejectionPolicy[t] = policy}

ApplyRejected(r) ==
  LET skips   == {t \in RejectedWith("skip") : ~isTerminalTaskStatus(task[t])}
      cancels == RejectedWith("cancel") # {} /\ WorkflowCas
      torn    == IF cancels
                 THEN {t \in Tasks \ skips : task[t] \in Cancellable} ELSE {}
  IN  /\ InTx(r, "reject") /\ SawActive
      /\ task' = [t \in Tasks |-> CASE t \in skips -> "skipped"
                                    [] t \in torn  -> "cancelled"
                                    [] OTHER       -> task[t]]
      /\ Touch(skips \cup torn)
      /\ IF cancels
         THEN /\ WriteWorkflow("cancelled")
              /\ lease' = [t \in Tasks |-> Released(t)]
              /\ kill' = [kill EXCEPT ![r] = PersistedChildren]
              /\ Goto(r, "teardown")
         ELSE /\ Goto(r, "stale")
              /\ UNCHANGED <<wf, lease, kill>>
      /\ Commit
      /\ UNCHANGED <<title, due, opens, attempts, approval, polled, claim,
                     outbox, sent, crashes>>

(* cancelChildRun of the host writes the run status unconditionally; an    *)
(* error is logged and swallowed.                                          *)
StopRun(x, k, ok) ==
  /\ k \in kill[x]
  /\ kill' = [kill EXCEPT ![x] = @ \ {k}]
  /\ attempts' = IF ok THEN SetRun(k[1], k[2], "stopped") ELSE attempts
  /\ UNCHANGED <<wf, task, title, due, opens, aged, lease, approval,
                 tx, pc, polled, claim, outbox, sent, crashes>>

CancelChildRuns(r) ==
  /\ pc[r] = "teardown"
  /\ \E k \in kill[r], ok \in BOOLEAN : StopRun(r, k, ok)

TeardownDone(r) ==
  /\ pc[r] = "teardown" /\ kill[r] = {}
  /\ Goto(r, "stale")
  /\ UNCHANGED <<rows, tx, polled, claim, kill, outbox, sent, crashes>>

-----------------------------------------------------------------------------
(* invalidateStaleApprovals.  The same test is made by diffApplySpecRows.  *)

WasOpened(t) ==
  /\ approval[t].hash # NoHash
  /\ ~isTerminalTaskStatus(task[t])
  /\ \/ approval[t].status \in {"granted", "needs_revision"}
     \/ approval[t].status = "pending" /\ approval[t].solicited

\* Faulty variant: only undecided approvals are reopened.
ReopenedPendingOnly(titles) ==
  [t \in Gated |->
     IF /\ approval[t].status = "pending" /\ approval[t].solicited
        /\ approval[t].hash # Packet(t, titles)
     THEN [status |-> "pending", solicited |-> FALSE, invalidated |-> TRUE,
           hash |-> Packet(t, titles)]
     ELSE approval[t]]

(* Approval rows after staleness against the given titles was applied.     *)
Reopened(titles) ==
  [t \in Gated |->
     IF WasOpened(t) /\ approval[t].hash # Packet(t, titles)
     THEN [status |-> "pending", solicited |-> FALSE, invalidated |-> TRUE,
           hash |-> Packet(t, titles)]
     ELSE approval[t]]

InvalidateStale(r) ==
  /\ InTx(r, "stale") /\ SawActive
  /\ approval' = Reopened(title)
  /\ Commit /\ Goto(r, "claim")
  /\ UNCHANGED <<wf, task, title, due, opens, aged, attempts, lease, polled,
                 claim, kill, outbox, sent, crashes>>

-----------------------------------------------------------------------------
(* claimReadyTasks.                                                        *)

(* gateContextFor + deriveEffectiveGateState over the given statuses.      *)
Dispatchable(t, status) ==
  deriveEffectiveGateState(
    timingGate(due[t]),
    dependencyGate({resolveDependency(status[e.on], e.outcome) : e \in DepsOf(t)}),
    approvalGate(t \in Gated, IF t \in Gated THEN approval[t].status ELSE "pending"))
  = "dispatchable"

(* An instantaneous executor left running crashed mid-dispatch.            *)
Crashed == {t \in Tasks : /\ task[t] = "running" /\ aged[t]
                          /\ Type[t] \in INSTANTANEOUS_EXECUTOR_TYPES}

\* Faulty variant: the attempt of the crashed dispatch is left running.
StaleAttemptsForgotten(t) == attempts[t]

StaleAttempts(t) ==
  [n \in DOMAIN attempts[t] |->
     IF attempts[t][n].status = "running"
     THEN WithStatus(attempts[t][n], "failed") ELSE attempts[t][n]]

\* Faulty variant: dispatches whose dispatcher died are never reclaimed.
ReclaimableNever == {}

(* An agent_task dispatch whose lease lapsed before the child run id was   *)
(* recorded.                                                               *)
Reclaimable ==
  {t \in Tasks :
     /\ task[t] = "running" /\ Type[t] = "agent_task"
     /\ \E n \in DOMAIN attempts[t] :
          LatestRunning(t, n) /\ ~attempts[t][n].child
     /\ lease[t].token # NoOne /\ lease[t].expired}

(* Any batch of at most k members: rows come back in no particular order.  *)
Batches(S, k) ==
  {B \in SUBSET S : \/ B = S /\ Cardinality(S) <= k
                    \/ Cardinality(B) = k /\ k < Cardinality(S)}

(* acquireDispatchLease and takeOverDispatchLease.                         *)
AcquiredLease(r, no) == [token |-> r, no |-> no, expired |-> FALSE]

TakenOver(r, t) == [token |-> r, no |-> lease[t].no, expired |-> FALSE]

ClaimBatch(r, reclaimed, claimed) ==
  LET rest   == Crashed \ claimed
      past   == [t \in Tasks |-> IF t \in Crashed THEN StaleAttempts(t)
                                 ELSE attempts[t]]
      number == [t \in Tasks |->
                   IF t \in reclaimed
                   THEN CHOOSE n \in DOMAIN attempts[t] : LatestRunning(t, n)
                   ELSE Len(attempts[t]) + 1]
  IN  /\ task' = [t \in Tasks |-> CASE t \in claimed -> "running"
                                    [] t \in rest -> "scheduled"
                                    [] OTHER -> task[t]]
      /\ attempts' = [t \in Tasks |-> IF t \in claimed
                                      THEN Append(past[t], NewAttempt)
                                      ELSE past[t]]
      /\ lease' = [t \in Tasks |->
           CASE t \in claimed -> AcquiredLease(r, number[t])
             [] t \in reclaimed -> TakenOver(r, t)
             [] t \in rest -> Released(t)
             [] OTHER -> lease[t]]
      /\ claim' = [claim EXCEPT ![r] = [t \in Tasks |->
           IF t \in reclaimed \cup claimed
           THEN [no |-> number[t], out |-> "dispatching"] ELSE NoClaim]]
      /\ Touch(Crashed \cup claimed)
      /\ Goto(r, IF reclaimed \cup claimed = {} THEN "finalize" ELSE "dispatch")

ClaimReady(r) ==
  LET recovered == [t \in Tasks |-> IF t \in Crashed THEN "scheduled" ELSE task[t]]
      ready     == {t \in Tasks : /\ recovered[t] \in {"idle", "scheduled"}
                                  /\ Dispatchable(t, recovered)}
  IN  /\ InTx(r, "claim") /\ SawActive
      /\ \E reclaimed \in Batches(Reclaimable, DispatchBatchCap) :
           \E claimed \in Batches(ready, DispatchBatchCap - Cardinality(reclaimed)) :
             ClaimBatch(r, reclaimed, claimed)
      /\ Commit
      /\ UNCHANGED <<wf, title, due, opens, approval, polled, kill, outbox,
                     sent, crashes>>

-----------------------------------------------------------------------------
(* Dispatch, outside any transaction.  Executors of a batch run            *)
(* concurrently; the tick waits for all of them.                           *)

Dispatching(r, t, out) == pc[r] = "dispatch" /\ claim[r][t].out = out

Return(r, t, out) == claim' = [claim EXCEPT ![r][t] = [no |-> @.no, out |-> out]]

(* The built-in executors of buildExecutorRegistry.                        *)
ExecuteBuiltin(r, t) ==
  /\ Dispatching(r, t, "dispatching") /\ Type[t] # "agent_task"
  /\ Return(r, t, IF Type[t] = "manual" THEN "running" ELSE "succeeded")
  /\ UNCHANGED <<rows, tx, pc, polled, kill, outbox, sent, crashes>>

(* The host's agent_task executor up to createAgentRun, which is           *)
(* idempotent on the attempt key.  Only a queued run is enqueued next.     *)
CreateRun(r, t) ==
  LET n == claim[r][t].no
  IN  /\ Dispatching(r, t, "dispatching") /\ Type[t] = "agent_task"
      /\ attempts' = IF attempts[t][n].run = "none" THEN SetRun(t, n, "queued")
                     ELSE attempts
      /\ Return(r, t, IF attempts[t][n].run \in {"none", "queued"}
                      THEN "created" ELSE "running")
      /\ UNCHANGED <<wf, task, title, due, opens, aged, lease, approval,
                     tx, pc, polled, kill, outbox, sent, crashes>>

(* enqueueAgentRun; a second enqueue of a run that started is harmless.    *)
EnqueueRun(r, t) ==
  LET n == claim[r][t].no
  IN  /\ Dispatching(r, t, "created")
      /\ attempts' = IF attempts[t][n].run = "queued" THEN SetRun(t, n, "live")
                     ELSE attempts
      /\ Return(r, t, "running")
      /\ UNCHANGED <<wf, task, title, due, opens, aged, lease, approval,
                     tx, pc, polled, kill, outbox, sent, crashes>>

(* Every error of the host executor is returned as a failed outcome.       *)
DispatchFails(r, t) ==
  /\ Dispatching(r, t, "dispatching") \/ Dispatching(r, t, "created")
  /\ Type[t] = "agent_task"
  /\ Return(r, t, "failed")
  /\ UNCHANGED <<rows, tx, pc, polled, kill, outbox, sent, crashes>>

(* The heartbeat of an executor in flight: ownership-qualified.            *)
Heartbeat(r, t) ==
  /\ Dispatching(r, t, "dispatching") \/ Dispatching(r, t, "created")
  /\ lease[t].token = r /\ lease[t].expired
  /\ lease' = [lease EXCEPT ![t] = WithExpiry(@, FALSE)]
  /\ UNCHANGED <<wf, task, title, due, opens, aged, attempts, approval, locals>>

-----------------------------------------------------------------------------
(* recordOutcomes.  It does not look at the workflow row.                  *)

\* Faulty variant: any lease on the task lets the outcome through.
OwnsAnyLease(r, t) == lease[t].token # NoOne

OwnsLease(r, t) == lease[t].token = r

RecordOutcomes(r) ==
  LET mine    == {t \in Tasks : claim[r][t].out # "none"}
      no      == [t \in Tasks |-> claim[r][t].no]
      out     == [t \in Tasks |-> claim[r][t].out]
      owned   == {t \in mine : OwnsLease(r, t)}
      applied == {t \in owned : task[t] = "running" /\ IsRunning(t, no[t])}
      good    == {t \in applied : out[t] = "succeeded"}
      bad     == {t \in applied : out[t] = "failed"}
  IN  /\ pc[r] = "dispatch" /\ tx.holder = NoOne
      /\ \A t \in mine : out[t] \in {"running", "succeeded", "failed"}
      /\ lease' = [t \in Tasks |-> IF t \in owned THEN Released(t) ELSE lease[t]]
      /\ attempts' = [t \in Tasks |->
           IF t \in applied
           THEN [attempts[t] EXCEPT ![no[t]] =
                   [status |-> out[t], run |-> @.run,
                    child |-> out[t] = "running" /\ Type[t] = "agent_task"]]
           ELSE attempts[t]]
      /\ task' = [t \in Tasks |-> CASE t \in good -> "succeeded"
                                    [] t \in bad -> AfterFailure(t, no[t])
                                    [] OTHER -> task[t]]
      /\ due' = [t \in Tasks |-> due[t] /\ ~(t \in bad /\ HasRetry(t, no[t]))]
      /\ Touch(good \cup bad)
      /\ outbox' = [outbox EXCEPT ![r] = @ \cup DeadLetters(bad, no)]
      /\ claim' = [claim EXCEPT ![r] = NoClaims]
      /\ Goto(r, "claim")
      /\ UNCHANGED <<wf, title, opens, approval, tx, polled, kill, sent, crashes>>

-----------------------------------------------------------------------------
(* finalizeWorkflow.                                                       *)

Undecided == {t \in Tasks : ~isTerminalTaskStatus(task[t]) /\ task[t] # "running"}

WithSkipped(S) == [t \in Tasks |-> IF t \in S THEN "skipped" ELSE task[t]]

PermanentlyBlocked(t, status) ==
  \E e \in DepsOf(t) : terminalUnmatched(status[e.on], e.outcome)

(* Tasks whose unsatisfiable edge comes from a block-policy failure.       *)
BlockedByFailure ==
  {t \in Undecided : \E e \in DepsOf(t) :
     /\ task[e.on] = "failed" /\ e.outcome # "failed"
     /\ FailurePolicy[e.on] = "block"}

(* The sets of tasks a skip-propagation pass can skip.  Without a blocking *)
(* failure it runs to the fixed point.  With one, tasks are skipped until  *)
(* the scan, whose order is unspecified, meets the first task it blocks.   *)
SkipSets ==
  {S \in SUBSET Undecided :
     /\ \A t \in S : PermanentlyBlocked(t, WithSkipped(S))
     /\ IF BlockedByFailure = {}
        THEN \A t \in Undecided \ S : ~PermanentlyBlocked(t, WithSkipped(S))
        ELSE S \cap BlockedByFailure = {}}

NextStatus(S) ==
  IF BlockedByFailure # {} THEN "failed"
  ELSE rollUpWorkflowStatus(WithSkipped(S), Required, FailurePolicy)

\* Faulty variant: announces the computed status whether or not it was set.
TransitionedComputed(next) == next # "active"

(* The tick may announce the terminal status: the CAS took effect.         *)
Transitioned(next) == next # "active" /\ WorkflowCas

Finalize(r) ==
  /\ InTx(r, "finalize") /\ SawActive
  /\ \E S \in SkipSets :
       LET next == NextStatus(S)
       IN  /\ task' = WithSkipped(S)
           /\ Touch(S)
           /\ IF next # "active" /\ WorkflowCas
              THEN WriteWorkflow(next) /\ lease' = [t \in Tasks |-> Released(t)]
              ELSE UNCHANGED <<wf, lease>>
           /\ outbox' = [outbox EXCEPT ![r] =
                IF Transitioned(next) THEN @ \cup {[kind |-> "workflow_terminal"]}
                ELSE @]
  /\ Commit /\ Goto(r, "solicit")
  /\ UNCHANGED <<title, due, opens, attempts, approval, polled, claim, kill,
                 sent, crashes>>

-----------------------------------------------------------------------------
(* solicitApprovals and emitReconcileNotifications.                        *)

Opened(t) ==
  /\ approval[t].status = "pending" /\ ~approval[t].solicited
  /\ \A e \in DepsOf(t) : resolveDependency(task[e.on], e.outcome) = "satisfied"
  /\ opens[t]

Solicit(r) ==
  /\ InTx(r, "solicit") /\ SawActive
  /\ approval' = [t \in Gated |->
       IF Opened(t)
       THEN [status |-> "pending", solicited |-> TRUE, invalidated |-> FALSE,
             hash |-> Packet(t, title)]
       ELSE approval[t]]
  /\ Commit /\ Goto(r, "notify")
  /\ UNCHANGED <<wf, task, title, due, opens, aged, attempts, lease, polled,
                 claim, kill, outbox, sent, crashes>>

Notify(r) ==
  /\ pc[r] = "notify"
  /\ sent' = [n \in Notes |-> IF n \in outbox[r] THEN sent[n] + 1 ELSE sent[n]]
  /\ outbox' = [outbox EXCEPT ![r] = {}]
  /\ Goto(r, "off")
  /\ UNCHANGED <<rows, tx, polled, claim, kill, crashes>>

-----------------------------------------------------------------------------
(* A process dies: its transaction rolls back and what it had in memory is *)
(* gone.                                                                   *)
Crash(r) ==
  /\ pc[r] # "off" /\ crashes < MaxCrashes
  /\ crashes' = crashes + 1
  /\ tx' = IF tx.holder = r THEN NoTx ELSE tx
  /\ polled' = [polled EXCEPT ![r] = {}]
  /\ claim' = [claim EXCEPT ![r] = NoClaims]
  /\ kill' = [kill EXCEPT ![r] = {}]
  /\ outbox' = [outbox EXCEPT ![r] = {}]
  /\ Goto(r, "off")
  /\ UNCHANGED <<rows, sent>>

(* The steps of a tick, in the order of reconcileWorkflow.                 *)
TickStep(r) ==
  \/ PollRead(r)
  \/ BeginTx(r)
  \/ SettlePolled(r) \/ SettleInactive(r)
  \/ ApplyRejected(r) \/ SkipPhase(r, "reject", "stale")
  \/ CancelChildRuns(r) \/ TeardownDone(r)
  \/ InvalidateStale(r) \/ SkipPhase(r, "stale", "claim")
  \/ ClaimReady(r) \/ SkipPhase(r, "claim", "solicit")
  \/ \E t \in Tasks : \/ ExecuteBuiltin(r, t) \/ CreateRun(r, t)
                      \/ EnqueueRun(r, t) \/ DispatchFails(r, t)
  \/ RecordOutcomes(r)
  \/ Finalize(r) \/ SkipPhase(r, "finalize", "solicit")
  \/ Solicit(r) \/ SkipPhase(r, "solicit", "notify")
  \/ Notify(r)

(* What can go wrong in a tick.                                            *)
TickFault(r) ==
  \/ Crash(r)
  \/ PhaseFails(r, "settle", "reject") \/ PhaseFails(r, "reject", "stale")
  \/ PhaseFails(r, "stale", "claim") \/ PhaseFails(r, "solicit", "notify")
=============================================================================
