------------------------- MODULE WorkflowSafety_proofs -------------------------
(***************************************************************************)
(* Approvals and notifications: what only holds because ended tasks stay   *)
(* ended, which is a consequence of the refinement (TerminalStep).  Then   *)
(* the transition tables, and what a live lease protects.                  *)
(***************************************************************************)
EXTENDS WorkflowRefinement_proofs

(* The step every proof of this module is about.                           *)
Step == TypeOK /\ AllSound /\ TxSound /\ TypeOK' /\ [Next]_vars

-----------------------------------------------------------------------------
(* Approvals.                                                              *)

(* How a step can change an approval row: reopened on a content, opened on *)
(* the current content, decided, invalidated by a cancel.                  *)
ReopenedIn(t) ==
  /\ approval'[t].hash = Packet(t, title')
  /\ approval'[t].status = "pending" /\ ~approval'[t].solicited
  /\ approval[t].status # "rejected"

OpenedIn(t) ==
  /\ approval'[t].hash = Packet(t, title')
  /\ approval'[t].status = "pending" /\ approval[t].status = "pending"

DecidedIn(t) ==
  /\ title' = title /\ approval'[t].hash = approval[t].hash
  /\ approval[t].status = "pending" /\ approval[t].solicited

KeptIn(t) ==
  /\ approval'[t].hash = approval[t].hash
  /\ approval'[t].status = approval[t].status
  /\ approval'[t].solicited = approval[t].solicited
  /\ title' = title \/ (WasOpened(t) => approval[t].hash = Packet(t, title'))

(* Every step does one of the four to an approval row.                     *)
LEMMA ApprovalStep ==
  ASSUME TypeOK, [Next]_vars, NEW t \in Gated
  PROVE  ReopenedIn(t) \/ OpenedIn(t) \/ DecidedIn(t) \/ KeptIn(t)
<1>1. CASE UNCHANGED <<approval, title>>
  BY <1>1 DEF KeptIn
<1>2. ASSUME NEW titles, approval' = Reopened(titles), title' = titles
      PROVE  ReopenedIn(t) \/ KeptIn(t)
  <2>1. approval'[t] = IF WasOpened(t) /\ approval[t].hash # Packet(t, titles)
                       THEN [status |-> "pending", solicited |-> FALSE,
                             invalidated |-> TRUE, hash |-> Packet(t, titles)]
                       ELSE approval[t]
    BY <1>2 DEF Reopened
  <2>2. CASE WasOpened(t) /\ approval[t].hash # Packet(t, titles)
    BY <1>2, <2>1, <2>2 DEF ReopenedIn, WasOpened
  <2>3. CASE ~(WasOpened(t) /\ approval[t].hash # Packet(t, titles))
    BY <1>2, <2>1, <2>3 DEF KeptIn
  <2> QED
    BY <2>2, <2>3
<1>3. ASSUME NEW r \in Reconcilers, TickStep(r)
      PROVE  ReopenedIn(t) \/ OpenedIn(t) \/ DecidedIn(t) \/ KeptIn(t)
  <2>1. CASE InvalidateStale(r)
    BY <1>2, <2>1 DEF InvalidateStale
  <2>2. CASE Solicit(r)
    <3>1. /\ title' = title
          /\ approval'[t] = IF Opened(t)
                            THEN [status |-> "pending", solicited |-> TRUE,
                                  invalidated |-> FALSE, hash |-> Packet(t, title)]
                            ELSE approval[t]
      BY <2>2 DEF Solicit
    <3>2. CASE Opened(t)
      BY <3>1, <3>2 DEF OpenedIn, Opened
    <3>3. CASE ~Opened(t)
      BY <3>1, <3>3 DEF KeptIn
    <3> QED
      BY <3>2, <3>3
  <2>3. CASE PollRead(r) \/ BeginTx(r) \/ SettleInactive(r) \/ TeardownDone(r) \/ Notify(r)
             \/ CancelChildRuns(r) \/ RecordOutcomes(r) \/ SettlePolled(r)
    BY <1>1, <2>3 DEF PollRead, BeginTx, SettleInactive, TeardownDone, Notify,
                      CancelChildRuns, StopRun, RecordOutcomes, SettlePolled, rows
  <2>4. CASE ApplyRejected(r) \/ ClaimReady(r) \/ Finalize(r)
    BY <1>1, <2>4 DEF ApplyRejected, ClaimReady, Finalize
  <2>5. ASSUME NEW phase, NEW next, SkipPhase(r, phase, next)
        PROVE  KeptIn(t)
    BY <1>1, <2>5 DEF SkipPhase, rows, KeptIn
  <2>6. ASSUME NEW u \in Tasks, \/ ExecuteBuiltin(r, u) \/ CreateRun(r, u)
                                \/ EnqueueRun(r, u) \/ DispatchFails(r, u)
        PROVE  KeptIn(t)
    BY <2>6 DEF ExecuteBuiltin, CreateRun, EnqueueRun, DispatchFails, rows, KeptIn
  <2> QED
    BY <1>3, <2>1, <2>2, <2>3, <2>4, <2>5, <2>6 DEF TickStep
<1>4. CASE Reconcile
  <2>1. ASSUME NEW r \in Reconcilers, StartTick(r) \/ TickFault(r) PROVE KeptIn(t)
    BY <2>1 DEF StartTick, TickFault, Crash, PhaseFails, rows, KeptIn
  <2>2. ASSUME NEW r \in Reconcilers, NEW u \in Tasks, Heartbeat(r, u) PROVE KeptIn(t)
    BY <2>2 DEF Heartbeat, KeptIn
  <2> QED
    BY <1>3, <1>4, <2>1, <2>2 DEF Reconcile
<1>5. CASE Users
  <2>1. CASE startWorkflow \/ pauseWorkflow \/ resumeWorkflow \/ renameWorkflowCas
             \/ CancelCollected \/ WebCrash
    BY <1>1, <2>1 DEF startWorkflow, pauseWorkflow, resumeWorkflow, StatusChange,
                      renameWorkflowCas, CancelCollected, StopRun, WebCrash, rows
  <2>2. CASE cancelWorkflow
    <3>1. /\ title' = title
          /\ approval'[t] = IF approval[t].status = "pending"
                            THEN Invalidated(approval[t]) ELSE approval[t]
      BY <2>2 DEF cancelWorkflow
    <3> QED
      BY <3>1 DEF Invalidated, KeptIn
  <2>3. ASSUME NEW u \in Tasks, markManualDone(u) PROVE KeptIn(t)
    BY <2>3 DEF markManualDone, KeptIn
  <2>4. ASSUME NEW u \in Gated, NEW d, decideWorkflowApproval(u, d)
        PROVE  DecidedIn(t) \/ KeptIn(t)
    <3>1. approval' = [approval EXCEPT ![u] = Decided(@, DecisionStatus(u, d))]
          /\ title' = title /\ Decidable(u)
      BY <2>4 DEF decideWorkflowApproval
    <3>2. CASE t = u
      <4>1. approval'[t] = Decided(approval[t], DecisionStatus(t, d))
        BY <3>1, <3>2 DEF TypeOK
      <4> QED
        BY <3>1, <3>2, <4>1 DEF Decided, Decidable, DecidedIn
    <3>3. CASE t # u
      BY <3>1, <3>3 DEF TypeOK, KeptIn
    <3> QED
      BY <3>2, <3>3
  <2>5. ASSUME NEW u \in Tasks, NEW x \in Titles, updatePausedSpec(u, x)
        PROVE  ReopenedIn(t) \/ KeptIn(t)
    BY <1>2, <2>5 DEF updatePausedSpec, diffApplySpecRows
  <2> QED
    BY <1>5, <2>1, <2>2, <2>3, <2>4, <2>5 DEF Users
<1>6. CASE Runs
  BY <1>1, <1>6 DEF Runs, RunEnds
<1>7. CASE Clock
  BY <1>1, <1>7 DEF Clock, DueArrives, SolicitationArrives, RowAges, LeaseExpires
<1>8. CASE UNCHANGED vars
  BY <1>1, <1>8 DEF vars
<1> QED
  BY <1>4, <1>5, <1>6, <1>7, <1>8 DEF Next

(* Who was asked, or has answered, was shown a review packet.              *)
Shown == \A t \in Gated :
  approval[t].status # "pending" \/ approval[t].solicited => approval[t].hash # NoHash

ApprovalsSound == OpenApprovalsFresh /\ Shown

LEMMA InitApprovals == Init => ApprovalsSound
<1> SUFFICES ASSUME Init, NEW t \in Gated
             PROVE  /\ ~WasOpened(t)
                    /\ approval[t].status = "pending" /\ ~approval[t].solicited
  BY DEF ApprovalsSound, OpenApprovalsFresh, Shown
<1>1. approval[t] = [status |-> "pending", solicited |-> FALSE,
                     invalidated |-> FALSE, hash |-> NoHash]
  BY DEF Init, insertSpecRows
<1> QED
  BY <1>1 DEF WasOpened

LEMMA NextApprovals == ApprovalsSound /\ Step => ApprovalsSound'
<1> SUFFICES ASSUME ApprovalsSound, Step, NEW t \in Gated
             PROVE  /\ WasOpened(t)' => approval'[t].hash = Packet(t, title')
                    /\ approval'[t].status # "pending" \/ approval'[t].solicited
                         => approval'[t].hash # NoHash
  BY DEF ApprovalsSound, OpenApprovalsFresh, Shown, Packet
<1>1. t \in Tasks /\ TypeOK /\ TypeOK'
  BY DEF Step, Gated
<1>2. Packet(t, title') # NoHash
  <2>1. Packet(t, title') \in Packets
    BY <1>1, PacketType DEF TypeOK
  <2> QED
    BY <2>1, HashAssumption
<1>3. WasOpened(t) => approval[t].hash = Packet(t, title)
  BY DEF ApprovalsSound, OpenApprovalsFresh
<1>4. approval[t].status # "pending" \/ approval[t].solicited => approval[t].hash # NoHash
  BY DEF ApprovalsSound, Shown
<1>5. ~isTerminalTaskStatus(task'[t]) => ~isTerminalTaskStatus(task[t])
  BY <1>1, TerminalStep DEF Step
<1>6. CASE ReopenedIn(t)
  BY <1>2, <1>6 DEF ReopenedIn
<1>7. CASE OpenedIn(t)
  BY <1>2, <1>7 DEF OpenedIn
<1>8. CASE DecidedIn(t)
  BY <1>3, <1>4, <1>5, <1>8 DEF DecidedIn, WasOpened
<1>9. CASE KeptIn(t)
  <2>1. WasOpened(t)' => WasOpened(t)
    BY <1>5, <1>9 DEF KeptIn, WasOpened
  <2> QED
    BY <1>3, <1>4, <1>9, <2>1 DEF KeptIn
<1> QED
  BY <1>1, <1>6, <1>7, <1>8, <1>9, ApprovalStep DEF Step

LEMMA AlwaysApproved == Spec => []ApprovalsSound
<1>1. Init => ApprovalsSound
  BY InitApprovals
<1>2. ApprovalsSound /\ TypeOK /\ AllSound /\ TxSound /\ TypeOK' /\ [Next]_vars
      => ApprovalsSound'
  BY NextApprovals DEF Step
<1> QED
  BY <1>1, <1>2, TypeCorrect, AlwaysSound, AlwaysTx, PTL DEF Spec

(* An approval that can still open its gate was opened on the content its  *)
(* task has now (invalidateStaleApprovals, diffApplySpecRows).             *)
THEOREM ApprovalsStayFresh == Spec => []OpenApprovalsFresh
<1>1. ApprovalsSound => OpenApprovalsFresh
  BY DEF ApprovalsSound
<1> QED
  BY <1>1, AlwaysApproved, PTL

(* The operations that write workflow_task.status.                         *)
LEMMA TaskWriters ==
  ASSUME TypeOK, [Next]_vars, task' # task
  PROVE  \/ \E r \in Reconcilers : \/ SettlePolled(r) \/ RecordOutcomes(r)
                                   \/ ApplyRejected(r) \/ ClaimReady(r) \/ Finalize(r)
         \/ cancelWorkflow \/ \E u \in Tasks : markManualDone(u)
<1>1. ASSUME NEW r \in Reconcilers, TickStep(r)
      PROVE  \/ SettlePolled(r) \/ RecordOutcomes(r)
             \/ ApplyRejected(r) \/ ClaimReady(r) \/ Finalize(r)
  <2>1. CASE PollRead(r) \/ BeginTx(r) \/ SettleInactive(r) \/ TeardownDone(r) \/ Notify(r)
             \/ CancelChildRuns(r) \/ InvalidateStale(r) \/ Solicit(r)
    BY <2>1 DEF PollRead, BeginTx, SettleInactive, TeardownDone, Notify,
                CancelChildRuns, StopRun, InvalidateStale, Solicit, rows
  <2>2. ASSUME NEW phase, NEW next, SkipPhase(r, phase, next) PROVE FALSE
    BY <2>2 DEF SkipPhase, rows
  <2>3. ASSUME NEW u \in Tasks, \/ ExecuteBuiltin(r, u) \/ CreateRun(r, u)
                                \/ EnqueueRun(r, u) \/ DispatchFails(r, u)
        PROVE  FALSE
    BY <2>3 DEF ExecuteBuiltin, CreateRun, EnqueueRun, DispatchFails, rows
  <2> QED
    BY <1>1, <2>1, <2>2, <2>3 DEF TickStep
<1>2. CASE Reconcile
  <2>1. ASSUME NEW r \in Reconcilers, StartTick(r) \/ TickFault(r) PROVE FALSE
    BY <2>1 DEF StartTick, TickFault, Crash, PhaseFails, rows
  <2>2. ASSUME NEW r \in Reconcilers, NEW u \in Tasks, Heartbeat(r, u) PROVE FALSE
    BY <2>2 DEF Heartbeat
  <2> QED
    BY <1>1, <1>2, <2>1, <2>2 DEF Reconcile
<1>3. CASE Users
  <2>1. ~(startWorkflow \/ pauseWorkflow \/ resumeWorkflow \/ renameWorkflowCas
          \/ CancelCollected \/ WebCrash)
    BY DEF startWorkflow, pauseWorkflow, resumeWorkflow, StatusChange,
           renameWorkflowCas, CancelCollected, StopRun, WebCrash, rows
  <2>2. ASSUME NEW u \in Gated, NEW d, decideWorkflowApproval(u, d) PROVE FALSE
    BY <2>2 DEF decideWorkflowApproval
  <2>3. ASSUME NEW u \in Tasks, NEW x \in Titles, updatePausedSpec(u, x) PROVE FALSE
    BY <2>3 DEF updatePausedSpec, diffApplySpecRows
  <2> QED
    BY <1>3, <2>1, <2>2, <2>3 DEF Users
<1>4. ~Runs /\ ~Clock /\ ~UNCHANGED vars
  BY DEF Runs, RunEnds, Clock, DueArrives, SolicitationArrives, RowAges, LeaseExpires, vars
<1> QED
  BY <1>2, <1>3, <1>4 DEF Next

(* What an outcome can make of a task.                                     *)
LEMMA OutcomeStatuses ==
  ASSUME NEW r \in Reconcilers, SettlePolled(r) \/ RecordOutcomes(r), NEW t \in Tasks
  PROVE  task'[t] \in {task[t], "succeeded", "scheduled", "failed"}
<1>1. CASE SettlePolled(r)
  <2> DEFINE live == {p \in polled[r] : StillPolled(p)}
             done == {p.task : p \in live}
             no   == [u \in done |-> (CHOOSE p \in live : p.task = u).no]
             bad  == {p.task : p \in {q \in live : q.failed}}
  <2>1. task' = [u \in Tasks |->
             CASE u \in done \ bad -> "succeeded"
               [] u \in bad -> AfterFailure(u, no[u])
               [] OTHER -> task[u]]
    BY <1>1 DEF SettlePolled
  <2> HIDE DEF live, done, no, bad
  <2> QED
    BY <2>1 DEF AfterFailure
<1>2. CASE RecordOutcomes(r)
  BY <1>2 DEF RecordOutcomes, AfterFailure
<1> QED
  BY <1>1, <1>2

(* Only claimReadyTasks sets a task running.                               *)
LEMMA OnlyClaimsStart ==
  ASSUME TypeOK, [Next]_vars, NEW t \in Tasks, task[t] # "running", task'[t] = "running"
  PROVE  \E r \in Reconcilers : ClaimReady(r)
<1>1. ASSUME NEW r \in Reconcilers, \/ SettlePolled(r) \/ RecordOutcomes(r)
                                    \/ ApplyRejected(r) \/ Finalize(r)
      PROVE  FALSE
  BY <1>1, OutcomeStatuses DEF ApplyRejected, Finalize, WithSkipped
<1>2. ~cancelWorkflow
  BY DEF cancelWorkflow
<1>3. ASSUME NEW u \in Tasks, markManualDone(u) PROVE FALSE
  BY <1>3 DEF markManualDone, TypeOK
<1> QED
  BY <1>1, <1>2, <1>3, TaskWriters

(* A gated task runs only on a grant for the content it has: an edit       *)
(* between the decision and the claim voids the decision                   *)
(* (decideWorkflowApproval, updateWorkflowDraftSpec, claimReadyTasks).     *)
THEOREM SignOffsAreFresh == Spec => NoStaleSignOff
<1>1. ApprovalsSound /\ TypeOK /\ [Next]_vars =>
        \A t \in Gated : task[t] # "running" /\ task'[t] = "running" =>
          /\ approval[t].status = "granted"
          /\ approval[t].hash = Packet(t, title)
  <2> SUFFICES ASSUME ApprovalsSound, TypeOK, [Next]_vars, NEW t \in Gated,
                      task[t] # "running", task'[t] = "running"
               PROVE  approval[t].status = "granted" /\ approval[t].hash = Packet(t, title)
    OBVIOUS
  <2>1. t \in Tasks
    BY DEF Gated
  <2>2. PICK r \in Reconcilers : ClaimReady(r)
    BY <2>1, OnlyClaimsStart
  <2> DEFINE recovered == [u \in Tasks |-> IF u \in Crashed THEN "scheduled" ELSE task[u]]
  <2>3. PICK reclaimed \in SUBSET Reclaimable, claimed \in SUBSET Tasks :
          /\ ClaimBatch(r, reclaimed, claimed)
          /\ \A u \in claimed : /\ recovered[u] \in {"idle", "scheduled"}
                                /\ Dispatchable(u, recovered)
    BY <2>2 DEF ClaimReady, Batches
  <2>4. t \in claimed
    BY <2>1, <2>3 DEF ClaimBatch
  <2>5. Dispatchable(t, recovered) /\ task[t] \in {"idle", "scheduled"}
    BY <2>1, <2>3, <2>4 DEF Crashed
  <2>6. approval[t].status = "granted"
    BY <2>5 DEF Dispatchable, deriveEffectiveGateState, approvalGate, passed
  <2>7. WasOpened(t)
    BY <2>5, <2>6 DEF WasOpened, isTerminalTaskStatus, ApprovalsSound, Shown
  <2> QED
    BY <2>6, <2>7 DEF ApprovalsSound, OpenApprovalsFresh
<1> QED
  BY <1>1, TypeCorrect, AlwaysApproved, PTL DEF Spec, NoStaleSignOff

-----------------------------------------------------------------------------
(* Skips.                                                                  *)

(* Only a rejection and the skip-propagation skip a task.                  *)
LEMMA OnlyCauseSkips ==
  ASSUME Step, NEW t \in Tasks, task[t] # "skipped", task'[t] = "skipped"
  PROVE  \/ approval' = approval /\ t \in RejectedWith("skip")
         \/ \E e \in DepsOf(t) : isTerminalTaskStatus(task'[e.on]) /\ ~EdgeHolds(e)'
<1>1. ASSUME NEW r \in Reconcilers, SettlePolled(r) \/ RecordOutcomes(r) PROVE FALSE
  BY <1>1, OutcomeStatuses
<1>2. ASSUME NEW r \in Reconcilers, ClaimReady(r) PROVE FALSE
  <2>1. PICK reclaimed, claimed : ClaimBatch(r, reclaimed, claimed)
    BY <1>2 DEF ClaimReady
  <2> QED
    BY <2>1 DEF ClaimBatch
<1>3. ~cancelWorkflow
  BY DEF cancelWorkflow
<1>4. ASSUME NEW u \in Tasks, markManualDone(u) PROVE FALSE
  BY <1>4 DEF markManualDone, TypeOK, Step
<1>5. ASSUME NEW r \in Reconcilers, ApplyRejected(r)
      PROVE  approval' = approval /\ t \in RejectedWith("skip")
  BY <1>5 DEF ApplyRejected
<1>6. ASSUME NEW r \in Reconcilers, Finalize(r)
      PROVE  \E e \in DepsOf(t) : isTerminalTaskStatus(task'[e.on]) /\ ~EdgeHolds(e)'
  <2>1. PICK S \in SkipSets : Finalize(r)!2!(S)
    BY <1>6 DEF Finalize
  <2>2. t \in S /\ task' = WithSkipped(S)
    BY <2>1 DEF WithSkipped
  <2>3. PICK e \in DepsOf(t) : terminalUnmatched(task'[e.on], e.outcome)
    BY <2>2 DEF SkipSets, PermanentlyBlocked
  <2>4. isTerminalTaskStatus(task'[e.on]) /\ ~EdgeHolds(e)'
    BY <2>3 DEF terminalUnmatched, isTerminalTaskStatus, EdgeHolds
  <2> QED
    BY <2>4
<1> QED
  BY <1>1, <1>2, <1>3, <1>4, <1>5, <1>6, TaskWriters DEF Step

LEMMA NextSkips == SkippedForCause /\ Step => SkippedForCause'
<1> SUFFICES ASSUME SkippedForCause, Step, NEW t \in Tasks, task'[t] = "skipped"
             PROVE  \/ t \in RejectedWith("skip")'
                    \/ \E e \in DepsOf(t) : isTerminalTaskStatus(task'[e.on]) /\ ~EdgeHolds(e)'
  BY DEF SkippedForCause
<1>1. t \in RejectedWith("skip") => t \in RejectedWith("skip")'
  <2> SUFFICES ASSUME t \in Gated, approval[t].status = "rejected"
               PROVE  approval'[t].status = "rejected"
    BY DEF RejectedWith
  <2> QED
    BY ApprovalStep DEF Step, ReopenedIn, OpenedIn, DecidedIn, KeptIn
<1>2. ASSUME NEW e \in DepsOf(t), isTerminalTaskStatus(task[e.on]), ~EdgeHolds(e)
      PROVE  isTerminalTaskStatus(task'[e.on]) /\ ~EdgeHolds(e)'
  <2>1. e.on \in Tasks
    BY GraphAssumption DEF DepsOf
  <2>2. task'[e.on] = task[e.on]
    BY <1>2, <2>1, TerminalStep DEF Step
  <2> QED
    BY <1>2, <2>2 DEF EdgeHolds
<1>3. CASE task[t] = "skipped"
  BY <1>1, <1>2, <1>3 DEF SkippedForCause
<1>4. CASE task[t] # "skipped"
  BY <1>1, <1>4, OnlyCauseSkips
<1> QED
  BY <1>3, <1>4

(* A task is skipped only because it was rejected under the skip policy or *)
(* because an edge can never be satisfied any more (finalizeWorkflow,      *)
(* applyRejectedApprovalPolicies).                                         *)
THEOREM SkipsHaveCause == Spec => []SkippedForCause
<1>1. Init => SkippedForCause
  BY DEF Init, insertSpecRows, SkippedForCause
<1>2. SkippedForCause /\ TypeOK /\ AllSound /\ TxSound /\ TypeOK' /\ [Next]_vars
      => SkippedForCause'
  BY NextSkips DEF Step
<1> QED
  BY <1>1, <1>2, TypeCorrect, AlwaysSound, AlwaysTx, PTL DEF Spec

-----------------------------------------------------------------------------
(* Notifications.                                                          *)

(* What a notification reports.                                            *)
Reports(n) == IF n.kind = "task_failed" THEN task[n.task] = "failed"
              ELSE isTerminalWorkflowStatus(wf.status)

(* A notification was delivered, or waits in the memory of one tick, or    *)
(* does not exist; it exists only when what it reports is the case.        *)
NoteSound(n) ==
  /\ sent[n] \in {0, 1}
  /\ sent[n] = 1 => Reports(n) /\ \A r \in Reconcilers : n \notin outbox[r]
  /\ \A r \in Reconcilers : n \in outbox[r] =>
       Reports(n) /\ \A q \in Reconcilers : n \in outbox[q] => q = r

NotesSound == \A n \in Notes : NoteSound(n)

(* What was the case stays the case: it is terminal.                       *)
LEMMA ReportsStand ==
  ASSUME Step, NEW n \in Notes, Reports(n)
  PROVE  Reports(n)'
<1>1. CASE n.kind = "task_failed"
  <2>1. n.task \in Tasks
    BY <1>1 DEF Notes
  <2> QED
    BY <1>1, <2>1, TerminalStep DEF Step, Reports, isTerminalTaskStatus
<1>2. CASE n.kind # "task_failed"
  BY <1>2, TerminalStep DEF Step, Reports
<1> QED
  BY <1>1, <1>2

(* A step that adds no notification.                                       *)
LEMMA NoNewNote ==
  ASSUME Step, NEW n \in Notes, NoteSound(n), sent'[n] = sent[n],
         \A r \in Reconcilers : n \in outbox'[r] => n \in outbox[r]
  PROVE  NoteSound(n)'
BY ReportsStand DEF NoteSound

(* A tick that adds notifications of what this very step brought about.    *)
LEMMA NewNotes ==
  ASSUME Step, NEW n \in Notes, NoteSound(n), NEW r \in Reconcilers, NEW A,
         sent' = sent, outbox' = [outbox EXCEPT ![r] = @ \cup A],
         n \in A => ~Reports(n) /\ Reports(n)'
  PROVE  NoteSound(n)'
<1>1. \A q \in Reconcilers : outbox'[q] = IF q = r THEN outbox[q] \cup A ELSE outbox[q]
  BY DEF Step, TypeOK
<1>2. CASE n \in A
  BY <1>1, <1>2 DEF NoteSound
<1>3. CASE n \notin A
  <2>1. \A q \in Reconcilers : n \in outbox'[q] => n \in outbox[q]
    BY <1>1, <1>3
  <2> QED
    BY <2>1, NoNewNote
<1> QED
  BY <1>2, <1>3

(* A dead letter is written in the step that fails its task.               *)
LEMMA DeadLettersAreNew ==
  ASSUME NEW F, NEW no, NEW n \in Notes, n \in DeadLetters(F, no),
         \A t \in F : /\ task[t] = "running" /\ task'[t] = AfterFailure(t, no[t])
  PROVE  ~Reports(n) /\ Reports(n)'
<1>1. PICK t \in F : n = [kind |-> "task_failed", task |-> t] /\ ~HasRetry(t, no[t])
  BY DEF DeadLetters
<1> QED
  BY <1>1 DEF Reports, AfterFailure

LEMMA NextNotes == NotesSound /\ Step => NotesSound'
<1> SUFFICES ASSUME NotesSound, Step, NEW n \in Notes PROVE NoteSound(n)'
  BY DEF NotesSound
<1>1. NoteSound(n) /\ TypeOK /\ TypeOK' /\ TxSound /\ [Next]_vars
  BY DEF NotesSound, Step
<1>2. CASE UNCHANGED <<outbox, sent>>
  BY <1>1, <1>2, NoNewNote
<1>3. ASSUME NEW r \in Reconcilers, SettlePolled(r) PROVE NoteSound(n)'
  <2> DEFINE live == {p \in polled[r] : StillPolled(p)}
             done == {p.task : p \in live}
             no   == [u \in done |-> (CHOOSE p \in live : p.task = u).no]
             bad  == {p.task : p \in {q \in live : q.failed}}
  <2>1. /\ task' = [u \in Tasks |->
             CASE u \in done \ bad -> "succeeded"
               [] u \in bad -> AfterFailure(u, no[u])
               [] OTHER -> task[u]]
        /\ outbox' = [outbox EXCEPT ![r] = @ \cup DeadLetters(bad, no)]
        /\ sent' = sent
    BY <1>3 DEF SettlePolled
  <2>2. \A t \in bad : t \in Tasks /\ task[t] = "running"
    BY <1>1 DEF StillPolled, TypeOK, Polled
  <2> HIDE DEF live, done, no, bad
  <2>3. \A t \in bad : task[t] = "running" /\ task'[t] = AfterFailure(t, no[t])
    BY <2>1, <2>2
  <2> QED
    BY <1>1, <2>1, <2>3, DeadLettersAreNew, NewNotes
<1>4. ASSUME NEW r \in Reconcilers, RecordOutcomes(r) PROVE NoteSound(n)'
  <2> DEFINE mine    == {u \in Tasks : claim[r][u].out # "none"}
             no      == [u \in Tasks |-> claim[r][u].no]
             out     == [u \in Tasks |-> claim[r][u].out]
             owned   == {u \in mine : OwnsLease(r, u)}
             applied == {u \in owned : task[u] = "running" /\ IsRunning(u, no[u])}
             good    == {u \in applied : out[u] = "succeeded"}
             bad     == {u \in applied : out[u] = "failed"}
  <2>1. /\ task' = [u \in Tasks |-> CASE u \in good -> "succeeded"
                                      [] u \in bad -> AfterFailure(u, no[u])
                                      [] OTHER -> task[u]]
        /\ outbox' = [outbox EXCEPT ![r] = @ \cup DeadLetters(bad, no)]
        /\ sent' = sent
    BY <1>4 DEF RecordOutcomes
  <2>2. \A t \in bad : t \in Tasks /\ t \notin good /\ task[t] = "running"
    OBVIOUS
  <2> HIDE DEF mine, no, out, owned, applied, good, bad
  <2>3. \A t \in bad : task[t] = "running" /\ task'[t] = AfterFailure(t, no[t])
    BY <2>1, <2>2
  <2> QED
    BY <1>1, <2>1, <2>3, DeadLettersAreNew, NewNotes
<1>5. ASSUME NEW r \in Reconcilers, Finalize(r) PROVE NoteSound(n)'
  <2>1. PICK S \in SkipSets : Finalize(r)!2!(S)
    BY <1>5 DEF Finalize
  <2> DEFINE A == IF Transitioned(NextStatus(S)) THEN {[kind |-> "workflow_terminal"]} ELSE {}
  <2>2. outbox' = [outbox EXCEPT ![r] = @ \cup A] /\ sent' = sent
    BY <1>1, <1>5, <2>1 DEF Finalize, TypeOK
  <2>3. ASSUME n \in A PROVE ~Reports(n) /\ Reports(n)'
    <3>1. Transitioned(NextStatus(S)) /\ n = [kind |-> "workflow_terminal"]
      BY <2>3
    <3>2. wf.status = "active"
      BY <1>1, <1>5, <3>1, CasActive DEF Finalize, InTx, Transitioned
    <3>3. wf'.status = NextStatus(S) /\ NextStatus(S) # "active"
      BY <2>1, <3>1 DEF Transitioned, WriteWorkflow
    <3>4. isTerminalWorkflowStatus(NextStatus(S))
      BY <3>3 DEF NextStatus, rollUpWorkflowStatus, isTerminalWorkflowStatus
    <3> QED
      BY <3>1, <3>2, <3>3, <3>4 DEF Reports, isTerminalWorkflowStatus
  <2> HIDE DEF A
  <2> QED
    BY <1>1, <2>2, <2>3, NewNotes
<1>6. ASSUME NEW r \in Reconcilers, Notify(r) PROVE NoteSound(n)'
  <2>1. /\ sent'[n] = IF n \in outbox[r] THEN sent[n] + 1 ELSE sent[n]
        /\ \A q \in Reconcilers : outbox'[q] = IF q = r THEN {} ELSE outbox[q]
    BY <1>1, <1>6 DEF Notify, TypeOK
  <2>2. CASE n \in outbox[r]
    BY <1>1, <2>1, <2>2, ReportsStand DEF NoteSound
  <2>3. CASE n \notin outbox[r]
    BY <1>1, <2>1, <2>3, NoNewNote
  <2> QED
    BY <2>2, <2>3
<1>7. ASSUME NEW r \in Reconcilers, Crash(r) PROVE NoteSound(n)'
  <2>1. /\ sent' = sent
        /\ \A q \in Reconcilers : outbox'[q] = IF q = r THEN {} ELSE outbox[q]
    BY <1>1, <1>7 DEF Crash, TypeOK
  <2> QED
    BY <1>1, <2>1, NoNewNote
<1>8. ASSUME NEW r \in Reconcilers, TickStep(r) PROVE NoteSound(n)'
  <2>1. CASE PollRead(r) \/ BeginTx(r) \/ SettleInactive(r) \/ TeardownDone(r)
             \/ CancelChildRuns(r) \/ InvalidateStale(r) \/ Solicit(r)
    BY <1>2, <2>1 DEF PollRead, BeginTx, SettleInactive, TeardownDone,
                      CancelChildRuns, StopRun, InvalidateStale, Solicit
  <2>2. CASE ApplyRejected(r) \/ ClaimReady(r)
    BY <1>2, <2>2 DEF ApplyRejected, ClaimReady
  <2>3. ASSUME NEW phase, NEW next, SkipPhase(r, phase, next) PROVE NoteSound(n)'
    BY <1>2, <2>3 DEF SkipPhase
  <2>4. ASSUME NEW u \in Tasks, \/ ExecuteBuiltin(r, u) \/ CreateRun(r, u)
                                \/ EnqueueRun(r, u) \/ DispatchFails(r, u)
        PROVE  NoteSound(n)'
    BY <1>2, <2>4 DEF ExecuteBuiltin, CreateRun, EnqueueRun, DispatchFails
  <2> QED
    BY <1>3, <1>4, <1>5, <1>6, <1>8, <2>1, <2>2, <2>3, <2>4 DEF TickStep
<1>9. CASE Reconcile
  <2>1. ASSUME NEW r \in Reconcilers, StartTick(r) PROVE NoteSound(n)'
    BY <1>2, <2>1 DEF StartTick
  <2>2. ASSUME NEW r \in Reconcilers, NEW phase, NEW next, PhaseFails(r, phase, next)
        PROVE  NoteSound(n)'
    BY <1>2, <2>2 DEF PhaseFails
  <2>3. ASSUME NEW r \in Reconcilers, NEW u \in Tasks, Heartbeat(r, u) PROVE NoteSound(n)'
    BY <1>2, <2>3 DEF Heartbeat, locals
  <2> QED
    BY <1>7, <1>8, <1>9, <2>1, <2>2, <2>3 DEF Reconcile, TickFault
<1>10. CASE Users
  <2>1. UNCHANGED <<outbox, sent>>
    BY <1>10 DEF Users, startWorkflow, pauseWorkflow, resumeWorkflow, StatusChange,
       renameWorkflowCas, cancelWorkflow, CancelCollected, StopRun, WebCrash,
       markManualDone, decideWorkflowApproval, updatePausedSpec, locals
  <2> QED
    BY <1>2, <2>1
<1>11. CASE Runs \/ Clock
  BY <1>2, <1>11 DEF Runs, RunEnds, Clock, DueArrives, SolicitationArrives, RowAges,
                     LeaseExpires, locals
<1>12. CASE UNCHANGED vars
  BY <1>2, <1>12 DEF vars
<1> QED
  BY <1>1, <1>9, <1>10, <1>11, <1>12 DEF Next

(* However many reconcilers tick at once, a dead letter and the end of the *)
(* workflow are announced at most once (emitReconcileNotifications).       *)
THEOREM AnnouncedOnce == Spec => []NotifiedAtMostOnce
<1>1. Init => NotesSound
  BY DEF Init, NotesSound, NoteSound
<1>2. NotesSound /\ TypeOK /\ AllSound /\ TxSound /\ TypeOK' /\ [Next]_vars => NotesSound'
  BY NextNotes DEF Step
<1>3. NotesSound => NotifiedAtMostOnce
  BY DEF NotesSound, NoteSound, NotifiedAtMostOnce
<1> QED
  BY <1>1, <1>2, <1>3, TypeCorrect, AlwaysSound, AlwaysTx, PTL DEF Spec

-----------------------------------------------------------------------------
(* Moves of attempts, leases and the workflow.                             *)

(* What an attempt's status can do in a step.                              *)
StatusesKept(t) ==
  \A n \in DOMAIN attempts[t] :
    n \in DOMAIN attempts'[t] /\ attempts'[t][n].status = attempts[t][n].status

StatusesSettle(t) ==
  \A n \in DOMAIN attempts[t] :
    \/ attempts'[t][n].status = attempts[t][n].status
    \/ /\ attempts[t][n].status = "running"
       /\ attempts'[t][n].status \in {"succeeded", "failed"}

LEMMA SetRunKeeps ==
  ASSUME TypeOK, NEW t \in Tasks, NEW u \in Tasks, NEW n, NEW run,
         attempts' = SetRun(u, n, run)
  PROVE  StatusesKept(t)
<1>1. attempts'[t] = IF t = u THEN [attempts[t] EXCEPT ![n] = WithRun(@, run)] ELSE attempts[t]
  BY DEF SetRun, TypeOK
<1> QED
  BY <1>1, AttemptsOf DEF StatusesKept, WithRun, Attempt

(* pollRunningAgentTasks does not touch a task with a lease.               *)
LEMMA SettlePolledMoves ==
  ASSUME Step, NEW r \in Reconcilers, SettlePolled(r), NEW t \in Tasks
  PROVE  StatusesKept(t) \/ (StatusesSettle(t) /\ lease[t].token = NoOne)
<1> DEFINE live == {p \in polled[r] : StillPolled(p)}
           done == {p.task : p \in live}
           no   == [u \in done |-> (CHOOSE p \in live : p.task = u).no]
           bad  == {p.task : p \in {q \in live : q.failed}}
<1>1. attempts' = [u \in Tasks |->
           IF u \in done
           THEN [attempts[u] EXCEPT ![no[u]] =
                   WithStatus(@, IF u \in bad THEN "failed" ELSE "succeeded")]
           ELSE attempts[u]]
  BY DEF SettlePolled
<1>2. t \in done => IsRunning(t, no[t]) /\ attempts[t][no[t]].child
  BY DEF StillPolled
<1> HIDE DEF live, done, no, bad
<1>3. CASE t \notin done
  BY <1>1, <1>3 DEF StatusesKept
<1>4. CASE t \in done
  <2>1. no[t] = Len(attempts[t]) /\ no[t] \in DOMAIN attempts[t]
    BY <1>2, <1>4 DEF Step, AllSound, Sound, IsRunning
  <2>2. lease[t].token = NoOne
    BY <1>2, <1>4, <2>1 DEF Step, AllSound, Sound
  <2>3. attempts'[t] = [attempts[t] EXCEPT ![no[t]] =
                          WithStatus(@, IF t \in bad THEN "failed" ELSE "succeeded")]
    BY <1>1, <1>4
  <2> QED
    BY <1>2, <1>4, <2>2, <2>3 DEF StatusesSettle, WithStatus, IsRunning
<1> QED
  BY <1>3, <1>4

(* recordOutcomes touches what the dispatcher owns, and lets go of it.     *)
LEMMA RecordOutcomesMoves ==
  ASSUME Step, NEW r \in Reconcilers, RecordOutcomes(r), NEW t \in Tasks
  PROVE  /\ StatusesSettle(t)
         /\ \/ lease'[t].token = NoOne /\ lease[t].token = r
            \/ StatusesKept(t) /\ lease'[t] = lease[t]
         /\ claim'[r][t].out = "none"
<1> DEFINE mine    == {u \in Tasks : claim[r][u].out # "none"}
           no      == [u \in Tasks |-> claim[r][u].no]
           out     == [u \in Tasks |-> claim[r][u].out]
           owned   == {u \in mine : OwnsLease(r, u)}
           applied == {u \in owned : task[u] = "running" /\ IsRunning(u, no[u])}
<1>1. /\ lease' = [u \in Tasks |-> IF u \in owned THEN Released(u) ELSE lease[u]]
      /\ attempts' = [u \in Tasks |->
           IF u \in applied
           THEN [attempts[u] EXCEPT ![no[u]] =
                   [status |-> out[u], run |-> @.run,
                    child |-> out[u] = "running" /\ Type[u] = "agent_task"]]
           ELSE attempts[u]]
      /\ \A u \in mine : out[u] \in {"running", "succeeded", "failed"}
  BY DEF RecordOutcomes
<1>2. /\ t \in owned => t \in mine /\ lease[t].token = r
      /\ t \in applied => t \in owned /\ IsRunning(t, no[t])
  BY DEF OwnsLease
<1>3. claim'[r][t].out = "none"
  BY DEF RecordOutcomes, NoClaims, NoClaim, Step, TypeOK
<1> HIDE DEF mine, no, out, owned, applied
<1>4. CASE t \notin applied
  BY <1>1, <1>2, <1>3, <1>4 DEF StatusesKept, StatusesSettle, Released, NoLease
<1>5. CASE t \in applied
  <2>1. attempts'[t] = [attempts[t] EXCEPT ![no[t]] =
                          [status |-> out[t], run |-> @.run,
                           child |-> out[t] = "running" /\ Type[t] = "agent_task"]]
    BY <1>1, <1>5
  <2>2. out[t] \in {"running", "succeeded", "failed"} /\ lease'[t].token = NoOne
    BY <1>1, <1>2, <1>5 DEF Released, NoLease
  <2>3. StatusesSettle(t)
    BY <1>2, <1>5, <2>1, <2>2 DEF StatusesSettle, IsRunning
  <2> QED
    BY <1>2, <1>3, <1>5, <2>2, <2>3
<1> QED
  BY <1>4, <1>5

(* claimReadyTasks takes a lease from nobody whose lease has not expired,  *)
(* and none of an agent_task that has one but by taking it over.           *)
LEMMA ClaimReadyMoves ==
  ASSUME Step, NEW r \in Reconcilers, ClaimReady(r), NEW t \in Tasks
  PROVE  /\ StatusesSettle(t)
         /\ \/ /\ lease'[t].token = NoOne
               /\ lease[t].token = NoOne \/ Type[t] # "agent_task"
            \/ /\ IsRunning(t, lease[t].no)'
               /\ lease[t].token = NoOne \/ Type[t] # "agent_task"
            \/ /\ StatusesKept(t) /\ lease[t].token # NoOne
               /\ lease'[t].no = lease[t].no
               /\ lease[t].expired \/ lease'[t].token = lease[t].token
<1>0. TypeOK /\ Sound(t)
  BY DEF Step, AllSound
<1>1. PICK reclaimed \in SUBSET Reclaimable, claimed \in SUBSET Tasks :
        /\ ClaimBatch(r, reclaimed, claimed)
        /\ \A u \in claimed : u \in Crashed \/ task[u] \in {"idle", "scheduled"}
  BY DEF ClaimReady, Batches
<1> DEFINE past   == [u \in Tasks |-> IF u \in Crashed THEN StaleAttempts(u) ELSE attempts[u]]
           number == [u \in Tasks |->
                        IF u \in reclaimed
                        THEN CHOOSE n \in DOMAIN attempts[u] : LatestRunning(u, n)
                        ELSE Len(attempts[u]) + 1]
           rest   == Crashed \ claimed
<1>2. /\ attempts' = [u \in Tasks |-> IF u \in claimed
                                      THEN Append(past[u], NewAttempt)
                                      ELSE past[u]]
      /\ lease' = [u \in Tasks |->
           CASE u \in claimed -> AcquiredLease(r, number[u])
             [] u \in reclaimed -> TakenOver(r, u)
             [] u \in rest -> Released(u)
             [] OTHER -> lease[u]]
  BY <1>1 DEF ClaimBatch
<1>3. /\ Len(past[t]) = Len(attempts[t]) /\ DOMAIN past[t] = DOMAIN attempts[t]
      /\ past[t] \in Seq(Attempt)
  BY <1>0, StaleAttemptsSettled, AttemptsOf
<1>4. \A n \in DOMAIN attempts[t] :
        \/ past[t][n].status = attempts[t][n].status
        \/ attempts[t][n].status = "running" /\ past[t][n].status = "failed"
  BY DEF StaleAttempts, WithStatus
<1>5. t \notin Crashed => past[t] = attempts[t]
  OBVIOUS
<1>6. t \in Crashed => task[t] = "running" /\ Type[t] # "agent_task"
  BY DEF Crashed, INSTANTANEOUS_EXECUTOR_TYPES
<1>7. t \in reclaimed => /\ t \notin claimed /\ t \notin Crashed
                         /\ lease[t].token # NoOne /\ lease[t].expired
  BY <1>1 DEF Reclaimable, Crashed, INSTANTANEOUS_EXECUTOR_TYPES
<1>8. t \notin reclaimed => number[t] = Len(attempts[t]) + 1
  OBVIOUS
<1>9. t \in rest <=> t \in Crashed /\ t \notin claimed
  OBVIOUS
<1> HIDE DEF past, number, rest
<1>10. Len(attempts[t]) \in Nat /\ DOMAIN attempts[t] = 1 .. Len(attempts[t])
  BY <1>0, AttemptsOf
<1>11. CASE t \in claimed
  <2>1. /\ attempts'[t] = Append(past[t], NewAttempt)
        /\ lease'[t] = AcquiredLease(r, Len(attempts[t]) + 1)
    <3>1. number[t] = Len(attempts[t]) + 1
      BY <1>7, <1>8, <1>11
    <3>2. lease'[t] = AcquiredLease(r, number[t])
      BY <1>2, <1>7, <1>9, <1>11
    <3> QED
      BY <1>2, <1>11, <3>1, <3>2
  <2>2. NewAttempt \in Attempt /\ NewAttempt.status = "running"
    BY DEF NewAttempt, Attempt, ATTEMPT_STATUSES, RunStatuses
  <2>3. /\ DOMAIN attempts'[t] = 1 .. (Len(attempts[t]) + 1)
        /\ attempts'[t][Len(attempts[t]) + 1] = NewAttempt
        /\ \A n \in 1 .. Len(attempts[t]) : attempts'[t][n] = past[t][n]
    BY <1>3, <1>10, <2>1, <2>2, AppendProperties, LenProperties
  <2>4. IsRunning(t, lease[t].no)'
    BY <1>10, <2>1, <2>2, <2>3 DEF IsRunning, AcquiredLease
  <2>5. StatusesSettle(t)
    BY <1>4, <1>10, <2>3 DEF StatusesSettle
  <2>6. lease[t].token = NoOne \/ Type[t] # "agent_task"
    BY <1>0, <1>1, <1>6, <1>11 DEF Sound
  <2> QED
    BY <2>4, <2>5, <2>6
<1>12. CASE t \in Crashed /\ t \notin claimed
  <2>1. attempts'[t] = past[t] /\ lease'[t] = NoLease
    BY <1>2, <1>7, <1>9, <1>12 DEF Released
  <2> QED
    BY <1>4, <1>6, <1>12, <2>1 DEF StatusesSettle, NoLease
<1>13. CASE t \in reclaimed
  <2>1. attempts'[t] = attempts[t] /\ lease'[t] = TakenOver(r, t)
    BY <1>2, <1>5, <1>7, <1>9, <1>13
  <2>2. lease'[t].no = lease[t].no
    BY <2>1 DEF TakenOver
  <2> QED
    BY <1>7, <1>13, <2>1, <2>2 DEF StatusesKept, StatusesSettle
<1>14. CASE t \notin claimed /\ t \notin Crashed /\ t \notin reclaimed
  <2>1. attempts'[t] = attempts[t] /\ lease'[t] = lease[t]
    BY <1>2, <1>5, <1>9, <1>14
  <2> QED
    BY <2>1 DEF StatusesKept, StatusesSettle
<1> QED
  BY <1>11, <1>12, <1>13, <1>14

(* The lease of t stays with its owner and attempt, no attempt moves.      *)
DispatchKept(t) ==
  /\ lease'[t].token = lease[t].token /\ lease'[t].no = lease[t].no
  /\ StatusesKept(t)

(* The operations that move leases or attempts.                            *)
LEMMA DispatchWriters ==
  ASSUME TypeOK, [Next]_vars, NEW t \in Tasks
  PROVE  \/ DispatchKept(t)
         \/ \E r \in Reconcilers : \/ SettlePolled(r) \/ RecordOutcomes(r)
                                   \/ ApplyRejected(r) \/ ClaimReady(r) \/ Finalize(r)
         \/ cancelWorkflow
<1>1. ASSUME NEW u \in Tasks, NEW n, NEW run, lease' = lease,
             attempts' = SetRun(u, n, run) \/ attempts' = attempts
      PROVE  DispatchKept(t)
  BY <1>1, SetRunKeeps DEF DispatchKept, StatusesKept
<1>2. ASSUME UNCHANGED <<lease, attempts>> PROVE DispatchKept(t)
  BY <1>2 DEF DispatchKept, StatusesKept
<1>3. ASSUME NEW u \in Tasks, NEW expired, attempts' = attempts,
             lease' = [lease EXCEPT ![u] = WithExpiry(@, expired)]
      PROVE  DispatchKept(t)
  BY <1>3 DEF TypeOK, WithExpiry, DispatchKept, StatusesKept
<1>4. ASSUME NEW x \in Actors, NEW k \in kill[x], NEW ok, StopRun(x, k, ok) PROVE DispatchKept(t)
  <2>1. k[1] \in Tasks
    BY DEF TypeOK, RunKeys
  <2> QED
    BY <1>1, <1>4, <2>1 DEF StopRun
<1>5. ASSUME NEW r \in Reconcilers, TickStep(r)
      PROVE  DispatchKept(t) \/ SettlePolled(r) \/ RecordOutcomes(r)
             \/ ApplyRejected(r) \/ ClaimReady(r) \/ Finalize(r)
  <2>1. CASE PollRead(r) \/ BeginTx(r) \/ SettleInactive(r) \/ TeardownDone(r)
             \/ InvalidateStale(r) \/ Solicit(r) \/ Notify(r)
    BY <1>2, <2>1 DEF PollRead, BeginTx, SettleInactive, TeardownDone,
                      InvalidateStale, Solicit, Notify, rows
  <2>2. ASSUME NEW phase, NEW next, SkipPhase(r, phase, next) PROVE DispatchKept(t)
    BY <1>2, <2>2 DEF SkipPhase, rows
  <2>3. CASE CancelChildRuns(r)
    BY <1>4, <2>3 DEF CancelChildRuns, Actors
  <2>4. ASSUME NEW u \in Tasks, CreateRun(r, u) \/ EnqueueRun(r, u) PROVE DispatchKept(t)
    BY <1>1, <2>4 DEF CreateRun, EnqueueRun
  <2>5. ASSUME NEW u \in Tasks, ExecuteBuiltin(r, u) \/ DispatchFails(r, u) PROVE DispatchKept(t)
    BY <1>2, <2>5 DEF ExecuteBuiltin, DispatchFails, rows
  <2> QED
    BY <1>5, <2>1, <2>2, <2>3, <2>4, <2>5 DEF TickStep
<1>6. CASE Reconcile
  <2>1. ASSUME NEW r \in Reconcilers, StartTick(r) \/ TickFault(r) PROVE DispatchKept(t)
    BY <1>2, <2>1 DEF StartTick, TickFault, Crash, PhaseFails, rows
  <2>2. ASSUME NEW r \in Reconcilers, NEW u \in Tasks, Heartbeat(r, u) PROVE DispatchKept(t)
    BY <1>3, <2>2 DEF Heartbeat
  <2> QED
    BY <1>5, <1>6, <2>1, <2>2 DEF Reconcile
<1>7. CASE Users
  <2>1. CASE startWorkflow \/ pauseWorkflow \/ resumeWorkflow \/ renameWorkflowCas \/ WebCrash
    BY <1>2, <2>1 DEF startWorkflow, pauseWorkflow, resumeWorkflow, StatusChange,
                      renameWorkflowCas, WebCrash, rows
  <2>2. CASE CancelCollected
    BY <1>4, <2>2 DEF CancelCollected, Actors
  <2>3. ASSUME NEW u \in Tasks, markManualDone(u) PROVE DispatchKept(t)
    BY <1>2, <2>3 DEF markManualDone
  <2>4. ASSUME NEW u \in Gated, NEW d, decideWorkflowApproval(u, d) PROVE DispatchKept(t)
    BY <1>2, <2>4 DEF decideWorkflowApproval
  <2>5. ASSUME NEW u \in Tasks, NEW x \in Titles, updatePausedSpec(u, x) PROVE DispatchKept(t)
    BY <1>2, <2>5 DEF updatePausedSpec, diffApplySpecRows
  <2> QED
    BY <1>7, <2>1, <2>2, <2>3, <2>4, <2>5 DEF Users
<1>8. CASE Runs
  BY <1>1, <1>8 DEF Runs, RunEnds
<1>9. CASE Clock
  <2>1. ASSUME NEW u \in Tasks, LeaseExpires(u) PROVE DispatchKept(t)
    BY <1>3, <2>1 DEF LeaseExpires
  <2>2. ASSUME NEW u \in Tasks, DueArrives(u) \/ SolicitationArrives(u) \/ RowAges(u)
        PROVE  DispatchKept(t)
    BY <1>2, <2>2 DEF DueArrives, SolicitationArrives, RowAges
  <2> QED
    BY <1>9, <2>1, <2>2 DEF Clock
<1>10. CASE UNCHANGED vars
  BY <1>2, <1>10 DEF vars
<1> QED
  BY <1>5, <1>6, <1>7, <1>8, <1>9, <1>10 DEF Next

(* What a step can do to the lease of a task: end or lack it, give a new   *)
(* attempt one, or leave it with its attempt - and with its owner unless   *)
(* it expired.                                                             *)
LeaseGone(t) ==
  /\ lease'[t].token = NoOne
  /\ \/ lease[t].token = NoOne \/ Type[t] # "agent_task" \/ wf'.status # "active"
     \/ claim'[lease[t].token][t].out = "none"

LeaseTaken(t) ==
  /\ IsRunning(t, lease[t].no)'
  /\ lease[t].token = NoOne \/ Type[t] # "agent_task"

LeaseKept(t) ==
  /\ StatusesKept(t) /\ lease[t].token # NoOne
  /\ lease'[t].no = lease[t].no
  /\ lease[t].expired \/ lease'[t].token = lease[t].token

LEMMA LeaseStep ==
  ASSUME Step, NEW t \in Tasks
  PROVE  LeaseGone(t) \/ LeaseTaken(t) \/ LeaseKept(t)
<1>1. ASSUME DispatchKept(t) PROVE LeaseGone(t) \/ LeaseKept(t)
  BY <1>1 DEF DispatchKept, LeaseGone, LeaseKept
<1>2. ASSUME NEW r \in Reconcilers, SettlePolled(r) PROVE LeaseGone(t) \/ LeaseKept(t)
  <2>1. lease' = lease
    BY <1>2 DEF SettlePolled
  <2> QED
    BY <1>1, <1>2, <2>1, SettlePolledMoves DEF DispatchKept, LeaseGone
<1>3. ASSUME NEW r \in Reconcilers, RecordOutcomes(r) PROVE LeaseGone(t) \/ LeaseKept(t)
  BY <1>1, <1>3, RecordOutcomesMoves DEF DispatchKept, LeaseGone
<1>4. ASSUME NEW r \in Reconcilers, ClaimReady(r)
      PROVE  LeaseGone(t) \/ LeaseTaken(t) \/ LeaseKept(t)
  BY <1>4, ClaimReadyMoves DEF LeaseGone, LeaseTaken, LeaseKept
<1>5. ASSUME NEW r \in Reconcilers, ApplyRejected(r) PROVE LeaseGone(t) \/ LeaseKept(t)
  <2>1. \/ wf'.status = "cancelled" /\ lease'[t] = NoLease
        \/ lease' = lease /\ attempts' = attempts
    BY <1>5 DEF ApplyRejected, WriteWorkflow, Released
  <2> QED
    BY <1>1, <2>1 DEF LeaseGone, NoLease, DispatchKept, StatusesKept
<1>6. ASSUME NEW r \in Reconcilers, Finalize(r) PROVE LeaseGone(t) \/ LeaseKept(t)
  <2>1. \/ wf'.status # "active" /\ lease'[t] = NoLease
        \/ lease' = lease /\ attempts' = attempts
    BY <1>6 DEF Finalize, WriteWorkflow, Released
  <2> QED
    BY <1>1, <2>1 DEF LeaseGone, NoLease, DispatchKept, StatusesKept
<1>7. CASE cancelWorkflow
  BY <1>7 DEF cancelWorkflow, WriteWorkflow, Released, NoLease, LeaseGone
<1> QED
  BY <1>1, <1>2, <1>3, <1>4, <1>5, <1>6, <1>7, DispatchWriters DEF Step

(* While there is a lease its attempt is running: what settles an attempt  *)
(* releases the lease, and the poll path leaves leased attempts alone.     *)
LeasedRuns == \A t \in Tasks : lease[t].token # NoOne => IsRunning(t, lease[t].no)

LEMMA NextLeased == LeasedRuns /\ Step => LeasedRuns'
<1> SUFFICES ASSUME LeasedRuns, Step, NEW t \in Tasks, lease'[t].token # NoOne
             PROVE  IsRunning(t, lease[t].no)'
  BY DEF LeasedRuns
<1>1. CASE LeaseTaken(t)
  BY <1>1 DEF LeaseTaken
<1>2. CASE LeaseKept(t)
  BY <1>2 DEF LeaseKept, StatusesKept, LeasedRuns, IsRunning
<1> QED
  BY <1>1, <1>2, LeaseStep DEF LeaseGone

(* A dispatcher that keeps its lease alive is the one that settles its     *)
(* dispatch (acquireDispatchLease, takeOverDispatchLease, recordOutcomes). *)
THEOREM LiveDispatchesKept == Spec => LiveDispatchProtected
<1>1. Init => LeasedRuns
  BY DEF Init, insertSpecRows, NoLease, LeasedRuns
<1>2. LeasedRuns /\ TypeOK /\ AllSound /\ TxSound /\ TypeOK' /\ [Next]_vars => LeasedRuns'
  BY NextLeased DEF Step
<1>3. LeasedRuns /\ TypeOK /\ AllSound /\ TxSound /\ TypeOK' /\ [Next]_vars =>
        \A r \in Reconcilers, t \in Tasks :
          /\ Type[t] = "agent_task" /\ lease[t].token = r /\ ~lease[t].expired
          /\ claim[r][t].out # "none" /\ claim'[r][t].out # "none"
          /\ wf'.status = "active"
          => lease'[t].token = r /\ attempts'[t][lease[t].no].status = "running"
  <2> SUFFICES ASSUME LeasedRuns, Step, NEW r \in Reconcilers, NEW t \in Tasks,
                      Type[t] = "agent_task", lease[t].token = r, ~lease[t].expired,
                      claim'[r][t].out # "none", wf'.status = "active"
               PROVE  lease'[t].token = r /\ attempts'[t][lease[t].no].status = "running"
    BY DEF Step
  <2>1. lease[t].token # NoOne /\ IsRunning(t, lease[t].no)
    BY ProcessAssumption DEF LeasedRuns
  <2>2. LeaseKept(t)
    BY <2>1, LeaseStep DEF LeaseGone, LeaseTaken
  <2> QED
    BY <2>1, <2>2 DEF LeaseKept, StatusesKept, IsRunning
<1> QED
  BY <1>1, <1>2, <1>3, TypeCorrect, AlwaysSound, AlwaysTx, PTL DEF Spec, LiveDispatchProtected

(* How the status of the workflow moves.                                   *)
LEMMA WorkflowMoves ==
  ASSUME Step, wf'.status # wf.status
  PROVE  wf'.status \in WORKFLOW_TRANSITIONS(wf.status)
<1>1. ASSUME NEW r \in Reconcilers, ApplyRejected(r) \/ Finalize(r)
      PROVE  wf.status = "active" /\ wf'.status \in {"completed", "failed", "cancelled"}
  <2>1. CASE ApplyRejected(r)
    <3>1. WorkflowCas /\ wf'.status = "cancelled"
      BY <2>1 DEF ApplyRejected, WriteWorkflow
    <3> QED
      BY <2>1, <3>1, CasActive DEF ApplyRejected, InTx, Step
  <2>2. CASE Finalize(r)
    <3>1. PICK S \in SkipSets : Finalize(r)!2!(S)
      BY <2>2 DEF Finalize
    <3>2. WorkflowCas /\ wf'.status = NextStatus(S) /\ NextStatus(S) # "active"
      BY <3>1 DEF WriteWorkflow
    <3>3. NextStatus(S) \in {"completed", "failed"}
      BY <3>2 DEF NextStatus, rollUpWorkflowStatus
    <3> QED
      BY <2>2, <3>2, <3>3, CasActive DEF Finalize, InTx, Step
  <2> QED
    BY <1>1, <2>1, <2>2
<1>2. ASSUME NEW r \in Reconcilers, TickStep(r)
      PROVE  ApplyRejected(r) \/ Finalize(r)
  <2>1. ~(PollRead(r) \/ BeginTx(r) \/ SettleInactive(r) \/ TeardownDone(r) \/ Notify(r)
          \/ CancelChildRuns(r) \/ InvalidateStale(r) \/ Solicit(r) \/ SettlePolled(r)
          \/ RecordOutcomes(r) \/ ClaimReady(r))
    BY DEF PollRead, BeginTx, SettleInactive, TeardownDone, Notify, CancelChildRuns, StopRun,
           InvalidateStale, Solicit, SettlePolled, RecordOutcomes, ClaimReady, rows
  <2>2. ASSUME NEW phase, NEW next, SkipPhase(r, phase, next) PROVE FALSE
    BY <2>2 DEF SkipPhase, rows
  <2>3. ASSUME NEW u \in Tasks, \/ ExecuteBuiltin(r, u) \/ CreateRun(r, u)
                                \/ EnqueueRun(r, u) \/ DispatchFails(r, u)
        PROVE  FALSE
    BY <2>3 DEF ExecuteBuiltin, CreateRun, EnqueueRun, DispatchFails, rows
  <2> QED
    BY <1>2, <2>1, <2>2, <2>3 DEF TickStep
<1>3. CASE Reconcile
  <2>1. ASSUME NEW r \in Reconcilers, StartTick(r) \/ TickFault(r) PROVE FALSE
    BY <2>1 DEF StartTick, TickFault, Crash, PhaseFails, rows
  <2>2. ASSUME NEW r \in Reconcilers, NEW u \in Tasks, Heartbeat(r, u) PROVE FALSE
    BY <2>2 DEF Heartbeat
  <2>3. wf.status = "active" /\ wf'.status \in {"completed", "failed", "cancelled"}
    BY <1>1, <1>2, <1>3, <2>1, <2>2 DEF Reconcile
  <2> QED
    BY <2>3 DEF WORKFLOW_TRANSITIONS
<1>4. CASE Users
  <2>1. ~renameWorkflowCas /\ ~CancelCollected /\ ~WebCrash
    BY DEF renameWorkflowCas, WriteWorkflow, CancelCollected, StopRun, WebCrash, rows
  <2>2. ASSUME NEW u \in Tasks, markManualDone(u) PROVE FALSE
    BY <2>2 DEF markManualDone
  <2>3. ASSUME NEW u \in Gated, NEW d, decideWorkflowApproval(u, d) PROVE FALSE
    BY <2>3 DEF decideWorkflowApproval
  <2>4. ASSUME NEW u \in Tasks, NEW x \in Titles, updatePausedSpec(u, x) PROVE FALSE
    BY <2>4 DEF updatePausedSpec, WriteWorkflow
  <2>5. \/ wf.status = "draft" /\ wf'.status = "active"
        \/ wf.status = "active" /\ wf'.status \in {"paused", "cancelled"}
        \/ wf.status = "paused" /\ wf'.status \in {"active", "cancelled"}
    BY <1>4, <2>1, <2>2, <2>3, <2>4 DEF Users, startWorkflow, pauseWorkflow, resumeWorkflow,
       StatusChange, cancelWorkflow, WriteWorkflow
  <2> QED
    BY <2>5 DEF WORKFLOW_TRANSITIONS
<1>5. ~Runs /\ ~Clock /\ ~UNCHANGED vars
  BY DEF Runs, RunEnds, Clock, DueArrives, SolicitationArrives, RowAges, LeaseExpires, vars
<1> QED
  BY <1>3, <1>4, <1>5 DEF Next, Step

(* How the status of an attempt moves.                                     *)
LEMMA AttemptMoves ==
  ASSUME Step, NEW t \in Tasks
  PROVE  StatusesSettle(t)
<1>1. DispatchKept(t) \/ StatusesKept(t) => StatusesSettle(t)
  BY DEF DispatchKept, StatusesKept, StatusesSettle
<1>2. attempts'[t] = attempts[t] => StatusesSettle(t)
  BY DEF StatusesSettle
<1>3. ASSUME NEW r \in Reconcilers, ApplyRejected(r) \/ Finalize(r)
      PROVE  StatusesSettle(t)
  BY <1>2, <1>3 DEF ApplyRejected, Finalize
<1>4. cancelWorkflow => StatusesSettle(t)
  BY <1>2 DEF cancelWorkflow
<1> QED
  BY <1>1, <1>3, <1>4, DispatchWriters, SettlePolledMoves, RecordOutcomesMoves,
     ClaimReadyMoves DEF Step

(* The workflow and its attempts only move along the tables of             *)
(* state/transitions.ts: a pause that lands in a tick is not overwritten   *)
(* by that tick, and an attempt is settled once (finalizeWorkflow,         *)
(* recordOutcomes, pollRunningAgentTasks).                                 *)
THEOREM MovesAreLegal == Spec => LegalMoves
<1>1. TypeOK /\ AllSound /\ TxSound /\ TypeOK' /\ [Next]_vars =>
        /\ wf'.status # wf.status => wf'.status \in WORKFLOW_TRANSITIONS(wf.status)
        /\ \A t \in Tasks : \A n \in DOMAIN attempts[t] :
             LET now == attempts[t][n].status  after == attempts'[t][n].status
             IN  after # now => after \in ATTEMPT_TRANSITIONS(now)
  <2> SUFFICES ASSUME Step, NEW t \in Tasks, NEW n \in DOMAIN attempts[t],
                      attempts'[t][n].status # attempts[t][n].status
               PROVE  attempts'[t][n].status \in ATTEMPT_TRANSITIONS(attempts[t][n].status)
    BY WorkflowMoves DEF Step
  <2>1. attempts[t][n].status = "running" /\ attempts'[t][n].status \in {"succeeded", "failed"}
    BY AttemptMoves DEF StatusesSettle
  <2> QED
    BY <2>1 DEF ATTEMPT_TRANSITIONS
<1> QED
  BY <1>1, TypeCorrect, AlwaysSound, AlwaysTx, PTL DEF Spec, LegalMoves
=============================================================================
