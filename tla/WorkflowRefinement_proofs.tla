----------------------- MODULE WorkflowRefinement_proofs -----------------------
(***************************************************************************)
(* The engine implements DurableTasks, for every graph, any number of      *)
(* reconcilers and any number of crashes; and what DurableTasks promises   *)
(* therefore holds of the rows in the database.                            *)
(*                                                                         *)
(* Besides TypeOK and AllSound one fact is needed: what a transaction may  *)
(* conclude from the workflow row it read before users that take no lock   *)
(* wrote it (TxSound).                                                     *)
(***************************************************************************)
EXTENDS WorkflowEngine_proofs, WorkflowRefinement

(* While a transaction is open the workflow row only moves forward, it is  *)
(* the row that was read as long as lock_version is, and a workflow that   *)
(* was active is at most paused: only a lock holder ends it.               *)
TxSound ==
  tx.holder # NoOne =>
    /\ tx.ver <= wf.ver
    /\ tx.ver = wf.ver => tx.status = wf.status
    /\ tx.status = "active" => wf.status \in {"active", "paused"}

(* A step that ends the transaction, or changes neither the transaction    *)
(* nor the workflow row, keeps it sound.                                   *)
LEMMA KeepsTx ==
  ASSUME TxSound, tx' = NoTx \/ UNCHANGED <<tx, wf>>
  PROVE  TxSound'
BY DEF TxSound, NoTx

(* The writers that take no lock.                                          *)
LEMMA UnlockedTx ==
  ASSUME TypeOK, TxSound, tx' = tx, NEW status, WriteWorkflow(status),
         status \in {"active", "paused"} \/ status = wf.status
  PROVE  TxSound'
<1>1. wf.ver \in Nat /\ tx.ver \in Nat
  BY DEF TypeOK
<1>2. wf'.ver = wf.ver + 1 /\ wf'.status = status
  BY DEF WriteWorkflow
<1> QED
  BY <1>1, <1>2 DEF TxSound

LEMMA InitTx == Init => TxSound
BY DEF Init, TxSound, NoTx

LEMMA NextTx == TypeOK /\ TxSound /\ [Next]_vars => TxSound'
<1> SUFFICES ASSUME TypeOK, TxSound, [Next]_vars PROVE TxSound'
  OBVIOUS
<1>1. ASSUME NEW r \in Reconcilers, TickStep(r) PROVE TxSound'
  <2>1. CASE BeginTx(r)
    BY <2>1 DEF BeginTx, TxSound, TypeOK, rows
  <2>2. CASE SettlePolled(r) \/ SettleInactive(r) \/ ApplyRejected(r) \/ InvalidateStale(r)
             \/ ClaimReady(r) \/ Finalize(r) \/ Solicit(r)
    BY <2>2, KeepsTx DEF SettlePolled, SettleInactive, ApplyRejected, InvalidateStale,
                         ClaimReady, Finalize, Solicit, Commit
  <2>3. ASSUME NEW phase, NEW next, SkipPhase(r, phase, next) PROVE TxSound'
    BY <2>3, KeepsTx DEF SkipPhase, Commit
  <2>4. CASE PollRead(r) \/ TeardownDone(r) \/ Notify(r) \/ CancelChildRuns(r)
             \/ RecordOutcomes(r)
    BY <2>4, KeepsTx DEF PollRead, TeardownDone, Notify, CancelChildRuns, StopRun,
                         RecordOutcomes, rows
  <2>5. ASSUME NEW t \in Tasks, \/ ExecuteBuiltin(r, t) \/ CreateRun(r, t)
                                \/ EnqueueRun(r, t) \/ DispatchFails(r, t)
        PROVE  TxSound'
    BY <2>5, KeepsTx DEF ExecuteBuiltin, CreateRun, EnqueueRun, DispatchFails, rows
  <2> QED
    BY <1>1, <2>1, <2>2, <2>3, <2>4, <2>5 DEF TickStep
<1>2. ASSUME NEW r \in Reconcilers, TickFault(r) PROVE TxSound'
  BY <1>2, KeepsTx DEF TickFault, Crash, PhaseFails, Commit, rows
<1>3. CASE Reconcile
  <2>1. ASSUME NEW r \in Reconcilers, StartTick(r) PROVE TxSound'
    BY <2>1, KeepsTx DEF StartTick, rows
  <2>2. ASSUME NEW r \in Reconcilers, NEW t \in Tasks, Heartbeat(r, t) PROVE TxSound'
    BY <2>2, KeepsTx DEF Heartbeat, locals
  <2> QED
    BY <1>1, <1>2, <1>3, <2>1, <2>2 DEF Reconcile
<1>4. CASE Users
  <2>1. CASE startWorkflow \/ resumeWorkflow
    BY <2>1, UnlockedTx DEF startWorkflow, resumeWorkflow, StatusChange, locals
  <2>2. CASE pauseWorkflow
    BY <2>2, UnlockedTx DEF pauseWorkflow, StatusChange, locals
  <2>3. CASE renameWorkflowCas
    BY <2>3, UnlockedTx DEF renameWorkflowCas, locals
  <2>4. CASE cancelWorkflow
    BY <2>4 DEF cancelWorkflow, Unlocked, TxSound
  <2>5. CASE CancelCollected \/ WebCrash
    BY <2>5, KeepsTx DEF CancelCollected, StopRun, WebCrash, rows
  <2>6. ASSUME NEW t \in Tasks, markManualDone(t) PROVE TxSound'
    BY <2>6, KeepsTx DEF markManualDone, locals
  <2>7. ASSUME NEW t \in Gated, NEW d, decideWorkflowApproval(t, d) PROVE TxSound'
    BY <2>7, KeepsTx DEF decideWorkflowApproval, locals
  <2>8. ASSUME NEW t \in Tasks, NEW x \in Titles, updatePausedSpec(t, x) PROVE TxSound'
    BY <2>8 DEF updatePausedSpec, Unlocked, TxSound, locals
  <2> QED
    BY <1>4, <2>1, <2>2, <2>3, <2>4, <2>5, <2>6, <2>7, <2>8 DEF Users
<1>5. CASE Runs
  BY <1>5, KeepsTx DEF Runs, RunEnds, locals
<1>6. CASE Clock
  BY <1>6, KeepsTx DEF Clock, DueArrives, SolicitationArrives, RowAges, LeaseExpires, locals
<1>7. CASE UNCHANGED vars
  BY <1>7, KeepsTx DEF vars
<1> QED
  BY <1>3, <1>4, <1>5, <1>6, <1>7 DEF Next

LEMMA AlwaysTx == Spec => []TxSound
<1>1. Init => TxSound
  BY InitTx
<1>2. TypeOK /\ TxSound /\ [Next]_vars => TxSound'
  BY NextTx
<1> QED
  BY <1>1, <1>2, TypeCorrect, PTL DEF Spec

-----------------------------------------------------------------------------
(* The refinement mapping.                                                 *)

(* What a task row stands for.                                             *)
LEMMA AbstractStates ==
  /\ \A s \in TASK_STATUSES : Abstract(s) \in D!States
  /\ \A s : isTerminalTaskStatus(s) => Abstract(s) = s /\ s \in D!Ended
  /\ \A s \in TASK_STATUSES : Abstract(s) \in D!Ended <=> isTerminalTaskStatus(s)
  /\ \A s \in TASK_STATUSES : ~isTerminalTaskStatus(s) => Abstract(s) \in {"todo", "doing"}
  /\ Abstract("running") = "doing"
  /\ \A s \in {"idle", "scheduled"} : Abstract(s) = "todo"
BY DEF Abstract, TASK_STATUSES, isTerminalTaskStatus, D!States, D!Ended

(* The abstract state and tries of one task, now and after a step.         *)
LEMMA AbstractOf ==
  ASSUME NEW t \in Tasks
  PROVE  /\ abstractState[t] = Abstract(task[t])
         /\ abstractState'[t] = Abstract(task'[t])
         /\ abstractTries[t] = Len(attempts[t])
         /\ abstractTries'[t] = Len(attempts'[t])
BY DEF abstractState, abstractTries

(* The abstract variables are well typed after a step that is.             *)
LEMMA AbstractTypes ==
  ASSUME TypeOK'
  PROVE  /\ abstractState' \in [Tasks -> D!States]
         /\ abstractTries' \in [Tasks -> Nat]
<1>1. ASSUME NEW t \in Tasks PROVE abstractState'[t] \in D!States
  BY AbstractOf, AbstractStates DEF TypeOK
<1>2. ASSUME NEW t \in Tasks PROVE abstractTries'[t] \in Nat
  <2>1. attempts'[t] \in Seq(Attempt)
    BY DEF TypeOK
  <2> QED
    BY <2>1, AbstractOf, LenProperties
<1> QED
  BY <1>1, <1>2 DEF abstractState, abstractTries

(* A step is an abstract step if the life cycle and each task move as      *)
(* permitted.                                                              *)
LEMMA AbstractStep ==
  ASSUME TypeOK', D!LifeMove, \A t \in Tasks : D!Move(t)
  PROVE  D!Next
BY AbstractTypes DEF D!Next

(* A step below the abstraction.                                           *)
LEMMA Stutter ==
  ASSUME wf'.status = wf.status, task' = task,
         \A t \in Tasks : Len(attempts'[t]) = Len(attempts[t])
  PROVE  UNCHANGED D!vars
BY DEF D!vars, abstractState, abstractTries

(* The permitted moves, in terms of task and attempt rows.                 *)
LEMMA KeepMove ==
  ASSUME NEW t \in Tasks, task'[t] = task[t], Len(attempts'[t]) = Len(attempts[t])
  PROVE  D!Move(t)
BY AbstractOf DEF D!Move, D!Keep

LEMMA SettleMove ==
  ASSUME NEW t \in Tasks, task[t] = "running", task'[t] \in {"succeeded", "failed"},
         Len(attempts'[t]) = Len(attempts[t])
  PROVE  D!Move(t)
<1>1. abstractState[t] = "doing" /\ abstractState'[t] \in {"succeeded", "failed"}
  BY AbstractOf, AbstractStates DEF isTerminalTaskStatus
<1> QED
  BY <1>1, AbstractOf DEF D!Move, D!Settle

LEMMA PutBackMove ==
  ASSUME NEW t \in Tasks, task[t] = "running", task'[t] = "scheduled",
         Len(attempts'[t]) = Len(attempts[t]),
         Type[t] = "agent_task" => Len(attempts[t]) < MaxAttempts[t]
  PROVE  D!Move(t)
<1>1. abstractState[t] = "doing" /\ abstractState'[t] = "todo"
  BY AbstractOf, AbstractStates
<1> QED
  BY <1>1, AbstractOf DEF D!Move, D!PutBack

(* applyTaskFailure and the successful outcome, after the last attempt.    *)
LEMMA OutcomeMove ==
  ASSUME NEW t \in Tasks, NEW no, task[t] = "running", no = Len(attempts[t]),
         task'[t] = "succeeded" \/ task'[t] = AfterFailure(t, no),
         Len(attempts'[t]) = Len(attempts[t])
  PROVE  D!Move(t)
<1>1. \/ task'[t] \in {"succeeded", "failed"}
      \/ task'[t] = "scheduled" /\ Len(attempts[t]) < MaxAttempts[t]
  BY DEF AfterFailure, HasRetry
<1> QED
  BY <1>1, SettleMove, PutBackMove

LEMMA SkipMove ==
  ASSUME TypeOK, NEW t \in Tasks, ~isTerminalTaskStatus(task[t]), task'[t] = "skipped",
         Len(attempts'[t]) = Len(attempts[t]),
         \/ t \in Gated /\ RejectionPolicy[t] = "skip"
         \/ \E e \in DepsOf(t) : terminalUnmatched(task'[e.on], e.outcome)
  PROVE  D!Move(t)
<1>1. abstractState[t] \in {"todo", "doing"} /\ abstractState'[t] = "skipped"
  BY AbstractOf, AbstractStates DEF TypeOK, isTerminalTaskStatus
<1>2. ASSUME NEW e \in DepsOf(t), terminalUnmatched(task'[e.on], e.outcome)
      PROVE  e \in D!EdgesOf(t) /\ D!Hopeless(e)'
  <2>1. /\ e \in Deps /\ e.task = t /\ e.on \in Tasks
        /\ e.outcome \in {"success", "skipped", "failed"}
    BY <1>2, GraphAssumption DEF DepsOf, DEPENDENCY_OUTCOMES
  <2>2. isTerminalTaskStatus(task'[e.on])
    BY <1>2 DEF terminalUnmatched, isTerminalTaskStatus
  <2>3. abstractState'[e.on] = task'[e.on] /\ task'[e.on] \in D!Ended
    BY <2>1, <2>2, AbstractOf, AbstractStates
  <2>4. task'[e.on] \notin D!Accepted(e.outcome)
    BY <1>2, <2>1 DEF terminalUnmatched, D!Accepted
  <2> QED
    BY <2>1, <2>3, <2>4 DEF D!EdgesOf, D!Hopeless
<1> QED
  BY <1>1, <1>2, AbstractOf DEF D!Move, D!Skip

LEMMA CancelMove ==
  ASSUME TypeOK, NEW t \in Tasks, task[t] \in Cancellable, task'[t] = "cancelled",
         attempts' = attempts, wf'.status = "cancelled"
  PROVE  D!Move(t)
<1>1. abstractState[t] \in {"todo", "doing"} /\ abstractState'[t] = "cancelled"
  BY AbstractOf, AbstractStates DEF TypeOK, isTerminalTaskStatus, Cancellable
<1> QED
  BY <1>1, AbstractOf DEF D!Move, D!Cancel

LEMMA StartMove ==
  ASSUME NEW t \in Tasks, wf.status \in {"active", "paused"},
         \A e \in DepsOf(t) : resolveDependency(task[e.on], e.outcome) = "satisfied",
         \/ task[t] \in {"idle", "scheduled"}
         \/ task[t] = "running" /\ Type[t] # "agent_task",
         Type[t] = "agent_task" => Len(attempts[t]) < MaxAttempts[t],
         task'[t] = "running", Len(attempts'[t]) = Len(attempts[t]) + 1
  PROVE  D!Move(t)
<1>1. /\ \/ abstractState[t] = "todo"
         \/ abstractState[t] = "doing" /\ Type[t] # "agent_task"
      /\ abstractState'[t] = "doing"
  BY AbstractOf, AbstractStates
<1>2. ASSUME NEW e \in D!EdgesOf(t) PROVE D!Satisfied(e)
  <2>1. e \in DepsOf(t) /\ e.on \in Tasks /\ e.outcome \in {"success", "skipped", "failed"}
    BY GraphAssumption DEF D!EdgesOf, DepsOf, DEPENDENCY_OUTCOMES
  <2>2. task[e.on] \in SatisfiedBy(e.outcome)
    BY <2>1 DEF resolveDependency
  <2>3. task[e.on] \in D!Accepted(e.outcome) /\ isTerminalTaskStatus(task[e.on])
    BY <2>1, <2>2 DEF SatisfiedBy, D!Accepted, isTerminalTaskStatus
  <2> QED
    BY <2>1, <2>3, AbstractOf, AbstractStates DEF D!Satisfied
<1> QED
  BY <1>1, <1>2, AbstractOf DEF D!Move, D!Start

-----------------------------------------------------------------------------
(* The steps that move tasks or the life cycle.                            *)

(* pollRunningAgentTasks.                                                  *)
LEMMA SettlePolledRefines ==
  ASSUME TypeOK, AllSound, TypeOK', NEW r \in Reconcilers, SettlePolled(r)
  PROVE  D!Next
<1> DEFINE live == {p \in polled[r] : StillPolled(p)}
           done == {p.task : p \in live}
           no   == [u \in done |-> (CHOOSE p \in live : p.task = u).no]
           bad  == {p.task : p \in {q \in live : q.failed}}
<1>1. /\ attempts' = [u \in Tasks |->
           IF u \in done
           THEN [attempts[u] EXCEPT ![no[u]] =
                   WithStatus(@, IF u \in bad THEN "failed" ELSE "succeeded")]
           ELSE attempts[u]]
      /\ task' = [u \in Tasks |->
           CASE u \in done \ bad -> "succeeded"
             [] u \in bad -> AfterFailure(u, no[u])
             [] OTHER -> task[u]]
      /\ wf' = wf
  BY DEF SettlePolled
<1>2. bad \subseteq done
  OBVIOUS
<1>3. ASSUME NEW t \in done PROVE task[t] = "running" /\ IsRunning(t, no[t])
  BY DEF StillPolled
<1> HIDE DEF live, done, no, bad
<1>4. ASSUME NEW t \in Tasks PROVE D!Move(t)
  <2>1. CASE t \notin done
    BY <1>1, <1>2, <2>1, KeepMove
  <2>2. CASE t \in done
    <3>1. task[t] = "running" /\ no[t] = Len(attempts[t])
      BY <1>3, <2>2 DEF AllSound, Sound, IsRunning
    <3>2. task'[t] = "succeeded" \/ task'[t] = AfterFailure(t, no[t])
      BY <1>1, <2>2
    <3>3. attempts'[t] = [i \in DOMAIN attempts[t] |-> attempts'[t][i]]
      BY <1>1, <2>2
    <3>4. Len(attempts'[t]) = Len(attempts[t])
      BY <3>3, ExceptLen, AttemptsOf
    <3> QED
      BY <3>1, <3>2, <3>4, OutcomeMove
  <2> QED
    BY <2>1, <2>2
<1>5. D!LifeMove
  BY <1>1 DEF D!LifeMove
<1> QED
  BY <1>4, <1>5, AbstractStep

(* recordOutcomes.                                                         *)
LEMMA RecordOutcomesRefines ==
  ASSUME TypeOK, AllSound, TypeOK', NEW r \in Reconcilers, RecordOutcomes(r)
  PROVE  D!Next
<1> DEFINE mine    == {u \in Tasks : claim[r][u].out # "none"}
           no      == [u \in Tasks |-> claim[r][u].no]
           out     == [u \in Tasks |-> claim[r][u].out]
           owned   == {u \in mine : OwnsLease(r, u)}
           applied == {u \in owned : task[u] = "running" /\ IsRunning(u, no[u])}
           good    == {u \in applied : out[u] = "succeeded"}
           bad     == {u \in applied : out[u] = "failed"}
<1>1. /\ attempts' = [u \in Tasks |->
           IF u \in applied
           THEN [attempts[u] EXCEPT ![no[u]] =
                   [status |-> out[u], run |-> @.run,
                    child |-> out[u] = "running" /\ Type[u] = "agent_task"]]
           ELSE attempts[u]]
      /\ task' = [u \in Tasks |-> CASE u \in good -> "succeeded"
                                    [] u \in bad -> AfterFailure(u, no[u])
                                    [] OTHER -> task[u]]
      /\ wf' = wf
  BY DEF RecordOutcomes
<1>2. good \subseteq applied /\ bad \subseteq applied
  OBVIOUS
<1>3. ASSUME NEW t \in applied PROVE task[t] = "running" /\ IsRunning(t, no[t])
  OBVIOUS
<1> HIDE DEF mine, no, out, owned, applied, good, bad
<1>4. ASSUME NEW t \in Tasks PROVE D!Move(t)
  <2>1. Len(attempts'[t]) = Len(attempts[t])
    <3>1. attempts'[t] = [i \in DOMAIN attempts[t] |-> attempts'[t][i]]
      BY <1>1, AttemptsOf
    <3> QED
      BY <3>1, ExceptLen, AttemptsOf
  <2>2. CASE t \in good \/ t \in bad
    <3>1. task[t] = "running" /\ no[t] = Len(attempts[t])
      BY <1>2, <1>3, <2>2 DEF AllSound, Sound, IsRunning
    <3>2. task'[t] = "succeeded" \/ task'[t] = AfterFailure(t, no[t])
      BY <1>1, <2>2
    <3> QED
      BY <2>1, <3>1, <3>2, OutcomeMove
  <2>3. CASE t \notin good /\ t \notin bad
    BY <1>1, <2>1, <2>3, KeepMove
  <2> QED
    BY <2>2, <2>3
<1>5. D!LifeMove
  BY <1>1 DEF D!LifeMove
<1> QED
  BY <1>4, <1>5, AbstractStep

(* A task passes the gates only if its dependency edges are satisfied.     *)
LEMMA DispatchableSatisfied ==
  ASSUME NEW t \in Tasks, NEW status, Dispatchable(t, status), NEW e \in DepsOf(t)
  PROVE  resolveDependency(status[e.on], e.outcome) = "satisfied"
<1> DEFINE rs == {resolveDependency(status[d.on], d.outcome) : d \in DepsOf(t)}
<1>1. passed(dependencyGate(rs))
  BY DEF Dispatchable, deriveEffectiveGateState
<1>2. "blocked" \notin rs /\ "pending" \notin rs
  BY <1>1 DEF passed, dependencyGate
<1>3. resolveDependency(status[e.on], e.outcome) \in {"satisfied", "blocked", "pending"}
  BY DEF resolveDependency
<1> QED
  BY <1>2, <1>3

(* claimReadyTasks.                                                        *)
LEMMA ClaimReadyRefines ==
  ASSUME TypeOK, AllSound, TxSound, TypeOK', NEW r \in Reconcilers, ClaimReady(r)
  PROVE  D!Next
<1> DEFINE recovered == [u \in Tasks |-> IF u \in Crashed THEN "scheduled" ELSE task[u]]
           past == [u \in Tasks |-> IF u \in Crashed THEN StaleAttempts(u) ELSE attempts[u]]
<1>1. PICK reclaimed \in SUBSET Reclaimable, claimed \in SUBSET Tasks :
        /\ ClaimBatch(r, reclaimed, claimed)
        /\ \A u \in claimed : /\ u \in Crashed \/ task[u] \in {"idle", "scheduled"}
                              /\ Dispatchable(u, recovered)
  BY DEF ClaimReady, Batches
<1>2. /\ task' = [u \in Tasks |-> CASE u \in claimed -> "running"
                                    [] u \in Crashed \ claimed -> "scheduled"
                                    [] OTHER -> task[u]]
      /\ attempts' = [u \in Tasks |-> IF u \in claimed
                                      THEN Append(past[u], NewAttempt)
                                      ELSE past[u]]
  BY <1>1 DEF ClaimBatch
<1>3. wf' = wf /\ wf.status \in {"active", "paused"}
  BY ProcessAssumption DEF ClaimReady, InTx, SawActive, TxSound
<1>4. ASSUME NEW t \in Tasks PROVE D!Move(t)
  <2>1. Len(past[t]) = Len(attempts[t]) /\ past[t] \in Seq(Attempt)
    BY StaleAttemptsSettled, AttemptsOf
  <2>2. t \in Crashed => task[t] = "running" /\ Type[t] # "agent_task"
    BY DEF Crashed, INSTANTANEOUS_EXECUTOR_TYPES
  <2>3. CASE t \in claimed
    <3>1. ASSUME NEW e \in DepsOf(t)
          PROVE  resolveDependency(task[e.on], e.outcome) = "satisfied"
      <4>1. /\ e.on \in Tasks /\ e.outcome \in {"success", "skipped", "failed"}
            /\ resolveDependency(recovered[e.on], e.outcome) = "satisfied"
        BY <1>1, <2>3, DispatchableSatisfied, GraphAssumption DEF DepsOf, DEPENDENCY_OUTCOMES
      <4>2. recovered[e.on] # "scheduled"
        BY <4>1 DEF resolveDependency, SatisfiedBy, isTerminalTaskStatus
      <4> QED
        BY <4>1, <4>2
    <3>2. task'[t] = "running" /\ Len(attempts'[t]) = Len(attempts[t]) + 1
      BY <1>2, <2>1, <2>3, LenProperties, AppendProperties
         DEF NewAttempt, Attempt, ATTEMPT_STATUSES, RunStatuses
    <3>3. \/ task[t] \in {"idle", "scheduled"}
          \/ task[t] = "running" /\ Type[t] # "agent_task"
      BY <1>1, <2>2, <2>3
    <3>4. Type[t] = "agent_task" => Len(attempts[t]) < MaxAttempts[t]
      BY <3>3 DEF AllSound, Sound
    <3> QED
      BY <1>3, <3>1, <3>2, <3>3, <3>4, StartMove
  <2>4. CASE t \in Crashed \ claimed
    <3>1. task'[t] = "scheduled" /\ Len(attempts'[t]) = Len(attempts[t])
      BY <1>2, <2>1, <2>4
    <3> QED
      BY <2>2, <2>4, <3>1, PutBackMove
  <2>5. CASE t \notin Crashed /\ t \notin claimed
    BY <1>2, <2>5, KeepMove
  <2> QED
    BY <2>3, <2>4, <2>5
<1>5. D!LifeMove
  BY <1>3 DEF D!LifeMove
<1> QED
  BY <1>4, <1>5, AbstractStep

(* A transaction whose compare-and-set succeeds ends an active workflow.   *)
LEMMA CasActive ==
  ASSUME TxSound, NEW r \in Reconcilers, tx.holder = r, SawActive, WorkflowCas
  PROVE  wf.status = "active"
BY ProcessAssumption DEF TxSound, SawActive, WorkflowCas

(* The end of a life cycle that cancels what is unfinished.                *)
LEMMA CancelledLife ==
  ASSUME TypeOK', wf.status \in {"active", "paused"}, wf'.status = "cancelled",
         \A t \in Tasks : isTerminalTaskStatus(task'[t])
  PROVE  D!LifeMove
<1>1. ASSUME NEW t \in Tasks PROVE abstractState'[t] \in D!Ended
  BY AbstractOf, AbstractStates
<1> QED
  BY <1>1 DEF D!LifeMove, D!Follows, D!Finish

(* applyRejectedApprovalPolicies.                                          *)
LEMMA ApplyRejectedRefines ==
  ASSUME TypeOK, TxSound, TypeOK', NEW r \in Reconcilers, ApplyRejected(r)
  PROVE  D!Next
<1> DEFINE skips   == {t \in RejectedWith("skip") : ~isTerminalTaskStatus(task[t])}
           cancels == RejectedWith("cancel") # {} /\ WorkflowCas
           torn    == IF cancels
                      THEN {t \in Tasks \ skips : task[t] \in Cancellable} ELSE {}
<1>1. /\ task' = [t \in Tasks |-> CASE t \in skips -> "skipped"
                                    [] t \in torn  -> "cancelled"
                                    [] OTHER       -> task[t]]
      /\ attempts' = attempts
      /\ IF cancels THEN wf'.status = "cancelled" ELSE wf' = wf
      /\ cancels => wf.status = "active"
  BY CasActive DEF ApplyRejected, InTx, WriteWorkflow
<1>2. ASSUME NEW t \in Tasks PROVE D!Move(t)
  <2>1. CASE t \in skips
    <3>1. t \in Gated /\ RejectionPolicy[t] = "skip"
      BY <2>1 DEF RejectedWith
    <3>2. task'[t] = "skipped" /\ ~isTerminalTaskStatus(task[t])
      BY <1>1, <2>1
    <3> QED
      BY <1>1, <3>1, <3>2, SkipMove
  <2>2. CASE t \in torn
    <3>1. cancels /\ t \notin skips /\ task[t] \in Cancellable
      BY <2>2
    <3> HIDE DEF skips, cancels
    <3> QED
      BY <1>1, <2>2, <3>1, CancelMove
  <2>3. CASE t \notin skips /\ t \notin torn
    <3> HIDE DEF skips, cancels, torn
    <3> QED
      BY <1>1, <2>3, KeepMove
  <2> QED
    BY <2>1, <2>2, <2>3
<1>3. D!LifeMove
  <2>1. CASE cancels
    <3>1. ASSUME NEW t \in Tasks PROVE isTerminalTaskStatus(task'[t])
      <4>1. task[t] \in TASK_STATUSES
        BY DEF TypeOK
      <4>2. t \in skips \/ t \in torn \/ isTerminalTaskStatus(task[t])
        BY <2>1, <4>1 DEF TASK_STATUSES, isTerminalTaskStatus, Cancellable
      <4> HIDE DEF skips, cancels, torn
      <4> QED
        BY <1>1, <4>2 DEF isTerminalTaskStatus
    <3> QED
      BY <1>1, <2>1, <3>1, CancelledLife
  <2>2. CASE ~cancels
    BY <1>1, <2>2 DEF D!LifeMove
  <2> QED
    BY <2>1, <2>2
<1> QED
  BY <1>2, <1>3, AbstractStep

(* finalizeWorkflow.                                                       *)
LEMMA FinalizeRefines ==
  ASSUME TypeOK, TxSound, TypeOK', NEW r \in Reconcilers, Finalize(r)
  PROVE  D!Next
<1>1. PICK S \in SkipSets : Finalize(r)!2!(S)
  BY DEF Finalize
<1>2. /\ task' = WithSkipped(S) /\ attempts' = attempts
      /\ \/ wf' = wf
         \/ /\ wf.status = "active" /\ NextStatus(S) # "active"
            /\ wf'.status = NextStatus(S)
  BY <1>1, CasActive DEF Finalize, InTx, WriteWorkflow
<1>3. /\ S \subseteq Undecided
      /\ \A t \in S : PermanentlyBlocked(t, task')
  BY <1>2 DEF SkipSets
<1>4. ASSUME NEW t \in Tasks PROVE task'[t] = IF t \in S THEN "skipped" ELSE task[t]
  BY <1>2 DEF WithSkipped
<1>5. ASSUME NEW t \in Tasks PROVE D!Move(t)
  <2>1. CASE t \in S
    <3>1. ~isTerminalTaskStatus(task[t]) /\ task'[t] = "skipped"
      BY <1>3, <1>4, <2>1 DEF Undecided
    <3>2. \E e \in DepsOf(t) : terminalUnmatched(task'[e.on], e.outcome)
      BY <1>3, <2>1 DEF PermanentlyBlocked
    <3> QED
      BY <1>2, <3>1, <3>2, SkipMove
  <2>2. CASE t \notin S
    BY <1>2, <1>4, <2>2, KeepMove
  <2> QED
    BY <2>1, <2>2
<1>6. D!LifeMove
  <2>1. CASE wf' = wf
    BY <2>1 DEF D!LifeMove
  <2>2. CASE /\ wf.status = "active" /\ NextStatus(S) # "active"
             /\ wf'.status = NextStatus(S)
    <3>1. CASE BlockedByFailure # {}
      <4>1. wf'.status = "failed"
        BY <2>2, <3>1 DEF NextStatus
      <4>2. PICK t \in Tasks : task[t] = "failed" /\ FailurePolicy[t] = "block"
        BY <3>1, GraphAssumption DEF BlockedByFailure, DepsOf
      <4>3. task'[t] = "failed"
        BY <1>3, <1>4, <4>2 DEF Undecided, isTerminalTaskStatus
      <4>4. abstractState'[t] = "failed"
        BY <4>3, AbstractOf, AbstractStates DEF isTerminalTaskStatus
      <4> QED
        BY <2>2, <4>1, <4>2, <4>4 DEF D!LifeMove, D!Follows
    <3>2. CASE BlockedByFailure = {}
      <4>1. wf'.status = rollUpWorkflowStatus(task', Required, FailurePolicy)
        BY <1>2, <2>2, <3>2 DEF NextStatus
      <4>2. DOMAIN task' = Tasks
        BY DEF TypeOK
      <4> DEFINE Failure == \E t \in Tasks : /\ task'[t] = "failed" /\ Required[t]
                                             /\ FailurePolicy[t] = "block"
      <4>3. CASE Failure
        <5>1. wf'.status = "failed"
          BY <4>1, <4>2, <4>3 DEF rollUpWorkflowStatus
        <5>2. PICK t \in Tasks : task'[t] = "failed" /\ FailurePolicy[t] = "block"
          BY <4>3
        <5>3. abstractState'[t] = "failed"
          BY <5>2, AbstractOf, AbstractStates DEF isTerminalTaskStatus
        <5> QED
          BY <2>2, <5>1, <5>2, <5>3 DEF D!LifeMove, D!Follows
      <4>4. CASE ~Failure
        <5>1. wf'.status = "completed" /\ \A t \in Tasks : isTerminalTaskStatus(task'[t])
          BY <2>2, <4>1, <4>2, <4>4 DEF rollUpWorkflowStatus
        <5>2. ASSUME NEW t \in Tasks
              PROVE  abstractState'[t] = task'[t] /\ task'[t] \in D!Ended
          BY <5>1, AbstractOf, AbstractStates
        <5> QED
          BY <2>2, <4>4, <5>1, <5>2 DEF D!LifeMove, D!Follows, D!Finish
      <4> QED
        BY <4>3, <4>4
    <3> QED
      BY <3>1, <3>2
  <2> QED
    BY <1>2, <2>1, <2>2
<1> QED
  BY <1>5, <1>6, AbstractStep

(* cancelWorkflow.                                                         *)
LEMMA CancelRefines == ASSUME TypeOK, TypeOK', cancelWorkflow PROVE D!Next
<1>1. /\ wf.status \in {"active", "paused"} /\ wf'.status = "cancelled"
      /\ task' = [t \in Tasks |-> IF task[t] \in Cancellable THEN "cancelled" ELSE task[t]]
      /\ attempts' = attempts
  BY DEF cancelWorkflow, WriteWorkflow
<1>2. ASSUME NEW t \in Tasks PROVE D!Move(t) /\ isTerminalTaskStatus(task'[t])
  <2>1. task[t] \in TASK_STATUSES
    BY DEF TypeOK
  <2>2. CASE task[t] \in Cancellable
    BY <1>1, <2>2, CancelMove DEF isTerminalTaskStatus
  <2>3. CASE task[t] \notin Cancellable
    BY <1>1, <2>1, <2>3, KeepMove DEF Cancellable, TASK_STATUSES, isTerminalTaskStatus
  <2> QED
    BY <2>2, <2>3
<1> QED
  BY <1>1, <1>2, CancelledLife, AbstractStep

(* startWorkflow, pauseWorkflow and resumeWorkflow.                        *)
LEMMA StatusChangeRefines ==
  ASSUME TypeOK', startWorkflow \/ pauseWorkflow \/ resumeWorkflow
  PROVE  D!Next
<1>1. /\ task' = task /\ attempts' = attempts
      /\ \/ wf.status = "draft" /\ wf'.status = "active"
         \/ wf.status = "active" /\ wf'.status = "paused"
         \/ wf.status = "paused" /\ wf'.status = "active"
  BY DEF startWorkflow, pauseWorkflow, resumeWorkflow, StatusChange, WriteWorkflow
<1>2. D!LifeMove
  BY <1>1 DEF D!LifeMove, D!Follows
<1> QED
  BY <1>1, <1>2, KeepMove, AbstractStep

(* markManualDone.                                                         *)
LEMMA ManualRefines ==
  ASSUME TypeOK, TypeOK', NEW u \in Tasks, markManualDone(u)
  PROVE  D!Next
<1>1. /\ task[u] = "running" /\ task'[u] = "succeeded"
      /\ \A t \in Tasks \ {u} : task'[t] = task[t]
      /\ attempts' = attempts /\ wf' = wf
  BY DEF markManualDone, CompletableManually, TypeOK
<1>2. ASSUME NEW t \in Tasks PROVE D!Move(t)
  BY <1>1, KeepMove, SettleMove
<1>3. D!LifeMove
  BY <1>1 DEF D!LifeMove
<1> QED
  BY <1>2, <1>3, AbstractStep

-----------------------------------------------------------------------------
(* Every step of the engine is an abstract step or a stutter.              *)
LEMMA NextRefines ==
  TypeOK /\ AllSound /\ TxSound /\ TypeOK' /\ [Next]_vars => [D!Next]_(D!vars)
<1> SUFFICES ASSUME TypeOK, AllSound, TxSound, TypeOK', [Next]_vars
             PROVE  [D!Next]_(D!vars)
  OBVIOUS
<1>1. CASE wf'.status = wf.status /\ UNCHANGED <<task, attempts>>
  BY <1>1, Stutter
<1>2. ASSUME NEW u \in Tasks, NEW n, NEW run,
             attempts' = SetRun(u, n, run) \/ attempts' = attempts,
             UNCHANGED <<wf, task>>
      PROVE  [D!Next]_(D!vars)
  <2>1. ASSUME NEW t \in Tasks PROVE Len(attempts'[t]) = Len(attempts[t])
    <3>1. attempts'[t] = [i \in DOMAIN attempts[t] |-> attempts'[t][i]]
      BY <1>2, AttemptsOf DEF SetRun, TypeOK
    <3> QED
      BY <3>1, ExceptLen, AttemptsOf
  <2> QED
    BY <1>2, <2>1, Stutter
<1>3. ASSUME NEW x \in Actors, NEW k \in kill[x], NEW ok, StopRun(x, k, ok)
      PROVE  [D!Next]_(D!vars)
  <2>1. k[1] \in Tasks
    BY DEF TypeOK, RunKeys
  <2> QED
    BY <1>2, <1>3, <2>1 DEF StopRun
<1>4. ASSUME NEW r \in Reconcilers, TickStep(r) PROVE [D!Next]_(D!vars)
  <2>1. CASE PollRead(r) \/ BeginTx(r) \/ SettleInactive(r) \/ TeardownDone(r)
             \/ InvalidateStale(r) \/ Solicit(r) \/ Notify(r)
    BY <1>1, <2>1 DEF PollRead, BeginTx, SettleInactive, TeardownDone,
                      InvalidateStale, Solicit, Notify, rows
  <2>2. ASSUME NEW phase, NEW next, SkipPhase(r, phase, next) PROVE [D!Next]_(D!vars)
    BY <1>1, <2>2 DEF SkipPhase, rows
  <2>3. CASE CancelChildRuns(r)
    BY <1>3, <2>3 DEF CancelChildRuns, Actors
  <2>4. ASSUME NEW u \in Tasks, CreateRun(r, u) PROVE [D!Next]_(D!vars)
    BY <1>2, <2>4 DEF CreateRun
  <2>5. ASSUME NEW u \in Tasks, EnqueueRun(r, u) PROVE [D!Next]_(D!vars)
    BY <1>2, <2>5 DEF EnqueueRun
  <2>6. ASSUME NEW u \in Tasks, ExecuteBuiltin(r, u) \/ DispatchFails(r, u)
        PROVE  [D!Next]_(D!vars)
    BY <1>1, <2>6 DEF ExecuteBuiltin, DispatchFails, rows
  <2>7. CASE \/ SettlePolled(r) \/ ApplyRejected(r) \/ ClaimReady(r)
             \/ RecordOutcomes(r) \/ Finalize(r)
    BY <2>7, SettlePolledRefines, ApplyRejectedRefines, ClaimReadyRefines,
       RecordOutcomesRefines, FinalizeRefines
  <2> QED
    BY <1>4, <2>1, <2>2, <2>3, <2>4, <2>5, <2>6, <2>7 DEF TickStep
<1>5. ASSUME NEW r \in Reconcilers, TickFault(r) PROVE [D!Next]_(D!vars)
  BY <1>1, <1>5 DEF TickFault, Crash, PhaseFails, rows
<1>6. CASE Reconcile
  <2>1. ASSUME NEW r \in Reconcilers, StartTick(r) PROVE [D!Next]_(D!vars)
    BY <1>1, <2>1 DEF StartTick, rows
  <2>2. ASSUME NEW r \in Reconcilers, NEW u \in Tasks, Heartbeat(r, u)
        PROVE  [D!Next]_(D!vars)
    BY <1>1, <2>2 DEF Heartbeat
  <2> QED
    BY <1>4, <1>5, <1>6, <2>1, <2>2 DEF Reconcile
<1>7. CASE Users
  <2>1. CASE renameWorkflowCas \/ WebCrash
    BY <1>1, <2>1 DEF renameWorkflowCas, WriteWorkflow, WebCrash, rows
  <2>2. CASE CancelCollected
    BY <1>3, <2>2 DEF CancelCollected, Actors
  <2>3. ASSUME NEW u \in Gated, NEW d, decideWorkflowApproval(u, d)
        PROVE  [D!Next]_(D!vars)
    BY <1>1, <2>3 DEF decideWorkflowApproval
  <2>4. ASSUME NEW u \in Tasks, NEW x \in Titles, updatePausedSpec(u, x)
        PROVE  [D!Next]_(D!vars)
    BY <1>1, <2>4 DEF updatePausedSpec, WriteWorkflow, diffApplySpecRows
  <2> QED
    BY <1>7, <2>1, <2>2, <2>3, <2>4, StatusChangeRefines, CancelRefines,
       ManualRefines DEF Users
<1>8. CASE Runs
  BY <1>2, <1>8 DEF Runs, RunEnds
<1>9. CASE Clock
  BY <1>1, <1>9 DEF Clock, DueArrives, SolicitationArrives, RowAges, LeaseExpires
<1>10. CASE UNCHANGED vars
  BY <1>1, <1>10 DEF vars
<1> QED
  BY <1>6, <1>7, <1>8, <1>9, <1>10 DEF Next

LEMMA InitRefines == Init => D!Init
<1> SUFFICES ASSUME Init PROVE D!Init
  OBVIOUS
<1>1. ASSUME NEW t \in Tasks PROVE Abstract(task[t]) = "todo" /\ Len(attempts[t]) = 0
  BY AbstractStates DEF Init, insertSpecRows
<1> QED
  BY <1>1 DEF Init, D!Init, abstractState, abstractTries

(* The engine (reconcileWorkflow, cancelWorkflow and the other writers of  *)
(* the rows of a workflow) implements the abstract specification.          *)
THEOREM EngineImplementsDurableTasks == Spec => ImplementsDurableTasks
<1>1. Init => D!Init
  BY InitRefines
<1>2. TypeOK /\ AllSound /\ TxSound /\ TypeOK' /\ [Next]_vars => [D!Next]_(D!vars)
  BY NextRefines
<1> QED
  BY <1>1, <1>2, TypeCorrect, AlwaysSound, AlwaysTx, PTL
     DEF Spec, ImplementsDurableTasks, D!Spec

-----------------------------------------------------------------------------
(* What the abstract specification promises, read back on the rows.        *)

LEMMA WorkflowGraph == D!Graph
BY GraphAssumption DEF D!Graph, DEPENDENCY_OUTCOMES

LEMMA EnginePromises == Spec => []D!Promises
<1>1. D!Spec => []D!Promises
  BY WorkflowGraph, D!PromisesKept
<1> QED
  BY <1>1, EngineImplementsDurableTasks, PTL DEF ImplementsDurableTasks

(* An edge is satisfied on the rows when it is in the abstraction.         *)
LEMMA EdgeOfAbstract ==
  ASSUME TypeOK, NEW e \in Deps
  PROVE  /\ e.on \in Tasks
         /\ EdgeHolds(e) <=> D!Satisfied(e)
         /\ D!Hopeless(e) <=> isTerminalTaskStatus(task[e.on]) /\ ~EdgeHolds(e)
<1>1. e.on \in Tasks /\ e.outcome \in {"success", "skipped", "failed"}
  BY GraphAssumption DEF DEPENDENCY_OUTCOMES
<1>2. abstractState[e.on] = Abstract(task[e.on]) /\ task[e.on] \in TASK_STATUSES
  BY <1>1, AbstractOf DEF TypeOK
<1> QED
  BY <1>1, <1>2 DEF EdgeHolds, D!Satisfied, D!Hopeless, D!Accepted, D!Ended, Abstract,
                    TASK_STATUSES, isTerminalTaskStatus

(* A task is only dispatched on the outcomes its edges demand, and those   *)
(* are final (claimReadyTasks, resolveDependency).                         *)
THEOREM UpstreamFirst == Spec => []DispatchedAfterUpstream
<1>1. TypeOK /\ D!Promises => DispatchedAfterUpstream
  <2> SUFFICES ASSUME TypeOK, D!Promises, NEW t \in Tasks, attempts[t] # << >>,
                      NEW e \in DepsOf(t)
               PROVE  EdgeHolds(e)
    BY DEF DispatchedAfterUpstream
  <2>1. Len(attempts[t]) # 0
    BY AttemptsOf, EmptySeq
  <2>2. e \in Deps /\ e \in D!EdgesOf(t)
    BY DEF DepsOf, D!EdgesOf
  <2>3. D!Satisfied(e)
    BY <2>1, <2>2, AbstractOf DEF D!Promises, D!StartedAfterUpstream
  <2> QED
    BY <2>2, <2>3, EdgeOfAbstract
<1> QED
  BY <1>1, TypeCorrect, EnginePromises, PTL

(* A completed or cancelled workflow has no unfinished task                *)
(* (finalizeWorkflow, cancelWorkflow).                                     *)
THEOREM FinishedIsFinished == Spec => []FinishedMeansFinished
<1>1. TypeOK /\ D!Promises => FinishedMeansFinished
  <2> SUFFICES ASSUME TypeOK, D!Promises, wf.status \in {"completed", "cancelled"},
                      NEW t \in Tasks
               PROVE  isTerminalTaskStatus(task[t])
    BY DEF FinishedMeansFinished
  <2>1. abstractState[t] \in D!Ended
    BY DEF D!Promises, D!NothingLeft
  <2> QED
    BY <2>1, AbstractOf, AbstractStates DEF TypeOK
<1> QED
  BY <1>1, TypeCorrect, EnginePromises, PTL

(* The final status of a workflow is the one its tasks earned              *)
(* (finalizeWorkflow, rollUpWorkflowStatus).                               *)
THEOREM OutcomesAreEarned == Spec => []OutcomeIsEarned
<1>1. TypeOK /\ D!Promises => OutcomeIsEarned
  <2> SUFFICES ASSUME TypeOK, D!Promises PROVE OutcomeIsEarned
    OBVIOUS
  <2>1. ASSUME NEW t \in Tasks PROVE abstractState[t] = "failed" <=> task[t] = "failed"
    <3>1. task[t] \in TASK_STATUSES
      BY DEF TypeOK
    <3> QED
      BY <3>1, AbstractOf DEF Abstract, TASK_STATUSES
  <2> QED
    BY <2>1 DEF D!Promises, D!EarnedEnd, OutcomeIsEarned
<1> QED
  BY <1>1, TypeCorrect, EnginePromises, PTL

(* A terminal task and a terminal workflow keep their status in a step.    *)
LEMMA TerminalStep ==
  ASSUME TypeOK, AllSound, TxSound, TypeOK', [Next]_vars
  PROVE  /\ \A t \in Tasks : isTerminalTaskStatus(task[t]) => task'[t] = task[t]
         /\ isTerminalWorkflowStatus(wf.status) => wf'.status = wf.status
<1>1. [D!Next]_(D!vars)
  BY NextRefines
<1>2. ASSUME NEW t \in Tasks, isTerminalTaskStatus(task[t]) PROVE task'[t] = task[t]
  <2>1. abstractState[t] = task[t] /\ abstractState[t] \in D!Ended
    BY <1>2, AbstractOf, AbstractStates
  <2>2. abstractState'[t] = task[t]
    BY <1>1, <2>1, D!EndedStays
  <2>3. task'[t] \in TASK_STATUSES /\ abstractState'[t] = Abstract(task'[t])
    BY AbstractOf DEF TypeOK
  <2> QED
    BY <1>2, <2>2, <2>3 DEF Abstract, TASK_STATUSES, isTerminalTaskStatus
<1>3. isTerminalWorkflowStatus(wf.status) => wf'.status = wf.status
  BY <1>1 DEF D!Next, D!vars, D!LifeMove, D!Follows, isTerminalWorkflowStatus
<1> QED
  BY <1>2, <1>3

(* A terminal task and a terminal workflow never change status again,      *)
(* whatever outcome, retry, reclaim or rejection arrives late              *)
(* (recordOutcomes, pollRunningAgentTasks).                                *)
THEOREM TerminalStays == Spec => TerminalIsFinal
<1>1. TypeOK /\ AllSound /\ TxSound /\ TypeOK' /\ [Next]_vars =>
        /\ \A t \in Tasks : isTerminalTaskStatus(task[t]) => task'[t] = task[t]
        /\ isTerminalWorkflowStatus(wf.status) => wf'.status = wf.status
  BY TerminalStep
<1> QED
  BY <1>1, TypeCorrect, AlwaysSound, AlwaysTx, PTL DEF Spec, TerminalIsFinal
=============================================================================
