------------------------ MODULE WorkflowEngine_proofs ------------------------
(***************************************************************************)
(* Type correctness and the dispatch protocol of the workflow engine, for  *)
(* every graph, every number of reconcilers and every bound.               *)
(*                                                                         *)
(* TypeOK is inductive as it stands; the lemmas say what the operators     *)
(* that build rows return, and the proof of NextType has one step per      *)
(* action.                                                                 *)
(*                                                                         *)
(* The dispatch protocol keeps its books: attempts, leases and the retry   *)
(* budget of every task agree.  None of the three invariants is inductive  *)
(* alone.  That a polled outcome settles the last attempt needs            *)
(* AttemptDiscipline; that it leaves no lease behind needs to know that a  *)
(* lease is never held on an attempt whose child run is recorded, which is *)
(* part of LeaseGuardsDispatch; and a retry is inside the budget because   *)
(* the attempt that failed was the last one.  Together they are, and the   *)
(* proof looks at one task at a time.                                      *)
(***************************************************************************)
EXTENDS WorkflowEngine, SequenceTheorems, TLAPS

-----------------------------------------------------------------------------
(* Lemmas about the data the rows are made of.                             *)

(* A pointwise rewrite of a sequence is a sequence of the same length.     *)
LEMMA RewrittenSeq ==
  ASSUME NEW S, NEW s \in Seq(S), NEW f \in [DOMAIN s -> S]
  PROVE  f \in Seq(S) /\ Len(f) = Len(s)
<1>1. Len(s) \in Nat /\ DOMAIN s = 1 .. Len(s)
  BY LenProperties
<1>2. f \in [1 .. Len(s) -> S]
  BY <1>1
<1> QED
  BY <1>1, <1>2, SeqDef

(* The review packet of a gated task is a packet.                          *)
LEMMA PacketType ==
  ASSUME NEW t \in Gated, NEW titles \in [Tasks -> Titles]
  PROVE  Packet(t, titles) \in Packets
<1>1. PacketTasks(t) \subseteq Tasks
  BY GraphAssumption DEF PacketTasks, DepsOf, Gated
<1> QED
  BY <1>1 DEF Packet, Packets

(* Rewriting the status or the run of an attempt gives attempt rows.       *)
LEMMA AttemptRewrites ==
  ASSUME NEW s \in Seq(Attempt), NEW n
  PROVE  /\ \A st \in ATTEMPT_STATUSES : [s EXCEPT ![n] = WithStatus(@, st)] \in Seq(Attempt)
         /\ \A run \in RunStatuses : [s EXCEPT ![n] = WithRun(@, run)] \in Seq(Attempt)
<1>1. ASSUME NEW st \in ATTEMPT_STATUSES
      PROVE  [s EXCEPT ![n] = WithStatus(@, st)] \in [DOMAIN s -> Attempt]
  <2>1. s \in [DOMAIN s -> Attempt]
    BY LenProperties
  <2>2. \A a \in Attempt : WithStatus(a, st) \in Attempt
    BY DEF WithStatus, Attempt
  <2> QED
    BY <2>1, <2>2
<1>2. ASSUME NEW run \in RunStatuses
      PROVE  [s EXCEPT ![n] = WithRun(@, run)] \in [DOMAIN s -> Attempt]
  <2>1. s \in [DOMAIN s -> Attempt]
    BY LenProperties
  <2>2. \A a \in Attempt : WithRun(a, run) \in Attempt
    BY DEF WithRun, Attempt
  <2> QED
    BY <2>1, <2>2
<1> QED
  BY <1>1, <1>2, RewrittenSeq

(* Moving the run of an attempt gives attempt rows.                        *)
LEMMA SetRunType ==
  ASSUME attempts \in [Tasks -> Seq(Attempt)],
         NEW t \in Tasks, NEW n, NEW run \in RunStatuses
  PROVE  SetRun(t, n, run) \in [Tasks -> Seq(Attempt)]
<1>1. [attempts[t] EXCEPT ![n] = WithRun(@, run)] \in Seq(Attempt)
  BY AttemptRewrites
<1> QED
  BY <1>1 DEF SetRun

(* A write refreshes updated_at and nothing else.                          *)
LEMMA TouchType ==
  ASSUME aged \in [Tasks -> BOOLEAN], NEW T, Touch(T)
  PROVE  aged' \in [Tasks -> BOOLEAN]
BY DEF Touch

(* Dead letters are notifications.                                         *)
LEMMA DeadLettersType ==
  ASSUME NEW F \in SUBSET Tasks, NEW no
  PROVE  DeadLetters(F, no) \subseteq Notes
BY DEF DeadLetters, Notes

(* A failed attempt leaves its task in a task status.                      *)
LEMMA AfterFailureType ==
  \A t, no : AfterFailure(t, no) \in TASK_STATUSES
BY DEF AfterFailure, TASK_STATUSES

(* Reopening stale approvals gives approval rows.                          *)
LEMMA ReopenedType ==
  ASSUME approval \in [Gated -> Approval], NEW titles \in [Tasks -> Titles]
  PROVE  Reopened(titles) \in [Gated -> Approval]
<1>1. \A t \in Gated : [status |-> "pending", solicited |-> FALSE, invalidated |-> TRUE,
                       hash |-> Packet(t, titles)] \in Approval
  BY PacketType DEF Approval, APPROVAL_STATUSES
<1> QED
  BY <1>1 DEF Reopened

(* The runs a teardown collects are runs of attempts.                      *)
LEMMA PersistedChildrenType ==
  ASSUME attempts \in [Tasks -> Seq(Attempt)]
  PROVE  PersistedChildren \subseteq RunKeys
<1> SUFFICES ASSUME NEW t \in Tasks, NEW n \in DOMAIN attempts[t] PROVE n \in Nat
  BY DEF PersistedChildren, RunKeys
<1> QED
  BY LenProperties

(* The roll-up is a workflow status.                                       *)
LEMMA NextStatusType ==
  \A S : NextStatus(S) \in WORKFLOW_STATUSES
BY DEF NextStatus, rollUpWorkflowStatus, WORKFLOW_STATUSES

(* Failing the stale attempts gives as many attempt rows.                  *)
LEMMA StaleAttemptsType ==
  ASSUME attempts \in [Tasks -> Seq(Attempt)], NEW t \in Tasks
  PROVE  StaleAttempts(t) \in Seq(Attempt) /\ Len(StaleAttempts(t)) = Len(attempts[t])
<1>1. \A a \in Attempt : WithStatus(a, "failed") \in Attempt
  BY DEF WithStatus, Attempt, ATTEMPT_STATUSES
<1>2. attempts[t] \in [DOMAIN attempts[t] -> Attempt]
  BY LenProperties
<1>3. StaleAttempts(t) \in [DOMAIN attempts[t] -> Attempt]
  BY <1>1, <1>2 DEF StaleAttempts
<1> QED
  BY <1>3, RewrittenSeq

(* The empty lease and the empty claims are well typed.                    *)
LEMMA EmptyRows == NoLease \in Lease /\ NoClaims \in [Tasks -> Claim]
BY DEF NoLease, Lease, NoClaims, NoClaim, Claim, Outcomes

(* A fresh draft is well typed.                                            *)
LEMMA InitType == Init => TypeOK
<1> SUFFICES ASSUME Init PROVE TypeOK
  OBVIOUS
<1>1. wf \in [status : WORKFLOW_STATUSES, ver : Nat]
  BY DEF Init, insertSpecRows, WORKFLOW_STATUSES
<1>2. /\ task \in [Tasks -> TASK_STATUSES] /\ title \in [Tasks -> Titles]
      /\ due \in [Tasks -> BOOLEAN] /\ opens \in [Tasks -> BOOLEAN]
      /\ aged \in [Tasks -> BOOLEAN]
  BY DEF Init, insertSpecRows, TASK_STATUSES
<1>3. attempts \in [Tasks -> Seq(Attempt)]
  BY EmptySeq DEF Init, insertSpecRows
<1>4. lease \in [Tasks -> Lease]
  BY DEF Init, insertSpecRows, NoLease, Lease
<1>5. approval \in [Gated -> Approval]
  BY DEF Init, insertSpecRows, Approval, APPROVAL_STATUSES
<1>6. tx \in [holder : Reconcilers \cup {NoOne}, status : WORKFLOW_STATUSES, ver : Nat]
  BY DEF Init, insertSpecRows, NoTx, WORKFLOW_STATUSES
<1>7. pc \in [Reconcilers -> Phases]
  BY DEF Init, insertSpecRows, Phases
<1>8. claim \in [Reconcilers -> [Tasks -> Claim]]
  BY DEF Init, insertSpecRows, NoClaims, NoClaim, Claim, Outcomes
<1>9. /\ polled \in [Reconcilers -> SUBSET Polled] /\ kill \in [Actors -> SUBSET RunKeys]
      /\ outbox \in [Reconcilers -> SUBSET Notes] /\ sent \in [Notes -> Nat]
      /\ crashes \in Nat
  BY DEF Init, insertSpecRows
<1> QED
  BY <1>1, <1>2, <1>3, <1>4, <1>5, <1>6, <1>7, <1>8, <1>9 DEF TypeOK

(* Every step keeps the state well typed.                                  *)
LEMMA NextType == TypeOK /\ [Next]_vars => TypeOK'
<1> SUFFICES ASSUME TypeOK, [Next]_vars PROVE TypeOK'
  OBVIOUS
<1> USE DEF rows, locals, Goto, Commit, InTx
<1>1. ASSUME NEW r \in Reconcilers, StartTick(r) PROVE TypeOK'
  BY <1>1 DEF TypeOK, StartTick, Phases
<1>2. ASSUME NEW r \in Reconcilers, PollRead(r) PROVE TypeOK'
  <2> DEFINE found == {k \in UNION {{t} \X DOMAIN attempts[t] : t \in Tasks} :
                         Resolved(k[1], k[2])}
  <2>1. \A k \in found : k[1] \in Tasks /\ k[2] \in Nat
    <3> SUFFICES ASSUME NEW t \in Tasks, NEW n \in DOMAIN attempts[t]
                 PROVE  n \in Nat
      OBVIOUS
    <3>1. attempts[t] \in Seq(Attempt)
      BY DEF TypeOK
    <3> QED
      BY <3>1, LenProperties
  <2>2. \A k \in found : [task |-> k[1], no |-> k[2],
                          failed |-> attempts[k[1]][k[2]].run # "completed"] \in Polled
    BY <2>1 DEF Polled
  <2>3. {[task |-> k[1], no |-> k[2],
          failed |-> attempts[k[1]][k[2]].run # "completed"] : k \in found} \in SUBSET Polled
    BY <2>2
  <2>4. polled' \in [Reconcilers -> SUBSET Polled]
    BY <1>2, <2>3 DEF TypeOK, PollRead
  <2> QED
    BY <1>2, <2>4 DEF TypeOK, PollRead, Phases
<1>3. ASSUME NEW r \in Reconcilers, BeginTx(r) PROVE TypeOK'
  BY <1>3 DEF TypeOK, BeginTx
<1>4. ASSUME NEW r \in Reconcilers, NEW phase, NEW next \in Phases,
             SkipPhase(r, phase, next) PROVE TypeOK'
  BY <1>4 DEF TypeOK, SkipPhase, NoTx, WORKFLOW_STATUSES
<1>5. ASSUME NEW r \in Reconcilers, SettleInactive(r) PROVE TypeOK'
  BY <1>5 DEF TypeOK, SettleInactive, NoTx, WORKFLOW_STATUSES, Phases
<1>6. ASSUME NEW r \in Reconcilers, NEW phase, NEW next \in Phases,
             PhaseFails(r, phase, next) PROVE TypeOK'
  BY <1>6, ProcessAssumption DEF TypeOK, PhaseFails, NoTx, WORKFLOW_STATUSES
<1>7. ASSUME NEW r \in Reconcilers, TeardownDone(r) PROVE TypeOK'
  BY <1>7 DEF TypeOK, TeardownDone, Phases
<1>8. ASSUME NEW r \in Reconcilers, NEW t \in Tasks, ExecuteBuiltin(r, t) PROVE TypeOK'
  BY <1>8 DEF TypeOK, ExecuteBuiltin, Return, Claim, Outcomes
<1>9. ASSUME NEW r \in Reconcilers, NEW t \in Tasks, DispatchFails(r, t) PROVE TypeOK'
  BY <1>9 DEF TypeOK, DispatchFails, Return, Claim, Outcomes
<1>10. ASSUME NEW r \in Reconcilers, NEW t \in Tasks, Heartbeat(r, t) PROVE TypeOK'
  BY <1>10 DEF TypeOK, Heartbeat, Lease, WithExpiry
<1>11. ASSUME NEW r \in Reconcilers, Notify(r) PROVE TypeOK'
  BY <1>11 DEF TypeOK, Notify, Phases
<1>12. ASSUME NEW r \in Reconcilers, Crash(r) PROVE TypeOK'
  <2>2. claim' \in [Reconcilers -> [Tasks -> Claim]]
    BY <1>12, EmptyRows DEF TypeOK, Crash
  <2>3. kill' \in [Actors -> SUBSET RunKeys]
    BY <1>12 DEF TypeOK, Crash
  <2>4. tx' \in [holder : Reconcilers \cup {NoOne}, status : WORKFLOW_STATUSES, ver : Nat]
    BY <1>12 DEF TypeOK, Crash, NoTx, WORKFLOW_STATUSES
  <2> QED
    BY <1>12, <2>2, <2>3, <2>4 DEF TypeOK, Crash, Phases
<1>13. ASSUME NEW r \in Reconcilers, SettlePolled(r) PROVE TypeOK'
  <2> DEFINE live == {p \in polled[r] : StillPolled(p)}
             done == {p.task : p \in live}
             no   == [t \in done |-> (CHOOSE p \in live : p.task = t).no]
             bad  == {p.task : p \in {q \in live : q.failed}}
  <2>1. bad \subseteq Tasks
    BY DEF TypeOK, Polled
  <2> HIDE DEF no, bad, live
  <2>2. attempts' \in [Tasks -> Seq(Attempt)]
    <3>1. ASSUME NEW t \in Tasks
          PROVE  [attempts[t] EXCEPT ![no[t]] =
                    WithStatus(@, IF t \in bad THEN "failed" ELSE "succeeded")] \in Seq(Attempt)
      BY AttemptRewrites DEF TypeOK, ATTEMPT_STATUSES
    <3> QED
      BY <1>13, <3>1 DEF SettlePolled, TypeOK, live, done, no, bad
  <2>3. task' \in [Tasks -> TASK_STATUSES]
    BY <1>13, AfterFailureType DEF SettlePolled, TypeOK, TASK_STATUSES
  <2>4. due' \in [Tasks -> BOOLEAN] /\ aged' \in [Tasks -> BOOLEAN]
    BY <1>13, TouchType DEF SettlePolled, TypeOK
  <2>5. outbox' \in [Reconcilers -> SUBSET Notes]
    <3>1. DeadLetters(bad, no) \subseteq Notes
      BY <2>1, DeadLettersType
    <3> QED
      BY <1>13, <3>1 DEF SettlePolled, TypeOK, live, done, no, bad
  <2>6. tx' \in [holder : Reconcilers \cup {NoOne}, status : WORKFLOW_STATUSES, ver : Nat]
    BY <1>13 DEF SettlePolled, NoTx, WORKFLOW_STATUSES
  <2> QED
    BY <1>13, <2>2, <2>3, <2>4, <2>5, <2>6 DEF SettlePolled, TypeOK, Phases
<1>14. ASSUME NEW r \in Reconcilers, ApplyRejected(r) PROVE TypeOK'
  <2>1. task' \in [Tasks -> TASK_STATUSES]
    BY <1>14 DEF ApplyRejected, TypeOK, TASK_STATUSES
  <2>2. aged' \in [Tasks -> BOOLEAN]
    BY <1>14, TouchType DEF ApplyRejected, TypeOK
  <2>3. wf' \in [status : WORKFLOW_STATUSES, ver : Nat]
    BY <1>14 DEF ApplyRejected, TypeOK, WriteWorkflow, WORKFLOW_STATUSES
  <2>4. lease' \in [Tasks -> Lease]
    BY <1>14, EmptyRows DEF ApplyRejected, TypeOK, Released
  <2>5. kill' \in [Actors -> SUBSET RunKeys]
    BY <1>14, PersistedChildrenType DEF ApplyRejected, TypeOK
  <2>6. pc' \in [Reconcilers -> Phases]
    <3>1. "teardown" \in Phases /\ "stale" \in Phases
      BY DEF Phases
    <3> QED
      BY <1>14, <3>1 DEF ApplyRejected, TypeOK
  <2>7. tx' \in [holder : Reconcilers \cup {NoOne}, status : WORKFLOW_STATUSES, ver : Nat]
    BY <1>14 DEF ApplyRejected, NoTx, WORKFLOW_STATUSES
  <2> QED
    BY <1>14, <2>1, <2>2, <2>3, <2>4, <2>5, <2>6, <2>7 DEF ApplyRejected, TypeOK
<1>15. ASSUME NEW x \in Actors, NEW k \in kill[x], NEW ok \in BOOLEAN, StopRun(x, k, ok)
       PROVE  TypeOK'
  <2>1. k[1] \in Tasks
    BY DEF TypeOK, RunKeys
  <2>2. attempts' \in [Tasks -> Seq(Attempt)]
    BY <1>15, <2>1, SetRunType DEF StopRun, TypeOK, RunStatuses
  <2> QED
    BY <1>15, <2>2 DEF StopRun, TypeOK
<1>16. ASSUME NEW r \in Reconcilers, InvalidateStale(r) PROVE TypeOK'
  BY <1>16, ReopenedType DEF InvalidateStale, TypeOK, Phases, NoTx, WORKFLOW_STATUSES
<1>17. ASSUME NEW r \in Reconcilers, ClaimReady(r) PROVE TypeOK'
  <2>1. PICK reclaimed \in SUBSET Reclaimable, claimed \in SUBSET Tasks :
          ClaimBatch(r, reclaimed, claimed)
    BY <1>17 DEF ClaimReady, Batches
  <2> DEFINE past   == [t \in Tasks |-> IF t \in Crashed THEN StaleAttempts(t) ELSE attempts[t]]
             number == [t \in Tasks |->
                          IF t \in reclaimed
                          THEN CHOOSE n \in DOMAIN attempts[t] : LatestRunning(t, n)
                          ELSE Len(attempts[t]) + 1]
  <2>2. \A t \in Tasks : past[t] \in Seq(Attempt)
    BY StaleAttemptsType DEF TypeOK
  <2>3. \A t \in Tasks : number[t] \in Nat
    <3>1. \A t \in Tasks : Len(attempts[t]) + 1 \in Nat
      BY LenProperties DEF TypeOK
    <3>2. ASSUME NEW t \in reclaimed
          PROVE  (CHOOSE n \in DOMAIN attempts[t] : LatestRunning(t, n)) \in Nat
      <4>1. t \in Tasks /\ \E n \in DOMAIN attempts[t] : LatestRunning(t, n)
        BY DEF Reclaimable
      <4>2. \A n \in DOMAIN attempts[t] : n \in Nat
        BY <4>1, LenProperties DEF TypeOK
      <4> QED
        BY <4>1, <4>2
    <3> QED
      BY <3>1, <3>2
  <2> HIDE DEF past, number
  <2>4. attempts' \in [Tasks -> Seq(Attempt)]
    <3>1. NewAttempt \in Attempt
      BY DEF NewAttempt, Attempt, ATTEMPT_STATUSES, RunStatuses
    <3>2. \A t \in Tasks : Append(past[t], NewAttempt) \in Seq(Attempt)
      BY <2>2, <3>1, AppendProperties
    <3>3. attempts' = [t \in Tasks |-> IF t \in claimed THEN Append(past[t], NewAttempt)
                                      ELSE past[t]]
      BY <2>1 DEF ClaimBatch, past
    <3> QED
      BY <2>2, <3>2, <3>3
  <2>5. task' \in [Tasks -> TASK_STATUSES]
    BY <2>1 DEF ClaimBatch, TypeOK, TASK_STATUSES
  <2>6. lease' \in [Tasks -> Lease]
    <3>1. \A t \in Tasks : /\ AcquiredLease(r, number[t]) \in Lease
                           /\ TakenOver(r, t) \in Lease
                           /\ Released(t) \in Lease
      BY <2>3, EmptyRows DEF TypeOK, AcquiredLease, TakenOver, Released, Lease
    <3> QED
      BY <2>1, <3>1 DEF ClaimBatch, TypeOK, number
  <2>7. claim' \in [Reconcilers -> [Tasks -> Claim]]
    <3>1. \A t \in Tasks : /\ [no |-> number[t], out |-> "dispatching"] \in Claim
                           /\ NoClaim \in Claim
      BY <2>3 DEF Claim, Outcomes, NoClaim
    <3>2. [t \in Tasks |-> IF t \in reclaimed \cup claimed
                           THEN [no |-> number[t], out |-> "dispatching"] ELSE NoClaim]
            \in [Tasks -> Claim]
      BY <3>1
    <3> QED
      BY <2>1, <3>2 DEF ClaimBatch, TypeOK, number
  <2>8. aged' \in [Tasks -> BOOLEAN]
    BY <2>1, TouchType DEF ClaimBatch, TypeOK
  <2>9. pc' \in [Reconcilers -> Phases]
    <3>1. "finalize" \in Phases /\ "dispatch" \in Phases
      BY DEF Phases
    <3> QED
      BY <2>1, <3>1 DEF ClaimBatch, TypeOK
  <2>10. tx' \in [holder : Reconcilers \cup {NoOne}, status : WORKFLOW_STATUSES, ver : Nat]
    BY <1>17 DEF ClaimReady, NoTx, WORKFLOW_STATUSES
  <2> QED
    BY <1>17, <2>4, <2>5, <2>6, <2>7, <2>8, <2>9, <2>10 DEF ClaimReady, TypeOK
<1>18. ASSUME NEW r \in Reconcilers, NEW t \in Tasks, CreateRun(r, t) PROVE TypeOK'
  <2>1. attempts' \in [Tasks -> Seq(Attempt)]
    BY <1>18, SetRunType DEF CreateRun, TypeOK, RunStatuses
  <2> QED
    BY <1>18, <2>1 DEF CreateRun, TypeOK, Return, Claim, Outcomes
<1>19. ASSUME NEW r \in Reconcilers, NEW t \in Tasks, EnqueueRun(r, t) PROVE TypeOK'
  <2>1. attempts' \in [Tasks -> Seq(Attempt)]
    BY <1>19, SetRunType DEF EnqueueRun, TypeOK, RunStatuses
  <2> QED
    BY <1>19, <2>1 DEF EnqueueRun, TypeOK, Return, Claim, Outcomes
<1>20. ASSUME NEW r \in Reconcilers, RecordOutcomes(r) PROVE TypeOK'
  <2> DEFINE mine    == {t \in Tasks : claim[r][t].out # "none"}
             no      == [t \in Tasks |-> claim[r][t].no]
             out     == [t \in Tasks |-> claim[r][t].out]
             owned   == {t \in mine : OwnsLease(r, t)}
             applied == {t \in owned : task[t] = "running" /\ IsRunning(t, no[t])}
             good    == {t \in applied : out[t] = "succeeded"}
             bad     == {t \in applied : out[t] = "failed"}
             settled(t) == [attempts[t] EXCEPT ![no[t]] =
                              [status |-> out[t], run |-> @.run,
                               child |-> out[t] = "running" /\ Type[t] = "agent_task"]]
  <2>1. \A t \in mine : out[t] \in {"running", "succeeded", "failed"}
    BY <1>20 DEF RecordOutcomes
  <2>2. attempts' \in [Tasks -> Seq(Attempt)]
    <3>1. ASSUME NEW t \in applied PROVE settled(t) \in Seq(Attempt)
      <4>1. attempts[t] \in Seq(Attempt) /\ attempts[t] \in [DOMAIN attempts[t] -> Attempt]
        BY LenProperties DEF TypeOK
      <4>2. ASSUME NEW a \in Attempt
            PROVE  [status |-> out[t], run |-> a.run,
                    child |-> out[t] = "running" /\ Type[t] = "agent_task"] \in Attempt
        BY <2>1 DEF Attempt, ATTEMPT_STATUSES
      <4>3. settled(t) \in [DOMAIN attempts[t] -> Attempt]
        BY <4>1, <4>2
      <4> QED
        BY <4>1, <4>3, RewrittenSeq
    <3>2. attempts' = [t \in Tasks |-> IF t \in applied THEN settled(t) ELSE attempts[t]]
      BY <1>20 DEF RecordOutcomes
    <3> QED
      BY <3>1, <3>2 DEF TypeOK
  <2>3. task' \in [Tasks -> TASK_STATUSES]
    BY <1>20, AfterFailureType DEF RecordOutcomes, TypeOK, TASK_STATUSES
  <2>4. due' \in [Tasks -> BOOLEAN] /\ aged' \in [Tasks -> BOOLEAN]
    BY <1>20, TouchType DEF RecordOutcomes, TypeOK
  <2>5. lease' \in [Tasks -> Lease]
    BY <1>20, EmptyRows DEF RecordOutcomes, TypeOK, Released
  <2>6. claim' \in [Reconcilers -> [Tasks -> Claim]]
    BY <1>20, EmptyRows DEF RecordOutcomes, TypeOK
  <2>7. outbox' \in [Reconcilers -> SUBSET Notes]
    <3>1. DeadLetters(bad, no) \subseteq Notes
      BY DeadLettersType
    <3>2. outbox' = [outbox EXCEPT ![r] = @ \cup DeadLetters(bad, no)]
      BY <1>20 DEF RecordOutcomes
    <3> QED
      BY <3>1, <3>2 DEF TypeOK
  <2>8. pc' \in [Reconcilers -> Phases]
    BY <1>20 DEF RecordOutcomes, TypeOK, Phases
  <2> QED
    BY <1>20, <2>2, <2>3, <2>4, <2>5, <2>6, <2>7, <2>8 DEF RecordOutcomes, TypeOK
<1>21. ASSUME NEW r \in Reconcilers, Finalize(r) PROVE TypeOK'
  <2>1. PICK S \in SkipSets : Finalize(r)!2!(S)
    BY <1>21 DEF Finalize
  <2>2. task' \in [Tasks -> TASK_STATUSES]
    BY <2>1 DEF WithSkipped, TypeOK, TASK_STATUSES
  <2>3. aged' \in [Tasks -> BOOLEAN]
    BY <2>1, TouchType DEF TypeOK
  <2>4. wf' \in [status : WORKFLOW_STATUSES, ver : Nat]
    BY <2>1, NextStatusType DEF TypeOK, WriteWorkflow
  <2>5. lease' \in [Tasks -> Lease]
    BY <2>1, EmptyRows DEF TypeOK, Released
  <2>6. outbox' \in [Reconcilers -> SUBSET Notes]
    <3>1. [kind |-> "workflow_terminal"] \in Notes
      BY DEF Notes
    <3> QED
      BY <2>1, <3>1 DEF TypeOK
  <2>7. tx' \in [holder : Reconcilers \cup {NoOne}, status : WORKFLOW_STATUSES, ver : Nat]
    BY <1>21 DEF Finalize, NoTx, WORKFLOW_STATUSES
  <2> QED
    BY <1>21, <2>2, <2>3, <2>4, <2>5, <2>6, <2>7 DEF Finalize, TypeOK, Phases
<1>22. ASSUME NEW r \in Reconcilers, Solicit(r) PROVE TypeOK'
  <2>1. \A t \in Gated : [status |-> "pending", solicited |-> TRUE, invalidated |-> FALSE,
                          hash |-> Packet(t, title)] \in Approval
    BY PacketType DEF TypeOK, Approval, APPROVAL_STATUSES
  <2>2. approval' \in [Gated -> Approval]
    BY <1>22, <2>1 DEF Solicit, TypeOK
  <2> QED
    BY <1>22, <2>2 DEF Solicit, TypeOK, Phases, NoTx, WORKFLOW_STATUSES
<1>23. ASSUME NEW from, NEW to \in WORKFLOW_STATUSES, StatusChange(from, to) PROVE TypeOK'
  BY <1>23 DEF StatusChange, WriteWorkflow, TypeOK
<1>24. CASE renameWorkflowCas
  BY <1>24 DEF renameWorkflowCas, WriteWorkflow, TypeOK
<1>25. CASE cancelWorkflow
  <2>1. task' \in [Tasks -> TASK_STATUSES]
    BY <1>25 DEF cancelWorkflow, TypeOK, TASK_STATUSES
  <2>2. aged' \in [Tasks -> BOOLEAN]
    BY <1>25, TouchType DEF cancelWorkflow, TypeOK
  <2>3. wf' \in [status : WORKFLOW_STATUSES, ver : Nat]
    BY <1>25 DEF cancelWorkflow, TypeOK, WriteWorkflow, WORKFLOW_STATUSES
  <2>4. lease' \in [Tasks -> Lease]
    BY <1>25, EmptyRows DEF cancelWorkflow, Released
  <2>5. kill' \in [Actors -> SUBSET RunKeys]
    BY <1>25, PersistedChildrenType DEF cancelWorkflow, TypeOK
  <2>6. approval' \in [Gated -> Approval]
    BY <1>25 DEF cancelWorkflow, TypeOK, Invalidated, Approval
  <2> QED
    BY <1>25, <2>1, <2>2, <2>3, <2>4, <2>5, <2>6 DEF cancelWorkflow, TypeOK
<1>26. CASE WebCrash
  <2>1. kill' \in [Actors -> SUBSET RunKeys]
    BY <1>26 DEF WebCrash, TypeOK
  <2>2. crashes' \in Nat
    BY <1>26 DEF WebCrash, TypeOK
  <2> QED
    BY <1>26, <2>1, <2>2 DEF WebCrash, TypeOK
<1>27. ASSUME NEW t \in Tasks, markManualDone(t) PROVE TypeOK'
  BY <1>27, TouchType DEF markManualDone, TypeOK, TASK_STATUSES
<1>28. ASSUME NEW t \in Gated, NEW d, decideWorkflowApproval(t, d) PROVE TypeOK'
  <2>1. DecisionStatus(t, d) \in APPROVAL_STATUSES
    BY DEF DecisionStatus, APPROVAL_STATUSES
  <2>2. approval' \in [Gated -> Approval]
    BY <1>28, <2>1 DEF decideWorkflowApproval, TypeOK, Decided, Approval
  <2> QED
    BY <1>28, <2>2 DEF decideWorkflowApproval, TypeOK
<1>29. ASSUME NEW t \in Tasks, NEW x \in Titles, updatePausedSpec(t, x) PROVE TypeOK'
  <2>1. [title EXCEPT ![t] = x] \in [Tasks -> Titles]
    BY DEF TypeOK
  <2>2. /\ approval' \in [Gated -> Approval] /\ title' \in [Tasks -> Titles]
        /\ due' \in [Tasks -> BOOLEAN] /\ opens' \in [Tasks -> BOOLEAN]
    BY <1>29, <2>1, ReopenedType DEF updatePausedSpec, diffApplySpecRows, TypeOK
  <2>3. aged' \in [Tasks -> BOOLEAN]
    BY <1>29, TouchType DEF updatePausedSpec, diffApplySpecRows, TypeOK
  <2>4. wf' \in [status : WORKFLOW_STATUSES, ver : Nat]
    BY <1>29 DEF updatePausedSpec, diffApplySpecRows, WriteWorkflow, TypeOK
  <2> QED
    BY <1>29, <2>2, <2>3, <2>4 DEF updatePausedSpec, diffApplySpecRows, TypeOK
<1>30. ASSUME NEW t \in Tasks, NEW n \in DOMAIN attempts[t],
              NEW how \in {"completed", "failed"}, RunEnds(t, n, how)
       PROVE  TypeOK'
  <2>1. attempts' \in [Tasks -> Seq(Attempt)]
    BY <1>30, SetRunType DEF RunEnds, TypeOK, RunStatuses
  <2> QED
    BY <1>30, <2>1 DEF RunEnds, TypeOK
<1>31. ASSUME NEW t \in Tasks, DueArrives(t) PROVE TypeOK'
  BY <1>31 DEF DueArrives, TypeOK
<1>32. ASSUME NEW t \in Tasks, SolicitationArrives(t) PROVE TypeOK'
  BY <1>32 DEF SolicitationArrives, TypeOK
<1>33. ASSUME NEW t \in Tasks, RowAges(t) PROVE TypeOK'
  BY <1>33 DEF RowAges, TypeOK
<1>34. ASSUME NEW t \in Tasks, LeaseExpires(t) PROVE TypeOK'
  BY <1>34 DEF LeaseExpires, TypeOK, WithExpiry, Lease
<1>35. CASE UNCHANGED vars
  BY <1>35 DEF vars, TypeOK
<1>36. \A phase : phase \in {"reject", "stale", "claim", "solicit", "notify"} => phase \in Phases
  BY DEF Phases
<1>37. \A status : status \in {"active", "paused"} => status \in WORKFLOW_STATUSES
  BY DEF WORKFLOW_STATUSES
<1>38. ASSUME NEW r \in Reconcilers, TickStep(r) PROVE TypeOK'
  BY <1>2, <1>3, <1>4, <1>5, <1>7, <1>8, <1>9, <1>11, <1>13, <1>14, <1>15, <1>16, <1>17,
     <1>18, <1>19, <1>20, <1>21, <1>22, <1>36, <1>38 DEF TickStep, CancelChildRuns, Actors
<1>39. ASSUME NEW r \in Reconcilers, TickFault(r) PROVE TypeOK'
  BY <1>6, <1>12, <1>36, <1>39 DEF TickFault
<1>40. CASE Reconcile
  BY <1>1, <1>10, <1>38, <1>39, <1>40 DEF Reconcile
<1>41. CASE Users
  BY <1>15, <1>23, <1>24, <1>25, <1>26, <1>27, <1>28, <1>29, <1>37, <1>41
     DEF Users, startWorkflow, pauseWorkflow, resumeWorkflow, CancelCollected, Actors
<1>42. CASE Runs
  BY <1>30, <1>42 DEF Runs
<1>43. CASE Clock
  BY <1>31, <1>32, <1>33, <1>34, <1>43 DEF Clock
<1> QED
  BY <1>35, <1>40, <1>41, <1>42, <1>43 DEF Next

(* Every reachable state is well typed: every write of every operation     *)
(* stays within the enumerations of state/transitions.ts and schema.ts.    *)
THEOREM TypeCorrect == Spec => []TypeOK
<1>1. Init => TypeOK
  BY InitType
<1>2. TypeOK /\ [Next]_vars => TypeOK'
  BY NextType
<1> QED
  BY <1>1, <1>2, PTL DEF Spec

-----------------------------------------------------------------------------
(* The dispatch protocol.                                                  *)

(* The three invariants for one task.                                      *)
Sound(t) ==
  /\ \A n \in DOMAIN attempts[t] :
       IsRunning(t, n) => n = Len(attempts[t]) /\ task[t] \notin {"idle", "scheduled"}
  /\ lease[t].token # NoOne =>
       /\ \/ task[t] \in {"running", "skipped"}
          \/ Type[t] = "manual" /\ task[t] = "succeeded"
       /\ lease[t].no = Len(attempts[t]) /\ lease[t].no # 0
       /\ ~attempts[t][lease[t].no].child
  /\ Type[t] = "agent_task" =>
       /\ Len(attempts[t]) <= MaxAttempts[t]
       /\ task[t] \in {"idle", "scheduled"} => Len(attempts[t]) < MaxAttempts[t]

AllSound == \A t \in Tasks : Sound(t)

(* Rewriting an element of a sequence does not change its length.          *)
LEMMA ExceptLen ==
  ASSUME NEW S, NEW s \in Seq(S), NEW f, f = [i \in DOMAIN s |-> f[i]]
  PROVE  Len(f) = Len(s) /\ DOMAIN f = DOMAIN s
<1> DEFINE R == {f[i] : i \in DOMAIN s}
<1>1. Len(s) \in Nat /\ DOMAIN s = 1 .. Len(s)
  BY LenProperties
<1>2. f \in [1 .. Len(s) -> R]
  BY <1>1
<1>3. f \in Seq(R)
  BY <1>1, <1>2, SeqDef
<1>4. Len(f) \in Nat /\ DOMAIN f = 1 .. Len(f)
  BY <1>3, LenProperties
<1> QED
  BY <1>1, <1>2, <1>4

(* What the type invariant says of the attempts of one task.               *)
LEMMA AttemptsOf ==
  ASSUME TypeOK, NEW t \in Tasks
  PROVE  /\ attempts[t] \in Seq(Attempt)
         /\ Len(attempts[t]) \in Nat
         /\ DOMAIN attempts[t] = 1 .. Len(attempts[t])
         /\ attempts[t] \in [DOMAIN attempts[t] -> Attempt]
         /\ \A n \in DOMAIN attempts[t] : attempts[t][n] \in Attempt
<1>1. attempts[t] \in Seq(Attempt)
  BY DEF TypeOK
<1> QED
  BY <1>1, LenProperties, ElementOfSeq

(* A step that leaves the task row, the owner and attempt of the lease and *)
(* the status and child of every attempt alone keeps the task sound.       *)
LEMMA KeepsSound ==
  ASSUME TypeOK, NEW t \in Tasks, Sound(t),
         task'[t] = task[t],
         lease'[t].token = lease[t].token, lease'[t].no = lease[t].no,
         Len(attempts'[t]) = Len(attempts[t]),
         DOMAIN attempts'[t] = DOMAIN attempts[t],
         \A n \in DOMAIN attempts[t] :
           /\ attempts'[t][n].status = attempts[t][n].status
           /\ attempts'[t][n].child = attempts[t][n].child
  PROVE  Sound(t)'
<1>1. lease[t].token # NoOne => lease[t].no \in DOMAIN attempts[t]
  BY AttemptsOf DEF Sound
<1> QED
  BY <1>1 DEF Sound, IsRunning

(* A step that leaves the rows of a task alone keeps it sound.             *)
LEMMA UnchangedSound ==
  ASSUME TypeOK, NEW t \in Tasks, Sound(t),
         task'[t] = task[t], lease'[t] = lease[t], attempts'[t] = attempts[t]
  PROVE  Sound(t)'
BY KeepsSound

(* Moving a run to another status keeps every task sound.                  *)
LEMMA SetRunSound ==
  ASSUME TypeOK, NEW t \in Tasks, Sound(t), NEW u \in Tasks, NEW n, NEW run,
         attempts' = SetRun(u, n, run), task' = task, lease' = lease
  PROVE  Sound(t)'
<1>1. CASE t # u
  <2>1. attempts'[t] = attempts[t]
    BY <1>1 DEF SetRun, TypeOK
  <2> QED
    BY <2>1, UnchangedSound
<1>2. CASE t = u
  <2>1. attempts'[t] = [attempts[t] EXCEPT ![n] = WithRun(@, run)]
    BY <1>2 DEF SetRun, TypeOK
  <2>2. DOMAIN attempts'[t] = DOMAIN attempts[t]
    BY <2>1
  <2>3. ASSUME NEW m \in DOMAIN attempts[t]
        PROVE  /\ attempts'[t][m].status = attempts[t][m].status
               /\ attempts'[t][m].child = attempts[t][m].child
    BY <2>1, <2>3, AttemptsOf DEF WithRun, Attempt
  <2>4. Len(attempts'[t]) = Len(attempts[t])
    <3>1. attempts'[t] = [i \in DOMAIN attempts[t] |-> attempts'[t][i]]
      BY <2>1
    <3> QED
      BY <3>1, ExceptLen, AttemptsOf
  <2> QED
    BY <2>2, <2>3, <2>4, KeepsSound
<1> QED
  BY <1>1, <1>2

(* A fresh draft has no attempt and no lease.                              *)
LEMMA InitSound == Init => AllSound
<1> SUFFICES ASSUME Init, NEW t \in Tasks PROVE Sound(t)
  BY DEF AllSound
<1>1. attempts[t] = << >> /\ Len(attempts[t]) = 0 /\ DOMAIN attempts[t] = {}
  BY DEF Init, insertSpecRows
<1>2. lease[t].token = NoOne
  BY DEF Init, insertSpecRows, NoLease
<1>3. MaxAttempts[t] \in Nat \ {0}
  BY GraphAssumption
<1> QED
  BY <1>1, <1>2, <1>3 DEF Sound

(* pollRunningAgentTasks settles the last attempt, which has no lease.     *)
LEMMA SettlePolledSound ==
  ASSUME TypeOK, AllSound, NEW r \in Reconcilers, SettlePolled(r), NEW t \in Tasks
  PROVE  Sound(t)'
<1> DEFINE live == {p \in polled[r] : StillPolled(p)}
           done == {p.task : p \in live}
           no   == [u \in done |-> (CHOOSE p \in live : p.task = u).no]
           bad  == {p.task : p \in {q \in live : q.failed}}
<1>1. /\ attempts' = [u \in Tasks |->
           IF u \in done
           THEN [attempts[u] EXCEPT ![no[u]] =
                   WithStatus(@, IF u \in bad THEN "failed" ELSE "succeeded")]
           ELSE attempts[u]]
      /\ task' = [u \in Tasks |->
           CASE u \in done \ bad -> "succeeded"
             [] u \in bad -> AfterFailure(u, no[u])
             [] OTHER -> task[u]]
      /\ lease' = lease
  BY DEF SettlePolled
<1>2. bad \subseteq done
  OBVIOUS
<1>3. t \in done =>
        /\ task[t] = "running"
        /\ IsRunning(t, no[t]) /\ attempts[t][no[t]].child
  BY DEF StillPolled
<1> HIDE DEF live, done, no, bad
<1>4. CASE t \notin done
  <2>1. attempts'[t] = attempts[t] /\ task'[t] = task[t] /\ lease'[t] = lease[t]
    BY <1>1, <1>2, <1>4
  <2> QED
    BY <2>1, UnchangedSound DEF AllSound
<1>5. CASE t \in done
  <2>1. no[t] = Len(attempts[t]) /\ no[t] \in DOMAIN attempts[t]
    BY <1>3, <1>5 DEF AllSound, Sound, IsRunning
  <2>2. lease[t].token = NoOne
    BY <1>3, <1>5, <2>1 DEF AllSound, Sound
  <2>3. attempts'[t] = [attempts[t] EXCEPT ![no[t]] =
                          WithStatus(@, IF t \in bad THEN "failed" ELSE "succeeded")]
    BY <1>1, <1>5
  <2>4. Len(attempts'[t]) = Len(attempts[t]) /\ DOMAIN attempts'[t] = DOMAIN attempts[t]
    <3>1. attempts'[t] = [i \in DOMAIN attempts[t] |-> attempts'[t][i]]
      BY <2>3
    <3> QED
      BY <3>1, ExceptLen, AttemptsOf
  <2>5. ASSUME NEW n \in DOMAIN attempts'[t] PROVE attempts'[t][n].status # "running"
    BY <2>1, <2>3, <2>4 DEF AllSound, Sound, IsRunning, WithStatus
  <2>6. task'[t] \in {"idle", "scheduled"} => Len(attempts[t]) < MaxAttempts[t]
    BY <1>1, <1>5, <2>1 DEF AfterFailure, HasRetry
  <2> QED
    BY <1>1, <2>2, <2>4, <2>5, <2>6 DEF AllSound, Sound, IsRunning
<1> QED
  BY <1>4, <1>5

(* recordOutcomes settles the last attempt and releases its lease.         *)
LEMMA RecordOutcomesSound ==
  ASSUME TypeOK, AllSound, NEW r \in Reconcilers, RecordOutcomes(r), NEW t \in Tasks
  PROVE  Sound(t)'
<1> DEFINE mine    == {u \in Tasks : claim[r][u].out # "none"}
           no      == [u \in Tasks |-> claim[r][u].no]
           out     == [u \in Tasks |-> claim[r][u].out]
           owned   == {u \in mine : OwnsLease(r, u)}
           applied == {u \in owned : task[u] = "running" /\ IsRunning(u, no[u])}
           good    == {u \in applied : out[u] = "succeeded"}
           bad     == {u \in applied : out[u] = "failed"}
<1>1. /\ lease' = [u \in Tasks |-> IF u \in owned THEN Released(u) ELSE lease[u]]
      /\ attempts' = [u \in Tasks |->
           IF u \in applied
           THEN [attempts[u] EXCEPT ![no[u]] =
                   [status |-> out[u], run |-> @.run,
                    child |-> out[u] = "running" /\ Type[u] = "agent_task"]]
           ELSE attempts[u]]
      /\ task' = [u \in Tasks |-> CASE u \in good -> "succeeded"
                                    [] u \in bad -> AfterFailure(u, no[u])
                                    [] OTHER -> task[u]]
  BY DEF RecordOutcomes
<1>2. applied \subseteq owned /\ good \subseteq applied /\ bad \subseteq applied
  OBVIOUS
<1>3. t \in applied => task[t] = "running" /\ IsRunning(t, no[t])
  OBVIOUS
<1>4. t \in good => out[t] # "running"
  OBVIOUS
<1>5. t \in bad => out[t] # "running"
  OBVIOUS
<1> HIDE DEF mine, no, out, owned, applied, good, bad
<1>6. CASE t \notin applied
  <2>1. attempts'[t] = attempts[t] /\ task'[t] = task[t]
    BY <1>1, <1>2, <1>6
  <2>2. lease'[t] = NoLease \/ lease'[t] = lease[t]
    BY <1>1 DEF Released
  <2>3. CASE lease'[t] = NoLease
    BY <2>1, <2>3 DEF AllSound, Sound, NoLease, IsRunning
  <2> QED
    BY <2>1, <2>2, <2>3, UnchangedSound DEF AllSound
<1>7. CASE t \in applied
  <2>1. no[t] = Len(attempts[t]) /\ no[t] \in DOMAIN attempts[t]
    BY <1>3, <1>7 DEF AllSound, Sound, IsRunning
  <2>2. lease'[t].token = NoOne
    BY <1>1, <1>2, <1>7 DEF Released, NoLease
  <2>3. attempts'[t] = [attempts[t] EXCEPT ![no[t]] =
                          [status |-> out[t], run |-> @.run,
                           child |-> out[t] = "running" /\ Type[t] = "agent_task"]]
    BY <1>1, <1>7
  <2>4. Len(attempts'[t]) = Len(attempts[t]) /\ DOMAIN attempts'[t] = DOMAIN attempts[t]
    <3>1. attempts'[t] = [i \in DOMAIN attempts[t] |-> attempts'[t][i]]
      BY <2>3
    <3> QED
      BY <3>1, ExceptLen, AttemptsOf
  <2>5. ASSUME NEW n \in DOMAIN attempts'[t], attempts'[t][n].status = "running"
        PROVE  n = Len(attempts[t]) /\ task'[t] = "running"
    <3>1. n = no[t]
      BY <2>1, <2>3, <2>4, <2>5 DEF AllSound, Sound, IsRunning
    <3>2. out[t] = "running"
      BY <2>1, <2>3, <2>5, <3>1
    <3> QED
      BY <1>1, <1>3, <1>4, <1>5, <1>7, <2>1, <3>1, <3>2
  <2>6. task'[t] \in {"idle", "scheduled"} => Len(attempts[t]) < MaxAttempts[t]
    BY <1>1, <1>3, <1>7, <2>1 DEF AfterFailure, HasRetry
  <2> QED
    BY <2>2, <2>4, <2>5, <2>6 DEF AllSound, Sound, IsRunning
<1> QED
  BY <1>6, <1>7

(* Failing the stale attempts of a crashed dispatch leaves none running.   *)
LEMMA StaleAttemptsSettled ==
  ASSUME TypeOK, NEW t \in Tasks
  PROVE  /\ Len(StaleAttempts(t)) = Len(attempts[t])
         /\ DOMAIN StaleAttempts(t) = DOMAIN attempts[t]
         /\ StaleAttempts(t) \in Seq(Attempt)
         /\ \A n \in DOMAIN attempts[t] : StaleAttempts(t)[n].status # "running"
<1>1. \A n \in DOMAIN attempts[t] : StaleAttempts(t)[n].status # "running"
  BY AttemptsOf DEF StaleAttempts, WithStatus
<1>2. attempts \in [Tasks -> Seq(Attempt)]
  BY DEF TypeOK
<1> QED
  BY <1>1, <1>2, StaleAttemptsType DEF StaleAttempts

(* claimReadyTasks adds an attempt only to a task that has none running.   *)
LEMMA ClaimReadySound ==
  ASSUME TypeOK, AllSound, NEW r \in Reconcilers, ClaimReady(r), NEW t \in Tasks
  PROVE  Sound(t)'
<1>1. PICK reclaimed \in SUBSET Reclaimable, claimed \in SUBSET Tasks :
        /\ ClaimBatch(r, reclaimed, claimed)
        /\ \A u \in claimed : u \in Crashed \/ task[u] \in {"idle", "scheduled"}
  BY DEF ClaimReady, Batches
<1> DEFINE past   == [u \in Tasks |-> IF u \in Crashed THEN StaleAttempts(u) ELSE attempts[u]]
           number == [u \in Tasks |->
                        IF u \in reclaimed
                        THEN CHOOSE n \in DOMAIN attempts[u] : LatestRunning(u, n)
                        ELSE Len(attempts[u]) + 1]
           rest   == Crashed \ claimed
<1>2. /\ task' = [u \in Tasks |-> CASE u \in claimed -> "running"
                                   [] u \in rest -> "scheduled"
                                   [] OTHER -> task[u]]
      /\ attempts' = [u \in Tasks |-> IF u \in claimed
                                      THEN Append(past[u], NewAttempt)
                                      ELSE past[u]]
      /\ lease' = [u \in Tasks |->
           CASE u \in claimed -> AcquiredLease(r, number[u])
             [] u \in reclaimed -> TakenOver(r, u)
             [] u \in rest -> Released(u)
             [] OTHER -> lease[u]]
  BY <1>1 DEF ClaimBatch
<1>3. /\ Len(past[t]) = Len(attempts[t]) /\ DOMAIN past[t] = DOMAIN attempts[t]
      /\ past[t] \in Seq(Attempt)
  BY StaleAttemptsSettled, AttemptsOf
<1>4. t \in Crashed => \A n \in DOMAIN attempts[t] : past[t][n].status # "running"
  BY StaleAttemptsSettled
<1>5. t \notin Crashed => past[t] = attempts[t]
  OBVIOUS
<1>6. t \in Crashed => task[t] = "running" /\ Type[t] # "agent_task"
  BY DEF Crashed, INSTANTANEOUS_EXECUTOR_TYPES
<1>7. t \in reclaimed => /\ t \notin claimed /\ t \notin Crashed
                         /\ task[t] = "running" /\ lease[t].token # NoOne
  BY <1>1 DEF Reclaimable, Crashed, INSTANTANEOUS_EXECUTOR_TYPES
<1>8. t \notin reclaimed => number[t] = Len(attempts[t]) + 1
  OBVIOUS
<1>9. t \in rest <=> t \in Crashed /\ t \notin claimed
  OBVIOUS
<1> HIDE DEF past, number, rest
<1>10. Len(attempts[t]) \in Nat /\ DOMAIN attempts[t] = 1 .. Len(attempts[t])
  BY AttemptsOf
<1>11. CASE t \in claimed
  <2>1. /\ task'[t] = "running" /\ attempts'[t] = Append(past[t], NewAttempt)
        /\ lease'[t] = AcquiredLease(r, Len(attempts[t]) + 1)
    <3>1. number[t] = Len(attempts[t]) + 1
      BY <1>7, <1>8, <1>11
    <3>2. lease'[t] = AcquiredLease(r, number[t])
      BY <1>2, <1>7, <1>9, <1>11
    <3>3. task'[t] = "running" /\ attempts'[t] = Append(past[t], NewAttempt)
      BY <1>2, <1>9, <1>11
    <3> QED
      BY <3>1, <3>2, <3>3
  <2>2. \A n \in DOMAIN past[t] : past[t][n].status # "running"
    BY <1>1, <1>3, <1>4, <1>5, <1>11 DEF AllSound, Sound, IsRunning
  <2>3. NewAttempt \in Attempt /\ NewAttempt.child = FALSE
    BY DEF NewAttempt, Attempt, ATTEMPT_STATUSES, RunStatuses
  <2>4. /\ Len(attempts'[t]) = Len(attempts[t]) + 1
        /\ DOMAIN attempts'[t] = 1 .. (Len(attempts[t]) + 1)
        /\ attempts'[t][Len(attempts[t]) + 1] = NewAttempt
        /\ \A n \in 1 .. Len(attempts[t]) : attempts'[t][n] = past[t][n]
    BY <1>3, <1>10, <2>1, <2>3, AppendProperties, LenProperties
  <2>5. ASSUME NEW n \in DOMAIN attempts'[t], attempts'[t][n].status = "running"
        PROVE  n = Len(attempts[t]) + 1
    BY <1>3, <1>10, <2>2, <2>4, <2>5
  <2>6. /\ lease'[t].no = Len(attempts[t]) + 1
        /\ ~attempts'[t][Len(attempts[t]) + 1].child
    BY <2>1, <2>3, <2>4 DEF AcquiredLease
  <2>7. Type[t] = "agent_task" => Len(attempts[t]) + 1 <= MaxAttempts[t]
    <3>1. MaxAttempts[t] \in Nat
      BY GraphAssumption
    <3>2. Type[t] = "agent_task" => Len(attempts[t]) < MaxAttempts[t]
      BY <1>1, <1>6, <1>11 DEF AllSound, Sound
    <3> QED
      BY <1>10, <3>1, <3>2
  <2> QED
    BY <1>10, <2>1, <2>4, <2>5, <2>6, <2>7 DEF Sound, IsRunning
<1>12. CASE t \in Crashed /\ t \notin claimed
  <2>1. task'[t] = "scheduled" /\ attempts'[t] = past[t] /\ lease'[t] = NoLease
    BY <1>2, <1>7, <1>9, <1>12 DEF Released
  <2> QED
    BY <1>3, <1>4, <1>6, <1>12, <2>1 DEF Sound, IsRunning, NoLease
<1>13. CASE t \in reclaimed
  <2>1. task'[t] = task[t] /\ attempts'[t] = attempts[t] /\ lease'[t] = TakenOver(r, t)
    BY <1>2, <1>5, <1>7, <1>9, <1>13
  <2>2. lease'[t].no = lease[t].no /\ lease[t].token # NoOne
    BY <1>7, <1>13, <2>1 DEF TakenOver
  <2> QED
    BY <2>1, <2>2 DEF AllSound, Sound, IsRunning
<1>14. CASE t \notin claimed /\ t \notin Crashed /\ t \notin reclaimed
  BY <1>2, <1>5, <1>9, <1>14, UnchangedSound DEF AllSound
<1> QED
  BY <1>11, <1>12, <1>13, <1>14

(* Losing its lease and leaving the queue of claimable tasks keeps a task  *)
(* sound: what a cancel does to it.                                        *)
LEMMA TornSound ==
  ASSUME TypeOK, NEW t \in Tasks, Sound(t), attempts'[t] = attempts[t],
         task'[t] = task[t] \/ task'[t] \in {"skipped", "cancelled"},
         lease'[t] = NoLease
  PROVE  Sound(t)'
<1>1. lease'[t].token = NoOne
  BY DEF NoLease
<1> QED
  BY <1>1 DEF Sound, IsRunning

(* A rejection skips a task or tears all leases down.                      *)
LEMMA ApplyRejectedSound ==
  ASSUME TypeOK, AllSound, NEW r \in Reconcilers, ApplyRejected(r), NEW t \in Tasks
  PROVE  Sound(t)'
<1>1. attempts' = attempts
  BY DEF ApplyRejected
<1>2. CASE RejectedWith("cancel") # {} /\ WorkflowCas
  <2>1. lease'[t] = NoLease
    BY <1>2 DEF ApplyRejected, Released
  <2>2. task'[t] = task[t] \/ task'[t] \in {"skipped", "cancelled"}
    BY <1>2 DEF ApplyRejected
  <2> QED
    BY <1>1, <2>1, <2>2, TornSound DEF AllSound
<1>3. CASE ~(RejectedWith("cancel") # {} /\ WorkflowCas)
  <2>1. lease' = lease /\ (task'[t] = task[t] \/ task'[t] = "skipped")
    BY <1>3 DEF ApplyRejected
  <2> QED
    BY <1>1, <2>1 DEF AllSound, Sound, IsRunning
<1> QED
  BY <1>2, <1>3

(* finalizeWorkflow skips tasks and may tear all leases down.              *)
LEMMA FinalizeSound ==
  ASSUME TypeOK, AllSound, NEW r \in Reconcilers, Finalize(r), NEW t \in Tasks
  PROVE  Sound(t)'
<1>1. PICK S \in SkipSets : Finalize(r)!2!(S)
  BY DEF Finalize
<1>2. attempts' = attempts
  BY DEF Finalize
<1>3. task'[t] = task[t] \/ task'[t] = "skipped"
  BY <1>1 DEF WithSkipped
<1>4. lease'[t] = NoLease \/ lease'[t] = lease[t]
  BY <1>1 DEF Released
<1> QED
  BY <1>2, <1>3, <1>4, TornSound DEF AllSound, Sound, IsRunning

(* Every step keeps every task sound.                                      *)
LEMMA NextSound == TypeOK /\ AllSound /\ [Next]_vars => AllSound'
<1> SUFFICES ASSUME TypeOK, AllSound, [Next]_vars, NEW t \in Tasks PROVE Sound(t)'
  BY DEF AllSound
<1>1. Sound(t)
  BY DEF AllSound
<1>2. CASE UNCHANGED <<task, attempts, lease>>
  BY <1>1, <1>2, UnchangedSound
<1>3. ASSUME NEW u \in Tasks, NEW n, NEW run,
             attempts' = SetRun(u, n, run) \/ attempts' = attempts,
             UNCHANGED <<task, lease>>
      PROVE  Sound(t)'
  BY <1>1, <1>2, <1>3, SetRunSound
<1>4. ASSUME NEW u \in Tasks, NEW expired,
             lease' = [lease EXCEPT ![u] = WithExpiry(@, expired)],
             UNCHANGED <<task, attempts>>
      PROVE  Sound(t)'
  <2>1. lease'[t].token = lease[t].token /\ lease'[t].no = lease[t].no
    BY <1>4 DEF TypeOK, WithExpiry
  <2> QED
    BY <1>1, <1>4, <2>1, KeepsSound
<1>5. ASSUME NEW x \in Actors, NEW k \in kill[x], NEW ok, StopRun(x, k, ok)
      PROVE  Sound(t)'
  <2>1. k[1] \in Tasks
    BY DEF TypeOK, RunKeys
  <2> QED
    BY <1>3, <1>5, <2>1 DEF StopRun
<1>6. ASSUME NEW r \in Reconcilers, TickStep(r) PROVE Sound(t)'
  <2>1. CASE PollRead(r) \/ BeginTx(r) \/ SettleInactive(r) \/ TeardownDone(r)
             \/ InvalidateStale(r) \/ Solicit(r) \/ Notify(r)
    BY <1>2, <2>1 DEF PollRead, BeginTx, SettleInactive, TeardownDone,
                      InvalidateStale, Solicit, Notify, rows
  <2>2. ASSUME NEW phase, NEW next, SkipPhase(r, phase, next) PROVE Sound(t)'
    BY <1>2, <2>2 DEF SkipPhase, rows
  <2>3. CASE CancelChildRuns(r)
    BY <1>5, <2>3 DEF CancelChildRuns, Actors
  <2>4. ASSUME NEW u \in Tasks, CreateRun(r, u) PROVE Sound(t)'
    BY <1>3, <2>4 DEF CreateRun
  <2>5. ASSUME NEW u \in Tasks, EnqueueRun(r, u) PROVE Sound(t)'
    BY <1>3, <2>5 DEF EnqueueRun
  <2>6. ASSUME NEW u \in Tasks, ExecuteBuiltin(r, u) \/ DispatchFails(r, u)
        PROVE  Sound(t)'
    BY <1>2, <2>6 DEF ExecuteBuiltin, DispatchFails, rows
  <2> QED
    BY <1>6, <2>1, <2>2, <2>3, <2>4, <2>5, <2>6, SettlePolledSound, ApplyRejectedSound,
       ClaimReadySound, RecordOutcomesSound, FinalizeSound DEF TickStep
<1>7. ASSUME NEW r \in Reconcilers, TickFault(r) PROVE Sound(t)'
  BY <1>2, <1>7 DEF TickFault, Crash, PhaseFails, rows
<1>8. CASE Reconcile
  <2>1. ASSUME NEW r \in Reconcilers, StartTick(r) PROVE Sound(t)'
    BY <1>2, <2>1 DEF StartTick, rows
  <2>2. ASSUME NEW r \in Reconcilers, NEW u \in Tasks, Heartbeat(r, u) PROVE Sound(t)'
    BY <1>4, <2>2 DEF Heartbeat
  <2> QED
    BY <1>6, <1>7, <1>8, <2>1, <2>2 DEF Reconcile
<1>9. CASE Users
  <2>1. CASE startWorkflow \/ pauseWorkflow \/ resumeWorkflow \/ renameWorkflowCas \/ WebCrash
    BY <1>2, <2>1 DEF startWorkflow, pauseWorkflow, resumeWorkflow, StatusChange,
                      renameWorkflowCas, WebCrash, rows
  <2>2. CASE cancelWorkflow
    <3>1. /\ attempts' = attempts /\ lease'[t] = NoLease
          /\ task'[t] = task[t] \/ task'[t] = "cancelled"
      BY <2>2 DEF cancelWorkflow, Released
    <3> QED
      BY <1>1, <3>1, TornSound
  <2>3. CASE CancelCollected
    BY <1>5, <2>3 DEF CancelCollected, Actors
  <2>4. ASSUME NEW u \in Tasks, markManualDone(u) PROVE Sound(t)'
    <3>1. CASE u # t
      BY <1>1, <2>4, <3>1, UnchangedSound DEF markManualDone
    <3>2. CASE u = t
      <4>1. /\ task'[t] = "succeeded" /\ Type[t] = "manual"
            /\ attempts' = attempts /\ lease' = lease
        BY <2>4, <3>2 DEF markManualDone, CompletableManually, TypeOK
      <4> QED
        BY <1>1, <4>1 DEF Sound, IsRunning
    <3> QED
      BY <3>1, <3>2
  <2>5. ASSUME NEW u \in Gated, NEW d, decideWorkflowApproval(u, d) PROVE Sound(t)'
    BY <1>2, <2>5 DEF decideWorkflowApproval
  <2>6. ASSUME NEW u \in Tasks, NEW x \in Titles, updatePausedSpec(u, x) PROVE Sound(t)'
    BY <1>2, <2>6 DEF updatePausedSpec, diffApplySpecRows
  <2> QED
    BY <1>9, <2>1, <2>2, <2>3, <2>4, <2>5, <2>6 DEF Users
<1>10. CASE Runs
  BY <1>3, <1>10 DEF Runs, RunEnds
<1>11. CASE Clock
  <2>1. ASSUME NEW u \in Tasks, LeaseExpires(u) PROVE Sound(t)'
    BY <1>4, <2>1 DEF LeaseExpires
  <2>2. ASSUME NEW u \in Tasks, DueArrives(u) \/ SolicitationArrives(u) \/ RowAges(u)
        PROVE  Sound(t)'
    BY <1>2, <2>2 DEF DueArrives, SolicitationArrives, RowAges
  <2> QED
    BY <1>11, <2>1, <2>2 DEF Clock
<1>12. CASE UNCHANGED vars
  BY <1>2, <1>12 DEF vars
<1> QED
  BY <1>8, <1>9, <1>10, <1>11, <1>12 DEF Next

(* The inductive invariant holds throughout.                               *)
LEMMA AlwaysSound == Spec => []AllSound
<1>1. Init => AllSound
  BY InitSound
<1>2. TypeOK /\ AllSound /\ [Next]_vars => AllSound'
  BY NextSound
<1> QED
  BY <1>1, <1>2, TypeCorrect, PTL DEF Spec

-----------------------------------------------------------------------------
(* A retry, a crash recovery or a reclaimed dispatch never leaves an older *)
(* attempt running beside the current one (claimReadyTasks,                *)
(* recordOutcomes, pollRunningAgentTasks).                                 *)
THEOREM AttemptsDisciplined == Spec => []AttemptDiscipline
<1>1. AllSound => AttemptDiscipline
  BY DEF AllSound, Sound, AttemptDiscipline
<1> QED
  BY <1>1, AlwaysSound, PTL

(* A dispatch lease exists only for the latest attempt of a task whose     *)
(* dispatch is not settled (acquireDispatchLease, takeOverDispatchLease).  *)
THEOREM LeasesGuardDispatches == Spec => []LeaseGuardsDispatch
<1>1. AllSound => LeaseGuardsDispatch
  BY DEF AllSound, Sound, LeaseGuardsDispatch
<1> QED
  BY <1>1, AlwaysSound, PTL

(* No mixture of failures, crashes and reclaims gives an agent_task more   *)
(* attempts than its budget (applyTaskFailure).                            *)
THEOREM RetriesWithinBudget == Spec => []RetryBudget
<1>1. AllSound => RetryBudget
  BY DEF AllSound, Sound, RetryBudget
<1> QED
  BY <1>1, AlwaysSound, PTL
=============================================================================
