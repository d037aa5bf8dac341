--------------------------- MODULE AgentRun_proofs ---------------------------
(***************************************************************************)
(* For any number of handlers in flight, any choice of operations and any  *)
(* number of crashes: the row and the queue keep their types, a queueing   *)
(* is dispatched at most once, and an ended run is revived only by a reset *)
(* or a resume.                                                            *)
(***************************************************************************)
EXTENDS AgentRun, TLAPS

\* What the second UPDATE can write, and the dispatch budget of a queued run.
Sound == TypeOK /\ RewritesTerminal /\ (status = "queued" => spent = 0) /\ spent <= 1

LEMMA InitSound == Init => Sound
  <1> SUFFICES ASSUME Init PROVE Sound
    OBVIOUS
  <1>1. asked \in BOOLEAN /\ sent \in BOOLEAN /\ scheduled \in BOOLEAN /\ released \in BOOLEAN
    BY Zenon DEF Init
  <1>2. fields \in Nat /\ ops \in Nat /\ crashes \in Nat /\ spent \in Nat /\ spent = 0
    BY InstanceAssumption DEF Init
  <1>3. /\ status \in AgentRunStatus /\ trigger \in {"none", "scheduled", "immediate"}
        /\ jobs \in [JobIds -> JobStates]
        /\ op \in [Clients -> Ops \cup {"none"}]
        /\ at \in [Clients -> ClientPlaces]
        /\ seen \in [Clients -> AgentRunStatus \cup {"none", "scheduled", "immediate", "unsaved"}]
        /\ wat \in [JobIds -> WorkerPlaces]
        /\ wseen \in [JobIds -> AgentRunStatus \cup {"none"}]
    BY DEF Init, AgentRunStatus, JobStates, Finished, ClientPlaces, WorkerPlaces
  <1>4. RewritesTerminal
    BY DEF Init, RewritesTerminal
  <1> QED
    BY <1>1, <1>2, <1>3, <1>4 DEF Sound, TypeOK

LEMMA BeginTyped == ASSUME TypeOK, NEW c \in Clients, NEW o \in Ops, Begin(c, o) PROVE TypeOK'
  <1>1. FirstStep(o) \in ClientPlaces
    BY DEF FirstStep, ClientPlaces
  <1>2. TriggerRead \in {"none", "scheduled", "immediate", "unsaved"}
    BY DEF TriggerRead, TypeOK
  <1>3. (IF FirstStep(o) = "cancel" THEN TriggerRead ELSE status)
          \in AgentRunStatus \cup {"none", "scheduled", "immediate", "unsaved"}
    BY <1>2 DEF TypeOK
  <1> QED
    BY <1>1, <1>3 DEF TypeOK, Begin, Carries, row, triggers, workers

LEMMA TransitionTyped == ASSUME TypeOK, NEW c \in Clients, Transition(c) PROVE TypeOK'
  <1>1. To(c) \in AgentRunStatus
    BY DEF To, AgentRunStatus
  <1>2. AfterWin(op[c]) \in ClientPlaces /\ AfterStale(op[c]) \in ClientPlaces
    BY DEF AfterWin, AfterStale, ClientPlaces
  <1> QED
    BY <1>1, <1>2 DEF TypeOK, Transition, Won, Stale, GoesTo, Carries, triggers, workers

LEMMA HandlerTyped == ASSUME TypeOK, RewritesTerminal, NEW c \in Clients, HandlerStep(c)
                      PROVE TypeOK'
  <1> USE DEF TypeOK, GoesTo, Carries, row, triggers, workers
  <1>1. CASE Transition(c)
    BY <1>1, TransitionTyped
  <1>2. CASE Rewrite(c)
    BY <1>2 DEF Rewrite, updateAgentRunStatus, RewritesTerminal, TERMINAL_RUN_STATUSES,
                AgentRunStatus, ClientPlaces
  <1>3. CASE BulkWrite(c)
    BY <1>3 DEF BulkWrite, updateAgentRunStatus, AgentRunStatus, ClientPlaces
  <1>4. CASE ApproveSetup(c)
    BY <1>4 DEF ApproveSetup, AgentRunStatus, ClientPlaces
  <1>5. CASE Enqueue(c)
    BY <1>5 DEF Enqueue, Added, JobOf, JobIds, ExecutionIds, JobStates, Finished, ClientPlaces
  <1>6. CASE Undo(c)
    BY <1>6 DEF Undo, Won, Stale, AgentRunStatus, ClientPlaces
  <1>7. CASE ResumeSend(c)
    BY <1>7 DEF ResumeSend, ClientPlaces
  <1>8. CASE ResumeStarted(c)
    BY <1>8 DEF ResumeStarted, Won, Stale, AgentRunStatus, ClientPlaces
  <1>9. CASE Answer(c)
    BY <1>9 DEF Answer, Won, AgentRunStatus, ClientPlaces
  <1>10. CASE CancelSchedule(c)
    BY <1>10 DEF CancelSchedule, JobIds, ExecutionIds, JobStates, Finished, ClientPlaces
  <1>11. CASE Upsert(c)
    BY <1>11 DEF Upsert, ClientPlaces
  <1>12. CASE ScheduleTrigger(c)
    BY <1>12 DEF ScheduleTrigger, Added, JobIds, ExecutionIds, JobStates, Finished, ClientPlaces
  <1>13. CASE Persist(c)
    BY <1>13 DEF Persist, ClientPlaces
  <1>14. CASE DeleteTrigger(c)
    BY <1>14 DEF DeleteTrigger, ClientPlaces
  <1>15. CASE ReleaseGate(c)
    BY <1>15 DEF ReleaseGate, ClientPlaces
  <1> QED
    BY <1>1, <1>2, <1>3, <1>4, <1>5, <1>6, <1>7, <1>8, <1>9, <1>10, <1>11, <1>12, <1>13,
       <1>14, <1>15 DEF HandlerStep

LEMMA WorkerTyped == ASSUME TypeOK, RewritesTerminal, NEW id \in JobIds,
                            ExecutionStep(id) \/ ReleaseStep(id) \/ Evict(id)
                     PROVE TypeOK'
  <1> USE DEF TypeOK, Moves, Ends, Returns, Throws, row, triggers, clients, WorkerPlaces, JobStates, Finished
  <1>1. CASE TakeExecution(id)
    BY <1>1 DEF TakeExecution
  <1>2. CASE FailEarly(id)
    BY <1>2 DEF FailEarly, Won, Stale, AgentRunStatus
  <1>3. CASE AskForField(id)
    BY <1>3 DEF AskForField, Won, Stale, AgentRunStatus
  <1>4. CASE CheckGate(id)
    BY <1>4 DEF CheckGate
  <1>5. CASE Dispatch(id)
    BY <1>5 DEF Dispatch, AgentRunStatus
  <1>6. CASE Answered(id)
    <2>1. sent' \in BOOLEAN
      BY <1>6 DEF Answered
    <2>2. status' \in AgentRunStatus /\ spent' \in Nat
      BY <1>6 DEF Answered, Settles, Won, Stale, AgentRunStatus
    <2>3. /\ jobs' \in [JobIds -> JobStates] /\ wat' \in [JobIds -> WorkerPlaces]
          /\ wseen' \in [JobIds -> AgentRunStatus \cup {"none"}]
      BY <1>6 DEF Answered, Settles, AgentRunStatus
    <2> QED
      BY <1>6, <2>1, <2>2, <2>3 DEF Answered
  <1>7. CASE WorkerRewrite(id)
    BY <1>7 DEF WorkerRewrite, updateAgentRunStatus, RewritesTerminal,
                TERMINAL_RUN_STATUSES, AgentRunStatus
  <1>8. CASE TakeRelease(id)
    BY <1>8 DEF TakeRelease
  <1>9. CASE markTriggerReleased(id)
    BY <1>9 DEF markTriggerReleased
  <1>10. CASE ReleaseRun(id)
    BY <1>10 DEF ReleaseRun, Won, Stale, AgentRunStatus
  <1>11. CASE EnqueueRun(id)
    BY <1>11 DEF EnqueueRun, Added, JobIds, ExecutionIds
  <1>12. CASE Evict(id)
    BY <1>12 DEF Evict, workers
  <1> QED
    BY <1>1, <1>2, <1>3, <1>4, <1>5, <1>6, <1>7, <1>8, <1>9, <1>10, <1>11, <1>12
       DEF ExecutionStep, ReleaseStep

LEMMA CrashTyped == ASSUME TypeOK, Crash PROVE TypeOK'
  BY DEF TypeOK, Crash, row, triggers, JobStates, Finished, ClientPlaces, WorkerPlaces

-----------------------------------------------------------------------------
\* A swap leaves the dispatch budget of a queued run at zero and spends none.
LEMMA SwapSound == ASSUME NEW from, NEW to, Sound, Won(from, to) \/ Stale(from)
                   PROVE (status' = "queued" => spent' = 0) /\ spent' <= 1
  BY DEF Sound, Won, Stale

LEMMA HandlerSound == ASSUME Sound, NEW c \in Clients, HandlerStep(c) PROVE Sound'
  <1>1. TypeOK'
    BY HandlerTyped DEF Sound
  <1>2. RewritesTerminal'
    <2>1. \A d \in Clients \ {c} : at'[d] = at[d] /\ seen'[d] = seen[d]
      BY DEF Sound, TypeOK, HandlerStep, Transition, Rewrite, BulkWrite, ApproveSetup, Enqueue,
             Undo, ResumeSend, ResumeStarted, Answer, CancelSchedule, Upsert, ScheduleTrigger,
             Persist, DeleteTrigger, ReleaseGate, GoesTo, Carries
    <2>2. at'[c] = "rewrite" => seen'[c] \in TERMINAL_RUN_STATUSES
      <3>1. CASE Transition(c)
        BY <3>1 DEF Transition, GoesTo, Carries, AfterWin, AfterStale, To, Sound, TypeOK,
                    TERMINAL_RUN_STATUSES
      <3>2. CASE Undo(c)
        BY <3>2 DEF Undo, GoesTo, Carries, Sound, TypeOK, TERMINAL_RUN_STATUSES
      <3>3. CASE Answer(c)
        BY <3>3 DEF Answer, GoesTo, Carries, Sound, TypeOK, TERMINAL_RUN_STATUSES
      <3>4. CASE ~(Transition(c) \/ Undo(c) \/ Answer(c))
        BY <3>4 DEF HandlerStep, Rewrite, BulkWrite, ApproveSetup, Enqueue, ResumeSend,
                    ResumeStarted, CancelSchedule, Upsert, ScheduleTrigger, Persist,
                    DeleteTrigger, ReleaseGate, GoesTo, Sound, TypeOK
      <3> QED
        BY <3>1, <3>2, <3>3, <3>4
    <2>3. wat' = wat /\ wseen' = wseen
      BY DEF HandlerStep, Transition, Rewrite, BulkWrite, ApproveSetup, Enqueue,
             Undo, ResumeSend, ResumeStarted, Answer, CancelSchedule, Upsert, ScheduleTrigger,
             Persist, DeleteTrigger, ReleaseGate, workers
    <2> QED
      BY <2>1, <2>2, <2>3 DEF Sound, RewritesTerminal
  <1>3. (status' = "queued" => spent' = 0) /\ spent' <= 1
    <2>1. CASE Transition(c)
      BY <2>1, SwapSound DEF Transition
    <2>2. CASE Rewrite(c) \/ BulkWrite(c)
      BY <2>2 DEF Rewrite, BulkWrite, updateAgentRunStatus, Sound, RewritesTerminal,
                  TERMINAL_RUN_STATUSES
    <2>3. CASE ApproveSetup(c)
      BY <2>3 DEF ApproveSetup, Sound
    <2>4. CASE Undo(c)
      BY <2>4, SwapSound DEF Undo
    <2>5. CASE ResumeStarted(c)
      BY <2>5, SwapSound DEF ResumeStarted
    <2>6. CASE Answer(c)
      BY <2>6, SwapSound DEF Answer, Sound
    <2>7. CASE ~(Transition(c) \/ Rewrite(c) \/ BulkWrite(c) \/ ApproveSetup(c) \/ Undo(c)
                 \/ ResumeStarted(c) \/ Answer(c))
      BY <2>7 DEF HandlerStep, Enqueue, ResumeSend, CancelSchedule, Upsert, ScheduleTrigger,
                  Persist, DeleteTrigger, ReleaseGate, row, Sound
    <2> QED
      BY <2>1, <2>2, <2>3, <2>4, <2>5, <2>6, <2>7
  <1> QED
    BY <1>1, <1>2, <1>3 DEF Sound

LEMMA WorkerSound == ASSUME Sound, NEW id \in JobIds,
                            ExecutionStep(id) \/ ReleaseStep(id) \/ Evict(id)
                     PROVE Sound'
  <1>1. TypeOK'
    BY WorkerTyped DEF Sound
  <1>2. RewritesTerminal'
    <2>1. at' = at /\ seen' = seen
      BY DEF ExecutionStep, ReleaseStep, Evict, TakeExecution, FailEarly, AskForField, CheckGate,
             Dispatch, Answered, WorkerRewrite, TakeRelease, markTriggerReleased, ReleaseRun,
             EnqueueRun, clients
    <2>2. \A j \in JobIds \ {id} : wat'[j] = wat[j] /\ wseen'[j] = wseen[j]
      BY DEF ExecutionStep, ReleaseStep, Evict, TakeExecution, FailEarly, AskForField, CheckGate,
             Dispatch, Answered, Settles, WorkerRewrite, TakeRelease, markTriggerReleased,
             ReleaseRun, EnqueueRun, Moves, Ends, Returns, Throws, workers, Sound, TypeOK
    <2>3. wat'[id] = "rewrite" => wseen'[id] \in TERMINAL_RUN_STATUSES
      <3>1. CASE FailEarly(id)
        BY <3>1 DEF FailEarly, Moves, Ends, Returns, Throws, Sound, TypeOK, TERMINAL_RUN_STATUSES
      <3>2. CASE Answered(id)
        BY <3>2 DEF Answered, Settles, Moves, Ends, Returns, Throws, Sound, TypeOK, TERMINAL_RUN_STATUSES
      <3>3. CASE Evict(id)
        BY <3>3 DEF Evict, workers, Sound, RewritesTerminal
      <3>4. CASE ~(FailEarly(id) \/ Answered(id) \/ Evict(id))
        BY <3>4 DEF ExecutionStep, ReleaseStep, TakeExecution, AskForField, CheckGate, Dispatch,
                    WorkerRewrite, TakeRelease, markTriggerReleased, ReleaseRun, EnqueueRun,
                    Moves, Ends, Returns, Throws, Sound, TypeOK
      <3> QED
        BY <3>1, <3>2, <3>3, <3>4
    <2> QED
      BY <2>1, <2>2, <2>3 DEF Sound, RewritesTerminal
  <1>3. (status' = "queued" => spent' = 0) /\ spent' <= 1
    <2>1. CASE FailEarly(id)
      BY <2>1, SwapSound DEF FailEarly
    <2>2. CASE AskForField(id)
      BY <2>2, SwapSound DEF AskForField
    <2>3. CASE Dispatch(id)
      BY <2>3 DEF Dispatch, DispatchWins, Sound
    <2>4. CASE Answered(id)
      BY <2>4, SwapSound DEF Answered, Settles
    <2>5. CASE WorkerRewrite(id)
      BY <2>5 DEF WorkerRewrite, updateAgentRunStatus, Sound, RewritesTerminal,
                  TERMINAL_RUN_STATUSES
    <2>6. CASE ReleaseRun(id)
      BY <2>6, SwapSound DEF ReleaseRun
    <2>7. CASE ~(FailEarly(id) \/ AskForField(id) \/ Dispatch(id) \/ Answered(id)
                 \/ WorkerRewrite(id) \/ ReleaseRun(id))
      BY <2>7 DEF ExecutionStep, ReleaseStep, TakeExecution, CheckGate, TakeRelease,
                  markTriggerReleased, EnqueueRun, Evict, row, Sound
    <2> QED
      BY <2>1, <2>2, <2>3, <2>4, <2>5, <2>6, <2>7
  <1> QED
    BY <1>1, <1>2, <1>3 DEF Sound

LEMMA StepSound == Sound /\ [Next]_vars => Sound'
  <1> SUFFICES ASSUME Sound, [Next]_vars PROVE Sound'
    OBVIOUS
  <1>1. ASSUME NEW c \in Clients, NEW o \in Ops, Begin(c, o) PROVE Sound'
    <2>1. TypeOK'
      BY <1>1, BeginTyped DEF Sound
    <2>2. RewritesTerminal'
      BY <1>1 DEF Begin, FirstStep, Carries, workers, Sound, TypeOK, RewritesTerminal
    <2> QED
      BY <1>1, <2>1, <2>2 DEF Begin, row, Sound
  <1>2. ASSUME NEW c \in Clients, HandlerStep(c) PROVE Sound'
    BY <1>2, HandlerSound
  <1>3. ASSUME NEW id \in JobIds, ExecutionStep(id) \/ ReleaseStep(id) \/ Evict(id)
        PROVE Sound'
    BY <1>3, WorkerSound
  <1>4. CASE Crash
    <2>1. TypeOK'
      BY <1>4, CrashTyped DEF Sound
    <2>2. RewritesTerminal'
      BY <1>4 DEF Crash, RewritesTerminal
    <2> QED
      BY <1>4, <2>1, <2>2 DEF Crash, row, Sound
  <1>5. CASE UNCHANGED vars
    BY <1>5 DEF vars, row, triggers, clients, workers, Sound, TypeOK, RewritesTerminal
  <1> QED
    BY <1>1, <1>2, <1>3, <1>4, <1>5 DEF Next

\* At most one worker sends a run's task to WayFlow for each time the run became
\* queued (Dispatch against the swap of transitionRunStatus), whatever handlers,
\* duplicate jobs, late second UPDATEs and crashes come in between.
THEOREM QueueingDispatchedOnce == Spec => []OneDispatchPerQueueing
  <1>1. Sound => OneDispatchPerQueueing
    BY DEF Sound, OneDispatchPerQueueing
  <1> QED
    BY InitSound, StepSound, <1>1, PTL DEF Spec

-----------------------------------------------------------------------------
\* A swap out of an ended status is one of the two edges users own.
LEMMA SwapRevives == ASSUME NEW from, NEW to, Won(from, to), status \in TERMINAL_RUN_STATUSES
                     PROVE <<from, to>> \in {<<"failed", "pending_input">>, <<"stopped", "queued">>}
  BY DEF Won, LEGAL_TRANSITIONS, TERMINAL_RUN_STATUSES

Revived == status \in TERMINAL_RUN_STATUSES /\ status' \notin TERMINAL_RUN_STATUSES

LEMMA HandlerRevives ==
    ASSUME Sound, NEW c \in Clients, HandlerStep(c), Revived
    PROVE  op[c] \in {"reset", "resume"} /\ at[c] = "cas"
  <1> USE DEF Revived
  <1>1. CASE Transition(c)
    <2>1. Won(From(c), To(c)) /\ at[c] = "cas"
      BY <1>1 DEF Transition, Stale
    <2>2. <<From(c), To(c)>> \in {<<"failed", "pending_input">>, <<"stopped", "queued">>}
      BY <2>1, SwapRevives
    <2> QED
      BY <2>1, <2>2 DEF From, To
  <1>2. CASE Rewrite(c) \/ BulkWrite(c)
    BY <1>2 DEF Rewrite, BulkWrite, updateAgentRunStatus, Sound, RewritesTerminal,
                TERMINAL_RUN_STATUSES
  <1>3. CASE ApproveSetup(c)
    BY <1>3 DEF ApproveSetup, ApprovalWins, TERMINAL_RUN_STATUSES
  <1>4. CASE Undo(c) \/ ResumeStarted(c) \/ Answer(c)
    BY <1>4 DEF Undo, ResumeStarted, Answer, Won, Stale, TERMINAL_RUN_STATUSES
  <1>5. CASE ~(Transition(c) \/ Rewrite(c) \/ BulkWrite(c) \/ ApproveSetup(c) \/ Undo(c)
               \/ ResumeStarted(c) \/ Answer(c))
    BY <1>5 DEF HandlerStep, Enqueue, ResumeSend, CancelSchedule, Upsert, ScheduleTrigger,
                Persist, DeleteTrigger, ReleaseGate, row
  <1> QED
    BY <1>1, <1>2, <1>3, <1>4, <1>5

LEMMA WorkerNeverRevives ==
    ASSUME Sound, NEW id \in JobIds, ExecutionStep(id) \/ ReleaseStep(id) \/ Evict(id)
    PROVE  ~Revived
  <1> USE DEF Revived, TERMINAL_RUN_STATUSES
  <1>1. CASE FailEarly(id) \/ AskForField(id) \/ Dispatch(id) \/ ReleaseRun(id)
    BY <1>1 DEF FailEarly, AskForField, Dispatch, DispatchWins, ReleaseRun, Won, Stale
  <1>2. CASE Answered(id)
    BY <1>2 DEF Answered, Settles, Won, Stale
  <1>3. CASE WorkerRewrite(id)
    BY <1>3 DEF WorkerRewrite, updateAgentRunStatus, Sound, RewritesTerminal
  <1>4. CASE ~(FailEarly(id) \/ AskForField(id) \/ Dispatch(id) \/ ReleaseRun(id)
               \/ Answered(id) \/ WorkerRewrite(id))
    BY <1>4 DEF ExecutionStep, ReleaseStep, TakeExecution, CheckGate, TakeRelease,
                markTriggerReleased, EnqueueRun, Evict, row
  <1> QED
    BY <1>1, <1>2, <1>3, <1>4

\* A run that has ended lives again only when resetAgentRun or
\* resumeStoppedOrchestratorAction wins its swap: no approval, release,
\* compensation, late job or second UPDATE brings it back.
THEOREM EndedRunsStayEnded == Spec => RevivedByUserOnly
  <1> DEFINE Step == Revived => (\E c \in Clients : op[c] \in {"reset", "resume"} /\ at[c] = "cas")
  <1>1. Sound /\ [Next]_vars => [Step]_vars
    <2> SUFFICES ASSUME Sound, Next, Revived
                 PROVE \E c \in Clients : op[c] \in {"reset", "resume"} /\ at[c] = "cas"
      OBVIOUS
    <2>1. ASSUME NEW c \in Clients, NEW o \in Ops, Begin(c, o) PROVE FALSE
      BY <2>1 DEF Begin, row, Revived
    <2>2. ASSUME NEW c \in Clients, HandlerStep(c)
          PROVE \E d \in Clients : op[d] \in {"reset", "resume"} /\ at[d] = "cas"
      BY <2>2, HandlerRevives
    <2>3. ASSUME NEW id \in JobIds, ExecutionStep(id) \/ ReleaseStep(id) \/ Evict(id) PROVE FALSE
      BY <2>3, WorkerNeverRevives
    <2>4. CASE Crash
      BY <2>4 DEF Crash, row, Revived
    <2> QED
      BY <2>1, <2>2, <2>3, <2>4 DEF Next
  <1>2. [Step]_vars => [(status \in TERMINAL_RUN_STATUSES) /\ (status' \notin TERMINAL_RUN_STATUSES)
                        => (\E c \in Clients : op[c] \in {"reset", "resume"} /\ at[c] = "cas")]_vars
    BY DEF Revived
  <1> QED
    BY InitSound, StepSound, <1>1, <1>2, PTL DEF Spec, RevivedByUserOnly
=============================================================================
