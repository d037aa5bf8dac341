--------------------------- MODULE WorkflowScheduler ---------------------------
(***************************************************************************)
(* Who gets reconciled: the BullMQ queue of engine/runtime.ts, its single  *)
(* worker, the repeatable tick whose body is reconcileDueWorkflows, and    *)
(* the on-demand requests of the workflow actions.  What a reconcile does  *)
(* to one workflow is WorkflowReconciler's subject; here it either does    *)
(* the work that is due, ends the workflow, or throws.                     *)
(***************************************************************************)
EXTENDS Naturals, FiniteSets, Sequences, SequencesExt

CONSTANTS
  Workflows,
  BatchCap,       \* ENGINE_OPS.maxConcurrentActive: workflows per tick
  KeepOnDemand,   \* removeOnComplete / removeOnFail of an on-demand job
  KeepTicks       \* removeOnComplete of a tick

ASSUME SchedulerAssumption ==
  /\ IsFiniteSet(Workflows)
  /\ BatchCap \in Nat \ {0} /\ KeepOnDemand \in Nat \ {0} /\ KeepTicks \in Nat \ {0}

VARIABLES
  order,      \* all workflows, least recently updated row first
  draft,      \* the workflows that were never started
  active,     \* the workflows whose status is active
  due,        \* the active workflows a reconcile would find work for
  booted,     \* the process holds queueRef and a worker
  waiting,    \* jobs not yet taken: a workflow for reconcile-<workflow>, or Tick
  worker,     \* the job under way and the workflows it still has to reconcile
  completed,  \* ids of the finished jobs Redis still keeps, oldest first
  failed
vars == <<order, draft, active, due, booted, waiting, worker, completed, failed>>

Tick == "tick"
NoJob == "none"
Idle == [job |-> NoJob, todo |-> <<>>]

Init ==
  /\ order \in SetToSeqs(Workflows)
  /\ draft = Workflows
  /\ active = {}
  /\ due = {}
  /\ booted = FALSE
  /\ waiting = <<>>
  /\ worker = Idle
  /\ completed = <<>>
  /\ failed = <<>>

(* Writing updated_at = now() makes a row the most recent one.             *)
Touched(w) == Append(SelectSeq(order, LAMBDA x : x # w), w)

LastN(s, n) == SubSeq(s, IF Len(s) > n THEN Len(s) - n + 1 ELSE 1, Len(s))

-----------------------------------------------------------------------------
(* The queue. BullMQ ignores an add whose job id it still knows, whatever  *)
(* the state of that job.                                                  *)
KnownIds == ToSet(waiting) \cup {worker.job} \cup ToSet(completed) \cup ToSet(failed)

enqueueWorkflowReconcile(w) ==
  waiting' = IF booted /\ w \notin KnownIds THEN Append(waiting, w) ELSE waiting

Kept(finished, job, keepTick) ==
  LastN(Append(finished, job), IF job = Tick THEN keepTick ELSE KeepOnDemand)

(* A repeated job gets an id of its own; at most one waits for the worker. *)
TickWantedFixedId == Tick \notin KnownIds
TickWanted == Tick \notin ToSet(waiting)

ensureWorkflowEngine ==
  /\ ~booted
  /\ booted' = TRUE
  /\ waiting' = IF TickWanted THEN Append(waiting, Tick) ELSE waiting
  /\ UNCHANGED <<order, draft, active, due, worker, completed, failed>>

RepeatTick ==
  /\ booted /\ TickWanted
  /\ waiting' = Append(waiting, Tick)
  /\ UNCHANGED <<order, draft, active, due, booted, worker, completed, failed>>

-----------------------------------------------------------------------------
(* The worker, concurrency 1.                                              *)

(* select id where status = 'active' order by updated_at asc limit cap     *)
DueBatch ==
  LET rows == SelectSeq(order, LAMBDA w : w \in active)
  IN  SubSeq(rows, 1, IF Len(rows) < BatchCap THEN Len(rows) ELSE BatchCap)

TakeJob ==
  /\ booted /\ worker = Idle /\ waiting # <<>>
  /\ LET job == Head(waiting)
     IN worker' = [job |-> job, todo |-> IF job = Tick THEN DueBatch ELSE <<job>>]
  /\ waiting' = Tail(waiting)
  /\ UNCHANGED <<order, draft, active, due, booted, completed, failed>>

IsNext(w) == worker.todo # <<>> /\ Head(worker.todo) = w

(* reconcileWorkflow(w) returns: the work due is done; the row of the      *)
(* workflow is written only by the transition that ends it.                *)
Reconciled(w, ends) ==
  /\ IsNext(w)
  /\ due' = due \ {w}
  /\ \/ /\ ends /\ w \in active
        /\ active' = active \ {w}
        /\ order' = Touched(w)
     \/ ~ends /\ UNCHANGED <<active, order>>
  /\ worker' = [job |-> worker.job, todo |-> Tail(worker.todo)]
  /\ UNCHANGED <<draft, booted, waiting, completed, failed>>

(* It throws (claim, record or finalize): the job fails, and with it the   *)
(* rest of the pass.                                                       *)
ReconcileThrows(w) ==
  /\ IsNext(w)
  /\ failed' = Kept(failed, worker.job, KeepOnDemand)
  /\ worker' = Idle
  /\ UNCHANGED <<order, draft, active, due, booted, waiting, completed>>

FinishJob ==
  /\ worker # Idle /\ worker.todo = <<>>
  /\ completed' = Kept(completed, worker.job, KeepTicks)
  /\ worker' = Idle
  /\ UNCHANGED <<order, draft, active, due, booted, waiting, failed>>

(* The process dies; BullMQ finds the job stalled and hands it out again.  *)
Crash ==
  /\ booted
  /\ booted' = FALSE
  /\ waiting' = IF worker = Idle THEN waiting
                ELSE <<worker.job>> \o waiting
  /\ worker' = Idle
  /\ UNCHANGED <<order, draft, active, due, completed, failed>>

-----------------------------------------------------------------------------
(* The people, and the clock.                                              *)

(* startWorkflowAction: the transition, then the on-demand request, which  *)
(* may be lost with the process or with Redis.                             *)
startWorkflowAction(w) ==
  /\ w \in draft
  /\ draft' = draft \ {w}
  /\ active' = active \cup {w}
  /\ due' = due \cup {w}
  /\ order' = Touched(w)
  /\ enqueueWorkflowReconcile(w) \/ UNCHANGED waiting
  /\ UNCHANGED <<booted, worker, completed, failed>>

(* decideApprovalAction: the decision does not write the workflow's row.   *)
decideApprovalAction(w) ==
  /\ w \in active
  /\ due' = due \cup {w}
  /\ enqueueWorkflowReconcile(w) \/ UNCHANGED waiting
  /\ UNCHANGED <<order, draft, active, booted, worker, completed, failed>>

(* A due date passes, an agent run ends or a lease expires.                *)
TimePasses(w) ==
  /\ w \in active
  /\ due' = due \cup {w}
  /\ UNCHANGED <<order, draft, active, booted, waiting, worker, completed, failed>>

renameWorkflow(w) ==
  /\ order' = Touched(w)
  /\ UNCHANGED <<draft, active, due, booted, waiting, worker, completed, failed>>

Next ==
  \/ ensureWorkflowEngine
  \/ RepeatTick
  \/ TakeJob
  \/ FinishJob
  \/ Crash
  \/ \E w \in Workflows :
       \/ \E ends \in BOOLEAN : Reconciled(w, ends)
       \/ ReconcileThrows(w)
       \/ startWorkflowAction(w)
       \/ decideApprovalAction(w)
       \/ TimePasses(w)
       \/ renameWorkflow(w)

Spec == Init /\ [][Next]_vars

(* The process is restarted, the repeatable job repeats, the worker works; *)
(* exceptions and crashes are transient: a workflow whose turn comes again *)
(* and again is reconciled in the end.                                     *)
Fairness ==
  /\ WF_vars(ensureWorkflowEngine)
  /\ WF_vars(RepeatTick)
  /\ SF_vars(TakeJob)
  /\ SF_vars(FinishJob)
  /\ \A w \in Workflows : SF_vars(\E ends \in BOOLEAN : Reconciled(w, ends))

FairSpec == Spec /\ Fairness
-----------------------------------------------------------------------------
(* "tick will catch up" (decideApprovalAction): work that is due on an     *)
(* active workflow is eventually done, although requests are dropped or    *)
(* lost, reconciles throw and the process crashes.                         *)
TickCatchesUp ==
  \A w \in Workflows : (w \in due ~> w \notin due)

(* "so the engine picks up the unblocked task right away rather than       *)
(* waiting for the next 60s tick" (decideApprovalAction): a request that   *)
(* reaches the queue leaves a job of its own for the worker.               *)
RequestLeavesAJob ==
  [][\A w \in Workflows :
       decideApprovalAction(w) /\ enqueueWorkflowReconcile(w) /\ booted
         => w \in ToSet(waiting')]_vars
=============================================================================
