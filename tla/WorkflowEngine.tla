---------------------------- MODULE WorkflowEngine ----------------------------
(***************************************************************************)
(* The workflow engine: reconcilers, users, agent runs and the clock on    *)
(* the rows of one workflow, and what must be true of them.                *)
(***************************************************************************)
EXTENDS WorkflowLifecycle

(* The task and approval rows of a new workflow: idle tasks, unopened      *)
(* approvals.  The schedule resolver may give any due date.                *)
insertSpecRows ==
  /\ task = [t \in Tasks |-> "idle"]
  /\ title \in [Tasks -> Titles]
  /\ due \in [Tasks -> BOOLEAN]
  /\ opens \in {o \in [Tasks -> BOOLEAN] : \A t \in Tasks \ Gated : o[t]}
  /\ aged = [t \in Tasks |-> FALSE]
  /\ attempts = [t \in Tasks |-> << >>]
  /\ lease = [t \in Tasks |-> NoLease]
  /\ approval = [t \in Gated |-> [status |-> "pending", solicited |-> FALSE,
                                  invalidated |-> FALSE, hash |-> NoHash]]

(* createWorkflowFromSpec: a draft, and no process at work on it.          *)
Init ==
  /\ wf = [status |-> "draft", ver |-> 0]
  /\ insertSpecRows
  /\ tx = NoTx
  /\ pc = [r \in Reconcilers |-> "off"]
  /\ polled = [r \in Reconcilers |-> {}]
  /\ claim = [r \in Reconcilers |-> NoClaims]
  /\ kill = [x \in Actors |-> {}]
  /\ outbox = [r \in Reconcilers |-> {}]
  /\ sent = [n \in Notes |-> 0]
  /\ crashes = 0

Reconcile == \E r \in Reconcilers :
  \/ StartTick(r) \/ TickStep(r) \/ TickFault(r)
  \/ \E t \in Tasks : Heartbeat(r, t)

Next == Reconcile \/ Users \/ Runs \/ Clock

Spec == Init /\ [][Next]_vars

-----------------------------------------------------------------------------
(* Types.                                                                  *)

(* Every row and every local variable holds a value of its type; in        *)
(* particular the lock holder is a reconciler and attempt numbers are      *)
(* natural numbers.                                                        *)
TypeOK ==
  /\ wf \in [status : WORKFLOW_STATUSES, ver : Nat]
  /\ task \in [Tasks -> TASK_STATUSES]
  /\ title \in [Tasks -> Titles]
  /\ due \in [Tasks -> BOOLEAN]
  /\ opens \in [Tasks -> BOOLEAN]
  /\ aged \in [Tasks -> BOOLEAN]
  /\ attempts \in [Tasks -> Seq(Attempt)]
  /\ lease \in [Tasks -> Lease]
  /\ approval \in [Gated -> Approval]
  /\ tx \in [holder : Reconcilers \cup {NoOne}, status : WORKFLOW_STATUSES, ver : Nat]
  /\ pc \in [Reconcilers -> Phases]
  /\ polled \in [Reconcilers -> SUBSET Polled]
  /\ claim \in [Reconcilers -> [Tasks -> Claim]]
  /\ kill \in [Actors -> SUBSET RunKeys]
  /\ outbox \in [Reconcilers -> SUBSET Notes]
  /\ sent \in [Notes -> Nat]
  /\ crashes \in Nat

-----------------------------------------------------------------------------
(* Safety.                                                                 *)

(* At most one attempt of a task is running and it is the latest, and a    *)
(* task waiting to be claimed has none: a retry, a crash recovery or a     *)
(* reclaimed dispatch never runs beside an older attempt that could still  *)
(* be settled.                                                             *)
AttemptDiscipline ==
  \A t \in Tasks : \A n \in DOMAIN attempts[t] :
    IsRunning(t, n) => n = Len(attempts[t]) /\ task[t] \notin {"idle", "scheduled"}

(* "A task only reaches idle/scheduled after its prior dispatch settled"   *)
(* (acquireDispatchLease): while a dispatch lease exists its task is       *)
(* running, or was skipped by a rejection or completed by a person under   *)
(* the dispatch; the lease is for the latest attempt, and that attempt is  *)
(* not yet in the hands of the poll path.                                  *)
LeaseGuardsDispatch ==
  \A t \in Tasks : lease[t].token # NoOne =>
    /\ \/ task[t] \in {"running", "skipped"}
       \/ Type[t] = "manual" /\ task[t] = "succeeded"
    /\ lease[t].no = Len(attempts[t]) /\ lease[t].no # 0
    /\ ~attempts[t][lease[t].no].child

(* A task that was ever dispatched had each of its dependency edges        *)
(* satisfied, and still has: upstream outcomes are final.                  *)
EdgeHolds(e) ==
  \/ e.outcome = "success" /\ task[e.on] = "succeeded"
  \/ e.outcome = "skipped" /\ task[e.on] \in {"succeeded", "skipped"}
  \/ e.outcome = "failed"  /\ task[e.on] = "failed"

DispatchedAfterUpstream ==
  \A t \in Tasks : attempts[t] # << >> => \A e \in DepsOf(t) : EdgeHolds(e)

(* A task is skipped only for cause: a reviewer rejected its approval      *)
(* under the skip policy, or one of its dependency edges can never be      *)
(* satisfied any more.  The skip-propagation of finalizeWorkflow and the   *)
(* gates agree on what "never" means.                                      *)
SkippedForCause ==
  \A t \in Tasks : task[t] = "skipped" =>
    \/ t \in RejectedWith("skip")
    \/ \E e \in DepsOf(t) : isTerminalTaskStatus(task[e.on]) /\ ~EdgeHolds(e)

(* The final status of a workflow is earned by its tasks: it completes     *)
(* only without a required block-policy failure, and fails only because of *)
(* a block-policy failure.                                                 *)
OutcomeIsEarned ==
  /\ wf.status = "completed" =>
       ~\E t \in Tasks : /\ task[t] = "failed" /\ Required[t]
                         /\ FailurePolicy[t] = "block"
  /\ wf.status = "failed" =>
       \E t \in Tasks : task[t] = "failed" /\ FailurePolicy[t] = "block"

(* An approval that can still open its gate was opened on the content its  *)
(* task and upstream tasks have now, or was never opened.                  *)
OpenApprovalsFresh ==
  \A t \in Gated : WasOpened(t) => approval[t].hash = Packet(t, title)

(* A completed or cancelled workflow has no unfinished task: no claim,     *)
(* retry or crash recovery survives the transition or slips in after it.   *)
FinishedMeansFinished ==
  wf.status \in {"completed", "cancelled"} =>
    \A t \in Tasks : isTerminalTaskStatus(task[t])

(* The retry budget: an agent_task never has more attempts than            *)
(* maxAttempts, and has one left whenever it waits to be claimed, whatever *)
(* mixture of dispatch failures, failed child runs, crashes and reclaims   *)
(* it went through.                                                        *)
RetryBudget ==
  \A t \in Tasks : Type[t] = "agent_task" =>
    /\ Len(attempts[t]) <= MaxAttempts[t]
    /\ task[t] \in {"idle", "scheduled"} => Len(attempts[t]) < MaxAttempts[t]

(* No notification about a task or about the end of the workflow is        *)
(* delivered twice, however many reconcilers tick concurrently.            *)
NotifiedAtMostOnce == \A n \in Notes : sent[n] <= 1

-----------------------------------------------------------------------------
(* Action properties.                                                      *)

(* A terminal task and a terminal workflow never change status again.      *)
TerminalIsFinal ==
  [][/\ \A t \in Tasks : isTerminalTaskStatus(task[t]) => task'[t] = task[t]
     /\ isTerminalWorkflowStatus(wf.status) => wf'.status = wf.status]_vars

(* The workflow status and the attempt statuses only move along the tables *)
(* of state/transitions.ts: in particular a workflow that a user paused in *)
(* the middle of a tick is not completed or failed by that tick, and an    *)
(* attempt is settled once.                                                *)
LegalMoves ==
  [][/\ wf'.status # wf.status => wf'.status \in WORKFLOW_TRANSITIONS(wf.status)
     /\ \A t \in Tasks : \A n \in DOMAIN attempts[t] :
          LET now == attempts[t][n].status  after == attempts'[t][n].status
          IN  after # now => after \in ATTEMPT_TRANSITIONS(now)]_vars

(* A dispatch of an agent_task whose dispatcher keeps its lease alive is   *)
(* settled by that dispatcher: while the workflow stays active nobody else *)
(* takes the lease, and no late outcome of a dispatcher that lost it       *)
(* settles the attempt.                                                    *)
LiveDispatchProtected ==
  [][\A r \in Reconcilers, t \in Tasks :
       /\ Type[t] = "agent_task" /\ lease[t].token = r /\ ~lease[t].expired
       /\ claim[r][t].out # "none" /\ claim'[r][t].out # "none"
       /\ wf'.status = "active"
       => lease'[t].token = r /\ attempts'[t][lease[t].no].status = "running"]_vars

(* A gated task is claimed only on a grant given for the very content it   *)
(* has now: an edit between the decision and the claim voids the decision. *)
NoStaleSignOff ==
  [][\A t \in Gated : task[t] # "running" /\ task'[t] = "running" =>
       /\ approval[t].status = "granted"
       /\ approval[t].hash = Packet(t, title)]_vars
=============================================================================
