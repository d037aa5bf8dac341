---------------------------- MODULE WorkflowTables ----------------------------
(***************************************************************************)
(* The rows of one workflow that the engine keeps in Postgres              *)
(* (packages/workflows/src/schema.ts), the child agent runs the host       *)
(* creates for it, and the local state of the processes that work on it.   *)
(*                                                                         *)
(* Data abstractions.                                                      *)
(*  - A timestamp is what the code asks of it: has it passed?  Due dates,  *)
(*    solicitation instants, lease expiries and the age of a running row   *)
(*    are booleans that the clock actions of WorkflowLifecycle flip.       *)
(*  - lock_version is kept on the workflow row, whose writers do not all   *)
(*    take the advisory lock.  It is left out of the task rows: all their  *)
(*    writers hold the lock except markManualDone, which is one            *)
(*    compare-and-set.                                                     *)
(*  - An agent run is created under the key workflow:task:attemptNo, which *)
(*    a unique index makes one-to-one with attempts; its status is kept    *)
(*    next to the attempt it belongs to.                                   *)
(*  - A lease token is the identity of the reconciler that acquired it:    *)
(*    reconcileWorkflow settles a claim before it claims again, so it      *)
(*    never holds two claims of a task and the name is as fresh as the     *)
(*    random token.                                                        *)
(***************************************************************************)
EXTENDS WorkflowState, Sequences, FiniteSets

CONSTANTS
  Tasks,            \* the task rows of the workflow
  Type,             \* executor type of each task
  Deps,             \* dependency rows [task, on, outcome]
  Required,         \* task.required
  FailurePolicy,    \* task.failurePolicy
  RejectionPolicy,  \* rejection policy of the approval of a task
  MaxAttempts,      \* task.maxAttempts ?? ENGINE_OPS.defaultMaxAttempts
  Titles,           \* what an edit can write in a task title
  Reconcilers,      \* concurrent invocations of reconcileWorkflow
  Web,              \* the request handler that runs cancelWorkflow
  NoOne,            \* no lock holder, no lease
  NoHash,           \* approval.reviewPacketHash is null
  DispatchBatchCap, \* ENGINE_OPS.dispatchBatchCap
  MaxVersion,       \* bound: user operations stop at this lock_version
  MaxRows,          \* bound: rows of an instantaneous task stop ageing here
  MaxCrashes        \* bound: process crashes and failed transactions

INSTANTANEOUS_EXECUTOR_TYPES ==
  {"checkpoint", "approval", "wait", "timer", "notification"}

TaskTypes == INSTANTANEOUS_EXECUTOR_TYPES \cup {"manual", "agent_task"}

ASSUME GraphAssumption ==
  /\ IsFiniteSet(Tasks)
  /\ Type \in [Tasks -> TaskTypes]
  /\ Deps \subseteq [task : Tasks, on : Tasks, outcome : DEPENDENCY_OUTCOMES]
  /\ Required \in [Tasks -> BOOLEAN]
  /\ FailurePolicy \in [Tasks -> {"block", "skip"}]
  /\ RejectionPolicy \in [Tasks -> {"needs_revision", "skip", "cancel"}]
  /\ MaxAttempts \in [Tasks -> Nat \ {0}]

(* spec/validate.ts rejects a cyclic dependency graph.                     *)
ASSUME AcyclicAssumption ==
  \A S \in SUBSET Tasks : S # {} =>
    \E t \in S : \A e \in Deps : e.task = t => e.on \notin S

ASSUME ProcessAssumption ==
  /\ NoOne \notin Reconcilers
  /\ Web \notin Reconcilers
  /\ DispatchBatchCap \in Nat \ {0}
  /\ MaxVersion \in Nat
  /\ MaxRows \in Nat
  /\ MaxCrashes \in Nat

Actors == Reconcilers \cup {Web}

(* createWorkflowFromSpec gives an approval row to each approval task.     *)
Gated == {t \in Tasks : Type[t] = "approval"}

DepsOf(t) == {e \in Deps : e.task = t}

-----------------------------------------------------------------------------
VARIABLES
  wf,        \* workflow row: status and lock_version
  task,      \* workflow_task.status
  title,     \* workflow_task.title
  due,       \* due_at is null or has passed
  opens,     \* the solicitation instant of the approval has passed
  aged,      \* updated_at is older than ENGINE_OPS.crashRecoveryMs
  attempts,  \* workflow_task_attempt rows, indexed by attempt_no
  lease,     \* workflow_dispatch_lease row of each task
  approval,  \* workflow_approval rows
  tx,        \* holder of the advisory lock and the workflow row it read
  pc,        \* phase of the reconcile tick
  polled,    \* child-run statuses read outside the lock
  claim,     \* tasks claimed by the tick and their executor outcomes
  kill,      \* child runs collected for cancelChildRun
  outbox,    \* notifications accumulated by the tick
  sent,      \* notifications delivered so far
  crashes    \* process crashes and failed transactions so far

rows == <<wf, task, title, due, opens, aged, attempts, lease, approval>>

locals == <<tx, pc, polled, claim, kill, outbox, sent, crashes>>

vars == <<wf, task, title, due, opens, aged, attempts, lease, approval,
          tx, pc, polled, claim, kill, outbox, sent, crashes>>

-----------------------------------------------------------------------------
(* Row types.                                                              *)

(* The agent run of an attempt: no row, a queued row without a job, a row  *)
(* whose job was enqueued, and the terminal run statuses.                  *)
RunStatuses == {"none", "queued", "live", "completed", "failed", "stopped"}

Attempt == [status : ATTEMPT_STATUSES, child : BOOLEAN, run : RunStatuses]

WithStatus(a, status) == [status |-> status, child |-> a.child, run |-> a.run]

WithRun(a, run) == [status |-> a.status, child |-> a.child, run |-> run]

NewAttempt == [status |-> "running", child |-> FALSE, run |-> "none"]

Lease == [token : Reconcilers \cup {NoOne}, no : Nat, expired : BOOLEAN]

WithExpiry(l, expired) == [token |-> l.token, no |-> l.no, expired |-> expired]

NoLease == [token |-> NoOne, no |-> 0, expired |-> FALSE]

(* computeReviewPacketHash digests the title of the gated task and the     *)
(* keys, outcomes and titles of its upstream tasks; keys and edges do not  *)
(* change here, so a packet is the titles it shows.                        *)
PacketTasks(t) == {t} \cup {e.on : e \in DepsOf(t)}

Packet(t, titles) == [u \in PacketTasks(t) |-> titles[u]]

Packets == UNION {[PacketTasks(t) -> Titles] : t \in Gated}

(* A null review_packet_hash is not the hash of a packet.                  *)
ASSUME HashAssumption == NoHash \notin Packets

Approval == [status : APPROVAL_STATUSES, solicited : BOOLEAN,
             invalidated : BOOLEAN, hash : Packets \cup {NoHash}]

Outcomes == {"none", "dispatching", "created",
             "running", "succeeded", "failed"}

Claim == [no : Nat, out : Outcomes]

NoClaim == [no |-> 0, out |-> "none"]

NoClaims == [t \in Tasks |-> NoClaim]

Phases == {"off", "poll", "settle", "reject", "teardown", "stale", "claim",
           "dispatch", "finalize", "solicit", "notify"}

NoTx == [holder |-> NoOne, status |-> "draft", ver |-> 0]

RunKeys == Tasks \X Nat

Polled == [task : Tasks, no : Nat, failed : BOOLEAN]

Notes == [kind : {"task_failed"}, task : Tasks]
         \cup [kind : {"workflow_terminal"}]

-----------------------------------------------------------------------------
(* Queries on attempt rows.                                                *)

IsRunning(t, n) == n \in DOMAIN attempts[t] /\ attempts[t][n].status = "running"

(* n is the running attempt of t with the highest attempt_no (ORDER BY     *)
(* attempt_no DESC LIMIT 1).                                               *)
LatestRunning(t, n) ==
  /\ IsRunning(t, n)
  /\ \A m \in DOMAIN attempts[t] : m > n => ~IsRunning(t, m)

(* The attempt rows when the run of attempt n of t moves to a status.      *)
SetRun(t, n, run) == [attempts EXCEPT ![t][n] = WithRun(@, run)]

(* Running attempts whose child_run_id was persisted: what a teardown can  *)
(* see.                                                                    *)
PersistedChildren ==
  {k \in UNION {{t} \X DOMAIN attempts[t] : t \in Tasks} :
     IsRunning(k[1], k[2]) /\ attempts[k[1]][k[2]].child}

\* Faulty variant: a cancel leaves tasks in flight to their dispatcher.
CancellableWaiting == {"idle", "scheduled", "pending_approval"}

(* The task statuses a cancel overwrites.                                  *)
Cancellable == {"idle", "scheduled", "pending_approval", "running"}
=============================================================================
