# Verification of the Cinatra workflow engine and agent runs

TLA+ models of the parts of Cinatra that keep state across processes, crashes and
people: the durable workflow engine, the editing of workflow plans, and the life
of an agent run. They are model-checked with TLC and proved about with TLAPS.
Paths below are relative to `src/`; `W/` stands for `packages/workflows/src/` and
`A/` for `packages/agents/src/`.

## 1. The system

Cinatra is a workspace in which people and agents work on shared, long-running
processes: a monorepo of TypeScript packages on Next.js, Postgres and BullMQ.
Most of it is user interface, protocol plumbing or calls to remote services. A
workflow is a graph of tasks (agent runs, approvals, manual work, notifications,
waits, checkpoints) that several processes drive to completion by reconciling
rows in a database; an agent run is a row that handlers, jobs and a remote
runtime move from status to status.

### 1.1 Inventory

| part | source | state | operations | hard behaviour |
|---|---|---|---|---|
| state rules | `W/state/*`, `W/engine/gate-eval.ts` | none (pure) | `resolveDependency`, `evaluateTaskGates`, `deriveEffectiveGateState`, `rollUpWorkflowStatus`, transition tables | two different definitions of "this edge can never be satisfied" |
| reconciler | `W/engine/reconciler.ts`, `executors.ts`, `ops.ts` | task, attempt, lease, approval and workflow rows; the local variables of a tick | poll, settle, reject, invalidate, claim, dispatch, record, finalize, solicit, notify | concurrent ticks, statuses read outside the lock, executors outside any transaction, crashes between any two steps, leases and heartbeats |
| lifecycle | `W/engine/lifecycle.ts` | the same rows | start, pause, resume, cancel, markManualDone, reconcileDueWorkflows | pause takes no lock and lands inside a tick; cancel races dispatches |
| scheduling of ticks | `W/engine/runtime.ts`, `lifecycle.ts` | BullMQ jobs, `updated_at` | repeatable tick, on-demand requests, batches of due workflows | dropped jobs, batches that always hold the same workflows |
| connection pool | `W/db.ts`, `reconciler.ts` | connections, advisory locks | transactions that ask for a second connection | everyone waiting on everyone |
| foreach | `W/engine/foreach*.ts` | child tasks of a parent | materialise, cancel children, roll up | children change while they are dispatched |
| plan editing | `W/store.ts`, `src/app/workflows/[workflowId]/actions.ts`, `W/mcp/handlers.ts` | workflow and task rows, lock version, what each page or chat has read | drag, pin, window, link, unlink, delete, rewrite, move the release date, preview | read-modify-write of the whole plan by several editors and beside the engine |
| schedule and validation | `W/schedule/*`, `W/spec/validate.ts` | none (pure) | `resolveSchedule`, `computeCascadeDiff`, `computeCriticalPath`, `validateTemplate` | frozen dates and what is anchored to them |
| approvals | `W/store.ts`, `W/state/review-packet.ts` | approval rows | decide, reopen | an edit between a sign-off and the work it allows |
| host wiring | `src/lib/workflow-agent-executor.ts`, `src/instrumentation.node.ts` | agent runs | create and enqueue a child run, read its status, cancel it | create and enqueue are two steps; cancel is an unconditional write |
| agent runs | `A/store.ts`, `A/run-actions.ts`, `A/review-task-actions.ts`, `A/orchestrator-actions.ts`, `A/execution.ts` | run row, BullMQ jobs | trigger, reset, stop, approve, answer, reject, resume; the execution job | several writers, job ids that repeat, redelivery after a crash |
| triggers | `A/trigger-*.ts` | trigger row, gate | schedule, unschedule, release | a release job racing the arming of the run |
| extension installation | `packages/extensions/src` | registry, files, rows | install saga with compensation | a step of several fails |
| everything else | `PROJECT.json`, `components` | | | user interface, authorisation, transport, remote services |

The interactions. A repeatable BullMQ job calls `reconcileDueWorkflows`, which
calls `reconcileWorkflow` for each active workflow it takes. The user interface
and the MCP tools call lifecycle and store operations directly and often reconcile
inline, so two or more ticks of the same workflow run at the same time although
each worker has concurrency one. A Postgres advisory lock per workflow serialises
the *transactions* of a tick, not the tick. An `agent_task` is dispatched by
creating an agent run under the key `workflow:task:attemptNo` and enqueuing it; the
engine later polls the run's status. Editors replace the rows of a draft or paused
workflow under the same advisory lock.

What makes it correct:

- each task is worked on by one attempt at a time, and the retry budget holds
  through every mixture of failures, crashes and reclaims;
- nothing runs before its upstream tasks have the outcomes its edges ask for,
  and a sign-off only lets through the content that was signed;
- terminal is final, for tasks and for workflows, whatever arrives late;
- skips and final statuses are explained by what happened;
- an active workflow ends or asks a person: no crash strands it;
- due work is reached by some tick, and transactions do not block each other for
  ever;
- a fan-out has one child per item and a verdict its children justify;
- no edit of a plan is lost, what has run or is pinned does not move, and dates
  follow their anchors;
- a run is dispatched once per queueing, starts once it is queued, and comes back
  to life only when a user says so.

The hazards behind these sentences, each at its line, are in `PROJECT.json`.

## 2. The modules

| module | models | extends |
|---|---|---|
| `WorkflowState` | the pure decision functions | |
| `WorkflowTables` | rows, agent runs, local state of processes, constants and assumptions | `WorkflowState` |
| `WorkflowReconciler` | `reconcileWorkflow`, one action per transaction or side effect | `WorkflowTables` |
| `WorkflowLifecycle` | users, agent runs and the clock | `WorkflowReconciler` |
| `WorkflowEngine` | the composition (`Init`, `Next`, `Spec`) and its safety properties | `WorkflowLifecycle` |
| `WorkflowLiveness` | fairness and liveness properties | `WorkflowEngine` |
| `WorkflowClaims` | statements of comments that the code does not keep | `WorkflowLiveness` |
| `DurableTasks` | the abstract specification: what the engine promises | |
| `WorkflowRefinement` | the refinement mapping from `WorkflowEngine` to `DurableTasks` | `WorkflowEngine` |
| `MCWorkflowEngine` | workflow graphs for TLC | `WorkflowClaims`, `WorkflowRefinement` |
| `WorkflowScheduler` | queue, worker, repeatable tick, on-demand requests, `reconcileDueWorkflows` | |
| `WorkflowPool` | the connection pool and the advisory locks | |
| `WorkflowForeach`, `MCWorkflowForeach` | a foreach task, its source and its children under several reconcilers | |
| `WorkflowSchedule` | validation, date resolution, cascade diff, critical path (functions) | |
| `WorkflowDraft`, `MCWorkflowDraft` | editors of a plan beside the engine | `WorkflowSchedule` |
| `AgentRunTable` | the run row, its trigger, its jobs; the two statements that change a status | |
| `AgentRunActions` | the request handlers, one step per await | `AgentRunTable` |
| `AgentRunWorker` | the execution and release jobs | `AgentRunTable` |
| `AgentRun`, `MCAgentRun` | their composition and its properties | `AgentRunActions`, `AgentRunWorker` |
| `WorkflowEngine_proofs`, `WorkflowRefinement_proofs`, `WorkflowSafety_proofs` | theorems about the engine, each module on the one before | |
| `WorkflowForeach_proofs`, `WorkflowPool_proofs`, `WorkflowDraft_proofs`, `AgentRun_proofs` | theorems about the other components | |

The components of the engine share one set of database tables, so they share
variables rather than being instances of separate specifications; a component is
the set of actions of its module. Operators whose comment calls them a faulty
variant, or describes the definition below them with a slip in it, are used by
nothing: substituting one for its definition must break a named property
(`PROJECT.json`, `mutants`).

### 2.1 The engine: state and actions

`wf` is the workflow row (status and `lock_version`); `task`, `title`, `due`,
`opens`, `aged` are columns of the task rows; `attempts[t]` is the sequence of
attempt rows of a task indexed by `attempt_no`, each with the status of the agent
run created under its key; `lease[t]` is the dispatch lease; `approval[t]` the
approval row. `tx` is the holder of the advisory lock with the workflow row it
read. `pc`, `polled`, `claim`, `kill` and `outbox` are the local variables of a
tick: its phase, the statuses read outside the lock, the claimed batch with the
outcomes of its executors, the child runs to cancel after commit and the
notifications to deliver. `sent` counts deliveries and `crashes` bounds faults.

| code | actions |
|---|---|
| `reconcileWorkflow` | `StartTick`, then the rows below in the order of the code |
| `pollRunningAgentTasks` | `PollRead` (no lock), `BeginTx`, `SettlePolled` or `SettleInactive` |
| `applyRejectedApprovalPolicies` and its clean-up | `BeginTx`, `ApplyRejected`, `CancelChildRuns`, `TeardownDone` |
| `invalidateStaleApprovals` | `BeginTx`, `InvalidateStale` |
| `claimReadyTasks` | `BeginTx`, `ClaimReady` (crash recovery, reclaim, claim, leases) |
| executors | `ExecuteBuiltin`; `CreateRun`, `EnqueueRun`, `DispatchFails`; `Heartbeat` |
| `recordOutcomes` | `RecordOutcomes` (does not read the workflow row) |
| `finalizeWorkflow` | `BeginTx`, `Finalize` |
| `solicitApprovals`, `emitReconcileNotifications` | `BeginTx`, `Solicit`; `Notify` |
| an inactive workflow; an error caught by a phase; any other error or the death of a process | `SkipPhase`; `PhaseFails`; `Crash` |
| `lifecycle.ts` | `startWorkflow`, `pauseWorkflow`, `resumeWorkflow`, `cancelWorkflow` with `CancelCollected` and `WebCrash`, `markManualDone` |
| `store.ts` | `Init` (create), `decideWorkflowApproval`, `updatePausedSpec`, `renameWorkflowCas` |
| agents package | `RunEnds` |
| time | `DueArrives`, `SolicitationArrives`, `RowAges`, `LeaseExpires` |

`BeginTx` is separate from the rest of a transaction because the writers that
take no lock (`pauseWorkflow`, `resumeWorkflow`, `startWorkflow`,
`renameWorkflowCas`, `markManualDone`) can act between its read of the workflow
row and its compare-and-set on `lock_version`.

Abstractions:

- *Time.* A timestamp is the answer to the one question the code asks of it (is
  it past?) and the clock actions change the answer. A tick uses the `now` it
  captured at its start; the model reads the current answer, which allows every
  behaviour of the code and a few in which a tick sees a date pass.
- *Lock versions of task rows* are left out. Every writer of a task row holds the
  advisory lock, except `markManualDone`, which is one compare-and-set.
- *Lease tokens* are the identity of the reconciler. A tick settles a claim
  before it claims again, so the identity is as fresh as the random token.
- *Agent runs* are stored with their attempt: the unique idempotency key makes
  them one-to-one. A run waiting for human input is `live`. A status read that
  fails is the same as a run that has not ended. `AgentRun` opens this box.
- *Enqueue.* An enqueue that throws added no job (`DispatchFails` after
  `CreateRun`).
- *Executors.* In the production wiring the built-in executors cannot fail;
  template resolution, connector preflight and database errors of the agent
  executor are all `DispatchFails`.
- *Review packets* are the titles they show: keys and edges do not change here.
- *Edits.* On a paused workflow an edit changes one title, re-resolves the
  schedule of the tasks that are not frozen (arbitrarily) and touches every row.
  `WorkflowDraft` has the other edits, without the reconciler's phases.
- *Skip-propagation.* The code scans rows in no specified order and stops at the
  first task blocked by a failure. `SkipSets` is the set of all results that any
  order can give.
- *Notifications.* Dead letters and the end of the workflow are counted. A
  delivery error in the code stops the remaining deliveries of that tick, so at
  most once is kept. `approval_needed` is not counted.
- *Left out:* the event log, persisted gate rows, artifacts, audit entries,
  authorisation, and the cap of 200 passes of the claim loop.

### 2.2 The abstract specification

`DurableTasks` knows a life cycle, a state per task and how often each was
started; no reconcilers, leases, transactions, polls or crashes. A task is todo,
doing or ended in one of four ways. A step may move several tasks, each only in a
permitted way: started on accepted upstream outcomes and within its ration, put
back while tries are left, skipped because an edge rules it out or a reviewer
waived it, cancelled; and the whole ends as its tasks did. `WorkflowRefinement`
maps idle, scheduled and pending approval to todo, and tries to the number of
attempt rows.

### 2.3 Ticks, connections and fan-outs

`WorkflowScheduler`: `order` is the order of `updated_at`; `waiting`, `completed`
and `failed` are the BullMQ job ids that are taken; `worker` is the job under way
with the workflows left in its batch. `enqueueWorkflowReconcile` does nothing when
the id is known, kept jobs included; `DueBatch` takes the first `BatchCap` active
workflows; `Reconciled` and `ReconcileThrows` are one workflow of the loop (an
exception ends the pass); `ensureWorkflowEngine` and `Crash` are the process. What
a reconcile does is reduced to whether the work that is due is done.

`WorkflowPool`: a caller is out, waits for a connection, for the advisory lock, for
the second connection of `loadGraph`, reads, or works. Neither wait has a timeout,
and nothing bounds the number of callers, so the pool can lock up; the properties
are about what that takes and about what happens otherwise. That the advisory lock
excludes is Postgres's own guarantee and is taken as such.

`WorkflowForeach`: a workflow of a source, a foreach parent and its children, with
every roll-up policy, failure policy and kind of source output (malformed, empty,
too many, keys that collide). `handleIdleParent` materialises the
children, `handleRunningParent` latches failures and successes, cancels by policy
and rolls up, inside `reconcileForeachParents`; the dispatch of a child is the
reconciler's, reduced to claim, run and outcome. For children with the default
failure policy, `block`, the `best_effort` roll-up makes no difference: a failed child fails the workflow whatever the parent says.

### 2.4 Plans and their editors

`WorkflowSchedule` has the pure functions. A specification is a target date and a
function from keys to schedule, pin, parent and dependencies. Instants are whole
minutes in UTC, so an offset is an addition. `resolveSchedule` first resolves
every task (a frozen one keeps its bar, and what is anchored to it follows that),
then lets summary tasks span their children. `validateTemplate`, the check of every
write, lets a task be anchored to a summary task that is not above it
(`validateDraft` and `validateStart` refuse that): it is resolved in the first pass,
against the placeholder of the summary at the target date. `computeCascadeDiff` is the preview
of a release move; `computeCriticalPath` the forward and backward pass over the
leaves.

`WorkflowDraft` has the workflow row, the task rows (specification fields,
resolved bar, one flag `ran` for everything that freezes a task's execution), the
lock version each editor's page was rendered with, and each editor's request.
`RequestEdit`, `SavePreviewed` and `ReadAndWrite` read and patch the
specification; `Commit` is the transaction of `updateWorkflowDraftSpec` with its
compare-and-swap, the freeze of pins and of tasks that have run, and the rebuild;
`Refuse` is every way it changes nothing. The statements of one
`reconstructSpec` are taken as one read. `startWorkflow`, `pauseWorkflow`,
`resumeWorkflow` and `Dispatch` are what the engine does meanwhile.

### 2.5 Agent runs

`AgentRunTable` has the status, the missing setup fields, whether an interrupt was
emitted and whether WayFlow knows the run, the trigger row, the gate, and BullMQ's
record of each job id a run can have (absent, waiting, delayed, active, or kept as
completed or failed).
`Won` and `Stale` are the two results of `updateAgentRunStatusConditional`;
`rewrite` is the second, unconditional UPDATE that `transitionRunStatus` issues
for terminal statuses. A handler is a place in its operation and what it carries
from one await to the next (`AgentRunActions`); a worker belongs to a job id
(`AgentRunWorker`). A job that throws is over, since it has one attempt: the
execution job does so while the run is still queued when a read fails, when the
template has no package name or no WayFlow address, and when the gate cannot be
read; a release job when a write or its enqueue fails. `Evict` is the queue forgetting a finished job, `Crash` the
redelivery of active ones. WayFlow answers with a pause, a result or a failure in
its own time. The children of an orchestrator, dispatch to external agents and
the contents of setup fields are left out.

## 3. Runs

| run | instance | properties | what it shows |
|---|---|---|---|
| `dispatch` | agent task with two attempts and its dependent, two reconcilers, a crash | `AttemptDiscipline`, `LeaseGuardsDispatch`, `RetryBudget`, `NotifiedAtMostOnce`, `LegalMoves`, `LiveDispatchProtected` | two ticks racing on a dispatch, its retry and its reclaim keep attempts, leases and budget consistent; a pause inside a transaction is never overwritten; nothing is announced twice |
| `approvals` | manual task and its sign-off, two titles, two reconcilers, a crash | `TypeOK`, `OpenApprovalsFresh`, `NoStaleSignOff` | no interleaving of decision, pause, edit, resume and claim lets a gated task start on content nobody signed |
| `rejection` | an approval that skips its branch, one that cancels the workflow, a run behind the first and one that replaces it when it is skipped | `DispatchedAfterUpstream`, `FinishedMeansFinished`, `SkippedForCause`, `OutcomeIsEarned`, `TerminalIsFinal` | rejections, cancels and late outcomes never revive what ended, nothing starts before its upstream, every skip and final status is justified |
| `progress` | sign-off that can skip, agent run, sign-off that can cancel; fairness; a crash anywhere | `ImplementsDurableTasks`, `Progress`, `DispatchSettles`, `RejectionTakesEffect` | no crash, failure or lost lease strands an active workflow, and every step is one the abstract specification allows |
| `scheduler` | two workflows, a batch of two | `TickCatchesUp` | due work is done although requests are dropped, reconciles throw and the process dies |
| `pool` | three callers, two workflows, two connections | `LockUpIsLoadGraph`, `TurnsUnlessLockedUp` | the pool locks up only when it is used up by transactions that all wait in or behind `loadGraph`; short of that no transaction waits for ever |
| `foreach` | two reconcilers, fan-outs of up to two, a cancel, a crash | `OneChildPerItem`, `RollupIsFinal`, `CancelledForCause`, `FanOutSettles` | replayed materialisation, policies and racing outcomes keep the fan-out consistent, and it settles |
| `agent_runs` | one gated run, two handlers in flight, all twelve operations, one setup field, a crash | `OneDispatchPerQueueing`, `RevivedByUserOnly` | one dispatch per queueing and no revival by a late handler or job |
| `agent_starts` | one run, five operations, failing enqueues, throwing jobs, fairness | `QueuedRunsStart` | a queued run is started, paused, failed or given back, unless a job of it threw while it was queued |
| `drafts` | a flat plan and one with a summary task, two editors, every kind of edit, one that anchors a task to the summary | `AnchorsHold`, `CriticalIsWhatDelays`, `EditsAreNotLost`, `FrozenTasksStay`, `PreviewIsKept` | no edit is lost, what has run or is pinned stays, dates follow their anchors, a preview is kept, the critical path is what delays the plan |
| `claim_unsatisfiable`, `claim_drag` | see section 4 | `UnsatisfiableIsSkipped`, `DragLands` | where the code departs from its comments |

Deadlock is checked in the runs of the engine and the scheduler, which never stop.
The pool may: that is the lock-up. In `foreach` the workflow may end, in `agent_runs`, `agent_starts` and
`drafts` people owe no further step.

### 3.1 Bounds

`MaxVersion` bounds `lock_version` and with it pauses, edits and renames: two
allow a start and one pause or rename at every place of a tick; three allow
start, pause, edit and resume (resuming is never bounded) around every step of a
sign-off; in `rejection`, which is about outcomes, one leaves start and cancel.
`MaxRows` bounds the attempts of instantaneous tasks, which have no budget of
their own in crash recovery: it allows at least one recovery where the run is
about recovery. `MaxCrashes` is one crash or failed phase: a crash leaves only
database rows behind, and the next tick starts from those rows whether or not
there was an earlier crash. Two attempts show first, retried and exhausted; two
reconcilers are enough for every race between a holder of a lock, lease or stale
read and somebody else. The batch caps of the passing runs are never exceeded: the
graph of `progress` is a chain, so one task at most is ready, and `scheduler` has as
many workflows as a batch takes. More workflows than a batch is `claim_catch_up`;
`progress` on a graph with two tasks ready at once has too many states.

In `pool`, three callers on two connections of two workflows lock up in every way
there is: both connections inside `loadGraph` of different workflows, or one inside
and one behind it, with the third caller waiting for a connection. `agent_starts` has
no crash: one between the swap to queued and the enqueue leaves the run queued, and
so does an approval whose enqueue fails, which the code does not compensate.

`KeepOnDemand` and `KeepTicks` are small so that finished jobs are forgotten as
well as kept. `MaxFanout` of two with outputs of up to three items has a fan-out
below, at and above the limit. `MaxOps` is four or five operations: enough for a
trigger, its failure, a reset and a second trigger, with another handler in
flight. In `drafts`, `MaxEdits` of two and `MaxLock` of three allow an edit by
each editor, or a start, a pause and an edit of what has run, in every order, with
each request under way at any time. There is one date to move the release to, so a
preview after an earlier move is covered by the theorem `PreviewsAreKept` only.
Symmetry of reconcilers, handlers or editors is used in safety runs only; `agent_runs` also has a view
(`SafetyView`) that leaves out what no later step reads: how a finished job ended and
what an idle handler or worker last carried.

### 3.2 Fairness

*Engine.* `FairSpec` assumes weak fairness of starting a tick (the repeatable
job), of the steps of a tick (awaits resolve), of dates arriving, of rows and
leases ageing once nobody attends to them, and of an enqueued run ending. A run
that waits for a person's input inside the agent is covered by the last
assumption; the engine itself can do nothing about it. Nothing is assumed of
people: reviewers may never answer, so `Progress` ends in `WaitsForPerson`.
`OnTime` adds the timing on which the constants of `ENGINE_OPS` are chosen: a
heartbeat every 30 seconds against a lease of two minutes, and instantaneous
executors against a threshold of two minutes. The code does not enforce it when a
batch mixes quick and slow executors, since heartbeats stop when an executor
returns and outcomes are recorded when all have; the safety runs do not assume it.
The graph of `progress` has no `failed` edge behind a task that can be skipped:
that case is `claim_unsatisfiable`.

*Scheduler.* The process is restarted, the repeatable job repeats, and a workflow
whose turn comes again and again is reconciled in the end (strong fairness:
exceptions and crashes are transient). *Pool.* node-postgres and Postgres serve
their queues first come first served (strong fairness of getting a connection or
the lock); statements return. *Foreach.* Ticks repeat and go on, runs end. *Agent
runs.* A handler in flight runs on, BullMQ hands out waiting jobs, WayFlow's client
gives up after its timeout; users owe nothing.

## 4. Where the code and its comments disagree

Two runs check a statement of the repository and end in a counterexample; the
quoted lines are in `PROJECT.json`, `findings`.

- `claim_unsatisfiable`: *try* fails under the skip policy, *then* is skipped,
  and *undo* waits for *then* to fail. The gate calls the edge blocked, the
  skip-propagation of `finalizeWorkflow` does not list this combination, and the
  workflow stays active for ever.
- `claim_drag`: *prep* is pinned two before the release and *ship* follows it.
  The release moves from 4 to 6; *prep* stays at 2. A drag of *ship* to 5 resolves
  the anchor without the freeze, at 4, stores the offset 1, and the rebuild puts
  *ship* at 3.

Further statements have a `.cfg` of their own, checked the same way
(`tlc -config claim_X.cfg M`, with the `MC` module of the component, or the
component's own module for the scheduler and the pool), and each ends in a
counterexample:

| cfg | statement | what happens |
|---|---|---|
| `claim_optional` | "a `skip`-policy or optional failure does not block completion" (`W/state/transitions.ts:187`) | `finalizeWorkflow` looks at the policy only, and an optional task that fails with a dependent fails the workflow |
| `claim_live_dispatch` | "a terminal workflow has no live dispatch" (`W/engine/reconciler.ts:989`) | one reconciler fails the workflow while another is dispatching a parallel task; the run it starts belongs to nobody |
| `claim_duplicate` | "never a duplicate" (`W/engine/reconciler.ts:349`) | a reclaiming dispatch fails before `createAgentRun`; the retry, under a new key, runs beside the run of the crashed dispatch |
| `claim_ended_run` | "tolerant of an already-terminal child run" (`W/engine/lifecycle.ts:228`) | a run completes between its collection under the lock and the unconditional write of `cancelChildRun` |
| `claim_consumed` | "A CONSUMED (terminal) approval task is settled history" (`W/store.ts:635`) | an edit reopens the approval of a task that is claimed but not yet terminal; it stays pending on a succeeded task |
| `claim_catch_up` | "repeatable tick will catch up" (`src/app/workflows/[workflowId]/actions.ts:165`) | with more active workflows than the batch, a tick that changes nothing leaves `updated_at` alone and takes the same ones for ever |
| `claim_right_away` | "picks up the unblocked task right away" (`src/app/workflows/[workflowId]/actions.ts:175`) | the request is dropped because the finished job of the same id is kept |
| `claim_take_turns` | "serializes concurrent workers" (`W/engine/lifecycle.ts:284`) | as many callers as connections wait in `loadGraph` for each other |
| `claim_all_or_nothing` | "cancel ALL non-terminal children including running ones" (`W/engine/foreach-reconciler.ts:70`) | a failing dispatch ends the workflow in the same tick, before the siblings are cancelled |
| `claim_preview` | a preview lists what a release move does (`computeCascadeDiff`) | in a paused workflow the preview freezes only pins and lists tasks that have run, which do not move |
| `claim_setup_loop` | "re-evaluates pending fields" (`A/review-task-actions.ts:77`) | the approval of the second field reuses the job id of the first and starts nothing |
| `claim_run_again` | "so the run does not get stuck in 'queued' forever" (`A/run-actions.ts:87`) | a reset run is triggered under the id of a finished job |
| `claim_run_now` | "so the dispatcher can pick up the run" (`A/trigger-service.ts:296`) | an immediate trigger queues the run and adds no job |
| `claim_armed` | armed and queued "close the loop" (`A/store.ts:1515`) | the release job fires before the run is armed, and nothing releases it afterwards |
| `claim_rewrite` | "re-writing it here is a no-op" (`A/store.ts:1686`) | another operation moves the run on between the two statements |
| `claim_stop` | "the run is terminal either way" (`A/mcp/handlers.ts:2176`) | a stop that loses its swap to queued-to-running stops nothing and reports success |
| `claim_summary` | "a relative anchor resolves to the anchor task's canonical `dueAtUtc`" (`W/schedule/resolver.ts:12`) | a task anchored to a summary task lands relative to the target date, the placeholder of the first pass, and not to the due the summary gets from its children |

Smaller observations. An execution job that throws before its swap (`A/execution.ts`,
1216-1223 and 1252) leaves its run queued for ever: the job has one attempt and
nobody compensates. `QueuedRunsStart` states the exception. A bulk stop writes the
rows it selected as active in an earlier statement and overwrites one that completed
in between, although `transitionRunStatus` calls itself "the single entry point for
every agent_runs.status change" (`A/store.ts:1494`). The target-date control saves with the lock version of the
page and ignores the one `previewCascadeAction` returned, so a plan edited between
the rendering of the page and the preview makes the save stale although what was
shown is current.

## 5. Proofs

Nothing is assumed about the number of tasks, reconcilers, callers, editors,
handlers or crashes. The assumptions on constants are named in the modules that
declare them and evaluated by TLC in every run: `GraphAssumption`,
`AcyclicAssumption` and `ProcessAssumption` (`WorkflowTables`: a finite acyclic
graph of typed tasks with positive budgets, which `spec/validate.ts` enforces),
`PoolAssumption`, `InstanceAssumption`, `ForeachAssumption` (outputs are
sequences of items or malformed, and every item has its stable id),
`TasksAssumption` (finitely many keys, none of them the name of the target or of
"no parent"), `InitSpecsValid` (a workflow is created from a specification that
parses and validates) and `OpsAssumption` (in `WorkflowDraft`: an edit carries an
instant, a length that is not negative and a task that parses, which the schemas
of the actions and of `spec/schema.ts` check before the store sees it; in
`AgentRun`: the operations that exist).

*Engine.*

- `TypeCorrect` : `Spec => []TypeOK`, one lemma per action.
- `AttemptsDisciplined`, `LeasesGuardDispatches`, `RetriesWithinBudget` share the
  inductive invariant `AllSound`, the conjunction of the three for each task, on
  top of `TypeOK`. None is inductive alone. A polled outcome settles the attempt
  that was read outside the lock; that this is the last attempt is
  `AttemptDiscipline`, and only then does the budget test on its number bound the
  number of attempts. Settling moves the task to `scheduled`, where no lease may
  exist; that none does is because a lease is never held on an attempt whose child
  run is recorded, which is part of `LeaseGuardsDispatch`. A reclaim reuses the
  attempt of the lease, which must be the last one.
- `EngineImplementsDurableTasks` : `Spec => D!Spec`. Besides `AllSound` it needs
  `TxSound`: while a transaction is open the workflow row is the one it read as
  long as the versions agree, and a workflow that was active is at most paused,
  because only a lock holder ends it. Every action is then a move of the tasks it
  touches (`SettleMove`, `PutBackMove`, `SkipMove`, `StartMove`, ...) or a stutter.
- `UpstreamFirst`, `FinishedIsFinished`, `OutcomesAreEarned`, `TerminalStays` follow
  from the refinement and `PromisesKept`, which is proved of `DurableTasks` alone,
  where there is nothing to interleave with.
- `ApprovalsStayFresh`, `SignOffsAreFresh`, `SkipsHaveCause`, `AnnouncedOnce`
  (`WorkflowSafety_proofs`) use `TerminalStays`: a step changes an approval row in
  one of four ways (`ApprovalStep`), only claims start a task, and a notification
  reports an end that stands.
- `MovesAreLegal`: a workflow and its attempts only move along the tables. That a
  tick cannot complete a workflow somebody paused under it is `TxSound`; that an
  attempt is settled once is because only the last attempt is ever open.
- `LiveDispatchesKept` needs `LeasedRuns`: while there is a lease its attempt is
  running, since what settles an attempt releases the lease and a poll leaves
  leased attempts alone. A step then does one of three things to a lease
  (`LeaseStep`): end it, give one to a new attempt, or leave it with its attempt, and
  with its owner unless it has expired.

*Foreach.* `FanOutIsExact`, `VerdictStands`, `CancellationsHaveCause` share
`ForeachInv`: types, `FannedOut` (children exist only after the source is over,
and are then the plans of its output, which no longer changes) and
`RollupIsFinal` itself. The verdict is computed from statuses read earlier in the
tick; it stands because it is given only when every child is terminal.

*Pool.* `LockUpNeedsLoadGraph` : `Spec => []LockUpIsLoadGraph`, for any number of
callers and connections. The invariant is that the pool never hands out more than
`PoolMax` connections (`PoolBounded`). In a lock-up nobody reads, so the connections
out are first ones; whoever waits for a lock waits for a holder, who waits in
`loadGraph`; and since some transaction waits for a connection, none is free, so
there are exactly `PoolMax` of them.

*Plans.* `NoEditIsLost` : `Spec => EditsAreNotLost`. The invariant: no version
somebody holds is ahead of the row, and while the version an edit expects is
current and the workflow is not active, the rows are the ones it was computed from
(`EditFresh`). The exception is needed: a dispatch changes a row without changing
the version, and only the version that a pause adds keeps the edit out afterwards.

`DatesFollowAnchors`, `CriticalPathIsRight` and `FrozenTasksDoNotMove` are about
what `resolveSchedule` and `computeCriticalPath` compute. In TLA+ a recursive
function is only what its equation says if the equation has a solution at all, so
that comes first: over a graph in which every set of nodes has one that leads out
of it (`Founded`), equations that each look only at the nodes theirs leads to have
a solution (`EquationsHaveSolution`: partial solutions on closed sets agree, their
union is one, and it leaves no node out). `validateTemplate` makes anchors,
parents and dependencies founded; children and successors, which run against the
arrows, are founded because the plan is finite (`FoundedBackwards`). From there:

- `FirstPass`, `SecondPass`: every task has one bar, computed from its anchor's bar
  or frozen, and a leaf keeps it in the second pass. `Placeholder`: a summary task
  has the target as its date in the first pass, which is what a task anchored to it
  gets; `AnchorsHold` says so, and makes no exception for such tasks.
- `ForwardPass`, `BackwardPass`, `SlackBounds`: no slack is negative or beyond the
  end. `LongerLeaf`: one more unit for a leaf makes it finish exactly one later and
  nothing earlier. Then `CriticalDelays`: without slack the delay is passed along a
  chain of successors to the end; with slack the latest finishes still bound every
  finish of the longer plan.
- `DatesInv` = `DraftInv` (above), `RowsOK` (the rows are a plan that parses and
  validates), `ReqsOK` (so is what an edit in flight will write, and what the chat
  writes at the current version is still a draft), `StatusOK` (nothing has run in a
  draft, and what was started has no hierarchy) and `AnchorsHold`. `StatusOK` is
  needed because no summary task may be frozen in the first pass and because the second pass overwrites the frozen bar of a summary task:
  `FrozenTasksDoNotMove` holds because `validateStart` lets no plan with a summary
  task start and no edit of a paused plan makes one.

`PreviewsAreKept` is the least obvious of them, because the preview and the save
do not compute the same thing: after an earlier move a pinned task's row differs
from where the plan, resolved afresh, would put it, and the preview freezes it at
the latter (the difference behind `claim_drag`). `MovesAlike` shows it does no
harm here: in both computations what hangs on a pin stays with it, and what hangs
on the target moves alike. Besides `DatesInv` it needs `DraftResolved`: in a draft
the leaves are the plan resolved with its pins where their rows are
(`FreezeInPlace`: to freeze tasks where they are anyway moves nothing), and
`ShownFresh`: what was shown at the current version is what the plan as it is now
gives. It is a theorem of drafts; for paused workflows `claim_preview` has the
counterexample.

*Agent runs.* `QueueingDispatchedOnce` from the invariant that a queued run has its
dispatch to spend and that the second UPDATE only writes terminal statuses;
`EndedRunsStayEnded`, an action property over every handler and worker.

Only model-checked: the liveness properties (`Progress`, `DispatchSettles`,
`RejectionTakesEffect`, `TickCatchesUp`, `TurnsUnlessLockedUp`, `FanOutSettles`,
`QueuedRunsStart`), since fairness is outside what the prover handles. Every
invariant and action property of a passing run is also a theorem.

## 6. Not modelled, and what is left

- *Extension installation*: a saga over registry, files and rows; the next
  component worth a module.
- *Recurring triggers*, orchestrator children and external agents around
  `AgentRun`; the composition of `AgentRun` with the engine's `RunEnds`.
- *Workflow deletion*, templates, artifacts, and foreach rules of
  validation around `WorkflowDraft`; calendar months, local times and daylight
  saving in `WorkflowSchedule`.
- *Skill leases* of the LLM package and the marketplace workers.
- Theorems: what is left is liveness, which stays with TLC, and properties of the
  parts above once they have a module.

Out of reach or out of scope: the WayFlow runtime and remote models (a run ends
one way or the other), BullMQ's and Postgres's own guarantees, user interface,
authorisation, BPMN and other text processing, the command line and the MCP
transport. They are by far the larger part of the repository, so the models cover
a small share of its lines: the share in which several actors write the same state.
`PROJECT.json` lists every part with its reason.
