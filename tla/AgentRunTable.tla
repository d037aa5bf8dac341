--------------------------- MODULE AgentRunTable ---------------------------
(***************************************************************************)
(* One row of agent_runs, its trigger row and the BullMQ jobs that work on *)
(* it, with the two statements every status change is made of:             *)
(* updateAgentRunStatusConditional, a compare-and-swap, and                *)
(* updateAgentRunStatus, an unconditional UPDATE that transitionRunStatus  *)
(* issues as a second statement after a won swap whenever the new status   *)
(* is terminal.  (packages/agents/src/store.ts)                            *)
(*                                                                         *)
(* A request handler is a client: a place in its operation (at), the       *)
(* operation (op) and the status it carries from one await to the next     *)
(* (seen).  A job is worked on by at most one worker, so a worker's place  *)
(* (wat) and what it carries (wseen) belong to the job's id.               *)
(***************************************************************************)
EXTENDS Naturals, FiniteSets

CONSTANTS
    Clients,        \* request handlers that can be in flight at once
    Ops,            \* the operations users call in this instance
    MayFail,        \* the operations whose call to Redis may throw
    SetupFields,    \* required input fields a new run lacks
    Gated,          \* triggerMode = "full" with a gated step
    MaxOps,         \* bound: operations begun
    MaxCrashes      \* bound: process crashes

ASSUME InstanceAssumption ==
    /\ SetupFields \in Nat /\ MaxOps \in Nat /\ MaxCrashes \in Nat
    /\ Gated \in BOOLEAN

VARIABLES
    status,         \* agent_runs.status
    fields,         \* required fields missing from agent_runs.input_params
    asked,          \* a setup interrupt has been emitted
    sent,           \* agent_runs.a2a_context_id is set: WayFlow knows the run
    trigger,        \* agent_run_triggers.trigger_type, or "none"
    scheduled,      \* agent_run_triggers.job_scheduler_id is set
    released,       \* the gate: the Redis flag and released_at
    jobs,           \* BullMQ's record of each job id
    op, at, seen,   \* request handlers
    wat, wseen,     \* workers
    ops, crashes,   \* what the bounds count
    spent           \* history: dispatches since the run last became queued

row      == <<status, fields, asked, sent>>
triggers == <<trigger, scheduled, released>>
clients  == <<op, at, seen, ops>>
workers  == <<wat, wseen>>
vars     == <<row, triggers, clients, workers, jobs, crashes, spent>>

AgentRunStatus == {"queued", "running", "completed", "failed", "pending_approval",
                   "pending_input", "stopped", "armed"}

TERMINAL_RUN_STATUSES == {"completed", "failed", "stopped"}

\* The edges between statuses some code path assigns (pending_trigger and
\* waiting_trigger are declared and never assigned).
LEGAL_TRANSITIONS == {
    <<"pending_input", "queued">>,     <<"queued", "pending_input">>,
    <<"queued", "pending_approval">>,  <<"queued", "running">>,
    <<"pending_approval", "running">>, <<"running", "pending_approval">>,
    <<"running", "completed">>,        <<"running", "failed">>,
    <<"running", "stopped">>,          <<"queued", "failed">>,
    <<"pending_approval", "completed">>, <<"pending_approval", "failed">>,
    <<"pending_input", "failed">>,     <<"failed", "pending_input">>,
    <<"stopped", "queued">>,           <<"queued", "stopped">>,
    <<"pending_approval", "stopped">>, <<"pending_input", "stopped">>,
    <<"pending_input", "armed">>,      <<"armed", "queued">>,
    <<"armed", "stopped">>,            <<"armed", "failed">>,
    <<"armed", "pending_input">>}

\* The ids enqueueing code gives the execution job of a run: the run's id,
\* agent-builder-<id> and resume-setup-<id>; and the one-shot release job.
ExecutionIds == {"run", "agent-builder", "resume-setup"}
JobIds       == ExecutionIds \cup {"trigger-release"}

\* A finished job is remembered, for a while (removeOnComplete, removeOnFail).
Finished  == {"completed", "failed"}
JobStates == {"none", "waiting", "delayed", "active"} \cup Finished

\* queue.add with a job id BullMQ already has a record of adds nothing.
Added(id) == IF jobs[id] = "none" THEN [jobs EXCEPT ![id] = "waiting"] ELSE jobs

\* updateAgentRunStatusConditional, won or lost.
Won(from, to) ==
    /\ status = from
    /\ <<from, to>> \in LEGAL_TRANSITIONS
    /\ status' = to
    /\ spent' = IF to = "queued" THEN 0 ELSE spent

Stale(from) == status # from /\ UNCHANGED <<status, spent>>

\* updateAgentRunStatus: the UPDATE names the row and not the status it expects.
updateAgentRunStatus(to) == status' = to /\ UNCHANGED spent

Init ==
    /\ status = "pending_input" /\ fields = SetupFields
    /\ asked = FALSE /\ sent = FALSE
    /\ trigger = "none" /\ scheduled = FALSE /\ released = FALSE
    /\ jobs = [id \in JobIds |-> "none"]
    /\ op = [c \in Clients |-> "none"]
    /\ at = [c \in Clients |-> "idle"]
    /\ seen = [c \in Clients |-> "none"]
    /\ wat = [id \in JobIds |-> "idle"]
    /\ wseen = [id \in JobIds |-> "none"]
    /\ ops = 0 /\ crashes = 0 /\ spent = 0
=============================================================================
