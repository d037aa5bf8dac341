--------------------------- MODULE AgentRunWorker ---------------------------
(***************************************************************************)
(* The BullMQ workers: runAgentBuilderExecutionJob for the three ids an    *)
(* execution job can have, and runAgentRunTriggerReleaseJob.  WayFlow      *)
(* answers sendTask with a pause, a failure or a result, in its own time.  *)
(***************************************************************************)
EXTENDS AgentRunTable

Moves(id, place) == wat' = [wat EXCEPT ![id] = place]

\* The handler returns or throws; with attempts: 1 a job that throws is over.
Ends(id, how) == Moves(id, "idle") /\ jobs' = [jobs EXCEPT ![id] = how]
Returns(id) == Ends(id, "completed")
Throws(id)  == Ends(id, "failed")

\* Take a job and read the row: skip unless queued; then the checks that fail
\* a run early, the setup loop while a required field is missing, or dispatch.
\* A read that throws on the way there leaves the row as it is.
TakeExecution(id) ==
    /\ id \in ExecutionIds
    /\ jobs[id] \in {"waiting", "delayed"}
    /\ \/ /\ status # "queued"
          /\ Returns(id)
       \/ Throws(id)
       \/ /\ status = "queued"
          /\ \E next \in {"fail", IF fields > 0 THEN "ask" ELSE "gate"} : Moves(id, next)
          /\ jobs' = [jobs EXCEPT ![id] = "active"]
    /\ UNCHANGED <<row, triggers, clients, wseen, crashes, spent>>

FailEarly(id) ==
    /\ wat[id] = "fail"
    /\ \/ /\ Won("queued", "failed")
          /\ Moves(id, "rewrite") /\ wseen' = [wseen EXCEPT ![id] = "failed"]
          /\ UNCHANGED jobs
       \/ Stale("queued") /\ Throws(id) /\ UNCHANGED wseen
    /\ UNCHANGED <<fields, asked, sent, triggers, clients, crashes>>

\* The setup interrupt: pause the run, then emit the INTERRUPT for the field.
AskForField(id) ==
    /\ wat[id] = "ask"
    /\ \/ Won("queued", "pending_approval") /\ asked' = TRUE /\ Returns(id)
       \/ Stale("queued") /\ UNCHANGED asked /\ Throws(id)
    /\ UNCHANGED <<fields, sent, triggers, clients, wseen, crashes>>

\* The trigger gate; when closed the job is moved to delayed and tried later.
GateOpen == Gated => released

\* Between the setup loop and the swap the handler throws when the template has
\* no package name, when the name has no WayFlow address, and when the gate
\* cannot be read: the job is over and the run is still queued.
CheckGate(id) ==
    /\ wat[id] = "gate"
    /\ \/ GateOpen /\ Moves(id, "dispatch") /\ UNCHANGED jobs
       \/ /\ ~GateOpen
          /\ Moves(id, "idle") /\ jobs' = [jobs EXCEPT ![id] = "delayed"]
       \/ Throws(id)
    /\ UNCHANGED <<row, triggers, clients, wseen, crashes, spent>>

\* A plausible bug: a worker that only makes sure the run has not ended.
DispatchUnlessEnded == status \notin TERMINAL_RUN_STATUSES

\* The swap that decides which worker sends the task.
DispatchWins == status = "queued"

Dispatch(id) ==
    /\ wat[id] = "dispatch"
    /\ \/ /\ DispatchWins
          /\ status' = "running" /\ spent' = spent + 1
          /\ Moves(id, "sent") /\ UNCHANGED jobs
       \/ /\ ~DispatchWins
          /\ Returns(id) /\ UNCHANGED <<status, spent>>
    /\ UNCHANGED <<fields, asked, sent, triggers, clients, wseen, crashes>>

\* The worker asks for running -> end and swallows a stale swap.
Settles(id, end) ==
    \/ /\ Won("running", end)
       /\ Moves(id, "rewrite") /\ wseen' = [wseen EXCEPT ![id] = end]
       /\ UNCHANGED jobs
    \/ Stale("running") /\ Returns(id) /\ UNCHANGED wseen

\* handleWayflowTaskState with fromStatus running saves the context id, then
\* settles or pauses the run; the catch around it fails the run.
Answered(id) ==
    /\ wat[id] = "sent"
    /\ \/ sent' = TRUE /\ \E end \in {"completed", "failed"} : Settles(id, end)
       \/ sent' = TRUE /\ (Won("running", "pending_approval") \/ Stale("running"))
                        /\ Returns(id) /\ UNCHANGED wseen
       \/ UNCHANGED sent /\ Settles(id, "failed")
    /\ UNCHANGED <<fields, asked, triggers, clients, crashes>>

\* transitionRunStatus: the second statement.
WorkerRewrite(id) ==
    /\ wat[id] = "rewrite"
    /\ updateAgentRunStatus(wseen[id])
    /\ Returns(id)
    /\ UNCHANGED <<fields, asked, sent, wseen, triggers, clients, crashes>>

ExecutionStep(id) ==
    \/ TakeExecution(id) \/ FailEarly(id) \/ AskForField(id) \/ CheckGate(id)
    \/ Dispatch(id) \/ Answered(id) \/ WorkerRewrite(id)

-----------------------------------------------------------------------------
(* runAgentRunTriggerReleaseJob, scheduled branch                            *)

TakeRelease(id) ==
    /\ id = "trigger-release"
    /\ jobs[id] \in {"waiting", "delayed"}
    /\ \/ trigger = "none" /\ Returns(id)
       \/ /\ trigger # "none"
          /\ Moves(id, "release") /\ jobs' = [jobs EXCEPT ![id] = "active"]
    /\ UNCHANGED <<row, triggers, clients, wseen, crashes, spent>>

\* The flag, then released_at; either write may throw.
markTriggerReleased(id) ==
    /\ wat[id] = "release"
    /\ \/ released' = TRUE /\ Moves(id, "swap") /\ UNCHANGED jobs
       \/ released' \in {released, TRUE} /\ Throws(id)
    /\ UNCHANGED <<row, trigger, scheduled, clients, wseen, crashes, spent>>

\* armed to queued; a stale swap skips the enqueue.
ReleaseRun(id) ==
    /\ wat[id] = "swap"
    /\ \/ Won("armed", "queued") /\ Moves(id, "enqueue") /\ UNCHANGED jobs
       \/ Stale("armed") /\ Returns(id)
    /\ UNCHANGED <<fields, asked, sent, triggers, clients, wseen, crashes>>

\* An enqueue that throws ends the release with the run queued and no job for it.
EnqueueRun(id) ==
    /\ wat[id] = "enqueue"
    /\ \/ jobs' = [Added("agent-builder") EXCEPT ![id] = "completed"] /\ Moves(id, "idle")
       \/ Throws(id)
    /\ UNCHANGED <<row, triggers, clients, wseen, crashes, spent>>

ReleaseStep(id) ==
    TakeRelease(id) \/ markTriggerReleased(id) \/ ReleaseRun(id) \/ EnqueueRun(id)

-----------------------------------------------------------------------------
\* BullMQ forgets a finished job once enough others have finished after it.
Evict(id) ==
    /\ jobs[id] \in Finished
    /\ jobs' = [jobs EXCEPT ![id] = "none"]
    /\ UNCHANGED <<row, triggers, clients, workers, crashes, spent>>

\* The process dies: handlers stop where they are, and BullMQ hands the jobs
\* its workers held to a worker again once their locks lapse.
Crash ==
    /\ crashes < MaxCrashes /\ crashes' = crashes + 1
    /\ at' = [c \in Clients |-> "idle"]
    /\ wat' = [id \in JobIds |-> "idle"]
    /\ jobs' = [id \in JobIds |-> IF jobs[id] = "active" THEN "waiting" ELSE jobs[id]]
    /\ UNCHANGED <<row, triggers, op, seen, ops, wseen, spent>>
=============================================================================
