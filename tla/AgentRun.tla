------------------------------ MODULE AgentRun ------------------------------
(***************************************************************************)
(* A run under everything that acts on it at once: the handlers of         *)
(* AgentRunActions and the workers of AgentRunWorker.                      *)
(***************************************************************************)
EXTENDS AgentRunActions, AgentRunWorker

Next ==
    \/ \E c \in Clients : (\E o \in Ops : Begin(c, o)) \/ HandlerStep(c)
    \/ \E id \in JobIds : ExecutionStep(id) \/ ReleaseStep(id) \/ Evict(id)
    \/ Crash

Spec == Init /\ [][Next]_vars

\* A handler in flight runs on, BullMQ hands out waiting jobs, and WayFlow's
\* client gives up after its timeout; users and crashes owe nothing.
Fairness ==
    /\ \A c \in Clients : WF_vars(HandlerStep(c))
    /\ \A id \in JobIds : WF_vars(ExecutionStep(id)) /\ WF_vars(ReleaseStep(id))

FairSpec == Spec /\ Fairness

-----------------------------------------------------------------------------
ClientPlaces == {"idle", "cas", "rewrite", "write", "approve", "enqueue", "undo", "send",
                 "started", "cancel", "upsert", "scheduleTrigger", "persist", "delete",
                 "release"}
WorkerPlaces == {"idle", "fail", "ask", "gate", "dispatch", "sent", "rewrite", "release",
                 "swap", "enqueue"}

\* What a handler or a worker is about to write a second time is terminal.
RewritesTerminal ==
    /\ \A c \in Clients : at[c] = "rewrite" => seen[c] \in TERMINAL_RUN_STATUSES
    /\ \A id \in JobIds : wat[id] = "rewrite" => wseen[id] \in TERMINAL_RUN_STATUSES

TypeOK ==
    /\ status \in AgentRunStatus
    /\ fields \in Nat /\ asked \in BOOLEAN /\ sent \in BOOLEAN
    /\ trigger \in {"none", "scheduled", "immediate"}
    /\ scheduled \in BOOLEAN /\ released \in BOOLEAN
    /\ jobs \in [JobIds -> JobStates]
    /\ op \in [Clients -> Ops \cup {"none"}]
    /\ at \in [Clients -> ClientPlaces]
    /\ seen \in [Clients -> AgentRunStatus \cup {"none", "scheduled", "immediate", "unsaved"}]
    /\ wat \in [JobIds -> WorkerPlaces]
    /\ wseen \in [JobIds -> AgentRunStatus \cup {"none"}]
    /\ ops \in Nat /\ crashes \in Nat /\ spent \in Nat

\* However many jobs a run has been given, under its own id, as agent-builder-<id>
\* or as resume-setup-<id>, at most one worker sends its task to WayFlow for
\* each time the run became queued.
OneDispatchPerQueueing == spent <= 1

\* A run that is completed, failed or stopped comes back to life only because a
\* user reset or resumed it: a late approval, release, compensation or job of
\* the earlier life leaves it ended.
RevivedByUserOnly ==
    [][(status \in TERMINAL_RUN_STATUSES) /\ (status' \notin TERMINAL_RUN_STATUSES)
       => (\E c \in Clients : op[c] \in {"reset", "resume"} /\ at[c] = "cas")]_vars

\* A queued run is started, paused, failed or given back.  One that stays queued
\* for ever is one of whose jobs threw, and failed, while the run was queued: the
\* worker throws without moving the run when its template has no address, and
\* nothing retries or compensates that.  No other way leads there.
QueuedRunsStart ==
    \/ []<>(status # "queued")
    \/ <>(status = "queued" /\ \E id \in JobIds : jobs[id] = "failed")

\* An armed run is released (or stopped) in the end, unless its release job threw:
\* the release job closes the loop.
ArmedRunsFire ==
    \/ []<>(status # "armed")
    \/ <>(jobs["trigger-release"] = "failed")

\* After a won swap the second UPDATE of transitionRunStatus re-writes the
\* status the row already has.
RewriteIsNoOp ==
    [][\A c \in Clients : (at[c] = "rewrite" /\ at'[c] = "idle" /\ crashes' = crashes
                          => status = seen[c])]_vars

\* When the swap of agent_run_stop comes back stale, the run has ended by itself.
StaleStopFindsItEnded ==
    [][\A c \in Clients : (op[c] = "stop" /\ at[c] = "cas" /\ at'[c] = "idle" /\ crashes' = crashes
                          => status \in TERMINAL_RUN_STATUSES)]_vars
=============================================================================
