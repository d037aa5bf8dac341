-------------------------- MODULE AgentRunActions --------------------------
(***************************************************************************)
(* What users do to a run: trigger, reset, stop, bulk-stop, approve,       *)
(* answer, reject, resume, schedule, unschedule and release.  A handler    *)
(* reads the row (Begin), and each later await is a step of its own, taken *)
(* against whatever the row holds by then.                                 *)
(***************************************************************************)
EXTENDS AgentRunTable

AllOps == {"trigger", "reset", "stop", "bulkStop", "reject", "approve", "answer",
           "resume", "schedule", "immediate", "unschedule", "releaseNow"}

ASSUME OpsAssumption == Ops \subseteq AllOps /\ MayFail \subseteq Ops

\* The row's status lets the handler past its early returns.
Accepts(o) ==
    CASE o = "trigger"    -> status = "pending_input"
      [] o = "reset"      -> status = "failed"
      [] o = "stop"       -> <<status, "stopped">> \in LEGAL_TRANSITIONS
      [] o = "bulkStop"   -> status \in {"queued", "running", "pending_approval", "pending_input"}
      [] o = "reject"     -> asked /\ <<status, "failed">> \in LEGAL_TRANSITIONS
      [] o = "approve"    -> asked /\ status = "pending_approval"
      [] o = "answer"     -> sent /\ status = "pending_approval"
      [] o = "resume"     -> sent /\ status = "stopped"
      [] o \in {"unschedule", "releaseNow"} -> trigger # "none"
      [] OTHER            -> TRUE

\* The edge a handler asks transitionRunStatus for; stop and reject ask for
\* the status they read.
From(c) ==
    CASE op[c] \in {"stop", "reject"}                     -> seen[c]
      [] op[c] \in {"trigger", "schedule", "immediate"}   -> "pending_input"
      [] op[c] = "reset"                                  -> "failed"
      [] op[c] = "resume"                                 -> "stopped"
      [] OTHER                                            -> "armed"

To(c) ==
    CASE op[c] \in {"stop", "unschedule"}                            -> "stopped"
      [] op[c] = "reject"                                            -> "failed"
      [] op[c] = "reset"                                             -> "pending_input"
      [] op[c] = "schedule"                                          -> "armed"
      [] OTHER                                                       -> "queued"

FirstStep(o) ==
    CASE o = "bulkStop"                          -> "write"
      [] o = "approve"                           -> "approve"
      [] o = "answer"                            -> "send"
      [] o \in {"schedule", "immediate", "unschedule"} -> "cancel"
      [] o = "releaseNow"                        -> "release"
      [] OTHER                                   -> "cas"

\* Where a handler goes once its swap is won, or was stale.
AfterWin(o) ==
    CASE o \in {"trigger", "releaseNow"}          -> "enqueue"
      [] o \in {"stop", "reject", "unschedule"}   -> "rewrite"
      [] o = "resume"                             -> "send"
      [] OTHER                                    -> "idle"

AfterStale(o) == IF o = "releaseNow" THEN "enqueue" ELSE "idle"

JobOf(o) == CASE o = "trigger"  -> "run"
              [] o = "approve"  -> "resume-setup"
              [] OTHER          -> "agent-builder"

GoesTo(c, place) == at' = [at EXCEPT ![c] = place] /\ UNCHANGED <<op, ops>>

Carries(c, s) == seen' = [seen EXCEPT ![c] = s]

\* The trigger row as a handler reads it: "unsaved" has no job id yet.
TriggerRead == IF trigger = "scheduled" /\ ~scheduled THEN "unsaved" ELSE trigger

Begin(c, o) ==
    /\ at[c] = "idle" /\ ops < MaxOps
    /\ Accepts(o)
    /\ op' = [op EXCEPT ![c] = o]
    /\ at' = [at EXCEPT ![c] = FirstStep(o)]
    /\ Carries(c, IF FirstStep(o) = "cancel" THEN TriggerRead ELSE status)
    /\ ops' = ops + 1
    /\ UNCHANGED <<row, triggers, workers, jobs, crashes, spent>>

\* transitionRunStatus: the swap.
Transition(c) ==
    /\ at[c] = "cas"
    /\ \/ /\ Won(From(c), To(c))
          /\ GoesTo(c, AfterWin(op[c])) /\ Carries(c, To(c))
       \/ /\ Stale(From(c))
          /\ GoesTo(c, AfterStale(op[c])) /\ UNCHANGED seen
    /\ UNCHANGED <<fields, asked, sent, triggers, workers, jobs, crashes>>

\* transitionRunStatus: the second statement, after a swap to a terminal status.
Rewrite(c) ==
    /\ at[c] = "rewrite"
    /\ updateAgentRunStatus(seen[c])
    /\ GoesTo(c, "idle")
    /\ UNCHANGED <<fields, asked, sent, seen, triggers, workers, jobs, crashes>>

\* bulkStopAgentRuns: the UPDATE after the SELECT that picked the active rows.
BulkWrite(c) ==
    /\ at[c] = "write"
    /\ updateAgentRunStatus("stopped")
    /\ GoesTo(c, "idle")
    /\ UNCHANGED <<fields, asked, sent, seen, triggers, workers, jobs, crashes>>

\* A plausible bug: the approval UPDATE without its guard on the status.
ApprovalAlwaysWins == TRUE

\* The UPDATE of a setup approval: merge the field and queue the run, if it is
\* still pending_approval.
ApprovalWins == status = "pending_approval"

ApproveSetup(c) ==
    /\ at[c] = "approve"
    /\ \/ /\ ApprovalWins
          /\ status' = "queued" /\ spent' = 0
          /\ fields' = IF fields > 0 THEN fields - 1 ELSE 0
          /\ GoesTo(c, "enqueue")
       \/ /\ ~ApprovalWins
          /\ GoesTo(c, "idle")
          /\ UNCHANGED <<status, spent, fields>>
    /\ UNCHANGED <<asked, sent, seen, triggers, workers, jobs, crashes>>

\* enqueueAgentRun / enqueueBackgroundJob; only triggerAgentRun undoes its
\* swap when the enqueue throws.
Enqueue(c) ==
    /\ at[c] = "enqueue"
    /\ \/ /\ jobs' = Added(JobOf(op[c]))
          /\ GoesTo(c, "idle")
       \/ /\ op[c] \in MayFail
          /\ GoesTo(c, IF op[c] = "trigger" THEN "undo" ELSE "idle")
          /\ UNCHANGED jobs
    /\ UNCHANGED <<row, seen, triggers, workers, crashes, spent>>

\* A plausible bug: an enqueue that fails is reported and not undone.
UndoForgotten(c) ==
    /\ at[c] = "undo"
    /\ GoesTo(c, "idle")
    /\ UNCHANGED <<row, seen, triggers, workers, jobs, crashes, spent>>

\* The compensations: queued back to pending_input, or back to stopped.
Undo(c) ==
    LET back == IF op[c] = "resume" THEN "stopped" ELSE "pending_input" IN
    /\ at[c] = "undo"
    /\ \/ /\ Won("queued", back)
          /\ GoesTo(c, IF back = "stopped" THEN "rewrite" ELSE "idle")
          /\ Carries(c, back)
       \/ /\ Stale("queued")
          /\ GoesTo(c, "idle") /\ UNCHANGED seen
    /\ UNCHANGED <<fields, asked, sent, triggers, workers, jobs, crashes>>

\* sendTask of a resume: accepted, or failed and undone.
ResumeSend(c) ==
    /\ at[c] = "send" /\ op[c] = "resume"
    /\ \/ GoesTo(c, "started")
       \/ op[c] \in MayFail /\ GoesTo(c, "undo")
    /\ UNCHANGED <<row, seen, triggers, workers, jobs, crashes, spent>>

ResumeStarted(c) ==
    /\ at[c] = "started"
    /\ Won("queued", "running") \/ Stale("queued")
    /\ GoesTo(c, "idle")
    /\ UNCHANGED <<fields, asked, sent, seen, triggers, workers, jobs, crashes>>

\* sendTask of an approval at a WayFlow gate, then handleWayflowTaskState with
\* fromStatus pending_approval: another pause leaves the status alone.
Answer(c) ==
    /\ at[c] = "send" /\ op[c] = "answer"
    /\ \/ \E end \in {"completed", "failed"} :
            /\ Won("pending_approval", end)
            /\ GoesTo(c, "rewrite") /\ Carries(c, end)
       \/ /\ GoesTo(c, "idle")
          /\ UNCHANGED <<status, seen, spent>>
    /\ UNCHANGED <<fields, asked, sent, triggers, workers, jobs, crashes>>

-----------------------------------------------------------------------------
(* setRunTriggerForActor, deleteRunTriggerForActor, releaseTriggerNow        *)

\* cancelTriggerSchedule, when the row read at the start named a one-shot job.
\* Removing a job a worker holds throws; both callers log it and go on.
CancelSchedule(c) ==
    /\ at[c] = "cancel"
    /\ jobs' = IF seen[c] = "scheduled" /\ jobs["trigger-release"] # "active"
               THEN [jobs EXCEPT !["trigger-release"] = "none"] ELSE jobs
    /\ GoesTo(c, IF op[c] = "unschedule" THEN "delete" ELSE "upsert")
    /\ UNCHANGED <<row, seen, triggers, workers, crashes, spent>>

\* createOrUpdateRunTrigger before scheduling: no job id yet.
Upsert(c) ==
    /\ at[c] = "upsert"
    /\ trigger' = IF op[c] = "schedule" THEN "scheduled" ELSE "immediate"
    /\ scheduled' = FALSE
    /\ GoesTo(c, "scheduleTrigger")
    /\ UNCHANGED <<row, seen, released, workers, jobs, crashes, spent>>

\* scheduleTrigger: a delayed job, or for an immediate trigger an open gate
\* and no job; if it throws, the row is deleted and the handler returns.
ScheduleTrigger(c) ==
    /\ at[c] = "scheduleTrigger"
    /\ \/ /\ op[c] = "schedule"
          /\ jobs' = Added("trigger-release")
          /\ GoesTo(c, "persist") /\ UNCHANGED triggers
       \/ /\ op[c] = "immediate"
          /\ released' = TRUE
          /\ GoesTo(c, "persist") /\ UNCHANGED <<trigger, scheduled, jobs>>
       \/ /\ op[c] \in MayFail
          /\ trigger' = "none" /\ scheduled' = FALSE
          /\ GoesTo(c, "idle") /\ UNCHANGED <<released, jobs>>
    /\ UNCHANGED <<row, seen, workers, crashes, spent>>

\* createOrUpdateRunTrigger with the job id, then the status change.
Persist(c) ==
    /\ at[c] = "persist"
    /\ trigger' = IF op[c] = "schedule" THEN "scheduled" ELSE "immediate"
    /\ scheduled' = (op[c] = "schedule")
    /\ GoesTo(c, "cas")
    /\ UNCHANGED <<row, seen, released, workers, jobs, crashes, spent>>

DeleteTrigger(c) ==
    /\ at[c] = "delete"
    /\ trigger' = "none" /\ scheduled' = FALSE
    /\ GoesTo(c, IF seen[c] \in {"scheduled", "unsaved"} THEN "cas" ELSE "idle")
    /\ UNCHANGED <<row, seen, released, workers, jobs, crashes, spent>>

ReleaseGate(c) ==
    /\ at[c] = "release"
    /\ released' = TRUE
    /\ GoesTo(c, "cas")
    /\ UNCHANGED <<row, seen, trigger, scheduled, workers, jobs, crashes, spent>>

HandlerStep(c) ==
    \/ Transition(c) \/ Rewrite(c) \/ BulkWrite(c) \/ ApproveSetup(c)
    \/ Enqueue(c) \/ Undo(c) \/ ResumeSend(c) \/ ResumeStarted(c) \/ Answer(c)
    \/ CancelSchedule(c) \/ Upsert(c) \/ ScheduleTrigger(c)
    \/ Persist(c) \/ DeleteTrigger(c) \/ ReleaseGate(c)
=============================================================================
