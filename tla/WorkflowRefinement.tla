-------------------------- MODULE WorkflowRefinement --------------------------
(***************************************************************************)
(* The workflow engine implements DurableTasks.  A task that is idle,      *)
(* scheduled or waiting for a sign-off has yet to be done; its tries are   *)
(* its attempt rows.  Leases, transactions, polls, retries with backoff,   *)
(* heartbeats and crashes are all below the abstraction: a step that only  *)
(* touches them is a stutter of the abstract specification.                *)
(***************************************************************************)
EXTENDS WorkflowEngine

Abstract(status) ==
  CASE status \in {"idle", "scheduled", "pending_approval"} -> "todo"
    [] status = "running" -> "doing"
    [] OTHER -> status

abstractState == [t \in Tasks |-> Abstract(task[t])]

abstractTries == [t \in Tasks |-> Len(attempts[t])]

D == INSTANCE DurableTasks WITH
       Edges    <- Deps,
       Required <- {t \in Tasks : Required[t]},
       Blocking <- {t \in Tasks : FailurePolicy[t] = "block"},
       Waivable <- {t \in Gated : RejectionPolicy[t] = "skip"},
       Rationed <- {t \in Tasks : Type[t] = "agent_task"},
       Ration   <- MaxAttempts,
       life     <- wf.status,
       state    <- abstractState,
       tries    <- abstractTries

(* The engine does what DurableTasks promises: whatever reconcilers race,  *)
(* crash or lose their leases, a task is only started on the outcomes it   *)
(* demands and within its retry budget, ends once, is skipped or cancelled *)
(* for cause, and the workflow ends the way its tasks did                  *)
(* (reconcileWorkflow, cancelWorkflow).                                    *)
ImplementsDurableTasks == D!Spec
=============================================================================
