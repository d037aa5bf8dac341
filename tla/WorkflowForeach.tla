---------------------------- MODULE WorkflowForeach ----------------------------
(***************************************************************************)
(* A foreach task: the children materialised from the output of its source *)
(* (engine/foreach.ts) and the parent that stands for them                 *)
(* (engine/foreach-reconciler.ts), inside a workflow of source, parent and *)
(* children that several reconcilers tick.  The dispatch of a child is     *)
(* WorkflowReconciler's, reduced to claim, run and outcome: one attempt, a *)
(* dispatch can fail, a dispatcher can die and be replaced.                *)
(***************************************************************************)
EXTENDS Naturals, Sequences, FiniteSets

CONSTANTS
  Reconcilers,
  StableIds,      \* what names a child within its parent
  Outputs,        \* possible outputs of the source: Malformed, or raw item keys
  Slug,           \* slugifyItemKey: raw key -> stable id, or NoSlug
  Padded,         \* index -> stable id, for an item without a key
  MaxFanout,      \* min(declared, FOREACH_MAX_FANOUT_HARD_CEILING)
  DispatchCap,
  MaxCrashes,
  Malformed, NoKey, NoSlug

(* An output that parses is a sequence of items with or without a key; a   *)
(* slug and a padded index are stable ids.                                 *)
ASSUME ForeachAssumption ==
  /\ MaxFanout \in Nat
  /\ Outputs \ {Malformed} \subseteq Seq(DOMAIN Slug \cup {NoKey})
  /\ \A k \in DOMAIN Slug : Slug[k] \in StableIds \cup {NoSlug}
  /\ \A i \in 1 .. MaxFanout : Padded[i] \in StableIds

VARIABLES
  fe,        \* rollup policy, and the failure policies of parent and children
  wf,        \* status of the workflow
  source,    \* status and output of the source task
  parent,    \* status of the foreach task
  latched,   \* metadata: foreach_has_failure, foreach_has_success
  child,     \* status of each child, absent before materialisation
  run,       \* the agent run of each child
  known,     \* children whose attempt row has the child run id
  pc, flight, cleanup,  \* per reconciler: phase, dispatches, runs to stop
  crashes
vars == <<fe, wf, source, parent, latched, child, run, known, pc, flight,
          cleanup, crashes>>

User == "user"

Terminal == {"succeeded", "failed", "skipped", "cancelled"}
Policies == {"any_fails", "best_effort", "all_or_nothing"}

Init ==
  /\ fe \in [rollupPolicy : Policies, parentPolicy : {"block", "skip"},
             childPolicy : {"block", "skip"}]
  /\ wf = "active"
  /\ source = [status |-> "running", output |-> Malformed]
  /\ parent = "idle"
  /\ latched = {}
  /\ child = [c \in StableIds |-> "absent"]
  /\ run = [c \in StableIds |-> "none"]
  /\ known = {}
  /\ pc = [r \in Reconcilers |-> "off"]
  /\ flight = [r \in Reconcilers |-> [c \in StableIds |-> "none"]]
  /\ cleanup = [x \in Reconcilers \cup {User} |-> {}]
  /\ crashes = 0

Children == {c \in StableIds : child[c] # "absent"}
WithStatus(s) == {c \in StableIds : child[c] = s}
Goto(r, phase) == pc' = [pc EXCEPT ![r] = phase]
rows == <<fe, wf, source, parent, latched, child, run, known>>
-----------------------------------------------------------------------------
(* materializeForeachChildren.                                             *)

stableId(items, i) == IF items[i] = NoKey THEN Padded[i] ELSE Slug[items[i]]

\* Faulty variant: colliding keys are not noticed.
DuplicatesMissed(items) == FALSE

DuplicateItemKey(items) ==
  \E i, j \in DOMAIN items : i # j /\ stableId(items, i) = stableId(items, j)

(* foreach_invalid_source_output, foreach_max_fanout_exceeded,             *)
(* foreach_invalid_item_key, foreach_duplicate_item_key.                   *)
MaterializationFails(output) ==
  \/ output = Malformed
  \/ Len(output) > MaxFanout
  \/ \E i \in DOMAIN output : stableId(output, i) = NoSlug
  \/ DuplicateItemKey(output)

ChildPlans(output) == {stableId(output, i) : i \in DOMAIN output}

-----------------------------------------------------------------------------
(* reconcileForeachParents: one transaction under the advisory lock.       *)

(* persistChildPlans inserts the rows, on conflict do nothing.             *)
Materialized(plans) ==
  [c \in StableIds |-> IF c \in plans /\ child[c] = "absent" THEN "idle" ELSE child[c]]

handleIdleParent ==
  /\ parent = "idle"
  /\ CASE source.status = "succeeded" ->
            IF MaterializationFails(source.output)
            THEN parent' = "failed" /\ UNCHANGED child
            ELSE /\ parent' = IF source.output = <<>> THEN "succeeded" ELSE "running"
                 /\ child' = Materialized(ChildPlans(source.output))
       [] source.status = "skipped" \/ (source.status = "failed" /\ fe.parentPolicy = "skip") ->
            parent' = "skipped" /\ UNCHANGED child
       [] OTHER -> UNCHANGED <<parent, child>>
  /\ UNCHANGED latched

\* Faulty variant: the any_fails policy cancels running children too.
CancellableAll == {"idle", "scheduled", "pending_approval", "running"}

(* cancelForeachChildren: scope pending for any_fails, all for             *)
(* all_or_nothing; best_effort cancels nothing.                            *)
CancellableStatuses ==
  CASE fe.rollupPolicy = "any_fails" -> {"idle", "scheduled", "pending_approval"}
    [] fe.rollupPolicy = "all_or_nothing" -> {"idle", "scheduled", "pending_approval", "running"}
    [] OTHER -> {}

Cancelled ==
  IF WithStatus("failed") = {} THEN {}
  ELSE {c \in StableIds : child[c] \in CancellableStatuses}

\* Faulty variants of the roll-up.
AllTerminalUncancelled == \A c \in Children : child[c] \in {"succeeded", "failed", "skipped"}
FinalStatusAnyFailed == IF WithStatus("failed") # {} THEN "failed" ELSE "succeeded"

(* The snapshot read at the start of the transaction, before the           *)
(* cancellation: a parent whose children are cancelled now settles in a    *)
(* later tick.                                                             *)
AllTerminal == \A c \in Children : child[c] \in Terminal

FinalStatus ==
  IF fe.rollupPolicy = "best_effort"
  THEN IF WithStatus("succeeded") # {} THEN "succeeded" ELSE "failed"
  ELSE IF WithStatus("failed") # {} THEN "failed" ELSE "succeeded"

handleRunningParent ==
  /\ parent = "running"
  /\ latched' = latched \cup {s \in {"succeeded", "failed"} : WithStatus(s) # {}}
  /\ child' = [c \in StableIds |-> IF c \in Cancelled THEN "cancelled" ELSE child[c]]
  /\ parent' = IF AllTerminal THEN FinalStatus ELSE parent

reconcileForeachParents(r) ==
  /\ pc[r] = "foreach" /\ wf = "active"
  /\ \/ handleIdleParent /\ cleanup' = cleanup
     \/ /\ handleRunningParent
        /\ cleanup' = [cleanup EXCEPT ![r] = Cancelled \cap WithStatus("running") \cap known]
     \/ parent \in Terminal /\ UNCHANGED <<parent, child, latched, cleanup>>
  /\ Goto(r, "cleanup")
  /\ UNCHANGED <<fe, wf, source, run, known, flight, crashes>>

(* cancelChildRun, best effort, by a reconciler or by cancelWorkflow.      *)
StopRun(x) ==
  \E c \in cleanup[x], ok \in BOOLEAN :
    /\ run' = IF ok THEN [run EXCEPT ![c] = "stopped"] ELSE run
    /\ cleanup' = [cleanup EXCEPT ![x] = @ \ {c}]
    /\ UNCHANGED <<fe, wf, source, parent, latched, child, known, pc, flight, crashes>>

CleanupDone(r) ==
  /\ pc[r] = "cleanup" /\ cleanup[r] = {}
  /\ Goto(r, "claim")
  /\ UNCHANGED <<rows, flight, cleanup, crashes>>

-----------------------------------------------------------------------------
(* The rest of the tick, as far as it concerns children.                   *)

StartTick(r) ==
  /\ pc[r] = "off" /\ wf = "active"
  /\ Goto(r, "poll")
  /\ UNCHANGED <<rows, flight, cleanup, crashes>>

(* pollRunningAgentTasks: the runs that ended settle their children.       *)
PollChildren(r) ==
  /\ pc[r] = "poll" /\ wf = "active"
  /\ child' = [c \in StableIds |->
       IF child[c] = "running" /\ c \in known
       THEN CASE run[c] = "completed" -> "succeeded"
              [] run[c] \in {"failed", "stopped"} -> "failed"
              [] OTHER -> "running"
       ELSE child[c]]
  /\ Goto(r, "foreach")
  /\ UNCHANGED <<fe, wf, source, parent, latched, run, known, flight, cleanup, crashes>>

(* A dispatch nobody is working on any more: its lease expired.            *)
Abandoned ==
  {c \in WithStatus("running") \ known : \A r \in Reconcilers : flight[r][c] = "none"}

(* claimReadyTasks: the foreach parent itself is never claimed.            *)
ClaimChildren(r) ==
  LET ready == WithStatus("idle") \cup Abandoned
  IN  /\ pc[r] = "claim" /\ wf = "active"
      /\ \E batch \in SUBSET ready :
           /\ Cardinality(batch) = IF Cardinality(ready) < DispatchCap
                                   THEN Cardinality(ready) ELSE DispatchCap
           /\ child' = [c \in StableIds |-> IF c \in batch THEN "running" ELSE child[c]]
           /\ flight' = [flight EXCEPT ![r] =
                [c \in StableIds |-> IF c \in batch THEN "dispatching" ELSE "none"]]
      /\ Goto(r, IF ready = {} THEN "finalize" ELSE "dispatch")
      /\ UNCHANGED <<fe, wf, source, parent, latched, run, known, cleanup, crashes>>

(* The agent_task executor: idempotent creation of the run, or an error.   *)
DispatchChild(r, c, ok) ==
  /\ pc[r] = "dispatch" /\ flight[r][c] = "dispatching"
  /\ run' = IF ok /\ run[c] = "none" THEN [run EXCEPT ![c] = "live"] ELSE run
  /\ flight' = [flight EXCEPT ![r][c] = IF ok THEN "running" ELSE "failed"]
  /\ UNCHANGED <<fe, wf, source, parent, latched, child, known, pc, cleanup, crashes>>

RecordOutcomes(r) ==
  /\ pc[r] = "dispatch"
  /\ \A c \in StableIds : flight[r][c] # "dispatching"
  /\ child' = [c \in StableIds |->
       IF flight[r][c] = "failed" /\ child[c] = "running" THEN "failed" ELSE child[c]]
  /\ known' = known \cup {c \in WithStatus("running") : flight[r][c] = "running"}
  /\ flight' = [flight EXCEPT ![r] = [c \in StableIds |-> "none"]]
  /\ Goto(r, "claim")
  /\ UNCHANGED <<fe, wf, source, parent, latched, run, cleanup, crashes>>

(* finalizeWorkflow: rollUpWorkflowStatus over source (failure policy      *)
(* skip), parent and children, all of them required.                       *)
RolledUp ==
  IF \/ parent = "failed" /\ fe.parentPolicy = "block"
     \/ WithStatus("failed") # {} /\ fe.childPolicy = "block"
  THEN "failed"
  ELSE IF /\ source.status \in Terminal /\ parent \in Terminal /\ AllTerminal
       THEN "completed" ELSE "active"

FinalizeWorkflow(r) ==
  /\ pc[r] = "finalize" /\ wf = "active"
  /\ wf' = RolledUp
  /\ Goto(r, "off")
  /\ UNCHANGED <<fe, source, parent, latched, child, run, known, flight, cleanup, crashes>>

(* Every phase starts by reading the workflow and leaves if not active.    *)
Inactive(r) ==
  /\ pc[r] \in {"poll", "foreach", "claim", "finalize"} /\ wf # "active"
  /\ Goto(r, CASE pc[r] = "poll" -> "foreach" [] pc[r] = "foreach" -> "cleanup"
               [] OTHER -> "off")
  /\ UNCHANGED <<rows, flight, cleanup, crashes>>

Crash(r) ==
  /\ pc[r] # "off" /\ crashes < MaxCrashes
  /\ crashes' = crashes + 1
  /\ flight' = [flight EXCEPT ![r] = [c \in StableIds |-> "none"]]
  /\ cleanup' = [cleanup EXCEPT ![r] = {}]
  /\ Goto(r, "off")
  /\ UNCHANGED rows

-----------------------------------------------------------------------------
(* The world around the ticks.                                             *)

SourceEnds(status, output) ==
  /\ wf = "active" /\ source.status = "running"
  /\ source' = [status |-> status, output |-> IF status = "succeeded" THEN output ELSE Malformed]
  /\ UNCHANGED <<fe, wf, parent, latched, child, run, known, pc, flight, cleanup, crashes>>

RunEnds(c, how) ==
  /\ run[c] = "live"
  /\ run' = [run EXCEPT ![c] = how]
  /\ UNCHANGED <<fe, wf, source, parent, latched, child, known, pc, flight, cleanup, crashes>>

Stopped(s) == IF s \in Terminal \cup {"absent"} THEN s ELSE "cancelled"

cancelWorkflow ==
  /\ wf = "active"
  /\ wf' = "cancelled"
  /\ source' = [status |-> Stopped(source.status), output |-> source.output]
  /\ parent' = Stopped(parent)
  /\ child' = [c \in StableIds |-> Stopped(child[c])]
  /\ cleanup' = [cleanup EXCEPT ![User] = WithStatus("running") \cap known]
  /\ UNCHANGED <<fe, latched, run, known, pc, flight, crashes>>

TickStep(r) ==
  \/ PollChildren(r)
  \/ reconcileForeachParents(r)
  \/ StopRun(r) \/ CleanupDone(r)
  \/ ClaimChildren(r)
  \/ \E c \in StableIds, ok \in BOOLEAN : DispatchChild(r, c, ok)
  \/ RecordOutcomes(r)
  \/ FinalizeWorkflow(r)
  \/ Inactive(r)

Next ==
  \/ \E r \in Reconcilers : StartTick(r) \/ TickStep(r) \/ Crash(r)
  \/ StopRun(User)
  \/ \E status \in {"succeeded", "failed", "skipped"}, output \in Outputs :
       SourceEnds(status, output)
  \/ \E c \in StableIds, how \in {"completed", "failed"} : RunEnds(c, how)
  \/ cancelWorkflow

Spec == Init /\ [][Next]_vars

(* Ticks repeat and go on, and agent runs end.                             *)
Fairness ==
  /\ \A r \in Reconcilers : WF_vars(StartTick(r)) /\ WF_vars(TickStep(r))
  /\ \A c \in StableIds : WF_vars(\E how \in {"completed", "failed"} : RunEnds(c, how))

FairSpec == Spec /\ Fairness
-----------------------------------------------------------------------------
(* Every item of the source has exactly one child, and there are no        *)
(* others, through replays of the materialisation and racing ticks; a      *)
(* parent with a materialisation error has none (handleIdleParent).        *)
OneChildPerItem ==
  /\ Children # {} =>
       /\ Children = ChildPlans(source.output)
       /\ Cardinality(Children) = Len(source.output)
  /\ parent = "running" => Children # {}

(* The parent's verdict is the one its policy gives for the final statuses *)
(* of the children, and stays so: no child settles otherwise afterwards    *)
(* (handleRunningParent).                                                  *)
RollupIsFinal ==
  parent \in {"succeeded", "failed"} /\ Children # {} =>
    /\ \A c \in Children : child[c] \in Terminal
    /\ (parent = "failed") <=>
         IF fe.rollupPolicy = "best_effort" THEN \A c \in Children : child[c] # "succeeded"
         ELSE \E c \in Children : child[c] = "failed"

(* "Running children continue: their side effects are already in progress; *)
(* half-cancelling is destructive" (cancelForeachChildren): only           *)
(* all_or_nothing, after a failure, or a cancel of the workflow, takes a   *)
(* running child away; best_effort takes nothing away.                     *)
CancelledForCause ==
  [][\A c \in StableIds : child[c] # "cancelled" /\ child'[c] = "cancelled" =>
       \/ wf' = "cancelled"
       \/ /\ \E d \in StableIds : child[d] = "failed"
          /\ fe.rollupPolicy = "all_or_nothing"
             \/ (fe.rollupPolicy = "any_fails" /\ child[c] # "running")]_vars

(* A fan-out comes to an end: its parent settles, whatever fails, crashes  *)
(* or is cancelled, unless the workflow ends first.                        *)
FanOutSettles == parent = "running" ~> parent # "running" \/ wf # "active"

(* "`all` (all_or_nothing policy on first child failure): cancel ALL       *)
(* non-terminal children including running ones" (cancelForeachChildren):  *)
(* once the workflow is over no sibling of a failed child is under way.    *)
AllOrNothing ==
  fe.rollupPolicy = "all_or_nothing" /\ wf # "active" /\ WithStatus("failed") # {}
    => \A c \in Children : child[c] \in Terminal
=============================================================================
