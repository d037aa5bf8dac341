---------------------------- MODULE WorkflowDraft ----------------------------
(***************************************************************************)
(* Editing the plan of a draft or paused workflow (store.ts, the page's    *)
(* server actions and the chat's draft tools).                             *)
(*                                                                         *)
(* Every edit is a read-modify-write: the server rebuilds the              *)
(* specification from the rows, patches and validates it, and then         *)
(* replaces the rows in one transaction, under the workflow's advisory     *)
(* lock, if the lock version is still the one the editor's page was        *)
(* rendered with.  Editors interleave between those steps, and so does the *)
(* engine, which starts, runs, pauses and resumes the workflow.  The       *)
(* selects of one reconstructSpec are taken as one read.                   *)
(***************************************************************************)
EXTENDS WorkflowSchedule

CONSTANTS
    Editors,        \* browser pages and chat sessions with manage rights
    InitSpecs,      \* the specifications the workflow may be created from
    Ops,            \* the edits the editors ask for
    MaxEdits,       \* bound: edits of the specification
    MaxLock         \* bound: lock version, edits and changes of status

\* A specification that does not parse or validate never becomes a workflow.
ASSUME InitSpecsValid ==
    \A spec \in InitSpecs : WellFormed(spec) /\ validateTemplate(spec)

\* What a page or a chat can send: a date, a length, a task that parses.
ASSUME OpsAssumption ==
    \A op \in Ops :
        /\ op.kind \in {"move", "pin", "reoffset", "window", "link", "unlink", "delete", "write"}
        /\ op.kind \in {"move", "pin", "reoffset", "window"} => op.at \in Int
        /\ op.kind = "window" => op.dur \in Nat
        /\ op.kind = "write" => op.task \in Tasks /\ op.spec \in TaskSpecs

VARIABLES
    wf,         \* the workflow row: [status, lock, specVersion, target]
    row,        \* the task rows, by key: the specification fields, the
                \* resolved bar, and whether the task has run
    page,       \* per editor, the lock version its page was rendered with
    req         \* per editor, what it is at: a request and its progress

vars == <<wf, row, page, req>>

NoReq == [step |-> "none"]
NoPreview == [lock |-> -1]      \* no cascade preview was shown before saving

-----------------------------------------------------------------------------
(* Rows and specifications.                                                *)

\* Frozen for execution: a task with attempts or artifacts, past scheduled,
\* or with an approval that was acted upon.  One flag stands for all.
isFrozen(k) == row[k].ran

\* The specification the rows stand for.
reconstructSpec ==
    [target |-> wf.target, tasks |-> [k \in DOMAIN row |-> row[k].task]]

BuildRows(spec, bars, ran) ==
    [k \in Keys(spec) |-> [task |-> spec.tasks[k], bar |-> bars[k], ran |-> k \in ran]]

createWorkflowFromSpec(spec) ==
    BuildRows(spec, resolveSchedule(spec, NoBars), {})

-----------------------------------------------------------------------------
(* The edits.  Each is a guard on the specification read and a patch.      *)

Has(spec, k) == k \in Keys(spec)

\* The due date an anchor has in the specification that was read.
AnchorInstant(spec, sched) ==
    IF sched.anchor = Target THEN spec.target
    ELSE resolveSchedule(spec, NoBars)[sched.anchor].due

Reoffset(spec, k, due) ==
    [spec.tasks[k].sched EXCEPT !.offset = due - AnchorInstant(spec, spec.tasks[k].sched)]

AbsoluteAt(at, dur, point) ==
    [mode |-> "absolute", at |-> at, anchor |-> Target, offset |-> 0, dur |-> dur,
     point |-> point]

\* rescheduleWorkflowTask refuses bars and tasks anchored by their start.
Draggable(sched) == sched.dur = 0 /\ sched.point # "start"

\* applyWorkflowTaskWindow keeps a relative task relative and refuses one it
\* cannot move by its due date alone.
WindowSupported(sched) ==
    sched.mode = "relative" => sched.dur = 0 /\ sched.point = "due"

Dependents(spec, k) == {d \in Keys(spec) \ {k} : k \in spec.tasks[d].deps}
AnchorDependents(spec, k) ==
    {d \in Keys(spec) \ {k} : IsRelative(spec, d) /\ spec.tasks[d].sched.anchor = k}

\* The specification read accepts the edit, before validation.
Accepts(op, spec) ==
    CASE op.kind = "move"     -> TRUE
      [] op.kind = "pin"      -> Has(spec, op.task) /\ Draggable(spec.tasks[op.task].sched)
      [] op.kind = "reoffset" -> /\ Has(spec, op.task)
                                 /\ IsRelative(spec, op.task)
                                 /\ Draggable(spec.tasks[op.task].sched)
      [] op.kind = "window"   -> /\ Has(spec, op.task)
                                 /\ WindowSupported(spec.tasks[op.task].sched)
      [] op.kind = "link"     -> /\ Has(spec, op.task) /\ Has(spec, op.on)
                                 /\ op.on \notin spec.tasks[op.task].deps
      [] op.kind = "unlink"   -> Has(spec, op.task)
      [] op.kind = "delete"   -> /\ Has(spec, op.task)
                                 /\ Dependents(spec, op.task) = {}
                                 /\ AnchorDependents(spec, op.task) = {}
      [] op.kind = "write"    -> TRUE

\* applyWorkflowTaskWindow alone also reads the status of the task it moves.
Editable(op) == op.kind = "window" => ~isFrozen(op.task)

WithTask(spec, k, task) ==
    [spec EXCEPT !.tasks = [j \in Keys(spec) \cup {k} |-> IF j = k THEN task ELSE spec.tasks[j]]]

Patch(op, spec) ==
    LET task == spec.tasks[op.task]
        sched == task.sched
    IN  CASE op.kind = "move"     -> [spec EXCEPT !.target = op.at]
          [] op.kind = "pin"      ->
                WithTask(spec, op.task,
                    [task EXCEPT !.pinned = TRUE,
                                 !.sched = AbsoluteAt(op.at, 0,
                                    IF sched.mode = "absolute" THEN sched.point ELSE "due")])
          [] op.kind = "reoffset" ->
                WithTask(spec, op.task, [task EXCEPT !.pinned = FALSE,
                                                     !.sched = Reoffset(spec, op.task, op.at)])
          [] op.kind = "window"   ->
                WithTask(spec, op.task,
                    [task EXCEPT !.sched = IF IsRelative(spec, op.task)
                                           THEN Reoffset(spec, op.task, op.at)
                                           ELSE AbsoluteAt(op.at, op.dur, "due")])
          [] op.kind = "link"     ->
                WithTask(spec, op.task, [task EXCEPT !.deps = @ \cup {op.on}])
          [] op.kind = "unlink"   ->
                WithTask(spec, op.task, [task EXCEPT !.deps = @ \ {op.on}])
          [] op.kind = "delete"   ->
                [spec EXCEPT !.tasks = [k \in Keys(spec) \ {op.task} |->
                    IF spec.tasks[k].parent = op.task
                    THEN [spec.tasks[k] EXCEPT !.parent = NoParent] ELSE spec.tasks[k]]]
          [] op.kind = "write"    -> WithTask(spec, op.task, op.spec)

\* The task an edit moves on purpose, which the rebuild does not freeze.
excludeFromFreeze(op) ==
    IF op.kind \in {"pin", "reoffset", "window"} THEN {op.task} ELSE {}

FromChat(op) == op.kind = "write"

-----------------------------------------------------------------------------
(* Replacing the rows.                                                     *)

\* The pinned tasks, but for one that is dragged.
PinnedTasks(spec, op) ==
    {k \in Keys(spec) \cap DOMAIN row : spec.tasks[k].pinned /\ k \notin excludeFromFreeze(op)}

\* A rebuild that freezes nothing but the pins.
FrozenBarsPinsOnly(spec, op) == [k \in PinnedTasks(spec, op) |-> row[k].bar]

\* Pinned tasks keep the bar of their row, and in a paused workflow the tasks
\* that have run as well.
FrozenBars(spec, op) ==
    [k \in {k \in Keys(spec) \cap DOMAIN row :
                k \in PinnedTasks(spec, op) \/ (wf.status = "paused" /\ isFrozen(k))}
        |-> row[k].bar]

\* The paused path rolls back an edit that removes a task that has run or
\* changes its schedule or its dependencies.
diffApplyRejects(spec) ==
    /\ wf.status = "paused"
    /\ \E k \in DOMAIN row :
        /\ isFrozen(k)
        /\ ~(/\ k \in Keys(spec)
             /\ spec.tasks[k].sched = row[k].task.sched
             /\ spec.tasks[k].deps = row[k].task.deps)

Rebuilt(spec, op) ==
    BuildRows(spec, resolveSchedule(spec, FrozenBars(spec, op)), {k \in DOMAIN row : row[k].ran})

-----------------------------------------------------------------------------
(* Actions.                                                                *)

\* The page is rendered, again when something on it calls for a refresh.
LoadPage(e) ==
    /\ req[e].step \in {"none", "shown"}
    /\ page[e] # wf.lock
    /\ page' = [page EXCEPT ![e] = wf.lock]
    /\ UNCHANGED <<wf, row, req>>

\* The server reads the specification, patches it and checks the result.
Patched(op, expect, shown) ==
    LET spec == Patch(op, reconstructSpec)
    IN  IF Accepts(op, reconstructSpec) /\ Editable(op) /\ validateTemplate(spec)
        THEN [step |-> "commit", op |-> op, expect |-> expect, spec |-> spec, shown |-> shown]
        ELSE NoReq

\* A page asks for an edit, with the version it was rendered with.
RequestEdit(e, op) ==
    /\ req[e] = NoReq
    /\ wf.specVersion < MaxEdits
    /\ ~FromChat(op)
    /\ req' = [req EXCEPT ![e] = Patched(op, page[e], NoPreview)]
    /\ UNCHANGED <<wf, row, page>>

\* workflow_draft_get: the chat reads the version of a draft before its
\* specification, and sends that version back with what it writes.
RequestWrite(e, op) ==
    /\ req[e] = NoReq
    /\ wf.specVersion < MaxEdits
    /\ FromChat(op)
    /\ wf.status = "draft"
    /\ req' = [req EXCEPT ![e] = [step |-> "read", op |-> op, expect |-> wf.lock]]
    /\ UNCHANGED <<wf, row, page>>

ReadAndWrite(e) ==
    /\ req[e].step = "read"
    /\ FromChat(req[e].op)
    /\ req' = [req EXCEPT ![e] = Patched(@.op, @.expect, NoPreview)]
    /\ UNCHANGED <<wf, row, page>>

\* The target-date control: a date is picked and previewCascadeAction reads
\* the lock version, then the specification ...
RequestPreview(e, op) ==
    /\ req[e] = NoReq
    /\ op.kind = "move"
    /\ op.at # wf.target
    /\ req' = [req EXCEPT ![e] = [step |-> "read", op |-> op, expect |-> wf.lock]]
    /\ UNCHANGED <<wf, row, page>>

ShowPreview(e) ==
    /\ req[e].step = "read"
    /\ ~FromChat(req[e].op)
    /\ req' = [req EXCEPT ![e] =
                [step |-> "shown", op |-> @.op,
                 shown |-> [lock |-> @.expect,
                            diff |-> computeCascadeDiff(reconstructSpec, @.op.at)]]]
    /\ UNCHANGED <<wf, row, page>>

\* ... and the date is saved with the version of the page, or dropped.
SavePreviewed(e) ==
    /\ req[e].step = "shown"
    /\ wf.specVersion < MaxEdits
    /\ req' = [req EXCEPT ![e] = Patched(@.op, page[e], @.shown)]
    /\ UNCHANGED <<wf, row, page>>

ClosePreview(e) ==
    /\ req[e].step = "shown"
    /\ req' = [req EXCEPT ![e] = NoReq]
    /\ UNCHANGED <<wf, row, page>>

\* A transaction that checks the status alone.
CasHoldsOnStatus(e) == wf.status \in {"draft", "paused"}

\* The compare-and-swap of updateWorkflowDraftSpec.
CasHolds(e) ==
    wf.status \in {"draft", "paused"} /\ wf.lock = req[e].expect

\* updateWorkflowDraftSpec: the transaction.  The Gantt keeps the version it
\* gets back; the target-date control and the chat read it again.
Commit(e) ==
    /\ req[e].step = "commit"
    /\ CasHolds(e)
    /\ ~diffApplyRejects(req[e].spec)
    /\ wf' = [wf EXCEPT !.lock = @ + 1, !.specVersion = @ + 1,
                     !.target = req[e].spec.target]
    /\ row' = Rebuilt(req[e].spec, req[e].op)
    /\ page' = IF req[e].op.kind \in {"move", "write"} THEN page
               ELSE [page EXCEPT ![e] = wf.lock + 1]
    /\ req' = [req EXCEPT ![e] = NoReq]

\* Stale, no longer editable, or rolled back: nothing changes.
Refuse(e) ==
    /\ req[e].step = "commit"
    /\ ~CasHolds(e) \/ diffApplyRejects(req[e].spec)
    /\ req' = [req EXCEPT ![e] = NoReq]
    /\ UNCHANGED <<wf, row, page>>

SetStatus(from, to) ==
    /\ wf.status = from
    /\ wf.lock < MaxLock
    /\ wf' = [wf EXCEPT !.status = to, !.lock = @ + 1]
    /\ UNCHANGED <<row, page, req>>

startWorkflow == validateStart(reconstructSpec) /\ SetStatus("draft", "active")
pauseWorkflow == SetStatus("active", "paused")
resumeWorkflow == SetStatus("paused", "active")

\* The engine dispatches a task of an active workflow: it now has evidence.
Dispatch(k) ==
    /\ wf.status = "active"
    /\ ~row[k].ran
    /\ row' = [row EXCEPT ![k].ran = TRUE]
    /\ UNCHANGED <<wf, page, req>>

-----------------------------------------------------------------------------
Init ==
    \E spec \in InitSpecs :
        /\ wf = [status |-> "draft", lock |-> 0, specVersion |-> 0,
                 target |-> spec.target]
        /\ row = createWorkflowFromSpec(spec)
        /\ page = [e \in Editors |-> 0]
        /\ req = [e \in Editors |-> NoReq]

Next ==
    \/ \E e \in Editors :
        \/ LoadPage(e)
        \/ \E op \in Ops : RequestEdit(e, op) \/ RequestWrite(e, op) \/ RequestPreview(e, op)
        \/ ReadAndWrite(e)
        \/ ShowPreview(e)
        \/ SavePreviewed(e)
        \/ ClosePreview(e)
        \/ Commit(e)
        \/ Refuse(e)
    \/ startWorkflow
    \/ pauseWorkflow
    \/ resumeWorkflow
    \/ \E k \in DOMAIN row : Dispatch(k)

Spec == Init /\ [][Next]_vars

-----------------------------------------------------------------------------
(* Properties.                                                             *)

\* A task that is neither pinned nor frozen is due where its schedule puts it
\* relative to its anchor.  The date of an anchor that is a leaf is the due in
\* its own row, frozen or not, so the rows agree with each other.  The date of
\* an anchor that is a summary task is the target: the first pass of
\* resolveSchedule uses the placeholder, which the second then overwrites with
\* the span of the children.
AnchorsHold ==
    \A k \in DOMAIN row :
        LET sched == row[k].task.sched
            date  == IF Children(reconstructSpec, sched.anchor) = {}
                     THEN row[sched.anchor].bar.due ELSE wf.target
        IN  /\ AnchoredToTask(reconstructSpec, k)
            /\ ~row[k].task.pinned /\ ~row[k].ran
            => row[k].bar = applyBar(sched.offset + date, sched)

\* What the header of the resolver says of every anchor, a summary task too
\* (resolver.ts: "a relative anchor resolves to the anchor task's canonical
\* `dueAtUtc`").
SummaryAnchorsHold ==
    \A k \in DOMAIN row :
        LET sched == row[k].task.sched
        IN  /\ AnchoredToTask(reconstructSpec, k)
            /\ ~row[k].task.pinned /\ ~row[k].ran
            => row[k].bar = applyBar(sched.offset + row[sched.anchor].bar.due, sched)

\* A leaf is on the critical path exactly when lengthening it lengthens the
\* whole plan.
CriticalIsWhatDelays ==
    LET spec == reconstructSpec
        dur  == [k \in CpmLeaves(spec) |-> row[k].bar.end - row[k].bar.start]
        span == Makespan(spec, dur)
    IN  computeCriticalPath(spec, dur) =
            {k \in CpmLeaves(spec) : Makespan(spec, [dur EXCEPT ![k] = @ + 1]) > span}

\* The edit an editor's step commits, if any.
Commits(e) ==
    /\ wf'.specVersion = wf.specVersion + 1
    /\ req[e].step = "commit" /\ req'[e] = NoReq

\* No edit is lost: what an edit commits is that edit applied to the rows as
\* they are when it commits, whoever edited since it read them
\* (updateWorkflowDraftSpec replaces every row, and only the lock version keeps
\* it from writing back an old plan).
EditsAreNotLost ==
    [][\A e \in Editors :
            Commits(e) => /\ Accepts(req[e].op, reconstructSpec) /\ Editable(req[e].op)
                          /\ req[e].spec = Patch(req[e].op, reconstructSpec)]_vars

\* No edit moves a task that has run, and none but a drag of the task itself
\* moves a pinned one (the freezes of updateWorkflowDraftSpec and
\* diffApplySpecRows).
FrozenTasksStay ==
    [][\A k \in DOMAIN row \cap DOMAIN row' :
            row'[k].bar # row[k].bar =>
                /\ ~row[k].ran
                /\ row[k].task.pinned /\ row'[k].task.pinned =>
                    \E e \in Editors : Commits(e) /\ k \in excludeFromFreeze(req[e].op)]_vars

\* Saving a target date changes exactly the due dates its preview listed, among
\* the leaves that are not pinned.
SavesWhatWasShown(e) ==
    req[e].shown.diff =
        [k \in {k \in DOMAIN row : /\ row'[k].bar.due # row[k].bar.due
                                   /\ ~row[k].task.pinned
                                   /\ Children(reconstructSpec, k) = {}}
            |-> row'[k].bar.due]

\* In a draft, a target date saved at the version its preview was computed at
\* does what the preview said, whatever was moved, pinned or dragged before
\* (computeCascadeDiff previews, insertSpecRows applies).
PreviewIsKept ==
    [][\A e \in Editors :
            Commits(e) /\ wf.status = "draft" /\ req[e].shown.lock = wf.lock
            => SavesWhatWasShown(e)]_vars

\* The same of a paused workflow.
PausedPreviewIsKept ==
    [][\A e \in Editors :
            Commits(e) /\ wf.status = "paused" /\ req[e].shown.lock = wf.lock
            => SavesWhatWasShown(e)]_vars

\* A task that is dragged is due where it was dropped (store.ts: the offset is
\* recomputed "to land `newDueAtUtc` relative to the CURRENT anchor").
DragLands ==
    [][\A e \in Editors :
            Commits(e) /\ req[e].op.kind \in {"reoffset", "window", "pin"} =>
                row'[req[e].op.task].bar.due = req[e].op.at]_vars
=============================================================================
