--------------------------- MODULE MCWorkflowDraft ---------------------------
(***************************************************************************)
(* Instances of WorkflowDraft for TLC.                                     *)
(***************************************************************************)
EXTENDS WorkflowDraft, TLC

Sched(mode, at, anchor, offset, dur, point) ==
    [mode |-> mode, at |-> at, anchor |-> anchor, offset |-> offset, dur |-> dur, point |-> point]
Unscheduled == Sched("none", 0, Target, 0, 0, "due")
After(anchor, offset) == Sched("relative", 0, anchor, offset, 0, "due")
Task(sched, pinned, parent, deps) ==
    [sched |-> sched, pinned |-> pinned, parent |-> parent, deps |-> deps]

\* A flat plan: "prep" two before the target (pinned or not), "ship" one after
\* "prep", and a bar "ad" of length 2 with a date of its own.
Flat(pinned) ==
    [target |-> 4,
     tasks  |-> ("prep" :> Task(After(Target, -2), pinned, NoParent, {})) @@
                ("ship" :> Task(After("prep", 1), FALSE, NoParent, {"prep"})) @@
                ("ad"   :> Task(Sched("absolute", 3, Target, 0, 2, "start"), FALSE,
                                NoParent, {}))]

\* The same tasks with "ship" and "ad" under a summary task.
Tree ==
    [target |-> 4,
     tasks  |-> ("prep" :> Task(After(Target, -2), TRUE, NoParent, {})) @@
                ("ship" :> Task(After("prep", 1), FALSE, "all", {"prep"})) @@
                ("ad"   :> Task(Sched("absolute", 3, Target, 0, 2, "start"), FALSE, "all", {"prep"})) @@
                ("all"  :> Task(Unscheduled, FALSE, NoParent, {}))]

EditorSymmetry == Permutations(Editors)

MCSpecs == {Flat(TRUE), Tree}

Op(kind, task, at) == [kind |-> kind, task |-> task, at |-> at]

\* Every kind of edit.  "write" is the chat replacing a task: it unpins "prep",
\* anchors it to the summary task, or writes "ad" (again, if it was deleted)
\* with a date that follows "ship".
MCOps ==
    {Op("move", "prep", 6),
     Op("pin", "prep", 5),
     Op("reoffset", "ship", 5),
     [kind |-> "window", task |-> "ad", at |-> 6, dur |-> 3],
     [kind |-> "link", task |-> "ship", on |-> "ad"],
     [kind |-> "link", task |-> "ad", on |-> "ship"],
     [kind |-> "unlink", task |-> "ship", on |-> "prep"],
     [kind |-> "delete", task |-> "ad"],
     [kind |-> "write", task |-> "prep", spec |-> Task(After(Target, -2), FALSE, NoParent, {})],
     [kind |-> "write", task |-> "prep", spec |-> Task(After("all", -2), FALSE, NoParent, {})],
     [kind |-> "write", task |-> "ad", spec |-> Task(After("ship", 1), FALSE, NoParent, {})]}
=============================================================================
