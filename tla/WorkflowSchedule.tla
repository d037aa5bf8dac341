-------------------------- MODULE WorkflowSchedule --------------------------
(***************************************************************************)
(* The pure part of a workflow's planning: the checks a specification must *)
(* pass (spec/validate.ts), the resolution of relative dates against the   *)
(* workflow's target date (schedule/resolver.ts) and the critical path     *)
(* shown on the Gantt (schedule/critical-path.ts).                         *)
(*                                                                         *)
(* A specification is [target, tasks], tasks a function from the keys it   *)
(* declares to [sched, pinned, parent, deps].  Instants are integers, in   *)
(* minutes; every zone is UTC, so an offset is a plain addition (calendar  *)
(* months, local times and daylight saving are left out).                  *)
(***************************************************************************)
EXTENDS Integers, FiniteSets, FiniteSetsExt, Functions

CONSTANT Tasks      \* every task key a specification may declare

Target == "target"      \* the anchor that stands for the target date
NoParent == "top"

ASSUME TasksAssumption == IsFiniteSet(Tasks) /\ Target \notin Tasks /\ NoParent \notin Tasks

Modes == {"none", "absolute", "relative"}

\* "at" is read in mode "absolute"; "anchor" and "offset" in mode "relative".
\* A task without a schedule has no duration either.
Schedules == {s \in [mode : Modes, at : Int, anchor : Tasks \cup {Target}, offset : Int,
                     dur : Nat, point : {"start", "end", "due"}] :
                s.mode = "none" => s.dur = 0}
TaskSpecs == [sched : Schedules, pinned : BOOLEAN, parent : Tasks \cup {NoParent},
              deps : SUBSET Tasks]

Keys(spec) == DOMAIN spec.tasks

\* The specification parses (spec/schema.ts).
WellFormed(spec) ==
    /\ spec = [target |-> spec.target, tasks |-> spec.tasks]
    /\ spec.target \in Int
    /\ Keys(spec) \subseteq Tasks
    /\ spec.tasks \in [Keys(spec) -> TaskSpecs]

Children(spec, k) == {c \in Keys(spec) : spec.tasks[c].parent = k}

HasSchedule(spec, k) == spec.tasks[k].sched.mode # "none"
IsRelative(spec, k) == spec.tasks[k].sched.mode = "relative"
AnchoredToTask(spec, k) ==
    IsRelative(spec, k) /\ spec.tasks[k].sched.anchor # Target

-----------------------------------------------------------------------------
(* Validation.                                                             *)

\* A directed graph has a cycle iff some set of nodes never leads out.
hasCycle(nodes, next) ==
    \E loop \in SUBSET nodes \ {{}} : \A n \in loop : next[n] \cap loop # {}

\* The tasks above k.  Only asked of an acyclic hierarchy here: a cyclic one
\* is rejected in any case.
ancestorsOf(spec, k) ==
    LET up[j \in Keys(spec)] ==
            LET p == spec.tasks[j].parent
            IN  IF p \in Keys(spec) THEN {p} \cup up[p] ELSE {}
    IN  up[k]

ReferencesResolve(spec) ==
    \A k \in Keys(spec) :
        /\ spec.tasks[k].deps \subseteq Keys(spec) \ {k}
        /\ AnchoredToTask(spec, k) => spec.tasks[k].sched.anchor \in Keys(spec) \ {k}
        /\ spec.tasks[k].parent \in (Keys(spec) \ {k}) \cup {NoParent}

NoCycles(spec) ==
    LET dependencies == [k \in Keys(spec) |-> spec.tasks[k].deps]
        anchors == [k \in Keys(spec) |-> IF AnchoredToTask(spec, k)
                                      THEN {spec.tasks[k].sched.anchor} ELSE {}]
        parents == [k \in Keys(spec) |-> {spec.tasks[k].parent}]
    IN  /\ ~hasCycle(Keys(spec), dependencies)
        /\ ~hasCycle(Keys(spec), anchors)
        /\ ~hasCycle(Keys(spec), parents)

\* The window of a summary task derives from its children, so it has neither
\* a schedule nor a pin, and no descendant may be scheduled against it.
SummariesDerive(spec) ==
    \A k \in Keys(spec) :
        /\ Children(spec, k) # {} => ~HasSchedule(spec, k) /\ ~spec.tasks[k].pinned
        /\ AnchoredToTask(spec, k) => spec.tasks[k].sched.anchor \notin ancestorsOf(spec, k)

validateTemplate(spec) ==
    /\ Keys(spec) # {}
    /\ ReferencesResolve(spec)
    /\ NoCycles(spec)
    /\ SummariesDerive(spec)

\* Every chain of relative schedules ends at the target or at a date.
Resolvable(spec, k) ==
    LET ends[j \in Keys(spec)] ==
            \/ spec.tasks[j].sched.mode = "absolute"
            \/ IsRelative(spec, j) /\ ~AnchoredToTask(spec, j)
            \/ AnchoredToTask(spec, j) /\ ends[spec.tasks[j].sched.anchor]
    IN  ends[k]

validateDraft(spec) ==
    validateTemplate(spec) /\ \A k \in Keys(spec) : IsRelative(spec, k) => Resolvable(spec, k)

validateStart(spec) ==
    validateDraft(spec) /\ \A k \in Keys(spec) : spec.tasks[k].parent = NoParent

-----------------------------------------------------------------------------
(* Resolution.                                                             *)

Bar(start, end) == [start |-> start, end |-> end, due |-> end]

applyBar(instant, sched) ==
    IF sched.point = "start" THEN Bar(instant, instant + sched.dur)
                             ELSE Bar(instant - sched.dur, instant)

\* The bar of one task, given the bar of its anchor.  A frozen task keeps its
\* bar; a task without a schedule lands on the target.
BarOf(spec, frozen, bar, k) ==
    LET sched == spec.tasks[k].sched
        instant ==
            CASE sched.mode = "none"     -> spec.target
              [] sched.mode = "absolute" -> sched.at
              [] sched.mode = "relative" ->
                    sched.offset + IF sched.anchor = Target THEN spec.target
                                   ELSE bar[sched.anchor].due
    IN  IF k \in DOMAIN frozen THEN frozen[k] ELSE applyBar(instant, sched)

\* First pass: what is anchored to a frozen task resolves against its bar.
resolveBars(spec, frozen) ==
    LET bar[k \in Keys(spec)] == BarOf(spec, frozen, bar, k)
    IN  bar

\* Nothing frozen.
NoBars == [k \in {} |-> Bar(0, 0)]

\* Frozen bars that only replace the result: what is anchored to a frozen task
\* follows the date the task would otherwise have had.
resolveScheduleLateFreeze(spec, frozen) ==
    LET free == resolveBars(spec, NoBars)
    IN  [k \in Keys(spec) |-> IF k \in DOMAIN frozen THEN frozen[k] ELSE free[k]]

\* A summary task spans its children.
SpanOf(spec, first, bar, k) ==
    LET below == {bar[c] : c \in Children(spec, k)}
    IN  IF below = {} THEN first[k]
        ELSE [start |-> Min({b.start : b \in below}),
              end   |-> Max({b.end : b \in below}),
              due   |-> Max({b.due : b \in below})]

\* Second pass, over the bars of the first.
resolveSchedule(spec, frozen) ==
    LET first == resolveBars(spec, frozen)
        bar[k \in Keys(spec)] == SpanOf(spec, first, bar, k)
    IN  bar

\* A preview that lets the pinned tasks move.
computeCascadeDiffUnfrozen(spec, newTarget) ==
    LET before == resolveSchedule(spec, NoBars)
        after  == resolveSchedule([spec EXCEPT !.target = newTarget], NoBars)
        moved  == {k \in Keys(spec) : ~spec.tasks[k].pinned /\ before[k].due # after[k].due}
    IN  [k \in moved |-> after[k].due]

\* What moving the target date would do to the due dates of the leaves that
\* are not pinned: the changed ones, with their new due.  The pinned tasks
\* are frozen where the specification, resolved afresh, puts them.
computeCascadeDiff(spec, newTarget) ==
    LET before == resolveSchedule(spec, NoBars)
        pinned == {k \in Keys(spec) : spec.tasks[k].pinned}
        point(k) == [start |-> before[k].due, end |-> before[k].due, due |-> before[k].due]
        after  == resolveSchedule([spec EXCEPT !.target = newTarget],
                                  [k \in pinned |-> point(k)])
        moved  == {k \in Keys(spec) \ pinned :
                        Children(spec, k) = {} /\ before[k].due # after[k].due}
    IN  [k \in moved |-> after[k].due]

-----------------------------------------------------------------------------
(* Critical path, over the leaves of the stored rows.                      *)

CpmLeaves(spec) == {k \in Keys(spec) : Children(spec, k) = {}}
Preds(spec, k) == {p \in spec.tasks[k].deps \cap Keys(spec) : Children(spec, p) = {}}
Succs(spec, k) == {s \in Keys(spec) : k \in spec.tasks[s].deps /\ Children(spec, s) = {}}

\* Forward pass, for the durations dur of the leaves.
EarliestFinish(spec, dur) ==
    LET ef[k \in CpmLeaves(spec)] == Max({0} \cup {ef[p] : p \in Preds(spec, k)}) + dur[k]
    IN  ef

Makespan(spec, dur) ==
    LET ef == EarliestFinish(spec, dur)
    IN  Max({0} \cup {ef[k] : k \in CpmLeaves(spec)})

\* A backward pass that takes the loosest successor.
LatestFinishOfLast(spec, dur) ==
    LET span == Makespan(spec, dur)
        lf[k \in CpmLeaves(spec)] ==
            IF Succs(spec, k) = {} THEN span
            ELSE Max({lf[s] - dur[s] : s \in Succs(spec, k)})
    IN  lf

\* Backward pass.
LatestFinish(spec, dur) ==
    LET span == Makespan(spec, dur)
        lf[k \in CpmLeaves(spec)] ==
            IF Succs(spec, k) = {} THEN span
            ELSE Min({lf[s] - dur[s] : s \in Succs(spec, k)})
    IN  lf

computeCriticalPath(spec, dur) ==
    LET lf == LatestFinish(spec, dur)
        ef == EarliestFinish(spec, dur)
    IN  {k \in CpmLeaves(spec) : lf[k] = ef[k]}
=============================================================================
