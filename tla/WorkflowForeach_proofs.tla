------------------------ MODULE WorkflowForeach_proofs ------------------------
(***************************************************************************)
(* A fan-out for any source output, any number of reconcilers, crashes and *)
(* children: one child per item, a verdict that stays true, cancellations  *)
(* only for cause.                                                         *)
(***************************************************************************)
EXTENDS WorkflowForeach, TLAPS, FiniteSetTheorems

ChildStatuses == {"absent", "idle", "running"} \cup Terminal

ForeachTypes ==
  /\ fe.rollupPolicy \in Policies
  /\ source \in [status : {"running"} \cup Terminal, output : Outputs \cup {Malformed}]
  /\ parent \in {"idle", "running"} \cup Terminal
  /\ child \in [StableIds -> ChildStatuses]

(* Materialisation happens once, out of a source that is over: before it   *)
(* there is no child, after it the children are the plans of the output.   *)
FannedOut ==
  /\ parent = "idle" => Children = {}
  /\ parent = "running" => Children # {}
  /\ Children # {} => /\ source.status \in Terminal
                      /\ ~MaterializationFails(source.output)
                      /\ Children = ChildPlans(source.output)

ForeachInv == ForeachTypes /\ FannedOut /\ RollupIsFinal

-----------------------------------------------------------------------------
(* The output of a materialisation that does not fail.                     *)

LEMMA ItemsAreSequences ==
  ASSUME NEW output \in Outputs \cup {Malformed}, ~MaterializationFails(output)
  PROVE  /\ output \in Seq(DOMAIN Slug \cup {NoKey})
         /\ Len(output) \in Nat /\ Len(output) <= MaxFanout
         /\ DOMAIN output = 1 .. Len(output)
BY ForeachAssumption DEF MaterializationFails

LEMMA PlansAreStableIds ==
  ASSUME NEW output \in Outputs \cup {Malformed}, ~MaterializationFails(output)
  PROVE  ChildPlans(output) \subseteq StableIds
<1> SUFFICES ASSUME NEW i \in DOMAIN output PROVE stableId(output, i) \in StableIds
  BY DEF ChildPlans
<1>1. /\ output \in Seq(DOMAIN Slug \cup {NoKey})
      /\ i \in 1 .. Len(output) /\ i \in 1 .. MaxFanout
  BY ItemsAreSequences, ForeachAssumption
<1>2. output[i] \in DOMAIN Slug \cup {NoKey}
  BY <1>1
<1>3. stableId(output, i) # NoSlug
  BY DEF MaterializationFails
<1> QED
  BY <1>1, <1>2, <1>3, ForeachAssumption DEF stableId

(* No two items share a child, so there are as many children as items.     *)
LEMMA OnePlanPerItem ==
  ASSUME NEW output \in Outputs \cup {Malformed}, ~MaterializationFails(output)
  PROVE  Cardinality(ChildPlans(output)) = Len(output)
<1> DEFINE n == Len(output)
           f == [i \in 1 .. n |-> stableId(output, i)]
<1>1. n \in Nat /\ DOMAIN output = 1 .. n
  BY ItemsAreSequences
<1>2. \A i, j \in 1 .. n : f[i] = f[j] => i = j
  BY <1>1 DEF MaterializationFails, DuplicateItemKey
<1>3. f \in [1 .. n -> ChildPlans(output)] /\ \A c \in ChildPlans(output) : \E i \in 1 .. n : f[i] = c
  BY <1>1 DEF ChildPlans
<1>4. f \in Bijection(1 .. n, ChildPlans(output))
  BY <1>2, <1>3 DEF Bijection, Injection, Surjection, IsInjective
<1>5. ExistsBijection(1 .. n, ChildPlans(output))
  BY <1>4 DEF ExistsBijection
<1> HIDE DEF n, f
<1> QED
  BY <1>1, <1>5, FS_CountingElements DEF n

-----------------------------------------------------------------------------
(* The inductive invariant.                                                *)

LEMMA InitForeach == Init => ForeachInv
<1> SUFFICES ASSUME Init PROVE ForeachInv
  OBVIOUS
<1>1. ForeachTypes
  BY DEF Init, ForeachTypes, ChildStatuses
<1>2. Children = {}
  BY DEF Init, Children
<1> QED
  BY <1>1, <1>2 DEF Init, ForeachInv, FannedOut, RollupIsFinal

(* A step that leaves source and parent alone, brings no child into being  *)
(* and leaves the ended children as they ended.                            *)
SettledStay ==
  /\ child' \in [StableIds -> ChildStatuses]
  /\ \A c \in StableIds : (child'[c] = "absent") <=> (child[c] = "absent")
  /\ \A c \in StableIds : child[c] \in Terminal => child'[c] = child[c]

LEMMA SettledKeepInv ==
  ASSUME ForeachInv, SettledStay, UNCHANGED <<fe, source, parent>>
  PROVE  ForeachInv'
<1>1. Children' = Children
  BY DEF SettledStay, Children
<1>2. ForeachTypes'
  BY DEF ForeachInv, ForeachTypes, SettledStay
<1>3. FannedOut'
  BY <1>1 DEF ForeachInv, FannedOut, MaterializationFails, ChildPlans, stableId, DuplicateItemKey
<1>4. RollupIsFinal'
  <2>1. CASE parent \in {"succeeded", "failed"} /\ Children # {}
    <3>1. \A c \in Children : child[c] \in Terminal /\ child'[c] = child[c]
      BY <2>1 DEF ForeachInv, RollupIsFinal, SettledStay, Children
    <3> QED
      BY <1>1, <3>1 DEF ForeachInv, RollupIsFinal
  <2>2. CASE ~(parent \in {"succeeded", "failed"} /\ Children # {})
    BY <1>1, <2>2 DEF RollupIsFinal
  <2> QED
    BY <2>1, <2>2
<1> QED
  BY <1>2, <1>3, <1>4 DEF ForeachInv

(* The materialisation: of an idle parent and a source that succeeded.     *)
LEMMA MaterializeKeepsInv ==
  ASSUME ForeachInv, handleIdleParent, UNCHANGED <<fe, source>>
  PROVE  ForeachInv'
<1>1. Children = {} /\ \A c \in StableIds : child[c] = "absent"
  BY DEF handleIdleParent, ForeachInv, FannedOut, Children
<1>2. CASE UNCHANGED child /\ parent' \in {"idle", "failed", "skipped"}
  <2>1. Children' = {}
    BY <1>1, <1>2 DEF Children
  <2>2. ForeachTypes'
    BY <1>2 DEF ForeachInv, ForeachTypes, Terminal
  <2> QED
    BY <1>2, <2>1, <2>2 DEF ForeachInv, FannedOut, RollupIsFinal
<1>3. CASE /\ source.status = "succeeded" /\ ~MaterializationFails(source.output)
           /\ parent' = IF source.output = <<>> THEN "succeeded" ELSE "running"
           /\ child' = Materialized(ChildPlans(source.output))
  <2>1. /\ source.output \in Seq(DOMAIN Slug \cup {NoKey})
        /\ ChildPlans(source.output) \subseteq StableIds
    BY <1>3, ItemsAreSequences, PlansAreStableIds DEF ForeachInv, ForeachTypes
  <2>2. Children' = ChildPlans(source.output)
    BY <1>1, <1>3, <2>1 DEF Children, Materialized
  <2>3. source.output = <<>> <=> Children' = {}
    <3>1. CASE source.output = <<>>
      BY <2>2, <3>1 DEF ChildPlans
    <3>2. CASE source.output # <<>>
      <4>1. 1 \in DOMAIN source.output
        BY <2>1, <3>2
      <4> QED
        BY <2>2, <3>2, <4>1 DEF ChildPlans
    <3> QED
      BY <3>1, <3>2
  <2>4. ForeachTypes'
    BY <1>1, <1>3 DEF ForeachInv, ForeachTypes, Materialized, ChildStatuses, Terminal
  <2>5. FannedOut'
    BY <1>3, <2>2, <2>3 DEF FannedOut, Terminal, MaterializationFails, ChildPlans, stableId, DuplicateItemKey
  <2>6. RollupIsFinal'
    BY <1>3, <2>3 DEF RollupIsFinal
  <2> QED
    BY <2>4, <2>5, <2>6 DEF ForeachInv
<1>4. \/ UNCHANGED child /\ parent' \in {"idle", "failed", "skipped"}
      \/ /\ source.status = "succeeded" /\ ~MaterializationFails(source.output)
         /\ parent' = IF source.output = <<>> THEN "succeeded" ELSE "running"
         /\ child' = Materialized(ChildPlans(source.output))
  BY DEF handleIdleParent
<1> QED
  BY <1>2, <1>3, <1>4

(* The roll-up: the verdict is given when every child has ended, on the    *)
(* statuses they ended with; the cancellation spares the ended ones.       *)
LEMMA RollupKeepsInv ==
  ASSUME ForeachInv, handleRunningParent, UNCHANGED <<fe, source>>
  PROVE  ForeachInv'
<1>1. \A c \in StableIds : c \in Cancelled => child[c] \notin Terminal \cup {"absent"}
  BY DEF Cancelled, CancellableStatuses, Terminal
<1>2. SettledStay
  BY <1>1 DEF handleRunningParent, SettledStay, ForeachInv, ForeachTypes, ChildStatuses, Terminal
<1>3. Children' = Children /\ Children # {}
  BY <1>2 DEF handleRunningParent, ForeachInv, FannedOut, SettledStay, Children
<1>4. CASE AllTerminal
  <2>1. parent' = FinalStatus /\ FinalStatus \in {"succeeded", "failed"}
    BY <1>4 DEF handleRunningParent, FinalStatus
  <2>2. \A c \in Children : child'[c] = child[c] /\ child[c] \in Terminal
    BY <1>2, <1>4 DEF AllTerminal, SettledStay, Children
  <2>3. \A s \in {"succeeded", "failed"} : WithStatus(s) = {c \in Children : child[c] = s}
    BY DEF WithStatus, Children
  <2>4. (FinalStatus = "failed") <=>
          IF fe.rollupPolicy = "best_effort" THEN \A c \in Children : child[c] # "succeeded"
          ELSE \E c \in Children : child[c] = "failed"
    BY <2>3 DEF FinalStatus
  <2>5. RollupIsFinal'
    BY <1>3, <2>1, <2>2, <2>4 DEF RollupIsFinal
  <2>6. ForeachTypes' /\ FannedOut'
    BY <1>2, <1>3, <2>1 DEF ForeachInv, ForeachTypes, FannedOut, SettledStay, Terminal,
       MaterializationFails, ChildPlans, stableId, DuplicateItemKey
  <2> QED
    BY <2>5, <2>6 DEF ForeachInv
<1>5. CASE ~AllTerminal
  BY <1>2, <1>5, SettledKeepInv DEF handleRunningParent
<1> QED
  BY <1>4, <1>5

(* A cancel of the workflow ends what has not ended.                       *)
LEMMA CancelKeepsInv ==
  ASSUME ForeachInv, cancelWorkflow
  PROVE  ForeachInv'
<1>1. SettledStay
  BY DEF cancelWorkflow, Stopped, SettledStay, ForeachInv, ForeachTypes, ChildStatuses, Terminal
<1>2. Children' = Children
  BY <1>1 DEF SettledStay, Children
<1>3. /\ parent' \in Terminal /\ (parent \in Terminal => parent' = parent)
      /\ parent' \in {"succeeded", "failed"} => parent' = parent
      /\ source'.output = source.output /\ source'.status \in Terminal
  BY DEF cancelWorkflow, Stopped, ForeachInv, ForeachTypes, Terminal
<1>4. ForeachTypes'
  BY <1>1, <1>3 DEF cancelWorkflow, ForeachInv, ForeachTypes, SettledStay
<1>5. FannedOut'
  BY <1>2, <1>3 DEF ForeachInv, FannedOut, Terminal, MaterializationFails, ChildPlans,
     stableId, DuplicateItemKey
<1>6. RollupIsFinal'
  <2>1. CASE parent' \in {"succeeded", "failed"} /\ Children # {}
    <3>1. \A c \in Children : child[c] \in Terminal /\ child'[c] = child[c]
      BY <1>1, <1>3, <2>1 DEF ForeachInv, RollupIsFinal, SettledStay, Children
    <3> QED
      BY <1>2, <1>3, <2>1, <3>1 DEF cancelWorkflow, ForeachInv, RollupIsFinal
  <2>2. CASE ~(parent' \in {"succeeded", "failed"} /\ Children # {})
    BY <1>2, <2>2 DEF RollupIsFinal
  <2> QED
    BY <2>1, <2>2
<1> QED
  BY <1>4, <1>5, <1>6 DEF ForeachInv

(* The source ends while there are no children.                            *)
LEMMA SourceKeepsInv ==
  ASSUME ForeachInv, NEW status \in {"succeeded", "failed", "skipped"},
         NEW output \in Outputs, SourceEnds(status, output)
  PROVE  ForeachInv'
<1>1. Children = {} /\ Children' = {}
  BY DEF SourceEnds, ForeachInv, FannedOut, Children, Terminal
<1>2. ForeachTypes'
  BY DEF SourceEnds, ForeachInv, ForeachTypes, Terminal
<1> QED
  BY <1>1, <1>2 DEF SourceEnds, ForeachInv, FannedOut, RollupIsFinal

LEMMA NextForeach == ForeachInv /\ [Next]_vars => ForeachInv'
<1> SUFFICES ASSUME ForeachInv, [Next]_vars PROVE ForeachInv'
  OBVIOUS
<1>0. child \in [StableIds -> ChildStatuses]
  BY DEF ForeachInv, ForeachTypes
<1>1. CASE UNCHANGED <<fe, source, parent, child>>
  BY <1>0, <1>1, SettledKeepInv DEF SettledStay
<1>2. ASSUME NEW r \in Reconcilers, reconcileForeachParents(r) PROVE ForeachInv'
  <2>1. UNCHANGED <<fe, source>>
    BY <1>2 DEF reconcileForeachParents
  <2> QED
    BY <1>1, <1>2, <2>1, MaterializeKeepsInv, RollupKeepsInv DEF reconcileForeachParents
<1>3. ASSUME NEW r \in Reconcilers, PollChildren(r) PROVE ForeachInv'
  <2>1. SettledStay
    BY <1>0, <1>3 DEF PollChildren, SettledStay, ChildStatuses, Terminal
  <2> QED
    BY <1>3, <2>1, SettledKeepInv DEF PollChildren
<1>4. ASSUME NEW r \in Reconcilers, ClaimChildren(r) PROVE ForeachInv'
  <2>1. PICK batch \in SUBSET (WithStatus("idle") \cup Abandoned) :
          child' = [c \in StableIds |-> IF c \in batch THEN "running" ELSE child[c]]
    BY <1>4 DEF ClaimChildren
  <2>2. \A c \in batch : child[c] \in {"idle", "running"}
    BY <2>1 DEF WithStatus, Abandoned
  <2>3. SettledStay
    BY <1>0, <2>1, <2>2 DEF SettledStay, ChildStatuses, Terminal
  <2> QED
    BY <1>4, <2>3, SettledKeepInv DEF ClaimChildren
<1>5. ASSUME NEW r \in Reconcilers, RecordOutcomes(r) PROVE ForeachInv'
  <2>1. SettledStay
    BY <1>0, <1>5 DEF RecordOutcomes, SettledStay, ChildStatuses, Terminal
  <2> QED
    BY <1>5, <2>1, SettledKeepInv DEF RecordOutcomes
<1>6. ASSUME NEW r \in Reconcilers,
             \/ StartTick(r) \/ Crash(r) \/ StopRun(r) \/ CleanupDone(r)
             \/ FinalizeWorkflow(r) \/ Inactive(r)
             \/ \E c \in StableIds, ok \in BOOLEAN : DispatchChild(r, c, ok)
      PROVE  ForeachInv'
  BY <1>1, <1>6 DEF StartTick, Crash, StopRun, CleanupDone, FinalizeWorkflow, Inactive,
                    DispatchChild, rows
<1>7. CASE StopRun(User) \/ \E c \in StableIds, how \in {"completed", "failed"} : RunEnds(c, how)
  BY <1>1, <1>7 DEF StopRun, RunEnds
<1>8. CASE UNCHANGED vars
  BY <1>1, <1>8 DEF vars
<1> QED
  BY <1>2, <1>3, <1>4, <1>5, <1>6, <1>7, <1>8, CancelKeepsInv, SourceKeepsInv
     DEF Next, TickStep

LEMMA AlwaysForeach == Spec => []ForeachInv
<1> QED
  BY InitForeach, NextForeach, PTL DEF Spec

-----------------------------------------------------------------------------
(* What follows for the runs' properties.                                  *)

(* Every item of the source has exactly one child and there are no others, *)
(* through replays of the materialisation by racing and crashing ticks     *)
(* (materializeForeachChildren, handleIdleParent).                         *)
THEOREM FanOutIsExact == Spec => []OneChildPerItem
<1>1. ForeachInv => OneChildPerItem
  <2> SUFFICES ASSUME ForeachInv, Children # {}
               PROVE  /\ Children = ChildPlans(source.output)
                      /\ Cardinality(Children) = Len(source.output)
    BY DEF OneChildPerItem, ForeachInv, FannedOut
  <2> QED
    BY OnePlanPerItem DEF ForeachInv, ForeachTypes, FannedOut
<1> QED
  BY <1>1, AlwaysForeach, PTL

(* The verdict of a foreach parent is the one its policy gives for the     *)
(* statuses its children ended with, for ever (handleRunningParent).       *)
THEOREM VerdictStands == Spec => []RollupIsFinal
<1>1. ForeachInv => RollupIsFinal
  BY DEF ForeachInv
<1> QED
  BY <1>1, AlwaysForeach, PTL

(* A child is cancelled by a cancel of the workflow or after the failure   *)
(* of a sibling, as far as the policy goes: any_fails spares the running   *)
(* children and best_effort all of them (cancelForeachChildren).           *)
THEOREM CancellationsHaveCause == Spec => CancelledForCause
<1>1. ForeachInv /\ [Next]_vars =>
        \A c \in StableIds : child[c] # "cancelled" /\ child'[c] = "cancelled" =>
          \/ wf' = "cancelled"
          \/ /\ \E d \in StableIds : child[d] = "failed"
             /\ fe.rollupPolicy = "all_or_nothing"
                \/ (fe.rollupPolicy = "any_fails" /\ child[c] # "running")
  <2> SUFFICES ASSUME ForeachInv, [Next]_vars, NEW c \in StableIds,
                      child[c] # "cancelled", child'[c] = "cancelled", wf' # "cancelled"
               PROVE  /\ \E d \in StableIds : child[d] = "failed"
                      /\ fe.rollupPolicy = "all_or_nothing"
                         \/ (fe.rollupPolicy = "any_fails" /\ child[c] # "running")
    OBVIOUS
  <2>1. ASSUME NEW r \in Reconcilers, PollChildren(r) PROVE FALSE
    BY <2>1 DEF PollChildren
  <2>2. ASSUME NEW r \in Reconcilers, ClaimChildren(r) \/ RecordOutcomes(r) PROVE FALSE
    BY <2>2 DEF ClaimChildren, RecordOutcomes
  <2>3. child' # child
    OBVIOUS
  <2>4. PICK r \in Reconcilers : reconcileForeachParents(r)
    BY <2>1, <2>2, <2>3 DEF Next, TickStep, StartTick, Crash, StopRun, CleanupDone,
       DispatchChild, FinalizeWorkflow, Inactive, SourceEnds, RunEnds, cancelWorkflow, rows, vars
  <2>5. ~handleIdleParent
    BY DEF handleIdleParent, Materialized
  <2>6. handleRunningParent
    BY <2>3, <2>4, <2>5 DEF reconcileForeachParents
  <2>7. c \in Cancelled
    BY <2>6 DEF handleRunningParent
  <2> QED
    BY <2>7 DEF Cancelled, CancellableStatuses, WithStatus
<1> QED
  BY <1>1, AlwaysForeach, PTL DEF Spec, CancelledForCause
=============================================================================
