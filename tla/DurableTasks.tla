----------------------------- MODULE DurableTasks -----------------------------
(***************************************************************************)
(* What the workflow engine promises, without saying how: a set of tasks   *)
(* with dependency edges is worked off under one life cycle.  There are no *)
(* reconcilers, leases, transactions, polls or crashes here.  One step may *)
(* move any number of tasks, and each of them only in a permitted way.     *)
(* WorkflowRefinement shows that the engine implements this specification. *)
(***************************************************************************)
EXTENDS Naturals, TLAPS

CONSTANTS
  Tasks,
  Edges,       \* dependency edges [task, on, outcome]
  Required,    \* the workflow cannot complete without these tasks' success
  Blocking,    \* tasks whose failure may fail the workflow
  Waivable,    \* tasks a reviewer may waive
  Rationed,    \* tasks whose number of tries is limited ...
  Ration       \* ... and the limit of each

VARIABLES
  life,   \* status of the whole
  state,  \* state of each task
  tries   \* how often each task was started

vars == <<life, state, tries>>

Ended == {"succeeded", "failed", "skipped", "cancelled"}

States == {"todo", "doing"} \cup Ended

Over == {"completed", "failed", "cancelled"}

TypeOK ==
  /\ life \in {"draft", "active", "paused"} \cup Over
  /\ state \in [Tasks -> States]
  /\ tries \in [Tasks -> Nat]

Accepted(outcome) ==
  CASE outcome = "success" -> {"succeeded"}
    [] outcome = "skipped" -> {"succeeded", "skipped"}
    [] outcome = "failed"  -> {"failed"}

Satisfied(e) == state[e.on] \in Accepted(e.outcome)

Hopeless(e) == state[e.on] \in Ended \ Accepted(e.outcome)

EdgesOf(t) == {e \in Edges : e.task = t}

-----------------------------------------------------------------------------
(* What may happen to a task.                                              *)

Keep(t) == UNCHANGED <<state[t], tries[t]>>

(* A task is started when what it waits for came out as demanded, while    *)
(* the workflow lives, and within its ration.  A task that is not rationed *)
(* may be started over.                                                    *)
Start(t) ==
  /\ life \in {"active", "paused"}
  /\ \A e \in EdgesOf(t) : Satisfied(e)
  /\ state[t] = "todo" \/ (state[t] = "doing" /\ t \notin Rationed)
  /\ t \in Rationed => tries[t] < Ration[t]
  /\ state'[t] = "doing" /\ tries'[t] = tries[t] + 1

(* A rationed task is put back only if it has a try left.                  *)
PutBack(t) ==
  /\ state[t] = "doing"
  /\ t \in Rationed => tries[t] < Ration[t]
  /\ state'[t] = "todo" /\ tries'[t] = tries[t]

Settle(t) ==
  /\ state[t] = "doing"
  /\ state'[t] \in {"succeeded", "failed"} /\ tries'[t] = tries[t]

Skip(t) ==
  /\ state[t] \in {"todo", "doing"}
  /\ t \in Waivable \/ \E e \in EdgesOf(t) : Hopeless(e)'
  /\ state'[t] = "skipped" /\ tries'[t] = tries[t]

Cancel(t) ==
  /\ state[t] \in {"todo", "doing"}
  /\ life' = "cancelled"
  /\ state'[t] = "cancelled" /\ tries'[t] = tries[t]

Move(t) == Keep(t) \/ Start(t) \/ PutBack(t) \/ Settle(t) \/ Skip(t) \/ Cancel(t)

-----------------------------------------------------------------------------
(* What may happen to the whole.                                           *)

Follows(now) ==
  CASE now = "draft"  -> {"active"}
    [] now = "active" -> {"paused", "completed", "failed", "cancelled"}
    [] now = "paused" -> {"active", "cancelled"}
    [] OTHER -> {}

Finish == \A t \in Tasks : state'[t] \in Ended

LifeMove ==
  \/ life' = life
  \/ /\ life' \in Follows(life)
     /\ life' \in {"completed", "cancelled"} => Finish
     /\ life' = "completed" =>
          \A t \in Required \cap Blocking : state'[t] # "failed"
     /\ life' = "failed" => \E t \in Blocking : state'[t] = "failed"

Init ==
  /\ life = "draft"
  /\ state = [t \in Tasks |-> "todo"]
  /\ tries = [t \in Tasks |-> 0]

Next ==
  /\ LifeMove
  /\ \A t \in Tasks : Move(t)
  /\ state' \in [Tasks -> States] /\ tries' \in [Tasks -> Nat]

Spec == Init /\ [][Next]_vars

-----------------------------------------------------------------------------
(* What follows.                                                           *)

(* A task that was ever started had its edges satisfied, and still has.    *)
StartedAfterUpstream ==
  \A t \in Tasks : tries[t] # 0 => \A e \in EdgesOf(t) : Satisfied(e)

(* A skipped task was waived, or waits for what will never come.           *)
SkippedWithReason ==
  \A t \in Tasks : state[t] = "skipped" =>
    t \in Waivable \/ \E e \in EdgesOf(t) : Hopeless(e)

(* Nothing is left to do in a completed or cancelled workflow.             *)
NothingLeft ==
  life \in {"completed", "cancelled"} => \A t \in Tasks : state[t] \in Ended

(* The end is the one the tasks earned.                                    *)
EarnedEnd ==
  /\ life = "completed" => \A t \in Required \cap Blocking : state[t] # "failed"
  /\ life = "failed" => \E t \in Blocking : state[t] = "failed"

Promises ==
  StartedAfterUpstream /\ SkippedWithReason /\ NothingLeft /\ EarnedEnd

(* The constants describe a graph of tasks.                                *)
Graph ==
  /\ Edges \subseteq [task : Tasks, on : Tasks, outcome : {"success", "skipped", "failed"}]
  /\ Required \subseteq Tasks /\ Blocking \subseteq Tasks

-----------------------------------------------------------------------------
(* A task that ended keeps its state, whatever the step.                   *)
LEMMA EndedStays ==
  ASSUME [Next]_vars, NEW t \in Tasks, state[t] \in Ended
  PROVE  state'[t] = state[t] /\ tries'[t] = tries[t]
<1>1. CASE Next
  <2>1. Move(t)
    BY <1>1 DEF Next
  <2> QED
    BY <2>1 DEF Move, Keep, Start, PutBack, Settle, Skip, Cancel, Ended
<1>2. CASE UNCHANGED vars
  BY <1>2 DEF vars
<1> QED
  BY <1>1, <1>2

(* So an edge that is satisfied, or hopeless, stays so.                    *)
LEMMA EdgesDecided ==
  ASSUME Graph, [Next]_vars, NEW e \in Edges
  PROVE  /\ Satisfied(e) => Satisfied(e)'
         /\ Hopeless(e) => Hopeless(e)'
<1>1. e.on \in Tasks /\ e.outcome \in {"success", "skipped", "failed"}
  BY DEF Graph
<1>2. Accepted(e.outcome) \subseteq Ended
  BY <1>1 DEF Accepted, Ended
<1>3. state[e.on] \in Ended => state'[e.on] = state[e.on]
  BY <1>1, EndedStays
<1> QED
  BY <1>2, <1>3 DEF Satisfied, Hopeless

(* The promises hold at the start ...                                      *)
LEMMA InitPromises == Init => TypeOK /\ Promises
BY DEF Init, TypeOK, States, Promises, StartedAfterUpstream, SkippedWithReason,
       NothingLeft, EarnedEnd

(* ... and no step breaks them.                                            *)
LEMMA NextPromises ==
  ASSUME Graph, TypeOK, Promises, [Next]_vars
  PROVE  TypeOK' /\ Promises'
<1>1. CASE UNCHANGED vars
  BY <1>1 DEF vars, TypeOK, Promises, StartedAfterUpstream, SkippedWithReason,
              NothingLeft, EarnedEnd, Satisfied, Hopeless
<1>2. CASE Next
  <2>1. TypeOK'
    <3>1. LifeMove
      BY <1>2 DEF Next
    <3>2. life' \in {"draft", "active", "paused"} \cup Over
      BY <3>1 DEF LifeMove, Follows, Over, TypeOK
    <3> QED
      BY <1>2, <3>2 DEF Next, TypeOK
  <2>2. StartedAfterUpstream'
    <3> SUFFICES ASSUME NEW t \in Tasks, tries'[t] # 0, NEW e \in EdgesOf(t)
                 PROVE  Satisfied(e)'
      BY DEF StartedAfterUpstream
    <3>1. e \in Edges
      BY DEF EdgesOf
    <3>2. Move(t)
      BY <1>2 DEF Next
    <3>3. CASE Start(t)
      BY <1>2, <3>1, <3>3, EdgesDecided DEF Start
    <3>4. CASE tries'[t] = tries[t]
      BY <1>2, <3>1, <3>4, EdgesDecided DEF Promises, StartedAfterUpstream
    <3> QED
      BY <3>2, <3>3, <3>4 DEF Move, Keep, PutBack, Settle, Skip, Cancel
  <2>3. SkippedWithReason'
    <3> SUFFICES ASSUME NEW t \in Tasks, state'[t] = "skipped"
                 PROVE  t \in Waivable \/ \E e \in EdgesOf(t) : Hopeless(e)'
      BY DEF SkippedWithReason
    <3>1. Move(t)
      BY <1>2 DEF Next
    <3>2. CASE Skip(t)
      BY <3>2 DEF Skip
    <3>3. CASE state[t] = "skipped"
      <4>1. t \in Waivable \/ \E e \in EdgesOf(t) : Hopeless(e)
        BY <3>3 DEF Promises, SkippedWithReason
      <4> QED
        BY <1>2, <4>1, EdgesDecided DEF EdgesOf
    <3> QED
      BY <3>1, <3>2, <3>3 DEF Move, Keep, Start, PutBack, Settle, Cancel
  <2>4. NothingLeft'
    <3>1. LifeMove
      BY <1>2 DEF Next
    <3>2. \A t \in Tasks : state[t] \in Ended => state'[t] = state[t]
      BY <1>2, EndedStays
    <3> QED
      BY <3>1, <3>2 DEF LifeMove, Finish, NothingLeft, Promises
  <2>5. EarnedEnd'
    <3>1. LifeMove
      BY <1>2 DEF Next
    <3>2. \A t \in Tasks : state[t] \in Ended => state'[t] = state[t]
      BY <1>2, EndedStays
    <3>3. CASE life' = "completed"
      BY <3>1, <3>2, <3>3 DEF LifeMove, EarnedEnd, NothingLeft, Promises, Graph
    <3>4. CASE life' = "failed"
      BY <3>1, <3>2, <3>4 DEF LifeMove, EarnedEnd, Promises, Graph, Ended
    <3> QED
      BY <3>3, <3>4 DEF EarnedEnd
  <2> QED
    BY <2>1, <2>2, <2>3, <2>4, <2>5 DEF Promises
<1> QED
  BY <1>1, <1>2

(* Every behaviour of the abstract specification keeps its promises, which *)
(* are what reconcileWorkflow and cancelWorkflow owe the people who wait   *)
(* for the workflow.                                                       *)
THEOREM PromisesKept == Graph => (Spec => []Promises)
<1> SUFFICES ASSUME Graph PROVE Spec => []Promises
  OBVIOUS
<1>1. Init => TypeOK /\ Promises
  BY InitPromises
<1>2. TypeOK /\ Promises /\ [Next]_vars => (TypeOK /\ Promises)'
  BY NextPromises
<1> QED
  BY <1>1, <1>2, PTL DEF Spec
=============================================================================
