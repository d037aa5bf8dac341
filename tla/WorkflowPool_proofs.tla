-------------------------- MODULE WorkflowPool_proofs --------------------------
(***************************************************************************)
(* What it takes to lock the pool up, for any number of callers, workflows *)
(* and connections.  A caller that reads or works can always go on, so if  *)
(* nobody can go on nobody holds a second connection.  Were one free, only *)
(* waiters for locks would be left, and no lock would be held.  So all are *)
(* out, as first connections: as many as there are open transactions,      *)
(* because the pool never hands out more than it has.  Whoever waits for a *)
(* lock waits for its holder, and the only holders left are in loadGraph.  *)
(***************************************************************************)
EXTENDS WorkflowPool, TLAPS, FiniteSetTheorems

(* The sets of callers at given points are finite and count to naturals.   *)
LEMMA AtFinite ==
  ASSUME NEW points
  PROVE  /\ IsFiniteSet(At(points))
         /\ Cardinality(At(points)) \in Nat
         /\ Cardinality(At(points)) <= Cardinality(Callers)
<1>1. At(points) \subseteq Callers
  BY DEF At
<1> QED
  BY <1>1, PoolAssumption, FS_Subset, FS_CardinalityType

(* The points of every caller, workflow and phase stay within their types. *)
LEMMA PoolTyped == Spec => []TypeOK
<1>1. Init => TypeOK
  BY DEF Init, TypeOK, Points
<1>2. TypeOK /\ [Next]_vars => TypeOK'
  <2> SUFFICES ASSUME TypeOK, [Next]_vars PROVE TypeOK'
    OBVIOUS
  <2> USE DEF TypeOK, Points
  <2>1. CASE UNCHANGED vars
    BY <2>1 DEF vars
  <2>2. CASE Next
    <3>1. PICK c \in Callers :
             \/ \E w \in Workflows, graph \in BOOLEAN : Transaction(c, w, graph)
             \/ Proceed(c)
      BY <2>2 DEF Next
    <3>2. CASE \E w \in Workflows, graph \in BOOLEAN : Transaction(c, w, graph)
      BY <3>1, <3>2 DEF Transaction, Moves
    <3>3. CASE Proceed(c)
      BY <3>1, <3>3 DEF Proceed, Connect, Lock, ConnectAgain, Selected, Commit, Moves
    <3> QED BY <3>1, <3>2, <3>3
  <2> QED BY <2>1, <2>2
<1> QED BY <1>1, <1>2, PTL DEF Spec

-----------------------------------------------------------------------------
(* Where everyone stands after c has moved, for the points of one set.     *)
LEMMA MovedAt ==
  ASSUME TypeOK, NEW c \in Callers, NEW from, NEW to, Moves(c, from, to), NEW points
  PROVE  /\ from \notin points /\ to \in points =>
              Cardinality(At(points)') = Cardinality(At(points)) + 1
         /\ from \in points /\ to \notin points =>
              Cardinality(At(points)') = Cardinality(At(points)) - 1
         /\ (from \in points <=> to \in points) =>
              Cardinality(At(points)') = Cardinality(At(points))
<1>1. /\ at[c] = from /\ at'[c] = to
      /\ \A d \in Callers \ {c} : at'[d] = at[d]
  BY DEF Moves, TypeOK
<1>2. IsFiniteSet(At(points)) /\ Cardinality(At(points)) \in Nat
  BY AtFinite
<1>3. CASE from \notin points /\ to \in points
  <2>1. At(points)' = At(points) \cup {c} /\ c \notin At(points)
    BY <1>1, <1>3 DEF At
  <2> QED BY <1>2, <1>3, <2>1, FS_AddElement
<1>4. CASE from \in points /\ to \notin points
  <2>1. At(points)' = At(points) \ {c} /\ c \in At(points)
    BY <1>1, <1>4 DEF At
  <2> QED BY <1>2, <1>4, <2>1, FS_RemoveElement
<1>5. CASE from \in points <=> to \in points
  <2>1. At(points)' = At(points)
    BY <1>1, <1>5 DEF At
  <2> QED BY <1>5, <2>1
<1> QED BY <1>3, <1>4, <1>5

(* The pool never hands out more connections than it has: they are counted *)
(* when a transaction begins and when one of its selects does (db.ts).     *)
Bounded == Held <= PoolMax

LEMMA PoolBounded == Spec => []Bounded
<1>1. Init => Bounded
  <2> SUFFICES ASSUME Init PROVE Bounded
    OBVIOUS
  <2>1. At(InTransaction) = {} /\ At({"reading"}) = {}
    BY DEF Init, At, InTransaction
  <2> QED
    BY <2>1, FS_EmptySet, PoolAssumption DEF Bounded, Held
<1>2. TypeOK /\ Bounded /\ [Next]_vars => Bounded'
  <2> SUFFICES ASSUME TypeOK, Bounded, [Next]_vars PROVE Bounded'
    OBVIOUS
  <2>1. /\ Cardinality(At(InTransaction)) \in Nat /\ Cardinality(At({"reading"})) \in Nat
        /\ PoolMax \in Nat
    BY AtFinite, PoolAssumption
  <2>2. CASE UNCHANGED vars
    BY <2>2 DEF vars, Bounded, Held, At
  <2>3. CASE Next
    <3>1. PICK c \in Callers :
             \/ \E w \in Workflows, graph \in BOOLEAN : Transaction(c, w, graph)
             \/ Proceed(c)
      BY <2>3 DEF Next
    <3>2. CASE \E w \in Workflows, graph \in BOOLEAN : Transaction(c, w, graph)
      <4>1. Moves(c, "out", "begin")
        BY <3>2 DEF Transaction
      <4>2. /\ Cardinality(At(InTransaction)') = Cardinality(At(InTransaction))
            /\ Cardinality(At({"reading"})') = Cardinality(At({"reading"}))
        BY <4>1, MovedAt DEF InTransaction
      <4> QED BY <4>2 DEF Bounded, Held
    <3>3. CASE Connect(c)
      <4>1. Moves(c, "begin", "lock") /\ Free
        BY <3>3 DEF Connect
      <4>2. /\ Cardinality(At(InTransaction)') = Cardinality(At(InTransaction)) + 1
            /\ Cardinality(At({"reading"})') = Cardinality(At({"reading"}))
        BY <4>1, MovedAt DEF InTransaction
      <4> QED BY <2>1, <4>1, <4>2 DEF Bounded, Held, Free
    <3>4. CASE Lock(c)
      <4>1. Moves(c, "lock", "graph") \/ Moves(c, "lock", "work")
        BY <3>4 DEF Lock
      <4>2. /\ Cardinality(At(InTransaction)') = Cardinality(At(InTransaction))
            /\ Cardinality(At({"reading"})') = Cardinality(At({"reading"}))
        BY <4>1, MovedAt DEF InTransaction
      <4> QED BY <4>2 DEF Bounded, Held
    <3>5. CASE ConnectAgain(c)
      <4>1. Moves(c, "graph", "reading") /\ Free
        BY <3>5 DEF ConnectAgain
      <4>2. /\ Cardinality(At(InTransaction)') = Cardinality(At(InTransaction))
            /\ Cardinality(At({"reading"})') = Cardinality(At({"reading"})) + 1
        BY <4>1, MovedAt DEF InTransaction
      <4> QED BY <2>1, <4>1, <4>2 DEF Bounded, Held, Free
    <3>6. CASE Selected(c)
      <4>1. Moves(c, "reading", "graph") \/ Moves(c, "reading", "work")
        BY <3>6 DEF Selected
      <4>2. /\ Cardinality(At(InTransaction)') = Cardinality(At(InTransaction))
            /\ Cardinality(At({"reading"})') = Cardinality(At({"reading"})) - 1
        BY <4>1, MovedAt DEF InTransaction
      <4> QED BY <2>1, <4>2 DEF Bounded, Held
    <3>7. CASE Commit(c)
      <4>1. Moves(c, "work", "out")
        BY <3>7 DEF Commit
      <4>2. /\ Cardinality(At(InTransaction)') = Cardinality(At(InTransaction)) - 1
            /\ Cardinality(At({"reading"})') = Cardinality(At({"reading"}))
        BY <4>1, MovedAt DEF InTransaction
      <4> QED BY <2>1, <4>2 DEF Bounded, Held
    <3> QED BY <3>1, <3>2, <3>3, <3>4, <3>5, <3>6, <3>7 DEF Proceed
  <2> QED BY <2>2, <2>3
<1> QED BY <1>1, <1>2, PoolTyped, PTL DEF Spec

-----------------------------------------------------------------------------
(* The pool locks up only when as many transactions are open as it has     *)
(* connections, each of them inside loadGraph or behind one of its own     *)
(* workflow that is: however many callers there are, nothing but           *)
(* loadGraph's use of the pool from within a transaction can stop them all *)
(* (reconciler.ts, loadGraph).                                             *)
THEOREM LockUpNeedsLoadGraph == Spec => []LockUpIsLoadGraph
<1>1. TypeOK /\ Bounded => LockUpIsLoadGraph
  <2> SUFFICES ASSUME TypeOK, Bounded, LockedUp
               PROVE  /\ Cardinality(At(InTransaction)) = PoolMax
                      /\ \A c \in At(InTransaction) : \E d \in At({"graph"}) : of[d] = of[c]
    BY DEF LockUpIsLoadGraph
  <2>1. \A d \in Callers : at[d] \in {"out", "begin", "lock", "graph"}
    BY DEF LockedUp, CanProceed, At, Points, TypeOK
  <2>2. \A d \in Callers : at[d] = "lock" => ~LockFree(of[d])
    BY DEF LockedUp, CanProceed, At, Points
  <2>3. \A d \in Callers : at[d] = "lock" => \E e \in At({"graph"}) : of[e] = of[d]
    BY <2>1, <2>2 DEF LockFree, At, InLock
  <2>4. ~Free
    <3> SUFFICES ASSUME Free PROVE FALSE
      OBVIOUS
    <3>1. \A d \in Callers : at[d] \in {"out", "lock"}
      BY <2>1 DEF LockedUp, CanProceed, At, Points
    <3>2. \A d \in Callers : at[d] = "out"
      BY <2>3, <3>1 DEF At
    <3> QED
      BY <3>2 DEF LockedUp, At, Points
  <2>5. Cardinality(At({"reading"})) = 0
    <3>1. At({"reading"}) = {}
      BY <2>1 DEF At
    <3> QED BY <3>1, FS_EmptySet
  <2>6. Cardinality(At(InTransaction)) = PoolMax
    <3>1. Cardinality(At(InTransaction)) \in Nat /\ PoolMax \in Nat
      BY AtFinite, PoolAssumption
    <3> QED BY <2>4, <2>5, <3>1 DEF Free, Bounded, Held
  <2>7. ASSUME NEW c \in At(InTransaction) PROVE \E d \in At({"graph"}) : of[d] = of[c]
    BY <2>1, <2>3 DEF At, InTransaction
  <2> QED BY <2>6, <2>7
<1> QED BY <1>1, PoolTyped, PoolBounded, PTL
=============================================================================
