----------------------------- MODULE WorkflowPool -----------------------------
(***************************************************************************)
(* The connection pool of @cinatra-ai/workflows (db.ts) under concurrent   *)
(* reconciles.  Every phase of reconcileWorkflow is a transaction that     *)
(* checks a connection out, takes the workflow's advisory lock with it     *)
(* and, in five of the phases, calls loadGraph, whose selects go through   *)
(* the pool and so need a second connection while the first and the lock   *)
(* are held.  node-postgres waits for a free connection without a timeout  *)
(* (no connectionTimeoutMillis), Postgres for the lock without one.        *)
(***************************************************************************)
EXTENDS Naturals, FiniteSets

CONSTANTS
  Callers,    \* concurrent calls: the worker, markManualDone, cancelWorkflow...
  Workflows,
  PoolMax     \* max of the pool, 10 unless configured

ASSUME PoolAssumption ==
  /\ IsFiniteSet(Callers)
  /\ PoolMax \in Nat \ {0}

VARIABLES
  at,      \* where each caller is
  of,      \* the workflow its transaction is about
  loads    \* whether the phase calls loadGraph inside its transaction
vars == <<at, of, loads>>

(* out: between transactions, no connection                                *)
(* begin: waits for the connection of its transaction                      *)
(* lock: has it, waits for the advisory lock                               *)
(* graph: has the lock, waits for the connection of a loadGraph select     *)
(* reading: has both connections                                           *)
(* work: has the lock, writes with its own connection                      *)
Points == {"out", "begin", "lock", "graph", "reading", "work"}

InTransaction == {"lock", "graph", "reading", "work"}
InLock == {"graph", "reading", "work"}

At(points) == {c \in Callers : at[c] \in points}

Held == Cardinality(At(InTransaction)) + Cardinality(At({"reading"}))
FreeOneReserved == Held + 1 < PoolMax
Free == Held < PoolMax

LockFree(w) == \A c \in At(InLock) : of[c] # w

TypeOK ==
  /\ at \in [Callers -> Points]
  /\ of \in [Callers -> Workflows]
  /\ loads \in [Callers -> BOOLEAN]

Init ==
  /\ at = [c \in Callers |-> "out"]
  /\ of \in [Callers -> Workflows]
  /\ loads = [c \in Callers |-> FALSE]

Moves(c, from, to) ==
  /\ at[c] = from
  /\ at' = [at EXCEPT ![c] = to]

(* db.transaction(...) is called.                                          *)
Transaction(c, w, graph) ==
  /\ Moves(c, "out", "begin")
  /\ of' = [of EXCEPT ![c] = w]
  /\ loads' = [loads EXCEPT ![c] = graph]

Connect(c) == Free /\ Moves(c, "begin", "lock") /\ UNCHANGED <<of, loads>>

(* pg_advisory_xact_lock, then the read of the workflow: loadGraph is only *)
(* called for an active workflow.                                          *)
Lock(c) ==
  /\ LockFree(of[c])
  /\ \/ loads[c] /\ Moves(c, "lock", "graph")
     \/ Moves(c, "lock", "work")
  /\ UNCHANGED <<of, loads>>

ConnectAgain(c) == Free /\ Moves(c, "graph", "reading") /\ UNCHANGED <<of, loads>>

(* One select of loadGraph returns and gives its connection back: tasks,   *)
(* then dependencies, then approvals, each with a connection of its own.   *)
Selected(c) ==
  /\ Moves(c, "reading", "graph") \/ Moves(c, "reading", "work")
  /\ UNCHANGED <<of, loads>>

CommitRetries(c) == Moves(c, "work", "begin") /\ UNCHANGED <<of, loads>>

(* COMMIT or ROLLBACK releases the lock and the connection.                *)
Commit(c) == Moves(c, "work", "out") /\ UNCHANGED <<of, loads>>

Proceed(c) == Connect(c) \/ Lock(c) \/ ConnectAgain(c) \/ Selected(c) \/ Commit(c)

Next ==
  \E c \in Callers :
    \/ \E w \in Workflows, graph \in BOOLEAN : Transaction(c, w, graph)
    \/ Proceed(c)

Spec == Init /\ [][Next]_vars

(* Pool and lock queues are first come first served; statements return.    *)
Fairness ==
  \A c \in Callers :
    /\ SF_vars(Connect(c)) /\ SF_vars(Lock(c)) /\ SF_vars(ConnectAgain(c))
    /\ WF_vars(Commit(c)) /\ SF_vars(Moves(c, "reading", "work") /\ UNCHANGED <<of, loads>>)

FairSpec == Spec /\ Fairness
-----------------------------------------------------------------------------
(* What a caller in the middle of a transaction waits for is there.        *)
CanProceed(c) ==
  CASE at[c] \in {"begin", "graph"} -> Free
    [] at[c] = "lock" -> LockFree(of[c])
    [] OTHER -> TRUE

(* Every transaction under way waits, and what it waits for will not come. *)
LockedUp ==
  /\ At(Points \ {"out"}) # {}
  /\ \A c \in At(Points \ {"out"}) : ~CanProceed(c)

(* What it takes to lock the pool up, with any number of callers: the pool *)
(* is used up by first connections alone, and each of their transactions   *)
(* is inside loadGraph or behind one of its own workflow that is.  No      *)
(* shortage of connections alone, no advisory lock and no reader can do    *)
(* it, so a loadGraph on its transaction's own connection could not.       *)
LockUpIsLoadGraph ==
  LockedUp =>
    /\ Cardinality(At(InTransaction)) = PoolMax
    /\ \A c \in At(InTransaction) : \E d \in At({"graph"}) : of[d] = of[c]

(* A transaction that was asked for comes to an end, unless everyone comes *)
(* to wait for everyone: nobody is left behind while others go on, neither *)
(* in the queue for a connection nor in the one for a lock.                *)
TurnsUnlessLockedUp ==
  \A c \in Callers : (at[c] = "begin" ~> at[c] = "out" \/ LockedUp)

(* "The per-workflow advisory lock inside reconcileWorkflow serializes     *)
(* concurrent workers" (reconcileDueWorkflows): workers that meet take     *)
(* turns, so each of their transactions comes to an end.                   *)
WorkersTakeTurns == \A c \in Callers : (at[c] = "begin" ~> at[c] = "out")
=============================================================================
