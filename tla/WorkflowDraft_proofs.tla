------------------------- MODULE WorkflowDraft_proofs -------------------------
(***************************************************************************)
(* Plans that several people edit while they run, for every plan, any set  *)
(* of edits and any number of editors: no edit is lost, the dates on the   *)
(* rows are the ones the plan asks for, what is frozen does not move, the  *)
(* critical path is exactly what delays the plan, and saving a release     *)
(* date does what its preview showed.                                      *)
(*                                                                         *)
(* The first needs nothing about dates: it is about who may write the rows *)
(* between a read and the compare-and-swap that follows it.  The others    *)
(* rest on what the two passes of resolveSchedule and the two of           *)
(* computeCriticalPath compute.  Both are recursive functions over graphs  *)
(* the validator keeps free of cycles; that such a recursion has a value   *)
(* at all is EquationsHaveSolution.                                        *)
(***************************************************************************)
EXTENDS WorkflowDraft, TLAPS, FiniteSetTheorems

(* 1. No edit is lost.                                                     *)

\* What is read of a row that other steps write.
TypeOK ==
    /\ wf = [status |-> wf.status, lock |-> wf.lock, specVersion |-> wf.specVersion,
             target |-> wf.target]
    /\ wf.lock \in Nat
    /\ wf.specVersion \in Nat
    /\ page \in [Editors -> Nat]
    /\ req = [e \in Editors |-> req[e]]

\* A version somebody holds is not ahead of the row.
VersionsBehind ==
    \A e \in Editors :
        /\ page[e] <= wf.lock
        /\ req[e].step \in {"read", "commit"} => req[e].expect \in Nat /\ req[e].expect <= wf.lock

\* The specification is what the edit makes of the rows as they are.
Computed(op, spec) ==
    /\ Accepts(op, reconstructSpec) /\ Editable(op)
    /\ spec = Patch(op, reconstructSpec)

\* While the version an edit expects is current and the engine is not running
\* the workflow, the rows are still the ones the edit was computed from.
EditFresh(e) ==
    req[e].step = "commit" /\ req[e].expect = wf.lock /\ wf.status # "active" =>
        Computed(req[e].op, req[e].spec)

DraftInv == TypeOK /\ VersionsBehind /\ \A e \in Editors : EditFresh(e)

(* Nothing is in flight when a workflow is created.                        *)
LEMMA InitDraft == Init => DraftInv
BY DEF Init, DraftInv, TypeOK, VersionsBehind, EditFresh, NoReq

(* What Patched leaves to commit was computed from the rows as they are.   *)
LEMMA PatchedFresh ==
    ASSUME NEW op, NEW expect, NEW shown
    PROVE  LET r == Patched(op, expect, shown)
           IN  \/ r.step = "none"
               \/ /\ r.step = "commit" /\ r.op = op /\ r.expect = expect
                  /\ Computed(op, r.spec)
<1> DEFINE spec == Patch(op, reconstructSpec)
<1>1. CASE Accepts(op, reconstructSpec) /\ Editable(op) /\ validateTemplate(spec)
  <2>1. Patched(op, expect, shown)
          = [step |-> "commit", op |-> op, expect |-> expect, spec |-> spec, shown |-> shown]
    BY <1>1, Zenon DEF Patched
  <2> QED
    BY <1>1, <2>1 DEF Computed
<1>2. CASE ~(Accepts(op, reconstructSpec) /\ Editable(op) /\ validateTemplate(spec))
  <2>1. Patched(op, expect, shown) = NoReq
    BY <1>2, Zenon DEF Patched
  <2> QED
    BY <2>1 DEF NoReq
<1> QED
  BY <1>1, <1>2

(* An editor reads, is shown or gives up something: one request changes,   *)
(* and what it is ready to commit is fresh.                                *)
LEMMA ReadKeepsDraft ==
    ASSUME DraftInv, UNCHANGED <<wf, row>>, page' \in [Editors -> Nat],
           \A d \in Editors : page'[d] <= wf.lock,
           NEW e \in Editors, NEW r, req' = [req EXCEPT ![e] = r],
           r.step \in {"read", "commit"} => r.expect \in Nat /\ r.expect <= wf.lock,
           r.step = "commit" => Computed(r.op, r.spec)
    PROVE  DraftInv'
<1>1. req'[e] = r /\ \A d \in Editors \ {e} : req'[d] = req[d]
  BY DEF DraftInv, TypeOK
<1>2. req' = [d \in Editors |-> req'[d]]
  BY DEF DraftInv, TypeOK
<1>3. TypeOK'
  BY <1>2 DEF DraftInv, TypeOK
<1>4. VersionsBehind'
  BY <1>1 DEF DraftInv, VersionsBehind
<1>5. ASSUME NEW d \in Editors PROVE EditFresh(d)'
  <2>1. CASE d = e
    BY <1>1, <2>1 DEF EditFresh, Computed, Editable, isFrozen, reconstructSpec
  <2>2. CASE d # e
    BY <1>1, <2>2 DEF DraftInv, EditFresh, Computed, Editable, isFrozen, reconstructSpec
  <2> QED
    BY <2>1, <2>2
<1> QED
  BY <1>3, <1>4, <1>5 DEF DraftInv

(* The version moves on: no edit in flight expects the new one.            *)
LEMMA VersionMovesOn ==
    ASSUME DraftInv, TypeOK', wf'.lock = wf.lock + 1,
           \A e \in Editors : page'[e] <= wf'.lock,
           \A e \in Editors : req'[e] = req[e] \/ req'[e] = NoReq
    PROVE  DraftInv'
<1>1. ASSUME NEW e \in Editors, req'[e].step \in {"read", "commit"}
      PROVE  req'[e].expect \in Nat /\ req'[e].expect <= wf.lock
  BY <1>1 DEF DraftInv, VersionsBehind, NoReq
<1>2. wf.lock \in Nat
  BY DEF DraftInv, TypeOK
<1>3. VersionsBehind'
  BY <1>1, <1>2 DEF VersionsBehind
<1>4. ASSUME NEW e \in Editors PROVE EditFresh(e)'
  BY <1>1, <1>2, <1>4 DEF EditFresh
<1> QED
  BY <1>3, <1>4 DEF DraftInv

(* Every step keeps what an edit in flight relies on.                      *)
LEMMA NextDraft == DraftInv /\ [Next]_vars => DraftInv'
<1> SUFFICES ASSUME DraftInv, [Next]_vars PROVE DraftInv'
  OBVIOUS
<1>t. TypeOK /\ VersionsBehind
  BY DEF DraftInv
<1>1. CASE UNCHANGED vars
  BY <1>1 DEF vars, DraftInv, TypeOK, VersionsBehind, EditFresh, Computed, Editable, isFrozen,
     reconstructSpec
<1>2. ASSUME NEW e \in Editors, LoadPage(e) PROVE DraftInv'
  <2>1. UNCHANGED <<wf, row, req>> /\ page' = [page EXCEPT ![e] = wf.lock]
    BY <1>2 DEF LoadPage
  <2>2. req' = [req EXCEPT ![e] = req[e]]
    BY <1>t, <2>1 DEF TypeOK
  <2>3. page' \in [Editors -> Nat] /\ \A d \in Editors : page'[d] <= wf.lock
    BY <1>t, <2>1 DEF TypeOK, VersionsBehind
  <2>4. req[e].step # "commit"
    BY <1>2 DEF LoadPage
  <2> QED
    BY <1>t, <2>1, <2>2, <2>3, <2>4, ReadKeepsDraft DEF VersionsBehind
<1>3. ASSUME NEW e \in Editors, NEW op, NEW expect \in Nat, NEW shown, expect <= wf.lock,
             req' = [req EXCEPT ![e] = Patched(op, expect, shown)], UNCHANGED <<wf, row, page>>
      PROVE  DraftInv'
  <2> DEFINE r == Patched(op, expect, shown)
  <2>1. \/ r.step = "none"
        \/ /\ r.step = "commit" /\ r.op = op /\ r.expect = expect
           /\ Computed(op, r.spec)
    BY PatchedFresh
  <2> HIDE DEF r
  <2>2. r.step \in {"read", "commit"} => r.expect \in Nat /\ r.expect <= wf.lock
    BY <1>3, <2>1
  <2>3. r.step = "commit" => Computed(r.op, r.spec)
    BY <2>1
  <2>4. req' = [req EXCEPT ![e] = r]
    BY <1>3 DEF r
  <2>5. page' \in [Editors -> Nat] /\ \A d \in Editors : page'[d] <= wf.lock
    BY <1>t, <1>3 DEF TypeOK, VersionsBehind
  <2> QED
    BY <1>3, <2>2, <2>3, <2>4, <2>5, ReadKeepsDraft
<1>4. ASSUME NEW e \in Editors, NEW r, r.step \notin {"commit"},
             r.step = "read" => r.expect = wf.lock,
             req' = [req EXCEPT ![e] = r], UNCHANGED <<wf, row, page>>
      PROVE  DraftInv'
  <2>1. page' \in [Editors -> Nat] /\ \A d \in Editors : page'[d] <= wf.lock
    BY <1>t, <1>4 DEF TypeOK, VersionsBehind
  <2>2. r.step \in {"read", "commit"} => r.expect \in Nat /\ r.expect <= wf.lock
    BY <1>t, <1>4 DEF TypeOK
  <2> QED
    BY <1>4, <2>1, <2>2, ReadKeepsDraft
<1>5. ASSUME NEW e \in Editors, NEW op \in Ops, RequestEdit(e, op) PROVE DraftInv'
  <2>1. page[e] \in Nat /\ page[e] <= wf.lock
    BY <1>t DEF TypeOK, VersionsBehind
  <2> QED
    BY <1>3, <1>5, <2>1 DEF RequestEdit
<1>6. ASSUME NEW e \in Editors, NEW op \in Ops, RequestWrite(e, op) \/ RequestPreview(e, op)
      PROVE  DraftInv'
  BY <1>4, <1>6 DEF RequestWrite, RequestPreview
<1>7. ASSUME NEW e \in Editors, ReadAndWrite(e) PROVE DraftInv'
  <2>1. req[e].expect \in Nat /\ req[e].expect <= wf.lock
    BY <1>t, <1>7 DEF ReadAndWrite, VersionsBehind
  <2>2. req' = [req EXCEPT ![e] = Patched(req[e].op, req[e].expect, NoPreview)]
    BY <1>7 DEF ReadAndWrite
  <2> QED
    BY <1>3, <1>7, <2>1, <2>2 DEF ReadAndWrite
<1>8. ASSUME NEW e \in Editors, ShowPreview(e) PROVE DraftInv'
  <2> DEFINE r == [step |-> "shown", op |-> req[e].op,
                   shown |-> [lock |-> req[e].expect,
                              diff |-> computeCascadeDiff(reconstructSpec, req[e].op.at)]]
  <2>1. req' = [req EXCEPT ![e] = r] /\ UNCHANGED <<wf, row, page>>
    BY <1>8 DEF ShowPreview
  <2>2. r.step = "shown"
    OBVIOUS
  <2> HIDE DEF r
  <2> QED
    BY <1>4, <2>1, <2>2
<1>9. ASSUME NEW e \in Editors, SavePreviewed(e) PROVE DraftInv'
  <2>1. page[e] \in Nat /\ page[e] <= wf.lock
    BY <1>t DEF TypeOK, VersionsBehind
  <2>2. req' = [req EXCEPT ![e] = Patched(req[e].op, page[e], req[e].shown)]
    BY <1>9 DEF SavePreviewed
  <2> QED
    BY <1>3, <1>9, <2>1, <2>2 DEF SavePreviewed
<1>10. ASSUME NEW e \in Editors, ClosePreview(e) \/ Refuse(e) PROVE DraftInv'
  BY <1>4, <1>10 DEF ClosePreview, Refuse, NoReq
<1>11. ASSUME NEW e \in Editors, Commit(e) PROVE DraftInv'
  <2>1. wf' = [wf EXCEPT !.lock = @ + 1, !.specVersion = @ + 1, !.target = req[e].spec.target]
    BY <1>11 DEF Commit
  <2>2. wf'.lock = wf.lock + 1 /\ wf'.specVersion = wf.specVersion + 1
        /\ wf' = [status |-> wf'.status, lock |-> wf'.lock, specVersion |-> wf'.specVersion,
                  target |-> wf'.target]
    BY <1>t, <2>1 DEF TypeOK
  <2>3. /\ page' = page \/ page' = [page EXCEPT ![e] = wf.lock + 1]
        /\ req' = [req EXCEPT ![e] = NoReq]
    BY <1>11 DEF Commit
  <2>4. page' \in [Editors -> Nat] /\ \A d \in Editors : page'[d] <= wf.lock + 1
    BY <1>t, <2>3 DEF TypeOK, VersionsBehind
  <2>5. req' = [d \in Editors |-> req'[d]] /\ \A d \in Editors : req'[d] = req[d] \/ req'[d] = NoReq
    BY <1>t, <2>3 DEF TypeOK
  <2>6. TypeOK'
    BY <1>t, <2>2, <2>4, <2>5 DEF TypeOK
  <2> QED
    BY <2>2, <2>4, <2>5, <2>6, VersionMovesOn
<1>12. ASSUME NEW from, NEW to, SetStatus(from, to) PROVE DraftInv'
  <2>1. wf' = [wf EXCEPT !.status = to, !.lock = @ + 1] /\ UNCHANGED <<row, page, req>>
    BY <1>12 DEF SetStatus
  <2>2. wf'.lock = wf.lock + 1 /\ wf'.specVersion = wf.specVersion
        /\ wf' = [status |-> wf'.status, lock |-> wf'.lock, specVersion |-> wf'.specVersion,
                  target |-> wf'.target]
    BY <1>t, <2>1 DEF TypeOK
  <2>3. TypeOK' /\ \A e \in Editors : page'[e] <= wf'.lock
    BY <1>t, <2>1, <2>2 DEF TypeOK, VersionsBehind
  <2> QED
    BY <2>1, <2>2, <2>3, VersionMovesOn
<1>13. ASSUME NEW k \in DOMAIN row, Dispatch(k) PROVE DraftInv'
  BY <1>t, <1>13 DEF Dispatch, DraftInv, TypeOK, VersionsBehind, EditFresh
<1> QED
  BY <1>1, <1>2, <1>5, <1>6, <1>7, <1>8, <1>9, <1>10, <1>11, <1>12, <1>13
     DEF Next, startWorkflow, pauseWorkflow, resumeWorkflow

(* A step that raises the version of the specification is that editor's    *)
(* commit.                                                                 *)
LEMMA CommitsIsCommit ==
    ASSUME DraftInv, Next, NEW e \in Editors, Commits(e)
    PROVE  Commit(e) /\ wf.status # "active" /\ wf.lock = req[e].expect
<1>1. wf.specVersion \in Nat /\ wf'.specVersion = wf.specVersion + 1 /\ wf'.specVersion # wf.specVersion
  BY DEF DraftInv, TypeOK, Commits
<1>2. \A from, to : ~SetStatus(from, to)
  BY <1>1 DEF DraftInv, TypeOK, SetStatus
<1>3. PICK d \in Editors : Commit(d)
  BY <1>1, <1>2 DEF Next, LoadPage, RequestEdit, RequestWrite, RequestPreview, ReadAndWrite,
     ShowPreview, SavePreviewed, ClosePreview, Refuse, startWorkflow, pauseWorkflow,
     resumeWorkflow, Dispatch
<1>4. d = e
  <2>1. req' = [req EXCEPT ![d] = NoReq]
    BY <1>3 DEF Commit
  <2>2. req[e].step = "commit" /\ req'[e].step = "none"
    BY DEF Commits, NoReq
  <2> QED
    BY <2>1, <2>2 DEF DraftInv, TypeOK
<1> QED
  BY <1>3, <1>4 DEF Commit, CasHolds

(* No edit is lost: the rows an edit replaces are the ones it was computed *)
(* from, although it reads and writes them in two steps and the plan is    *)
(* edited, started, run and paused in between (updateWorkflowDraftSpec).   *)
THEOREM NoEditIsLost == Spec => EditsAreNotLost
<1>1. DraftInv /\ [Next]_vars =>
        [\A e \in Editors :
            Commits(e) => /\ Accepts(req[e].op, reconstructSpec) /\ Editable(req[e].op)
                          /\ req[e].spec = Patch(req[e].op, reconstructSpec)]_vars
  <2> SUFFICES ASSUME DraftInv, Next, NEW e \in Editors, Commits(e)
               PROVE  /\ Accepts(req[e].op, reconstructSpec) /\ Editable(req[e].op)
                      /\ req[e].spec = Patch(req[e].op, reconstructSpec)
    OBVIOUS
  <2>1. req[e].step = "commit" /\ wf.status # "active" /\ wf.lock = req[e].expect
    BY CommitsIsCommit DEF Commits
  <2> QED
    BY <2>1 DEF DraftInv, EditFresh, Computed
<1> QED
  BY <1>1, InitDraft, NextDraft, PTL DEF Spec, EditsAreNotLost

-----------------------------------------------------------------------------
(* 2. Recursion over a graph without cycles.                               *)

\* Every set of nodes has one that leads out of it.
Founded(nodes, next) ==
    \A B \in SUBSET nodes : B # {} => \E n \in B : next[n] \cap B = {}

(* A graph the validator accepts is founded.                               *)
LEMMA AcyclicIsFounded ==
    ASSUME NEW nodes, NEW next, ~hasCycle(nodes, next)
    PROVE  Founded(nodes, next)
BY DEF hasCycle, Founded

\* On the nodes of D, h is what the equations G ask for.
Solves(h, G, needs, D) ==
    \A k \in D : needs[k] \subseteq D /\ h[k] = G[k][h]

\* One equation per node over a founded graph, each of which looks only at
\* the values of the nodes its own leads to.
Equations(G, needs, K, V) ==
    /\ V # {}
    /\ Founded(K, needs)
    /\ \A k \in K : needs[k] \subseteq K
    /\ G \in [K -> [[K -> V] -> V]]
    /\ \A k \in K : \A f, g \in [K -> V] :
            (\A n \in needs[k] : f[n] = g[n]) => G[k][f] = G[k][g]

(* Such equations have a solution.                                         *)
LEMMA EquationsHaveSolution ==
    ASSUME NEW K, NEW V, NEW needs, NEW G, Equations(G, needs, K, V)
    PROVE  \E h \in [K -> V] : \A k \in K : h[k] = G[k][h]
<1> DEFINE Pairs == {p \in (SUBSET K) \X [K -> V] : Solves(p[2], G, needs, p[1])}
           Reached == {k \in K : \E p \in Pairs : k \in p[1]}
           H == [k \in K |-> IF k \in Reached
                             THEN (CHOOSE p \in Pairs : k \in p[1])[2][k]
                             ELSE CHOOSE v \in V : TRUE]
<1>e. /\ V # {} /\ Founded(K, needs) /\ \A k \in K : needs[k] \subseteq K
      /\ G \in [K -> [[K -> V] -> V]]
  BY DEF Equations
<1>d. ASSUME NEW k \in K, NEW f \in [K -> V], NEW g \in [K -> V], \A n \in needs[k] : f[n] = g[n]
      PROVE  G[k][f] = G[k][g]
  BY <1>d, Zenon DEF Equations
<1>1. ASSUME NEW p \in Pairs, NEW q \in Pairs, NEW k \in p[1] \cap q[1]
      PROVE  p[2][k] = q[2][k]
  <2> DEFINE B == {j \in p[1] \cap q[1] : p[2][j] # q[2][j]}
  <2>p. /\ p[1] \in SUBSET K /\ p[2] \in [K -> V] /\ Solves(p[2], G, needs, p[1])
        /\ q[1] \in SUBSET K /\ q[2] \in [K -> V] /\ Solves(q[2], G, needs, q[1])
    OBVIOUS
  <2>1. ASSUME NEW j \in B PROVE needs[j] \cap B # {}
    <3>1. j \in K /\ needs[j] \subseteq p[1] \cap q[1] /\ p[2][j] = G[j][p[2]] /\ q[2][j] = G[j][q[2]]
      BY <2>p DEF Solves
    <3>2. G[j][p[2]] # G[j][q[2]]
      BY <3>1
    <3> HIDE DEF B
    <3>3. PICK n \in needs[j] : p[2][n] # q[2][n]
      BY <1>d, <2>p, <3>1, <3>2, Zenon
    <3> QED
      BY <3>1, <3>3 DEF B
  <2>2. B \in SUBSET K
    BY <2>p
  <2>3. B = {}
    BY <1>e, <2>1, <2>2 DEF Founded
  <2> QED
    BY <2>3
<1>2. ASSUME NEW k \in Reached
      PROVE  \E p \in Pairs : k \in p[1] /\ H[k] = p[2][k]
  <2>1. \E p \in Pairs : k \in p[1]
    OBVIOUS
  <2>2. (CHOOSE p \in Pairs : k \in p[1]) \in Pairs /\ k \in (CHOOSE p \in Pairs : k \in p[1])[1]
    BY <2>1
  <2>3. k \in K /\ H[k] = (CHOOSE p \in Pairs : k \in p[1])[2][k]
    OBVIOUS
  <2> QED
    BY <2>2, <2>3
<1>3. H \in [K -> V]
  <2> SUFFICES ASSUME NEW k \in K PROVE H[k] \in V
    OBVIOUS
  <2>1. CASE k \in Reached
    <3>1. PICK p \in Pairs : k \in p[1] /\ H[k] = p[2][k]
      BY <1>2, <2>1
    <3>2. p[2] \in [K -> V]
      OBVIOUS
    <3> QED
      BY <3>1, <3>2
  <2>2. CASE k \notin Reached
    <3>1. H[k] = CHOOSE v \in V : TRUE
      BY <2>2
    <3> QED
      BY <3>1, <1>e
  <2> QED
    BY <2>1, <2>2
<1> HIDE DEF H
<1>4. Reached \in SUBSET K /\ Solves(H, G, needs, Reached)
  <2> SUFFICES ASSUME NEW k \in Reached PROVE needs[k] \subseteq Reached /\ H[k] = G[k][H]
    BY DEF Solves
  <2>1. PICK p \in Pairs : k \in p[1] /\ H[k] = p[2][k]
    BY <1>2
  <2>2. p[1] \in SUBSET K /\ p[2] \in [K -> V] /\ Solves(p[2], G, needs, p[1])
    OBVIOUS
  <2>3. needs[k] \subseteq p[1] /\ p[2][k] = G[k][p[2]]
    BY <2>1, <2>2 DEF Solves
  <2>4. p[1] \subseteq Reached
    BY <2>2
  <2>5. ASSUME NEW n \in needs[k] PROVE H[n] = p[2][n]
    <3>1. n \in Reached /\ n \in p[1]
      BY <2>3, <2>4
    <3>2. PICK q \in Pairs : n \in q[1] /\ H[n] = q[2][n]
      BY <1>2, <3>1
    <3>3. p[2][n] = q[2][n]
      <4>1. n \in p[1] \cap q[1]
        BY <3>1, <3>2
      <4> HIDE DEF Pairs, Reached
      <4> QED
        BY <1>1, <4>1
    <3> QED
      BY <3>2, <3>3
  <2>6. k \in K
    OBVIOUS
  <2> HIDE DEF Pairs, Reached
  <2>7. G[k][H] = G[k][p[2]]
    BY <1>3, <1>d, <2>2, <2>5, <2>6, Zenon
  <2> QED
    BY <2>1, <2>3, <2>4, <2>7
<1>5. Reached = K
  <2> SUFFICES ASSUME K \ Reached # {} PROVE FALSE
    BY <1>4
  <2>1. PICK n \in K \ Reached : needs[n] \cap (K \ Reached) = {}
    BY <1>e DEF Founded
  <2>2. needs[n] \subseteq Reached
    BY <1>e, <2>1
  <2> DEFINE D == Reached \cup {n}
             h == [H EXCEPT ![n] = G[n][H]]
  <2>3. G[n][H] \in V
    <3> HIDE DEF Pairs, Reached
    <3> QED
      BY <1>3, <1>e
  <2>4. h \in [K -> V] /\ h[n] = G[n][H] /\ \A k \in Reached : h[k] = H[k]
    BY <1>3, <1>4, <2>1, <2>3
  <2>5. ASSUME NEW k \in D PROVE needs[k] \subseteq D /\ h[k] = G[k][h]
    <3>1. needs[k] \subseteq Reached /\ h[k] = G[k][H]
      BY <1>4, <2>2, <2>4 DEF Solves
    <3>2. G[k][H] = G[k][h]
      <4>1. k \in K
        BY <1>4
      <4>2. \A i \in needs[k] : H[i] = h[i]
        BY <2>4, <3>1
      <4> HIDE DEF D, h, Pairs, Reached
      <4> QED
        BY <1>3, <1>d, <2>4, <4>1, <4>2, Zenon
    <3> QED
      BY <3>1, <3>2
  <2> HIDE DEF h
  <2>6. <<D, h>> \in (SUBSET K) \X [K -> V] /\ Solves(h, G, needs, D)
    BY <1>4, <2>4, <2>5 DEF Solves
  <2>7. <<D, h>> \in Pairs /\ n \in <<D, h>>[1]
    BY <2>6
  <2>8. n \in Reached
    BY <2>1, <2>7
  <2> QED
    BY <2>1, <2>8
<1> HIDE DEF Pairs, Reached
<1>6. \A k \in K : H[k] = G[k][H]
  BY <1>4, <1>5 DEF Solves
<1> QED
  BY <1>3, <1>6, Zenon

-----------------------------------------------------------------------------
(* 3. Finite sets, largest and smallest members.                           *)

(* A non-empty collection of subsets of a finite set has a smallest one.   *)
LEMMA SmallestSubset ==
    ASSUME NEW S, IsFiniteSet(S), NEW C \in SUBSET (SUBSET S), C # {}
    PROVE  \E A \in C : \A B \in C : B \subseteq A => B = A
<1>1. IsWellFoundedOn(StrictSubsetOrdering(S), FiniteSubsetsOf(S)) /\ FiniteSubsetsOf(S) = SUBSET S
  BY FS_StrictSubsetOrderingWellFounded, FS_FiniteSubsetsOfFinite
<1>2. \E A \in C : \A B \in C : <<B, A>> \notin StrictSubsetOrdering(S)
  BY <1>1, WFMin
<1> QED
  BY <1>2 DEF StrictSubsetOrdering

(* A finite set has an element before all others in a total preorder.      *)
LEMMA FirstExists ==
    ASSUME NEW S, IsFiniteSet(S), S # {}, NEW R,
           \A x, y \in S : <<x, y>> \in R \/ <<y, x>> \in R,
           \A x, y, z \in S : <<x, y>> \in R /\ <<y, z>> \in R => <<x, z>> \in R
    PROVE  \E m \in S : \A x \in S : <<m, x>> \in R
<1> DEFINE C == {A \in SUBSET S : A # {} /\ ~\E m \in A : \A x \in A : <<m, x>> \in R}
<1>1. C = {}
  <2> SUFFICES ASSUME C # {} PROVE FALSE
    OBVIOUS
  <2>1. PICK A \in C : \A B \in C : B \subseteq A => B = A
    <3>1. C \in SUBSET (SUBSET S) /\ C # {}
      OBVIOUS
    <3> HIDE DEF C
    <3> QED
      BY <3>1, SmallestSubset
  <2>2. PICK a \in A : TRUE
    OBVIOUS
  <2>3. A \ {a} \notin C
    <3>1. A \ {a} \subseteq A /\ A \ {a} # A
      BY <2>2
    <3> HIDE DEF C
    <3> QED
      BY <2>1, <3>1
  <2>4. CASE A \ {a} = {}
    <3>1. A = {a} /\ a \in S
      BY <2>2, <2>4
    <3>2. <<a, a>> \in R
      BY <3>1
    <3> QED
      BY <3>1, <3>2
  <2>5. CASE A \ {a} # {}
    <3>1. PICK m \in A \ {a} : \A x \in A \ {a} : <<m, x>> \in R
      BY <2>3, <2>5
    <3>2. a \in S /\ m \in S /\ A \subseteq S
      OBVIOUS
    <3>3. (\A x \in A : <<m, x>> \in R) \/ (\A x \in A : <<a, x>> \in R)
      BY <3>1, <3>2
    <3> QED
      BY <2>2, <3>1, <3>3
  <2> QED
    BY <2>4, <2>5
<1> QED
  BY <1>1

(* The largest and the smallest of a finite set of integers.               *)
LEMMA MaxIsLargest ==
    ASSUME NEW S, IsFiniteSet(S), S # {}, S \subseteq Int
    PROVE  Max(S) \in S /\ \A x \in S : Max(S) >= x
<1> DEFINE R == {p \in S \X S : p[1] >= p[2]}
<1>1. /\ \A x, y \in S : <<x, y>> \in R \/ <<y, x>> \in R
      /\ \A x, y, z \in S : <<x, y>> \in R /\ <<y, z>> \in R => <<x, z>> \in R
  OBVIOUS
<1>2. \E m \in S : \A x \in S : <<m, x>> \in R
  <2> HIDE DEF R
  <2> QED
    BY <1>1, FirstExists, Zenon
<1>3. \E m \in S : \A x \in S : m >= x
  BY <1>2
<1> QED
  BY <1>3, Zenon DEF Max

(* The smallest, likewise.                                                 *)
LEMMA MinIsSmallest ==
    ASSUME NEW S, IsFiniteSet(S), S # {}, S \subseteq Int
    PROVE  Min(S) \in S /\ \A x \in S : Min(S) <= x
<1> DEFINE R == {p \in S \X S : p[1] <= p[2]}
<1>1. /\ \A x, y \in S : <<x, y>> \in R \/ <<y, x>> \in R
      /\ \A x, y, z \in S : <<x, y>> \in R /\ <<y, z>> \in R => <<x, z>> \in R
  OBVIOUS
<1>2. \E m \in S : \A x \in S : <<m, x>> \in R
  <2> HIDE DEF R
  <2> QED
    BY <1>1, FirstExists, Zenon
<1>3. \E m \in S : \A x \in S : m <= x
  BY <1>2
<1> QED
  BY <1>3, Zenon DEF Min

(* The values of a function on a finite set are finitely many.             *)
LEMMA FiniteValues ==
    ASSUME NEW S, IsFiniteSet(S), NEW f
    PROVE  IsFiniteSet({f[x] : x \in S})
<1> DEFINE g == [x \in S |-> f[x]]
<1>1. g \in Surjection(S, {f[x] : x \in S})
  BY DEF Surjection
<1> QED
  BY <1>1, FS_Surjection

(* A finite graph that is founded is founded against its arrows too.       *)
LEMMA FoundedBackwards ==
    ASSUME NEW nodes, IsFiniteSet(nodes), NEW next, Founded(nodes, next), NEW back,
           \A n \in nodes : back[n] \subseteq {m \in nodes : n \in next[m]}
    PROVE  Founded(nodes, back)
<1> DEFINE C == {B \in SUBSET nodes : B # {} /\ \A n \in B : back[n] \cap B # {}}
<1> SUFFICES ASSUME C # {} PROVE FALSE
  BY DEF Founded
<1>1. PICK A \in C : \A B \in C : B \subseteq A => B = A
  <2>1. C \in SUBSET (SUBSET nodes) /\ C # {}
    OBVIOUS
  <2> HIDE DEF C
  <2> QED
    BY <2>1, SmallestSubset
<1>2. PICK n \in A : next[n] \cap A = {}
  BY DEF Founded
<1>3. ASSUME NEW m \in A PROVE \E j \in A \ {n} : j \in back[m]
  BY <1>2
<1>4. A \ {n} \in C
  BY <1>2, <1>3
<1> QED
  BY <1>1, <1>2, <1>4

-----------------------------------------------------------------------------
(* 4. The first pass of resolveSchedule: anchors and frozen bars.          *)

\* A window that does not end before it starts, and the date due.
Bars == {b \in [start : Int, end : Int, due : Int] : b.start <= b.end}

\* Bars to freeze: of any tasks.
FrozenOK(frozen) == \A k \in DOMAIN frozen : frozen[k] \in Bars

\* A plan that parses and that the validator accepts.
Valid(spec) == WellFormed(spec) /\ validateTemplate(spec)

(* What a bar is, field by field.                                          *)
LEMMA BarsFields ==
    /\ \A b \in Bars : b.start \in Int /\ b.end \in Int /\ b.due \in Int /\ b.start <= b.end
    /\ \A s, e, d \in Int : s <= e => [start |-> s, end |-> e, due |-> d] \in Bars
BY DEF Bars

(* A schedule that parses makes a bar of any instant (applyBar).           *)
LEMMA ApplyBarType ==
    ASSUME NEW instant \in Int, NEW sched \in Schedules
    PROVE  applyBar(instant, sched) \in Bars
<1>1. sched.dur \in Int /\ sched.dur >= 0
  BY DEF Schedules
<1> QED
  BY <1>1 DEF applyBar, Bar, Bars

(* The tasks of a specification that parses.                               *)
LEMMA TaskFields ==
    ASSUME NEW spec, WellFormed(spec), NEW k \in Keys(spec)
    PROVE  LET sched == spec.tasks[k].sched
           IN  /\ sched \in Schedules /\ sched.mode \in Modes
               /\ sched.at \in Int /\ sched.offset \in Int /\ spec.target \in Int
               /\ k \in Tasks
<1>1. spec.tasks[k] \in TaskSpecs
  BY DEF WellFormed
<1> QED
  BY <1>1 DEF TaskSpecs, Schedules, WellFormed

(* The branches of the first pass: where the bar of a task comes from.     *)
LEMMA BarOfCases ==
    ASSUME NEW spec, NEW k \in Keys(spec), spec.tasks[k].sched.mode \in Modes, NEW frozen, NEW bar
    PROVE  LET sched == spec.tasks[k].sched
               result == BarOf(spec, frozen, bar, k)
           IN  \/ k \in DOMAIN frozen /\ result = frozen[k]
               \/ /\ k \notin DOMAIN frozen
                  /\ \/ sched.mode = "none" /\ result = applyBar(spec.target, sched)
                     \/ sched.mode = "absolute" /\ result = applyBar(sched.at, sched)
                     \/ /\ sched.mode = "relative" /\ sched.anchor = Target
                        /\ result = applyBar(sched.offset + spec.target, sched)
                     \/ /\ AnchoredToTask(spec, k)
                        /\ result = applyBar(sched.offset + bar[sched.anchor].due, sched)
<1> DEFINE sched == spec.tasks[k].sched
<1>1. CASE k \in DOMAIN frozen
  BY <1>1, Zenon DEF BarOf
<1>2. CASE k \notin DOMAIN frozen /\ sched.mode = "none"
  BY <1>2 DEF BarOf
<1>3. CASE k \notin DOMAIN frozen /\ sched.mode = "absolute"
  BY <1>3 DEF BarOf
<1>4. CASE k \notin DOMAIN frozen /\ sched.mode = "relative" /\ sched.anchor = Target
  BY <1>4 DEF BarOf
<1>5. CASE k \notin DOMAIN frozen /\ sched.mode = "relative" /\ sched.anchor # Target
  BY <1>5 DEF BarOf, AnchoredToTask, IsRelative
<1> QED
  BY <1>1, <1>2, <1>3, <1>4, <1>5 DEF Modes

(* A bar is computed from the bar of the anchor.                           *)
LEMMA BarOfType ==
    ASSUME NEW spec, WellFormed(spec), NEW frozen, FrozenOK(frozen), NEW bar, NEW k \in Keys(spec),
           AnchoredToTask(spec, k) => bar[spec.tasks[k].sched.anchor] \in Bars
    PROVE  BarOf(spec, frozen, bar, k) \in Bars
<1> DEFINE sched == spec.tasks[k].sched
<1>1. /\ sched \in Schedules /\ sched.mode \in Modes
      /\ sched.at \in Int /\ sched.offset \in Int /\ spec.target \in Int
  BY TaskFields
<1>2. AnchoredToTask(spec, k) => bar[sched.anchor].due \in Int
  BY BarsFields
<1> HIDE DEF sched
<1>3. /\ applyBar(spec.target, sched) \in Bars
      /\ applyBar(sched.at, sched) \in Bars
      /\ applyBar(sched.offset + spec.target, sched) \in Bars
      /\ AnchoredToTask(spec, k) => applyBar(sched.offset + bar[sched.anchor].due, sched) \in Bars
  BY <1>1, <1>2, ApplyBarType
<1> QED
  BY <1>1, <1>3, BarOfCases DEF FrozenOK, sched

(* The bar of a task depends on no other bar but its anchor's.             *)
LEMMA BarOfLocal ==
    ASSUME NEW spec, NEW k \in Keys(spec), spec.tasks[k].sched.mode \in Modes, NEW frozen, NEW f, NEW g,
           AnchoredToTask(spec, k) => f[spec.tasks[k].sched.anchor] = g[spec.tasks[k].sched.anchor]
    PROVE  BarOf(spec, frozen, f, k) = BarOf(spec, frozen, g, k)
BY BarOfCases DEF AnchoredToTask, IsRelative

\* The task each task's date waits for.
Anchors(spec) ==
    [k \in Keys(spec) |-> IF AnchoredToTask(spec, k) THEN {spec.tasks[k].sched.anchor} ELSE {}]

(* What the validator guarantees of the anchors.                           *)
LEMMA AnchorsFounded ==
    ASSUME NEW spec, validateTemplate(spec)
    PROVE  /\ Founded(Keys(spec), Anchors(spec))
           /\ \A k \in Keys(spec) : Anchors(spec)[k] \subseteq Keys(spec)
<1>1. ~hasCycle(Keys(spec), Anchors(spec))
  BY Zenon DEF validateTemplate, NoCycles, Anchors
<1>2. \A k \in Keys(spec) : AnchoredToTask(spec, k) => spec.tasks[k].sched.anchor \in Keys(spec)
  BY DEF validateTemplate, ReferencesResolve
<1> QED
  BY <1>1, <1>2, AcyclicIsFounded DEF Anchors

(* The first pass gives every task of a valid plan one bar, computed from  *)
(* the bar of its anchor.                                                  *)
LEMMA FirstPass ==
    ASSUME NEW spec, Valid(spec), NEW frozen, FrozenOK(frozen)
    PROVE  LET bar == resolveBars(spec, frozen)
           IN  /\ bar \in [Keys(spec) -> Bars]
               /\ \A k \in Keys(spec) : bar[k] = BarOf(spec, frozen, bar, k)
<1> DEFINE K == Keys(spec)
           needs == Anchors(spec)
           G == [k \in K |-> [f \in [K -> Bars] |-> BarOf(spec, frozen, f, k)]]
           bar == resolveBars(spec, frozen)
<1>w. WellFormed(spec) /\ validateTemplate(spec)
  BY DEF Valid
<1>m. \A k \in K : spec.tasks[k].sched.mode \in Modes
  BY <1>w, TaskFields
<1>a. Founded(K, needs) /\ \A k \in K : needs[k] \subseteq K
  BY <1>w, AnchorsFounded
<1>n. \A k \in K : AnchoredToTask(spec, k) =>
            spec.tasks[k].sched.anchor \in needs[k] /\ needs[k] = {spec.tasks[k].sched.anchor}
  BY DEF Anchors
<1> HIDE DEF needs
<1>1. G \in [K -> [[K -> Bars] -> Bars]]
  <2>1. ASSUME NEW k \in K, NEW f \in [K -> Bars] PROVE BarOf(spec, frozen, f, k) \in Bars
    <3>1. AnchoredToTask(spec, k) => f[spec.tasks[k].sched.anchor] \in Bars
      BY <1>a, <1>n
    <3> QED
      BY <1>w, <3>1, BarOfType
  <2> QED
    BY <2>1
<1>2. ASSUME NEW k \in K, NEW f \in [K -> Bars], NEW g \in [K -> Bars],
             \A n \in needs[k] : f[n] = g[n]
      PROVE  G[k][f] = G[k][g]
  <2>1. AnchoredToTask(spec, k) => f[spec.tasks[k].sched.anchor] = g[spec.tasks[k].sched.anchor]
    BY <1>2, <1>n
  <2>2. BarOf(spec, frozen, f, k) = BarOf(spec, frozen, g, k)
    BY <1>m, <2>1, BarOfLocal
  <2> QED
    BY <2>2, Zenon
<1>3. Bars # {}
  <2>1. [start |-> 0, end |-> 0, due |-> 0] \in Bars
    BY BarsFields
  <2> QED
    BY <2>1
<1>4. \E h \in [K -> Bars] : \A k \in K : h[k] = G[k][h]
  <2> HIDE DEF G, K
  <2>1. \A k \in K : \A f, g \in [K -> Bars] :
            (\A n \in needs[k] : f[n] = g[n]) => G[k][f] = G[k][g]
    BY <1>2, Zenon
  <2>2. Equations(G, needs, K, Bars)
    BY <1>1, <1>3, <1>a, <2>1, Zenon DEF Equations
  <2> QED
    BY <2>2, EquationsHaveSolution
<1>5. PICK h \in [K -> Bars] : \A k \in K : h[k] = BarOf(spec, frozen, h, k)
  BY <1>4
<1>6. h = [k \in K |-> BarOf(spec, frozen, h, k)]
  BY <1>5
<1>7. bar = [k \in K |-> BarOf(spec, frozen, bar, k)]
  BY <1>6, Zenon DEF resolveBars
<1> HIDE DEF bar, K
<1>8. \A k \in K : bar[k] = BarOf(spec, frozen, bar, k)
  BY <1>7, Zenon
<1>9. {k \in K : bar[k] \notin Bars} = {}
  <2> DEFINE B == {k \in K : bar[k] \notin Bars}
  <2> SUFFICES ASSUME B # {} PROVE FALSE
    OBVIOUS
  <2>1. PICK k \in B : needs[k] \cap B = {}
    BY <1>a DEF Founded
  <2>2. AnchoredToTask(spec, k) => bar[spec.tasks[k].sched.anchor] \in Bars
    BY <1>a, <1>n, <2>1
  <2>3. BarOf(spec, frozen, bar, k) \in Bars
    BY <1>w, <2>2, BarOfType DEF K
  <2> QED
    BY <1>8, <2>3
<1>10. bar \in [K -> Bars]
  BY <1>7, <1>8, <1>9
<1> QED
  BY <1>8, <1>10 DEF bar, K

-----------------------------------------------------------------------------
(* 5. The second pass: summary tasks span their children.                  *)

\* The tasks below each task.
Tree(spec) == [k \in Keys(spec) |-> Children(spec, k)]

(* A plan has finitely many tasks, and each finitely many children.        *)
LEMMA FiniteKeys ==
    ASSUME NEW spec, WellFormed(spec)
    PROVE  IsFiniteSet(Keys(spec)) /\ \A k : IsFiniteSet(Children(spec, k))
BY TasksAssumption, FS_Subset DEF WellFormed, Children

(* The hierarchy of a valid plan is founded towards the leaves.            *)
LEMMA TreeFounded ==
    ASSUME NEW spec, Valid(spec)
    PROVE  Founded(Keys(spec), Tree(spec))
<1> DEFINE parents == [k \in Keys(spec) |-> {spec.tasks[k].parent}]
<1>1. Founded(Keys(spec), parents)
  <2>1. ~hasCycle(Keys(spec), parents)
    BY Zenon DEF Valid, validateTemplate, NoCycles
  <2> QED
    BY <2>1, AcyclicIsFounded, Zenon
<1>2. \A k \in Keys(spec) : Tree(spec)[k] \subseteq {c \in Keys(spec) : k \in parents[c]}
  BY DEF Tree, Children
<1>3. IsFiniteSet(Keys(spec))
  BY FiniteKeys DEF Valid
<1> HIDE DEF parents
<1> QED
  BY <1>1, <1>2, <1>3, FoundedBackwards

(* The window that spans some bars is a bar.                               *)
LEMMA SpanOfType ==
    ASSUME NEW spec, WellFormed(spec), NEW first, NEW bar, NEW k, first[k] \in Bars,
           \A c \in Children(spec, k) : bar[c] \in Bars
    PROVE  SpanOf(spec, first, bar, k) \in Bars
<1> DEFINE below == {bar[c] : c \in Children(spec, k)}
           starts == {b.start : b \in below}
           ends == {b.end : b \in below}
           dues == {b.due : b \in below}
<1>1. CASE below = {}
  BY <1>1, Zenon DEF SpanOf
<1>2. CASE below # {}
  <2>1. IsFiniteSet(below) /\ below \subseteq Bars
    BY FiniteKeys, FiniteValues
  <2> HIDE DEF below
  <2>2. \A b \in below : b.start \in Int /\ b.end \in Int /\ b.due \in Int /\ b.start <= b.end
    BY <2>1, BarsFields
  <2>3. IsFiniteSet(starts) /\ IsFiniteSet(ends) /\ IsFiniteSet(dues)
    <3> DEFINE f == [b \in below |-> b.start]  g == [b \in below |-> b.end]
               h == [b \in below |-> b.due]
    <3>1. starts = {f[b] : b \in below} /\ ends = {g[b] : b \in below} /\ dues = {h[b] : b \in below}
      OBVIOUS
    <3> HIDE DEF f, g, h, starts, ends, dues
    <3> QED
      BY <2>1, <3>1, FiniteValues
  <2>4. /\ starts # {} /\ ends # {} /\ dues # {}
        /\ starts \subseteq Int /\ ends \subseteq Int /\ dues \subseteq Int
    BY <1>2, <2>2
  <2>5. PICK b \in below : TRUE
    BY <1>2
  <2>6. b.start \in starts /\ b.end \in ends /\ b.start <= b.end
    BY <2>2
  <2>7. SpanOf(spec, first, bar, k) = [start |-> Min(starts), end |-> Max(ends), due |-> Max(dues)]
    BY <1>2, Zenon DEF SpanOf, below
  <2> HIDE DEF starts, ends, dues
  <2>8. Min(starts) \in Int /\ Max(ends) \in Int /\ Max(dues) \in Int
        /\ Min(starts) <= b.start /\ Max(ends) >= b.end
    <3>1. Min(starts) \in starts /\ \A x \in starts : Min(starts) <= x
      BY <2>3, <2>4, MinIsSmallest, Zenon
    <3>2. Max(ends) \in ends /\ \A x \in ends : Max(ends) >= x
      BY <2>3, <2>4, MaxIsLargest, Zenon
    <3>3. Max(dues) \in dues
      BY <2>3, <2>4, MaxIsLargest, Zenon
    <3> QED
      BY <2>4, <2>6, <3>1, <3>2, <3>3
  <2>9. Min(starts) <= Max(ends)
    BY <2>2, <2>4, <2>6, <2>8
  <2> QED
    BY <2>7, <2>8, <2>9, BarsFields
<1> QED
  BY <1>1, <1>2

(* The window of a task depends on no other window but its children's.     *)
LEMMA SpanOfLocal ==
    ASSUME NEW spec, NEW first, NEW f, NEW g, NEW k,
           \A c \in Children(spec, k) : f[c] = g[c]
    PROVE  SpanOf(spec, first, f, k) = SpanOf(spec, first, g, k)
<1>1. {f[c] : c \in Children(spec, k)} = {g[c] : c \in Children(spec, k)}
  BY Zenon
<1> QED
  BY <1>1, Zenon DEF SpanOf

(* The second pass gives every task of a valid plan one window: a leaf     *)
(* keeps its bar and a summary task spans its children.                    *)
LEMMA SecondPass ==
    ASSUME NEW spec, Valid(spec), NEW frozen, FrozenOK(frozen)
    PROVE  LET bar == resolveSchedule(spec, frozen)
           IN  /\ bar \in [Keys(spec) -> Bars]
               /\ \A k \in Keys(spec) : bar[k] = SpanOf(spec, resolveBars(spec, frozen), bar, k)
<1> DEFINE K == Keys(spec)
           needs == Tree(spec)
           first == resolveBars(spec, frozen)
           G == [k \in K |-> [f \in [K -> Bars] |-> SpanOf(spec, first, f, k)]]
           bar == resolveSchedule(spec, frozen)
<1>w. WellFormed(spec)
  BY DEF Valid
<1>f. first \in [K -> Bars]
  BY FirstPass
<1>a. Founded(K, needs) /\ \A k \in K : needs[k] = Children(spec, k) /\ needs[k] \subseteq K
  BY TreeFounded DEF Tree, Children
<1> HIDE DEF needs, first
<1>1. G \in [K -> [[K -> Bars] -> Bars]]
  <2>1. ASSUME NEW k \in K, NEW f \in [K -> Bars] PROVE SpanOf(spec, first, f, k) \in Bars
    <3>1. first[k] \in Bars /\ \A c \in Children(spec, k) : f[c] \in Bars
      BY <1>a, <1>f
    <3> QED
      BY <1>w, <3>1, SpanOfType
  <2> QED
    BY <2>1
<1>2. ASSUME NEW k \in K, NEW f \in [K -> Bars], NEW g \in [K -> Bars],
             \A n \in needs[k] : f[n] = g[n]
      PROVE  G[k][f] = G[k][g]
  <2>1. SpanOf(spec, first, f, k) = SpanOf(spec, first, g, k)
    BY <1>2, <1>a, SpanOfLocal
  <2> QED
    BY <2>1, Zenon
<1>3. Bars # {}
  <2>1. [start |-> 0, end |-> 0, due |-> 0] \in Bars
    BY BarsFields
  <2> QED
    BY <2>1
<1>4. \E h \in [K -> Bars] : \A k \in K : h[k] = G[k][h]
  <2> HIDE DEF G, K
  <2>1. \A k \in K : \A f, g \in [K -> Bars] :
            (\A n \in needs[k] : f[n] = g[n]) => G[k][f] = G[k][g]
    BY <1>2, Zenon
  <2>2. Equations(G, needs, K, Bars)
    BY <1>1, <1>3, <1>a, <2>1, Zenon DEF Equations
  <2> QED
    BY <2>2, EquationsHaveSolution
<1>5. PICK h \in [K -> Bars] : \A k \in K : h[k] = SpanOf(spec, first, h, k)
  BY <1>4
<1>6. h = [k \in K |-> SpanOf(spec, first, h, k)]
  BY <1>5
<1>7. bar = [k \in K |-> SpanOf(spec, first, bar, k)]
  BY <1>6, Zenon DEF resolveSchedule, first
<1> HIDE DEF bar, K
<1>8. \A k \in K : bar[k] = SpanOf(spec, first, bar, k)
  BY <1>7, Zenon
<1>9. {k \in K : bar[k] \notin Bars} = {}
  <2> DEFINE B == {k \in K : bar[k] \notin Bars}
  <2> SUFFICES ASSUME B # {} PROVE FALSE
    OBVIOUS
  <2>1. PICK k \in B : needs[k] \cap B = {}
    BY <1>a DEF Founded
  <2>2. first[k] \in Bars /\ \A c \in Children(spec, k) : bar[c] \in Bars
    BY <1>a, <1>f, <2>1
  <2>3. SpanOf(spec, first, bar, k) \in Bars
    BY <1>w, <2>2, SpanOfType
  <2> QED
    BY <1>8, <2>3
<1>10. bar \in [K -> Bars]
  BY <1>7, <1>8, <1>9
<1> QED
  BY <1>8, <1>10 DEF bar, K, first

(* The second pass leaves a task without children where the first put it.  *)
LEMMA LeafKeepsBar ==
    ASSUME NEW spec, Valid(spec), NEW frozen, FrozenOK(frozen),
           NEW k \in Keys(spec), Children(spec, k) = {}
    PROVE  /\ resolveSchedule(spec, frozen)[k] = resolveBars(spec, frozen)[k]
           /\ resolveBars(spec, frozen)[k]
                = BarOf(spec, frozen, resolveBars(spec, frozen), k)
<1> DEFINE bar == resolveSchedule(spec, frozen)
           first == resolveBars(spec, frozen)
<1>1. bar[k] = SpanOf(spec, first, bar, k)
  BY SecondPass, Zenon
<1>2. first[k] = BarOf(spec, frozen, first, k)
  BY FirstPass, Zenon
<1> HIDE DEF bar, first
<1>3. {bar[c] : c \in Children(spec, k)} = {}
  OBVIOUS
<1>4. bar[k] = first[k]
  BY <1>1, <1>3, Zenon DEF SpanOf
<1> QED
  BY <1>2, <1>4 DEF bar, first

-----------------------------------------------------------------------------
(* 6. The critical path.                                                   *)

(* The largest of zero and finitely many values.                           *)
LEMMA MaxOverValues ==
    ASSUME NEW S, IsFiniteSet(S), NEW f, \A x \in S : f[x] \in Int
    PROVE  LET m == Max({0} \cup {f[x] : x \in S})
           IN  /\ m \in Int /\ m >= 0 /\ \A x \in S : m >= f[x]
               /\ m = 0 \/ \E x \in S : m = f[x]
<1> DEFINE U == {0} \cup {f[x] : x \in S}
<1>1. IsFiniteSet(U)
  <2>1. IsFiniteSet({0}) /\ IsFiniteSet({f[x] : x \in S})
    <3>1. IsFiniteSet({f[x] : x \in S})
      BY FiniteValues
    <3>2. IsFiniteSet({0})
      BY FS_Singleton
    <3> QED
      BY <3>1, <3>2
  <2> QED
    BY <2>1, FS_Union, Zenon
<1>2. U # {} /\ U \subseteq Int
  OBVIOUS
<1>3. Max(U) \in U /\ \A x \in U : Max(U) >= x
  <2> HIDE DEF U
  <2> QED
    BY <1>1, <1>2, MaxIsLargest, Zenon
<1> QED
  BY <1>3

(* The smallest of finitely many values.                                   *)
LEMMA MinOverValues ==
    ASSUME NEW S, IsFiniteSet(S), S # {}, NEW f, \A x \in S : f[x] \in Int
    PROVE  LET m == Min({f[x] : x \in S})
           IN  m \in Int /\ (\A x \in S : m <= f[x]) /\ \E x \in S : m = f[x]
<1> DEFINE U == {f[x] : x \in S}
<1>1. IsFiniteSet(U)
  BY FiniteValues, Zenon
<1>2. U # {} /\ U \subseteq Int
  OBVIOUS
<1>3. Min(U) \in U /\ \A x \in U : Min(U) <= x
  <2> HIDE DEF U
  <2> QED
    BY <1>1, <1>2, MinIsSmallest, Zenon
<1> QED
  BY <1>3

\* The dependencies among the leaves, forwards and backwards.
PredGraph(spec) == [k \in CpmLeaves(spec) |-> Preds(spec, k)]
SuccGraph(spec) == [k \in CpmLeaves(spec) |-> Succs(spec, k)]

(* The dependencies among the leaves of a valid plan are finite and        *)
(* founded, both ways.                                                     *)
LEMMA LeavesFounded ==
    ASSUME NEW spec, Valid(spec)
    PROVE  /\ IsFiniteSet(CpmLeaves(spec))
           /\ \A k \in CpmLeaves(spec) :
                /\ IsFiniteSet(Preds(spec, k)) /\ IsFiniteSet(Succs(spec, k))
                /\ Preds(spec, k) \subseteq CpmLeaves(spec)
                /\ Succs(spec, k) \subseteq CpmLeaves(spec)
                /\ \A s \in CpmLeaves(spec) : s \in Succs(spec, k) <=> k \in Preds(spec, s)
           /\ Founded(CpmLeaves(spec), PredGraph(spec))
           /\ Founded(CpmLeaves(spec), SuccGraph(spec))
<1> DEFINE L == CpmLeaves(spec)
           deps == [k \in Keys(spec) |-> spec.tasks[k].deps]
<1>1. IsFiniteSet(L)
  BY FiniteKeys, FS_Subset DEF Valid, CpmLeaves
<1>2. \A k : Preds(spec, k) \subseteq L /\ Succs(spec, k) \subseteq L
  BY DEF Preds, Succs, CpmLeaves
<1>3. \A k : IsFiniteSet(Preds(spec, k)) /\ IsFiniteSet(Succs(spec, k))
  BY <1>1, <1>2, FS_Subset
<1>4. \A k, s \in L : s \in Succs(spec, k) <=> k \in Preds(spec, s)
  BY DEF Preds, Succs, CpmLeaves
<1>5. Founded(L, PredGraph(spec))
  <2>1. ~hasCycle(Keys(spec), deps)
    BY Zenon DEF Valid, validateTemplate, NoCycles
  <2>2. Founded(Keys(spec), deps)
    BY <2>1, AcyclicIsFounded, Zenon
  <2> SUFFICES ASSUME NEW B \in SUBSET L, B # {}
               PROVE  \E n \in B : PredGraph(spec)[n] \cap B = {}
    BY DEF Founded
  <2>3. B \in SUBSET Keys(spec)
    BY DEF CpmLeaves
  <2>4. PICK n \in B : deps[n] \cap B = {}
    BY <2>2, <2>3, Zenon DEF Founded
  <2>5. PredGraph(spec)[n] \subseteq deps[n]
    BY <2>3 DEF PredGraph, Preds, CpmLeaves
  <2> QED
    BY <2>4, <2>5
<1>6. Founded(L, SuccGraph(spec))
  <2>1. \A k \in L : SuccGraph(spec)[k] \subseteq {s \in L : k \in PredGraph(spec)[s]}
    BY <1>2, <1>4 DEF SuccGraph, PredGraph
  <2> HIDE DEF L
  <2> QED
    BY <1>1, <1>5, <2>1, FoundedBackwards
<1> QED
  BY <1>1, <1>2, <1>3, <1>4, <1>5, <1>6

\* What the forward pass computes for leaf k.
Finishes(spec, dur, ef, k) ==
    /\ ef[k] \in Int /\ ef[k] >= dur[k]
    /\ \A p \in Preds(spec, k) : ef[k] >= ef[p] + dur[k]
    /\ ef[k] = dur[k] \/ \E p \in Preds(spec, k) : ef[k] = ef[p] + dur[k]

\* What the backward pass computes for leaf k, in a plan of length span.
LatestOf(spec, dur, span, lf, k) ==
    /\ lf[k] \in Int
    /\ \A s \in Succs(spec, k) : lf[k] <= lf[s] - dur[s]
    /\ IF Succs(spec, k) = {} THEN lf[k] = span
       ELSE \E s \in Succs(spec, k) : lf[k] = lf[s] - dur[s]

(* The forward pass computes every earliest finish from those of the       *)
(* predecessors.                                                           *)
LEMMA ForwardPass ==
    ASSUME NEW spec, Valid(spec), NEW dur \in [CpmLeaves(spec) -> Nat]
    PROVE  \A k \in CpmLeaves(spec) : Finishes(spec, dur, EarliestFinish(spec, dur), k)
<1> DEFINE L == CpmLeaves(spec)
           needs == PredGraph(spec)
           ef == EarliestFinish(spec, dur)
           Body(f, k) == Max({0} \cup {f[p] : p \in Preds(spec, k)}) + dur[k]
           G == [k \in L |-> [f \in [L -> Int] |-> Body(f, k)]]
<1>a. /\ Founded(L, needs)
      /\ \A k \in L : needs[k] = Preds(spec, k) /\ needs[k] \subseteq L /\ IsFiniteSet(Preds(spec, k))
  BY LeavesFounded DEF PredGraph
<1>b. ASSUME NEW f, NEW k \in L, \A p \in Preds(spec, k) : f[p] \in Int
      PROVE  LET m == Max({0} \cup {f[p] : p \in Preds(spec, k)})
             IN  /\ m \in Int /\ m >= 0 /\ \A p \in Preds(spec, k) : m >= f[p]
                 /\ m = 0 \/ \E p \in Preds(spec, k) : m = f[p]
  BY <1>a, <1>b, MaxOverValues, Zenon
<1>d. \A k \in L : dur[k] \in Int /\ dur[k] >= 0
  OBVIOUS
<1> HIDE DEF L, needs
<1>1. G \in [L -> [[L -> Int] -> Int]]
  <2>1. ASSUME NEW k \in L, NEW f \in [L -> Int] PROVE Body(f, k) \in Int
    <3>1. \A p \in Preds(spec, k) : f[p] \in Int
      BY <1>a
    <3> QED
      BY <1>b, <1>d, <3>1
  <2> HIDE DEF Body
  <2> QED
    BY <2>1
<1>2. \A k \in L : \A f, g \in [L -> Int] :
            (\A n \in needs[k] : f[n] = g[n]) => G[k][f] = G[k][g]
  <2> SUFFICES ASSUME NEW k \in L, NEW f \in [L -> Int], NEW g \in [L -> Int],
                      \A n \in needs[k] : f[n] = g[n]
               PROVE  G[k][f] = G[k][g]
    BY Zenon
  <2>1. {f[p] : p \in Preds(spec, k)} = {g[p] : p \in Preds(spec, k)}
    BY <1>a, Zenon
  <2>2. Body(f, k) = Body(g, k)
    BY <2>1, Zenon
  <2> HIDE DEF Body
  <2> QED
    BY <2>2, Zenon
<1>3. PICK h \in [L -> Int] : \A k \in L : h[k] = G[k][h]
  <2> HIDE DEF G
  <2> DEFINE V == Int
  <2>1. V # {}
    OBVIOUS
  <2>2. Equations(G, needs, L, V)
    BY <1>1, <1>2, <1>a, <2>1, Zenon DEF Equations
  <2> HIDE DEF V
  <2>3. \E h \in [L -> V] : \A k \in L : h[k] = G[k][h]
    BY <2>2, EquationsHaveSolution
  <2> QED
    BY <2>3, Zenon DEF V
<1>4. h = [k \in L |-> Body(h, k)]
  BY <1>3, Zenon
<1>5. ef = [k \in L |-> Body(ef, k)]
  BY <1>4, Zenon DEF EarliestFinish, L
<1> HIDE DEF ef
<1>6. \A k \in L : ef[k] = Body(ef, k)
  BY <1>5, Zenon
<1>7. {k \in L : ef[k] \notin Int} = {}
  <2> DEFINE B == {k \in L : ef[k] \notin Int}
  <2> SUFFICES ASSUME B # {} PROVE FALSE
    OBVIOUS
  <2>1. PICK k \in B : needs[k] \cap B = {}
    BY <1>a DEF Founded
  <2>2. \A p \in Preds(spec, k) : ef[p] \in Int
    BY <1>a, <2>1
  <2>3. Body(ef, k) \in Int
    BY <1>b, <1>d, <2>2
  <2> QED
    BY <1>6, <2>3
<1> SUFFICES ASSUME NEW k \in L PROVE Finishes(spec, dur, ef, k)
  BY DEF ef, L
<1>8. \A p \in Preds(spec, k) : ef[p] \in Int
  BY <1>7, <1>a
<1> DEFINE m == Max({0} \cup {ef[p] : p \in Preds(spec, k)})
<1>9. /\ m \in Int /\ m >= 0 /\ \A p \in Preds(spec, k) : m >= ef[p]
      /\ m = 0 \/ \E p \in Preds(spec, k) : m = ef[p]
  BY <1>8, <1>b
<1>10. ef[k] = m + dur[k]
  BY <1>6
<1> HIDE DEF m
<1> QED
  BY <1>8, <1>9, <1>10, <1>d DEF Finishes

(* The plan is as long as its last leaf.                                   *)
LEMMA MakespanBounds ==
    ASSUME NEW spec, Valid(spec), NEW dur \in [CpmLeaves(spec) -> Nat]
    PROVE  LET span == Makespan(spec, dur)
               ef == EarliestFinish(spec, dur)
           IN  /\ span \in Int /\ span >= 0
               /\ \A k \in CpmLeaves(spec) : span >= ef[k]
               /\ span = 0 \/ \E k \in CpmLeaves(spec) : span = ef[k]
<1> DEFINE L == CpmLeaves(spec)
           ef == EarliestFinish(spec, dur)
<1>1. \A k \in L : ef[k] \in Int
  BY ForwardPass DEF Finishes
<1>2. IsFiniteSet(L)
  BY LeavesFounded
<1>3. Makespan(spec, dur) = Max({0} \cup {ef[k] : k \in L})
  BY Zenon DEF Makespan
<1> HIDE DEF ef, L
<1>4. LET m == Max({0} \cup {ef[k] : k \in L})
      IN  /\ m \in Int /\ m >= 0 /\ \A k \in L : m >= ef[k]
          /\ m = 0 \/ \E k \in L : m = ef[k]
  BY <1>1, <1>2, MaxOverValues, Zenon
<1> QED
  BY <1>3, <1>4, Zenon DEF ef, L

(* The backward pass computes every latest finish from those of the        *)
(* successors.                                                             *)
LEMMA BackwardPass ==
    ASSUME NEW spec, Valid(spec), NEW dur \in [CpmLeaves(spec) -> Nat]
    PROVE  \A k \in CpmLeaves(spec) :
                LatestOf(spec, dur, Makespan(spec, dur), LatestFinish(spec, dur), k)
<1> DEFINE L == CpmLeaves(spec)
           needs == SuccGraph(spec)
           span == Makespan(spec, dur)
           lf == LatestFinish(spec, dur)
           Body(f, k) == IF Succs(spec, k) = {} THEN span
                         ELSE Min({f[s] - dur[s] : s \in Succs(spec, k)})
           G == [k \in L |-> [f \in [L -> Int] |-> Body(f, k)]]
<1>a. /\ Founded(L, needs)
      /\ \A k \in L : needs[k] = Succs(spec, k) /\ needs[k] \subseteq L /\ IsFiniteSet(Succs(spec, k))
  BY LeavesFounded DEF SuccGraph
<1>d. \A k \in L : dur[k] \in Int
  OBVIOUS
<1>s. span \in Int
  BY MakespanBounds
<1> HIDE DEF L, needs, span
<1>b. ASSUME NEW f, NEW k \in L, Succs(spec, k) # {}, \A s \in Succs(spec, k) : f[s] \in Int
      PROVE  LET m == Min({f[s] - dur[s] : s \in Succs(spec, k)})
             IN  /\ m \in Int /\ (\A s \in Succs(spec, k) : m <= f[s] - dur[s])
                 /\ \E s \in Succs(spec, k) : m = f[s] - dur[s]
  <2> DEFINE g == [s \in Succs(spec, k) |-> f[s] - dur[s]]
  <2>1. \A s \in Succs(spec, k) : g[s] \in Int /\ g[s] = f[s] - dur[s]
    BY <1>a, <1>b, <1>d
  <2>2. {f[s] - dur[s] : s \in Succs(spec, k)} = {g[s] : s \in Succs(spec, k)}
    BY <2>1, Zenon
  <2> HIDE DEF g
  <2>3. LET m == Min({g[s] : s \in Succs(spec, k)})
        IN  m \in Int /\ (\A s \in Succs(spec, k) : m <= g[s]) /\ \E s \in Succs(spec, k) : m = g[s]
    BY <1>a, <1>b, <2>1, MinOverValues, Zenon
  <2> QED
    BY <2>1, <2>2, <2>3, Zenon
<1>1. G \in [L -> [[L -> Int] -> Int]]
  <2>1. ASSUME NEW k \in L, NEW f \in [L -> Int] PROVE Body(f, k) \in Int
    <3>1. \A s \in Succs(spec, k) : f[s] \in Int
      BY <1>a
    <3>2. CASE Succs(spec, k) = {}
      BY <1>s, <3>2, Zenon
    <3>3. CASE Succs(spec, k) # {}
      BY <1>b, <3>1, <3>3, Zenon
    <3> QED
      BY <3>2, <3>3
  <2> HIDE DEF Body
  <2> QED
    BY <2>1
<1>2. \A k \in L : \A f, g \in [L -> Int] :
            (\A n \in needs[k] : f[n] = g[n]) => G[k][f] = G[k][g]
  <2> SUFFICES ASSUME NEW k \in L, NEW f \in [L -> Int], NEW g \in [L -> Int],
                      \A n \in needs[k] : f[n] = g[n]
               PROVE  G[k][f] = G[k][g]
    BY Zenon
  <2>1. {f[s] - dur[s] : s \in Succs(spec, k)} = {g[s] - dur[s] : s \in Succs(spec, k)}
    BY <1>a, Zenon
  <2>2. Body(f, k) = Body(g, k)
    BY <2>1, Zenon
  <2> HIDE DEF Body
  <2> QED
    BY <2>2, Zenon
<1>3. PICK h \in [L -> Int] : \A k \in L : h[k] = G[k][h]
  <2> HIDE DEF G
  <2> DEFINE V == Int
  <2>1. V # {}
    OBVIOUS
  <2>2. Equations(G, needs, L, V)
    BY <1>1, <1>2, <1>a, <2>1, Zenon DEF Equations
  <2> HIDE DEF V
  <2>3. \E h \in [L -> V] : \A k \in L : h[k] = G[k][h]
    BY <2>2, EquationsHaveSolution
  <2> QED
    BY <2>3, Zenon DEF V
<1>4. h = [k \in L |-> Body(h, k)]
  BY <1>3, Zenon
<1>5. lf = [k \in L |-> Body(lf, k)]
  BY <1>4, Zenon DEF LatestFinish, L, span
<1> HIDE DEF lf
<1>6. \A k \in L : lf[k] = Body(lf, k)
  BY <1>5, Zenon
<1>7. {k \in L : lf[k] \notin Int} = {}
  <2> DEFINE B == {k \in L : lf[k] \notin Int}
  <2> SUFFICES ASSUME B # {} PROVE FALSE
    OBVIOUS
  <2>1. PICK k \in B : needs[k] \cap B = {}
    BY <1>a DEF Founded
  <2>2. \A s \in Succs(spec, k) : lf[s] \in Int
    BY <1>a, <2>1
  <2>3. Body(lf, k) \in Int
    <3>1. CASE Succs(spec, k) = {}
      BY <1>s, <3>1, Zenon
    <3>2. CASE Succs(spec, k) # {}
      BY <1>b, <2>2, <3>2, Zenon
    <3> QED
      BY <3>1, <3>2
  <2> HIDE DEF Body
  <2> QED
    BY <1>6, <2>3
<1> SUFFICES ASSUME NEW k \in L PROVE LatestOf(spec, dur, span, lf, k)
  BY DEF lf, L, span
<1>8. \A s \in Succs(spec, k) : lf[s] \in Int
  BY <1>7, <1>a
<1>9. lf[k] \in Int
  BY <1>7
<1>10. CASE Succs(spec, k) = {}
  <2>1. lf[k] = span
    BY <1>6, <1>10, Zenon
  <2> QED
    BY <1>9, <1>10, <2>1 DEF LatestOf
<1>11. CASE Succs(spec, k) # {}
  <2>1. lf[k] = Min({lf[s] - dur[s] : s \in Succs(spec, k)})
    BY <1>6, <1>11, Zenon
  <2> QED
    BY <1>8, <1>9, <1>11, <1>b, <2>1, Zenon DEF LatestOf
<1> QED
  BY <1>10, <1>11

(* No leaf has negative slack, nor slack beyond the end of the plan.       *)
LEMMA SlackBounds ==
    ASSUME NEW spec, Valid(spec), NEW dur \in [CpmLeaves(spec) -> Nat], NEW k \in CpmLeaves(spec)
    PROVE  /\ EarliestFinish(spec, dur)[k] <= LatestFinish(spec, dur)[k]
           /\ LatestFinish(spec, dur)[k] <= Makespan(spec, dur)
<1> DEFINE L == CpmLeaves(spec)
           ef == EarliestFinish(spec, dur)
           lf == LatestFinish(spec, dur)
           span == Makespan(spec, dur)
           next == SuccGraph(spec)
<1>1. /\ Founded(L, next)
      /\ \A j \in L : next[j] = Succs(spec, j) /\ next[j] \subseteq L
      /\ \A j, s \in L : s \in Succs(spec, j) => j \in Preds(spec, s)
  BY LeavesFounded DEF SuccGraph
<1>2. \A j \in L : Finishes(spec, dur, ef, j)
  BY ForwardPass
<1>3. \A j \in L : LatestOf(spec, dur, span, lf, j)
  BY BackwardPass
<1>4. span \in Int /\ \A j \in L : span >= ef[j]
  BY MakespanBounds
<1>5. \A j \in L : dur[j] \in Int /\ dur[j] >= 0
  OBVIOUS
<1> HIDE DEF L, ef, lf, span, next
<1>6. \A j \in L : ef[j] \in Int /\ lf[j] \in Int
  BY <1>2, <1>3 DEF Finishes, LatestOf
<1> DEFINE B == {j \in L : ef[j] > lf[j] \/ lf[j] > span}
<1>7. ASSUME NEW j \in B PROVE next[j] \cap B # {}
  <2>1. CASE Succs(spec, j) = {}
    BY <1>3, <1>4, <1>6, <2>1 DEF LatestOf
  <2>2. CASE Succs(spec, j) # {}
    <3>1. PICK s \in Succs(spec, j) : lf[j] = lf[s] - dur[s]
      BY <1>3, <2>2 DEF LatestOf
    <3>2. s \in L /\ s \in next[j] /\ j \in Preds(spec, s)
      BY <1>1
    <3>3. ef[s] >= ef[j] + dur[s]
      BY <1>2, <3>2 DEF Finishes
    <3>4. ef[s] > lf[s] \/ lf[s] > span
      BY <1>4, <1>5, <1>6, <3>1, <3>2, <3>3
    <3> QED
      BY <3>2, <3>4
  <2> QED
    BY <2>1, <2>2
<1>8. B = {}
  BY <1>1, <1>7 DEF Founded
<1>9. ~(ef[k] > lf[k]) /\ ~(lf[k] > span)
  BY <1>8 DEF L
<1> QED
  BY <1>4, <1>6, <1>9 DEF L, ef, lf, span

\* The durations, and the same with one more for leaf k.
Lengthens(spec, dur, k, longer) ==
    /\ k \in CpmLeaves(spec)
    /\ dur \in [CpmLeaves(spec) -> Nat]
    /\ longer = [dur EXCEPT ![k] = @ + 1]

(* A leaf that takes one longer finishes exactly one later, and none       *)
(* finishes earlier for it.                                                *)
LEMMA LongerLeaf ==
    ASSUME NEW spec, Valid(spec), NEW dur, NEW k, NEW longer, Lengthens(spec, dur, k, longer)
    PROVE  LET ef == EarliestFinish(spec, dur)
               late == EarliestFinish(spec, longer)
           IN  /\ longer \in [CpmLeaves(spec) -> Nat]
               /\ \A j \in CpmLeaves(spec) : late[j] >= ef[j]
               /\ late[k] = ef[k] + 1
<1> DEFINE L == CpmLeaves(spec)
           ef == EarliestFinish(spec, dur)
           late == EarliestFinish(spec, longer)
           next == PredGraph(spec)
<1>1. /\ Founded(L, next)
      /\ \A j \in L : next[j] = Preds(spec, j) /\ next[j] \subseteq L
  BY LeavesFounded DEF PredGraph
<1>2. /\ dur \in [L -> Nat] /\ longer \in [L -> Nat] /\ k \in L
      /\ longer[k] = dur[k] + 1 /\ \A j \in L \ {k} : longer[j] = dur[j]
  BY DEF Lengthens
<1>3. \A j \in L : Finishes(spec, dur, ef, j)
  BY <1>2, ForwardPass
<1>4. \A j \in L : Finishes(spec, longer, late, j)
  BY <1>2, ForwardPass
<1>5. k \in L /\ \A j \in L : dur[j] \in Int /\ dur[j] >= 0 /\ longer[j] \in Int /\ longer[j] >= dur[j]
  BY <1>2
<1> HIDE DEF L, ef, late, next
<1>6. \A j \in L : ef[j] \in Int /\ late[j] \in Int
  BY <1>3, <1>4 DEF Finishes
<1>7. \A j \in L : late[j] >= ef[j]
  <2> DEFINE B == {j \in L : ~(late[j] >= ef[j])}
  <2>1. ASSUME NEW j \in B PROVE next[j] \cap B # {}
    <3>1. late[j] >= longer[j] /\ ef[j] # dur[j]
      BY <1>4, <1>5, <1>6 DEF Finishes
    <3>2. PICK p \in Preds(spec, j) : ef[j] = ef[p] + dur[j]
      BY <1>3, <3>1 DEF Finishes
    <3>3. p \in L /\ p \in next[j] /\ late[j] >= late[p] + longer[j]
      BY <1>1, <1>4 DEF Finishes
    <3>4. ~(late[p] >= ef[p])
      BY <1>5, <1>6, <3>2, <3>3
    <3> QED
      BY <3>3, <3>4
  <2> QED
    BY <1>1, <2>1 DEF Founded
<1>8. late[k] >= ef[k] + 1
  <2>1. CASE ef[k] = dur[k]
    BY <1>2, <1>4, <1>5, <1>6, <2>1 DEF Finishes
  <2>2. CASE ef[k] # dur[k]
    <3>1. PICK p \in Preds(spec, k) : ef[k] = ef[p] + dur[k]
      BY <1>3, <1>5, <2>2 DEF Finishes
    <3>2. p \in L /\ late[k] >= late[p] + longer[k]
      BY <1>1, <1>4, <1>5 DEF Finishes
    <3> QED
      BY <1>2, <1>5, <1>6, <1>7, <3>1, <3>2
  <2> QED
    BY <2>1, <2>2
<1>9. late[k] <= ef[k] + 1
  <2> SUFFICES ASSUME late[k] > ef[k] + 1 PROVE FALSE
    BY <1>5, <1>6
  <2> DEFINE B == {j \in L : late[j] > ef[j]}
  <2>1. ASSUME NEW j \in B PROVE next[j] \cap B # {}
    <3>1. late[j] # longer[j]
      <4>1. ef[j] >= dur[j]
        BY <1>3 DEF Finishes
      <4> QED
        BY <1>2, <1>5, <1>6, <4>1
    <3>2. PICK p \in Preds(spec, j) : late[j] = late[p] + longer[j]
      BY <1>4, <3>1 DEF Finishes
    <3>3. p \in L /\ p \in next[j] /\ ef[j] >= ef[p] + dur[j]
      BY <1>1, <1>3 DEF Finishes
    <3>4. late[p] > ef[p]
      BY <1>2, <1>5, <1>6, <3>2, <3>3
    <3> QED
      BY <3>3, <3>4
  <2>2. k \in B
    BY <1>5, <1>6
  <2> QED
    BY <1>1, <2>1, <2>2 DEF Founded
<1>10. late[k] = ef[k] + 1
  BY <1>5, <1>6, <1>8, <1>9
<1> QED
  BY <1>2, <1>7, <1>10, Zenon DEF L, ef, late

(* The leaves without slack are exactly the ones whose delay delays the    *)
(* whole plan.                                                             *)
LEMMA CriticalDelays ==
    ASSUME NEW spec, Valid(spec), NEW dur \in [CpmLeaves(spec) -> Nat], NEW k \in CpmLeaves(spec)
    PROVE  LatestFinish(spec, dur)[k] = EarliestFinish(spec, dur)[k]
           <=> Makespan(spec, [dur EXCEPT ![k] = @ + 1]) > Makespan(spec, dur)
<1> DEFINE L == CpmLeaves(spec)
           longer == [dur EXCEPT ![k] = @ + 1]
           ef == EarliestFinish(spec, dur)
           late == EarliestFinish(spec, longer)
           lf == LatestFinish(spec, dur)
           span == Makespan(spec, dur)
           longspan == Makespan(spec, longer)
<1>g. /\ Founded(L, PredGraph(spec)) /\ Founded(L, SuccGraph(spec))
      /\ \A j \in L : /\ PredGraph(spec)[j] = Preds(spec, j) /\ Preds(spec, j) \subseteq L
                      /\ SuccGraph(spec)[j] = Succs(spec, j) /\ Succs(spec, j) \subseteq L
      /\ \A j, s \in L : s \in Succs(spec, j) <=> j \in Preds(spec, s)
  BY LeavesFounded DEF PredGraph, SuccGraph
<1>l. longer = [dur EXCEPT ![k] = @ + 1]
  OBVIOUS
<1>m. Lengthens(spec, dur, k, longer)
  BY DEF Lengthens
<1> HIDE DEF longer
<1>1. longer \in [L -> Nat] /\ (\A j \in L : late[j] >= ef[j]) /\ late[k] = ef[k] + 1
  BY <1>m, LongerLeaf
<1>2. longer[k] = dur[k] + 1 /\ \A j \in L \ {k} : longer[j] = dur[j]
  BY <1>l
<1>3. \A j \in L : Finishes(spec, dur, ef, j) /\ LatestOf(spec, dur, span, lf, j)
  BY ForwardPass, BackwardPass
<1>4. \A j \in L : ef[j] <= lf[j] /\ lf[j] <= span
  BY SlackBounds
<1>5. span \in Int /\ span >= 0 /\ \A j \in L : span >= ef[j]
  BY MakespanBounds
<1>6. \A j \in L : Finishes(spec, longer, late, j)
  BY <1>1, ForwardPass
<1>7. /\ longspan \in Int /\ \A j \in L : longspan >= late[j]
      /\ longspan = 0 \/ \E j \in L : longspan = late[j]
  BY <1>1, MakespanBounds
<1>8. k \in L /\ \A j \in L : dur[j] \in Int /\ dur[j] >= 0 /\ longer[j] \in Int /\ longer[j] >= dur[j]
  BY <1>1, <1>2
<1> HIDE DEF L, ef, late, lf, span, longspan
<1>9. \A j \in L : ef[j] \in Int /\ late[j] \in Int /\ lf[j] \in Int
  BY <1>3, <1>6 DEF Finishes, LatestOf
<1>10. ASSUME lf[k] = ef[k] PROVE longspan > span
  \* The delay reaches the end along leaves without slack.
  <2> DEFINE T == {j \in L : ef[j] = lf[j] /\ late[j] >= ef[j] + 1}
  <2>1. k \in T
    BY <1>1, <1>8, <1>9, <1>10
  <2>2. PICK j \in T : SuccGraph(spec)[j] \cap T = {}
    BY <1>g, <2>1 DEF Founded
  <2>3. CASE Succs(spec, j) = {}
    <3>1. lf[j] = span
      BY <1>3, <2>3 DEF LatestOf
    <3> QED
      BY <1>5, <1>7, <1>9, <3>1
  <2>4. CASE Succs(spec, j) # {}
    <3>1. PICK s \in Succs(spec, j) : lf[j] = lf[s] - dur[s]
      BY <1>3, <2>4 DEF LatestOf
    <3>2. s \in L /\ s \in SuccGraph(spec)[j] /\ j \in Preds(spec, s)
      BY <1>g
    <3>3. ef[s] >= ef[j] + dur[s] /\ late[s] >= late[j] + longer[s]
      BY <1>3, <1>6, <3>2 DEF Finishes
    <3>4. ef[s] = lf[s] /\ late[s] >= ef[s] + 1
      BY <1>4, <1>8, <1>9, <3>1, <3>2, <3>3
    <3> QED
      BY <2>2, <3>2, <3>4
  <2> QED
    BY <2>3, <2>4
<1>11. ASSUME lf[k] # ef[k] PROVE ~(longspan > span)
  \* Every leaf still finishes by its latest date.
  <2> DEFINE B == {j \in L : late[j] > lf[j]}
  <2>1. k \notin B
    BY <1>1, <1>4, <1>8, <1>9, <1>11
  <2>2. ASSUME NEW j \in B PROVE PredGraph(spec)[j] \cap B # {}
    <3>1. j # k /\ longer[j] = dur[j]
      BY <1>2, <2>1, <2>2 DEF L
    <3>2. late[j] # longer[j]
      <4>1. ef[j] >= dur[j]
        BY <1>3 DEF Finishes
      <4> QED
        BY <1>4, <1>8, <1>9, <3>1, <4>1
    <3>3. PICK p \in Preds(spec, j) : late[j] = late[p] + longer[j]
      BY <1>6, <3>2 DEF Finishes
    <3>4. p \in L /\ p \in PredGraph(spec)[j] /\ j \in Succs(spec, p)
      BY <1>g
    <3>5. lf[p] <= lf[j] - dur[j]
      BY <1>3, <3>4 DEF LatestOf
    <3>6. late[p] > lf[p]
      BY <1>8, <1>9, <3>1, <3>3, <3>4, <3>5
    <3> QED
      BY <3>4, <3>6
  <2>3. B = {}
    BY <1>g, <2>2 DEF Founded
  <2>4. \A j \in L : late[j] <= span
    BY <1>4, <1>5, <1>9, <2>3
  <2> QED
    BY <1>5, <1>7, <1>9, <2>4
<1> QED
  BY <1>10, <1>11 DEF longer, ef, lf, span, longspan

-----------------------------------------------------------------------------
(* 7. The rows and the edits in flight hold valid plans.                   *)

\* The rows are those of a valid plan.
RowsOK ==
    /\ DOMAIN row \subseteq Tasks
    /\ row \in [DOMAIN row -> [task : TaskSpecs, bar : Bars, ran : BOOLEAN]]
    /\ Valid(reconstructSpec)

\* A request: what is ready to commit is a valid plan, and what the chat
\* writes at the current version is still a draft.
ReqOK(r) ==
    /\ r.step \in {"read", "shown", "commit"} => r.op \in Ops
    /\ r.step = "shown" => ~FromChat(r.op)
    /\ r.step = "commit" => Valid(r.spec)
    /\ r.step \in {"read", "commit"} /\ FromChat(r.op) /\ r.expect = wf.lock => wf.status = "draft"

\* So is every edit in flight.
ReqsOK == \A e \in Editors : ReqOK(req[e])

\* Nothing runs in a draft, and a plan that was started has no hierarchy.
StatusOK ==
    /\ wf.status = "draft" => \A k \in DOMAIN row : ~row[k].ran
    /\ wf.status # "draft" => \A k \in DOMAIN row : row[k].task.parent = NoParent

\* The inductive invariant of the dates.
DatesInv == DraftInv /\ RowsOK /\ ReqsOK /\ StatusOK /\ AnchorsHold

(* The rows as a plan.                                                     *)
LEMMA RowFields ==
    ASSUME RowsOK, NEW k \in DOMAIN row
    PROVE  /\ row[k].task \in TaskSpecs /\ row[k].bar \in Bars /\ row[k].ran \in BOOLEAN
           /\ row[k] = [task |-> row[k].task, bar |-> row[k].bar, ran |-> row[k].ran]
           /\ k \in Keys(reconstructSpec) /\ reconstructSpec.tasks[k] = row[k].task
<1>1. row[k] \in [task : TaskSpecs, bar : Bars, ran : BOOLEAN]
  BY DEF RowsOK
<1> QED
  BY <1>1 DEF reconstructSpec, Keys

(* What an edit freezes are bars of rows.                                  *)
LEMMA FrozenBarsOK ==
    ASSUME RowsOK, NEW spec, NEW op
    PROVE  FrozenOK(FrozenBars(spec, op))
BY RowFields DEF FrozenOK, FrozenBars

\* The date of an anchor, given the bars and the target: of a leaf its due, of
\* a summary task the target.
AnchorDate(spec, bars, a) == IF Children(spec, a) = {} THEN bars[a].due ELSE spec.target

(* The placeholder the first pass gives a summary task is the target.      *)
LEMMA Placeholder ==
    ASSUME NEW spec, Valid(spec), NEW frozen, NEW bar, NEW k \in Keys(spec), k \notin DOMAIN frozen,
           Children(spec, k) # {}
    PROVE  BarOf(spec, frozen, bar, k).due = spec.target
<1> DEFINE sched == spec.tasks[k].sched
<1>1. sched.mode = "none"
  BY DEF Valid, validateTemplate, SummariesDerive, HasSchedule
<1>2. sched \in Schedules /\ spec.target \in Int
  BY TaskFields DEF Valid
<1> HIDE DEF sched
<1>3. sched.dur = 0
  BY <1>1, <1>2 DEF Schedules
<1>4. BarOf(spec, frozen, bar, k) = applyBar(spec.target, sched)
  BY <1>1, BarOfCases DEF Modes, AnchoredToTask, IsRelative, sched
<1>5. applyBar(spec.target, sched).due = spec.target
  BY <1>2, <1>3 DEF applyBar, Bar
<1> QED
  BY <1>4, <1>5

(* A task that waits for another, and is not frozen itself, is where its   *)
(* schedule puts it relative to the date of that task, as long as no       *)
(* summary task is frozen.                                                 *)
LEMMA AnchoredBar ==
    ASSUME NEW spec, Valid(spec), NEW frozen, FrozenOK(frozen),
           \A j \in DOMAIN frozen : Children(spec, j) = {},
           NEW k \in Keys(spec), k \notin DOMAIN frozen, AnchoredToTask(spec, k)
    PROVE  LET sched == spec.tasks[k].sched
               bar == resolveSchedule(spec, frozen)
           IN  bar[k] = applyBar(sched.offset + AnchorDate(spec, bar, sched.anchor), sched)
<1> DEFINE sched == spec.tasks[k].sched
           bar == resolveSchedule(spec, frozen)
           first == resolveBars(spec, frozen)
<1>1. sched.anchor \in Keys(spec) /\ Children(spec, k) = {}
  BY DEF Valid, validateTemplate, ReferencesResolve, SummariesDerive, AnchoredToTask, IsRelative,
     HasSchedule
<1>2. bar[k] = first[k] /\ first[k] = BarOf(spec, frozen, first, k)
  BY <1>1, LeafKeepsBar
<1>3. first[sched.anchor].due = AnchorDate(spec, bar, sched.anchor)
  <2>1. CASE Children(spec, sched.anchor) = {}
    <3>1. bar[sched.anchor] = first[sched.anchor]
      BY <1>1, <2>1, LeafKeepsBar
    <3> HIDE DEF bar, first, sched
    <3> QED
      BY <2>1, <3>1 DEF AnchorDate
  <2>2. CASE Children(spec, sched.anchor) # {}
    <3>1. first[sched.anchor] = BarOf(spec, frozen, first, sched.anchor)
      BY <1>1, FirstPass DEF Valid
    <3> HIDE DEF first, sched
    <3>2. BarOf(spec, frozen, first, sched.anchor).due = spec.target
      BY <1>1, <2>2, Placeholder
    <3> QED
      BY <2>2, <3>1, <3>2 DEF AnchorDate
  <2> QED
    BY <2>1, <2>2
<1>4. sched.mode \in Modes
  BY TaskFields DEF Valid
<1>5. BarOf(spec, frozen, first, k) = applyBar(sched.offset + first[sched.anchor].due, sched)
  BY <1>4, BarOfCases DEF AnchoredToTask, IsRelative
<1> HIDE DEF bar, first, sched
<1> QED
  BY <1>2, <1>3, <1>5, Zenon DEF bar, sched

\* The rows of a plan, with these bars and these tasks that have run: what is
\* neither pinned nor frozen follows its anchor.
PlanRows(rows, spec, bars, ran) ==
    /\ DOMAIN rows = Keys(spec) /\ Keys(spec) \subseteq Tasks
    /\ rows \in [Keys(spec) -> [task : TaskSpecs, bar : Bars, ran : BOOLEAN]]
    /\ [target |-> spec.target, tasks |-> [k \in DOMAIN rows |-> rows[k].task]] = spec
    /\ \A k \in Keys(spec) :
        /\ rows[k].task = spec.tasks[k] /\ rows[k].bar = bars[k] /\ rows[k].ran = (k \in ran)
    /\ \A k \in Keys(spec) :
        LET sched == rows[k].task.sched
            date  == IF Children(spec, sched.anchor) = {}
                     THEN rows[sched.anchor].bar.due ELSE spec.target
        IN  /\ AnchoredToTask(spec, k)
            /\ ~rows[k].task.pinned /\ ~rows[k].ran
            => rows[k].bar = applyBar(sched.offset + date, sched)

(* The rows written for a plan are that plan, on the dates resolved for    *)
(* it, when only leaves that are pinned or have run were frozen.           *)
LEMMA BuiltRows ==
    ASSUME NEW spec, Valid(spec), NEW frozen, FrozenOK(frozen), NEW ran,
           \A k \in DOMAIN frozen : /\ spec.tasks[k].pinned \/ k \in ran
                                    /\ Children(spec, k) = {}
    PROVE  PlanRows(BuildRows(spec, resolveSchedule(spec, frozen), ran), spec,
                    resolveSchedule(spec, frozen), ran)
<1> DEFINE bars == resolveSchedule(spec, frozen)
           rows == BuildRows(spec, bars, ran)
<1>1. bars \in [Keys(spec) -> Bars]
  BY SecondPass
<1>a. ASSUME NEW k \in Keys(spec), AnchoredToTask(spec, k),
             ~spec.tasks[k].pinned, k \notin ran
      PROVE  bars[k] = applyBar(spec.tasks[k].sched.offset
                                    + AnchorDate(spec, bars, spec.tasks[k].sched.anchor),
                                spec.tasks[k].sched)
  <2>1. k \notin DOMAIN frozen
    BY <1>a
  <2> QED
    BY <1>a, <2>1, AnchoredBar
<1> HIDE DEF bars
<1>2. rows = [k \in Keys(spec) |-> [task |-> spec.tasks[k], bar |-> bars[k], ran |-> k \in ran]]
  BY DEF BuildRows
<1> HIDE DEF rows
<1>3. /\ spec = [target |-> spec.target, tasks |-> spec.tasks] /\ Keys(spec) \subseteq Tasks
      /\ spec.tasks \in [Keys(spec) -> TaskSpecs]
  BY DEF Valid, WellFormed
<1>4. DOMAIN rows = Keys(spec)
  BY <1>2
<1>5. rows \in [Keys(spec) -> [task : TaskSpecs, bar : Bars, ran : BOOLEAN]]
  BY <1>1, <1>2, <1>3
<1>6. \A k \in Keys(spec) : /\ rows[k].task = spec.tasks[k] /\ rows[k].bar = bars[k]
                            /\ rows[k].ran = (k \in ran)
  BY <1>2
<1>7. [k \in DOMAIN rows |-> rows[k].task] = spec.tasks
  BY <1>3, <1>4, <1>6
<1>8. \A k \in Keys(spec) : AnchoredToTask(spec, k) => spec.tasks[k].sched.anchor \in Keys(spec)
  BY DEF Valid, validateTemplate, ReferencesResolve
<1>9. ASSUME NEW k \in Keys(spec), AnchoredToTask(spec, k),
             ~rows[k].task.pinned, ~rows[k].ran
      PROVE  LET sched == rows[k].task.sched
                 date  == IF Children(spec, sched.anchor) = {}
                          THEN rows[sched.anchor].bar.due ELSE spec.target
             IN  rows[k].bar = applyBar(sched.offset + date, sched)
  <2> DEFINE sched == spec.tasks[k].sched
  <2>1. rows[k].task = spec.tasks[k] /\ rows[k].bar = bars[k] /\ k \notin ran
    BY <1>6, <1>9
  <2>2. rows[sched.anchor].bar = bars[sched.anchor]
    BY <1>6, <1>8, <1>9
  <2>3. bars[k] = applyBar(sched.offset + AnchorDate(spec, bars, sched.anchor), sched)
    BY <1>9, <1>a, <2>1
  <2>4. AnchorDate(spec, bars, sched.anchor) = IF Children(spec, sched.anchor) = {}
                                               THEN rows[sched.anchor].bar.due ELSE spec.target
    BY <2>2 DEF AnchorDate
  <2> QED
    BY <2>1, <2>3, <2>4, Zenon
<1>10. [target |-> spec.target, tasks |-> [k \in DOMAIN rows |-> rows[k].task]] = spec
  BY <1>3, <1>7
<1>11. PlanRows(rows, spec, bars, ran)
  BY <1>3, <1>4, <1>5, <1>6, <1>9, <1>10, Zenon DEF PlanRows
<1> QED
  BY <1>11 DEF rows, bars

(* So are the rows an edit leaves behind.                                  *)
LEMMA RebuiltRows ==
    ASSUME RowsOK, NEW spec, Valid(spec), NEW op, row' = Rebuilt(spec, op), wf'.target = spec.target,
           \A j \in DOMAIN row : row[j].ran => \A k \in Keys(spec) : spec.tasks[k].parent = NoParent
    PROVE  /\ RowsOK' /\ AnchorsHold' /\ reconstructSpec' = spec /\ DOMAIN row' = Keys(spec)
           /\ \A k \in Keys(spec) :
                /\ row'[k].task = spec.tasks[k]
                /\ row'[k].bar = resolveSchedule(spec, FrozenBars(spec, op))[k]
                /\ row'[k].ran = (k \in {j \in DOMAIN row : row[j].ran})
<1> DEFINE frozen == FrozenBars(spec, op)
           ran == {j \in DOMAIN row : row[j].ran}
<1>1. FrozenOK(frozen)
  BY FrozenBarsOK
<1>2. row' = BuildRows(spec, resolveSchedule(spec, frozen), ran)
  BY DEF Rebuilt
<1>3. \A k \in DOMAIN frozen : spec.tasks[k].pinned \/ k \in ran
  BY DEF FrozenBars, PinnedTasks, isFrozen
<1>a. ASSUME NEW k \in DOMAIN frozen PROVE Children(spec, k) = {}
  <2>1. k \in Keys(spec)
    BY DEF FrozenBars
  <2>2. CASE spec.tasks[k].pinned
    BY <2>1, <2>2 DEF Valid, validateTemplate, SummariesDerive
  <2>3. CASE k \in ran
    <3>1. \A c \in Keys(spec) : spec.tasks[c].parent = NoParent
      BY <2>3
    <3> QED
      BY <2>1, <3>1, TasksAssumption DEF Children, Valid, WellFormed
  <2> QED
    BY <1>3, <2>2, <2>3
<1> HIDE DEF frozen, ran
<1>4. PlanRows(row', spec, resolveSchedule(spec, frozen), ran)
  BY <1>1, <1>2, <1>3, <1>a, BuiltRows
<1>5. reconstructSpec' = spec
  BY <1>4 DEF reconstructSpec, PlanRows
<1>6. RowsOK'
  BY <1>4, <1>5 DEF RowsOK, PlanRows
<1>7. AnchorsHold'
  <2>1. wf'.target = spec.target
    OBVIOUS
  <2> QED
    BY <1>4, <1>5, <2>1, Zenon DEF AnchorsHold, PlanRows
<1> QED
  BY <1>4, <1>5, <1>6, <1>7, Zenon DEF frozen, ran, PlanRows

(* A workflow is created with the dates of its template.                   *)
LEMMA InitDates == Init => DatesInv
<1> SUFFICES ASSUME Init PROVE DatesInv
  OBVIOUS
<1>1. PICK spec \in InitSpecs :
        /\ wf = [status |-> "draft", lock |-> 0, specVersion |-> 0, target |-> spec.target]
        /\ row = BuildRows(spec, resolveSchedule(spec, NoBars), {})
        /\ req = [e \in Editors |-> NoReq]
  BY DEF Init, createWorkflowFromSpec
<1>2. Valid(spec)
  BY InitSpecsValid DEF Valid
<1>3. FrozenOK(NoBars) /\ DOMAIN NoBars = {}
  BY DEF FrozenOK, NoBars
<1>4. PlanRows(row, spec, resolveSchedule(spec, NoBars), {})
  BY <1>1, <1>2, <1>3, BuiltRows
<1>5. wf.target = spec.target /\ wf.status = "draft"
  BY <1>1
<1>6. reconstructSpec = spec
  BY <1>4, <1>5 DEF reconstructSpec, PlanRows
<1>7. RowsOK
  BY <1>2, <1>4, <1>6 DEF RowsOK, PlanRows
<1>8. AnchorsHold
  BY <1>4, <1>5, <1>6, Zenon DEF AnchorsHold, PlanRows
<1>9. StatusOK
  BY <1>4, <1>5 DEF StatusOK, PlanRows
<1>10. ReqsOK
  BY <1>1 DEF ReqsOK, ReqOK, NoReq
<1> QED
  BY <1>7, <1>8, <1>9, <1>10, InitDraft DEF DatesInv

-----------------------------------------------------------------------------
(* 8. What the edits make of a valid plan.                                 *)

(* A plan with one task added or replaced still parses.                    *)
LEMMA WithTaskOK ==
    ASSUME NEW spec, WellFormed(spec), NEW k \in Tasks, NEW task \in TaskSpecs
    PROVE  LET new == WithTask(spec, k, task)
           IN  /\ WellFormed(new)
               /\ Keys(new) = Keys(spec) \cup {k}
               /\ new.tasks[k] = task
               /\ \A j \in Keys(spec) \ {k} : new.tasks[j] = spec.tasks[j]
<1> DEFINE tasks == [j \in Keys(spec) \cup {k} |-> IF j = k THEN task ELSE spec.tasks[j]]
           new == WithTask(spec, k, task)
<1>1. /\ spec = [target |-> spec.target, tasks |-> spec.tasks] /\ spec.target \in Int
      /\ Keys(spec) \subseteq Tasks /\ spec.tasks \in [Keys(spec) -> TaskSpecs]
  BY DEF WellFormed
<1>2. tasks \in [Keys(spec) \cup {k} -> TaskSpecs] /\ tasks[k] = task
      /\ \A j \in Keys(spec) \ {k} : tasks[j] = spec.tasks[j]
  BY <1>1
<1>3. new = [target |-> spec.target, tasks |-> tasks]
  BY <1>1 DEF WithTask
<1> HIDE DEF tasks, new
<1>4. new.tasks = tasks /\ new.target = spec.target
  BY <1>3
<1>5. Keys(new) = Keys(spec) \cup {k}
  BY <1>2, <1>4 DEF Keys
<1>6. WellFormed(new)
  BY <1>1, <1>2, <1>3, <1>4, <1>5 DEF WellFormed
<1> QED
  BY <1>2, <1>4, <1>5, <1>6 DEF new

(* Nothing frozen is a legal thing to freeze.                              *)
LEMMA NoBarsOK == FrozenOK(NoBars)
BY DEF FrozenOK, NoBars

(* A drag of a task with an anchor makes a schedule that parses.           *)
LEMMA ReoffsetType ==
    ASSUME NEW spec, Valid(spec), NEW k \in Keys(spec), IsRelative(spec, k), NEW due \in Int
    PROVE  Reoffset(spec, k, due) \in Schedules
<1> DEFINE sched == spec.tasks[k].sched
           at == AnchorInstant(spec, sched)
<1>1. sched \in Schedules /\ spec.target \in Int
  BY TaskFields DEF Valid
<1>2. CASE sched.anchor = Target
  <2>1. at = spec.target
    BY <1>2 DEF AnchorInstant
  <2> HIDE DEF at
  <2> QED
    BY <1>1, <2>1 DEF Reoffset, Schedules, at
<1>3. CASE sched.anchor # Target
  <2>1. sched.anchor \in Keys(spec)
    BY <1>3 DEF Valid, validateTemplate, ReferencesResolve, AnchoredToTask
  <2>2. resolveSchedule(spec, NoBars)[sched.anchor] \in Bars
    BY <2>1, NoBarsOK, SecondPass
  <2>3. at = resolveSchedule(spec, NoBars)[sched.anchor].due
    BY <1>3 DEF AnchorInstant
  <2>4. at \in Int
    BY <2>2, <2>3, BarsFields
  <2> HIDE DEF at
  <2> QED
    BY <1>1, <2>4 DEF Reoffset, Schedules, at
<1> QED
  BY <1>2, <1>3

(* So does one that gives it a fixed instant.                              *)
LEMMA AbsoluteAtType ==
    ASSUME NEW at \in Int, NEW dur \in Nat, NEW point \in {"start", "end", "due"}
    PROVE  AbsoluteAt(at, dur, point) \in Schedules
BY DEF AbsoluteAt, Schedules, Modes

\* An edit of one task that is there already: it leaves the task where it is
\* in the hierarchy.
Retouches(op, spec, new) ==
    /\ op.task \in Keys(spec)
    /\ \E task \in TaskSpecs :
        /\ task.parent = spec.tasks[op.task].parent
        /\ new = WithTask(spec, op.task, task)

(* What each kind of edit does to the plan.                                *)
LEMMA PatchCases ==
    ASSUME NEW spec, Valid(spec), NEW op \in Ops, Accepts(op, spec)
    PROVE  LET new == Patch(op, spec)
           IN  \/ op.kind = "move" /\ new = [spec EXCEPT !.target = op.at]
               \/ op.kind \in {"pin", "reoffset", "window", "link", "unlink"} /\ Retouches(op, spec, new)
               \/ /\ op.kind = "delete"
                  /\ new = [spec EXCEPT !.tasks = [k \in Keys(spec) \ {op.task} |->
                                IF spec.tasks[k].parent = op.task
                                THEN [spec.tasks[k] EXCEPT !.parent = NoParent]
                                ELSE spec.tasks[k]]]
               \/ op.kind = "write" /\ new = WithTask(spec, op.task, op.spec)
<1> DEFINE task == spec.tasks[op.task]
           sched == task.sched
<1>1. CASE op.kind = "move"
  BY <1>1, Zenon DEF Patch
<1>2. CASE op.kind = "delete"
  BY <1>2 DEF Patch
<1>3. CASE op.kind = "write"
  BY <1>3 DEF Patch
<1>4. ASSUME op.kind \in {"pin", "reoffset", "window", "link", "unlink"}
      PROVE  /\ op.task \in Keys(spec)
             /\ task \in TaskSpecs
             /\ sched \in Schedules
  <2>1. op.task \in Keys(spec)
    BY <1>4 DEF Accepts, Has
  <2>2. task \in TaskSpecs
    BY <2>1 DEF Valid, WellFormed
  <2> QED
    BY <2>1, <2>2 DEF TaskSpecs
<1>5. CASE op.kind = "pin"
  <2> DEFINE point == IF sched.mode = "absolute" THEN sched.point ELSE "due"
             new == [task EXCEPT !.pinned = TRUE, !.sched = AbsoluteAt(op.at, 0, point)]
  <2>1. op.at \in Int
    BY <1>5, OpsAssumption
  <2>2. point \in {"start", "end", "due"}
    BY <1>4, <1>5 DEF Schedules
  <2> HIDE DEF point
  <2>3. AbsoluteAt(op.at, 0, point) \in Schedules
    BY <1>4, <1>5, <2>1, <2>2, AbsoluteAtType
  <2>4. new \in TaskSpecs /\ new.parent = task.parent
    BY <1>4, <1>5, <2>3 DEF TaskSpecs
  <2>5. Patch(op, spec) = WithTask(spec, op.task, new)
    BY <1>5 DEF Patch, point
  <2> QED
    BY <1>4, <1>5, <2>4, <2>5 DEF Retouches
<1>6. CASE op.kind = "reoffset"
  <2> DEFINE new == [task EXCEPT !.pinned = FALSE, !.sched = Reoffset(spec, op.task, op.at)]
  <2>1. op.at \in Int
    BY <1>6, OpsAssumption
  <2>2. IsRelative(spec, op.task)
    BY <1>6 DEF Accepts
  <2>3. Reoffset(spec, op.task, op.at) \in Schedules
    BY <1>4, <1>6, <2>1, <2>2, ReoffsetType
  <2>4. new \in TaskSpecs /\ new.parent = task.parent
    BY <1>4, <1>6, <2>3 DEF TaskSpecs
  <2>5. Patch(op, spec) = WithTask(spec, op.task, new)
    BY <1>6 DEF Patch
  <2> QED
    BY <1>4, <1>6, <2>4, <2>5 DEF Retouches
<1>7. CASE op.kind = "window"
  <2> DEFINE moved == IF IsRelative(spec, op.task) THEN Reoffset(spec, op.task, op.at)
                      ELSE AbsoluteAt(op.at, op.dur, "due")
             new == [task EXCEPT !.sched = moved]
  <2>1. op.at \in Int /\ op.dur \in Nat
    BY <1>7, OpsAssumption
  <2>2. IsRelative(spec, op.task) => Reoffset(spec, op.task, op.at) \in Schedules
    BY <1>4, <1>7, <2>1, ReoffsetType
  <2>3. AbsoluteAt(op.at, op.dur, "due") \in Schedules
    BY <1>4, <1>7, <2>1, AbsoluteAtType
  <2>4. moved \in Schedules
    BY <2>2, <2>3
  <2> HIDE DEF moved
  <2>5. new \in TaskSpecs /\ new.parent = task.parent
    BY <1>4, <1>7, <2>4 DEF TaskSpecs
  <2>6. Patch(op, spec) = WithTask(spec, op.task, new)
    BY <1>7 DEF Patch, moved
  <2> QED
    BY <1>4, <1>7, <2>5, <2>6 DEF Retouches
<1>8. CASE op.kind = "link"
  <2> DEFINE new == [task EXCEPT !.deps = @ \cup {op.on}]
  <2>1. op.on \in Tasks
    BY <1>8 DEF Accepts, Has, Valid, WellFormed
  <2>2. new \in TaskSpecs /\ new.parent = task.parent
    BY <1>4, <1>8, <2>1 DEF TaskSpecs
  <2>3. Patch(op, spec) = WithTask(spec, op.task, new)
    BY <1>8 DEF Patch
  <2> QED
    BY <1>4, <1>8, <2>2, <2>3 DEF Retouches
<1>9. CASE op.kind = "unlink"
  <2> DEFINE new == [task EXCEPT !.deps = @ \ {op.on}]
  <2>1. new \in TaskSpecs /\ new.parent = task.parent
    BY <1>4, <1>9 DEF TaskSpecs
  <2>2. Patch(op, spec) = WithTask(spec, op.task, new)
    BY <1>9 DEF Patch
  <2> QED
    BY <1>4, <1>9, <2>1, <2>2 DEF Retouches
<1>10. op.kind \in {"move", "pin", "reoffset", "window", "link", "unlink", "delete", "write"}
  BY OpsAssumption
<1> QED
  BY <1>1, <1>2, <1>3, <1>5, <1>6, <1>7, <1>8, <1>9, <1>10

(* Every edit makes a plan that parses of a valid one, and an edit of the  *)
(* Gantt chart makes no hierarchy where there was none.                    *)
LEMMA PatchOK ==
    ASSUME NEW spec, Valid(spec), NEW op \in Ops, Accepts(op, spec)
    PROVE  /\ WellFormed(Patch(op, spec))
           /\ ~FromChat(op) /\ (\A k \in Keys(spec) : spec.tasks[k].parent = NoParent)
              => \A k \in Keys(Patch(op, spec)) : Patch(op, spec).tasks[k].parent = NoParent
<1> DEFINE new == Patch(op, spec)
<1>w. /\ WellFormed(spec)
      /\ spec = [target |-> spec.target, tasks |-> spec.tasks] /\ spec.target \in Int
      /\ Keys(spec) \subseteq Tasks /\ spec.tasks \in [Keys(spec) -> TaskSpecs]
  BY DEF Valid, WellFormed
<1>v. WellFormed(spec)
  BY DEF Valid
<1>c. \/ op.kind = "move" /\ new = [spec EXCEPT !.target = op.at]
      \/ op.kind \in {"pin", "reoffset", "window", "link", "unlink"} /\ Retouches(op, spec, new)
      \/ /\ op.kind = "delete"
         /\ new = [spec EXCEPT !.tasks = [k \in Keys(spec) \ {op.task} |->
                       IF spec.tasks[k].parent = op.task
                       THEN [spec.tasks[k] EXCEPT !.parent = NoParent]
                       ELSE spec.tasks[k]]]
      \/ op.kind = "write" /\ new = WithTask(spec, op.task, op.spec)
  BY PatchCases, Zenon
<1> HIDE DEF new
<1>1. CASE op.kind = "move" /\ new = [spec EXCEPT !.target = op.at]
  <2>1. new.target = op.at /\ new.tasks = spec.tasks /\ op.at \in Int
        /\ new = [target |-> new.target, tasks |-> new.tasks]
    BY <1>w, <1>1, OpsAssumption
  <2> QED
    BY <1>w, <2>1 DEF WellFormed, Keys, new
<1>2. CASE Retouches(op, spec, new)
  <2>1. PICK task \in TaskSpecs :
            task.parent = spec.tasks[op.task].parent /\ new = WithTask(spec, op.task, task)
    BY <1>2 DEF Retouches
  <2>2. op.task \in Keys(spec) /\ op.task \in Tasks
    BY <1>w, <1>2 DEF Retouches
  <2>3. /\ WellFormed(new)
        /\ Keys(new) = Keys(spec) \cup {op.task}
        /\ new.tasks[op.task] = task
        /\ \A j \in Keys(spec) \ {op.task} : new.tasks[j] = spec.tasks[j]
    BY <1>v, <2>1, <2>2, WithTaskOK
  <2> QED
    BY <2>1, <2>2, <2>3 DEF new
<1>3. CASE /\ op.kind = "delete"
           /\ new = [spec EXCEPT !.tasks = [k \in Keys(spec) \ {op.task} |->
                         IF spec.tasks[k].parent = op.task
                         THEN [spec.tasks[k] EXCEPT !.parent = NoParent]
                         ELSE spec.tasks[k]]]
  <2> DEFINE tasks == [k \in Keys(spec) \ {op.task} |->
                         IF spec.tasks[k].parent = op.task
                         THEN [spec.tasks[k] EXCEPT !.parent = NoParent]
                         ELSE spec.tasks[k]]
  <2>1. ASSUME NEW k \in Keys(spec)
        PROVE  /\ spec.tasks[k] \in TaskSpecs
               /\ [spec.tasks[k] EXCEPT !.parent = NoParent] \in TaskSpecs
               /\ [spec.tasks[k] EXCEPT !.parent = NoParent].parent = NoParent
    BY <1>w DEF TaskSpecs
  <2>2. /\ tasks \in [Keys(spec) \ {op.task} -> TaskSpecs]
        /\ \A k \in Keys(spec) \ {op.task} :
                spec.tasks[k].parent = NoParent => tasks[k].parent = NoParent
    BY <2>1
  <2>3. new = [target |-> spec.target, tasks |-> tasks]
    BY <1>w, <1>3
  <2> HIDE DEF tasks
  <2>4. new.target = spec.target /\ new.tasks = tasks
    BY <2>3
  <2>5. Keys(new) = Keys(spec) \ {op.task}
    BY <2>2, <2>4 DEF Keys
  <2>6. WellFormed(new)
    BY <1>w, <2>2, <2>3, <2>4, <2>5 DEF WellFormed
  <2> QED
    BY <2>2, <2>4, <2>5, <2>6 DEF new
<1>4. CASE op.kind = "write" /\ new = WithTask(spec, op.task, op.spec)
  <2>1. op.task \in Tasks /\ op.spec \in TaskSpecs
    BY <1>4, OpsAssumption
  <2>2. WellFormed(new)
    BY <1>w, <1>4, <2>1, WithTaskOK
  <2> QED
    BY <1>4, <2>2 DEF FromChat, new
<1> QED
  BY <1>c, <1>1, <1>2, <1>3, <1>4

-----------------------------------------------------------------------------
(* 9. The steps.                                                           *)

(* A step that writes neither rows nor target keeps the plan and its       *)
(* dates.                                                                  *)
LEMMA PlanKept ==
    ASSUME RowsOK, AnchorsHold, row' = row, wf'.target = wf.target
    PROVE  RowsOK' /\ AnchorsHold'
<1>1. reconstructSpec' = reconstructSpec
  BY DEF reconstructSpec
<1> QED
  BY <1>1 DEF RowsOK, AnchorsHold

(* What an edit leaves to commit is a valid plan.                          *)
LEMMA PatchedOK ==
    ASSUME RowsOK, NEW op \in Ops, NEW expect, NEW shown,
           FromChat(op) /\ expect = wf.lock => wf.status = "draft"
    PROVE  ReqOK(Patched(op, expect, shown))
<1> DEFINE spec == Patch(op, reconstructSpec)
<1>1. CASE Accepts(op, reconstructSpec) /\ Editable(op) /\ validateTemplate(spec)
  <2>1. Patched(op, expect, shown)
          = [step |-> "commit", op |-> op, expect |-> expect, spec |-> spec, shown |-> shown]
    BY <1>1, Zenon DEF Patched
  <2>2. WellFormed(spec)
    BY <1>1, PatchOK DEF RowsOK
  <2>3. Valid(spec)
    BY <1>1, <2>2 DEF Valid
  <2> HIDE DEF spec
  <2> QED
    BY <2>1, <2>3 DEF ReqOK
<1>2. CASE ~(Accepts(op, reconstructSpec) /\ Editable(op) /\ validateTemplate(spec))
  <2>1. Patched(op, expect, shown) = NoReq
    BY <1>2, Zenon DEF Patched
  <2> QED
    BY <2>1 DEF NoReq, ReqOK
<1> QED
  BY <1>1, <1>2

(* One request changes and nothing else that the invariant is about.       *)
LEMMA RequestKeepsDates ==
    ASSUME DatesInv, UNCHANGED <<wf, row>>, NEW e \in Editors, NEW r, ReqOK(r),
           req' = [req EXCEPT ![e] = r]
    PROVE  RowsOK' /\ ReqsOK' /\ StatusOK' /\ AnchorsHold'
<1>1. RowsOK' /\ AnchorsHold'
  BY PlanKept DEF DatesInv
<1>2. StatusOK'
  BY DEF DatesInv, StatusOK
<1>3. req'[e] = r /\ \A d \in Editors \ {e} : req'[d] = req[d]
  BY DEF DatesInv, DraftInv, TypeOK
<1>4. \A d \in Editors : ReqOK(req'[d])
  BY <1>3 DEF DatesInv, ReqsOK
<1>5. ReqsOK'
  BY <1>4 DEF ReqsOK, ReqOK
<1> QED
  BY <1>1, <1>2, <1>5

(* The version moves on: what is in flight no longer matches it.           *)
LEMMA OldRequestsOK ==
    ASSUME DatesInv, wf'.lock = wf.lock + 1,
           \A e \in Editors : req'[e] = req[e] \/ req'[e] = NoReq
    PROVE  ReqsOK'
<1> SUFFICES ASSUME NEW e \in Editors PROVE ReqOK(req[e])'
  BY DEF ReqsOK
<1>1. CASE req'[e] = NoReq
  BY <1>1 DEF ReqOK, NoReq
<1>2. CASE req'[e] = req[e]
  <2>1. req[e].step \in {"read", "commit"} => req[e].expect # wf'.lock
    BY DEF DatesInv, DraftInv, TypeOK, VersionsBehind
  <2>2. ReqOK(req[e])
    BY DEF DatesInv, ReqsOK
  <2> QED
    BY <1>2, <2>1, <2>2 DEF ReqOK
<1> QED
  BY <1>1, <1>2

(* An edit commits.                                                        *)
LEMMA CommitKeepsDates ==
    ASSUME DatesInv, NEW e \in Editors, Commit(e)
    PROVE  /\ RowsOK' /\ ReqsOK' /\ StatusOK' /\ AnchorsHold'
           /\ wf.status = "paused" => \A k \in Keys(req[e].spec) : req[e].spec.tasks[k].parent = NoParent
           /\ Valid(req[e].spec)
           /\ reconstructSpec' = req[e].spec
           /\ DOMAIN row' = Keys(req[e].spec)
           /\ \A k \in Keys(req[e].spec) :
                /\ row'[k].task = req[e].spec.tasks[k]
                /\ row'[k].bar = resolveSchedule(req[e].spec, FrozenBars(req[e].spec, req[e].op))[k]
<1> DEFINE spec == req[e].spec
           op == req[e].op
<1>1. /\ req[e].step = "commit" /\ wf.status \in {"draft", "paused"} /\ wf.lock = req[e].expect
      /\ wf' = [wf EXCEPT !.lock = @ + 1, !.specVersion = @ + 1, !.target = spec.target]
      /\ row' = Rebuilt(spec, op)
      /\ req' = [req EXCEPT ![e] = NoReq]
  BY DEF Commit, CasHolds
<1>2. wf'.lock = wf.lock + 1 /\ wf'.target = spec.target /\ wf'.status = wf.status
  BY <1>1 DEF DatesInv, DraftInv, TypeOK
<1>3. Valid(spec) /\ op \in Ops /\ (FromChat(op) => wf.status = "draft")
  BY <1>1 DEF DatesInv, ReqsOK, ReqOK
<1>4. RowsOK /\ StatusOK
  BY DEF DatesInv
<1>5. Accepts(op, reconstructSpec) /\ spec = Patch(op, reconstructSpec)
  BY <1>1 DEF DatesInv, DraftInv, EditFresh, Computed
<1>6. wf.status = "paused" => \A k \in Keys(spec) : spec.tasks[k].parent = NoParent
  <2> SUFFICES ASSUME wf.status = "paused"
               PROVE  \A k \in Keys(spec) : spec.tasks[k].parent = NoParent
    OBVIOUS
  <2>1. ~FromChat(op)
    BY <1>3
  <2>2. \A k \in DOMAIN row : row[k].task.parent = NoParent
    BY <1>4 DEF StatusOK
  <2>3. \A k \in Keys(reconstructSpec) : reconstructSpec.tasks[k].parent = NoParent
    BY <2>2 DEF reconstructSpec, Keys
  <2>4. Valid(reconstructSpec)
    BY <1>4 DEF RowsOK
  <2> QED
    BY <1>3, <1>5, <2>1, <2>3, <2>4, PatchOK
<1> HIDE DEF spec, op
<1>7. /\ RowsOK' /\ AnchorsHold' /\ reconstructSpec' = spec /\ DOMAIN row' = Keys(spec)
      /\ \A k \in Keys(spec) :
            /\ row'[k].task = spec.tasks[k]
            /\ row'[k].bar = resolveSchedule(spec, FrozenBars(spec, op))[k]
            /\ row'[k].ran = (k \in {j \in DOMAIN row : row[j].ran})
  <2>1. \A j \in DOMAIN row : row[j].ran => \A k \in Keys(spec) : spec.tasks[k].parent = NoParent
    BY <1>1, <1>4, <1>6 DEF StatusOK
  <2> QED
    BY <1>1, <1>2, <1>3, <1>4, <2>1, RebuiltRows
<1>8. StatusOK'
  <2>1. CASE wf.status = "draft"
    <3>1. {j \in DOMAIN row : row[j].ran} = {}
      BY <1>4, <2>1 DEF StatusOK
    <3> QED
      BY <1>2, <1>7, <2>1, <3>1 DEF StatusOK
  <2>2. CASE wf.status = "paused"
    BY <1>2, <1>6, <1>7, <2>2 DEF StatusOK
  <2> QED
    BY <1>1, <2>1, <2>2
<1>9. \A d \in Editors : req'[d] = req[d] \/ req'[d] = NoReq
  BY <1>1 DEF DatesInv, DraftInv, TypeOK
<1>10. ReqsOK'
  BY <1>2, <1>9, OldRequestsOK
<1> QED
  BY <1>3, <1>6, <1>7, <1>8, <1>10 DEF spec, op

(* A task that starts moves no bar and changes no task.                    *)
LEMMA DispatchKeepsDates ==
    ASSUME DatesInv, NEW k \in DOMAIN row, Dispatch(k)
    PROVE  /\ RowsOK' /\ ReqsOK' /\ StatusOK' /\ AnchorsHold'
           /\ DOMAIN row' = DOMAIN row /\ \A j \in DOMAIN row : row'[j].bar = row[j].bar
<1>1. wf.status = "active" /\ row' = [row EXCEPT ![k].ran = TRUE] /\ UNCHANGED <<wf, req>>
  BY DEF Dispatch
<1>2. RowsOK /\ StatusOK /\ AnchorsHold /\ ReqsOK
  BY DEF DatesInv
<1>3. row[k] = [task |-> row[k].task, bar |-> row[k].bar, ran |-> row[k].ran]
      /\ row[k].task \in TaskSpecs /\ row[k].bar \in Bars
  BY <1>2, RowFields
<1>4. row \in [DOMAIN row -> [task : TaskSpecs, bar : Bars, ran : BOOLEAN]]
  BY <1>2 DEF RowsOK
<1>5. DOMAIN row' = DOMAIN row
  BY <1>1
<1>6. row'[k] = [task |-> row[k].task, bar |-> row[k].bar, ran |-> TRUE]
      /\ \A j \in DOMAIN row \ {k} : row'[j] = row[j]
  BY <1>1, <1>3, <1>4
<1>7. \A j \in DOMAIN row : /\ row'[j].task = row[j].task /\ row'[j].bar = row[j].bar
                            /\ row[j].ran => row'[j].ran
  BY <1>6
<1>8. row' \in [DOMAIN row' -> [task : TaskSpecs, bar : Bars, ran : BOOLEAN]]
  BY <1>3, <1>4, <1>5, <1>6, <1>1
<1>9. reconstructSpec' = reconstructSpec
  BY <1>1, <1>5, <1>7 DEF reconstructSpec
<1>10. RowsOK'
  BY <1>2, <1>5, <1>8, <1>9 DEF RowsOK
<1>11. AnchorsHold'
  <2> SUFFICES ASSUME NEW j \in DOMAIN row',
                      AnchoredToTask(reconstructSpec', j), ~row'[j].task.pinned, ~row'[j].ran
               PROVE  LET sched == row'[j].task.sched
                          date  == IF Children(reconstructSpec', sched.anchor) = {}
                                   THEN row'[sched.anchor].bar.due ELSE wf'.target
                      IN  row'[j].bar = applyBar(sched.offset + date, sched)
    BY Zenon DEF AnchorsHold
  <2>0. /\ j \in DOMAIN row /\ row'[j].task = row[j].task /\ wf' = wf
        /\ AnchoredToTask(reconstructSpec, j) /\ ~row[j].task.pinned /\ ~row[j].ran
    BY <1>1, <1>5, <1>7, <1>9
  <2> DEFINE sched == row[j].task.sched
  <2>1. sched.anchor \in DOMAIN row
    <3>1. Valid(reconstructSpec) /\ j \in Keys(reconstructSpec)
          /\ reconstructSpec.tasks[j] = row[j].task /\ Keys(reconstructSpec) = DOMAIN row
      BY <1>2, <2>0, RowFields DEF RowsOK, Keys, reconstructSpec
    <3> QED
      BY <2>0, <3>1 DEF Valid, validateTemplate, ReferencesResolve
  <2>2. row[j].bar = applyBar(sched.offset + (IF Children(reconstructSpec, sched.anchor) = {}
                                              THEN row[sched.anchor].bar.due ELSE wf.target), sched)
    BY <1>2, <2>0 DEF AnchorsHold
  <2>3. row'[sched.anchor].bar = row[sched.anchor].bar /\ row'[j].bar = row[j].bar
    BY <1>7, <2>0, <2>1
  <2> QED
    BY <1>9, <2>0, <2>2, <2>3
<1>12. StatusOK'
  BY <1>1, <1>2, <1>5, <1>7 DEF StatusOK
<1>13. ReqsOK'
  BY <1>1, <1>2 DEF ReqsOK, ReqOK
<1> QED
  BY <1>5, <1>7, <1>10, <1>11, <1>12, <1>13

(* Starting, pausing and resuming: a plan that runs has no hierarchy.      *)
LEMMA StatusKeepsDates ==
    ASSUME DatesInv, NEW from, NEW to, SetStatus(from, to), to # "draft",
           \A k \in DOMAIN row : row[k].task.parent = NoParent
    PROVE  RowsOK' /\ ReqsOK' /\ StatusOK' /\ AnchorsHold'
<1>1. wf' = [wf EXCEPT !.status = to, !.lock = @ + 1] /\ UNCHANGED <<row, req>>
  BY DEF SetStatus
<1>2. wf'.lock = wf.lock + 1 /\ wf'.status = to /\ wf'.target = wf.target
  BY <1>1 DEF DatesInv, DraftInv, TypeOK
<1>3. RowsOK' /\ AnchorsHold'
  BY <1>1, <1>2, PlanKept DEF DatesInv
<1>4. ReqsOK'
  BY <1>1, <1>2, OldRequestsOK
<1>5. StatusOK'
  BY <1>1, <1>2 DEF StatusOK
<1> QED
  BY <1>3, <1>4, <1>5

(* Every step keeps the invariant of the dates.                            *)
LEMMA NextDates == DatesInv /\ [Next]_vars => DatesInv'
<1> SUFFICES ASSUME DatesInv, [Next]_vars PROVE RowsOK' /\ ReqsOK' /\ StatusOK' /\ AnchorsHold'
  BY NextDraft DEF DatesInv
<1>i. RowsOK /\ ReqsOK /\ StatusOK /\ AnchorsHold /\ \A e \in Editors : ReqOK(req[e])
  BY DEF DatesInv, ReqsOK
<1>1. ASSUME UNCHANGED <<wf, row, req>> PROVE RowsOK' /\ ReqsOK' /\ StatusOK' /\ AnchorsHold'
  <2>1. RowsOK' /\ AnchorsHold'
    BY <1>1, <1>i, PlanKept
  <2> QED
    BY <1>1, <1>i, <2>1 DEF ReqsOK, ReqOK, StatusOK
<1>2. ASSUME NEW e \in Editors, NEW op \in Ops, RequestEdit(e, op)
      PROVE  RowsOK' /\ ReqsOK' /\ StatusOK' /\ AnchorsHold'
  <2>1. ReqOK(Patched(op, page[e], NoPreview))
    BY <1>2, <1>i, PatchedOK DEF RequestEdit
  <2> QED
    BY <1>2, <2>1, RequestKeepsDates DEF RequestEdit
<1>3. ASSUME NEW e \in Editors, NEW op \in Ops, RequestWrite(e, op) \/ RequestPreview(e, op)
      PROVE  RowsOK' /\ ReqsOK' /\ StatusOK' /\ AnchorsHold'
  <2> DEFINE r == [step |-> "read", op |-> op, expect |-> wf.lock]
  <2>1. req' = [req EXCEPT ![e] = r] /\ UNCHANGED <<wf, row>>
    BY <1>3 DEF RequestWrite, RequestPreview
  <2>2. ReqOK(r)
    BY <1>3 DEF ReqOK, RequestWrite, RequestPreview, FromChat
  <2> HIDE DEF r
  <2> QED
    BY <2>1, <2>2, RequestKeepsDates
<1>4. ASSUME NEW e \in Editors, ReadAndWrite(e)
      PROVE  RowsOK' /\ ReqsOK' /\ StatusOK' /\ AnchorsHold'
  <2>1. req' = [req EXCEPT ![e] = Patched(req[e].op, req[e].expect, NoPreview)] /\ UNCHANGED <<wf, row>>
    BY <1>4 DEF ReadAndWrite
  <2>2. req[e].op \in Ops /\ (FromChat(req[e].op) /\ req[e].expect = wf.lock => wf.status = "draft")
    BY <1>4, <1>i DEF ReadAndWrite, ReqOK
  <2>3. ReqOK(Patched(req[e].op, req[e].expect, NoPreview))
    BY <1>i, <2>2, PatchedOK
  <2> QED
    BY <2>1, <2>3, RequestKeepsDates
<1>5. ASSUME NEW e \in Editors, ShowPreview(e)
      PROVE  RowsOK' /\ ReqsOK' /\ StatusOK' /\ AnchorsHold'
  <2> DEFINE r == [step |-> "shown", op |-> req[e].op,
                   shown |-> [lock |-> req[e].expect,
                              diff |-> computeCascadeDiff(reconstructSpec, req[e].op.at)]]
  <2>1. req' = [req EXCEPT ![e] = r] /\ UNCHANGED <<wf, row>>
    BY <1>5 DEF ShowPreview
  <2>2. req[e].op \in Ops /\ ~FromChat(req[e].op)
    BY <1>5, <1>i DEF ShowPreview, ReqOK
  <2>3. r.step = "shown" /\ r.op = req[e].op
    OBVIOUS
  <2> HIDE DEF r
  <2>4. ReqOK(r)
    BY <2>2, <2>3 DEF ReqOK
  <2> QED
    BY <2>1, <2>4, RequestKeepsDates
<1>6. ASSUME NEW e \in Editors, SavePreviewed(e)
      PROVE  RowsOK' /\ ReqsOK' /\ StatusOK' /\ AnchorsHold'
  <2>1. req' = [req EXCEPT ![e] = Patched(req[e].op, page[e], req[e].shown)] /\ UNCHANGED <<wf, row>>
    BY <1>6 DEF SavePreviewed
  <2>2. req[e].op \in Ops /\ ~FromChat(req[e].op)
    BY <1>6, <1>i DEF SavePreviewed, ReqOK
  <2>3. ReqOK(Patched(req[e].op, page[e], req[e].shown))
    BY <1>i, <2>2, PatchedOK
  <2> QED
    BY <2>1, <2>3, RequestKeepsDates
<1>7. ASSUME NEW e \in Editors, ClosePreview(e) \/ Refuse(e)
      PROVE  RowsOK' /\ ReqsOK' /\ StatusOK' /\ AnchorsHold'
  <2>1. ReqOK(NoReq)
    BY DEF ReqOK, NoReq
  <2> QED
    BY <1>7, <2>1, RequestKeepsDates DEF ClosePreview, Refuse
<1>8. ASSUME startWorkflow PROVE RowsOK' /\ ReqsOK' /\ StatusOK' /\ AnchorsHold'
  <2>1. \A k \in DOMAIN row : row[k].task.parent = NoParent
    <3>1. \A k \in Keys(reconstructSpec) : reconstructSpec.tasks[k].parent = NoParent
      BY <1>8 DEF startWorkflow, validateStart
    <3> QED
      BY <1>i, <3>1, RowFields
  <2> QED
    BY <1>8, <2>1, StatusKeepsDates DEF startWorkflow
<1>9. ASSUME pauseWorkflow \/ resumeWorkflow PROVE RowsOK' /\ ReqsOK' /\ StatusOK' /\ AnchorsHold'
  <2>1. \A k \in DOMAIN row : row[k].task.parent = NoParent
    BY <1>9, <1>i DEF pauseWorkflow, resumeWorkflow, SetStatus, StatusOK
  <2> QED
    BY <1>9, <2>1, StatusKeepsDates DEF pauseWorkflow, resumeWorkflow
<1> QED
  BY <1>1, <1>2, <1>3, <1>4, <1>5, <1>6, <1>7, <1>8, <1>9, CommitKeepsDates, DispatchKeepsDates
     DEF Next, vars, LoadPage

(* The invariant of the dates holds always.                                *)
LEMMA AlwaysDates == Spec => []DatesInv
BY InitDates, NextDates, PTL DEF Spec

(* A task that is neither pinned nor frozen is due where its schedule puts *)
(* it relative to its anchor (the due in the row of a leaf, the target for *)
(* a summary task), whatever was edited, started or run in between         *)
(* (resolveSchedule, diffApplySpecRows).                                   *)
THEOREM DatesFollowAnchors == Spec => []AnchorsHold
<1>1. DatesInv => AnchorsHold
  BY DEF DatesInv
<1> QED
  BY <1>1, AlwaysDates, PTL

(* The critical path is exactly the leaves whose delay delays the plan,    *)
(* on every plan the editors can make (computeCriticalPath).               *)
THEOREM CriticalPathIsRight == Spec => []CriticalIsWhatDelays
<1>1. RowsOK => CriticalIsWhatDelays
  <2> SUFFICES ASSUME RowsOK PROVE CriticalIsWhatDelays
    OBVIOUS
  <2> DEFINE spec == reconstructSpec
             L == CpmLeaves(spec)
             dur == [k \in L |-> row[k].bar.end - row[k].bar.start]
             span == Makespan(spec, dur)
  <2>1. Valid(spec)
    BY DEF RowsOK
  <2>2. L \subseteq DOMAIN row
    BY DEF CpmLeaves, Keys, reconstructSpec
  <2>3. \A k \in L : row[k].bar.end - row[k].bar.start \in Nat
    <3> SUFFICES ASSUME NEW k \in L PROVE row[k].bar.end - row[k].bar.start \in Nat
      OBVIOUS
    <3>1. row[k].bar \in Bars
      BY <2>2, RowFields
    <3>2. row[k].bar.start \in Int /\ row[k].bar.end \in Int /\ row[k].bar.start <= row[k].bar.end
      BY <3>1, BarsFields
    <3> QED
      BY <3>2
  <2>4. dur \in [L -> Nat]
    BY <2>3
  <2> HIDE DEF spec, dur
  <2>5. \A k \in L : LatestFinish(spec, dur)[k] = EarliestFinish(spec, dur)[k]
                     <=> Makespan(spec, [dur EXCEPT ![k] = @ + 1]) > span
    BY <2>1, <2>4, CriticalDelays
  <2>6. computeCriticalPath(spec, dur) = {k \in L : LatestFinish(spec, dur)[k] = EarliestFinish(spec, dur)[k]}
    BY Zenon DEF computeCriticalPath
  <2>7. computeCriticalPath(spec, dur)
          = {k \in L : Makespan(spec, [dur EXCEPT ![k] = @ + 1]) > span}
    BY <2>5, <2>6, Zenon
  <2> QED
    BY <2>7, Zenon DEF CriticalIsWhatDelays, spec, dur
<1> QED
  BY <1>1, AlwaysDates, PTL DEF DatesInv

(* No edit moves a task that has run, and none but a drag of the task      *)
(* itself moves a pinned one (updateWorkflowDraftSpec, diffApplySpecRows). *)
THEOREM FrozenTasksDoNotMove == Spec => FrozenTasksStay
<1>1. DatesInv /\ [Next]_vars =>
        [\A k \in DOMAIN row \cap DOMAIN row' :
            row'[k].bar # row[k].bar =>
                /\ ~row[k].ran
                /\ row[k].task.pinned /\ row'[k].task.pinned =>
                    \E e \in Editors : Commits(e) /\ k \in excludeFromFreeze(req[e].op)]_vars
  <2> SUFFICES ASSUME DatesInv, Next, NEW k \in DOMAIN row \cap DOMAIN row', row'[k].bar # row[k].bar
               PROVE  /\ ~row[k].ran
                      /\ row[k].task.pinned /\ row'[k].task.pinned =>
                            \E e \in Editors : Commits(e) /\ k \in excludeFromFreeze(req[e].op)
    OBVIOUS
  <2>1. row' # row
    OBVIOUS
  <2>2. \A j \in DOMAIN row : ~Dispatch(j)
    BY DispatchKeepsDates
  <2>3. PICK e \in Editors : Commit(e)
    BY <2>1, <2>2 DEF Next, LoadPage, RequestEdit, RequestWrite, RequestPreview, ReadAndWrite,
       ShowPreview, SavePreviewed, ClosePreview, Refuse, startWorkflow, pauseWorkflow,
       resumeWorkflow, SetStatus
  <2> DEFINE spec == req[e].spec
             op == req[e].op
             frozen == FrozenBars(spec, op)
  <2>4. /\ wf.status = "paused" => \A j \in Keys(spec) : spec.tasks[j].parent = NoParent
        /\ Valid(spec) /\ k \in Keys(spec)
        /\ row'[k].task = spec.tasks[k] /\ row'[k].bar = resolveSchedule(spec, frozen)[k]
    BY <2>3, CommitKeepsDates
  <2>5. FrozenOK(frozen)
    BY FrozenBarsOK DEF DatesInv
  <2>6. Commits(e) /\ wf.status \in {"draft", "paused"}
    <3>1. /\ req[e].step = "commit" /\ req' = [req EXCEPT ![e] = NoReq] /\ wf.status \in {"draft", "paused"}
          /\ wf' = [wf EXCEPT !.lock = @ + 1, !.specVersion = @ + 1, !.target = spec.target]
      BY <2>3 DEF Commit, CasHolds
    <3>2. wf'.specVersion = wf.specVersion + 1 /\ req'[e] = NoReq
      BY <3>1 DEF DatesInv, DraftInv, TypeOK
    <3> QED
      BY <3>1, <3>2 DEF Commits
  <2>7. ASSUME k \in DOMAIN frozen, Children(spec, k) = {} PROVE FALSE
    <3>1. frozen[k] = row[k].bar
      BY <2>7 DEF FrozenBars
    <3>2. resolveSchedule(spec, frozen)[k] = BarOf(spec, frozen, resolveBars(spec, frozen), k)
      BY <2>4, <2>5, <2>7, LeafKeepsBar
    <3>3. spec.tasks[k].sched.mode \in Modes
      BY <2>4, TaskFields DEF Valid
    <3> HIDE DEF frozen
    <3>4. BarOf(spec, frozen, resolveBars(spec, frozen), k) = frozen[k]
      BY <2>4, <2>7, <3>3, BarOfCases
    <3> QED
      BY <2>4, <3>1, <3>2, <3>4
  <2>8. ~row[k].ran
    <3> SUFFICES ASSUME row[k].ran PROVE FALSE
      OBVIOUS
    <3>1. wf.status = "paused"
      BY <2>6 DEF DatesInv, StatusOK
    <3>2. k \in DOMAIN frozen
      BY <2>4, <3>1 DEF FrozenBars, isFrozen
    <3>3. k # NoParent
      BY <2>4, TasksAssumption DEF Valid, WellFormed
    <3>4. Children(spec, k) = {}
      BY <2>4, <3>1, <3>3 DEF Children
    <3> QED
      BY <2>7, <3>2, <3>4
  <2>9. ASSUME row[k].task.pinned, row'[k].task.pinned PROVE k \in excludeFromFreeze(op)
    <3> SUFFICES ASSUME k \notin excludeFromFreeze(op) PROVE FALSE
      OBVIOUS
    <3>1. spec.tasks[k].pinned
      BY <2>4, <2>9
    <3>2. k \in DOMAIN frozen
      BY <2>4, <3>1 DEF FrozenBars, PinnedTasks
    <3>3. Children(spec, k) = {}
      BY <2>4, <3>1 DEF Valid, validateTemplate, SummariesDerive
    <3> QED
      BY <2>7, <3>2, <3>3
  <2> QED
    BY <2>6, <2>8, <2>9
<1> QED
  BY <1>1, AlwaysDates, PTL DEF Spec, FrozenTasksStay

-----------------------------------------------------------------------------
(* 10. Previews of a release move.                                         *)

\* The bars of the pinned tasks.
Pins(rows) == [k \in {k \in DOMAIN rows : rows[k].task.pinned} |-> rows[k].bar]

\* In a draft the rows of the leaves are the plan resolved with its pins where
\* they are.
DraftResolved ==
    wf.status = "draft" =>
        \A k \in CpmLeaves(reconstructSpec) : row[k].bar = resolveBars(reconstructSpec, Pins(row))[k]

\* What was shown at the current version is what the plan as it is now gives.
ShownFresh(r) ==
    /\ r.step = "read" /\ ~FromChat(r.op) => r.op.kind = "move"
    /\ r.step = "shown" => r.op.kind = "move"
    /\ r.step \in {"shown", "commit"} =>
        /\ r.shown.lock \in Int /\ r.shown.lock <= wf.lock
        /\ r.shown.lock = wf.lock =>
            /\ r.op.kind = "move"
            /\ r.shown.diff = computeCascadeDiff(reconstructSpec, r.op.at)

\* The inductive invariant of the previews.
PreviewInv == DatesInv /\ DraftResolved /\ \A e \in Editors : ShownFresh(req[e])

(* To freeze tasks where they are anyway moves nothing.                    *)
LEMMA FreezeInPlace ==
    ASSUME NEW spec, Valid(spec), NEW frozen, FrozenOK(frozen), NEW pins, FrozenOK(pins),
           \A k \in Keys(spec) : k \in DOMAIN frozen => k \in DOMAIN pins,
           \A k \in Keys(spec) : k \in DOMAIN pins => pins[k] = resolveBars(spec, frozen)[k]
    PROVE  \A k \in Keys(spec) : resolveBars(spec, pins)[k] = resolveBars(spec, frozen)[k]
<1> DEFINE f == resolveBars(spec, frozen)
           g == resolveBars(spec, pins)
           B == {k \in Keys(spec) : g[k] # f[k]}
<1>1. \A k \in Keys(spec) : f[k] = BarOf(spec, frozen, f, k)
  BY FirstPass
<1>2. \A k \in Keys(spec) : g[k] = BarOf(spec, pins, g, k)
  BY FirstPass
<1> HIDE DEF f, g
<1> SUFFICES ASSUME B # {} PROVE FALSE
  BY DEF f, g
<1>3. PICK k \in B : Anchors(spec)[k] \cap B = {}
  BY AnchorsFounded DEF Valid, Founded
<1>4. AnchoredToTask(spec, k) => f[spec.tasks[k].sched.anchor] = g[spec.tasks[k].sched.anchor]
  BY <1>3, AnchorsFounded DEF Valid, Anchors
<1>5. spec.tasks[k].sched.mode \in Modes
  BY TaskFields DEF Valid
<1>6. CASE k \in DOMAIN pins
  <2>1. BarOf(spec, pins, g, k) = pins[k]
    BY <1>5, <1>6, BarOfCases
  <2>2. pins[k] = f[k]
    BY <1>6 DEF f
  <2> QED
    BY <1>2, <2>1, <2>2
<1>7. CASE k \notin DOMAIN pins
  <2>1. k \notin DOMAIN frozen
    BY <1>7
  <2>2. BarOf(spec, pins, g, k) = BarOf(spec, frozen, g, k)
    BY <1>5, <1>7, <2>1, BarOfCases DEF AnchoredToTask, IsRelative
  <2>3. BarOf(spec, frozen, g, k) = BarOf(spec, frozen, f, k)
    BY <1>4, <1>5, BarOfLocal
  <2> QED
    BY <1>1, <1>2, <2>2, <2>3
<1> QED
  BY <1>6, <1>7

\* Two resolutions before and after a move agree on the due date of a task:
\* neither changes it, or both change it alike.
Alike(before, after, old, new) ==
    \/ before.due = after.due /\ old.due = new.due
    \/ before.due = old.due /\ after.due = new.due

(* A move of the target date is the same for the plan with its pins where  *)
(* it would put them and with the pins elsewhere: what follows a pin stays *)
(* with it in both, and what follows the target moves in both.             *)
LEMMA MovesAlike ==
    ASSUME NEW spec, Valid(spec), NEW moved, Valid(moved), moved.tasks = spec.tasks,
           NEW points, FrozenOK(points), NEW pins, FrozenOK(pins), DOMAIN points = DOMAIN pins,
           \A k \in Keys(spec) : k \in DOMAIN pins =>
                points[k].due = resolveBars(spec, NoBars)[k].due
    PROVE  \A k \in Keys(spec) :
                Alike(resolveBars(spec, NoBars)[k], resolveBars(moved, points)[k],
                      resolveBars(spec, pins)[k], resolveBars(moved, pins)[k])
<1> DEFINE f == resolveBars(spec, NoBars)
           g == resolveBars(moved, points)
           p == resolveBars(spec, pins)
           q == resolveBars(moved, pins)
           B == {k \in Keys(spec) : ~Alike(f[k], g[k], p[k], q[k])}
<1>0. Keys(moved) = Keys(spec)
  BY DEF Keys
<1>1. \A k \in Keys(spec) : /\ f[k] = BarOf(spec, NoBars, f, k)
                            /\ g[k] = BarOf(moved, points, g, k)
                            /\ p[k] = BarOf(spec, pins, p, k)
                            /\ q[k] = BarOf(moved, pins, q, k)
  <2>1. \A k \in Keys(spec) : f[k] = BarOf(spec, NoBars, f, k)
    BY FirstPass, NoBarsOK
  <2>2. \A k \in Keys(spec) : g[k] = BarOf(moved, points, g, k)
    BY <1>0, FirstPass
  <2>3. \A k \in Keys(spec) : p[k] = BarOf(spec, pins, p, k)
    BY FirstPass
  <2>4. \A k \in Keys(spec) : q[k] = BarOf(moved, pins, q, k)
    BY <1>0, FirstPass
  <2> QED
    BY <2>1, <2>2, <2>3, <2>4
<1>p. \A k \in Keys(spec) : k \in DOMAIN pins => points[k].due = f[k].due
  OBVIOUS
<1> HIDE DEF f, g, p, q
<1> SUFFICES ASSUME B # {} PROVE FALSE
  BY DEF f, g, p, q
<1>3. PICK k \in B : Anchors(spec)[k] \cap B = {}
  BY AnchorsFounded DEF Valid, Founded
<1> DEFINE sched == spec.tasks[k].sched
           a == sched.anchor
<1>4. AnchoredToTask(spec, k) => Alike(f[a], g[a], p[a], q[a])
  BY <1>3, AnchorsFounded DEF Valid, Anchors
<1>5. sched.mode \in Modes /\ k \in Keys(spec) /\ k \in Keys(moved)
      /\ moved.tasks[k] = spec.tasks[k] /\ k \notin DOMAIN NoBars
  BY <1>0, TaskFields DEF Valid, NoBars
<1>6. CASE k \in DOMAIN pins
  <2>1. g[k] = points[k] /\ p[k] = pins[k] /\ q[k] = pins[k]
    BY <1>1, <1>5, <1>6, Zenon DEF BarOf
  <2> QED
    BY <1>5, <1>6, <1>p, <2>1 DEF Alike
<1>7. CASE k \notin DOMAIN pins /\ ~AnchoredToTask(spec, k)
  <2> DEFINE I(s) == CASE sched.mode = "none"     -> s.target
                       [] sched.mode = "absolute" -> sched.at
                       [] sched.mode = "relative" -> sched.offset + s.target
  <2>0. AnchoredToTask(moved, k) <=> AnchoredToTask(spec, k)
    BY <1>5 DEF AnchoredToTask, IsRelative
  <2>1. f[k] = applyBar(I(spec), sched) /\ p[k] = applyBar(I(spec), sched)
    <3>1. BarOf(spec, NoBars, f, k) = applyBar(I(spec), sched)
      BY <1>5, <1>7, BarOfCases DEF Modes
    <3>2. BarOf(spec, pins, p, k) = applyBar(I(spec), sched)
      BY <1>5, <1>7, BarOfCases DEF Modes
    <3> QED
      BY <1>1, <1>5, <3>1, <3>2
  <2>2. g[k] = applyBar(I(moved), sched) /\ q[k] = applyBar(I(moved), sched)
    <3>1. BarOf(moved, points, g, k) = applyBar(I(moved), sched)
      BY <1>5, <1>7, <2>0, BarOfCases DEF Modes
    <3>2. BarOf(moved, pins, q, k) = applyBar(I(moved), sched)
      BY <1>5, <1>7, <2>0, BarOfCases DEF Modes
    <3> QED
      BY <1>1, <1>5, <3>1, <3>2
  <2> QED
    BY <2>1, <2>2 DEF Alike
<1>8. CASE k \notin DOMAIN pins /\ AnchoredToTask(spec, k)
  <2> DEFINE At(bar) == applyBar(sched.offset + bar[a].due, sched)
  <2>0. AnchoredToTask(moved, k) /\ sched.mode = "relative" /\ a # Target
    BY <1>5, <1>8 DEF AnchoredToTask, IsRelative
  <2>1. f[k] = At(f) /\ p[k] = At(p)
    <3>1. BarOf(spec, NoBars, f, k) = At(f)
      BY <1>5, <1>8, <2>0, BarOfCases
    <3>2. BarOf(spec, pins, p, k) = At(p)
      BY <1>5, <1>8, <2>0, BarOfCases
    <3> QED
      BY <1>1, <1>5, <3>1, <3>2
  <2>2. g[k] = At(g) /\ q[k] = At(q)
    <3>1. BarOf(moved, points, g, k) = At(g)
      BY <1>5, <1>8, <2>0, BarOfCases
    <3>2. BarOf(moved, pins, q, k) = At(q)
      BY <1>5, <1>8, <2>0, BarOfCases
    <3> QED
      BY <1>1, <1>5, <3>1, <3>2
  <2> QED
    BY <1>4, <1>8, <2>1, <2>2 DEF Alike
<1> QED
  BY <1>6, <1>7, <1>8

\* The rows of a plan.
RowsFit(rows, spec) ==
    /\ DOMAIN rows = Keys(spec)
    /\ \A k \in Keys(spec) : rows[k].task = spec.tasks[k] /\ rows[k].bar \in Bars

(* The pins of a valid plan are bars, and of leaves.                       *)
LEMMA PinsOK ==
    ASSUME NEW spec, Valid(spec), NEW rows, RowsFit(rows, spec)
    PROVE  /\ DOMAIN Pins(rows) = {k \in Keys(spec) : spec.tasks[k].pinned}
           /\ FrozenOK(Pins(rows))
           /\ \A k \in DOMAIN Pins(rows) : k \in CpmLeaves(spec) /\ Pins(rows)[k] = rows[k].bar
<1>1. DOMAIN Pins(rows) = {k \in Keys(spec) : spec.tasks[k].pinned}
      /\ \A k \in DOMAIN Pins(rows) : Pins(rows)[k] = rows[k].bar
  BY DEF Pins, RowsFit
<1>2. FrozenOK(Pins(rows))
  BY <1>1 DEF FrozenOK, RowsFit
<1>3. ASSUME NEW k \in DOMAIN Pins(rows) PROVE k \in CpmLeaves(spec)
  BY <1>1 DEF Valid, validateTemplate, SummariesDerive, CpmLeaves
<1> QED
  BY <1>1, <1>2, <1>3

(* Rows written for a plan, with nothing frozen but pinned tasks, are that *)
(* plan resolved with its pins where they are.                             *)
LEMMA ResolvedRows ==
    ASSUME NEW spec, Valid(spec), NEW rows, RowsFit(rows, spec), NEW frozen, FrozenOK(frozen),
           \A k \in Keys(spec) : k \in DOMAIN frozen => spec.tasks[k].pinned,
           \A k \in Keys(spec) : rows[k].bar = resolveSchedule(spec, frozen)[k]
    PROVE  \A k \in CpmLeaves(spec) : rows[k].bar = resolveBars(spec, Pins(rows))[k]
<1> DEFINE pins == Pins(rows)
<1>p. /\ DOMAIN pins = {k \in Keys(spec) : spec.tasks[k].pinned} /\ FrozenOK(pins)
      /\ \A k \in DOMAIN pins : k \in CpmLeaves(spec) /\ pins[k] = rows[k].bar
  BY PinsOK
<1> HIDE DEF pins
<1>1. \A k \in CpmLeaves(spec) : rows[k].bar = resolveBars(spec, frozen)[k]
  <2> TAKE k \in CpmLeaves(spec)
  <2>1. k \in Keys(spec) /\ Children(spec, k) = {}
    BY DEF CpmLeaves
  <2>2. resolveSchedule(spec, frozen)[k] = resolveBars(spec, frozen)[k]
    BY <2>1, LeafKeepsBar
  <2> QED
    BY <2>1, <2>2
<1>2. \A k \in Keys(spec) : k \in DOMAIN frozen => k \in DOMAIN pins
  BY <1>p
<1>3. \A k \in Keys(spec) : k \in DOMAIN pins => pins[k] = resolveBars(spec, frozen)[k]
  BY <1>1, <1>p
<1>4. \A k \in Keys(spec) : resolveBars(spec, pins)[k] = resolveBars(spec, frozen)[k]
  BY <1>2, <1>3, <1>p, FreezeInPlace
<1> QED
  BY <1>1, <1>4 DEF CpmLeaves, pins

(* The rows are those of the plan they stand for.                          *)
LEMMA RowsFitPlan == RowsOK => RowsFit(row, reconstructSpec)
<1> SUFFICES ASSUME RowsOK PROVE RowsFit(row, reconstructSpec)
  OBVIOUS
<1>1. DOMAIN row = Keys(reconstructSpec)
  BY DEF reconstructSpec, Keys
<1> QED
  BY <1>1, RowFields DEF RowsFit

(* Saving a move in a draft does what the preview of the plan says.        *)
LEMMA PreviewHolds ==
    ASSUME RowsOK, DraftResolved, wf.status = "draft", NEW moved, Valid(moved),
           moved = [reconstructSpec EXCEPT !.target = moved.target],
           \A k \in DOMAIN row : row'[k].bar = resolveSchedule(moved, Pins(row))[k]
    PROVE  computeCascadeDiff(reconstructSpec, moved.target) =
              [k \in {k \in DOMAIN row : /\ row'[k].bar.due # row[k].bar.due
                                         /\ ~row[k].task.pinned
                                         /\ Children(reconstructSpec, k) = {}}
                  |-> row'[k].bar.due]
<1> DEFINE spec == reconstructSpec
           before == resolveSchedule(spec, NoBars)
           pinned == {k \in Keys(spec) : spec.tasks[k].pinned}
           points == [k \in pinned |->
                        [start |-> before[k].due, end |-> before[k].due, due |-> before[k].due]]
           after == resolveSchedule(moved, points)
           listed == {k \in Keys(spec) \ pinned :
                        Children(spec, k) = {} /\ before[k].due # after[k].due}
           changed == {k \in DOMAIN row : /\ row'[k].bar.due # row[k].bar.due
                                          /\ ~row[k].task.pinned
                                          /\ Children(spec, k) = {}}
<1>0. computeCascadeDiff(spec, moved.target) = [k \in listed |-> after[k].due]
  BY Zenon DEF computeCascadeDiff
<1>1. /\ Valid(spec) /\ Keys(spec) = DOMAIN row
      /\ \A k \in DOMAIN row : spec.tasks[k] = row[k].task
      /\ moved.tasks = spec.tasks /\ Keys(moved) = Keys(spec)
      /\ \A k \in Keys(spec) : Children(moved, k) = Children(spec, k)
  BY DEF RowsOK, reconstructSpec, Keys, Children
<1>2. pinned = DOMAIN Pins(row)
  BY <1>1, PinsOK, RowsFitPlan
<1>3. FrozenOK(points)
  <2>1. before \in [Keys(spec) -> Bars]
    BY <1>1, SecondPass, NoBarsOK
  <2> HIDE DEF before
  <2>2. \A k \in pinned : before[k].due \in Int
    BY <2>1, BarsFields
  <2>3. \A k \in DOMAIN points : points[k] \in Bars
    BY <2>2, BarsFields
  <2> QED
    BY <2>3 DEF FrozenOK
<1>4. FrozenOK(Pins(row)) /\ \A k \in pinned : Children(spec, k) = {}
  BY <1>1, <1>2, PinsOK, RowsFitPlan DEF CpmLeaves
<1>5. ASSUME NEW k \in Keys(spec), Children(spec, k) = {}
      PROVE  /\ before[k] = resolveBars(spec, NoBars)[k]
             /\ after[k] = resolveBars(moved, points)[k]
             /\ row[k].bar = resolveBars(spec, Pins(row))[k]
             /\ row'[k].bar = resolveBars(moved, Pins(row))[k]
  <2>1. before[k] = resolveBars(spec, NoBars)[k]
    BY <1>1, <1>5, LeafKeepsBar, NoBarsOK
  <2>2. k \in Keys(moved) /\ Children(moved, k) = {}
    BY <1>1, <1>5
  <2>3. row[k].bar = resolveBars(spec, Pins(row))[k]
    BY <1>5 DEF DraftResolved, CpmLeaves
  <2>4. row'[k].bar = resolveSchedule(moved, Pins(row))[k]
    BY <1>1
  <2> HIDE DEF points, before, spec
  <2>5. resolveSchedule(moved, points)[k] = resolveBars(moved, points)[k]
    BY <1>3, <2>2, LeafKeepsBar
  <2>6. resolveSchedule(moved, Pins(row))[k] = resolveBars(moved, Pins(row))[k]
    BY <1>4, <2>2, LeafKeepsBar
  <2> QED
    BY <2>1, <2>3, <2>4, <2>5, <2>6
<1>6. \A k \in Keys(spec) : k \in DOMAIN Pins(row) => points[k].due = resolveBars(spec, NoBars)[k].due
  <2> SUFFICES ASSUME NEW k \in pinned PROVE points[k].due = resolveBars(spec, NoBars)[k].due
    BY <1>2
  <2>1. points[k].due = before[k].due
    OBVIOUS
  <2>2. k \in Keys(spec) /\ Children(spec, k) = {}
    BY <1>4
  <2> HIDE DEF points, before
  <2> QED
    BY <1>5, <2>1, <2>2
<1>7. DOMAIN points = DOMAIN Pins(row)
  BY <1>2
<1>8. \A k \in Keys(spec) :
            Alike(resolveBars(spec, NoBars)[k], resolveBars(moved, points)[k],
                  resolveBars(spec, Pins(row))[k], resolveBars(moved, Pins(row))[k])
  <2> HIDE DEF points, spec
  <2> QED
    BY <1>1, <1>3, <1>4, <1>6, <1>7, MovesAlike
<1>9. \A k \in Keys(spec) : Children(spec, k) = {} =>
            Alike(before[k], after[k], row[k].bar, row'[k].bar)
  <2> HIDE DEF points, spec, before, after
  <2> QED
    BY <1>5, <1>8
<1>10. listed = changed /\ \A k \in listed : after[k].due = row'[k].bar.due
  <2> HIDE DEF points, before, after, spec
  <2>1. \A k \in Keys(spec) : k \in pinned <=> row[k].task.pinned
    BY <1>1
  <2> QED
    BY <1>1, <1>9, <2>1 DEF Alike
<1> HIDE DEF listed, changed, after, before, points
<1>11. [k \in listed |-> after[k].due] = [k \in changed |-> row'[k].bar.due]
  BY <1>10
<1> QED
  BY <1>0, <1>11 DEF changed

(* A workflow is created with nothing shown to anybody.                    *)
LEMMA InitPreview == Init => PreviewInv
<1> SUFFICES ASSUME Init PROVE PreviewInv
  OBVIOUS
<1>1. PICK spec \in InitSpecs :
        /\ wf = [status |-> "draft", lock |-> 0, specVersion |-> 0, target |-> spec.target]
        /\ row = BuildRows(spec, resolveSchedule(spec, NoBars), {})
        /\ req = [e \in Editors |-> NoReq]
  BY DEF Init, createWorkflowFromSpec
<1>2. Valid(spec)
  BY InitSpecsValid DEF Valid
<1>3. DatesInv /\ RowsOK
  BY InitDates DEF DatesInv
<1>4. reconstructSpec = spec /\ \A k \in Keys(spec) : row[k].bar = resolveSchedule(spec, NoBars)[k]
  <2>1. spec = [target |-> spec.target, tasks |-> spec.tasks]
        /\ spec.tasks = [k \in Keys(spec) |-> spec.tasks[k]]
    BY <1>2 DEF Valid, WellFormed
  <2>2. DOMAIN row = Keys(spec) /\ wf.target = spec.target
        /\ \A k \in Keys(spec) : row[k].task = spec.tasks[k]
    BY <1>1 DEF BuildRows
  <2>3. reconstructSpec = [target |-> spec.target, tasks |-> [k \in Keys(spec) |-> spec.tasks[k]]]
    BY <2>2 DEF reconstructSpec
  <2>4. \A k \in Keys(spec) : row[k].bar = resolveSchedule(spec, NoBars)[k]
    BY <1>1 DEF BuildRows
  <2> QED
    BY <2>1, <2>3, <2>4
<1>5. DraftResolved
  <2>1. \A k \in Keys(spec) : k \in DOMAIN NoBars => spec.tasks[k].pinned
    BY DEF NoBars
  <2>2. \A k \in CpmLeaves(spec) : row[k].bar = resolveBars(spec, Pins(row))[k]
    BY <1>2, <1>3, <1>4, <2>1, NoBarsOK, RowsFitPlan, ResolvedRows
  <2> QED
    BY <1>4, <2>2 DEF DraftResolved
<1> QED
  BY <1>1, <1>3, <1>5 DEF PreviewInv, ShownFresh, NoReq

(* One request changes and no row.                                         *)
LEMMA RequestKeepsPreview ==
    ASSUME PreviewInv, UNCHANGED <<wf, row>>, NEW e \in Editors, NEW r, ShownFresh(r),
           req' = [req EXCEPT ![e] = r]
    PROVE  DraftResolved' /\ \A d \in Editors : ShownFresh(req[d])'
<1>1. reconstructSpec' = reconstructSpec /\ Pins(row') = Pins(row)
  BY DEF reconstructSpec, Pins
<1>2. DraftResolved'
  BY <1>1 DEF PreviewInv, DraftResolved
<1>3. req'[e] = r /\ \A d \in Editors \ {e} : req'[d] = req[d]
  BY DEF PreviewInv, DatesInv, DraftInv, TypeOK
<1>4. ASSUME NEW d \in Editors PROVE ShownFresh(req[d])'
  <2>1. ShownFresh(req'[d])
    BY <1>3 DEF PreviewInv
  <2> QED
    BY <1>1, <2>1 DEF ShownFresh
<1> QED
  BY <1>2, <1>4

(* The version moves on: nothing shown is of the new one.                  *)
LEMMA OldPreviews ==
    ASSUME PreviewInv, wf'.lock = wf.lock + 1,
           \A e \in Editors : req'[e] = req[e] \/ req'[e] = NoReq
    PROVE  \A e \in Editors : ShownFresh(req[e])'
<1> TAKE e \in Editors
<1>1. CASE req'[e] = NoReq
  BY <1>1 DEF ShownFresh, NoReq
<1>2. CASE req'[e] = req[e]
  <2>1. ShownFresh(req[e]) /\ wf.lock \in Nat
    BY DEF PreviewInv, DatesInv, DraftInv, TypeOK
  <2> QED
    BY <1>2, <2>1 DEF ShownFresh
<1> QED
  BY <1>1, <1>2

(* What Patched leaves to commit carries what was shown.                   *)
LEMMA PatchedShown ==
    ASSUME NEW op, NEW expect, NEW shown, shown.lock \in Int, shown.lock <= wf.lock,
           shown.lock = wf.lock => /\ op.kind = "move"
                                   /\ shown.diff = computeCascadeDiff(reconstructSpec, op.at)
    PROVE  ShownFresh(Patched(op, expect, shown))
<1> DEFINE spec == Patch(op, reconstructSpec)
<1>1. CASE Accepts(op, reconstructSpec) /\ Editable(op) /\ validateTemplate(spec)
  <2> DEFINE r == [step |-> "commit", op |-> op, expect |-> expect, spec |-> spec, shown |-> shown]
  <2>1. Patched(op, expect, shown) = r
    BY <1>1, Zenon DEF Patched
  <2>2. r.step = "commit" /\ r.op = op /\ r.shown = shown
    OBVIOUS
  <2> HIDE DEF r
  <2> QED
    BY <2>1, <2>2 DEF ShownFresh
<1>2. CASE ~(Accepts(op, reconstructSpec) /\ Editable(op) /\ validateTemplate(spec))
  <2>1. Patched(op, expect, shown) = NoReq
    BY <1>2, Zenon DEF Patched
  <2> QED
    BY <2>1 DEF NoReq, ShownFresh
<1> QED
  BY <1>1, <1>2

(* An edit of a draft leaves it resolved.                                  *)
LEMMA CommitKeepsPreview ==
    ASSUME PreviewInv, NEW e \in Editors, Commit(e), DatesInv'
    PROVE  DraftResolved' /\ \A d \in Editors : ShownFresh(req[d])'
<1> DEFINE spec == req[e].spec
           op == req[e].op
           frozen == FrozenBars(spec, op)
<1>1. /\ wf' = [wf EXCEPT !.lock = @ + 1, !.specVersion = @ + 1, !.target = spec.target]
      /\ row' = Rebuilt(spec, op) /\ req' = [req EXCEPT ![e] = NoReq]
  BY DEF Commit
<1>2. wf'.lock = wf.lock + 1 /\ wf'.status = wf.status /\ wf'.target = spec.target
  BY <1>1 DEF PreviewInv, DatesInv, DraftInv, TypeOK
<1>3. \A d \in Editors : req'[d] = req[d] \/ req'[d] = NoReq
  BY <1>1 DEF PreviewInv, DatesInv, DraftInv, TypeOK
<1>4. \A d \in Editors : ShownFresh(req[d])'
  BY <1>2, <1>3, OldPreviews
<1>5. ASSUME wf.status = "draft"
      PROVE  \A k \in CpmLeaves(spec) : row'[k].bar = resolveBars(spec, Pins(row'))[k]
  <2>1. RowsOK /\ Valid(spec) /\ FrozenOK(frozen)
    BY CommitKeepsDates, FrozenBarsOK DEF PreviewInv, DatesInv
  <2>2. \A k \in Keys(spec) : row'[k].bar = resolveSchedule(spec, frozen)[k]
    BY CommitKeepsDates DEF PreviewInv
  <2>3. RowsFit(row', spec)
    <3>1. resolveSchedule(spec, frozen) \in [Keys(spec) -> Bars]
      BY <2>1, SecondPass
    <3>2. DOMAIN row' = Keys(spec) /\ \A k \in Keys(spec) : row'[k].task = spec.tasks[k]
      BY CommitKeepsDates DEF PreviewInv
    <3> HIDE DEF spec, frozen
    <3> QED
      BY <2>2, <3>1, <3>2 DEF RowsFit
  <2>4. \A k \in Keys(spec) : k \in DOMAIN frozen => spec.tasks[k].pinned
    BY <1>5 DEF FrozenBars, PinnedTasks
  <2> HIDE DEF spec, frozen
  <2> QED
    BY <2>1, <2>2, <2>3, <2>4, ResolvedRows
<1>6. reconstructSpec' = spec
  BY CommitKeepsDates DEF PreviewInv
<1>7. DraftResolved'
  BY <1>2, <1>5, <1>6 DEF DraftResolved
<1> QED
  BY <1>4, <1>7

(* Every step keeps what a preview relies on.                              *)
LEMMA NextPreview == PreviewInv /\ [Next]_vars => PreviewInv'
<1> SUFFICES ASSUME PreviewInv, [Next]_vars
             PROVE  DraftResolved' /\ \A e \in Editors : ShownFresh(req[e])'
  BY NextDates DEF PreviewInv
<1> DEFINE Kept == DraftResolved' /\ \A e \in Editors : ShownFresh(req[e])'
<1>i. /\ wf.lock \in Nat /\ \A e \in Editors : ShownFresh(req[e]) /\ ReqOK(req[e])
      /\ \A e \in Editors : req[e].step = "read" => req[e].expect \in Nat /\ req[e].expect <= wf.lock
  BY DEF PreviewInv, DatesInv, DraftInv, TypeOK, ReqsOK, VersionsBehind
<1>n. NoPreview.lock \in Int /\ NoPreview.lock <= wf.lock /\ NoPreview.lock # wf.lock
  BY <1>i DEF NoPreview
<1>1. ASSUME UNCHANGED <<wf, row, req>> PROVE Kept
  <2>1. reconstructSpec' = reconstructSpec
    BY <1>1 DEF reconstructSpec
  <2>2. DraftResolved'
    BY <1>1, <2>1 DEF PreviewInv, DraftResolved
  <2>3. \A e \in Editors : ShownFresh(req[e])'
    BY <1>1, <1>i, <2>1 DEF ShownFresh
  <2> QED
    BY <2>2, <2>3
<1>2. ASSUME NEW e \in Editors, NEW op \in Ops, RequestEdit(e, op) PROVE Kept
  <2>1. ShownFresh(Patched(op, page[e], NoPreview))
    BY <1>n, PatchedShown
  <2> QED
    BY <1>2, <2>1, RequestKeepsPreview DEF RequestEdit
<1>3. ASSUME NEW e \in Editors, NEW op \in Ops, RequestWrite(e, op) \/ RequestPreview(e, op) PROVE Kept
  <2> DEFINE r == [step |-> "read", op |-> op, expect |-> wf.lock]
  <2>1. req' = [req EXCEPT ![e] = r] /\ UNCHANGED <<wf, row>>
    BY <1>3 DEF RequestWrite, RequestPreview
  <2>2. ShownFresh(r)
    BY <1>3 DEF ShownFresh, RequestWrite, RequestPreview
  <2> HIDE DEF r
  <2> QED
    BY <2>1, <2>2, RequestKeepsPreview
<1>4. ASSUME NEW e \in Editors, ReadAndWrite(e) PROVE Kept
  <2>1. req' = [req EXCEPT ![e] = Patched(req[e].op, req[e].expect, NoPreview)] /\ UNCHANGED <<wf, row>>
    BY <1>4 DEF ReadAndWrite
  <2>2. ShownFresh(Patched(req[e].op, req[e].expect, NoPreview))
    BY <1>n, PatchedShown
  <2> QED
    BY <2>1, <2>2, RequestKeepsPreview
<1>5. ASSUME NEW e \in Editors, ShowPreview(e) PROVE Kept
  <2> DEFINE diff == computeCascadeDiff(reconstructSpec, req[e].op.at)
             r == [step |-> "shown", op |-> req[e].op, shown |-> [lock |-> req[e].expect, diff |-> diff]]
  <2>1. req' = [req EXCEPT ![e] = r] /\ UNCHANGED <<wf, row>>
    BY <1>5 DEF ShowPreview
  <2>2. req[e].op.kind = "move" /\ req[e].expect \in Nat /\ req[e].expect <= wf.lock
    BY <1>5, <1>i DEF ShowPreview, ShownFresh
  <2>3. r.step = "shown" /\ r.op = req[e].op /\ r.shown.lock = req[e].expect /\ r.shown.diff = diff
    OBVIOUS
  <2> HIDE DEF r
  <2>4. ShownFresh(r)
    BY <2>2, <2>3 DEF ShownFresh
  <2> QED
    BY <2>1, <2>4, RequestKeepsPreview
<1>6. ASSUME NEW e \in Editors, SavePreviewed(e) PROVE Kept
  <2>1. req' = [req EXCEPT ![e] = Patched(req[e].op, page[e], req[e].shown)] /\ UNCHANGED <<wf, row>>
    BY <1>6 DEF SavePreviewed
  <2>2. ShownFresh(Patched(req[e].op, page[e], req[e].shown))
    BY <1>6, <1>i, PatchedShown DEF SavePreviewed, ShownFresh
  <2> QED
    BY <2>1, <2>2, RequestKeepsPreview
<1>7. ASSUME NEW e \in Editors, ClosePreview(e) \/ Refuse(e) PROVE Kept
  <2>1. ShownFresh(NoReq)
    BY DEF ShownFresh, NoReq
  <2> QED
    BY <1>7, <2>1, RequestKeepsPreview DEF ClosePreview, Refuse
<1>8. ASSUME NEW e \in Editors, Commit(e) PROVE Kept
  BY <1>8, CommitKeepsPreview, NextDates DEF PreviewInv
<1>9. ASSUME startWorkflow \/ pauseWorkflow \/ resumeWorkflow PROVE Kept
  <2>1. PICK to \in {"active", "paused"} :
            wf' = [wf EXCEPT !.status = to, !.lock = @ + 1] /\ UNCHANGED <<row, req>>
    BY <1>9 DEF startWorkflow, pauseWorkflow, resumeWorkflow, SetStatus
  <2>2. wf'.lock = wf.lock + 1 /\ wf'.status # "draft"
    BY <2>1 DEF PreviewInv, DatesInv, DraftInv, TypeOK
  <2> QED
    BY <2>1, <2>2, OldPreviews DEF DraftResolved
<1>10. ASSUME NEW k \in DOMAIN row, Dispatch(k) PROVE Kept
  <2>1. wf.status = "active" /\ row' = [row EXCEPT ![k].ran = TRUE] /\ UNCHANGED <<wf, req>>
    BY <1>10 DEF Dispatch
  <2>2. row[k] = [task |-> row[k].task, bar |-> row[k].bar, ran |-> row[k].ran]
    BY RowFields DEF PreviewInv, DatesInv
  <2>3. DOMAIN row' = DOMAIN row /\ \A j \in DOMAIN row : row'[j].task = row[j].task
    BY <2>1, <2>2
  <2>4. reconstructSpec' = reconstructSpec
    BY <2>1, <2>3 DEF reconstructSpec
  <2>5. DraftResolved'
    BY <2>1 DEF DraftResolved
  <2>6. \A e \in Editors : ShownFresh(req[e])'
    BY <1>i, <2>1, <2>4 DEF ShownFresh
  <2> QED
    BY <2>5, <2>6
<1> QED
  BY <1>1, <1>2, <1>3, <1>4, <1>5, <1>6, <1>7, <1>8, <1>9, <1>10 DEF Next, vars, LoadPage

(* A target date of a draft that is saved at the version its preview was   *)
(* computed at changes exactly the due dates the preview listed, although  *)
(* the preview freezes the pinned tasks where the plan, resolved afresh,   *)
(* would put them, and saving freezes them where their rows are            *)
(* (computeCascadeDiff, updateWorkflowDraftSpec).                          *)
THEOREM PreviewsAreKept == Spec => PreviewIsKept
<1>1. PreviewInv /\ [Next]_vars =>
        [\A e \in Editors :
            Commits(e) /\ wf.status = "draft" /\ req[e].shown.lock = wf.lock
            => SavesWhatWasShown(e)]_vars
  <2> SUFFICES ASSUME PreviewInv, Next, NEW e \in Editors, Commits(e), wf.status = "draft",
                      req[e].shown.lock = wf.lock
               PROVE  SavesWhatWasShown(e)
    OBVIOUS
  <2> DEFINE moved == req[e].spec
             op == req[e].op
  <2>1. Commit(e) /\ wf.lock = req[e].expect /\ req[e].step = "commit" /\ DraftInv /\ DatesInv
    BY CommitsIsCommit DEF PreviewInv, DatesInv, Commit
  <2>2. op.kind = "move" /\ req[e].shown.diff = computeCascadeDiff(reconstructSpec, op.at)
    BY <2>1 DEF PreviewInv, ShownFresh
  <2>3. Accepts(op, reconstructSpec) /\ moved = Patch(op, reconstructSpec)
    BY <2>1 DEF DraftInv, EditFresh, Computed
  <2>4. RowsOK /\ Valid(reconstructSpec) /\ op \in Ops
    BY <2>1 DEF DatesInv, RowsOK, ReqsOK, ReqOK
  <2>5. moved = [reconstructSpec EXCEPT !.target = op.at]
    BY <2>2, <2>3, <2>4, PatchCases
  <2>6. moved.target = op.at /\ moved.tasks = reconstructSpec.tasks /\ Keys(moved) = DOMAIN row
    BY <2>5 DEF reconstructSpec, Keys
  <2>7. /\ Valid(moved)
        /\ \A k \in DOMAIN row : row'[k].bar = resolveSchedule(moved, FrozenBars(moved, op))[k]
    BY <2>1, <2>6, CommitKeepsDates
  <2>8. FrozenBars(moved, op) = Pins(row)
    BY <2>2, <2>6 DEF FrozenBars, PinnedTasks, excludeFromFreeze, Pins, reconstructSpec
  <2>9. computeCascadeDiff(reconstructSpec, moved.target) =
            [k \in {k \in DOMAIN row : /\ row'[k].bar.due # row[k].bar.due
                                       /\ ~row[k].task.pinned
                                       /\ Children(reconstructSpec, k) = {}}
                |-> row'[k].bar.due]
    <3>1. moved = [reconstructSpec EXCEPT !.target = moved.target] /\ DraftResolved
      BY <2>5, <2>6 DEF PreviewInv
    <3> HIDE DEF moved
    <3> QED
      BY <2>4, <2>7, <2>8, <3>1, PreviewHolds
  <2> QED
    BY <2>2, <2>6, <2>9 DEF SavesWhatWasShown
<1> QED
  BY <1>1, InitPreview, NextPreview, PTL DEF Spec, PreviewIsKept
=============================================================================
