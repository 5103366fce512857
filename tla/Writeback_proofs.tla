--------------------------- MODULE Writeback_proofs ---------------------------
(***************************************************************************)
(* Theorems about Writeback, for any writers, versions and number of runs: *)
(* its types, and that it implements BaselineTable when the marts have     *)
(* rows.                                                                   *)
(*                                                                         *)
(* The strengthening is about locks.  A transaction that has deleted       *)
(* anything has deleted the whole table, and no other has then; one whose  *)
(* DELETE found rows that a rival has replaced deletes nothing, and its    *)
(* count betrays it.  So a transaction that gets to its COMMIT holds the   *)
(* whole table.  Rows carry the number of the run that inserted them, and  *)
(* the rows of the table are of runs that are over.                        *)
(***************************************************************************)
EXTENDS Writeback, FiniteSetTheorems, TLAPS

\* What the refinement needs of the marts: an empty one empties the table, and
\* an empty table has nothing for a DELETE to lock.
MartsHaveRows == \A v \in Versions : Size[v] > 0

Busy(w) == pc[w] \notin {"idle", "done", "failed"}

\* Rows of runs that are over.
OfPastRuns(R) ==
  \A r \in R : r[1] <= runs /\ \A x \in Writers : Busy(x) => run[x] # r[1]

\* The table holds one version, published before.
Whole ==
  /\ \E n \in 0..MaxRuns, v \in Versions : Holds(n, v) /\ v <= mart
  /\ OfPastRuns(target)

RunsApart ==
  /\ \A w \in Writers : Busy(w) => run[w] <= runs
  /\ \A w, x \in Writers : Busy(w) /\ Busy(x) /\ w # x => run[w] # run[x]

CargoIsPublished == \A w \in Writers : cargo[w] <= mart

\* One transaction at a time has deleted, and it has deleted everything.
Locks ==
  \A w \in Writers : deleted[w] # {} =>
    /\ pc[w] \in {"insert", "count", "commit"}
    /\ deleted[w] = target
    /\ \A x \in Writers \ {w} : deleted[x] = {}

\* A DELETE has found what is still there, or nothing that is.
Found ==
  \A w \in Writers :
    /\ OfPastRuns(seen[w])
    /\ seen[w] = target \/ seen[w] \cap target = {}

\* What a writer has inserted, and what a count that agrees tells.
Ready ==
  \A w \in Writers :
    /\ pc[w] \in {"count", "commit"} => mine[w] = RowsOf(run[w], cargo[w])
    /\ pc[w] = "commit" => deleted[w] = target

IInv ==
  TypeOK /\ Whole /\ RunsApart /\ CargoIsPublished /\ Locks /\ Found /\ Ready

-----------------------------------------------------------------------------
(* Rows. *)

\* The rows of a run are rows.
LEMMA RowsType ==
  ASSUME NEW n \in 0..MaxRuns, NEW v \in Versions
  PROVE  RowsOf(n, v) \subseteq AllRows
BY ConstantsOK DEF RowsOf, AllRows

\* There are as many of them as the version has.
LEMMA RowsCount ==
  ASSUME NEW n \in Nat, NEW v \in Versions
  PROVE  IsFiniteSet(RowsOf(n, v)) /\ Cardinality(RowsOf(n, v)) = Size[v]
<1> DEFINE f == [k \in 1..Size[v] |-> <<n, v, k>>]
<1>1. Size[v] \in Nat
  BY ConstantsOK
<1>2. IsFiniteSet(1..Size[v]) /\ Cardinality(1..Size[v]) = Size[v]
  BY <1>1, FS_Interval
<1>3. f \in Bijection(1..Size[v], RowsOf(n, v))
  <2>1. f \in [1..Size[v] -> RowsOf(n, v)]
    BY DEF RowsOf
  <2>2. \A k, l \in 1..Size[v] : f[k] = f[l] => k = l
    OBVIOUS
  <2>3. \A r \in RowsOf(n, v) : \E k \in 1..Size[v] : f[k] = r
    BY DEF RowsOf
  <2> QED
    BY <2>1, <2>2, <2>3 DEF Bijection, Injection, Surjection, IsInjective
<1> QED
  BY <1>2, <1>3, FS_Bijection DEF ExistsBijection

\* The table shows the version whose rows it has.
LEMMA ShownIs ==
  ASSUME MartsHaveRows, NEW n \in 0..MaxRuns, NEW v \in Versions, Holds(n, v)
  PROVE  Shown = v
<1>1. <<n, v, 1>> \in target
  BY ConstantsOK DEF MartsHaveRows, Holds, RowsOf
<1>2. \A m \in 0..MaxRuns, u \in Versions : Holds(m, u) => u = v
  BY <1>1 DEF Holds, RowsOf
<1> QED
  BY <1>2 DEF Shown

-----------------------------------------------------------------------------
(* Types. *)

\* The types hold at first.
LEMMA TypeInit == ASSUME Init PROVE TypeOK
<1>1. RowsOf(0, Initial) \subseteq AllRows
  BY RowsType, ConstantsOK
<1> QED
  BY <1>1, ConstantsOK DEF Init, TypeOK, NoRows

\* Every step keeps the types.
LEMMA TypeStep == ASSUME TypeOK, [Next]_vars PROVE TypeOK'
<1>1. CASE UNCHANGED vars
  BY <1>1 DEF vars, TypeOK
<1>2. CASE Publish
  BY <1>2 DEF Publish, TypeOK
<1>3. ASSUME NEW w \in Writers, Start(w) PROVE TypeOK'
  <2>1. runs + 1 \in 0..MaxRuns
    BY <1>3, ConstantsOK DEF Start, TypeOK
  <2> QED
    BY <1>3, <2>1 DEF Start, TypeOK
<1>4. ASSUME NEW w \in Writers, Rollback(w) PROVE TypeOK'
  BY <1>4 DEF Rollback, TypeOK
<1>5. ASSUME NEW w \in Writers, Step(w) PROVE TypeOK'
  <2>1. CASE ReadMart(w)
    BY <2>1 DEF ReadMart, TypeOK
  <2>2. CASE Delete(w)
    BY <2>2 DEF Delete, TypeOK
  <2>3. CASE Deleted(w)
    <3>1. seen[w] \cap target \in SUBSET AllRows
      BY DEF TypeOK
    <3> QED
      BY <2>3, <3>1 DEF Deleted, TypeOK
  <2>4. CASE Insert(w)
    <3>1. RowsOf(run[w], cargo[w]) \in SUBSET AllRows
      BY RowsType DEF TypeOK
    <3> QED
      BY <2>4, <3>1 DEF Insert, TypeOK
  <2>5. CASE CountOK(w)
    BY <2>5 DEF CountOK, TypeOK
  <2>6. CASE CountDiffers(w)
    BY <2>6, <1>4 DEF CountDiffers
  <2>7. CASE Commit(w)
    <3>1. (target \ deleted[w]) \cup mine[w] \subseteq AllRows
      BY DEF TypeOK
    <3> QED
      BY <2>7, <3>1 DEF Commit, TypeOK
  <2> QED
    BY <1>5, <2>1, <2>2, <2>3, <2>4, <2>5, <2>6, <2>7 DEF Step
<1> QED
  BY <1>1, <1>2, <1>3, <1>4, <1>5 DEF Next, Fails

\* The variables of the writeback keep their types, with marts that have rows
\* or not.
THEOREM TypeCorrect == Spec => []TypeOK
<1>1. Init => TypeOK
  BY TypeInit
<1>2. TypeOK /\ [Next]_vars => TypeOK'
  BY TypeStep
<1> QED
  BY <1>1, <1>2, PTL DEF Spec

-----------------------------------------------------------------------------
(* The invariant. *)

\* A table that is whole is not empty.
LEMMA TableHasRows ==
  ASSUME MartsHaveRows, Whole
  PROVE  target # {}
<1> PICK n \in 0..MaxRuns, v \in Versions : Holds(n, v)
  BY DEF Whole
<1>1. <<n, v, 1>> \in target
  BY ConstantsOK DEF MartsHaveRows, Holds, RowsOf
<1> QED
  BY <1>1

\* The invariant holds at first.
LEMMA InitIInv == ASSUME Init PROVE IInv
<1>1. TypeOK
  BY TypeInit
<1>2. Holds(0, Initial) /\ 0 \in 0..MaxRuns /\ Initial \in Versions /\ Initial <= mart
  BY ConstantsOK DEF Init, Holds
<1>3. \A w \in Writers : ~Busy(w)
  BY DEF Init, Busy
<1>4. OfPastRuns(target)
  BY <1>3 DEF Init, OfPastRuns, RowsOf
<1>5. RunsApart /\ CargoIsPublished /\ Locks /\ Ready
  BY <1>3, ConstantsOK DEF Init, RunsApart, CargoIsPublished, Locks, Ready, NoRows
<1>6. Found
  BY DEF Init, Found, OfPastRuns, NoRows
<1> QED
  BY <1>1, <1>2, <1>4, <1>5, <1>6 DEF IInv, Whole

\* A newer mart keeps it.
LEMMA PublishKeeps == ASSUME IInv, Publish PROVE IInv'
<1>1. TypeOK'
  BY TypeStep DEF IInv, Next
<1>2. mart' > mart /\ mart \in Nat /\ mart' \in Nat /\ Versions \subseteq Nat
  BY ConstantsOK DEF Publish, IInv, TypeOK
<1>3. CargoIsPublished'
  <2>1. \A w \in Writers : cargo'[w] = cargo[w] /\ cargo[w] \in Nat /\ cargo[w] <= mart
    BY <1>2 DEF Publish, IInv, TypeOK, CargoIsPublished
  <2> QED
    BY <1>2, <2>1 DEF CargoIsPublished
<1>4. Whole'
  BY <1>2 DEF Publish, IInv, TypeOK, Whole, Holds, OfPastRuns, Busy
<1> QED
  BY <1>1, <1>3, <1>4
     DEF Publish, IInv, RunsApart, Locks, Found, Ready, OfPastRuns, Busy

\* The number of a run that starts is new.
LEMMA StartKeeps == ASSUME IInv, NEW w \in Writers, Start(w) PROVE IInv'
<1>1. TypeOK'
  BY TypeStep DEF IInv, Next
<1>2. /\ runs' = runs + 1 /\ runs \in Nat
      /\ run'[w] = runs + 1 /\ pc'[w] = "read" /\ ~Busy(w)
      /\ \A x \in Writers \ {w} : run'[x] = run[x] /\ pc'[x] = pc[x]
      /\ \A x \in Writers : run[x] \in Nat
      /\ UNCHANGED <<mart, target, cargo, mine, seen, deleted>>
  BY ConstantsOK DEF Start, IInv, TypeOK, Busy
<1>3. \A R \in SUBSET AllRows : OfPastRuns(R) =>
        \A r \in R : r[1] <= runs' /\ \A x \in Writers : Busy(x)' => run'[x] # r[1]
  BY <1>2, ConstantsOK DEF OfPastRuns, AllRows, Busy
<1>4. Whole'
  BY <1>2, <1>3 DEF IInv, TypeOK, Whole, Holds, OfPastRuns
<1>5. Found'
  BY <1>2, <1>3 DEF IInv, TypeOK, Found, OfPastRuns
<1>6. RunsApart'
  BY <1>2 DEF IInv, RunsApart, Busy
<1>7. Locks'
  BY <1>2 DEF IInv, Locks, Busy
<1> QED
  BY <1>1, <1>2, <1>4, <1>5, <1>6, <1>7 DEF IInv, CargoIsPublished, Ready

\* A step that starts nothing and leaves the table alone keeps what is said of
\* past runs.
LEMMA PastRunsStay ==
  ASSUME UNCHANGED <<runs, run>>,
         \A x \in Writers : Busy(x)' => Busy(x)
  PROVE  \A R : OfPastRuns(R) =>
           \A r \in R : r[1] <= runs' /\ \A x \in Writers : Busy(x)' => run'[x] # r[1]
BY DEF OfPastRuns

\* So does a transaction that is rolled back.
LEMMA RollbackKeeps ==
  ASSUME IInv, NEW w \in Writers, Rollback(w), TypeOK' PROVE IInv'
<1>1. /\ pc'[w] = "failed" /\ mine'[w] = {} /\ seen'[w] = {} /\ deleted'[w] = {}
      /\ \A x \in Writers \ {w} : /\ pc'[x] = pc[x] /\ mine'[x] = mine[x]
                                  /\ seen'[x] = seen[x] /\ deleted'[x] = deleted[x]
      /\ UNCHANGED <<mart, target, runs, run, cargo>>
  BY DEF Rollback, IInv, TypeOK
<1>2. \A x \in Writers : Busy(x)' => Busy(x)
  BY <1>1 DEF Busy
<1>3. Whole'
  BY <1>1, <1>2, PastRunsStay DEF IInv, Whole, Holds, OfPastRuns
<1>4. Found'
  BY <1>1, <1>2, PastRunsStay DEF IInv, Found, OfPastRuns
<1>5. RunsApart'
  BY <1>1, <1>2 DEF IInv, RunsApart
<1>6. Locks'
  BY <1>1 DEF IInv, Locks
<1>7. Ready' /\ CargoIsPublished'
  BY <1>1 DEF IInv, Ready, CargoIsPublished
<1> QED
  BY <1>3, <1>4, <1>5, <1>6, <1>7 DEF IInv

\* The steps between the start of a run and its count.
LEMMA QuietStepKeeps ==
  ASSUME IInv, NEW w \in Writers, TypeOK', ReadMart(w) \/ Delete(w) \/ Insert(w)
  PROVE  IInv'
<1>1. /\ UNCHANGED <<mart, target, runs, run, deleted>>
      /\ Busy(w) /\ Busy(w)' /\ pc[w] \notin {"count", "commit"} /\ pc'[w] # "commit"
      /\ pc[w] = "insert" => pc'[w] = "count"
      /\ pc[w] \in {"insert", "read", "delete"}
      /\ \A x \in Writers \ {w} : /\ pc'[x] = pc[x] /\ mine'[x] = mine[x]
                                  /\ seen'[x] = seen[x] /\ cargo'[x] = cargo[x]
  BY DEF ReadMart, Delete, Insert, IInv, TypeOK, Busy
<1>2. /\ pc'[w] = "count" => mine'[w] = RowsOf(run[w], cargo[w])
      /\ pc'[w] = "count" => cargo'[w] = cargo[w]
      /\ cargo'[w] \in {cargo[w], mart}
      /\ seen'[w] \in {seen[w], target}
  BY DEF ReadMart, Delete, Insert, IInv, TypeOK
<1>3. \A x \in Writers : Busy(x)' => Busy(x)
  BY <1>1 DEF Busy
<1>4. Whole'
  BY <1>1, <1>3, PastRunsStay DEF IInv, Whole, Holds, OfPastRuns
<1>5. Found'
  <2> SUFFICES ASSUME NEW x \in Writers
               PROVE  OfPastRuns(seen[x])' /\ (seen'[x] = target' \/ seen'[x] \cap target' = {})
    BY DEF Found
  <2>1. seen'[x] \in {seen[x], target}
    BY <1>1, <1>2
  <2>2. OfPastRuns(target) /\ OfPastRuns(seen[x])
    BY DEF IInv, Whole, Found
  <2>3. OfPastRuns(seen[x])'
    BY <2>1, <2>2, <1>1, <1>3, PastRunsStay DEF OfPastRuns
  <2> QED
    BY <2>1, <2>3, <1>1 DEF IInv, Found
<1>6. RunsApart'
  BY <1>1, <1>3 DEF IInv, RunsApart
<1>7. Locks'
  BY <1>1 DEF IInv, Locks
<1>8. CargoIsPublished'
  <2>1. mart \in Nat
    BY ConstantsOK DEF IInv, TypeOK
  <2> QED
    BY <1>1, <1>2, <2>1 DEF IInv, CargoIsPublished
<1>9. Ready'
  BY <1>1, <1>2 DEF IInv, Ready
<1> QED
  BY <1>4, <1>5, <1>6, <1>7, <1>8, <1>9 DEF IInv

\* DELETE ends with the whole table locked, or with nothing.
LEMMA DeletedKeeps ==
  ASSUME MartsHaveRows, IInv, NEW w \in Writers, TypeOK', Deleted(w) PROVE IInv'
<1>1. /\ UNCHANGED <<mart, target, runs, run, cargo, mine>>
      /\ pc[w] = "wait" /\ pc'[w] = "insert" /\ seen'[w] = {}
      /\ deleted'[w] = seen[w] \cap target
      /\ \A x \in Writers \ {w} : /\ pc'[x] = pc[x] /\ seen'[x] = seen[x]
                                  /\ deleted'[x] = deleted[x]
                                  /\ deleted[x] \cap seen[w] = {}
  BY DEF Deleted, IInv, TypeOK
<1>2. \A x \in Writers : Busy(x)' => Busy(x)
  BY <1>1 DEF Busy
<1>3. Whole'
  BY <1>1, <1>2, PastRunsStay DEF IInv, Whole, Holds, OfPastRuns
<1>4. Found'
  BY <1>1, <1>2, PastRunsStay DEF IInv, Found, OfPastRuns
<1>5. RunsApart'
  BY <1>1, <1>2 DEF IInv, RunsApart
<1>6. Locks'
  <2>1. deleted'[w] = {} \/ (deleted'[w] = target /\ seen[w] = target)
    BY <1>1 DEF IInv, Found
  <2>2. CASE deleted'[w] = {}
    BY <1>1, <2>2 DEF IInv, Locks
  <2>3. CASE deleted'[w] = target /\ seen[w] = target
    <3>1. target # {}
      BY TableHasRows DEF IInv
    <3>2. \A x \in Writers \ {w} : deleted[x] = {}
      BY <1>1, <2>3, <3>1 DEF IInv, Locks
    <3> QED
      BY <1>1, <2>3, <3>2 DEF Locks
  <2> QED
    BY <2>1, <2>2, <2>3
<1>7. Ready' /\ CargoIsPublished'
  BY <1>1 DEF IInv, Ready, CargoIsPublished
<1> QED
  BY <1>3, <1>4, <1>5, <1>6, <1>7 DEF IInv

\* A count that agrees means that the writer holds the whole table: rows that
\* a rival has put there would have been counted.
LEMMA CountTells ==
  ASSUME MartsHaveRows, IInv, NEW w \in Writers, CountOK(w)
  PROVE  deleted[w] = target
<1> SUFFICES ASSUME deleted[w] = {} PROVE FALSE
  BY DEF IInv, Locks
<1>1. mine[w] = RowsOf(run[w], cargo[w]) /\ run[w] \in Nat /\ cargo[w] \in Versions
  BY DEF IInv, Ready, CountOK, TypeOK
<1>2. PICK n \in 0..MaxRuns, v \in Versions : target = RowsOf(n, v)
  BY DEF IInv, Whole, Holds
<1>3. Size[v] \in Nat /\ Size[v] > 0 /\ Size[cargo[w]] \in Nat /\ n \in Nat
  <2>1. \A u \in Versions : Size[u] \in Nat
    BY ConstantsOK
  <2> QED
    BY <1>1, <2>1 DEF MartsHaveRows
<1>4. target \cap mine[w] = {}
  BY <1>1 DEF IInv, Whole, OfPastRuns, CountOK, Busy, RowsOf
<1>5. /\ IsFiniteSet(target) /\ Cardinality(target) = Size[v]
      /\ IsFiniteSet(mine[w]) /\ Cardinality(mine[w]) = Size[cargo[w]]
  BY <1>1, <1>2, <1>3, RowsCount
<1>6. Cardinality(target \cup mine[w]) = Size[v] + Size[cargo[w]] - Cardinality(target \cap mine[w])
  BY <1>5, FS_Union
<1>7. Cardinality(target \cap mine[w]) = 0
  BY <1>4, FS_EmptySet
<1>8. (target \ deleted[w]) \cup mine[w] = target \cup mine[w]
  OBVIOUS
<1> QED
  BY <1>3, <1>6, <1>7, <1>8 DEF CountOK, Written

\* So does a count that agrees.
LEMMA CountKeeps ==
  ASSUME MartsHaveRows, IInv, NEW w \in Writers, TypeOK', CountOK(w) PROVE IInv'
<1>1. /\ UNCHANGED <<mart, target, runs, run, cargo, mine, seen, deleted>>
      /\ pc[w] = "count" /\ pc'[w] = "commit"
      /\ \A x \in Writers \ {w} : pc'[x] = pc[x]
  BY DEF CountOK, IInv, TypeOK
<1>2. \A x \in Writers : Busy(x)' => Busy(x)
  BY <1>1 DEF Busy
<1>3. Whole'
  BY <1>1, <1>2, PastRunsStay DEF IInv, Whole, Holds, OfPastRuns
<1>4. Found'
  BY <1>1, <1>2, PastRunsStay DEF IInv, Found, OfPastRuns
<1>5. RunsApart'
  BY <1>1, <1>2 DEF IInv, RunsApart
<1>6. Locks'
  BY <1>1 DEF IInv, Locks
<1>7. Ready'
  BY <1>1, CountTells DEF IInv, Ready
<1> QED
  BY <1>1, <1>3, <1>4, <1>5, <1>6, <1>7 DEF IInv, CargoIsPublished

\* COMMIT replaces all rows by those of one run.
LEMMA CommitReplaces ==
  ASSUME IInv, NEW w \in Writers, Commit(w)
  PROVE  /\ target' = RowsOf(run[w], cargo[w])
         /\ run[w] \in 0..MaxRuns /\ cargo[w] \in Versions /\ cargo[w] <= mart
BY DEF Commit, IInv, Ready, TypeOK, CargoIsPublished

\* So does a commit: it replaces the one version by another.
LEMMA CommitKeeps ==
  ASSUME MartsHaveRows, IInv, NEW w \in Writers, TypeOK', Commit(w) PROVE IInv'
<1>1. /\ UNCHANGED <<mart, runs, run, cargo, seen>>
      /\ pc[w] = "commit" /\ pc'[w] = "done" /\ mine'[w] = {} /\ deleted'[w] = {}
      /\ \A x \in Writers \ {w} : /\ pc'[x] = pc[x] /\ mine'[x] = mine[x]
                                  /\ deleted'[x] = deleted[x]
  BY DEF Commit, IInv, TypeOK
<1>2. \A x \in Writers : Busy(x)' => Busy(x)
  BY <1>1 DEF Busy
<1>3. Busy(w) /\ ~Busy(w)'
  BY <1>1 DEF Busy
<1>4. \A x \in Writers : deleted'[x] = {}
  <2>1. deleted[w] # {}
    BY <1>1, TableHasRows DEF IInv, Ready
  <2> QED
    BY <1>1, <2>1 DEF IInv, Locks
<1>5. Whole'
  <2>1. Holds(run[w], cargo[w])'
    BY <1>1, CommitReplaces DEF Holds
  <2>2. OfPastRuns(target)'
    BY <1>1, <1>2, <1>3, CommitReplaces DEF OfPastRuns, RowsOf, IInv, RunsApart
  <2>3. \E n \in 0..MaxRuns, v \in Versions : Holds(n, v)' /\ v <= mart'
    BY <1>1, <2>1, CommitReplaces
  <2> QED
    BY <2>2, <2>3 DEF Whole
<1>6. Found'
  <2> SUFFICES ASSUME NEW x \in Writers
               PROVE  OfPastRuns(seen[x])' /\ seen'[x] \cap target' = {}
    BY DEF Found
  <2>1. OfPastRuns(seen[x])
    BY DEF IInv, Found
  <2>2. \A r \in seen[x] : r[1] # run[w]
    BY <1>3, <2>1 DEF OfPastRuns
  <2>3. seen'[x] \cap target' = {}
    BY <1>1, <2>2, CommitReplaces DEF RowsOf
  <2> QED
    BY <1>1, <1>2, <2>1, <2>3, PastRunsStay DEF OfPastRuns
<1>7. RunsApart'
  BY <1>1, <1>2 DEF IInv, RunsApart
<1>8. Locks'
  BY <1>4 DEF Locks
<1>9. Ready' /\ CargoIsPublished'
  <2>1. \A x \in Writers : pc'[x] = "commit" => FALSE
    <3> SUFFICES ASSUME NEW x \in Writers, pc'[x] = "commit" PROVE FALSE
      OBVIOUS
    <3>1. x # w /\ pc[x] = "commit" /\ deleted[x] = target
      BY <1>1 DEF IInv, Ready
    <3>2. deleted[x] = {}
      BY <1>1, <1>4, <3>1
    <3> QED
      BY <3>1, <3>2, TableHasRows DEF IInv
  <2> QED
    BY <1>1, <2>1 DEF IInv, Ready, CargoIsPublished
<1> QED
  BY <1>5, <1>6, <1>7, <1>8, <1>9 DEF IInv

\* Every step keeps the invariant.
LEMMA StepIInv == ASSUME MartsHaveRows, IInv, [Next]_vars PROVE IInv'
<1>0. TypeOK'
  BY TypeStep DEF IInv
<1>1. CASE UNCHANGED vars
  BY <1>1 DEF vars, IInv, TypeOK, Whole, Holds, RunsApart, CargoIsPublished, Locks,
              Found, Ready, OfPastRuns, Busy
<1>2. CASE Publish
  BY <1>2, PublishKeeps
<1>3. ASSUME NEW w \in Writers, Start(w) PROVE IInv'
  BY <1>3, StartKeeps
<1>4. ASSUME NEW w \in Writers, Fails(w) PROVE IInv'
  BY <1>0, <1>4, RollbackKeeps DEF Fails
<1>5. ASSUME NEW w \in Writers, Step(w) PROVE IInv'
  BY <1>0, <1>5, QuietStepKeeps, DeletedKeeps, CountKeeps, CommitKeeps, RollbackKeeps
     DEF Step, CountDiffers
<1> QED
  BY <1>1, <1>2, <1>3, <1>4, <1>5 DEF Next

-----------------------------------------------------------------------------
(* The refinement. *)

\* What the poller finds has been published.
LEMMA ShownIsPublished ==
  ASSUME MartsHaveRows, IInv
  PROVE  Shown \in Versions /\ Shown <= mart
<1> PICK n \in 0..MaxRuns, v \in Versions : Holds(n, v) /\ v <= mart
  BY DEF IInv, Whole
<1> QED
  BY ShownIs

\* The table shows one version at first.
LEMMA InitRefines == ASSUME MartsHaveRows, Init PROVE Baseline!Init
<1>1. Holds(0, Initial) /\ Initial \in Versions /\ 0 \in 0..MaxRuns
  BY ConstantsOK DEF Init, Holds
<1>2. Shown = Initial
  BY <1>1, ShownIs
<1> QED
  BY <1>2 DEF Init, Baseline!Init

\* What the table shows depends on its rows alone.
LEMMA ShownStays == ASSUME target' = target PROVE Shown' = Shown
BY DEF Shown, Holds

\* Every step is a step of the abstract table or a stutter.
LEMMA StepRefines ==
  ASSUME MartsHaveRows, IInv, [Next]_vars
  PROVE  [Baseline!Next]_(Baseline!vars)
<1>1. CASE Publish
  BY <1>1, ShownStays DEF Publish, Baseline!Next, Baseline!Publish
<1>2. ASSUME NEW w \in Writers, Commit(w) PROVE Baseline!Next
  <2>1. Shown' = cargo[w]
    <3>1. \E n \in 0..MaxRuns, v \in Versions : Holds(n, v)' /\ v = cargo[w]
      BY <1>2, CommitReplaces DEF Holds
    <3>2. \A n \in 0..MaxRuns, v \in Versions : Holds(n, v)' => v = cargo[w]
      <4>1. <<run[w], cargo[w], 1>> \in target'
        <5>1. cargo[w] \in Versions /\ target' = RowsOf(run[w], cargo[w])
          BY <1>2, CommitReplaces
        <5>2. Size[cargo[w]] \in Nat /\ Size[cargo[w]] > 0
          BY <5>1, ConstantsOK DEF MartsHaveRows
        <5>3. 1 \in 1..Size[cargo[w]]
          BY <5>2
        <5> QED
          BY <5>1, <5>3 DEF RowsOf
      <4> QED
        BY <4>1 DEF Holds, RowsOf
    <3> QED
      BY <3>1, <3>2 DEF Shown
  <2> QED
    BY <1>2, <2>1, CommitReplaces DEF Commit, Baseline!Next, Baseline!Replace
<1>3. CASE UNCHANGED <<mart, target>>
  BY <1>3, ShownStays DEF Baseline!vars
<1>4. \/ Publish \/ UNCHANGED <<mart, target>> \/ \E w \in Writers : Commit(w)
  BY DEF Next, vars, Start, Step, Fails, Rollback, ReadMart, Delete, Deleted, Insert,
         CountOK, CountDiffers
<1> QED
  BY <1>1, <1>2, <1>3, <1>4

\* The writeback keeps its promise to the anomaly poller: whatever transactions
\* of rivals, zombies and retries interleave, the table shows one published
\* version, whole, and changes to another in one step (DELETE to COMMIT, with
\* the count in between).
THEOREM WritebackImplementsBaseline == MartsHaveRows => (Spec => ImplementsBaseline)
<1> SUFFICES ASSUME MartsHaveRows PROVE Spec => ImplementsBaseline
  OBVIOUS
<1>1. Init => IInv /\ Baseline!Init
  BY InitIInv, InitRefines
<1>2. IInv /\ [Next]_vars => IInv'
  BY StepIInv
<1>3. IInv /\ [Next]_vars => [Baseline!Next]_(Baseline!vars)
  BY StepRefines
<1> QED
  BY <1>1, <1>2, <1>3, PTL DEF Spec, ImplementsBaseline, Baseline!Spec
=============================================================================
