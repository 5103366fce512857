-------------------------- MODULE OffloadGate_proofs --------------------------
(***************************************************************************)
(* Theorems about the extraction loop and about the quality gate behind    *)
(* it, for any tables, instances, jobs and gate profiles.                  *)
(*                                                                         *)
(* The first part is about RawOffload by itself and uses nothing of the    *)
(* gate, neither its constants nor their assumptions.  Its inductive       *)
(* invariant adds to the type invariant that a worker on its way to a      *)
(* deletion or a put holds at least one row: that is what                  *)
(* decide_partition_action establishes and nothing later disturbs.         *)
(*                                                                         *)
(* In the second part everything goes on while the gate reads: sweeps,     *)
(* late rows, crashes and rival writers.  The gate's queries are apart in  *)
(* time, so the strengthening says of each result what it still tells when *)
(* the next one is read.                                                   *)
(***************************************************************************)
EXTENDS OffloadGate, SequenceTheorems, FiniteSetTheorems, TLAPS

-----------------------------------------------------------------------------
(* The extraction loop.                                                      *)

\* Every job walks at least one table.
LEMMA SomeTable == \A j \in Jobs : Len(JobTables[j]) \in Nat \ {0}
<1> SUFFICES ASSUME NEW j \in Jobs PROVE Len(JobTables[j]) \in Nat \ {0}
  OBVIOUS
<1>1. JobTables[j] \in Seq(Tables) /\ JobTables[j] # <<>>
  BY ConstantsOK DEF ConstantsOK
<1> QED  BY <1>1, EmptySeq

\* The table a job is at is one of the modelled tables.
LEMMA TableType == TypeOK => \A j \in Jobs : Table(j) \in Tables
<1> SUFFICES ASSUME TypeOK, NEW j \in Jobs PROVE Table(j) \in Tables
  OBVIOUS
<1>1. JobTables[j] \in Seq(Tables)
  BY ConstantsOK DEF ConstantsOK
<1>2. tab[j] \in 1..Len(JobTables[j])
  BY SomeTable DEF TypeOK
<1> QED  BY <1>1, <1>2, ElementOfSeq DEF Table

\* The partition a job is copying is a partition.
LEMMA CurType ==
  TypeOK => \A j \in Jobs : pc[j] \in {"decide", "delete", "put"} => Cur(j) \in Part
  BY TableType DEF TypeOK, Cur, Part, Days

\* Moving on to the next instance, table or snapshot keeps the control
\* variables in their types.
LEMMA AdvanceType ==
  ASSUME TypeOK, NEW j \in Jobs, NEW rest \in SUBSET Instances, Advance(j, rest)
  PROVE  /\ todo' \in [Jobs -> SUBSET Instances]
         /\ pc' \in [Jobs -> Running \cup Resting]
         /\ tab' \in [Jobs -> Nat \ {0}]
         /\ \A k \in Jobs : tab'[k] <= Len(JobTables[k])
         /\ \A k \in Jobs : k # j => pc'[k] = pc[k] /\ tab'[k] = tab[k]
         /\ pc'[j] \in {"list", "fetch", "dim_fetch", "done"}
<1>1. todo' \in [Jobs -> SUBSET Instances]
  BY DEF Advance, TypeOK
<1>2. CASE rest # {}
  BY <1>1, <1>2 DEF Advance, TypeOK, Running
<1>3. CASE rest = {} /\ tab[j] < Len(JobTables[j])
  <2>1. /\ pc' = [pc EXCEPT ![j] = "list"]
        /\ tab' = [tab EXCEPT ![j] = tab[j] + 1]
    BY <1>3 DEF Advance
  <2>2. tab \in [Jobs -> Nat \ {0}] /\ pc \in [Jobs -> Running \cup Resting]
    BY DEF TypeOK
  <2>3. tab' \in [Jobs -> Nat \ {0}]
    BY <2>1, <2>2
  <2>4. \A k \in Jobs : tab'[k] <= Len(JobTables[k])
    BY <2>1, <2>2, <1>3, SomeTable DEF TypeOK
  <2> QED  BY <1>1, <2>1, <2>2, <2>3, <2>4 DEF Running
<1>4. CASE rest = {} /\ ~(tab[j] < Len(JobTables[j]))
  BY <1>1, <1>4 DEF Advance, TypeOK, Running, Resting
<1> QED  BY <1>2, <1>3, <1>4

\* A failed attempt keeps every variable in its type.
LEMMA AttemptFailsType ==
  ASSUME TypeOK, NEW j \in Jobs, pc[j] \in Running, AttemptFails(j)
  PROVE  TypeOK'
<1>1. Cur(j) \in Part \/ pc[j] # "put"
  BY CurType
<1>2. torn' \subseteq Part
  BY <1>1 DEF AttemptFails, TypeOK
<1>3. pc' \in [Jobs -> Running \cup Resting] /\ pc'[j] \in {"list", "failed"}
      /\ \A k \in Jobs : k # j => pc'[k] = pc[k]
  BY DEF AttemptFails, TypeOK, Running, Resting
<1>4. result' \in [Jobs -> [Tables \X Instances -> SUBSET Rows]]
  BY DEF AttemptFails, TypeOK, NoResult
<1>5. tab' \in [Jobs -> Nat \ {0}] /\ \A k \in Jobs : tab'[k] <= Len(JobTables[k])
  BY SomeTable DEF AttemptFails, TypeOK
<1> QED
  BY <1>2, <1>3, <1>4, <1>5 DEF AttemptFails, TypeOK, sourceVars

-----------------------------------------------------------------------------

\* TypeOK is preserved by every step of a job.
LEMMA JobStepType ==
  ASSUME TypeOK, NEW j \in Jobs, JobStep(j)
  PROVE  TypeOK'
<1> DEFINE rest == todo[j] \ {cur[j]}
<1>1. rest \in SUBSET Instances /\ registry \in SUBSET Instances
  BY DEF TypeOK
<1>2. CASE List(j)
  <2>1. Advance(j, registry)
    BY <1>2 DEF List
  <2> HIDE DEF Advance
  <2>2. pc'[j] \in {"list", "fetch", "dim_fetch", "done"}
    BY <2>1, <1>1, AdvanceType
  <2> QED  BY <1>1, <1>2, <2>1, <2>2, AdvanceType
           DEF List, TypeOK, sourceVars, storeVars
<1>3. CASE Fetch(j)
  <2>1. PICK i \in todo[j] :
          /\ cur' = [cur EXCEPT ![j] = i]
          /\ buf' = [buf EXCEPT ![j] = source[<<Table(j), i, day[j]>>]]
    BY <1>3 DEF Fetch
  <2>2. i \in Instances /\ i \in Nat /\ day[j] \in Days
    BY ConstantsOK DEF TypeOK, ConstantsOK
  <2>3. <<Table(j), i, day[j]>> \in Part
    BY <2>2, TableType DEF Part
  <2>4. buf' \in [Jobs -> SUBSET Rows] /\ cur' \in [Jobs -> Nat]
    BY <2>1, <2>2, <2>3 DEF TypeOK
  <2>5. pc' \in [Jobs -> Running \cup Resting]
    BY <1>3 DEF Fetch, TypeOK, Running
  <2>6. \A k \in Jobs : pc'[k] \in {"decide", "delete", "put"} => cur'[k] \in Instances
    BY <1>3, <2>1, <2>2 DEF Fetch, TypeOK
  <2> QED  BY <1>3, <2>4, <2>5, <2>6 DEF Fetch, TypeOK, sourceVars, storeVars
<1>4. CASE Overwrite(j)
  BY <1>4 DEF Overwrite, TypeOK, Running, sourceVars, storeVars
<1>5. CASE Skip(j)
  BY <1>1, <1>5, AdvanceType DEF Skip, TypeOK, sourceVars, storeVars
<1>6. CASE Refuse(j)
  BY <1>6, AttemptFailsType DEF Refuse, Running
<1>7. CASE Delete(j)
  BY <1>7, CurType DEF Delete, TypeOK, Running, sourceVars
<1>8. CASE Put(j)
  <2>1. Cur(j) \in Part /\ buf[j] \in SUBSET Rows
    BY <1>8, CurType DEF Put, TypeOK
  <2>2. archive' \in [Part -> SUBSET Rows] /\ written' \in [Part -> SUBSET Rows]
    BY <1>8, <2>1 DEF Put, TypeOK
  <2>3. torn' \subseteq Part
    BY <1>8 DEF Put, TypeOK
  <2>4. result' \in [Jobs -> [Tables \X Instances -> SUBSET Rows]]
    <3> DEFINE row == [result[j] EXCEPT ![<<Table(j), cur[j]>>] = buf[j]]
    <3>1. row \in [Tables \X Instances -> SUBSET Rows]
      BY <2>1 DEF TypeOK
    <3>2. result' = [result EXCEPT ![j] = row]
      BY <1>8 DEF Put
    <3> HIDE DEF row
    <3> QED  BY <3>1, <3>2 DEF TypeOK
  <2>5. Advance(j, rest)
    BY <1>8 DEF Put
  <2>6. /\ todo' \in [Jobs -> SUBSET Instances]
        /\ pc' \in [Jobs -> Running \cup Resting]
        /\ tab' \in [Jobs -> Nat \ {0}]
        /\ \A k \in Jobs : tab'[k] <= Len(JobTables[k])
        /\ \A k \in Jobs : pc'[k] \in {"decide", "delete", "put"} => cur[k] \in Instances
    BY <1>1, <2>5, AdvanceType DEF TypeOK
  <2> QED  BY <1>8, <2>2, <2>3, <2>4, <2>6 DEF Put, TypeOK, sourceVars
<1>9. CASE DimFetch(j)
  BY <1>1, <1>9 DEF DimFetch, TypeOK, Running, sourceVars, storeVars
<1>10. CASE DimDecide(j)
  <2>1. CASE AttemptFails(j)
    BY <1>10, <2>1, AttemptFailsType DEF DimDecide, Running
  <2>2. CASE pc' = [pc EXCEPT ![j] = "dim_delete"] /\ ~AttemptFails(j)
    BY <1>10, <2>2 DEF DimDecide, TypeOK, Running, sourceVars, storeVars
  <2>3. CASE pc' = [pc EXCEPT ![j] = "done"] /\ ~AttemptFails(j)
    BY <1>10, <2>3 DEF DimDecide, TypeOK, Resting, sourceVars, storeVars
  <2> QED  BY <1>10, <2>1, <2>2, <2>3 DEF DimDecide
<1>11. CASE DimDelete(j)
  BY <1>11 DEF DimDelete, TypeOK, Running, sourceVars
<1>12. CASE DimPut(j)
  BY <1>12 DEF DimPut, TypeOK, Resting, sourceVars
<1> QED
  BY <1>2, <1>3, <1>4, <1>5, <1>6, <1>7, <1>8, <1>9, <1>10, <1>11, <1>12 DEF JobStep

\* TypeOK is preserved by starting a run.
LEMMA StartType ==
  ASSUME TypeOK, NEW j \in Jobs, Start(j)
  PROVE  TypeOK'
<1>1. day' \in [Jobs -> Days]
  BY DEF Start, TypeOK
<1>2. pc' \in [Jobs -> Running \cup Resting]
      /\ \A k \in Jobs : pc'[k] \in {"decide", "delete", "put"} => cur[k] \in Instances
  BY DEF Start, TypeOK, Running
<1>3. tab' \in [Jobs -> Nat \ {0}] /\ \A k \in Jobs : tab'[k] <= Len(JobTables[k])
  BY SomeTable DEF Start, TypeOK
<1>4. result' \in [Jobs -> [Tables \X Instances -> SUBSET Rows]]
  BY DEF Start, TypeOK, NoResult
<1>5. UNCHANGED <<today, registry, source, captured, archive, dim, written, torn,
                  todo, cur, buf, dimbuf>>
  BY DEF Start, sourceVars, storeVars
<1>6. tries' \in [Jobs -> Nat] /\ runs' \in Nat
  BY DEF Start, TypeOK
<1> QED
  BY <1>1, <1>2, <1>3, <1>4, <1>5, <1>6 DEF TypeOK

\* The source may do what it likes: it only moves its own variables.
LEMMA EnvironmentType ==
  ASSUME TypeOK, Environment
  PROVE  TypeOK' /\ UNCHANGED <<storeVars, jobVars>>
<1>1. UNCHANGED <<storeVars, jobVars>>
  BY DEF Environment, Tick, Capture, SweepByAge, SweepByCount, Register
<1>2. SUFFICES /\ today' \in Days
               /\ registry' \subseteq Instances
               /\ source' \in [Part -> SUBSET Rows]
               /\ captured' \in [Part -> SUBSET Rows]
  BY <1>1 DEF TypeOK, storeVars, jobVars
<1>3. CASE Tick
  BY <1>3, ConstantsOK DEF Tick, TypeOK, Days, ConstantsOK
<1>4. CASE Capture
  BY <1>4 DEF Capture, TypeOK
<1>5. CASE SweepByAge
  <2>1. PICK p \in Part : \E r \in source[p] :
          source' = [source EXCEPT ![p] = {x \in source[p] : x > r}]
    BY <1>5 DEF SweepByAge
  <2> PICK r \in source[p] : source' = [source EXCEPT ![p] = {x \in source[p] : x > r}]
    BY <2>1
  <2>2. {x \in source[p] : x > r} \in SUBSET Rows
    BY DEF TypeOK
  <2>3. source' \in [Part -> SUBSET Rows]
    BY <2>2 DEF TypeOK
  <2> QED  BY <1>5, <2>3 DEF SweepByAge, TypeOK
<1>6. CASE SweepByCount
  BY <1>6 DEF SweepByCount, TypeOK
<1>7. CASE Register
  BY <1>7 DEF Register, TypeOK
<1> QED  BY <1>3, <1>4, <1>5, <1>6, <1>7 DEF Environment

\* The types hold at first.
LEMMA TypeInit == Init => TypeOK
BY SomeTable, ConstantsOK
   DEF Init, TypeOK, Days, NoResult, Running, Resting, ConstantsOK

\* Every step keeps the types.
LEMMA TypeStep == TypeOK /\ [Next]_vars => TypeOK'
<1> SUFFICES ASSUME TypeOK, [Next]_vars PROVE TypeOK'
  OBVIOUS
<1>1. CASE UNCHANGED vars
  BY <1>1 DEF vars, sourceVars, storeVars, jobVars, TypeOK
<1>2. CASE Environment
  BY <1>2, EnvironmentType
<1>3. ASSUME NEW j \in Jobs, Start(j) PROVE TypeOK'
  BY <1>3, StartType
<1>4. ASSUME NEW j \in Jobs, JobStep(j) PROVE TypeOK'
  BY <1>4, JobStepType
<1>5. ASSUME NEW j \in Jobs, Crash(j) PROVE TypeOK'
  BY <1>5, AttemptFailsType DEF Crash
<1> QED  BY <1>1, <1>2, <1>3, <1>4, <1>5 DEF Next

\* The variables of RawOffload keep their types, for every set of tables,
\* instances and jobs: every step of every handler writes what it declares.
THEOREM TypeCorrect == Spec => []TypeOK
<1> QED  BY TypeInit, TypeStep, PTL DEF Spec

-----------------------------------------------------------------------------

\* What a worker past its decision is known to hold.
HoldsRows ==
  /\ \A j \in Jobs : pc[j] \in {"delete", "put"} => buf[j] # {}
  /\ \A j \in Jobs : pc[j] \in {"dim_delete", "dim_put"} => dimbuf[j] # {}

IInv == TypeOK /\ HoldsRows /\ VanishedOnlyMidRewrite

\* Every step keeps a writer's hands full.
LEMMA HoldsRowsStep == TypeOK /\ HoldsRows /\ [Next]_vars => HoldsRows'
<1> SUFFICES ASSUME TypeOK, HoldsRows, [Next]_vars PROVE HoldsRows'
  OBVIOUS
<1>1. CASE UNCHANGED vars
  BY <1>1 DEF vars, jobVars, HoldsRows
<1>2. CASE Environment
  BY <1>2, EnvironmentType DEF jobVars, HoldsRows
<1>3. ASSUME NEW j \in Jobs, Start(j) PROVE HoldsRows'
  BY <1>3 DEF Start, HoldsRows, TypeOK
<1>4. ASSUME NEW j \in Jobs, AttemptFails(j) PROVE HoldsRows'
  BY <1>4 DEF AttemptFails, HoldsRows, TypeOK
<1>5. ASSUME NEW j \in Jobs, JobStep(j) PROVE HoldsRows'
  <2> DEFINE rest == todo[j] \ {cur[j]}
  <2>1. rest \in SUBSET Instances /\ registry \in SUBSET Instances
    BY DEF TypeOK
  <2>2. CASE List(j)
    BY <2>1, <2>2, AdvanceType DEF List, HoldsRows
  <2>3. CASE Fetch(j)
    BY <2>3 DEF Fetch, HoldsRows, TypeOK
  <2>4. CASE Overwrite(j)
    BY <2>4 DEF Overwrite, HoldsRows, TypeOK
  <2>5. CASE Skip(j)
    BY <2>1, <2>5, AdvanceType DEF Skip, HoldsRows
  <2>6. CASE Refuse(j)
    BY <2>6, <1>4 DEF Refuse
  <2>7. CASE Delete(j)
    BY <2>7 DEF Delete, HoldsRows, TypeOK
  <2>8. CASE Put(j)
    BY <2>1, <2>8, AdvanceType DEF Put, HoldsRows
  <2>9. CASE DimFetch(j)
    BY <2>9 DEF DimFetch, HoldsRows, TypeOK
  <2>10. CASE DimDecide(j)
    BY <2>10, <1>4 DEF DimDecide, HoldsRows, TypeOK
  <2>11. CASE DimDelete(j)
    BY <2>11 DEF DimDelete, HoldsRows, TypeOK
  <2>12. CASE DimPut(j)
    BY <2>12 DEF DimPut, HoldsRows, TypeOK
  <2> QED
    BY <1>5, <2>2, <2>3, <2>4, <2>5, <2>6, <2>7, <2>8, <2>9, <2>10, <2>11, <2>12
       DEF JobStep
<1>6. ASSUME NEW j \in Jobs, Crash(j) PROVE HoldsRows'
  BY <1>4, <1>6 DEF Crash
<1> QED  BY <1>1, <1>2, <1>3, <1>5, <1>6 DEF Next

\* A step of job j that leaves the archive alone and does not take j out of
\* its put leaves every hole accounted for.
LEMMA HoleKept ==
  ASSUME TypeOK, VanishedOnlyMidRewrite, NEW j \in Jobs,
         pc[j] # "put",
         UNCHANGED <<archive, written, torn>>,
         \A k \in Jobs : k # j => pc'[k] = pc[k] /\ Cur(k)' = Cur(k)
  PROVE  VanishedOnlyMidRewrite'
<1> SUFFICES ASSUME NEW p \in Part, archive[p] = {}, written[p] # {}
             PROVE  p \in torn \/ \E k \in Jobs : pc'[k] = "put" /\ Cur(k)' = p
  BY DEF VanishedOnlyMidRewrite
<1>1. CASE p \in torn
  BY <1>1
<1>2. CASE \E k \in Jobs : pc[k] = "put" /\ Cur(k) = p
  BY <1>2
<1> QED  BY <1>1, <1>2 DEF VanishedOnlyMidRewrite

\* So every hole stays explained.
LEMMA VanishedStep ==
  TypeOK /\ HoldsRows /\ VanishedOnlyMidRewrite /\ [Next]_vars
    => VanishedOnlyMidRewrite'
<1> SUFFICES ASSUME TypeOK, HoldsRows, VanishedOnlyMidRewrite, [Next]_vars
             PROVE  VanishedOnlyMidRewrite'
  OBVIOUS
<1>1. CASE UNCHANGED vars
  BY <1>1 DEF vars, storeVars, jobVars, VanishedOnlyMidRewrite, Cur, Table
<1>2. CASE Environment
  BY <1>2, EnvironmentType DEF storeVars, jobVars, VanishedOnlyMidRewrite, Cur, Table
<1>3. ASSUME NEW j \in Jobs, Start(j) PROVE VanishedOnlyMidRewrite'
  <2>1. pc[j] # "put"
    BY <1>3 DEF Start, Resting
  <2>2. \A k \in Jobs : k # j => pc'[k] = pc[k] /\ Cur(k)' = Cur(k)
    BY <1>3 DEF Start, TypeOK, Cur, Table
  <2> QED  BY <1>3, <2>1, <2>2, HoleKept DEF Start, storeVars
<1>4. ASSUME NEW j \in Jobs, AttemptFails(j) PROVE VanishedOnlyMidRewrite'
  <2>1. \A k \in Jobs : k # j => pc'[k] = pc[k] /\ Cur(k)' = Cur(k)
    BY <1>4 DEF AttemptFails, TypeOK, Cur, Table
  <2>2. CASE pc[j] # "put"
    BY <1>4, <2>1, <2>2, HoleKept DEF AttemptFails
  <2>3. CASE pc[j] = "put"
    <3> SUFFICES ASSUME NEW p \in Part, archive[p] = {}, written[p] # {}
                 PROVE  p \in torn' \/ \E k \in Jobs : pc'[k] = "put" /\ Cur(k)' = p
      BY <1>4 DEF AttemptFails, VanishedOnlyMidRewrite
    <3>1. torn' = torn \cup {Cur(j)}
      BY <1>4, <2>3 DEF AttemptFails
    <3>2. p \in torn \/ \E k \in Jobs : pc[k] = "put" /\ Cur(k) = p
      BY DEF VanishedOnlyMidRewrite
    <3> QED  BY <2>1, <3>1, <3>2
  <2> QED  BY <2>2, <2>3
<1>5. ASSUME NEW j \in Jobs, JobStep(j) PROVE VanishedOnlyMidRewrite'
  <2> DEFINE rest == todo[j] \ {cur[j]}
  <2>1. rest \in SUBSET Instances /\ registry \in SUBSET Instances
    BY DEF TypeOK
  <2>2. CASE List(j) \/ Skip(j)
    <3>1. \A k \in Jobs : k # j => pc'[k] = pc[k] /\ tab'[k] = tab[k]
      BY <2>1, <2>2, AdvanceType DEF List, Skip
    <3>2. cur' = cur /\ day' = day /\ pc[j] # "put" /\ UNCHANGED <<archive, written, torn>>
      BY <2>2 DEF List, Skip, storeVars
    <3>3. \A k \in Jobs : k # j => Cur(k)' = Cur(k)
      BY <3>1, <3>2 DEF Cur, Table
    <3> QED  BY <3>1, <3>2, <3>3, HoleKept
  <2>3. CASE Fetch(j) \/ Overwrite(j) \/ DimFetch(j) \/ DimDelete(j) \/ DimPut(j)
    <3>1. pc[j] # "put" /\ UNCHANGED <<archive, written, torn>>
      BY <2>3 DEF Fetch, Overwrite, DimFetch, DimDelete, DimPut, storeVars
    <3>2. \A k \in Jobs : k # j => pc'[k] = pc[k] /\ Cur(k)' = Cur(k)
      BY <2>3 DEF Fetch, Overwrite, DimFetch, DimDelete, DimPut, TypeOK, Cur, Table
    <3> QED  BY <3>1, <3>2, HoleKept
  <2>4. CASE DimDecide(j) /\ ~AttemptFails(j)
    <3>1. pc[j] # "put" /\ UNCHANGED <<archive, written, torn>>
      BY <2>4 DEF DimDecide, storeVars
    <3>2. \A k \in Jobs : k # j => pc'[k] = pc[k] /\ Cur(k)' = Cur(k)
      BY <2>4 DEF DimDecide, TypeOK, Cur, Table
    <3> QED  BY <3>1, <3>2, HoleKept
  <2>5. CASE AttemptFails(j)
    BY <2>5, <1>4
  <2>6. CASE Delete(j)
    <3> SUFFICES ASSUME NEW p \in Part, archive'[p] = {}, written[p] # {}
                 PROVE  p \in torn \/ \E k \in Jobs : pc'[k] = "put" /\ Cur(k)' = p
      BY <2>6 DEF Delete, VanishedOnlyMidRewrite
    <3>1. \A k \in Jobs : Cur(k)' = Cur(k)
      BY <2>6 DEF Delete, Cur, Table
    <3>2. pc'[j] = "put" /\ \A k \in Jobs : k # j => pc'[k] = pc[k]
      BY <2>6 DEF Delete, TypeOK
    <3>3. CASE p = Cur(j)
      BY <3>1, <3>2, <3>3
    <3>4. CASE p # Cur(j)
      <4>1. archive[p] = {}
        BY <2>6, <3>4 DEF Delete, TypeOK
      <4>2. p \in torn \/ \E k \in Jobs : pc[k] = "put" /\ Cur(k) = p
        BY <4>1 DEF VanishedOnlyMidRewrite
      <4> QED  BY <3>1, <3>2, <4>2
    <3> QED  BY <3>3, <3>4
  <2>7. CASE Put(j)
    <3> SUFFICES ASSUME NEW p \in Part, archive'[p] = {}, written'[p] # {}
                 PROVE  p \in torn' \/ \E k \in Jobs : pc'[k] = "put" /\ Cur(k)' = p
      BY DEF VanishedOnlyMidRewrite
    <3>1. Cur(j) \in Part /\ buf[j] # {}
      BY <2>7, CurType DEF Put, HoldsRows
    <3>2. p # Cur(j) /\ archive[p] = {} /\ written[p] # {}
      BY <2>7, <3>1 DEF Put, TypeOK
    <3>3. \A k \in Jobs : k # j => pc'[k] = pc[k] /\ tab'[k] = tab[k]
      BY <2>1, <2>7, AdvanceType DEF Put
    <3>4. \A k \in Jobs : k # j => Cur(k)' = Cur(k)
      BY <2>7, <3>3 DEF Put, Cur, Table
    <3>5. p \in torn \/ \E k \in Jobs : pc[k] = "put" /\ Cur(k) = p
      BY <3>2 DEF VanishedOnlyMidRewrite
    <3>6. torn' = torn \ {Cur(j)}
      BY <2>7 DEF Put
    <3> QED  BY <3>2, <3>3, <3>4, <3>5, <3>6
  <2> QED
    BY <1>5, <2>2, <2>3, <2>4, <2>5, <2>6, <2>7 DEF JobStep, Refuse
<1>6. ASSUME NEW j \in Jobs, Crash(j) PROVE VanishedOnlyMidRewrite'
  BY <1>4, <1>6 DEF Crash
<1> QED  BY <1>1, <1>2, <1>3, <1>5, <1>6 DEF Next

\* The invariant holds at first.
LEMMA IInvInit == Init => IInv
<1>1. Init => TypeOK
  BY TypeInit
<1>2. Init => HoldsRows /\ VanishedOnlyMidRewrite
  BY DEF Init, HoldsRows, VanishedOnlyMidRewrite
<1> QED  BY <1>1, <1>2 DEF IInv

\* Every step keeps it.
LEMMA IInvStep == IInv /\ [Next]_vars => IInv'
BY TypeStep, HoldsRowsStep, VanishedStep DEF IInv

\* The invariant holds at all times.
LEMMA Invariance == Spec => []IInv
<1> QED  BY IInvInit, IInvStep, PTL DEF Spec

\* A partition once written is missing only while a worker is between its
\* deletion and its put or after an attempt died there, however many workers
\* share it and however the source is swept (run_offload, lines 213-221).
THEOREM HolesAreTorn == Spec => []VanishedOnlyMidRewrite
<1>1. IInv => VanishedOnlyMidRewrite
  BY DEF IInv
<1> QED  BY <1>1, Invariance, PTL

\* Every step that empties a partition or a day of the dimension is taken by
\* a worker that holds rows to put back.
LEMMA DeleteStep ==
  IInv /\ [Next]_vars =>
    /\ \A p \in Part : archive[p] # {} /\ archive'[p] = {} =>
         \E j \in Jobs : pc[j] = "delete" /\ Cur(j) = p /\ buf[j] # {}
    /\ \A d \in Days : dim[d] # {} /\ dim'[d] = {} =>
         \E j \in Jobs : pc[j] = "dim_delete" /\ day[j] = d /\ dimbuf[j] # {}
<1> SUFFICES ASSUME TypeOK, HoldsRows, [Next]_vars
             PROVE  /\ \A p \in Part : archive[p] # {} /\ archive'[p] = {} =>
                         \E j \in Jobs : pc[j] = "delete" /\ Cur(j) = p /\ buf[j] # {}
                    /\ \A d \in Days : dim[d] # {} /\ dim'[d] = {} =>
                         \E j \in Jobs : /\ pc[j] = "dim_delete"
                                         /\ day[j] = d
                                         /\ dimbuf[j] # {}
  BY DEF IInv
<1>1. CASE UNCHANGED <<archive, dim>>
  BY <1>1
<1>2. ASSUME NEW j \in Jobs, Delete(j) \/ Put(j)
      PROVE  /\ dim' = dim
             /\ \A p \in Part : archive[p] # {} /\ archive'[p] = {} =>
                  pc[j] = "delete" /\ Cur(j) = p /\ buf[j] # {}
  <2>1. Cur(j) \in Part /\ buf[j] # {}
    BY <1>2, CurType DEF Delete, Put, HoldsRows
  <2> QED  BY <1>2, <2>1 DEF Delete, Put, TypeOK
<1>3. ASSUME NEW j \in Jobs, DimDelete(j) \/ DimPut(j)
      PROVE  /\ archive' = archive
             /\ \A d \in Days : dim[d] # {} /\ dim'[d] = {} =>
                  pc[j] = "dim_delete" /\ day[j] = d /\ dimbuf[j] # {}
  <2>1. day[j] \in Days /\ dimbuf[j] # {}
    BY <1>3 DEF DimDelete, DimPut, HoldsRows, TypeOK
  <2> QED  BY <1>3, <2>1 DEF DimDelete, DimPut, TypeOK
<1>4. CASE \E j \in Jobs : Delete(j) \/ Put(j)
  BY <1>2, <1>4
<1>5. CASE \E j \in Jobs : DimDelete(j) \/ DimPut(j)
  BY <1>3, <1>5
<1>6. UNCHANGED <<archive, dim>> \/ (\E j \in Jobs : Delete(j) \/ Put(j))
        \/ (\E j \in Jobs : DimDelete(j) \/ DimPut(j))
  <2>1. CASE UNCHANGED vars
    BY <2>1 DEF vars, storeVars
  <2>2. CASE Environment
    BY <2>2, EnvironmentType DEF storeVars
  <2>3. ASSUME NEW j \in Jobs, Start(j) \/ Crash(j) PROVE UNCHANGED <<archive, dim>>
    BY <2>3 DEF Start, Crash, AttemptFails, storeVars
  <2>4. ASSUME NEW j \in Jobs, JobStep(j), ~(Delete(j) \/ Put(j)),
               ~(DimDelete(j) \/ DimPut(j))
        PROVE  UNCHANGED <<archive, dim>>
    BY <2>4 DEF JobStep, List, Fetch, Overwrite, Skip, Refuse, DimFetch, DimDecide,
                AttemptFails, storeVars
  <2> QED  BY <2>1, <2>2, <2>3, <2>4 DEF Next
<1> QED  BY <1>1, <1>4, <1>5, <1>6

\* The fail-closed rule of decide_partition_action, for every interleaving:
\* an empty read never destroys what is archived.
THEOREM EmptyReadsDestroyNothing == Spec => NoDeleteWithoutRows
<1>1. IInv /\ [Next]_vars =>
        [/\ \A p \in Part : archive[p] # {} /\ archive'[p] = {} =>
              \E j \in Jobs : pc[j] = "delete" /\ Cur(j) = p /\ buf[j] # {}
         /\ \A d \in Days : dim[d] # {} /\ dim'[d] = {} =>
              \E j \in Jobs : pc[j] = "dim_delete" /\ day[j] = d /\ dimbuf[j] # {}
        ]_vars
  BY DeleteStep
<1> QED  BY <1>1, Invariance, PTL DEF Spec, NoDeleteWithoutRows
-----------------------------------------------------------------------------
(* What the retention of the source leaves alone. *)

\* Partition p is kept by age, and its day is still inside the window.
InWindow(p) == Retention[p[1]] # 0 /\ today - p[3] < Retention[p[1]]

Copying == {"decide", "delete", "put"}

\* Inside the window the source has all that was ever copied of a partition.
WindowKept ==
  /\ \A p \in Part : InWindow(p) => archive[p] \subseteq source[p]
  /\ \A p \in Part : InWindow(p) => written[p] \subseteq source[p]
  /\ \A j \in Jobs : pc[j] \in Copying /\ InWindow(Cur(j)) => buf[j] \subseteq source[Cur(j)]


\* A window only closes, and while it is open the source only gains rows.
LEMMA SourceGrows ==
  ASSUME TypeOK, [Next]_vars, NEW p \in Part, InWindow(p)'
  PROVE  InWindow(p) /\ source[p] \subseteq source'[p]
<1>1. p[1] \in Tables /\ p[3] \in Days /\ Retention[p[1]] \in Nat
  BY ConstantsOK DEF Part
<1>2. today \in Int /\ p[3] \in Int
  BY <1>1, ConstantsOK DEF TypeOK, Days
<1>3. CASE UNCHANGED <<today, source>>
  BY <1>3 DEF InWindow
<1>4. CASE Tick
  <2>1. today' = today + 1 /\ source' = source
    BY <1>4 DEF Tick
  <2> QED
    BY <1>1, <1>2, <2>1 DEF InWindow
<1>5. CASE Capture
  BY <1>5 DEF Capture, TypeOK, InWindow
<1>6. CASE SweepByAge
  <2>1. PICK q \in Part : /\ Retention[q[1]] # 0 /\ today - q[3] >= Retention[q[1]]
                          /\ \E r \in source[q] :
                               source' = [source EXCEPT ![q] = {x \in source[q] : x > r}]
    BY <1>6 DEF SweepByAge
  <2>2. InWindow(p) /\ today' = today
    BY <1>6 DEF SweepByAge, InWindow
  <2>3. p # q
    BY <1>1, <1>2, <2>1, <2>2 DEF InWindow
  <2> QED
    BY <2>1, <2>2, <2>3 DEF TypeOK
<1>7. CASE SweepByCount
  <2>1. PICK q \in Part : /\ Retention[q[1]] = 0
                          /\ \E r \in source[q] :
                               source' = [source EXCEPT ![q] = source[q] \ {r}]
    BY <1>7 DEF SweepByCount
  <2>2. InWindow(p)
    BY <1>7 DEF SweepByCount, InWindow
  <2> QED
    BY <2>1, <2>2 DEF TypeOK, InWindow
<1>8. CASE Register
  BY <1>3, <1>8 DEF Register
<1>9. ASSUME NEW j \in Jobs, Start(j) \/ JobStep(j) \/ Crash(j)
      PROVE  UNCHANGED <<today, source>>
  BY <1>9 DEF Start, JobStep, Crash, List, Fetch, Overwrite, Skip, Refuse, Delete, Put,
              DimFetch, DimDecide, DimDelete, DimPut, AttemptFails, sourceVars
<1> QED
  BY <1>3, <1>4, <1>5, <1>6, <1>7, <1>8, <1>9 DEF Next, Environment, vars, sourceVars

\* What a step of a job may be; a step of the dimension snapshot touches no table.
DimMove(j) ==
  /\ pc[j] \in {"dim_fetch", "dim_decide", "dim_delete", "dim_put"}
  /\ pc'[j] \in {"dim_decide", "dim_delete", "dim_put", "done"}
  /\ \A k \in Jobs : k # j => pc'[k] = pc[k]
  /\ UNCHANGED <<archive, written, day, tab, todo, cur, buf, result>>

\* The steps of a job that matter to the stores.
LEMMA JobMoves ==
  ASSUME TypeOK, NEW j \in Jobs, Start(j) \/ JobStep(j) \/ Crash(j)
  PROVE  \/ Start(j) \/ (AttemptFails(j) /\ pc[j] \in Running)
         \/ List(j) \/ Fetch(j) \/ Overwrite(j) \/ Skip(j)
         \/ Delete(j) \/ Put(j) \/ DimMove(j)
<1>1. CASE DimFetch(j) \/ DimDelete(j) \/ DimPut(j)
  BY <1>1 DEF DimFetch, DimDelete, DimPut, DimMove, TypeOK, storeVars
<1>2. CASE DimDecide(j)
  BY <1>2 DEF DimDecide, DimMove, TypeOK, storeVars, Running
<1>3. CASE Crash(j) \/ Refuse(j)
  BY <1>3 DEF Crash, Refuse, Running
<1> QED
  BY <1>1, <1>2, <1>3 DEF JobStep

\* A job moves nothing of another's.
LEMMA OthersRest ==
  ASSUME TypeOK, NEW j \in Jobs, Start(j) \/ JobStep(j) \/ Crash(j), NEW k \in Jobs, k # j
  PROVE  /\ pc'[k] = pc[k] /\ day'[k] = day[k] /\ tab'[k] = tab[k] /\ todo'[k] = todo[k]
         /\ cur'[k] = cur[k] /\ buf'[k] = buf[k] /\ result'[k] = result[k]
         /\ Cur(k)' = Cur(k)
<1> SUFFICES /\ pc'[k] = pc[k] /\ day'[k] = day[k] /\ tab'[k] = tab[k] /\ todo'[k] = todo[k]
             /\ cur'[k] = cur[k] /\ buf'[k] = buf[k] /\ result'[k] = result[k]
  BY DEF Cur, Table
<1>1. CASE Start(j)
  BY <1>1 DEF Start, TypeOK
<1>2. CASE AttemptFails(j)
  BY <1>2 DEF AttemptFails, TypeOK
<1>3. CASE List(j) \/ Skip(j) \/ Put(j)
  <2>1. PICK rest \in SUBSET Instances : Advance(j, rest)
    BY <1>3 DEF List, Skip, Put, TypeOK
  <2>2. pc'[k] = pc[k] /\ tab'[k] = tab[k]
    BY <2>1, AdvanceType
  <2>3. todo'[k] = todo[k]
    BY <2>1 DEF Advance, TypeOK
  <2>4. result'[k] = result[k] /\ UNCHANGED <<day, cur, buf>>
    BY <1>3 DEF List, Skip, Put, TypeOK
  <2> QED
    BY <2>2, <2>3, <2>4
<1>4. CASE Fetch(j) \/ Overwrite(j) \/ Delete(j)
  BY <1>4 DEF Fetch, Overwrite, Delete, TypeOK
<1>5. CASE DimMove(j)
  BY <1>5 DEF DimMove
<1> QED
  BY <1>1, <1>2, <1>3, <1>4, <1>5, JobMoves

\* What a job does to the archive, and what it then holds.
LEMMA CopySteps ==
  ASSUME TypeOK, NEW j \in Jobs, Start(j) \/ JobStep(j) \/ Crash(j)
  PROVE  /\ UNCHANGED <<archive, written>> \/ Delete(j) \/ Put(j)
         /\ pc'[j] \in Copying =>
              \/ /\ pc[j] = "fetch" /\ UNCHANGED <<archive, written, todo, result, tab>>
                 /\ cur'[j] \in todo[j] /\ Cur(j)' \in Part /\ buf'[j] = source[Cur(j)']
              \/ /\ pc[j] \in Copying /\ UNCHANGED <<written, todo, result, tab, cur>>
                 /\ Cur(j)' = Cur(j) /\ buf'[j] = buf[j]
<1>1. CASE Start(j)
  BY <1>1 DEF Start, TypeOK, storeVars, Copying
<1>2. CASE AttemptFails(j)
  BY <1>2 DEF AttemptFails, TypeOK, Copying
<1>3. CASE List(j) \/ Skip(j) \/ Put(j)
  <2>1. PICK rest \in SUBSET Instances : Advance(j, rest)
    BY <1>3 DEF List, Skip, Put, TypeOK
  <2>2. pc'[j] \notin Copying
    BY <2>1, AdvanceType DEF Copying
  <2> QED
    BY <1>3, <2>2 DEF List, Skip, storeVars
<1>4. CASE Fetch(j)
  <2>1. PICK i \in todo[j] :
          /\ cur' = [cur EXCEPT ![j] = i]
          /\ buf' = [buf EXCEPT ![j] = source[<<Table(j), i, day[j]>>]]
    BY <1>4 DEF Fetch
  <2>2. pc[j] = "fetch" /\ UNCHANGED <<archive, written, todo, result, tab, day>>
    BY <1>4 DEF Fetch, storeVars
  <2>3. cur'[j] = i /\ buf'[j] = source[<<Table(j), i, day[j]>>] /\ i \in Instances
    BY <2>1 DEF TypeOK
  <2>4. Cur(j)' = <<Table(j), i, day[j]>>
    BY <2>2, <2>3 DEF Cur, Table
  <2>5. <<Table(j), i, day[j]>> \in Part
    BY <2>3, TableType DEF Part, TypeOK
  <2> QED
    BY <2>2, <2>3, <2>4, <2>5
<1>5. CASE Overwrite(j) \/ Delete(j)
  BY <1>5 DEF Overwrite, Delete, Copying, storeVars, Cur, Table
<1>6. CASE DimMove(j)
  BY <1>6 DEF DimMove, Copying
<1> QED
  BY <1>1, <1>2, <1>3, <1>4, <1>5, <1>6, JobMoves

\* What is being copied is a partition.
LEMMA CopyingPart == TypeOK => \A j \in Jobs : pc[j] \in Copying => Cur(j) \in Part
BY CurType DEF Copying

\* Every step keeps the window's rows with the source.
LEMMA WindowStep == ASSUME TypeOK, WindowKept, [Next]_vars PROVE WindowKept'
<1>0. \A p \in Part : InWindow(p)' => InWindow(p) /\ source[p] \subseteq source'[p]
  BY SourceGrows
<1>1. CASE UNCHANGED <<storeVars, jobVars>>
  <2>1. \A j \in Jobs : Cur(j)' = Cur(j)
    BY <1>1 DEF jobVars, Cur, Table
  <2> QED
    BY <1>0, <1>1, <2>1, CopyingPart DEF WindowKept, storeVars, jobVars
<1>2. ASSUME NEW j \in Jobs, Start(j) \/ JobStep(j) \/ Crash(j)
      PROVE  WindowKept'
  <2>1. \A p \in Part : InWindow(p)' => archive'[p] \subseteq source[p]
    <3>1. CASE Delete(j) \/ Put(j)
      <4>1. pc[j] \in Copying /\ Cur(j) \in Part
        BY <3>1, CopyingPart DEF Delete, Put, Copying
      <4>2. InWindow(Cur(j)) => buf[j] \subseteq source[Cur(j)]
        BY <4>1 DEF WindowKept
      <4>3. archive' = [archive EXCEPT ![Cur(j)] = {}]
              \/ archive' = [archive EXCEPT ![Cur(j)] = buf[j]]
        BY <3>1 DEF Delete, Put
      <4> QED
        BY <1>0, <4>1, <4>2, <4>3 DEF WindowKept, TypeOK
    <3> QED
      BY <1>0, <1>2, <3>1, CopySteps DEF WindowKept
  <2>2. \A p \in Part : InWindow(p)' => written'[p] \subseteq source[p]
    <3>1. CASE Put(j)
      <4>1. pc[j] \in Copying /\ Cur(j) \in Part
        BY <3>1, CopyingPart DEF Put, Copying
      <4>2. InWindow(Cur(j)) => buf[j] \subseteq source[Cur(j)]
        BY <4>1 DEF WindowKept
      <4>3. written' = [written EXCEPT ![Cur(j)] = buf[j]]
        BY <3>1 DEF Put
      <4> QED
        BY <1>0, <4>1, <4>2, <4>3 DEF WindowKept, TypeOK
    <3>2. CASE Delete(j)
      BY <1>0, <3>2 DEF Delete, WindowKept
    <3> QED
      BY <1>0, <1>2, <3>1, <3>2, CopySteps DEF WindowKept
  <2>3. \A k \in Jobs : pc'[k] \in Copying /\ InWindow(Cur(k)') =>
          buf'[k] \subseteq source[Cur(k)']
    <3> SUFFICES ASSUME NEW k \in Jobs, pc'[k] \in Copying, InWindow(Cur(k)')
                 PROVE  buf'[k] \subseteq source[Cur(k)']
      OBVIOUS
    <3>1. CASE k = j
      BY <1>2, <3>1, CopySteps DEF WindowKept
    <3>2. CASE k # j
      BY <1>2, <3>2, OthersRest DEF WindowKept
    <3> QED
      BY <3>1, <3>2
  <2>4. UNCHANGED <<today, source>>
    BY <1>2 DEF Start, JobStep, Crash, List, Fetch, Overwrite, Skip, Refuse, Delete, Put,
                DimFetch, DimDecide, DimDelete, DimPut, AttemptFails, sourceVars
  <2>5. \A k \in Jobs : InWindow(Cur(k))' <=> InWindow(Cur(k)')
    BY <2>4 DEF InWindow
  <2> QED
    BY <2>1, <2>2, <2>3, <2>4, <2>5 DEF WindowKept
<1>3. CASE UNCHANGED vars
  BY <1>1, <1>3 DEF vars
<1>4. CASE Environment
  BY <1>1, <1>4, EnvironmentType
<1> QED
  BY <1>2, <1>3, <1>4 DEF Next

\* The window's rows are there at first.
LEMMA WindowInit == Init => WindowKept
BY DEF Init, WindowKept, Copying

\* They are there at all times.
LEMMA WindowInvariance == Spec => [](IInv /\ WindowKept)
<1>1. IInv /\ WindowKept /\ [Next]_vars => WindowKept'
  BY WindowStep DEF IInv
<1> QED
  BY <1>1, IInvInit, IInvStep, WindowInit, PTL DEF Spec

-----------------------------------------------------------------------------
(* Jobs that share no table. *)

\* Each table is walked by one job, and once: the DAG's own tasks are like that,
\* an operator at the command line may not be.
OwnTables ==
  \A j, k \in Jobs : \A a \in 1..Len(JobTables[j]), b \in 1..Len(JobTables[k]) :
    JobTables[j][a] = JobTables[k][b] => j = k /\ a = b

\* The rows a job holds are at least those that were written before.
HoldsWritten ==
  \A j \in Jobs : pc[j] \in Copying /\ InWindow(Cur(j)) => written[Cur(j)] \subseteq buf[j]

\* What a job has reported in this attempt is behind it.
Behind(j, k) ==
  \E a \in 1..tab[j] :
    /\ k[1] = JobTables[j][a]
    /\ a = tab[j] => /\ pc[j] # "list"
                     /\ pc[j] \in Copying \cup {"fetch"} => k[2] \notin todo[j]

ReportsAreBehind ==
  /\ \A j \in Jobs : pc[j] \in Copying => cur[j] \in todo[j]
  /\ \A j \in Jobs, k \in Tables \X Instances : result[j][k] # {} => Behind(j, k)

\* What a job has reported in this attempt is archived, done or not.
ReportsHold ==
  \A j \in Jobs, k \in Tables \X Instances :
    result[j][k] # {} => archive[<<k[1], k[2], day[j]>>] = result[j][k]

OwnIInv == IInv /\ WindowKept /\ HoldsWritten /\ ReportsAreBehind /\ ReportsHold

\* Every step keeps a worker's rows above what it replaces.
LEMMA HoldsWrittenStep ==
  ASSUME OwnTables, TypeOK, WindowKept, HoldsWritten, [Next]_vars
  PROVE  HoldsWritten'
<1>0. \A p \in Part : InWindow(p)' => InWindow(p)
  BY SourceGrows
<1>1. CASE UNCHANGED <<storeVars, jobVars>>
  <2>1. \A j \in Jobs : Cur(j)' = Cur(j)
    BY <1>1 DEF jobVars, Cur, Table
  <2> QED
    BY <1>0, <1>1, <2>1, CopyingPart DEF HoldsWritten, storeVars, jobVars
<1>2. ASSUME NEW j \in Jobs, Start(j) \/ JobStep(j) \/ Crash(j)
      PROVE  HoldsWritten'
  <2> SUFFICES ASSUME NEW k \in Jobs, pc'[k] \in Copying, InWindow(Cur(k))'
               PROVE  written'[Cur(k)'] \subseteq buf'[k]
    BY DEF HoldsWritten
  <2>1. InWindow(Cur(k)')
    <3>1. today' = today
      BY <1>2 DEF Start, JobStep, Crash, List, Fetch, Overwrite, Skip, Refuse, Delete, Put,
                  DimFetch, DimDecide, DimDelete, DimPut, AttemptFails, sourceVars
    <3> QED
      BY <3>1 DEF InWindow
  <2>2. CASE k = j
    BY <1>2, <2>1, <2>2, CopySteps DEF HoldsWritten, WindowKept
  <2>3. CASE k # j
    <3>1. pc[k] \in Copying /\ Cur(k)' = Cur(k) /\ buf'[k] = buf[k]
      BY <1>2, <2>3, OthersRest
    <3>2. written[Cur(k)] \subseteq buf[k]
      BY <2>1, <3>1 DEF HoldsWritten
    <3>3. CASE Put(j)
      <4>1. pc[j] \in Copying /\ written' = [written EXCEPT ![Cur(j)] = buf[j]]
        BY <3>3 DEF Put, Copying
      <4>2. Table(j) # Table(k)
        BY <2>3, SomeTable DEF OwnTables, Table, TypeOK
      <4>3. Cur(k) # Cur(j)
        BY <4>2 DEF Cur
      <4> QED
        BY <3>1, <3>2, <4>1, <4>3, CopyingPart DEF TypeOK
    <3>4. CASE UNCHANGED written
      BY <3>1, <3>2, <3>4
    <3> QED
      BY <1>2, <3>3, <3>4, CopySteps DEF Delete
  <2> QED
    BY <2>2, <2>3
<1>3. CASE UNCHANGED vars
  BY <1>1, <1>3 DEF vars
<1>4. CASE Environment
  BY <1>1, <1>4, EnvironmentType
<1> QED
  BY <1>2, <1>3, <1>4 DEF Next

\* What is behind a job stays behind it as it moves on.
LEMMA AdvanceBehind ==
  ASSUME TypeOK, NEW j \in Jobs, NEW rest \in SUBSET Instances, Advance(j, rest),
         NEW k \in Tables \X Instances, NEW a \in 1..tab[j], k[1] = JobTables[j][a],
         a = tab[j] => k[2] \notin rest
  PROVE  Behind(j, k)'
<1>1. tab[j] \in Nat /\ a \in Nat /\ 1 <= a /\ a <= tab[j] /\ todo'[j] = rest
  BY DEF TypeOK, Advance
<1>2. CASE rest # {}
  <2>1. pc'[j] = "fetch" /\ tab'[j] = tab[j]
    BY <1>2 DEF Advance, TypeOK
  <2> QED
    BY <1>1, <2>1 DEF Behind
<1>3. CASE rest = {} /\ tab[j] < Len(JobTables[j])
  <2>1. pc'[j] = "list" /\ tab'[j] = tab[j] + 1
    BY <1>3 DEF Advance, TypeOK
  <2>2. a \in 1..tab'[j] /\ a # tab'[j]
    BY <1>1, <2>1
  <2> QED
    BY <2>2 DEF Behind
<1>4. CASE rest = {} /\ ~(tab[j] < Len(JobTables[j]))
  <2>1. pc'[j] \in {"dim_fetch", "done"} /\ tab'[j] = tab[j]
    BY <1>4 DEF Advance, TypeOK
  <2> QED
    BY <1>1, <2>1 DEF Behind, Copying
<1> QED
  BY <1>2, <1>3, <1>4

\* What a job still copies it has not reported: with tables of their own, no job
\* touches what is reported.
LEMMA NotReported ==
  ASSUME OwnTables, TypeOK, ReportsAreBehind, NEW j \in Jobs, pc[j] \in Copying,
         NEW i \in Jobs, NEW k \in Tables \X Instances, result[i][k] # {}
  PROVE  <<k[1], k[2], day[i]>> # Cur(j)
<1> SUFFICES ASSUME <<k[1], k[2], day[i]>> = Cur(j) PROVE FALSE
  OBVIOUS
<1>1. k[1] = Table(j) /\ k[2] = cur[j]
  BY DEF Cur
<1>2. PICK a \in 1..tab[i] :
        /\ k[1] = JobTables[i][a]
        /\ a = tab[i] /\ pc[i] \in Copying => k[2] \notin todo[i]
  BY DEF ReportsAreBehind, Behind
<1>3. a \in 1..Len(JobTables[i]) /\ tab[j] \in 1..Len(JobTables[j])
  BY SomeTable DEF TypeOK
<1>4. i = j /\ a = tab[j]
  <2>1. JobTables[i][a] = JobTables[j][tab[j]]
    BY <1>1, <1>2 DEF Table
  <2>2. \A b \in 1..Len(JobTables[j]) : JobTables[i][a] = JobTables[j][b] => i = j /\ a = b
    BY <1>3 DEF OwnTables
  <2> QED
    BY <1>3, <2>1, <2>2
<1> QED
  BY <1>1, <1>2, <1>4 DEF ReportsAreBehind

\* Of the reports, a step of job j leaves the others', and its own unless it
\* starts anew or puts.
LEMMA BehindStep ==
  ASSUME TypeOK, ReportsAreBehind, [Next]_vars
  PROVE  ReportsAreBehind'
<1>1. CASE UNCHANGED jobVars
  BY <1>1 DEF jobVars, ReportsAreBehind, Behind
<1>2. ASSUME NEW j \in Jobs, Start(j) \/ JobStep(j) \/ Crash(j)
      PROVE  ReportsAreBehind'
  <2>1. \A i \in Jobs : pc'[i] \in Copying => cur'[i] \in todo'[i]
    <3> SUFFICES ASSUME NEW i \in Jobs, pc'[i] \in Copying PROVE cur'[i] \in todo'[i]
      OBVIOUS
    <3>1. CASE i = j
      BY <1>2, <3>1, CopySteps DEF ReportsAreBehind
    <3>2. CASE i # j
      BY <1>2, <3>2, OthersRest DEF ReportsAreBehind
    <3> QED
      BY <3>1, <3>2
  <2>2. ASSUME NEW k \in Tables \X Instances, result'[j][k] # {}
        PROVE  Behind(j, k)'
    <3>0. result[j][k] # {} => Behind(j, k)
      BY DEF ReportsAreBehind
    <3>1. CASE Start(j) \/ AttemptFails(j)
      BY <2>2, <3>1 DEF Start, AttemptFails, NoResult, TypeOK
    <3>2. CASE List(j)
      <4>1. PICK a \in 1..tab[j] : k[1] = JobTables[j][a] /\ a # tab[j]
        BY <2>2, <3>0, <3>2 DEF List, Behind
      <4> QED
        BY <3>2, <4>1, AdvanceBehind DEF List, TypeOK
    <3>3. CASE Skip(j)
      <4>1. PICK a \in 1..tab[j] : k[1] = JobTables[j][a] /\ (a = tab[j] => k[2] \notin todo[j])
        BY <2>2, <3>0, <3>3 DEF Skip, Behind, Copying
      <4>2. Advance(j, todo[j] \ {cur[j]}) /\ todo[j] \ {cur[j]} \in SUBSET Instances
        BY <3>3 DEF Skip, TypeOK
      <4> QED
        BY <4>1, <4>2, AdvanceBehind
    <3>4. CASE Put(j)
      <4>1. Advance(j, todo[j] \ {cur[j]}) /\ todo[j] \ {cur[j]} \in SUBSET Instances
        BY <3>4 DEF Put, TypeOK
      <4>2. CASE result[j][k] # {}
        <5>1. PICK a \in 1..tab[j] :
                k[1] = JobTables[j][a] /\ (a = tab[j] => k[2] \notin todo[j])
          BY <3>0, <3>4, <4>2 DEF Put, Behind, Copying
        <5> QED
          BY <4>1, <5>1, AdvanceBehind
      <4>3. CASE result[j][k] = {}
        <5>1. k = <<Table(j), cur[j]>>
          BY <2>2, <3>4, <4>3 DEF Put, TypeOK
        <5>2. tab[j] \in 1..tab[j]
          BY DEF TypeOK
        <5> QED
          BY <4>1, <5>1, <5>2, AdvanceBehind DEF Table
      <4> QED
        BY <4>2, <4>3
    <3>5. CASE Fetch(j) \/ Overwrite(j) \/ Delete(j)
      <4>1. UNCHANGED <<tab, todo, result>> /\ pc[j] \in Copying \cup {"fetch"} /\ pc'[j] # "list"
        BY <3>5 DEF Fetch, Overwrite, Delete, Copying, TypeOK
      <4> QED
        BY <2>2, <3>0, <4>1 DEF Behind
    <3>6. CASE DimMove(j)
      BY <2>2, <3>0, <3>6 DEF DimMove, Behind, Copying
    <3> QED
      BY <1>2, <3>1, <3>2, <3>3, <3>4, <3>5, <3>6, JobMoves
  <2>3. ASSUME NEW i \in Jobs, i # j, NEW k \in Tables \X Instances, result'[i][k] # {}
        PROVE  Behind(i, k)'
    <3>1. pc'[i] = pc[i] /\ tab'[i] = tab[i] /\ todo'[i] = todo[i] /\ result'[i] = result[i]
      BY <1>2, <2>3, OthersRest
    <3> QED
      BY <2>3, <3>1 DEF ReportsAreBehind, Behind
  <2> QED
    BY <2>1, <2>2, <2>3 DEF ReportsAreBehind
<1> QED
  BY <1>1, <1>2, EnvironmentType DEF Next, vars

\* Every step keeps what has been reported.
LEMMA ReportsStep ==
  ASSUME OwnTables, TypeOK, ReportsAreBehind, ReportsHold, [Next]_vars
  PROVE  ReportsHold'
<1>1. CASE UNCHANGED <<storeVars, jobVars>>
  BY <1>1 DEF storeVars, jobVars, ReportsHold
<1>2. ASSUME NEW j \in Jobs, Start(j) \/ JobStep(j) \/ Crash(j),
             NEW i \in Jobs, NEW k \in Tables \X Instances, result'[i][k] # {}
      PROVE  archive'[<<k[1], k[2], day'[i]>>] = result'[i][k]
  <2> DEFINE p == <<k[1], k[2], day[i]>>
  <2>1. p \in Part
    BY DEF TypeOK, Part
  <2>2. CASE result'[i] = result[i] /\ day'[i] = day[i]
    <3>1. result[i][k] # {} /\ archive[p] = result[i][k]
      BY <1>2, <2>2 DEF ReportsHold
    <3>2. archive'[p] = archive[p]
      <4>1. CASE Delete(j) \/ Put(j)
        <5>1. p # Cur(j)
          BY <3>1, <4>1, NotReported DEF Delete, Put, Copying
        <5> QED
          BY <2>1, <4>1, <5>1 DEF Delete, Put, TypeOK
      <4> QED
        BY <1>2, <4>1, CopySteps
    <3> QED
      BY <2>2, <3>1, <3>2
  <2>3. CASE i = j /\ (Start(j) \/ AttemptFails(j))
    BY <1>2, <2>3 DEF Start, AttemptFails, NoResult, TypeOK
  <2>4. CASE i = j /\ Put(j)
    <3>1. Cur(j) \in Part /\ day' = day
      BY <2>4, CurType DEF Put
    <3>2. CASE k = <<Table(j), cur[j]>>
      <4>1. p = Cur(j)
        BY <2>4, <3>2 DEF Cur
      <4>2. archive'[Cur(j)] = buf[j]
        BY <2>4, <3>1 DEF Put, TypeOK
      <4>3. result'[j][k] = buf[j]
        BY <2>4, <3>2 DEF Put, TypeOK
      <4> QED
        BY <2>4, <3>1, <4>1, <4>2, <4>3
    <3>3. CASE k # <<Table(j), cur[j]>>
      <4>1. result'[j][k] = result[j][k]
        BY <2>4, <3>3 DEF Put, TypeOK
      <4>2. p # Cur(j) /\ archive[p] = result[j][k]
        BY <1>2, <2>4, <4>1, NotReported DEF Put, Copying, ReportsHold
      <4> QED
        BY <2>1, <2>4, <3>1, <4>1, <4>2 DEF Put, TypeOK
    <3> QED
      BY <3>2, <3>3
  <2>5. CASE i = j /\ (List(j) \/ Fetch(j) \/ Overwrite(j) \/ Skip(j) \/ Delete(j) \/ DimMove(j))
    BY <2>2, <2>5 DEF List, Fetch, Overwrite, Skip, Delete, DimMove
  <2> QED
    BY <1>2, <2>2, <2>3, <2>4, <2>5, JobMoves, OthersRest
<1>3. CASE UNCHANGED vars
  BY <1>1, <1>3 DEF vars
<1>4. CASE Environment
  BY <1>1, <1>4, EnvironmentType
<1> QED
  BY <1>2, <1>3, <1>4 DEF Next, ReportsHold

\* Where each table has one writer, the archive is what is reported, at all times.
LEMMA OwnInvariance ==
  ASSUME OwnTables PROVE Spec => []OwnIInv
<1>1. Init => OwnIInv
  <2>1. Init => HoldsWritten /\ ReportsAreBehind /\ ReportsHold
    BY DEF Init, HoldsWritten, ReportsAreBehind, ReportsHold, Copying, NoResult
  <2> QED
    BY <2>1, IInvInit, WindowInit DEF OwnIInv
<1>2. OwnIInv /\ [Next]_vars => OwnIInv'
  BY IInvStep, WindowStep, HoldsWrittenStep, BehindStep, ReportsStep DEF OwnIInv, IInv
<1> QED
  BY <1>1, <1>2, PTL DEF Spec

\* A success is what it says: the row counts that a run reports are what the
\* archive holds from then on until the job starts over, in spite of sweeps,
\* crashes, attempts that are made again and the jobs for other tables
\* (run_offload's results, max_active_tis_per_dag).  It needs that no table has
\* two writers.
THEOREM SuccessIsArchived == OwnTables => (Spec => []DoneMeansArchived)
<1> SUFFICES ASSUME OwnTables PROVE Spec => []DoneMeansArchived
  OBVIOUS
<1>1. OwnIInv => DoneMeansArchived
  BY DEF OwnIInv, ReportsHold, DoneMeansArchived
<1> QED
  BY <1>1, OwnInvariance, PTL

\* Running a day again while the source still keeps it never loses a row, be it
\* a Clear, a backfill or the retry of an attempt that died between the deletion
\* and the put.  It needs that no table has two writers.
THEOREM RerunsKeepRows == OwnTables => (Spec => WindowedRerunKeepsRows)
<1> SUFFICES ASSUME OwnTables PROVE Spec => WindowedRerunKeepsRows
  OBVIOUS
<1>1. OwnIInv /\ [Next]_vars =>
        [\A p \in Part :
           Retention[p[1]] # 0 /\ today - p[3] < Retention[p[1]] =>
             written[p] \subseteq written'[p]]_vars
  <2> SUFFICES ASSUME OwnIInv, [Next]_vars, NEW p \in Part, InWindow(p)
               PROVE  written[p] \subseteq written'[p]
    BY DEF InWindow
  <2>1. CASE \E j \in Jobs : Put(j)
    <3> PICK j \in Jobs : Put(j)
      BY <2>1
    <3>1. pc[j] \in Copying /\ written' = [written EXCEPT ![Cur(j)] = buf[j]]
      BY DEF Put, Copying
    <3>2. InWindow(Cur(j)) => written[Cur(j)] \subseteq buf[j]
      BY <3>1 DEF OwnIInv, HoldsWritten
    <3> QED
      BY <3>1, <3>2 DEF OwnIInv, IInv, TypeOK
  <2>2. CASE ~\E j \in Jobs : Put(j)
    <3>1. written' = written
      BY <2>2, EnvironmentType, CopySteps
         DEF Next, vars, storeVars, OwnIInv, IInv, Delete
    <3> QED
      BY <3>1
  <2> QED
    BY <2>1, <2>2
<1> QED
  BY <1>1, OwnInvariance, PTL DEF Spec, WindowedRerunKeepsRows

-----------------------------------------------------------------------------
(* The quality gate behind the extraction loop.                              *)

Gating == {"registry", "schema", "parquet", "source"}

\* The partition of instance i that the gate judges.
Judged(i) == <<GateTable, i, gday>>

\* Source rows are counted for registered instances only.
CountsAreRegistered ==
  gpc = "source" => /\ gtodo \subseteq greg
                    /\ \A i \in Instances : gpg[i] # {} => i \in greg

\* Inside the window the source still has what was found in the archive, so that
\* what is counted there later is at least as much.
CountsAreBounded ==
  gpc = "source" => \A i \in Instances : InWindow(Judged(i)) =>
    /\ gpq[i] \subseteq source[Judged(i)]
    /\ Profile[GateTable].reconciliation /\ i \in greg \ gtodo => gpq[i] \subseteq gpg[i]

VerdictTables == \A v \in verdicts : v.table \in Tables

\* Who has been registered since the gate began is in the registry it read.
SteadyKnown ==
  /\ gsteady \subseteq registry
  /\ gpc \in {"schema", "parquet", "source"} => gsteady \subseteq greg

\* Inside the window the source still has what it had when the gate began.
SourceSince == \A p \in Part : InWindow(p) => gsource[p] \subseteq source[p]

\* So that is part of what was counted there.
CountedSince ==
  gpc = "source" /\ Profile[GateTable].reconciliation =>
    \A i \in greg \ gtodo : InWindow(Judged(i)) => gsource[Judged(i)] \subseteq gpg[i]

GateIInv ==
  /\ GateTypeOK /\ IInv /\ WindowKept
  /\ CountsAreRegistered /\ CountsAreBounded
  /\ VerdictTables /\ EqualCountsMeanSameRows
  /\ SteadyKnown /\ SourceSince /\ CountedSince

\* What the gate has read, and where it is: no step of the loop changes it.
readVars == <<gpc, gday, gtab, greg, gdrift, gpq, gpg, gtodo, verdicts>>

-----------------------------------------------------------------------------
(* The gate and the loop. *)

\* The gate only reads: to the extraction it is as if it were not there.
LEMMA GateStepReads == ASSUME [GateNext]_allVars PROVE [Next]_vars
BY DEF GateNext, allVars, Upstream, GateStart, ReadRegistry, ReadSchema, CountParquet,
       CountSource, Judge, GateError, Return

\* The table at hand is a table.
LEMMA GateTableType ==
  ASSUME gtab \in 1..Len(JobTables[GateJob]) PROVE GateTable \in Tables
<1>1. JobTables[GateJob] \in Seq(Tables)
  BY ConstantsOK, GateConstantsOK
<1> QED
  BY <1>1, ElementOfSeq DEF GateTable

\* What is judged is a partition.
LEMMA JudgedType ==
  ASSUME GateTypeOK, NEW i \in Instances PROVE Judged(i) \in Part
BY GateTableType DEF GateTypeOK, Judged, Part

\* The steps that are the gate's own.
GateStep ==
  GateStart \/ ReadRegistry \/ ReadSchema \/ CountParquet \/ CountSource \/ Judge \/ GateError

\* No query of the gate changes a store or a job.
LEMMA GateStepKeepsVars == GateStep => UNCHANGED vars
BY DEF GateStep, GateStart, ReadRegistry, ReadSchema, CountParquet, CountSource, Judge, GateError,
       Return

\* A step is the gate's own or leaves alone what the gate has read; the history
\* then loses instances at most, or is given up.
LEMMA GateOrLoop ==
  ASSUME [GateNext]_allVars
  PROVE  \/ GateStep
         \/ /\ UNCHANGED readVars
            /\ \/ /\ gsteady' = gsteady \cap registry' \/ UNCHANGED <<gsteady, registry>>
                  /\ gsource' = gsource
                  /\ pc'[GateJob] = pc[GateJob]
               \/ /\ gsteady' = {} /\ gsource' = NoSource
                  /\ gpc \in {"idle", "passed", "blocked"}
<1>1. CASE UNCHANGED allVars
  BY <1>1 DEF allVars, vars, sourceVars, jobVars, gateVars, readVars
<1>2. CASE Upstream
  BY <1>2 DEF Upstream, readVars
<1> QED
  BY <1>1, <1>2 DEF GateNext, GateStep

\* The types hold at first.
LEMMA GateTypeInit == GateInit => GateTypeOK
<1>1. 1 \in 1..Len(JobTables[GateJob])
  BY SomeTable, GateConstantsOK
<1>2. 0 \in Days
  BY ConstantsOK DEF Days
<1> QED
  BY <1>1, <1>2, TypeInit DEF GateInit, GateTypeOK, Nothing, NoSource, Statuses

\* Every step keeps the types.
LEMMA GateTypeStep == ASSUME GateTypeOK, [GateNext]_allVars PROVE GateTypeOK'
<1>0. TypeOK'
  BY GateStepReads, TypeStep DEF GateTypeOK
<1>0a. NoSource \in [Part -> SUBSET Rows] /\ Nothing \in [Instances -> SUBSET Rows]
  BY DEF NoSource, Nothing
<1>1. CASE UNCHANGED readVars
  <2>1. gsteady' \subseteq Instances /\ gsource' \in [Part -> SUBSET Rows]
    <3>1. CASE GateStep
      BY <1>0a, <1>1, <3>1 DEF GateStep, GateStart, ReadRegistry, ReadSchema, CountParquet,
         CountSource, Judge, GateError, Stop, pastVars, readVars, GateTypeOK, TypeOK
    <3>2. CASE ~GateStep
      BY <1>0a, <3>2, GateOrLoop DEF GateTypeOK
    <3> QED
      BY <3>1, <3>2
  <2> QED
    BY <1>0, <1>1, <2>1 DEF readVars, GateTypeOK
<1>2. CASE GateStart
  <2>1. 1 \in 1..Len(JobTables[GateJob]) /\ day[GateJob] \in Days
    BY SomeTable, GateConstantsOK DEF GateTypeOK, TypeOK
  <2>2. registry \subseteq Instances /\ source \in [Part -> SUBSET Rows]
    BY DEF GateTypeOK, TypeOK
  <2> QED
    BY <1>0, <1>2, <2>1, <2>2 DEF GateStart, GateTypeOK
<1>3. CASE ReadRegistry
  BY <1>0, <1>3 DEF ReadRegistry, pastVars, GateTypeOK, TypeOK
<1>4. CASE ReadSchema
  BY <1>0, <1>4 DEF ReadSchema, pastVars, GateTypeOK, SchemaDrift, Statuses
<1>5. CASE CountParquet
  <2>1. \A i \in Instances : archive[Judged(i)] \in SUBSET Rows
    BY JudgedType DEF GateTypeOK, TypeOK
  <2>2. gpq' \in [Instances -> SUBSET Rows] /\ gpg' \in [Instances -> SUBSET Rows]
    BY <1>5, <2>1 DEF CountParquet, Judged, Nothing
  <2> QED
    BY <1>0, <1>5, <2>2 DEF CountParquet, pastVars, GateTypeOK
<1>6. CASE CountSource
  <2>1. PICK i \in gtodo : /\ gpg' = [gpg EXCEPT ![i] = source[Judged(i)]]
                           /\ gtodo' = gtodo \ {i}
    BY <1>6 DEF CountSource, Judged
  <2>2. source[Judged(i)] \in SUBSET Rows
    BY JudgedType DEF GateTypeOK, TypeOK
  <2> QED
    BY <1>0, <1>6, <2>1, <2>2 DEF CountSource, pastVars, GateTypeOK
<1>7. CASE Judge
  <2>1. gtab' \in 1..Len(JobTables[GateJob])
    <3>1. gtab' = gtab \/ (gtab < Len(JobTables[GateJob]) /\ gtab' = gtab + 1)
      BY <1>7 DEF Judge, Stop
    <3>2. Len(JobTables[GateJob]) \in Nat
      BY SomeTable, GateConstantsOK
    <3> QED
      BY <3>1, <3>2 DEF GateTypeOK
  <2>2. gpc' \in {"blocked", "registry", "passed"}
    BY <1>7 DEF Judge, Stop
  <2>3. UNCHANGED <<gsteady, gsource>> \/ (gsteady' = {} /\ gsource' = NoSource)
    BY <1>7 DEF Judge, Stop, pastVars
  <2>4. /\ greg' = {} /\ gdrift' = SKIP /\ gpq' = Nothing /\ gpg' = Nothing /\ gtodo' = {}
        /\ gday' = gday
    BY <1>7 DEF Judge, Return
  <2> QED
    BY <1>0, <1>0a, <2>1, <2>2, <2>3, <2>4 DEF GateTypeOK, Statuses
<1>8. CASE GateError
  <2>1. /\ greg' = {} /\ gdrift' = SKIP /\ gpq' = Nothing /\ gpg' = Nothing /\ gtodo' = {}
        /\ gday' = gday /\ gtab' = gtab
        /\ gpc' = "blocked" /\ gsteady' = {} /\ gsource' = NoSource
    BY <1>8 DEF GateError, Stop, Return
  <2> QED
    BY <1>0, <1>0a, <2>1 DEF GateTypeOK, Statuses
<1> QED
  BY <1>1, <1>2, <1>3, <1>4, <1>5, <1>6, <1>7, <1>8, GateOrLoop DEF GateStep

-----------------------------------------------------------------------------
(* The verdict. *)

\* What a report that is not FAIL says about each axis that is measured.
LEMMA PassMeans ==
  ASSUME NEW profile \in Profiles, NEW reg \in SUBSET Instances,
         NEW pg \in [Instances -> Nat], NEW pq \in [Instances -> Nat], NEW gap, NEW drift,
         Status(Report(profile, reg, pg, pq, gap, drift)) # FAIL
  PROVE  /\ profile.reconciliation => \A i \in Instances : pg[i] = pq[i]
         /\ profile.completeness => \A i \in reg : pq[i] > 0
         /\ profile.freshness => gap # NoCapture
<1> DEFINE report == Report(profile, reg, pg, pq, gap, drift)
<1>1. DOMAIN report = {"reconciliation", "completeness", "freshness", "schema_drift"}
  BY DEF Report
<1>2. report.reconciliation # FAIL /\ report.completeness # FAIL /\ report.freshness # FAIL
  BY <1>1 DEF Status
<1>3. /\ report.reconciliation = Axis(profile.reconciliation, Reconciliation(pg, pq))
      /\ report.completeness = Axis(profile.completeness, Completeness(reg, pq))
      /\ report.freshness = Axis(profile.freshness, Freshness(gap))
  BY DEF Report
<1> HIDE DEF report
<1>4. profile.reconciliation => Reconciliation(pg, pq) # FAIL
  BY <1>2, <1>3 DEF Axis
<1>5. profile.completeness => Completeness(reg, pq) # FAIL
  BY <1>2, <1>3 DEF Axis
<1>6. profile.freshness => Freshness(gap) # FAIL
  BY <1>2, <1>3 DEF Axis
<1>7. DOMAIN pg = Instances
  OBVIOUS
<1> QED
  BY <1>4, <1>5, <1>6, <1>7 DEF Reconciliation, Completeness, Freshness

\* A count is that of a finite set, and zero for nothing.
LEMMA CountedFacts ==
  ASSUME NEW seen \in [Instances -> SUBSET Rows]
  PROVE  /\ Counted(seen) \in [Instances -> Nat]
         /\ \A i \in Instances : IsFiniteSet(seen[i])
         /\ \A i \in Instances : Counted(seen)[i] = Cardinality(seen[i])
         /\ \A i \in Instances : Counted(seen)[i] = 0 <=> seen[i] = {}
<1>1. \A i \in Instances : IsFiniteSet(seen[i])
  BY FS_Subset, GateConstantsOK
<1>2. \A i \in Instances : Cardinality(seen[i]) \in Nat
  BY <1>1, FS_CardinalityType
<1>3. \A i \in Instances : Cardinality(seen[i]) = 0 <=> seen[i] = {}
  BY <1>1, FS_EmptySet
<1> QED
  BY <1>1, <1>2, <1>3 DEF Counted

\* What Judge says of the table at hand.
ThisStatus ==
  Status(Report(Profile[GateTable], greg, Counted(gpg), Counted(gpq), GapOf(gday), gdrift))

ThisVerdict == [table |-> GateTable, pq |-> gpq, pg |-> gpg]

\* The table is done: it has passed, or the task is over.
LEMMA JudgeAdds ==
  ASSUME Judge
  PROVE  /\ gpc = "source" /\ gtodo = {} /\ gpc' # "source"
         /\ UNCHANGED <<vars, gday>>
         /\ \/ /\ gpc' = "blocked" /\ gsteady' = {} /\ gsource' = NoSource
               /\ verdicts' = verdicts
            \/ /\ ThisStatus # FAIL
               /\ verdicts' = verdicts \cup {ThisVerdict}
               /\ UNCHANGED <<gsteady, gsource>>
               /\ \/ gtab < Len(JobTables[GateJob]) /\ gpc' = "registry" /\ gtab' = gtab + 1
                  \/ ~(gtab < Len(JobTables[GateJob])) /\ gpc' = "passed" /\ gtab' = gtab
BY DEF Judge, Stop, Return, Blocked, ThisVerdict, ThisStatus, pastVars

\* What a verdict that is no failure says of the counts.
LEMMA ThisVerdictMeans ==
  ASSUME GateTypeOK, ThisStatus # FAIL
  PROVE  /\ Profile[GateTable].reconciliation =>
              \A i \in Instances : Counted(gpg)[i] = Counted(gpq)[i]
         /\ Profile[GateTable].completeness => \A i \in greg : Counted(gpq)[i] > 0
         /\ Profile[GateTable].freshness => GapOf(gday) # NoCapture
<1>1. Profile[GateTable] \in Profiles
  BY GateTableType, GateConstantsOK DEF GateTypeOK
<1>2. Counted(gpg) \in [Instances -> Nat] /\ Counted(gpq) \in [Instances -> Nat]
  BY CountedFacts DEF GateTypeOK
<1>3. Status(Report(Profile[GateTable], greg, Counted(gpg), Counted(gpq), GapOf(gday), gdrift))
        # FAIL
  BY DEF ThisStatus
<1> DEFINE profile == Profile[GateTable]
           pg      == Counted(gpg)
           pq      == Counted(gpq)
           gap     == GapOf(gday)
<1>4. profile \in Profiles /\ pg \in [Instances -> Nat] /\ pq \in [Instances -> Nat]
      /\ greg \in SUBSET Instances
      /\ Status(Report(profile, greg, pg, pq, gap, gdrift)) # FAIL
  BY <1>1, <1>2, <1>3 DEF GateTypeOK
<1> HIDE DEF profile, pg, pq, gap
<1>5. /\ profile.reconciliation => \A i \in Instances : pg[i] = pq[i]
      /\ profile.completeness => \A i \in greg : pq[i] > 0
      /\ profile.freshness => gap # NoCapture
  BY <1>4, PassMeans
<1> QED
  BY <1>5 DEF profile, pg, pq, gap

\* Inside the window, what was found and what was counted are then the same rows.
LEMMA ThisHasEqualRows ==
  ASSUME GateTypeOK, CountsAreRegistered, CountsAreBounded, gpc = "source", gtodo = {},
         ThisStatus # FAIL, Profile[GateTable].reconciliation,
         \A i \in Instances : InWindow(Judged(i))
  PROVE  gpq = gpg
<1> SUFFICES ASSUME NEW i \in Instances PROVE gpq[i] = gpg[i]
  BY DEF GateTypeOK
<1>1. Counted(gpg)[i] = Counted(gpq)[i]
  BY ThisVerdictMeans
<1>2. /\ Counted(gpg)[i] = Cardinality(gpg[i]) /\ Counted(gpq)[i] = Cardinality(gpq[i])
      /\ IsFiniteSet(gpg[i]) /\ IsFiniteSet(gpq[i])
      /\ Counted(gpq)[i] = 0 <=> gpq[i] = {}
      /\ Counted(gpg)[i] = 0 <=> gpg[i] = {}
  BY CountedFacts DEF GateTypeOK
<1>3. CASE i \in greg
  <2>1. gpq[i] \subseteq gpg[i]
    BY <1>3 DEF CountsAreBounded
  <2> QED
    BY <1>1, <1>2, <2>1, FS_Subset
<1>4. CASE i \notin greg
  <2>1. gpg[i] = {}
    BY <1>4 DEF CountsAreRegistered
  <2> QED
    BY <1>1, <1>2, <2>1
<1> QED
  BY <1>3, <1>4
-----------------------------------------------------------------------------
(* The steps. *)

\* Every step keeps the counts to registered instances.
LEMMA RegisteredStep ==
  ASSUME GateTypeOK, CountsAreRegistered, [GateNext]_allVars
  PROVE  CountsAreRegistered'
<1>1. CASE UNCHANGED readVars
  BY <1>1 DEF readVars, CountsAreRegistered
<1>2. CASE CountParquet
  BY <1>2 DEF CountParquet, CountsAreRegistered, Nothing
<1>3. CASE CountSource
  <2>1. PICK i \in gtodo : gpg' = [gpg EXCEPT ![i] = source[Judged(i)]] /\ gtodo' = gtodo \ {i}
    BY <1>3 DEF CountSource, Judged
  <2>2. UNCHANGED <<gpc, greg>> /\ gpc = "source"
    BY <1>3 DEF CountSource
  <2> QED
    BY <2>1, <2>2 DEF CountsAreRegistered, GateTypeOK
<1>4. CASE GateStart \/ ReadRegistry \/ ReadSchema \/ Judge \/ GateError
  <2>1. gpc' # "source"
    BY <1>4, JudgeAdds DEF GateStart, ReadRegistry, ReadSchema, GateError, Stop
  <2> QED
    BY <2>1 DEF CountsAreRegistered
<1> QED
  BY <1>1, <1>2, <1>3, <1>4, GateOrLoop DEF GateStep

\* Every step keeps the archive's count below the source's, inside the window.
LEMMA BoundedStep ==
  ASSUME GateTypeOK, WindowKept, CountsAreBounded, [GateNext]_allVars
  PROVE  CountsAreBounded'
<1>0. \A p \in Part : InWindow(p)' => InWindow(p) /\ source[p] \subseteq source'[p]
  BY GateStepReads, SourceGrows DEF GateTypeOK
<1>1. \A i \in Instances : Judged(i) \in Part
  BY JudgedType
<1>2. CASE UNCHANGED readVars
  <2>1. \A i \in Instances : Judged(i)' = Judged(i) /\ GateTable' = GateTable
    BY <1>2 DEF readVars, Judged, GateTable
  <2> QED
    BY <1>0, <1>1, <1>2, <2>1 DEF readVars, CountsAreBounded
<1>3. CASE CountParquet
  <2>1. \A i \in Instances : Judged(i)' = Judged(i) /\ gpq'[i] = archive[Judged(i)]
    BY <1>3 DEF CountParquet, Judged, GateTable
  <2>2. source' = source
    BY <1>3 DEF CountParquet, vars, sourceVars
  <2>3. Profile[GateTable'].reconciliation => gtodo' = greg'
    BY <1>3 DEF CountParquet, GateTable
  <2> QED
    BY <1>0, <1>1, <2>1, <2>2, <2>3 DEF CountsAreBounded, WindowKept
<1>4. CASE CountSource
  <2>1. PICK k \in gtodo : gpg' = [gpg EXCEPT ![k] = source[Judged(k)]] /\ gtodo' = gtodo \ {k}
    BY <1>4 DEF CountSource, Judged
  <2>2. /\ gpc = "source" /\ UNCHANGED <<greg, gpq, source>>
        /\ GateTable' = GateTable /\ \A i \in Instances : Judged(i)' = Judged(i)
    BY <1>4 DEF CountSource, vars, sourceVars, Judged, GateTable
  <2> SUFFICES ASSUME NEW i \in Instances, InWindow(Judged(i))'
               PROVE  /\ gpq[i] \subseteq source[Judged(i)]
                      /\ Profile[GateTable].reconciliation /\ i \in greg \ gtodo' =>
                           gpq[i] \subseteq gpg'[i]
    BY <2>2 DEF CountsAreBounded
  <2>3. InWindow(Judged(i))
    BY <1>0, <1>1, <2>2
  <2>4. gpq[i] \subseteq source[Judged(i)]
        /\ (Profile[GateTable].reconciliation /\ i \in greg \ gtodo => gpq[i] \subseteq gpg[i])
    BY <2>2, <2>3 DEF CountsAreBounded
  <2>5. gpg'[i] = IF i = k THEN source[Judged(k)] ELSE gpg[i]
    BY <2>1 DEF GateTypeOK
  <2> QED
    BY <2>1, <2>4, <2>5
<1>5. CASE GateStart \/ ReadRegistry \/ ReadSchema \/ Judge \/ GateError
  <2>1. gpc' # "source"
    BY <1>5, JudgeAdds DEF GateStart, ReadRegistry, ReadSchema, GateError, Stop
  <2> QED
    BY <2>1 DEF CountsAreBounded
<1> QED
  BY <1>2, <1>3, <1>4, <1>5, GateOrLoop DEF GateStep

\* Every step keeps the history inside the registry that was read.
LEMMA SteadyStep ==
  ASSUME GateTypeOK, SteadyKnown, [GateNext]_allVars PROVE SteadyKnown'
<1>1. CASE GateStart \/ ReadRegistry \/ ReadSchema \/ CountParquet \/ CountSource
  BY <1>1 DEF GateStart, ReadRegistry, ReadSchema, CountParquet, CountSource, pastVars, vars,
              sourceVars, SteadyKnown
<1>2. CASE Judge
  <2>1. gpc' \in {"blocked", "registry", "passed"} /\ registry' = registry
        /\ (gsteady' = gsteady \/ gsteady' = {})
    BY <1>2, JudgeAdds DEF vars, sourceVars
  <2> QED
    BY <2>1 DEF SteadyKnown
<1>3. CASE GateError
  BY <1>3 DEF GateError, Stop, SteadyKnown
<1>4. CASE ~GateStep
  BY <1>4, GateOrLoop DEF readVars, SteadyKnown
<1> QED
  BY <1>1, <1>2, <1>3, <1>4 DEF GateStep

\* Inside the window rows only come.
LEMMA SinceStep ==
  ASSUME GateTypeOK, SourceSince, [GateNext]_allVars PROVE SourceSince'
<1> SUFFICES ASSUME NEW p \in Part, InWindow(p)' PROVE gsource'[p] \subseteq source'[p]
  BY DEF SourceSince, InWindow
<1>1. InWindow(p) /\ source[p] \subseteq source'[p]
  BY GateStepReads, SourceGrows DEF GateTypeOK
<1>2. NoSource[p] = {}
  BY DEF NoSource
<1>3. gsource' = gsource \/ gsource' = NoSource \/ (gsource' = source /\ source' = source)
  <2>1. CASE ~GateStep
    BY <2>1, GateOrLoop
  <2>2. CASE Judge
    BY <2>2, JudgeAdds
  <2> QED
    BY <2>1, <2>2 DEF GateStep, GateStart, ReadRegistry, ReadSchema, CountParquet,
       CountSource, GateError, Stop, pastVars, vars, sourceVars
<1> QED
  BY <1>1, <1>2, <1>3 DEF SourceSince

\* What the source had at the beginning is counted when its turn comes.
LEMMA CountedStep ==
  ASSUME GateTypeOK, SourceSince, CountedSince, [GateNext]_allVars PROVE CountedSince'
<1>0. \A p \in Part : InWindow(p)' => InWindow(p)
  BY GateStepReads, SourceGrows DEF GateTypeOK
<1>1. \A i \in Instances : Judged(i) \in Part
  BY JudgedType
<1>2. CASE ~GateStep
  <2>1. UNCHANGED readVars /\ (gsource' = gsource \/ gpc # "source")
    BY <1>2, GateOrLoop
  <2>2. \A i \in Instances : Judged(i)' = Judged(i) /\ GateTable' = GateTable
    BY <2>1 DEF readVars, Judged, GateTable
  <2> QED
    BY <1>0, <1>1, <2>1, <2>2 DEF readVars, GateTypeOK, CountedSince
<1>3. CASE CountParquet
  <2>1. Profile[GateTable'].reconciliation => gtodo' = greg'
    BY <1>3 DEF CountParquet, GateTable
  <2> QED
    BY <2>1 DEF CountedSince
<1>4. CASE CountSource
  <2>1. PICK k \in gtodo : gpg' = [gpg EXCEPT ![k] = source[Judged(k)]] /\ gtodo' = gtodo \ {k}
    BY <1>4 DEF CountSource, Judged
  <2>2. /\ gpc = "source" /\ UNCHANGED <<greg, gsource>>
        /\ GateTable' = GateTable /\ \A i \in Instances : Judged(i)' = Judged(i)
    BY <1>4 DEF CountSource, pastVars, Judged, GateTable
  <2>3. ASSUME Profile[GateTable].reconciliation, NEW i \in greg \ gtodo',
               InWindow(Judged(i))
        PROVE  gsource[Judged(i)] \subseteq gpg'[i]
    <3>1. i \in Instances
      BY DEF GateTypeOK
    <3>2. gsource[Judged(i)] \subseteq source[Judged(i)]
      BY <1>1, <2>3, <3>1 DEF SourceSince
    <3>3. i # k => gsource[Judged(i)] \subseteq gpg[i]
      BY <2>1, <2>2, <2>3 DEF CountedSince
    <3>4. gpg'[i] = IF i = k THEN source[Judged(k)] ELSE gpg[i]
      BY <2>1, <3>1 DEF GateTypeOK
    <3> QED
      BY <3>2, <3>3, <3>4
  <2>4. \A i \in Instances : InWindow(Judged(i))' => InWindow(Judged(i))
    BY <1>0, <1>1, <2>2 DEF InWindow
  <2>5. greg \subseteq Instances
    BY DEF GateTypeOK
  <2> QED
    BY <2>2, <2>3, <2>4, <2>5 DEF CountedSince
<1>5. CASE GateStart \/ ReadRegistry \/ ReadSchema \/ Judge \/ GateError
  <2>1. gpc' # "source"
    BY <1>5, JudgeAdds DEF GateStart, ReadRegistry, ReadSchema, GateError, Stop
  <2> QED
    BY <2>1 DEF CountedSince
<1> QED
  BY <1>2, <1>3, <1>4, <1>5 DEF GateStep

\* The calendar does not go back.
LEMMA TodayGrows ==
  ASSUME TypeOK, [Next]_vars PROVE today \in Int /\ today' \in Int /\ today <= today'
<1>1. today \in Int
  BY ConstantsOK DEF TypeOK, Days
<1>2. today' = today \/ today' = today + 1
  BY DEF Next, vars, sourceVars, Environment, Tick, Capture, SweepByAge, SweepByCount, Register,
         Start, JobStep, Crash, List, Fetch, Overwrite, Skip, Refuse, Delete, Put,
         DimFetch, DimDecide, DimDelete, DimPut, AttemptFails
<1> QED
  BY <1>1, <1>2

\* A verdict that has been given stays true: windows only close.
LEMMA VerdictsStep == ASSUME GateIInv, [GateNext]_allVars
  PROVE VerdictTables' /\ EqualCountsMeanSameRows'
<1>0. GateTypeOK /\ TypeOK /\ today \in Int /\ today' \in Int /\ today <= today'
  BY GateStepReads, TodayGrows DEF GateIInv, GateTypeOK
<1>1. CASE verdicts' = verdicts /\ gday' = gday
  <2>1. VerdictTables'
    BY <1>1 DEF GateIInv, VerdictTables
  <2>2. \A v \in verdicts : Retention[v.table] \in Int
    BY ConstantsOK DEF GateIInv, VerdictTables
  <2>3. gday \in Int
    BY <1>0, ConstantsOK DEF GateTypeOK, Days
  <2>4. \A v \in verdicts : today' - gday < Retention[v.table] =>
                              today - gday < Retention[v.table]
    BY <1>0, <2>2, <2>3
  <2> QED
    BY <1>1, <2>1, <2>4 DEF GateIInv, EqualCountsMeanSameRows
<1>2. CASE GateStart
  BY <1>2 DEF GateStart, VerdictTables, EqualCountsMeanSameRows
<1>3. CASE Judge /\ verdicts' # verdicts
  <2>1. /\ verdicts' = verdicts \cup {ThisVerdict} /\ gday' = gday /\ today' = today
        /\ gpc = "source" /\ gtodo = {} /\ ThisStatus # FAIL
    BY <1>3, JudgeAdds DEF vars, sourceVars
  <2>2. /\ ThisVerdict.table = GateTable
        /\ ThisVerdict.pq = gpq /\ ThisVerdict.pg = gpg
    BY DEF ThisVerdict
  <2>3. VerdictTables'
    BY <1>0, <2>1, <2>2, GateTableType DEF GateTypeOK, GateIInv, VerdictTables
  <2>4. EqualCountsMeanSameRows'
    <3> SUFFICES ASSUME NEW v \in verdicts',
                        Profile[v.table].reconciliation, Retention[v.table] # 0,
                        today - gday < Retention[v.table]
                 PROVE  v.pq = v.pg
      BY <2>1 DEF EqualCountsMeanSameRows
    <3>1. CASE v \in verdicts
      BY <3>1 DEF GateIInv, EqualCountsMeanSameRows
    <3>2. CASE v = ThisVerdict
      <4>1. \A i \in Instances : InWindow(Judged(i))
        BY <2>2, <3>2 DEF InWindow, Judged
      <4> QED
        BY <1>0, <2>1, <2>2, <3>2, <4>1, ThisHasEqualRows DEF GateIInv
    <3> QED
      BY <2>1, <3>1, <3>2
  <2> QED
    BY <2>3, <2>4
<1>4. (verdicts' = verdicts /\ gday' = gday) \/ GateStart \/ (Judge /\ verdicts' # verdicts)
  <2>1. CASE Judge
    BY <2>1, JudgeAdds
  <2>2. CASE ~Judge
    BY <2>2, GateOrLoop DEF GateStep, readVars, ReadRegistry, ReadSchema, CountParquet,
       CountSource, GateError, Stop, Return
  <2> QED
    BY <2>1, <2>2
<1> QED
  BY <1>1, <1>2, <1>3, <1>4

\* At first nothing has been read.
LEMMA GateIInvInit == GateInit => GateIInv
<1>1. GateInit => /\ CountsAreRegistered /\ CountsAreBounded /\ VerdictTables
                  /\ EqualCountsMeanSameRows /\ CountedSince
  BY DEF GateInit, CountsAreRegistered, CountsAreBounded, VerdictTables,
         EqualCountsMeanSameRows, CountedSince
<1>2. GateInit => SteadyKnown /\ SourceSince
  BY DEF GateInit, SteadyKnown, SourceSince, NoSource
<1> QED
  BY <1>1, <1>2, GateTypeInit, IInvInit, WindowInit DEF GateInit, GateIInv

\* Every step keeps the gate's invariant.
LEMMA GateIInvStep == GateIInv /\ [GateNext]_allVars => GateIInv'
BY GateStepReads, GateTypeStep, IInvStep, WindowStep, RegisteredStep, BoundedStep,
   VerdictsStep, SteadyStep, SinceStep, CountedStep DEF GateIInv, GateTypeOK

\* The gate's invariant holds at all times.
LEMMA GateInvariance == GateSpec => []GateIInv
BY GateIInvInit, GateIInvStep, PTL DEF GateSpec

\* Every variable of the gate and of the loop before it keeps its type.
THEOREM GateTypeCorrect == GateSpec => []GateTypeOK
<1>1. GateIInv => GateTypeOK
  BY DEF GateIInv
<1> QED
  BY <1>1, GateInvariance, PTL

\* Comparing counts is comparing rows by their ids, for a table kept by age and a
\* day inside its window, although the archive is counted first and the source
\* after it, one query per instance, while any number of rivals rewrite the
\* partitions (_parquet_counts, _pg_counts).
THEOREM CountsStandForRows == GateSpec => []EqualCountsMeanSameRows
<1>1. GateIInv => EqualCountsMeanSameRows
  BY DEF GateIInv
<1> QED
  BY <1>1, GateInvariance, PTL

\* What holds of the loop holds of it with the gate behind it.
THEOREM GatedHolesAreTorn == GateSpec => []VanishedOnlyMidRewrite
<1>1. GateIInv => VanishedOnlyMidRewrite
  BY DEF GateIInv, IInv
<1> QED
  BY <1>1, GateInvariance, PTL

-----------------------------------------------------------------------------
(* A day nobody rewrites under the gate. *)

\* While the gate works its own task rests, and as long as its history is kept.
GateFollows ==
  /\ gpc \in Gating => pc[GateJob] = "done"
  /\ gsteady # {} => pc[GateJob] = "done" /\ gpc \in Gating \cup {"passed"}

\* What was counted in the archive is what is there.
CountsAreCurrent ==
  gpc = "source" => \A i \in Instances : gpq[i] = archive[Judged(i)]

\* The partition of instance i of the k-th table.
PartOf(k, i) == <<JobTables[GateJob][k], i, gday>>

\* What a verdict lets through is in the archive.
HasDay(k, i) ==
  /\ Profile[JobTables[GateJob][k]].completeness => archive[PartOf(k, i)] # {}
  /\ Profile[JobTables[GateJob][k]].reconciliation /\ InWindow(PartOf(k, i)) =>
       gsource[PartOf(k, i)] \subseteq archive[PartOf(k, i)]

\* The tables that have been judged so far.
JudgedBefore(k) == gpc = "passed" \/ (gpc \in Gating /\ k < gtab)

\* They have passed.
ArchivedSoFar ==
  \A k \in 1..Len(JobTables[GateJob]), i \in gsteady : JudgedBefore(k) => HasDay(k, i)

QuietIInv ==
  GateIInv /\ GateFollows /\ CountsAreCurrent /\ NoEmptyDayPasses /\ ArchivedSoFar

\* The partitions of the gate's tables.
LEMMA PartOfType ==
  ASSUME GateTypeOK, NEW k \in 1..Len(JobTables[GateJob]), NEW i \in Instances
  PROVE  PartOf(k, i) \in Part
<1>1. JobTables[GateJob] \in Seq(Tables)
  BY ConstantsOK, GateConstantsOK
<1>2. JobTables[GateJob][k] \in Tables
  BY <1>1, ElementOfSeq
<1> QED
  BY <1>2 DEF GateTypeOK, PartOf, Part

\* Only the gate's own task writes the tables it judges.
LEMMA JudgedStays ==
  ASSUME OwnTables, GateTypeOK, pc[GateJob] = "done", [Next]_vars,
         NEW k \in 1..Len(JobTables[GateJob]), NEW i \in Instances
  PROVE  archive'[PartOf(k, i)] = archive[PartOf(k, i)]
<1>1. CASE UNCHANGED archive
  BY <1>1
<1>2. ASSUME NEW j \in Jobs, Delete(j) \/ Put(j)
      PROVE  archive'[PartOf(k, i)] = archive[PartOf(k, i)]
  <2>1. GateJob \in Jobs /\ TypeOK
    BY GateConstantsOK DEF GateTypeOK
  <2>2. j # GateJob /\ tab[j] \in 1..Len(JobTables[j])
    BY <1>2, <2>1, SomeTable DEF Delete, Put, TypeOK
  <2>3. Table(j) # JobTables[GateJob][k]
    BY <2>1, <2>2 DEF OwnTables, Table
  <2>4. Cur(j) # PartOf(k, i)
    BY <2>3 DEF Cur, PartOf
  <2> QED
    BY <1>2, <2>1, <2>4, PartOfType DEF Delete, Put, TypeOK
<1>3. UNCHANGED archive \/ \E j \in Jobs : Delete(j) \/ Put(j)
  BY EnvironmentType, CopySteps DEF Next, vars, storeVars, GateTypeOK
<1> QED
  BY <1>1, <1>2, <1>3

\* The table at hand is one of them.
LEMMA JudgedIsPart ==
  ASSUME GateTypeOK
  PROVE  gtab \in 1..Len(JobTables[GateJob]) /\ \A i \in Instances : Judged(i) = PartOf(gtab, i)
BY DEF GateTypeOK, Judged, PartOf, GateTable

\* A table that passes now is in the archive.
LEMMA PassedHasDay ==
  ASSUME GateIInv, CountsAreCurrent, gpc = "source", gtodo = {}, ThisStatus # FAIL,
         NEW i \in gsteady
  PROVE  HasDay(gtab, i)
<1>0. GateTypeOK /\ i \in Instances /\ i \in greg
  BY DEF GateIInv, SteadyKnown, GateTypeOK
<1>1. Judged(i) = PartOf(gtab, i) /\ GateTable = JobTables[GateJob][gtab]
  BY <1>0, JudgedIsPart DEF GateTable
<1>2. gpq[i] = archive[Judged(i)]
  BY <1>0 DEF CountsAreCurrent
<1>3. /\ Counted(gpg)[i] = Cardinality(gpg[i]) /\ Counted(gpq)[i] = Cardinality(gpq[i])
      /\ IsFiniteSet(gpg[i]) /\ IsFiniteSet(gpq[i])
      /\ Counted(gpq)[i] = 0 <=> gpq[i] = {}
  BY <1>0, CountedFacts DEF GateTypeOK
<1>4. Profile[GateTable].completeness => archive[Judged(i)] # {}
  <2>1. Profile[GateTable].completeness => Counted(gpq)[i] # 0
    BY <1>0, ThisVerdictMeans
  <2> QED
    BY <1>2, <1>3, <2>1
<1>5. ASSUME Profile[GateTable].reconciliation, InWindow(Judged(i))
      PROVE  gsource[Judged(i)] \subseteq archive[Judged(i)]
  <2>1. gpq[i] \subseteq gpg[i]
    BY <1>0, <1>5 DEF GateIInv, CountsAreBounded
  <2>2. Counted(gpg)[i] = Counted(gpq)[i]
    BY <1>0, <1>5, ThisVerdictMeans
  <2>3. gpq[i] = gpg[i]
    BY <1>3, <2>1, <2>2, FS_Subset
  <2>4. gsource[Judged(i)] \subseteq gpg[i]
    BY <1>0, <1>5 DEF GateIInv, CountedSince
  <2> QED
    BY <1>2, <2>3, <2>4
<1> QED
  BY <1>1, <1>4, <1>5 DEF HasDay

\* Every step keeps what has been let through in the archive.
LEMMA ArchivedStep ==
  ASSUME OwnTables, QuietIInv, [GateNext]_allVars PROVE ArchivedSoFar'
<1>0. GateTypeOK /\ \A p \in Part : InWindow(p)' => InWindow(p)
  BY GateStepReads, SourceGrows DEF QuietIInv, GateIInv, GateTypeOK
<1> SUFFICES ASSUME NEW k \in 1..Len(JobTables[GateJob]), NEW i \in gsteady', JudgedBefore(k)'
             PROVE  HasDay(k, i)'
  BY DEF ArchivedSoFar
<1>1. ASSUME gsteady' \subseteq gsteady, gsource' = gsource, gday' = gday,
             pc[GateJob] = "done" => archive'[PartOf(k, i)] = archive[PartOf(k, i)],
             HasDay(k, i)
      PROVE  HasDay(k, i)'
  <2>1. i \in Instances /\ pc[GateJob] = "done"
    BY <1>0, <1>1 DEF QuietIInv, GateFollows, GateTypeOK
  <2>2. PartOf(k, i) \in Part
    BY <1>0, <2>1, PartOfType
  <2>3. PartOf(k, i)' = PartOf(k, i)
    BY <1>1 DEF PartOf
  <2> QED
    BY <1>0, <1>1, <2>1, <2>2, <2>3 DEF HasDay
<1>2. CASE ~GateStep
  <2>1. /\ UNCHANGED readVars /\ gsource' = gsource /\ gsteady' \subseteq gsteady
    BY <1>2, GateOrLoop
  <2>2. HasDay(k, i) /\ i \in Instances
    BY <1>0, <2>1 DEF QuietIInv, ArchivedSoFar, JudgedBefore, readVars, GateTypeOK
  <2>3. pc[GateJob] = "done" => archive'[PartOf(k, i)] = archive[PartOf(k, i)]
    BY <1>0, <2>2, GateStepReads, JudgedStays
  <2> QED
    BY <1>1, <2>1, <2>2, <2>3 DEF readVars
<1>3. CASE GateStart
  BY <1>3 DEF GateStart, JudgedBefore, Gating
<1>4. CASE ReadRegistry \/ ReadSchema \/ CountParquet \/ CountSource
  <2>1. /\ UNCHANGED <<vars, gday, gtab, gsteady, gsource>>
        /\ gpc \in Gating /\ gpc' \in Gating
    BY <1>4 DEF ReadRegistry, ReadSchema, CountParquet, CountSource, pastVars, Gating
  <2>2. JudgedBefore(k)
    BY <2>1 DEF JudgedBefore, Gating
  <2> QED
    BY <1>1, <2>1, <2>2 DEF QuietIInv, ArchivedSoFar, vars, storeVars
<1>5. CASE Judge
  <2>1. /\ gpc = "source" /\ gtodo = {} /\ ThisStatus # FAIL
        /\ UNCHANGED <<vars, gday, gsteady, gsource>>
        /\ \/ gtab < Len(JobTables[GateJob]) /\ gpc' = "registry" /\ gtab' = gtab + 1
           \/ ~(gtab < Len(JobTables[GateJob])) /\ gpc' = "passed" /\ gtab' = gtab
    BY <1>5, JudgeAdds
  <2>2. Len(JobTables[GateJob]) \in Nat /\ gtab \in 1..Len(JobTables[GateJob])
    BY <1>0, SomeTable, GateConstantsOK DEF GateTypeOK
  <2>3. k < gtab \/ k = gtab
    BY <2>1, <2>2 DEF JudgedBefore, Gating
  <2>4. k = gtab => HasDay(k, i)
    BY <2>1, PassedHasDay DEF QuietIInv
  <2>5. k < gtab => HasDay(k, i)
    BY <2>1 DEF QuietIInv, ArchivedSoFar, JudgedBefore, Gating
  <2> QED
    BY <1>1, <2>1, <2>3, <2>4, <2>5 DEF vars, storeVars
<1>6. CASE GateError
  BY <1>6 DEF GateError, Stop
<1> QED
  BY <1>2, <1>3, <1>4, <1>5, <1>6 DEF GateStep

\* The gate's task stays at rest while the gate works or its history is kept.
LEMMA FollowsStep ==
  ASSUME GateFollows, [GateNext]_allVars PROVE GateFollows'
<1>1. CASE ~GateStep
  <2>1. UNCHANGED readVars
    BY <1>1, GateOrLoop
  <2>2. CASE gsteady' \subseteq gsteady /\ pc'[GateJob] = pc[GateJob]
    BY <2>1, <2>2 DEF readVars, GateFollows
  <2>3. CASE gsteady' = {} /\ gpc \notin Gating
    BY <2>1, <2>3 DEF readVars, GateFollows
  <2> QED
    BY <1>1, <2>2, <2>3, GateOrLoop DEF Gating
<1>2. CASE GateStep
  <2>1. pc' = pc
    BY <1>2, GateStepKeepsVars DEF vars, jobVars
  <2>2. CASE GateStart \/ ReadRegistry \/ ReadSchema \/ CountParquet \/ CountSource
    BY <2>1, <2>2 DEF GateStart, ReadRegistry, ReadSchema, CountParquet, CountSource,
                      pastVars, GateFollows, Gating
  <2>3. CASE Judge
    <3>1. pc[GateJob] = "done" /\ ((gpc' = "blocked" /\ gsteady' = {})
                                   \/ (gpc' \in {"registry", "passed"}))
      BY <2>3, JudgeAdds DEF GateFollows, Gating
    <3> QED
      BY <2>1, <3>1 DEF GateFollows, Gating
  <2>4. CASE GateError
    BY <2>1, <2>4 DEF GateError, Stop, GateFollows, Gating
  <2> QED
    BY <1>2, <2>2, <2>3, <2>4 DEF GateStep
<1> QED
  BY <1>1, <1>2

\* Every step keeps the archive as it was counted, where each table has one writer.
LEMMA CurrentStep ==
  ASSUME OwnTables, GateTypeOK, GateFollows, CountsAreCurrent, [GateNext]_allVars
  PROVE  CountsAreCurrent'
<1>1. CASE ~GateStep
  <2>1. UNCHANGED readVars
    BY <1>1, GateOrLoop
  <2> SUFFICES ASSUME gpc = "source", NEW i \in Instances
               PROVE  gpq[i] = archive'[Judged(i)]
    BY <2>1 DEF readVars, CountsAreCurrent, Judged, GateTable
  <2>2. pc[GateJob] = "done" /\ gpq[i] = archive[Judged(i)]
    BY DEF GateFollows, Gating, CountsAreCurrent
  <2>3. gtab \in 1..Len(JobTables[GateJob]) /\ Judged(i) = PartOf(gtab, i)
    BY JudgedIsPart
  <2> QED
    BY <2>2, <2>3, GateStepReads, JudgedStays
<1>2. CASE CountParquet
  BY <1>2 DEF CountParquet, vars, storeVars, CountsAreCurrent, Judged, GateTable
<1>3. CASE CountSource
  BY <1>3 DEF CountSource, vars, storeVars, CountsAreCurrent, Judged, GateTable
<1>4. CASE GateStart \/ ReadRegistry \/ ReadSchema \/ Judge \/ GateError
  <2>1. gpc' # "source"
    BY <1>4, JudgeAdds DEF GateStart, ReadRegistry, ReadSchema, GateError, Stop
  <2> QED
    BY <2>1 DEF CountsAreCurrent
<1> QED
  BY <1>1, <1>2, <1>3, <1>4 DEF GateStep

\* Every step keeps empty days out, because freshness sees what was counted.
LEMMA EmptyDayStep ==
  ASSUME GateTypeOK, CountsAreCurrent, NoEmptyDayPasses, [GateNext]_allVars
  PROVE  NoEmptyDayPasses'
<1>1. CASE Judge /\ verdicts' # verdicts
  <2>1. verdicts' = verdicts \cup {ThisVerdict} /\ gpc = "source" /\ ThisStatus # FAIL
    BY <1>1, JudgeAdds
  <2>2. ASSUME FullProfile(GateTable) PROVE \E i \in Instances : gpq[i] # {}
    <3>1. Profile[GateTable].freshness
      <4>1. GateTable \in Tables
        BY GateTableType DEF GateTypeOK
      <4>2. Profile[GateTable] \in Profiles
        BY <4>1, GateConstantsOK
      <4> QED
        BY <2>2, <4>2 DEF FullProfile, Profiles
    <3>2. GapOf(gday) # NoCapture
      BY <2>1, <3>1, ThisVerdictMeans
    <3>3. \E i \in Instances : archive[Judged(i)] # {}
      <4> SUFFICES ASSUME \A i \in Instances : archive[Judged(i)] = {}
                   PROVE  GapOf(gday) = NoCapture
        BY <3>2
      <4>1. UNION {archive[<<GateTable, i, gday>>] : i \in Instances} = {}
        BY DEF Judged
      <4> QED
        BY <4>1, Zenon DEF GapOf
    <3> QED
      BY <2>1, <3>3 DEF CountsAreCurrent
  <2>3. ThisVerdict.table = GateTable /\ ThisVerdict.pq = gpq
    BY DEF ThisVerdict
  <2> QED
    BY <2>1, <2>2, <2>3 DEF NoEmptyDayPasses
<1>2. CASE verdicts' = verdicts \/ verdicts' = {}
  BY <1>2 DEF NoEmptyDayPasses
<1>3. (Judge /\ verdicts' # verdicts) \/ verdicts' = verdicts \/ verdicts' = {}
  BY GateOrLoop DEF GateStep, readVars, GateStart, ReadRegistry, ReadSchema, CountParquet,
     CountSource, GateError, Stop
<1> QED
  BY <1>1, <1>2, <1>3

\* All of it holds at all times, where each table has one writer.
LEMMA QuietInvariance == ASSUME OwnTables PROVE GateSpec => []QuietIInv
<1>1. GateInit => QuietIInv
  <2>1. GateInit => GateFollows /\ CountsAreCurrent /\ NoEmptyDayPasses /\ ArchivedSoFar
    BY DEF GateInit, GateFollows, Gating, CountsAreCurrent, NoEmptyDayPasses, ArchivedSoFar
  <2> QED
    BY <2>1, GateIInvInit DEF QuietIInv
<1>2. QuietIInv /\ [GateNext]_allVars => QuietIInv'
  <2> SUFFICES ASSUME QuietIInv, [GateNext]_allVars PROVE QuietIInv'
    OBVIOUS
  <2>1. GateIInv' /\ GateFollows' /\ ArchivedSoFar'
    BY GateIInvStep, FollowsStep, ArchivedStep DEF QuietIInv
  <2>2. CountsAreCurrent' /\ NoEmptyDayPasses'
    BY CurrentStep, EmptyDayStep DEF QuietIInv, GateIInv
  <2> QED
    BY <2>1, <2>2 DEF QuietIInv
<1> QED
  BY <1>1, <1>2, PTL DEF GateSpec

\* No empty day gets past the gate of a table with all four axes, whatever the
\* registry says, when no other job writes the table: the rows that freshness
\* sees are then those that were counted (check_freshness on no parquet).
THEOREM EmptyDaysAreBlocked == OwnTables => (GateSpec => []NoEmptyDayPasses)
<1> SUFFICES ASSUME OwnTables PROVE GateSpec => []NoEmptyDayPasses
  OBVIOUS
<1>1. QuietIInv => NoEmptyDayPasses
  BY DEF QuietIInv
<1> QED
  BY <1>1, QuietInvariance, PTL

\* What a gate that has passed stands for, for any tables, profiles, instances and
\* late rows: whoever was registered all the time the gate worked has its
\* partition, and it has every row the source had when the gate began, although
\* registry, archive and source were read at different moments and judged table
\* by table (evaluate, check_completeness, check_reconciliation).  It needs that
\* no table has two writers.
THEOREM PassedDaysAreArchived == OwnTables => (GateSpec => []PassedDayIsArchived)
<1> SUFFICES ASSUME OwnTables PROVE GateSpec => []PassedDayIsArchived
  OBVIOUS
<1>1. QuietIInv => PassedDayIsArchived
  BY DEF QuietIInv, ArchivedSoFar, JudgedBefore, HasDay, PartOf, InWindow, PassedDayIsArchived
<1> QED
  BY <1>1, QuietInvariance, PTL
=============================================================================
