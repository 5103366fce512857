--------------------------- MODULE AuxFacts_proofs ---------------------------
(***************************************************************************)
(* Theorems of AuxFacts, for any instances, days, runs and updates.        *)
(*                                                                         *)
(* The strengthening follows a backup on its way: what the archive has is  *)
(* no newer than the source, as long as that has not forgotten the day,    *)
(* what the fact has no newer than either, and a rewrite carries at least  *)
(* what it is about to replace, since a copy without rows is refused.  A   *)
(* partition that was put in time is either in the fact or will be         *)
(* recomputed by the next build, since the days of the fact move only with *)
(* a build.                                                                *)
(***************************************************************************)
EXTENDS AuxFacts, WellFoundedInduction, TLAPS

\* What the sweeper has taken out of the source does not come back.
Forgotten(i, d) == Expired(d) /\ backup[i][d] = 0

\* What comes later on the way never has more.
Descending ==
  \A i \in Instances, d \in Days :
    /\ raw[i][d] <= backup[i][d] \/ Forgotten(i, d)
    /\ fct[i][d] <= backup[i][d] \/ Forgotten(i, d)
    /\ raw[i][d] # 0 => fct[i][d] <= raw[i][d]
    /\ served.fct[i][d] <= fct[i][d]

\* A rewrite carries at least what it replaces.
Carried ==
  aux \in {"delete", "put"} =>
    /\ todo # {}
    /\ held <= backup[This][day] \/ Forgotten(This, day)
    /\ raw[This][day] <= held
    /\ fct[This][day] <= held

\* A copy in time has been built or will be by the next build.
Reached ==
  \A i \in Instances, d \in Days :
    raw[i][d] # 0 /\ <<i, d>> \notin late =>
      IF <<i, d>> \in fresh THEN Recomputed(d) ELSE fct[i][d] = raw[i][d]

\* A run that has published has left the fact as it was.
PublishedIsBuilt == main = "served" => served.fct = fct

\* The anchor is no newer than the archive.
AnchorBehind == asOf <= newest /\ served.asOf <= newest

IInv ==
  /\ TypeOK
  /\ Descending
  /\ Carried
  /\ Reached
  /\ PublishedIsBuilt
  /\ AnchorBehind

-----------------------------------------------------------------------------

\* The instance at hand is one of those still to be copied.
LEMMA ThisIsToDo ==
  ASSUME TypeOK, todo # {}
  PROVE  This \in todo
<1> DEFINE R == {ss \in Nat \X Nat : ss[1] < ss[2]}
<1>0. IsWellFoundedOn(R, Nat)
  BY NatLessThanWellFounded, Zenon DEF OpToRel
<1>1. todo \subseteq Nat
  BY ConstantsOK DEF TypeOK
<1>2. \E i \in todo : \A j \in todo : <<j, i>> \notin R
  <2> HIDE DEF R
  <2> QED BY <1>0, <1>1, WFMin
<1>3. PICK i \in todo : \A j \in todo : <<j, i>> \notin R
  BY <1>2
<1>4. ASSUME NEW j \in todo PROVE i <= j
  <2>1. i \in Nat /\ j \in Nat
    BY <1>1
  <2>2. j < i => <<j, i>> \in R
    BY <2>1
  <2> QED
    BY <1>3, <2>1, <2>2
<1> QED
  BY <1>4 DEF This

\* Nothing has been recorded, copied or built at first.
LEMMA InitIInv == ASSUME Init PROVE IInv
BY ConstantsOK DEF Init, IInv, TypeOK, Forgotten, Facts, Parts, Nothing, Days, Descending, Carried,
   Reached, PublishedIsBuilt, AnchorBehind

\* The four tables at one partition.
LEMMA Cells ==
  ASSUME TypeOK
  PROVE  \A i \in Instances, d \in Days :
           backup[i][d] \in 0..2 /\ raw[i][d] \in 0..2
             /\ fct[i][d] \in 0..2 /\ served.fct[i][d] \in 0..2
BY DEF TypeOK, Facts

\* This depends on todo alone.
LEMMA ThisStays == ASSUME todo' = todo PROVE This' = This
BY DEF This

-----------------------------------------------------------------------------
(* The world and the start of a run. *)

\* A day that has been forgotten stays so.
LEMMA ForgottenStays ==
  ASSUME TypeOK, today' \in Days, today <= today', NEW i \in Instances, NEW d \in Days,
         Forgotten(i, d), backup'[i][d] = backup[i][d]
  PROVE  Forgotten(i, d)'
<1>1. today \in Int /\ today' \in Int /\ d \in Int /\ Retention \in Nat
  BY ConstantsOK DEF TypeOK, Days
<1>2. today - d >= Retention /\ backup[i][d] = 0
  BY DEF Forgotten, Expired
<1>3. today' - d >= Retention
  <2>1. \A a, b, e \in Int, r \in Nat : a <= b /\ a - e >= r => b - e >= r
    OBVIOUS
  <2> QED
    BY <1>1, <1>2, <2>1
<1>4. backup'[i][d] = 0
  BY <1>2
<1> QED
  BY <1>3, <1>4 DEF Forgotten, Expired

\* The archive and the fact are as they were: what was carried still is, if the
\* source has forgotten nothing but what has expired.
LEMMA SourceMoves ==
  ASSUME IInv, TypeOK',
         UNCHANGED <<raw, newest, fct, asOf, served, day, main, aux, todo, held, late, fresh>>,
         \A i \in Instances, d \in Days :
           /\ Forgotten(i, d) => Forgotten(i, d)'
           /\ Forgotten(i, d)' \/ backup[i][d] <= backup'[i][d]
  PROVE  IInv'
<1> USE DEF IInv
<1>1. \A i \in Instances, d \in Days : backup[i][d] \in 0..2 /\ backup'[i][d] \in 0..2
  BY DEF TypeOK, Facts
<1>2. Descending'
  BY <1>1, Cells DEF Descending
<1>3. Carried'
  <2> SUFFICES ASSUME aux \in {"delete", "put"} PROVE Carried'
    BY DEF Carried
  <2>1. This \in Instances /\ day \in Days
    BY ThisIsToDo DEF Carried, TypeOK
  <2>2. PICK i \in Instances, d \in Days : i = This /\ d = day
    BY <2>1
  <2>3. /\ todo # {} /\ raw[i][d] <= held /\ fct[i][d] <= held
        /\ held <= backup[i][d] \/ Forgotten(i, d)
    BY <2>2 DEF Carried
  <2>4. held \in 0..2
    BY DEF TypeOK
  <2>5. held <= backup'[i][d] \/ Forgotten(i, d)'
    BY <1>1, <2>3, <2>4
  <2>6. This' = i /\ day' = d
    BY <2>2, ThisStays
  <2>7. held <= backup'[This'][day'] \/ (today' - day' >= Retention /\ backup'[This'][day'] = 0)
    BY <2>5, <2>6 DEF Forgotten, Expired
  <2> QED
    BY <2>3, <2>6, <2>7 DEF Carried, Forgotten, Expired
<1> QED
  BY <1>2, <1>3 DEF Reached, Recomputed, FactDays, PublishedIsBuilt, AnchorBehind

\* Time, the recorded backups and the start of a run keep the invariant.
LEMMA WorldKeepsIInv ==
  ASSUME IInv, Tick \/ Record \/ Verify \/ Sweep \/ StartRun
  PROVE  IInv'
<1>0. TypeOK
  BY DEF IInv
<1>1. CASE Tick
  <2>1. /\ today' \in Days /\ today <= today' /\ backup' = backup
        /\ UNCHANGED <<raw, newest, fct, asOf, served, day, main, aux, todo, held, runs, late, fresh>>
    BY <1>0, <1>1, ConstantsOK DEF Tick, auxVars, mainVars, TypeOK, Days
  <2>2. TypeOK'
    BY <1>0, <2>1 DEF TypeOK
  <2>3. \A i \in Instances, d \in Days : Forgotten(i, d) => Forgotten(i, d)'
    BY <1>0, <2>1, ForgottenStays
  <2> QED
    BY <1>0, <2>1, <2>2, <2>3, SourceMoves, Cells
<1>2. CASE Record \/ Verify
  <2>0. UNCHANGED <<today, raw, newest, fct, asOf, served, day, main, aux, todo, held, runs, late, fresh>>
    BY <1>2 DEF Record, Verify, auxVars, mainVars
  <2>1. \E i \in Instances, d \in Days, v \in 1..2 :
          ~Forgotten(i, d) /\ backup[i][d] < v /\ backup' = [backup EXCEPT ![i][d] = v]
    BY <1>0, <1>2, ConstantsOK DEF Record, Verify, TypeOK, Days, Forgotten
  <2>2. PICK i \in Instances, d \in Days, v \in 1..2 :
          ~Forgotten(i, d) /\ backup[i][d] < v /\ backup' = [backup EXCEPT ![i][d] = v]
    BY <2>1
  <2>3. /\ backup' \in Facts
        /\ backup'[i][d] = v
        /\ \A j \in Instances, e \in Days : <<j, e>> # <<i, d>> => backup'[j][e] = backup[j][e]
    <3>1. backup \in Facts /\ v \in 0..2
      BY <1>0 DEF TypeOK
    <3> QED
      BY <2>2, <3>1 DEF Facts
  <2>4. \A j \in Instances, e \in Days :
          /\ Forgotten(j, e) => Forgotten(j, e)'
          /\ backup[j][e] <= backup'[j][e]
    BY <1>0, <2>0, <2>2, <2>3, Cells DEF Forgotten, Expired
  <2>5. TypeOK'
    BY <1>0, <2>0, <2>3 DEF TypeOK
  <2> QED
    BY <2>0, <2>4, <2>5, SourceMoves
<1>3. CASE Sweep
  <2>0. UNCHANGED <<today, raw, newest, fct, asOf, served, day, main, aux, todo, held, runs, late, fresh>>
    BY <1>3 DEF Sweep, auxVars, mainVars
  <2>1. \A i \in Instances, d \in Days :
          backup'[i][d] = IF Expired(d) THEN 0 ELSE backup[i][d]
    BY <1>3 DEF Sweep
  <2>2. backup' \in Facts
    <3>1. \A i \in Instances, d \in Days :
            (IF Expired(d) THEN 0 ELSE backup[i][d]) \in 0..2
      BY <1>0, Cells
    <3> QED
      BY <1>3, <3>1 DEF Sweep, Facts
  <2>3. TypeOK'
    BY <1>0, <2>0, <2>2 DEF TypeOK
  <2>4. \A i \in Instances, d \in Days :
          /\ Forgotten(i, d) => Forgotten(i, d)'
          /\ Forgotten(i, d)' \/ backup[i][d] <= backup'[i][d]
    BY <1>0, <2>0, <2>1, Cells DEF Forgotten, Expired
  <2> QED
    BY <2>0, <2>3, <2>4, SourceMoves
<1>4. CASE StartRun
  BY <1>4, ConstantsOK
     DEF StartRun, worldVars, IInv, TypeOK, Days, Facts, Parts, Descending, Carried, Reached,
         Recomputed, FactDays, PublishedIsBuilt, AnchorBehind, Forgotten, Expired
<1> QED
  BY <1>1, <1>2, <1>3, <1>4

-----------------------------------------------------------------------------
(* The auxiliary branch. *)

\* So does the copy's query, which is never behind what it replaces.
LEMMA FetchKeepsIInv == ASSUME IInv, Fetch PROVE IInv'
<1> USE DEF IInv
<1>1. This \in Instances /\ day \in Days
  BY ThisIsToDo DEF Fetch, TypeOK
<1>2. UNCHANGED <<today, backup, raw, newest, fct, asOf, served, day, main, todo, runs, late, fresh>>
  BY DEF Fetch, worldVars, mainVars
<1>3. TypeOK'
  <2>1. held' \in 0..2 /\ aux' \in {"delete", "put"}
    BY <1>1, Cells DEF Fetch, TypeOK
  <2> QED
    BY <1>2, <2>1 DEF TypeOK
<1>4. Carried'
  <2>1. This' = This /\ held' = backup[This][day] /\ todo # {} /\ ~Forgotten(This, day)
    BY <1>2, ThisStays DEF Fetch, Forgotten
  <2> QED
    BY <1>1, <1>2, <2>1, Cells DEF Carried, Descending, TypeOK
<1> QED
  BY <1>2, <1>3, <1>4
     DEF Descending, Reached, Recomputed, FactDays, PublishedIsBuilt, AnchorBehind, Forgotten,
         Expired

\* So does the deletion of a partition's objects.
LEMMA DeleteKeepsIInv == ASSUME IInv, Delete PROVE IInv'
<1> USE DEF IInv
<1>1. todo # {} /\ This \in Instances /\ This' = This
  BY ThisIsToDo, ThisStays DEF Delete, Carried, TypeOK
<1>2. UNCHANGED <<today, backup, newest, fct, asOf, served, day, main, todo, held, runs, late, fresh>>
  BY DEF Delete, worldVars, mainVars
<1>3. /\ raw' \in Facts
      /\ raw'[This][day] = 0
      /\ \A i \in Instances, d \in Days : <<i, d>> # <<This, day>> => raw'[i][d] = raw[i][d]
  <2>1. raw \in Facts /\ day \in Days /\ 0 \in 0..2
    BY DEF TypeOK
  <2>2. raw' = [raw EXCEPT ![This][day] = 0]
    BY DEF Delete
  <2> QED
    BY <1>1, <2>1, <2>2 DEF Facts
<1>4. \A i \in Instances, d \in Days : raw'[i][d] \in {0, raw[i][d]}
  BY <1>3
<1>5. Descending'
  BY <1>2, <1>4, Cells DEF Descending, Forgotten, Expired
<1>6. Carried'
  <2>1. /\ held \in 0..2 /\ fct[This][day] <= held
        /\ held <= backup[This][day] \/ Forgotten(This, day)
    BY DEF Delete, Carried, TypeOK
  <2> QED
    BY <1>1, <1>2, <1>3, <2>1 DEF Carried, Forgotten, Expired
<1>7. TypeOK'
  BY <1>2, <1>3 DEF Delete, TypeOK
<1>8. Reached'
  BY <1>2, <1>4 DEF Reached, Recomputed, FactDays
<1> QED
  BY <1>2, <1>5, <1>6, <1>7, <1>8 DEF PublishedIsBuilt, AnchorBehind

\* So does the new object.
LEMMA PutKeepsIInv == ASSUME IInv, Put PROVE IInv'
<1> USE DEF IInv
<1>1. todo # {} /\ This \in Instances
  BY ThisIsToDo DEF Put, Carried, TypeOK
<1>2. UNCHANGED <<today, backup, newest, fct, asOf, served, day, main, runs>>
  BY DEF Put, worldVars, mainVars
<1>3. TypeOK'
  BY <1>1, <1>2 DEF Put, TypeOK, Facts, Days, Parts
<1>4. /\ raw'[This][day] = held
      /\ \A i \in Instances, d \in Days : <<i, d>> # <<This, day>> => raw'[i][d] = raw[i][d]
  BY <1>1 DEF Put, TypeOK, Facts, Days
<1>5. Descending'
  <2> SUFFICES ASSUME NEW i \in Instances, NEW d \in Days
               PROVE  /\ raw'[i][d] <= backup[i][d] \/ Forgotten(i, d)
                      /\ fct[i][d] <= backup[i][d] \/ Forgotten(i, d)
                      /\ raw'[i][d] # 0 => fct[i][d] <= raw'[i][d]
                      /\ served.fct[i][d] <= fct[i][d]
    BY <1>2 DEF Descending, Forgotten, Expired
  <2>1. CASE <<i, d>> = <<This, day>>
    <3>1. /\ held <= backup[i][d] \/ Forgotten(i, d)
          /\ fct[i][d] <= held
      BY <2>1 DEF Put, Carried
    <3>2. raw'[i][d] = held
      BY <1>4, <2>1
    <3> QED
      BY <3>1, <3>2 DEF Descending
  <2>2. CASE <<i, d>> # <<This, day>>
    BY <1>4, <2>2 DEF Descending
  <2> QED
    BY <2>1, <2>2
<1>6. Carried'
  BY DEF Put, Carried
<1>7. Reached'
  <2> SUFFICES ASSUME NEW i \in Instances, NEW d \in Days, raw'[i][d] # 0, <<i, d>> \notin late'
               PROVE  IF <<i, d>> \in fresh' THEN Recomputed(d)' ELSE fct'[i][d] = raw'[i][d]
    BY DEF Reached
  <2>1. CASE <<i, d>> = <<This, day>>
    <3>1. <<i, d>> \in fresh' /\ d = day
      BY <2>1 DEF Put
    <3>2. \A e \in FactDays : ~(e > day)
      BY <2>1 DEF Put
    <3> QED
      BY <1>2, <3>1, <3>2 DEF Recomputed, FactDays, TypeOK, Days
  <2>2. CASE <<i, d>> # <<This, day>>
    <3>1. (<<i, d>> \in fresh' <=> <<i, d>> \in fresh) /\ <<i, d>> \notin late
      BY <2>2 DEF Put
    <3> QED
      BY <1>2, <1>4, <2>2, <3>1 DEF Reached, Recomputed, FactDays
  <2> QED
    BY <2>1, <2>2
<1> QED
  BY <1>2, <1>3, <1>5, <1>6, <1>7 DEF PublishedIsBuilt, AnchorBehind

\* So does the end of the copy, good or bad, and an instance without backups.
LEMMA CopyEndsKeepIInv == ASSUME IInv, Skip \/ Refuse \/ CopyDone \/ CopyFails PROVE IInv'
<1> USE DEF IInv
<1>1. UNCHANGED <<today, backup, raw, newest, fct, asOf, served, day, main, runs, late, fresh>>
  BY DEF Skip, Refuse, CopyDone, CopyFails, AttemptEnds, worldVars, mainVars
<1>2. TypeOK' /\ Carried'
  BY <1>1 DEF Skip, Refuse, CopyDone, CopyFails, AttemptEnds, TypeOK, Carried
<1> QED
  BY <1>1, <1>2 DEF Descending, Reached, Recomputed, FactDays, PublishedIsBuilt, AnchorBehind,
                    Forgotten, Expired

-----------------------------------------------------------------------------
(* The main branch. *)

\* So does the main branch's own extraction.
LEMMA OffloadKeepsIInv == ASSUME IInv, Offload \/ OffloadFails PROVE IInv'
<1> USE DEF IInv
<1>1. UNCHANGED <<today, backup, raw, fct, asOf, served, day, aux, todo, held, runs, late, fresh>>
  BY DEF Offload, OffloadFails, worldVars, auxVars
<1>2. newest' \in -1..LastDay /\ newest <= newest' /\ main' # "served"
  BY ConstantsOK DEF Offload, OffloadFails, TypeOK, Days
<1>3. TypeOK'
  BY <1>1, <1>2 DEF Offload, OffloadFails, TypeOK
<1>4. AnchorBehind'
  BY <1>1, <1>2, ConstantsOK DEF AnchorBehind, TypeOK
<1> QED
  BY <1>1, <1>2, <1>3, <1>4, ThisStays
     DEF Descending, Carried, Reached, Recomputed, FactDays, PublishedIsBuilt, Forgotten, Expired

\* What a build, of a transform that succeeds or fails behind it, does.
LEMMA BuildKeepsIInv ==
  ASSUME IInv, Build, main' \in {"transform", "publish", "over"},
         UNCHANGED <<worldVars, auxVars, newest, served, day, runs>>
  PROVE  IInv'
<1> USE DEF IInv
<1>1. UNCHANGED <<today, backup, raw, newest, served, day, aux, todo, held, runs, late>>
  BY DEF worldVars, auxVars
<1>2. \A i \in Instances, d \in Days :
        fct'[i][d] = IF Recomputed(d) /\ raw[i][d] # 0 THEN raw[i][d] ELSE fct[i][d]
  BY DEF Build, BackupFact
<1>3. \A i \in Instances, d \in Days : fct'[i][d] \in 0..2 /\ fct[i][d] <= fct'[i][d]
  BY <1>2, Cells DEF Descending
<1>4. TypeOK'
  <2>1. fct' \in Facts
    BY <1>3 DEF Build, BackupFact, Facts
  <2> QED
    BY <1>1, <2>1 DEF Build, AsOf, TypeOK
<1>5. Descending'
  BY <1>1, <1>2, <1>3, Cells DEF Descending, Forgotten, Expired
<1>6. Carried'
  <2> SUFFICES ASSUME aux \in {"delete", "put"}
               PROVE  /\ todo # {}
                      /\ held <= backup[This][day] \/ Forgotten(This, day)
                      /\ raw[This][day] <= held
                      /\ fct'[This][day] <= held
    BY <1>1, ThisStays DEF Carried, Forgotten, Expired
  <2>1. This \in Instances /\ day \in Days
    BY ThisIsToDo DEF Carried, TypeOK
  <2> QED
    BY <1>2, <2>1 DEF Carried
<1>7. Reached'
  BY <1>1, <1>2 DEF Build, Reached
<1>8. AnchorBehind'
  BY <1>1, ConstantsOK DEF Build, AsOf, AnchorBehind, TypeOK
<1> QED
  BY <1>4, <1>5, <1>6, <1>7, <1>8 DEF PublishedIsBuilt

\* A step of the main branch that leaves the fact alone.
LEMMA PublishKeepsIInv ==
  ASSUME IInv, UNCHANGED <<worldVars, auxVars, newest, fct, asOf, day, runs, fresh>>,
         served' \in {served, [fct |-> fct, asOf |-> asOf]},
         \/ main' \in {"transform", "publish", "over"}
         \/ main' = "served" /\ served' = [fct |-> fct, asOf |-> asOf]
  PROVE  IInv'
<1> USE DEF IInv
<1>1. UNCHANGED <<today, backup, raw, newest, fct, asOf, day, aux, todo, held, runs, late, fresh>>
  BY DEF worldVars, auxVars
<1>2. \/ served' = served
      \/ served'.fct = fct /\ served'.asOf = asOf
  OBVIOUS
<1>3. TypeOK'
  BY <1>1 DEF TypeOK
<1>4. Descending'
  BY <1>1, <1>2, Cells DEF Descending, Forgotten, Expired
<1> QED
  BY <1>1, <1>2, <1>3, <1>4, ThisStays
     DEF Carried, Reached, Recomputed, FactDays, PublishedIsBuilt, AnchorBehind, Forgotten,
         Expired

-----------------------------------------------------------------------------

\* Every step keeps the invariant.
LEMMA StepKeepsIInv == ASSUME IInv, [Next]_vars PROVE IInv'
<1>1. CASE Tick \/ Record \/ Verify \/ Sweep \/ StartRun
  BY <1>1, WorldKeepsIInv
<1>2. CASE Branch
  BY <1>2, FetchKeepsIInv, DeleteKeepsIInv, PutKeepsIInv, CopyEndsKeepIInv DEF Branch
<1>3. CASE Offload \/ OffloadFails
  BY <1>3, OffloadKeepsIInv
<1>4. CASE Transform
  BY <1>4, BuildKeepsIInv DEF Transform
<1>5. CASE TransformFails
  <2>1. CASE Build
    BY <1>5, <2>1, BuildKeepsIInv DEF TransformFails
  <2>2. CASE UNCHANGED <<fct, asOf, fresh>>
    BY <1>5, <2>2, PublishKeepsIInv DEF TransformFails
  <2> QED
    BY <1>5, <2>1, <2>2 DEF TransformFails
<1>6. CASE Publish
  BY <1>6, PublishKeepsIInv DEF Publish
<1>7. CASE PublishFails
  BY <1>7, PublishKeepsIInv DEF PublishFails
<1>8. CASE UNCHANGED vars
  BY <1>8, ThisStays
     DEF vars, worldVars, auxVars, mainVars, IInv, TypeOK, Descending, Carried, Reached, Recomputed,
         FactDays, PublishedIsBuilt, AnchorBehind, Forgotten, Expired
<1> QED
  BY <1>1, <1>2, <1>3, <1>4, <1>5, <1>6, <1>7, <1>8 DEF Next, Main

\* The invariant holds at all times.
LEMMA Inductive == Spec => []IInv
BY InitIInv, StepKeepsIInv, PTL DEF Spec

\* Every variable of both branches keeps its type.
THEOREM TypeCorrect == Spec => []TypeOK
<1>1. IInv => TypeOK
  BY DEF IInv
<1> QED
  BY <1>1, Inductive, PTL

\* What a run has published of a partition that was copied in time is what the
\* archive has of it (CopiesInTimeAreServed): it was recomputed by the first
\* build behind its put, and a build in the middle of a later rewrite skips it.
THEOREM CopiesReachTheDashboards == Spec => []CopiesInTimeAreServed
<1>1. IInv => CopiesInTimeAreServed
  BY DEF IInv, CopiesInTimeAreServed, InTime, Reached, PublishedIsBuilt
<1> QED
  BY <1>1, Inductive, PTL

\* A breach is never the lag of one branch behind the other (BreachIsNotALag):
\* the anchor is no newer than the archive, and a copy in time is served.
THEOREM BreachHasNoCopy == Spec => []BreachIsNotALag
<1>1. ASSUME IInv PROVE BreachIsNotALag
  <2> SUFFICES ASSUME main = "served", NEW i \in Instances, Breach(i),
                      NEW d \in Days, newest - d \in 0..MaxGap, InTime(i, d)
               PROVE  FALSE
    BY DEF BreachIsNotALag
  <2>1. served.fct[i][d] # 0
    BY <1>1 DEF IInv, InTime, Reached, PublishedIsBuilt
  <2>2. served.asOf - d > MaxGap
    BY <2>1 DEF Breach
  <2>3. served.asOf <= newest /\ served.asOf \in -1..LastDay /\ newest \in -1..LastDay
    BY <1>1 DEF IInv, AnchorBehind, TypeOK
  <2> QED
    BY <2>2, <2>3, ConstantsOK DEF Days
<1> QED
  BY <1>1, Inductive, PTL

\* What the dashboards have of a backup never shrinks (ServedBackupsStay): only
\* publish changes them, and the fact it brings has no less (Descending).
THEOREM BackupsStay == Spec => ServedBackupsStay
<1>1. ASSUME IInv, [Next]_vars
      PROVE  [\A i \in Instances, d \in Days : served'.fct[i][d] >= served.fct[i][d]]_vars
  <2>1. served' = served \/ served'.fct = fct
    <3>1. CASE Tick \/ Record \/ Verify \/ Sweep \/ StartRun \/ Branch
      BY <3>1 DEF Tick, Record, Verify, Sweep, StartRun, Branch, Fetch, Skip, Refuse, Delete, Put,
                  CopyDone, CopyFails, AttemptEnds, mainVars
    <3>2. CASE Offload \/ OffloadFails \/ Transform \/ TransformFails \/ PublishFails
      BY <3>2 DEF Offload, OffloadFails, Transform, TransformFails, PublishFails
    <3>3. CASE Publish
      BY <3>3 DEF Publish
    <3>4. CASE UNCHANGED vars
      BY <3>4 DEF vars, mainVars
    <3> QED
      BY <1>1, <3>1, <3>2, <3>3, <3>4 DEF Next, Main
  <2> QED
    BY <1>1, <2>1, Cells DEF IInv, Descending
<1> QED
  BY <1>1, Inductive, PTL DEF Spec, ServedBackupsStay
=============================================================================
