-------------------------- MODULE SnapshotDag_proofs --------------------------
(***************************************************************************)
(* Theorems of SnapshotDag, for any number of instances, auxiliary tables, *)
(* days, retries, runs and full refreshes.                                 *)
(*                                                                         *)
(* The strengthening is Chain: a task that has been let go has all of its  *)
(* upstream tasks in success, and a success is never taken back within a   *)
(* run.  So nothing rewrites the archive once the gate is at work, and no  *)
(* task rebuilds the facts once publish is.  An operator may do so at any  *)
(* time, but from the archive, and there the day of the run stays whole:   *)
(* what each task established for it is there when the next one relies on  *)
(* it.                                                                     *)
(***************************************************************************)
EXTENDS SnapshotDag, TLAPS

LetGo == {"running", "success", "failed"}

\* A task that was let go stands on successes.
Chain == \A t \in Tasks : st[t] \in LetGo => \A u \in Upstream(t) : st[u] = "success"

\* The day that passed the gate is still whole.
WholeAfterGate == st["quality_gate"] = "success" => raw[day] = Instances

\* The facts have the day of the run, or a later one.
BuiltAfterTransform ==
  st["transform"] = "success" /\ (\A d \in Days : d > day => fct[d] = {}) =>
    fct[day] = Instances

\* The lake has the day of the run, or a later one.
ServedAfterPublish ==
  st["publish"] = "success" /\ (\A d \in Days : d > day => lake[d] = {}) =>
    lake[day] = Instances

\* The lake is ahead of the facts by what full refreshes have dropped, no more.
LakeWithinFacts == \A d \in Days : lake[d] \ fct[d] \subseteq dropped[d]

IInv ==
  /\ TypeOK
  /\ Chain
  /\ WholeAfterGate
  /\ BuiltAfterTransform
  /\ ServedAfterPublish
  /\ LakeWithinFacts

\* The wiring, one task at a time.
LEMMA Wiring ==
  /\ Upstream("quality_gate") = {"offload"}
  /\ Upstream("transform") = {"quality_gate"}
  /\ Upstream("publish") = {"transform"}
  /\ Upstream("heartbeat") = {"publish"}
  /\ Upstream("writeback") = {"publish"}
  /\ Upstream("quality_gate_aux") = {"offload_aux"}
  /\ Upstream("offload") = {}
  /\ Upstream("offload_aux") = {}
  /\ \A t \in Tasks : Upstream(t) \subseteq Tasks /\ t \notin Upstream(t)
BY DEF Upstream, Wires, Tasks

\* An incremental build loses nothing that was in the table.
LEMMA BuildGrows ==
  ASSUME TypeOK, BuildFct
  PROVE  /\ fct' \in [Days -> SUBSET Instances]
         /\ \A d \in Days : fct[d] \subseteq fct'[d]
BY DEF TypeOK, BuildFct

\* The invariant holds before the first run.
LEMMA InitIInv == ASSUME Init PROVE IInv
BY ConstantsOK, Wiring DEF Init, IInv, TypeOK, Chain, LetGo, WholeAfterGate, BuiltAfterTransform,
   ServedAfterPublish, LakeWithinFacts, Nothing, States, Settled, Days, Tasks

\* A step of the scheduler or of a task keeps the chain.
LEMMA TaskStepChain ==
  ASSUME TypeOK, Chain, NEW t \in Tasks,
         \/ Begin(t) \/ Propagate(t) \/ Succeeds(t) \/ Fails(t)
  PROVE  /\ Chain'
         /\ st' \in [Tasks -> States]
         /\ \A u \in Tasks : u # t => st'[u] = st[u]
<1>1. CASE Begin(t)
  BY <1>1, Wiring DEF Begin, Ready, Chain, LetGo, TypeOK, States, Settled
<1>2. CASE Propagate(t)
  BY <1>2, Wiring DEF Propagate, Chain, LetGo, TypeOK, States, Settled
<1>3. CASE Succeeds(t)
  BY <1>3, Wiring DEF Succeeds, Chain, LetGo, TypeOK, States, Settled
<1>4. CASE Fails(t)
  BY <1>4, Wiring DEF Fails, Chain, LetGo, TypeOK, States, Settled
<1> QED
  BY <1>1, <1>2, <1>3, <1>4

\* One step of one task, or of the scheduler on it.
TaskStep(t) == Begin(t) \/ Propagate(t) \/ Succeeds(t) \/ Fails(t)

\* Every action is a step of one task, the start of a run, or not in the DAG.
LEMMA Actors ==
  ASSUME [Next]_vars
  PROVE  \/ \E t \in Tasks : TaskStep(t) /\ day' = day
         \/ StartRun
         \/ UNCHANGED <<st, day>>
BY DEF Next, Operator, FullRefresh, PublishByHand, Main, Branch, Scheduler, Leaf, LeafFails, Offload, OffloadFails,
   QualityGate, QualityGateFails, Transform, TransformFails, Publish, PublishFails,
   Heartbeat, HeartbeatFails, OffloadAux, OffloadAuxFails, TaskStep, Tasks, Tick, Collect, Sweep,
   Begin, Propagate, Succeeds, Fails, vars

\* Every step keeps the order of the tasks.
LEMMA StepChain == ASSUME TypeOK, Chain, [Next]_vars PROVE Chain'
<1>1. ASSUME NEW t \in Tasks, TaskStep(t) PROVE Chain'
  BY <1>1, TaskStepChain DEF TaskStep
<1>2. CASE StartRun
  BY <1>2 DEF StartRun, Chain, LetGo, Tasks, Upstream
<1>3. CASE UNCHANGED <<st, day>>
  BY <1>3 DEF Chain, Upstream
<1> QED
  BY <1>1, <1>2, <1>3, Actors

\* A failed attempt leaves the scheduler's own state in its type.
LEMMA FailsTypeOK ==
  ASSUME TypeOK, NEW t \in Tasks, Fails(t)
  PROVE  /\ st' \in [Tasks -> States]
         /\ tries' \in [Tasks -> Nat]
         /\ UNCHANGED <<today, day, runs, refreshes>>
BY DEF TypeOK, Fails, States, Settled

\* A full refresh leaves facts of their type, and the archive itself while no
\* offload is at work.
LEMMA RefreshTypeOK ==
  ASSUME TypeOK, BuildAnew
  PROVE  /\ fct' \in [Days -> SUBSET Instances]
         /\ st["offload"] # "running" => fct' = raw
<1>1. CASE st["offload"] # "running"
  BY <1>1 DEF BuildAnew, TypeOK
<1>2. CASE st["offload"] = "running"
  <2>1. PICK done \in SUBSET source[day], gone \in {{}} \cup {{i} : i \in source[day]} :
          fct' = [raw EXCEPT ![day] = (@ \cup done) \ gone]
    BY <1>2 DEF BuildAnew
  <2>2. (raw[day] \cup done) \ gone \in SUBSET Instances /\ raw \in [Days -> SUBSET Instances]
    BY <2>1 DEF TypeOK
  <2> QED
    BY <1>2, <2>1, <2>2
<1> QED
  BY <1>1, <1>2

\* What an action leaves of the data is of its type.
LEMMA StepTypeOK == ASSUME TypeOK, [Next]_vars PROVE TypeOK'
<1>1. CASE Tick
  BY <1>1, ConstantsOK DEF Tick, TypeOK, dataVars, Days
<1>2. CASE Collect
  BY <1>2 DEF Collect, TypeOK
<1>3. CASE Sweep
  BY <1>3 DEF Sweep, TypeOK
<1>4. CASE StartRun
  BY <1>4 DEF StartRun, TypeOK, dataVars, States
<1>5. ASSUME NEW t \in Tasks, Begin(t) \/ Propagate(t) PROVE TypeOK'
  BY <1>5 DEF Begin, Propagate, TypeOK, dataVars, States, Settled
<1>6. CASE Offload
  BY <1>6 DEF Offload, Succeeds, TypeOK, States, Settled
<1>7. CASE OffloadFails
  <2>1. PICK done \in SUBSET source[day] :
          \/ raw' = [raw EXCEPT ![day] = @ \cup done]
          \/ \E i \in source[day] : raw' = [raw EXCEPT ![day] = (@ \cup done) \ {i}]
    BY <1>7 DEF OffloadFails
  <2>2. raw' \in [Days -> SUBSET Instances]
    BY <2>1 DEF TypeOK
  <2> QED
    BY <1>7, <2>2, FailsTypeOK DEF OffloadFails, TypeOK, Tasks
<1>8. CASE QualityGate \/ QualityGateFails
  BY <1>8 DEF QualityGate, QualityGateFails, Succeeds, Fails, TypeOK, dataVars, States, Settled
<1>9. CASE Transform
  BY <1>9, BuildGrows DEF Transform, Succeeds, TypeOK, States, Settled
<1>10. CASE TransformFails
  <2>1. fct' \in [Days -> SUBSET Instances]
    BY <1>10, BuildGrows DEF TransformFails, TypeOK
  <2> QED
    BY <1>10, <2>1, FailsTypeOK DEF TransformFails, TypeOK, Tasks
<1>11. CASE Publish \/ PublishFails
  BY <1>11 DEF Publish, PublishFails, PublishMarts, Nothing, Succeeds, Fails, TypeOK, States, Settled
<1>12. CASE Heartbeat \/ HeartbeatFails
  BY <1>12 DEF Heartbeat, HeartbeatFails, Succeeds, Fails, TypeOK, States, Settled
<1>13. CASE OffloadAux \/ OffloadAuxFails
  BY <1>13 DEF OffloadAux, OffloadAuxFails, Succeeds, Fails, TypeOK, States, Settled
<1>14. ASSUME NEW t \in Tasks, Leaf(t) \/ LeafFails(t) PROVE TypeOK'
  BY <1>14 DEF Leaf, LeafFails, Succeeds, Fails, TypeOK, dataVars, States, Settled
<1>15. CASE FullRefresh
  <2>1. fct' \in [Days -> SUBSET Instances]
    BY <1>15, RefreshTypeOK DEF FullRefresh
  <2>2. dropped' \in [Days -> SUBSET Instances]
    BY <1>15 DEF FullRefresh, TypeOK
  <2> QED
    BY <1>15, <2>1, <2>2 DEF FullRefresh, TypeOK
<1>16. CASE PublishByHand
  BY <1>16 DEF PublishByHand, PublishMarts, Nothing, TypeOK
<1>17. CASE UNCHANGED vars
  BY <1>17 DEF TypeOK, vars, dataVars
<1> QED
  BY <1>1, <1>2, <1>3, <1>4, <1>5, <1>6, <1>7, <1>8, <1>9, <1>10, <1>11, <1>12, <1>13, <1>14,
     <1>15, <1>16, <1>17 DEF Next, Operator, Main, Branch, Scheduler

\* Who may touch what: the archive has one task that writes it; the facts and
\* the lake have one each and the operator.
LEMMA Writers ==
  ASSUME TypeOK, [Next]_vars
  PROVE  /\ raw' # raw => st["offload"] = "running"
         /\ \/ UNCHANGED <<fct, lake, dropped>>
            \/ st["transform"] = "running" /\ BuildFct /\ UNCHANGED <<lake, dropped>>
            \/ PublishMarts /\ fct' = fct
            \/ FullRefresh
BY DEF Next, Operator, FullRefresh, PublishByHand, Main, Branch, Scheduler, Leaf, LeafFails,
   Offload, OffloadFails, QualityGate, QualityGateFails, Transform, TransformFails, Publish,
   PublishFails, Heartbeat, HeartbeatFails, OffloadAux, OffloadAuxFails, Tick, Collect, Sweep,
   StartRun, Begin, Propagate, Succeeds, Fails, vars, dataVars

\* A task becomes a success by its own action.
LEMMA Successes ==
  ASSUME TypeOK, [Next]_vars
  PROVE  /\ st'["quality_gate"] = "success" =>
              (st["quality_gate"] = "success" /\ day' = day) \/ QualityGate
         /\ st'["transform"] = "success" =>
              (st["transform"] = "success" /\ day' = day) \/ Transform
         /\ st'["publish"] = "success" =>
              (st["publish"] = "success" /\ day' = day) \/ Publish
BY DEF Next, Operator, FullRefresh, PublishByHand, Main, Branch, Scheduler, Leaf, LeafFails,
   Offload, OffloadFails, QualityGate, QualityGateFails, Transform, TransformFails, Publish,
   PublishFails, Heartbeat, HeartbeatFails, OffloadAux, OffloadAuxFails, Tick, Collect, Sweep, StartRun,
   Begin, Propagate, Succeeds, Fails, vars, dataVars, TypeOK, Tasks

\* Every step keeps the gated day whole in the archive.
LEMMA StepWholeAfterGate ==
  ASSUME IInv, [Next]_vars
  PROVE  WholeAfterGate'
<1> SUFFICES ASSUME st'["quality_gate"] = "success" PROVE raw'[day'] = Instances
  BY DEF WholeAfterGate
<1>1. CASE st["quality_gate"] = "success" /\ day' = day
  <2>1. st["offload"] = "success"
    BY <1>1, Wiring DEF IInv, Chain, LetGo, Tasks
  <2>2. raw' = raw
    BY <2>1, Writers DEF IInv
  <2> QED
    BY <1>1, <2>2 DEF IInv, WholeAfterGate
<1>2. CASE QualityGate
  BY <1>2 DEF QualityGate, GateCanPass, Succeeds, dataVars
<1> QED
  BY <1>1, <1>2, Successes DEF IInv

\* What a success of transform stands on.
LEMMA BehindTransform ==
  ASSUME IInv, st["transform"] \in LetGo
  PROVE  /\ st["offload"] = "success" /\ st["quality_gate"] = "success"
         /\ raw[day] = Instances
BY Wiring DEF IInv, Chain, LetGo, Tasks, WholeAfterGate

\* Every step keeps the built day whole in the facts.
LEMMA StepBuiltAfterTransform ==
  ASSUME IInv, [Next]_vars
  PROVE  BuiltAfterTransform'
<1> SUFFICES ASSUME st'["transform"] = "success",
                    \A d \in Days : d > day' => fct'[d] = {}
             PROVE  fct'[day'] = Instances
  BY DEF BuiltAfterTransform
<1>1. CASE st["transform"] = "success" /\ day' = day
  <2>1. CASE fct' = fct
    BY <1>1, <2>1 DEF IInv, BuiltAfterTransform
  <2>2. CASE FullRefresh
    <3>1. raw[day] = Instances /\ st["offload"] # "running"
      BY <1>1, BehindTransform DEF LetGo
    <3>2. fct' = raw
      BY <2>2, <3>1, RefreshTypeOK DEF FullRefresh, IInv
    <3> QED
      BY <1>1, <3>1, <3>2
  <2> QED
    BY <1>1, <2>1, <2>2, Writers DEF IInv
<1>2. CASE Transform
  <2>1. BuildFct /\ day' = day
    BY <1>2 DEF Transform, Succeeds
  <2>2. \A e \in Days : fct[e] # {} => day >= e
    BY <2>1, BuildGrows DEF IInv, TypeOK, Days
  <2>3. Recomputed(day)
    BY <2>2 DEF Recomputed
  <2>4. raw[day] = Instances
    BY <1>2, BehindTransform DEF Transform, Succeeds, LetGo
  <2>5. fct'[day] = fct[day] \cup raw[day]
    BY <2>1, <2>3 DEF BuildFct, IInv, TypeOK
  <2> QED
    BY <2>1, <2>4, <2>5 DEF IInv, TypeOK
<1> QED
  BY <1>1, <1>2, Successes DEF IInv

\* Every step keeps the published day whole in the lake, also when an operator
\* publishes again.
LEMMA StepServedAfterPublish ==
  ASSUME IInv, [Next]_vars
  PROVE  ServedAfterPublish'
<1> SUFFICES ASSUME st'["publish"] = "success",
                    \A d \in Days : d > day' => lake'[d] = {}
             PROVE  lake'[day'] = Instances
  BY DEF ServedAfterPublish
<1>1. CASE st["publish"] = "success" /\ day' = day
  <2>1. st["transform"] = "success"
    BY <1>1, Wiring DEF IInv, Chain, LetGo, Tasks
  <2>2. CASE lake' = fct
    BY <1>1, <2>1, <2>2 DEF IInv, BuiltAfterTransform
  <2>3. CASE lake' = lake
    BY <1>1, <2>3 DEF IInv, ServedAfterPublish
  <2> QED
    BY <2>2, <2>3, Writers DEF IInv, PublishMarts, FullRefresh
<1>2. CASE Publish
  <2>1. lake' = fct /\ day' = day /\ st["transform"] = "success"
    BY <1>2, Wiring DEF Publish, PublishMarts, Succeeds, IInv, Chain, LetGo, Tasks
  <2> QED
    BY <2>1 DEF IInv, BuiltAfterTransform
<1> QED
  BY <1>1, <1>2, Successes DEF IInv

\* Every step keeps the dashboards below the facts but for what was dropped, and
\* takes no more than that off them.
LEMMA StepLakeWithinFacts ==
  ASSUME IInv, [Next]_vars
  PROVE  /\ LakeWithinFacts'
         /\ \A d \in Days : lake[d] \ lake'[d] \subseteq dropped[d]
<1>1. CASE UNCHANGED <<fct, lake, dropped>>
  BY <1>1 DEF IInv, LakeWithinFacts
<1>2. CASE BuildFct /\ UNCHANGED <<lake, dropped>>
  BY <1>2, BuildGrows DEF IInv, LakeWithinFacts
<1>3. CASE PublishMarts /\ fct' = fct
  BY <1>3 DEF IInv, LakeWithinFacts, PublishMarts
<1>4. CASE FullRefresh
  <2>1. lake' = lake
    BY <1>4 DEF FullRefresh
  <2>2. \A d \in Days : dropped'[d] = dropped[d] \cup (fct[d] \ fct'[d])
    BY <1>4 DEF FullRefresh
  <2> QED
    BY <2>1, <2>2 DEF IInv, LakeWithinFacts
<1> QED
  BY <1>1, <1>2, <1>3, <1>4, Writers DEF IInv

\* Every step keeps the invariant.
LEMMA StepIInv == ASSUME IInv, [Next]_vars PROVE IInv'
BY StepTypeOK, StepChain, StepWholeAfterGate, StepBuiltAfterTransform,
   StepServedAfterPublish, StepLakeWithinFacts DEF IInv

\* The invariant holds at all times.
THEOREM Invariance == Spec => []IInv
<1>1. Init => IInv
  BY InitIInv
<1>2. IInv /\ [Next]_vars => IInv'
  BY StepIInv
<1> QED
  BY <1>1, <1>2, PTL DEF Spec

\* Every variable keeps its type.
THEOREM TypeCorrect == Spec => []TypeOK
<1>1. IInv => TypeOK
  BY DEF IInv
<1> QED
  BY <1>1, Invariance, PTL

\* What the dashboards show of a day shrinks by a full refresh only, whatever
\* fails in between and whatever is published by hand.
THEOREM DashboardsKeepDays == Spec => OnlyRefreshShrinksDays
<1>1. IInv /\ [Next]_vars => [\A d \in Days : lake[d] \ lake'[d] \subseteq dropped[d]]_vars
  BY StepLakeWithinFacts
<1> QED
  BY <1>1, Invariance, PTL DEF Spec, OnlyRefreshShrinksDays

\* A run publishes nothing but with its day past the gate and whole still.
THEOREM PublishIsGated == Spec => PublishedOnlyByWholeDay
<1>1. IInv /\ [Next]_vars =>
        [Publish \/ (PublishFails /\ lake' # lake) =>
           raw[day] = Instances /\ st["quality_gate"] = "success"]_vars
  <2> SUFFICES ASSUME IInv, Publish \/ PublishFails
               PROVE  raw[day] = Instances /\ st["quality_gate"] = "success"
    OBVIOUS
  <2>1. st["publish"] = "running"
    BY DEF Publish, PublishFails, Succeeds, Fails
  <2>2. st["transform"] = "success"
    BY <2>1, Wiring DEF IInv, Chain, LetGo, Tasks
  <2> QED
    BY <2>2, BehindTransform DEF LetGo
<1> QED
  BY <1>1, Invariance, PTL DEF Spec, PublishedOnlyByWholeDay

\* A heartbeat means that the day is complete on the dashboards, unless they had
\* moved past it.
THEOREM HeartbeatIsServed == Spec => []HeartbeatMeansServed
<1>1. IInv => HeartbeatMeansServed
  <2> SUFFICES ASSUME IInv, st["heartbeat"] = "success",
                      \A d \in Days : d > day => lake[d] = {}
               PROVE  lake[day] = Instances
    BY DEF HeartbeatMeansServed
  <2>1. st["publish"] = "success"
    BY Wiring DEF IInv, Chain, LetGo, Tasks
  <2> QED
    BY <2>1 DEF IInv, ServedAfterPublish
<1> QED
  BY <1>1, Invariance, PTL
=============================================================================
