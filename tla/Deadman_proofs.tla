---------------------------- MODULE Deadman_proofs ----------------------------
(***************************************************************************)
(* Theorems about Deadman, for every period, deadline and number of        *)
(* retries that ClockOK allows: its types, that an alarm has a cause and   *)
(* that no silent hour goes by unreported.                                 *)
(***************************************************************************)
EXTENDS Deadman, TLAPS

\* The record is too old to be healthy.
Silent == age = Never \/ age > Deadline

\* As long as every day's run made it within the grace, the record is from
\* today once the grace is over, and from yesterday or today before.
RecentUnlessMissed ==
  ~missed => /\ age # Never
             /\ age <= IF hour < Grace THEN hour + Period ELSE hour

\* A check that is under way knows the record, unless a success came after.
ReadIsCurrent ==
  \A w \in Watchers : watch[w] = "read" => saw[w] = age \/ age = 0

\* A check that has ended by itself in a silent hour has reported it.
DoneHasSaid ==
  \A w \in whole : watch[w] = "done" /\ Says(w) /\ Silent => said

IInv == TypeOK /\ RecentUnlessMissed /\ ReadIsCurrent /\ DoneHasSaid

-----------------------------------------------------------------------------

\* The clock's constants: a deadline is a period and its grace.
LEMMA ClockFacts ==
  /\ Period \in Nat /\ Period > 0 /\ Deadline \in Nat /\ Retries \in Nat
  /\ Grace \in Nat /\ Grace > 0 /\ Grace <= Period /\ Deadline = Grace + Period
  /\ Oldest \in Nat /\ Oldest = Deadline + 1
BY ClockOK DEF Grace, Oldest

\* What an age can be.
LEMMA AgeFacts ==
  /\ 0 \in Ages /\ Never \in Ages /\ Never \notin Nat
  /\ \A a \in Ages : a = Never \/ (a \in Nat /\ a <= Oldest)
BY ClockFacts DEF Ages, Never

\* Without a missed day the record is below the deadline.
LEMMA RecentIsHealthy ==
  ASSUME TypeOK, RecentUnlessMissed, ~missed
  PROVE  age \in Nat /\ age < Deadline
<1>1. age \in Nat /\ hour \in Nat /\ hour < Period
  BY ClockFacts DEF TypeOK, RecentUnlessMissed, Ages, Never
<1>2. age <= IF hour < Grace THEN hour + Period ELSE hour
  BY DEF RecentUnlessMissed
<1> QED
  BY <1>1, <1>2, ClockFacts

\* An age that is not too old cannot be judged stale, and the other way round.
LEMMA VerdictFacts ==
  ASSUME NEW a \in Ages
  PROVE  /\ TRUE \in Verdicts(a) => a = Never \/ a >= Deadline
         /\ FALSE \in Verdicts(a) => a # Never /\ a <= Deadline
<1>1. Deadline \in Int /\ a \in Int /\ Deadline # Never
  BY ClockFacts, AgeFacts DEF Never
<1>2. CASE a = Deadline
  <2>1. a # Never /\ a >= Deadline /\ a <= Deadline
    BY <1>1, <1>2
  <2> QED
    BY <2>1
<1>3. CASE a # Deadline
  <2>1. Verdicts(a) = {Stale(a)}
    BY <1>3 DEF Verdicts
  <2>2. CASE Stale(a)
    <3>1. FALSE \notin Verdicts(a)
      BY <2>1, <2>2, Zenon
    <3>2. a = Never \/ a >= Deadline
      BY <2>2, <1>1 DEF Stale
    <3> QED
      BY <3>1, <3>2, Zenon
  <2>3. CASE ~Stale(a)
    <3>1. TRUE \notin Verdicts(a)
      BY <2>1, <2>3, Zenon DEF Stale
    <3>2. a # Never /\ a <= Deadline
      BY <2>3, <1>1 DEF Stale
    <3> QED
      BY <3>1, <3>2, Zenon
  <2> QED
    BY <2>2, <2>3
<1> QED
  BY <1>2, <1>3

-----------------------------------------------------------------------------

\* At first there is no record, and a day's run is missed.
LEMMA InitIInv == Init => IInv
<1>1. Init => TypeOK
  <2>1. 0 \in 0..Period - 1 /\ 0 \in 0..Retries
    BY ClockFacts
  <2>2. /\ [w \in Watchers |-> "due"] \in [Watchers -> {"due", "read", "done"}]
        /\ [w \in Watchers |-> Never] \in [Watchers -> Ages]
    BY AgeFacts
  <2> QED
    BY <2>1, <2>2, AgeFacts, Zenon DEF Init, TypeOK
<1>2. Init => RecentUnlessMissed /\ ReadIsCurrent /\ DoneHasSaid
  BY DEF Init, RecentUnlessMissed, ReadIsCurrent, DoneHasSaid
<1> QED
  BY <1>1, <1>2 DEF IInv

\* The hour passes: every check starts anew, and the first hour after the
\* grace without today's success is where a day is missed.
LEMMA TickKeeps == ASSUME IInv, Tick PROVE IInv'
<1>1. /\ hour' = (hour + 1) % Period /\ age' = Older
      /\ watch' = [w \in Watchers |-> IF w = "cron" /\ ~host THEN "done" ELSE "due"]
      /\ whole' = {w \in Watchers : Alive(w)} /\ saw' = [w \in Watchers |-> Never]
      /\ tries' = 0 /\ said' = FALSE /\ missed' = (missed \/ Late)
      /\ UNCHANGED <<wired, up, host, heard>>
  BY DEF Tick
<1>2. hour \in Nat /\ hour < Period /\ age \in Ages /\ missed \in BOOLEAN
  BY ClockFacts DEF IInv, TypeOK
<1>3. hour' = IF hour + 1 = Period THEN 0 ELSE hour + 1
  BY <1>1, <1>2, ClockFacts
<1>4. age' \in Ages /\ (age \in Nat /\ age < Deadline => age' = age + 1)
  BY <1>1, <1>2, ClockFacts DEF Older, Ages, Never
<1>5. TypeOK'
  <2>1. hour' \in 0..Period - 1
    BY <1>2, <1>3, ClockFacts
  <2>2. missed' \in BOOLEAN
    BY <1>1, <1>2 DEF Late
  <2>3. tries' \in 0..Retries
    BY <1>1, ClockFacts
  <2>4. /\ watch' \in [Watchers -> {"due", "read", "done"}] /\ saw' \in [Watchers -> Ages]
        /\ whole' \subseteq Watchers
    BY <1>1, AgeFacts
  <2> QED
    BY <1>1, <1>4, <2>1, <2>2, <2>3, <2>4, Zenon DEF IInv, TypeOK
<1>6. RecentUnlessMissed'
  <2> SUFFICES ASSUME ~missed, ~Late
               PROVE  /\ age' # Never
                      /\ age' <= IF hour' < Grace THEN hour' + Period ELSE hour'
    BY <1>1 DEF RecentUnlessMissed
  <2>1. age \in Nat /\ age < Deadline
    BY RecentIsHealthy DEF IInv
  <2>2. age' = age + 1 /\ age' # Never
    BY <1>4, <2>1 DEF Never
  <2>3. age <= IF hour < Grace THEN hour + Period ELSE hour
    BY DEF IInv, RecentUnlessMissed
  <2>4. hour + 1 = Grace => age + 1 <= hour + 1
    BY <1>1, <1>2, <2>1, <2>2 DEF Late
  <2> QED
    BY <1>2, <1>3, <2>1, <2>2, <2>3, <2>4, ClockFacts
<1>7. ReadIsCurrent' /\ DoneHasSaid'
  BY <1>1 DEF ReadIsCurrent, DoneHasSaid, Alive, Watchers
<1> QED
  BY <1>5, <1>6, <1>7 DEF IInv

\* A success makes the record healthy, whatever a check has read of it.
LEMMA BeatKeeps == ASSUME IInv, Beat PROVE IInv'
<1>1. age' = 0 /\ heard' = FALSE /\ missed' = FALSE
      /\ UNCHANGED <<hour, wired, up, host, whole, watch, saw, tries, said>>
  BY DEF Beat, WriteHeartbeat, checks
<1>2. hour \in Nat
  BY ClockFacts DEF IInv, TypeOK
<1>3. TypeOK'
  BY <1>1, AgeFacts DEF IInv, TypeOK
<1>4. RecentUnlessMissed'
  BY <1>1, <1>2, ClockFacts DEF RecentUnlessMissed, Never
<1>5. ReadIsCurrent' /\ DoneHasSaid'
  BY <1>1, ClockFacts DEF ReadIsCurrent, DoneHasSaid, Says, Silent, Never
<1> QED
  BY <1>3, <1>4, <1>5 DEF IInv

\* Dead schedulers and hosts, hung checks and paused DAGs keep it: who is kept
\* from its check answers for this hour no more.
LEMMA OutagesKeep == ASSUME IInv, Outages PROVE IInv'
<1>1. UNCHANGED <<hour, age, wired, tries, said, heard, missed>>
  BY DEF Outages, SchedulerDies, SchedulerStarts, HostDies, HostStarts, CronHangs, checks
<1>2. \/ UNCHANGED checks
      \/ \E w \in Watchers, then \in {"due", "done"} : Kept(w, then)
  BY DEF Outages, SchedulerDies, SchedulerStarts, HostDies, HostStarts, CronHangs, Watchers
<1>3. up' \in BOOLEAN /\ host' \in BOOLEAN
  BY DEF IInv, TypeOK, Outages, SchedulerDies, SchedulerStarts, HostDies, HostStarts, CronHangs
<1>4. CASE UNCHANGED checks
  BY <1>1, <1>3, <1>4 DEF checks, IInv, TypeOK, RecentUnlessMissed, ReadIsCurrent, DoneHasSaid,
                          Says, Silent
<1>5. ASSUME NEW w \in Watchers, NEW then \in {"due", "done"}, Kept(w, then)
      PROVE  IInv'
  <2>1. /\ watch' \in [Watchers -> {"due", "read", "done"}] /\ saw' \in [Watchers -> Ages]
        /\ whole' = whole \ {w}
        /\ watch'[w] # "read"
        /\ \A v \in Watchers : v # w => watch'[v] = watch[v] /\ saw'[v] = saw[v]
    BY <1>5, AgeFacts DEF Kept, IInv, TypeOK
  <2>2. TypeOK'
    BY <1>1, <1>3, <2>1 DEF IInv, TypeOK
  <2> QED
    BY <1>1, <2>1, <2>2 DEF IInv, TypeOK, RecentUnlessMissed, ReadIsCurrent, DoneHasSaid, Says,
                            Silent
<1> QED
  BY <1>2, <1>4, <1>5

\* So does each step of a watcher's check.
LEMMA CheckKeeps == ASSUME IInv, NEW w \in Watchers, Check(w) PROVE IInv'
<1>1. UNCHANGED <<hour, age, wired, up, host, whole, missed>>
  BY DEF Check, ReadHeartbeats, Judge, JudgeHealthy, JudgeStale, CheckFails
<1>2. saw[w] \in Ages
  BY DEF IInv, TypeOK
<1>3. TypeOK'
  <2>1. CASE ReadHeartbeats(w)
    BY <2>1 DEF ReadHeartbeats, IInv, TypeOK
  <2>2. CASE Judge(w)
    <3>1. said' \in BOOLEAN /\ heard' \in BOOLEAN
      <4>1. said \in BOOLEAN /\ heard \in BOOLEAN
        BY DEF IInv, TypeOK
      <4> QED
        BY <2>2, <4>1, Zenon DEF Judge, JudgeHealthy, JudgeStale, Says
    <3>2. Ends(w) /\ tries' = tries
      BY <2>2 DEF Judge, JudgeHealthy, JudgeStale
    <3> QED
      BY <1>1, <3>1, <3>2, AgeFacts DEF Ends, IInv, TypeOK
  <2>3. CASE CheckFails(w)
    <3>1. tries' \in 0..Retries
      <4>1. tries \in 0..Retries
        BY DEF IInv, TypeOK
      <4>2. tries' = tries \/ (tries < Retries /\ tries' = tries + 1)
        BY <2>3 DEF CheckFails
      <4> QED
        BY <4>1, <4>2, ClockFacts
    <3>2. said' \in BOOLEAN /\ heard' = heard
      <4>1. said \in BOOLEAN
        BY DEF IInv, TypeOK
      <4> QED
        BY <2>3, <4>1, Zenon DEF CheckFails, Says
    <3>3. Ends(w) \/ UNCHANGED <<watch, saw>>
      BY <2>3 DEF CheckFails
    <3> QED
      BY <1>1, <3>1, <3>2, <3>3, AgeFacts DEF Ends, IInv, TypeOK
  <2> QED
    BY <2>1, <2>2, <2>3 DEF Check
<1>4. RecentUnlessMissed'
  BY <1>1 DEF IInv, RecentUnlessMissed
<1>5. ReadIsCurrent'
  BY <1>1 DEF Check, ReadHeartbeats, Judge, JudgeHealthy, JudgeStale, CheckFails, Ends, IInv,
              TypeOK, ReadIsCurrent
<1>6. DoneHasSaid'
  <2>1. whole' = whole /\ wired' = wired /\ age' = age /\ whole \subseteq Watchers
    BY <1>1 DEF IInv, TypeOK
  <2>2. said => said'
    BY DEF Check, ReadHeartbeats, Judge, JudgeHealthy, JudgeStale, CheckFails
  <2>3. \A v \in Watchers : v # w => watch'[v] = watch[v]
    BY DEF Check, ReadHeartbeats, Judge, JudgeHealthy, JudgeStale, CheckFails, Ends, IInv, TypeOK
  <2>4. ASSUME watch'[w] = "done", Says(w), Silent PROVE said'
    <3>1. CASE JudgeHealthy(w)
      <4>1. saw[w] # Never /\ saw[w] <= Deadline /\ (saw[w] = age \/ age = 0)
        BY <1>2, <3>1, VerdictFacts DEF JudgeHealthy, IInv, ReadIsCurrent
      <4> QED
        BY <1>2, <2>4, <4>1, ClockFacts DEF Silent, Ages, Never
    <3>2. CASE JudgeStale(w, TRUE) \/ JudgeStale(w, FALSE)
      BY <2>4, <3>2 DEF JudgeStale
    <3>3. CASE ReadHeartbeats(w)
      BY <2>4, <3>3 DEF ReadHeartbeats, IInv, TypeOK
    <3>4. CASE CheckFails(w)
      BY <2>4, <3>4 DEF CheckFails
    <3> QED
      BY <3>1, <3>2, <3>3, <3>4 DEF Check, Judge
  <2> QED
    BY <2>1, <2>2, <2>3, <2>4 DEF IInv, DoneHasSaid, Says, Silent
<1> QED
  BY <1>3, <1>4, <1>5, <1>6 DEF IInv

\* Every step keeps the invariant.
LEMMA StepIInv == ASSUME IInv, [Next]_vars PROVE IInv'
<1>1. CASE UNCHANGED vars
  BY <1>1 DEF vars, checks, IInv, TypeOK, RecentUnlessMissed, ReadIsCurrent, DoneHasSaid, Says,
              Silent
<1> QED
  BY <1>1, TickKeeps, BeatKeeps, OutagesKeep, CheckKeeps DEF Next

\* The invariant holds at all times.
LEMMA Invariance == Spec => []IInv
<1>1. IInv /\ [Next]_vars => IInv'
  BY StepIInv
<1> QED
  BY <1>1, InitIInv, PTL DEF Spec

\* Every variable keeps its type: hours and ages stay within their bounds, and
\* no more attempts are counted than the DAG has retries.
THEOREM TypeCorrect == Spec => []TypeOK
<1>1. IInv => TypeOK
  BY DEF IInv
<1> QED
  BY <1>1, Invariance, PTL

\* No false alarm, for any period and deadline up to two periods: a watcher
\* cries only after a day without a run in time, or when the success came
\* between its read of pipeline_heartbeat and its verdict (check_stale).
THEOREM AlarmsHaveCauses == Spec => AlarmHasCause
<1>1. IInv /\ [Next]_vars =>
        [\A w \in Watchers, d \in BOOLEAN : JudgeStale(w, d) => missed \/ age = 0]_vars
  <2> SUFFICES ASSUME IInv, NEW w \in Watchers, NEW d \in BOOLEAN, JudgeStale(w, d), ~missed
               PROVE  age = 0
    OBVIOUS
  <2>1. saw[w] \in Ages /\ (saw[w] = age \/ age = 0)
    BY DEF JudgeStale, IInv, TypeOK, ReadIsCurrent
  <2>2. saw[w] = Never \/ saw[w] >= Deadline
    BY <2>1, VerdictFacts DEF JudgeStale
  <2>3. age \in Nat /\ age < Deadline
    BY RecentIsHealthy DEF IInv
  <2> QED
    BY <2>1, <2>2, <2>3, ClockFacts DEF Never
<1> QED
  BY <1>1, Invariance, PTL DEF Spec, AlarmHasCause

\* No silent hour ends unreported when the cron's check was not kept from its end,
\* or when that of Airflow was not and has a webhook, whatever fails and is tried
\* again in it (deadman_watch's retries and failure callback, the cron's exit
\* code, post_webhook).
THEOREM SilentHoursAreReported == Spec => SilentHourIsReported
<1>1. IInv /\ [Next]_vars =>
        [hour' # hour /\ (\E w \in whole : Says(w)) /\ (age = Never \/ age > Deadline)
           => said]_vars
  <2> SUFFICES ASSUME IInv, [Next]_vars, hour' # hour, NEW w \in whole, Says(w),
                      age = Never \/ age > Deadline
               PROVE  said
    OBVIOUS
  <2>1. Tick
    BY DEF Next, vars, Beat, Outages, SchedulerDies, SchedulerStarts, HostDies, HostStarts,
           CronHangs, Check, ReadHeartbeats, Judge, JudgeHealthy, JudgeStale, CheckFails
  <2>2. watch[w] = "done"
    BY <2>1 DEF Tick
  <2> QED
    BY <2>2 DEF IInv, DoneHasSaid, Silent
<1> QED
  BY <1>1, Invariance, PTL DEF Spec, SilentHourIsReported
=============================================================================
