------------------------------- MODULE DayMarts -------------------------------
(***************************************************************************)
(* The verdict marts that read a history of days and look back over a      *)
(* window: mart_plan_regression and mart_config_impact over plan changes   *)
(* and latencies, mart_backup_rpo over backups, mart_capacity_forecast     *)
(* over sizes.  All are rebuilt every night from the whole history, so a   *)
(* mart is an operator of the history here, and a step of the system is a  *)
(* day that is appended to it.                                             *)
(*                                                                         *)
(* One instance and one query are modelled.  The marts read disjoint       *)
(* facts, so a behaviour has data for one topic only.                      *)
(***************************************************************************)
EXTENDS Integers, FiniteSetsExt

CONSTANTS
  LastDay,      \* bound: the last day
  Plans,        \* plan hashes
  Latencies,    \* bound: average latencies of a day, ms
  DayCalls,     \* calls of a day with calls
  Sizes,        \* bound: bytes of the instance
  PlanWindow,   \* plan_regress_window_days
  RegressRatio, \* regress_ratio, in hundredths
  MinCalls,     \* plan_regress_min_calls
  ChangeDay,    \* the day of a configuration change
  ImpactWindow, \* change_impact_window_days
  ImpactRatio,  \* change_impact_latency_ratio, in hundredths
  MaxGap,       \* backup_max_gap_days
  SizeWindow,   \* capacity_window_days
  MinSizeDays,  \* capacity_min_days
  Threshold     \* threshold_bytes of the instance

ASSUME MartBoundsOK ==
  /\ {LastDay, PlanWindow, RegressRatio, ImpactWindow, SizeWindow, MinSizeDays} \subseteq Nat \ {0}
  /\ {DayCalls, MinCalls, ChangeDay, ImpactRatio, MaxGap, Threshold} \subseteq Nat
  /\ Latencies \subseteq Nat /\ Sizes \subseteq Nat
  /\ MinSizeDays >= 2

None    == -1           \* NULL, or no row
History == 0..LastDay

VARIABLES
  topic,   \* the facts that have data
  today,   \* the number of days in the history
  plan,    \* plan[d]: fct of day d: the representative plan, or None
  ms,      \* ms[d]: avg_latency_ms of the query, None on a day without calls
  seen,    \* days with rows in fct_query_daily
  backup,  \* days with a successful run in fct_backup_daily
  size     \* size[d]: total_bytes, or None

martVars == <<topic, today, plan, ms, seen, backup, size>>

MartTypeOK ==
  /\ topic \in {"plan", "backup", "size"}
  /\ today \in 0..LastDay + 1
  /\ plan \in [History -> Plans \cup {"none"}]
  /\ ms \in [History -> Latencies \cup {None}]
  /\ seen \subseteq History
  /\ backup \subseteq History
  /\ size \in [History -> Sizes \cup {None}]

MartInit ==
  /\ topic \in {"plan", "backup", "size"}
  /\ today = 0
  /\ plan = [d \in History |-> "none"]
  /\ ms = [d \in History |-> None]
  /\ seen = {} /\ backup = {}
  /\ size = [d \in History |-> None]

-----------------------------------------------------------------------------
(* The days that the nightly runs append.                                    *)

PlanDay ==
  /\ topic = "plan"
  /\ \E p \in Plans \cup {"none"} : plan' = [plan EXCEPT ![today] = p]
  /\ \E x \in Latencies \cup {None} : ms' = [ms EXCEPT ![today] = x]
  /\ UNCHANGED <<seen, backup, size>>

\* A day may have a backup and no query rows: its own branch of the run failed.
BackupDay ==
  /\ topic = "backup"
  /\ seen' \in {seen, seen \cup {today}}
  /\ backup' \in {backup, backup \cup {today}}
  /\ UNCHANGED <<plan, ms, size>>

SizeDay ==
  /\ topic = "size"
  /\ \E b \in Sizes \cup {None} : size' = [size EXCEPT ![today] = b]
  /\ UNCHANGED <<plan, ms, seen, backup>>

NextDay ==
  /\ today \in History
  /\ PlanDay \/ BackupDay \/ SizeDay
  /\ today' = today + 1
  /\ UNCHANGED topic

MartSpec == MartInit /\ [][NextDay]_martVars

-----------------------------------------------------------------------------
(* Arithmetic: ratios and slopes are rounded to hundredths before they are   *)
(* compared.                                                                 *)

Hundredths(n, m) == (200 * n + m) \div (2 * m)   \* round(n / m, 2), n >= 0 < m

SumOf(f, D) == MapThenSumSet(LAMBDA d : f[d], D)

MsSum(D) == SumOf(ms, D)

\* Mutant: a day without calls counts as a day of latency 0.
RatioOfAllDays(A, B) ==
  LET Sum(D) == MapThenSumSet(LAMBDA d : IF ms[d] = None THEN 0 ELSE ms[d], D)
  IN IF A = {} \/ B = {} \/ Sum(B) = 0 THEN None
     ELSE Hundredths(Sum(A) * Cardinality(B), Sum(B) * Cardinality(A))

\* round(avg over A / avg over B, 2), None when one of them is NULL or B's is 0.
Ratio(A, B) ==
  LET a == {d \in A : ms[d] # None}
      b == {d \in B : ms[d] # None}
  IN IF a = {} \/ b = {} \/ MsSum(b) = 0 THEN None
     ELSE Hundredths(MsSum(a) * Cardinality(b), MsSum(b) * Cardinality(a))

-----------------------------------------------------------------------------
(* mart_plan_regression.                                                     *)

\* flips: the plan differs from that of the last day that has one.
Flips ==
  {d \in History : plan[d] # "none" /\
     LET P == {e \in 0..d - 1 : plan[e] # "none"}
     IN P # {} /\ plan[Max(P)] # plan[d]}

Observed(D) == {d \in D \cap History : ms[d] # None}
Before(f, n) == f - n..f - 1
After(f, n)  == f + 1..f + n

\* Mutant: the window after the flip is one day longer than what is judged.
CloseToAnother(f) == \E g \in Flips \ {f} : g - f \in -PlanWindow..PlanWindow + 1

\* window_contaminated: another flip within the window on either side.
Contaminated(f) == \E g \in Flips \ {f} : g - f \in -PlanWindow..PlanWindow

PlanVerdict(f) ==
  LET A     == Observed(After(f, PlanWindow))
      B     == Observed(Before(f, PlanWindow))
      ratio == Ratio(After(f, PlanWindow) \cap History, Before(f, PlanWindow) \cap History)
      calls == DayCalls * Cardinality(A)
  IN CASE A = {} \/ B = {} -> "PENDING"
       [] A # {} /\ B # {} /\ Contaminated(f) -> "AMBIGUOUS"
       [] OTHER ->
            IF calls < MinCalls \/ ratio = None THEN "NEUTRAL"
            ELSE IF ratio >= RegressRatio THEN "REGRESSED"
            ELSE IF ratio <= Hundredths(100, RegressRatio) THEN "IMPROVED"
            ELSE "NEUTRAL"

(* mart_config_impact, its plan and latency axes. *)

FlipsAfterChange == {f \in Flips : f \in ChangeDay..ChangeDay + ImpactWindow}

Impact ==
  LET ratio == Ratio(After(ChangeDay, ImpactWindow) \cap History,
                     Before(ChangeDay, ImpactWindow) \cap History)
  IN IF \E f \in FlipsAfterChange : PlanVerdict(f) = "REGRESSED"
       THEN "followed_by_regression"
     ELSE IF FlipsAfterChange # {} THEN "followed_by_plan_flip"
     ELSE IF ratio # None /\ ratio >= ImpactRatio THEN "followed_by_latency_rise"
     ELSE "no_signal"

-----------------------------------------------------------------------------
(* mart_backup_rpo.                                                          *)

\* Mutant: the anchor is the newest day of the history (the wall clock).
WallClock == today - 1

\* as_of_dt: the newest day of fct_query_daily.
Anchor == Max(seen)

BackupStatus ==
  CASE seen = {}                   -> "no_row"
    [] seen # {} /\ backup = {}     -> "no_backup_observed"
    [] seen # {} /\ backup # {}     ->
         IF Anchor - Max(backup) > MaxGap THEN "breach" ELSE "ok"

-----------------------------------------------------------------------------
(* mart_capacity_forecast.                                                   *)

SizeDays == {d \in History : size[d] # None}
Recent   == {d \in SizeDays : d >= Max(SizeDays) - SizeWindow}
Current  == size[Max(SizeDays)]

\* regr_slope over the recent days in hundredths of a byte per day; 0 stands
\* for every slope that is not positive.
Slope ==
  LET n   == Cardinality(Recent)
      x   == [d \in Recent |-> d]
      xx  == [d \in Recent |-> d * d]
      xy  == [d \in Recent |-> d * size[d]]
      num == n * SumOf(xy, Recent) - SumOf(x, Recent) * SumOf(size, Recent)
      den == n * SumOf(xx, Recent) - SumOf(x, Recent) * SumOf(x, Recent)
  IN IF num <= 0 THEN 0 ELSE Hundredths(num, den)

Learning == Cardinality(Recent) < MinSizeDays

\* Mutant: the days are counted from the first size of the window.
DaysFromStart ==
  IF Learning \/ Slope = 0 \/ Threshold <= Current THEN None
  ELSE ((Threshold - size[Min(Recent)]) * 100) \div Slope

DaysToThreshold ==
  IF Learning \/ Slope = 0 \/ Threshold <= Current THEN None
  ELSE ((Threshold - Current) * 100) \div Slope

RiskFlag ==
  IF Learning THEN "learning"
  ELSE IF Slope = 0 THEN "stable_or_shrinking"
  ELSE IF (Threshold - Current) * 100 <= 30 * Slope THEN "d30"
  ELSE IF (Threshold - Current) * 100 <= 90 * Slope THEN "d90"
  ELSE "ok"

-----------------------------------------------------------------------------
(* Properties.                                                               *)

\* A verdict on a plan change is final when its window has passed: no later
\* flip and no later day changes what operators have acted on.  The cause that a
\* configuration change is charged with settles when the window of the last flip
\* that counts has passed, not with its own.
VerdictsBecomeFinal ==
  [][/\ \A f \in Flips : today > f + PlanWindow => PlanVerdict(f)' = PlanVerdict(f)
     /\ today > ChangeDay + ImpactWindow + PlanWindow => Impact' = Impact]_martVars

\* A query that is slower on every day after the flip than on any day before it
\* is never reported as improved, nor the opposite as regressed; days without
\* calls say nothing either way.
SlowerIsNotImproved ==
  \A f \in Flips :
    LET A == Observed(After(f, PlanWindow))
        B == Observed(Before(f, PlanWindow))
    IN /\ (\A a \in A, b \in B : ms[a] >= ms[b]) => PlanVerdict(f) # "IMPROVED"
       /\ (\A a \in A, b \in B : ms[a] <= ms[b]) => PlanVerdict(f) # "REGRESSED"

\* A pipeline that brings no query rows does not turn a backup into a breach,
\* and a breach ends only with a new backup, not by the mere passing of days.
BackupIsNotThePipeline ==
  [][/\ seen' = seen /\ BackupStatus = "ok" => BackupStatus' = "ok"
     /\ BackupStatus = "breach" /\ BackupStatus' = "ok" => backup' # backup]_martVars

\* The flag and the number of days beside it are computed apart and must tell
\* the same: days are shown for a growing instance below its threshold, and
\* they fall into the range of the flag; one that has grown day by day is not
\* called stable.
FlagMatchesDays ==
  topic = "size" /\ SizeDays # {} =>
    /\ DaysToThreshold # None => RiskFlag \in {"d30", "d90", "ok"}
    /\ RiskFlag = "d30" => DaysToThreshold \in 0..30 \/ Threshold <= Current
    /\ RiskFlag = "d90" => DaysToThreshold \in 30..90
    /\ RiskFlag = "ok"  => DaysToThreshold >= 90
    /\ RiskFlag = "stable_or_shrinking" => ~(\A d, e \in Recent : d < e => size[d] < size[e])
=============================================================================
