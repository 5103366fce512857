---------------------------- MODULE CounterFacts ----------------------------
(***************************************************************************)
(* From cumulative counters to what happened: the staging view and the     *)
(* facts that difference the two ends of a day or of an hour, and the      *)
(* verdict on unused indexes that sums the days.                           *)
(*                                                                         *)
(* A monitored database counts the calls of a query and the scans of an    *)
(* index from its start on; the collector samples the counters; a restart  *)
(* loses them.  Series stands for both: as queries, all series share one   *)
(* fingerprint (stg_query_snapshot); as indexes, each is an index of its   *)
(* own.  What really happened is kept beside the samples (calls), so that  *)
(* the facts can be held against it.                                       *)
(***************************************************************************)
EXTENDS Integers, FiniteSetsExt

CONSTANTS
  Series,       \* counters: queries of one fingerprint, or indexes
  Unique,       \* the series that are unique indexes
  NDays,        \* bound: days
  HoursPerDay,  \* bound: hours of a day
  PerHour,      \* bound: samples of an hour
  MaxCalls,     \* bound: calls in all
  MaxRestarts,  \* bound: restarts in all
  MaxGaps,      \* bound: samples in which a series is missing
  WindowDays,   \* index_verdict_window_days
  MinObsDays    \* index_verdict_min_obs_days

ASSUME BoundsOK ==
  /\ IsFiniteSet(Series) /\ Series # {} /\ Unique \subseteq Series
  /\ {NDays, HoursPerDay, PerHour, WindowDays} \subseteq Nat \ {0}
  /\ {MaxCalls, MaxRestarts, MaxGaps, MinObsDays} \subseteq Nat

PerDay == HoursPerDay * PerHour
Slots  == 0..NDays * PerDay - 1
Days   == 0..NDays - 1
Hours  == 0..HoursPerDay - 1

SlotsOfDay  == [d \in Days |-> {t \in Slots : t \div PerDay = d}]
SlotsOfHour ==
  [k \in Days \X Hours |-> {t \in SlotsOfDay[k[1]] : (t % PerDay) \div PerHour = k[2]}]

VARIABLES
  now,       \* the next sample
  count,     \* count[s]: the counter of s in the monitored database
  snap,      \* snap[t]: the counters that sample t reports
  calls,     \* calls[s][t]: calls of s between the samples t - 1 and t
  restarts,  \* slots whose sample follows a restart
  built,     \* closed days that a nightly run has transformed
  daily,     \* fct_query_daily: day -> delta_calls
  hourly,    \* fct_query_hourly: <<day, hour>> -> delta_calls
  scans      \* fct_index_daily: <<index, day>> -> delta_scans

facts == <<built, daily, hourly, scans>>
vars  == <<now, count, snap, calls, restarts, facts>>

\* A table with rows for some of the keys K; no delta is negative.
IsTable(f, K) == DOMAIN f \subseteq K /\ \A k \in DOMAIN f : f[k] \in 0..MaxCalls

TypeOK ==
  /\ now \in 0..NDays * PerDay
  /\ count \in [Series -> 0..MaxCalls]
  /\ \A t \in Slots : IsTable(snap[t], Series)
  /\ calls \in [Series -> [Slots -> 0..MaxCalls]]
  /\ restarts \subseteq Slots
  /\ built \subseteq Days
  /\ IsTable(daily, Days)
  /\ IsTable(hourly, Days \X Hours)
  /\ IsTable(scans, Series \X Days)

Nothing == [x \in {} |-> 0]

Init ==
  /\ now = 0
  /\ count = [s \in Series |-> 0]
  /\ snap = [t \in Slots |-> Nothing]
  /\ calls = [s \in Series |-> [t \in Slots |-> 0]]
  /\ restarts = {}
  /\ built = {}
  /\ daily = Nothing /\ hourly = Nothing /\ scans = Nothing

Total(s, T) == MapThenSumSet(LAMBDA t : calls[s][t], T)
AllCalls(T) == MapThenSumSet(LAMBDA s : Total(s, T), Series)
Gaps == MapThenSumSet(LAMBDA t : Cardinality(Series \ DOMAIN snap[t]), 0..now - 1)

-----------------------------------------------------------------------------
(* The monitored database and its collector, outside this repository.        *)

Call(s) ==
  /\ now \in Slots
  /\ AllCalls(0..now) < MaxCalls
  /\ count' = [count EXCEPT ![s] = @ + 1]
  /\ calls' = [calls EXCEPT ![s][now] = @ + 1]
  /\ UNCHANGED <<now, snap, restarts, facts>>

Restart ==
  /\ now \in Slots \ restarts
  /\ Cardinality(restarts) < MaxRestarts
  /\ count' = [s \in Series |-> 0]
  /\ restarts' = restarts \cup {now}
  /\ UNCHANGED <<now, snap, calls, facts>>

\* The days the archive has.
Closed == {d \in Days : Max(SlotsOfDay[d]) < now}

\* A sample reports the series it happens to see (the collector takes the top
\* of the list; a query may drop out and reappear).  The night's run is over
\* before the first sample of the day: what comes later is not in its archive.
Sample ==
  /\ now \in Slots
  /\ Closed \subseteq built
  /\ \E R \in SUBSET Series :
       /\ Gaps + Cardinality(Series \ R) <= MaxGaps
       /\ snap' = [snap EXCEPT ![now] = [s \in R |-> count[s]]]
  /\ now' = now + 1
  /\ UNCHANGED <<count, calls, restarts, facts>>

-----------------------------------------------------------------------------
(* Staging and facts.                                                        *)

\* Mutant: the difference as it is.
Unclamped(n) == n

\* The greatest(0, ..) against a counter that was reset in between.
Clamped(n) == IF n > 0 THEN n ELSE 0

\* stg_query_snapshot: one row per sample, colliding series added up.
Folded(t) == MapThenSumSet(LAMBDA s : snap[t][s], DOMAIN snap[t])
FoldedRows(T) == {t \in T : DOMAIN snap[t] # {}}

\* Mutant: the sum of the positive steps.
DeltaBySteps(T) ==
  MapThenSumSet(LAMBDA t : Clamped(Folded(t) - Folded(Max({u \in T : u < t}))),
                T \ {Min(T)})

\* The last sample of a day or an hour against the first.
Delta(T) == Clamped(Folded(Max(T)) - Folded(Min(T)))

IndexRows(s, d) == {t \in SlotsOfDay[d] : s \in DOMAIN snap[t]}

\* Mutant: both ends are ordered the same way.
IndexDeltaOfLast(s, T) == Clamped(snap[Max(T)][s] - snap[Max(T)][s])

IndexDelta(s, T) == Clamped(snap[Max(T)][s] - snap[Min(T)][s])

\* The watermark of the incremental models: dt >= max(dt) of the table.
From(D) == {d \in Closed : \A e \in D : d >= e}

\* The rows the night's run inserts into each of the tables.
Daily ==
  LET rows == {d \in From(DOMAIN daily) : FoldedRows(SlotsOfDay[d]) # {}}
  IN [d \in rows |-> Delta(FoldedRows(SlotsOfDay[d]))]

\* Mutant: an hour is taken from the last sample before it (lag).
HourlyByLag ==
  LET new    == From({k[1] : k \in DOMAIN hourly})
      rows   == {k \in new \X Hours : FoldedRows(SlotsOfHour[k]) # {}}
      Lag(k) == {t \in FoldedRows(Slots) : t = Min(SlotsOfHour[k]) - 1}
  IN [k \in rows |-> Delta(Lag(k) \cup FoldedRows(SlotsOfHour[k]))]

Hourly ==
  LET new  == From({k[1] : k \in DOMAIN hourly})
      rows == {k \in new \X Hours : FoldedRows(SlotsOfHour[k]) # {}}
  IN [k \in rows |-> Delta(FoldedRows(SlotsOfHour[k]))]

Scans ==
  LET new  == From({k[2] : k \in DOMAIN scans})
      rows == {k \in Series \X new : IndexRows(k[1], k[2]) # {}}
  IN [k \in rows |-> IndexDelta(k[1], IndexRows(k[1], k[2]))]

\* delete+insert: the rows of the keys that are recomputed are replaced.
Upserted(new, old) ==
  [k \in DOMAIN new \cup DOMAIN old |-> IF k \in DOMAIN new THEN new[k] ELSE old[k]]

\* dbt run.
Transform ==
  /\ Closed # built
  /\ built' = Closed
  /\ daily' = Upserted(Daily, daily)
  /\ hourly' = Upserted(Hourly, hourly)
  /\ scans' = Upserted(Scans, scans)
  /\ UNCHANGED <<now, count, snap, calls, restarts>>

Next == Restart \/ Sample \/ Transform \/ \E s \in Series : Call(s)

Spec == Init /\ [][Next]_vars

-----------------------------------------------------------------------------
(* mart_index_verdict.                                                       *)

IndexDays(s) == {k[2] : k \in {j \in DOMAIN scans : j[1] = s}}

\* The window ends with the last day of any index.
AsOf == Max({k[2] : k \in DOMAIN scans})

InWindow(s) == {d \in IndexDays(s) : d > AsOf - WindowDays}

\* "no_row" for an index that the window does not have.
Verdict(s) ==
  LET D    == InWindow(s)
      used == \E d \in D : scans[<<s, d>>] > 0
  IN CASE D = {}                                 -> "no_row"
       [] used                                   -> "in_use"
       [] D # {} /\ ~used /\ s \in Unique         -> "constraint_backed"
       [] D # {} /\ ~used /\ s \notin Unique
            /\ Max(D) - Min(D) < MinObsDays       -> "insufficient_observation"
       [] D # {} /\ ~used /\ s \notin Unique
            /\ Max(D) - Min(D) >= MinObsDays      -> "candidate_unused"

-----------------------------------------------------------------------------
(* Properties.                                                               *)

Between(T) == {t \in Slots : Min(T) < t /\ t <= Max(T)}

\* A day is never overcounted: whatever restarts it saw and however series came
\* and went in between, its delta is at most what was called between its ends,
\* as long as the two ends report the same series.
DayNeverOvercounts ==
  \A d \in DOMAIN daily :
    LET T == FoldedRows(SlotsOfDay[d])
    IN DOMAIN snap[Min(T)] = DOMAIN snap[Max(T)] => daily[d] <= AllCalls(Between(T))

\* On a day without a restart whose samples report every series, the hours do
\* not add up to more than the day: fct_query_hourly and fct_query_daily agree.
HoursFitInDay ==
  \A d \in built :
    /\ \A t \in SlotsOfDay[d] : DOMAIN snap[t] = Series
    /\ restarts \cap SlotsOfDay[d] = {}
    => MapThenSumSet(LAMBDA h : hourly[<<d, h>>], Hours) <= daily[d]

\* An index that is called "in use" was used, between the samples of a day that
\* lies in the window.  One that is proposed for removal although it was used in
\* the window owes that to one of two things: the use fell outside the samples
\* of its day, or the day had a restart between them.
IndexVerdictIsJustified ==
  \A s \in Series :
    LET Used(d) == Total(s, Between(IndexRows(s, d))) > 0
        Lost(d) == restarts \cap Between(IndexRows(s, d)) # {}
    IN  /\ Verdict(s) = "in_use" => \E d \in built : d > AsOf - WindowDays /\ Used(d)
        /\ Verdict(s) = "candidate_unused" => \A d \in InWindow(s) : Used(d) => Lost(d)
=============================================================================
