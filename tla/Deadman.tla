------------------------------- MODULE Deadman -------------------------------
(***************************************************************************)
(* The reverse watch: snapshot_offload records each success in             *)
(* pipeline_heartbeat, and extract/deadman.py, run every hour by the DAG   *)
(* deadman_watch and by a cron outside Airflow, cries when the record is   *)
(* older than a deadline.  One watched DAG is modelled.                    *)
(*                                                                         *)
(* Time is counted in hours.  The record's age is known to the hour only,  *)
(* so at exactly Deadline hours the minutes, which are not modelled,       *)
(* decide.  SnapshotDag has the run itself; here it is its hour of success *)
(* or its failure.  A check reads the record and judges it within the same *)
(* hour, or it is lost: nothing bounds its query, so it may also hang.     *)
(***************************************************************************)
EXTENDS Integers

CONSTANTS
  Period,    \* hours between two runs of snapshot_offload (@daily)
  Deadline,  \* the age DEADMAN_WATCH allows
  Retries    \* retries of deadman_watch's check

ASSUME ClockOK ==
  /\ Period \in Nat \ {0}
  /\ Deadline \in Nat /\ Period < Deadline /\ Deadline <= 2 * Period
  /\ Retries \in Nat

\* The DAG deadman_watch, and `python -m extract.deadman` on another host.
Watchers == {"dag", "cron"}

Never  == -1             \* no row of this DAG in pipeline_heartbeat
Oldest == Deadline + 1   \* bound: all ages above Deadline are one
Grace  == Deadline - Period

VARIABLES
  hour,     \* hour of the day
  age,      \* hours since the recorded success, or Never
  wired,    \* the watchers that have an ALERT_WEBHOOK_URL
  up,       \* Airflow's scheduler lives and runs deadman_watch
  host,     \* the host of the cron lives
  whole,    \* history: watchers that nothing has kept from this hour's check
  watch,    \* watch[w]: where this hour's check of w stands
  saw,      \* saw[w]: the age that check has read (Never outside of it)
  tries,    \* failed attempts of the DAG's check in this hour
  said,     \* this hour a watcher has tried to post or exited with an error
  heard,    \* an alarm has been delivered since the last success
  missed    \* since the last success, a day went by its grace without one

checks == <<whole, watch, saw, tries, said>>
vars   == <<hour, age, wired, up, host, checks, heard, missed>>

Ages == 0..Oldest \cup {Never}

TypeOK ==
  /\ hour \in 0..Period - 1
  /\ age \in Ages
  /\ wired \subseteq Watchers
  /\ up \in BOOLEAN /\ host \in BOOLEAN
  /\ whole \subseteq Watchers
  /\ watch \in [Watchers -> {"due", "read", "done"}]
  /\ saw \in [Watchers -> Ages]
  /\ tries \in 0..Retries
  /\ said \in BOOLEAN /\ heard \in BOOLEAN /\ missed \in BOOLEAN

Init ==
  /\ hour = 0 /\ age = Never
  /\ wired \in SUBSET Watchers
  /\ up = TRUE /\ host = TRUE
  /\ whole = Watchers
  /\ watch = [w \in Watchers |-> "due"]
  /\ saw = [w \in Watchers |-> Never]
  /\ tries = 0 /\ said = FALSE
  /\ heard = FALSE /\ missed = TRUE

Alive(w) == IF w = "dag" THEN up ELSE host

-----------------------------------------------------------------------------
(* The hour passes.                                                          *)

Older == IF age \in {Never, Oldest} THEN age ELSE age + 1

\* Today's success is late once the hours of grace after midnight are over.
Late == hour + 1 = Grace /\ (age = Never \/ Older > hour + 1)

\* A check takes minutes, its retry two more: a watcher that nothing has kept
\* from it is done when the hour ends.  The hour waits for nobody else: cron
\* starts its check on the hour, on a host that lives then, and never catches
\* up; Airflow queues the latest hour's for when it is back (catchup=False).
Tick ==
  /\ \A w \in whole : watch[w] = "done"
  /\ hour' = (hour + 1) % Period
  /\ age' = Older
  /\ whole' = {w \in Watchers : Alive(w)}
  /\ watch' = [w \in Watchers |-> IF w = "cron" /\ ~host THEN "done" ELSE "due"]
  /\ tries' = 0
  /\ said' = FALSE
  /\ missed' = (missed \/ Late)
  /\ saw' = [w \in Watchers |-> Never]
  /\ UNCHANGED <<wired, up, host, heard>>

-----------------------------------------------------------------------------
(* The record, and what stops it from coming: nothing obliges a success to   *)
(* come, be it that the DAG is paused, its runs fail or its source is silent. *)

\* ON CONFLICT DO UPDATE.
WriteHeartbeat == age' = 0 /\ heard' = FALSE /\ missed' = FALSE

\* A daily run has succeeded; or a backfill of an old day has, or somebody has
\* called `python -m extract.heartbeat`: all write the same row.
Beat ==
  /\ WriteHeartbeat
  /\ UNCHANGED <<hour, wired, up, host, checks>>

\* A watcher is kept from its check of this hour, or from ending it.
Kept(w, then) ==
  /\ whole' = whole \ {w}
  /\ watch' = [watch EXCEPT ![w] = IF @ = "done" THEN @ ELSE then]
  /\ saw' = [saw EXCEPT ![w] = Never]

\* The scheduler dies, deadman_watch is paused, or its check hangs, behind which
\* max_active_runs=1 starts no other.  What was under way is taken up again by
\* whoever brings it back.
SchedulerDies ==
  /\ up /\ up' = FALSE
  /\ Kept("dag", "due")
  /\ UNCHANGED <<hour, age, wired, host, tries, said, heard, missed>>

SchedulerStarts ==
  /\ ~up /\ up' = TRUE
  /\ UNCHANGED <<hour, age, wired, host, checks, heard, missed>>

\* The cron's check dies with its host, and no one starts it again.
HostDies ==
  /\ host /\ host' = FALSE
  /\ Kept("cron", "done")
  /\ UNCHANGED <<hour, age, wired, up, tries, said, heard, missed>>

HostStarts ==
  /\ ~host /\ host' = TRUE
  /\ UNCHANGED <<hour, age, wired, up, checks, heard, missed>>

\* The cron's check hangs or is killed; the next hour starts another.
CronHangs ==
  /\ host /\ watch["cron"] # "done"
  /\ Kept("cron", "done")
  /\ UNCHANGED <<hour, age, wired, up, host, tries, said, heard, missed>>

-----------------------------------------------------------------------------
(* A check: read the record, then take the time and judge.                   *)

ReadHeartbeats(w) ==
  /\ Alive(w) /\ watch[w] = "due"
  /\ watch' = [watch EXCEPT ![w] = "read"]
  /\ saw' = [saw EXCEPT ![w] = age]
  /\ UNCHANGED <<hour, age, wired, up, host, whole, tries, said, heard, missed>>

\* Mutant: no record is taken for a healthy one.
StaleIfOld(a) == a > Deadline

\* Mutant: the deadline is the period, without grace.
StaleAfterPeriod(a) == a = Never \/ a > Period

\* check_stale: no record, or an age above the deadline.
Stale(a) == a = Never \/ a > Deadline

\* At a = Deadline the minutes decide.
Verdicts(a) == IF a = Deadline THEN BOOLEAN ELSE {Stale(a)}

Ends(w) ==
  /\ watch' = [watch EXCEPT ![w] = "done"]
  /\ saw' = [saw EXCEPT ![w] = Never]

\* A webhook gets the post, an exit code other than zero ends the cron's check.
Says(w) == w = "cron" \/ w \in wired

\* post_webhook does nothing without a URL and swallows every error: a lost
\* post is not repeated.  The exit code of the cron's check counts the alarms.
JudgeStale(w, delivered) ==
  /\ Alive(w) /\ watch[w] = "read"
  /\ TRUE \in Verdicts(saw[w])
  /\ delivered => w \in wired
  /\ Ends(w)
  /\ said' = (said \/ Says(w))
  /\ heard' = (heard \/ delivered)
  /\ UNCHANGED <<hour, age, wired, up, host, whole, tries, missed>>

JudgeHealthy(w) ==
  /\ Alive(w) /\ watch[w] = "read"
  /\ FALSE \in Verdicts(saw[w])
  /\ Ends(w)
  /\ UNCHANGED <<hour, age, wired, up, host, whole, tries, said, heard, missed>>

\* Mutant: deadman_watch without on_failure_callback.
CheckFailsUnseen(w) ==
  /\ Alive(w) /\ watch[w] = "due"
  /\ \/ /\ w = "dag" /\ tries < Retries
        /\ tries' = tries + 1
        /\ UNCHANGED <<watch, saw, said>>
     \/ /\ w = "cron" \/ tries = Retries
        /\ Ends(w)
        /\ said' = (said \/ w = "cron")
        /\ UNCHANGED tries
  /\ UNCHANGED <<hour, age, wired, up, host, whole, heard, missed>>

\* Mutant: one retry too many.
CheckFailsAgain(w) ==
  /\ Alive(w) /\ watch[w] = "due"
  /\ \/ /\ w = "dag" /\ tries <= Retries
        /\ tries' = tries + 1
        /\ UNCHANGED <<watch, saw, said>>
     \/ /\ w = "cron" \/ tries > Retries
        /\ Ends(w)
        /\ said' = (said \/ Says(w))
        /\ UNCHANGED tries
  /\ UNCHANGED <<hour, age, wired, up, host, whole, heard, missed>>

\* The catalog cannot be reached.  The DAG's check is tried again, and its last
\* failure is posted by the callback; the cron's exits with an error.
CheckFails(w) ==
  /\ Alive(w) /\ watch[w] = "due"
  /\ \/ /\ w = "dag" /\ tries < Retries
        /\ tries' = tries + 1
        /\ UNCHANGED <<watch, saw, said>>
     \/ /\ w = "cron" \/ tries = Retries
        /\ Ends(w)
        /\ said' = (said \/ Says(w))
        /\ UNCHANGED tries
  /\ UNCHANGED <<hour, age, wired, up, host, whole, heard, missed>>

-----------------------------------------------------------------------------

Outages == SchedulerDies \/ SchedulerStarts \/ HostDies \/ HostStarts \/ CronHangs

Judge(w) == JudgeHealthy(w) \/ JudgeStale(w, TRUE) \/ JudgeStale(w, FALSE)

Check(w) == ReadHeartbeats(w) \/ Judge(w) \/ CheckFails(w)

Next == Tick \/ Beat \/ Outages \/ \E w \in Watchers : Check(w)

Spec == Init /\ [][Next]_vars

\* An hour begins on the cron's host.
TickOnHost == Tick /\ host

\* What the cron outside Airflow is there for: time passes, again and again an
\* hour begins while its host lives, and now and then a check of it reaches the
\* catalog, ends, and gets its post through.  Checks may fail, hang and die any
\* number of times in between, and Airflow may be dead for ever.
FairSpec ==
  /\ Spec
  /\ []<><<TickOnHost>>_vars
  /\ SF_vars(ReadHeartbeats("cron"))
  /\ SF_vars(Judge("cron"))
  /\ SF_vars(JudgeStale("cron", TRUE))

-----------------------------------------------------------------------------
(* Properties. *)

\* No false alarm: a watcher cries about a recorded success only when, since
\* that success, a day's run was not done within the grace, or when the next
\* success was recorded in this very hour, after the watcher had read.
AlarmHasCause ==
  [][\A w \in Watchers, d \in BOOLEAN :
       JudgeStale(w, d) => missed \/ age = 0]_vars

\* Silence is never silent: an hour in which the record is too old does not end
\* without a post or an error exit, if the cron's host lived through it and its
\* check did not hang, or if Airflow did and has a webhook: whatever happens to
\* the other watcher, and whether or not the catalog can be reached.
SilentHourIsReported ==
  [][hour' # hour /\ (\E w \in whole : Says(w)) /\ (age = Never \/ age > Deadline) =>
       said]_vars

\* However the pipeline stops, an alarm is delivered or a success comes first,
\* if the cron has a webhook.
SilenceIsHeard ==
  "cron" \in wired =>
    ((age = Oldest \/ age = Never) ~> (heard \/ age \in 0..Deadline))
=============================================================================
