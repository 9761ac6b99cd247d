------------------------- MODULE MaintenanceSchedule -------------------------
(***************************************************************************)
(* The scheduled jobs of the daemon: worker/schedule.py, and the cycle of  *)
(* worker/daemon.py that sleeps until the next deadline and runs what is   *)
(* due.  A small calendar stands for the real one: a few times in a day,   *)
(* short months and short weeks, so that both day fields of a schedule     *)
(* matter.  Time counts the times a schedule can name: minutes.            *)
(***************************************************************************)
EXTENDS Naturals, FiniteSets, FiniteSetsExt

CONSTANTS
  Jobs,         \* the configured jobs
  Configured,   \* the settings they may have: a set of functions from Jobs to schedules
  TimesADay,    \* the times of a day
  DaysAMonth,   \* the days of a month
  DaysAWeek,    \* the days of a week
  Limit,        \* how far next_after looks: 366 days
  None,         \* no next run; no deadline
  MaxTime       \* bound: when the clock stops

VARIABLES
  schedule,  \* the CronSchedule of each job
  next_run,  \* next_run_at of each job
  ran,       \* history: the times each job ran for, since the daemon started
  started,   \* history: when the daemon started
  daemon,    \* where serve_once is, or that the daemon is dead
  deadline,  \* until when select waits, or None
  queue,     \* the jobs the maintenance loop has still to look at
  cutoff,    \* the now of that loop
  now

vars == <<schedule, next_run, ran, started, daemon, deadline, queue, cutoff, now>>

Any(S) == [values |-> S, any |-> TRUE]
Fields(S) == {Any(S)} \cup {[values |-> V, any |-> FALSE] : V \in (SUBSET S) \ {{}}}
Schedules == [time : {f \in Fields(0..(TimesADay - 1)) : ~f.any},
              day_of_month : Fields(1..DaysAMonth), day_of_week : Fields(0..(DaysAWeek - 1))]
Times == 0..(MaxTime + Limit + 1)
TimeOf(t) == t % TimesADay
DayOf(t) == ((t \div TimesADay) % DaysAMonth) + 1
WeekdayOf(t) == (t \div TimesADay) % DaysAWeek

TypeOK ==
  /\ schedule \in [Jobs -> Schedules]
  /\ next_run \in [Jobs -> Times \cup {None}]
  /\ \A j \in Jobs : ran[j] \subseteq Times
  /\ daemon \in {"plan", "sleep", "fetch", "jobs", "dead"}
  /\ deadline \in Times \cup {None} /\ queue \subseteq Jobs
  /\ {now, started, cutoff} \subseteq 0..MaxTime

-----------------------------------------------------------------------------
(* CronSchedule. *)

\* Mutant: both day fields must match, whatever they are.
BothDays(s, t) == DayOf(t) \in s.day_of_month.values /\ WeekdayOf(t) \in s.day_of_week.values

_day_matches(s, t) ==
  LET dom == DayOf(t) \in s.day_of_month.values
      dow == WeekdayOf(t) \in s.day_of_week.values
  IN  IF s.day_of_month.any \/ s.day_of_week.any THEN dom /\ dow ELSE dom \/ dow

matches(s, t) == TimeOf(t) \in s.time.values /\ _day_matches(s, t)

\* Mutant: from the minute itself, which then comes back for ever.
FromNow(when) == when..(when + Limit)

LookedAt(when) == (when + 1)..(when + 1 + Limit)

\* The first match, or ValueError.
next_after(s, when) ==
  LET found == {t \in LookedAt(when) : matches(s, t)}
  IN  IF found = {} THEN None ELSE Min(found)

-----------------------------------------------------------------------------
(* The daemon. *)

Init ==
  /\ schedule \in Configured
  /\ now = 0 /\ started = 0 /\ cutoff = 0
  /\ next_run = [j \in Jobs |-> next_after(schedule[j], 0)]
  /\ daemon = IF \E j \in Jobs : next_run[j] = None THEN "dead" ELSE "plan"
  /\ ran = [j \in Jobs |-> {}]
  /\ deadline = None
  /\ queue = {}

jobVars == <<schedule, next_run, ran, started>>

\* Mutant: the daemon sleeps until its next fetch.
FetchOnly(fetch) == fetch

\* _select_timeout: what comes first, the next fetch or the next job.
_select_timeout(fetch) ==
  LET times == ({fetch} \cup {next_run[j] : j \in Jobs}) \ {None}
  IN  IF times = {} THEN None ELSE Min(times)

Plan ==
  /\ daemon = "plan"
  /\ \E fetch \in (now..MaxTime) \cup {None} : deadline' = _select_timeout(fetch)
  /\ daemon' = "sleep"
  /\ UNCHANGED <<jobVars, queue, cutoff, now>>

Wakes ==
  /\ daemon = "sleep"
  /\ daemon' = "fetch"
  /\ deadline' = None
  /\ UNCHANGED <<jobVars, queue, cutoff, now>>

\* select returns at its deadline, or at any time for a signal.
Timeout == deadline # None /\ (deadline # None => deadline <= now) /\ Wakes
Signal == Wakes

\* run_ready_jobs and the publish, which may have taken long, are over.
_run_due_maintenance_jobs ==
  /\ daemon = "fetch"
  /\ daemon' = "jobs"
  /\ cutoff' = now
  /\ queue' = Jobs
  /\ UNCHANGED <<jobVars, deadline, now>>

\* A job is run for each of its times up to the cutoff; then the next job.
RunJob(j) ==
  /\ daemon = "jobs" /\ j \in queue
  /\ IF next_run[j] <= cutoff
     THEN /\ ran' = [ran EXCEPT ![j] = @ \cup {next_run[j]}]
          /\ next_run' = [next_run EXCEPT ![j] = next_after(schedule[j], @)]
          /\ daemon' = IF next_run'[j] = None THEN "dead" ELSE daemon
          /\ UNCHANGED queue
     ELSE queue' = queue \ {j} /\ UNCHANGED <<ran, next_run, daemon>>
  /\ UNCHANGED <<schedule, started, deadline, cutoff, now>>

\* The job raises, which ends the daemon.
JobFails ==
  /\ daemon = "jobs"
  /\ \E j \in queue : next_run[j] <= cutoff
  /\ daemon' = "dead"
  /\ UNCHANGED <<jobVars, deadline, queue, cutoff, now>>

EndOfCycle ==
  /\ daemon = "jobs" /\ queue = {}
  /\ daemon' = "plan"
  /\ cutoff' = 0
  /\ UNCHANGED <<jobVars, deadline, queue, now>>

\* The supervisor starts a new daemon: its jobs are scheduled from now on.
Restart ==
  /\ daemon = "dead"
  /\ next_run' = [j \in Jobs |-> next_after(schedule[j], now)]
  /\ \A j \in Jobs : next_run'[j] # None
  /\ daemon' = "plan"
  /\ started' = now
  /\ ran' = [j \in Jobs |-> {}]
  /\ queue' = {} /\ cutoff' = 0
  /\ UNCHANGED <<schedule, deadline, now>>

\* Time passes, but not between the plan and select, which takes no time.
Tick ==
  /\ now < MaxTime /\ now' = now + 1
  /\ daemon = "sleep" => (deadline # None => now < deadline)
  /\ daemon # "plan"
  /\ UNCHANGED <<jobVars, daemon, deadline, queue, cutoff>>

Daemon == Plan \/ Timeout \/ _run_due_maintenance_jobs \/ (\E j \in Jobs : RunJob(j)) \/ EndOfCycle

Next == Daemon \/ Signal \/ JobFails \/ Restart \/ Tick

\* The daemon is one thread: whatever it does next is eventually done, and a
\* fetch or a publish ends.  A signal need never come.
Fairness == WF_vars(Daemon)

Spec == Init /\ [][Next]_vars /\ Fairness

-----------------------------------------------------------------------------
\* When cron runs a job, by its own rule: on the days that a restricted day
\* field names, or on all days.
CronRuns(j, t) ==
  LET s == schedule[j]
      dom == ~s.day_of_month.any /\ DayOf(t) \in s.day_of_month.values
      dow == ~s.day_of_week.any /\ WeekdayOf(t) \in s.day_of_week.values
  IN  /\ TimeOf(t) \in s.time.values
      /\ dom \/ dow \/ (s.day_of_month.any /\ s.day_of_week.any)

\* Since the daemon started, each job ran for exactly the times cron's rule
\* names before its next run: none was skipped while the daemon was busy or
\* asleep, none was run twice and none early.
JobsFollowCron ==
  \A j \in Jobs :
    /\ \A t \in ran[j] : t <= now
    /\ next_run[j] # None => ran[j] = {t \in (started + 1)..(next_run[j] - 1) : CronRuns(j, t)}

\* The daemon never sleeps past the time of a job.
NeverOversleeps ==
  [][daemon = "sleep" /\ now' # now =>
       \A j \in Jobs : next_run[j] >= now']_vars

\* A job whose time has come is run, or its daemon dies of a job that raises.
DueJobsRun ==
  \A j \in Jobs :
    [](next_run[j] # None /\ next_run[j] <= now
        => <>(daemon = "dead" \/ next_run[j] > now))
=============================================================================
