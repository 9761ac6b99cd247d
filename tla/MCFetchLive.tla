---------------------------- MODULE MCFetchLive ----------------------------
(***************************************************************************)
(* An instance for TLC of what must go on for ever: the fetch queue, the   *)
(* page that follows it (StatusPage) and the daemon's scheduled jobs       *)
(* (MaintenanceSchedule).  They share no variable, so one run checks them  *)
(* all: Init chooses the part that moves, the others stay as they start.   *)
(***************************************************************************)
EXTENDS FetchQueue

CONSTANTS
  PageServices, MaxClicks, MaxLosses,                       \* StatusPage
  None, Jobs, Configured, TimesADay, DaysAMonth, DaysAWeek, Limit, MaxTime  \* MaintenanceSchedule

VARIABLES
  part,
  \* StatusPage
  status, deleted, shown, timer, poll, outdated, clicks, losses,
  \* MaintenanceSchedule
  schedule, next_run, ran, started, daemon, deadline, queue, cutoff, now

pageVars == <<status, deleted, shown, timer, poll, outdated, clicks, losses>>
scheduleVars == <<schedule, next_run, ran, started, daemon, deadline, queue, cutoff, now>>
allVars == <<part, vars, pageVars, scheduleVars>>

Page == INSTANCE StatusPage WITH Services <- PageServices

Maintenance == INSTANCE MaintenanceSchedule

\* For TLC: one job on any schedule beside a daily one.  Its schedules come from
\* an instance without Configured, which stands for these very settings.
SmallCalendar == INSTANCE MaintenanceSchedule WITH Configured <- {}
First == CHOOSE j \in Jobs : TRUE
Daily == [time |-> [values |-> {1}, any |-> FALSE],
          day_of_month |-> SmallCalendar!Any(1..DaysAMonth),
          day_of_week |-> SmallCalendar!Any(0..(DaysAWeek - 1))]
SmallSettings ==
  {[j \in Jobs |-> IF j = First THEN s ELSE Daily] : s \in SmallCalendar!Schedules}

LiveInit ==
  /\ part \in {"queue", "page", "schedule"}
  /\ Init
  /\ \/ part = "page"
     \/ part # "page" /\ status = [s \in PageServices |-> "done"]
  /\ Page!Init
  /\ \/ part = "schedule"
     \/ part # "schedule" /\ schedule = CHOOSE settings \in Configured : TRUE
  /\ Maintenance!Init

\* Nobody need click on the page, and its clock stops the schedule; only the
\* fetch queue must always have a step.
LiveNext ==
  \/ part = "queue" /\ Next /\ UNCHANGED <<part, pageVars, scheduleVars>>
  \/ part = "page" /\ Page!Next /\ UNCHANGED <<part, vars, scheduleVars>>
  \/ part = "schedule" /\ Maintenance!Next /\ UNCHANGED <<part, vars, pageVars>>
  \/ part # "queue" /\ UNCHANGED allVars

\* The fairness of each module, of the part that moves.
LiveFairness ==
  /\ WF_vars(part = "queue" /\ DaemonStep)
  /\ \A t \in Tokens, s \in Services : WF_vars(part = "queue" /\ JobStep(t, s))
  /\ WF_pageVars(part = "page" /\ Page!Poll)
  /\ \A c \in 1..MaxClicks : WF_pageVars(part = "page" /\ Page!Answer(c))
  /\ \A s \in PageServices : WF_pageVars(part = "page" /\ Page!Work(s))
  /\ WF_scheduleVars(part = "schedule" /\ Maintenance!Daemon)

LiveSpec == LiveInit /\ [][LiveNext]_allVars /\ LiveFairness

-----------------------------------------------------------------------------
(* The properties of the parts, which their modules describe; FetchQueue's *)
(* are there.                                                              *)

\* A fetch shown queued or running is not shown so for ever.
ShownFetchEnds == Page!ShownFetchEnds

\* No answer to a poll hides that a service was not found.
RefusalStands == Page!RefusalStands

\* Each job runs when cron's rule says, once, and none is skipped.
JobsFollowCron == part = "schedule" => Maintenance!JobsFollowCron

\* The daemon never sleeps past the time of a job.
NeverOversleeps == Maintenance!NeverOversleeps

\* A due job is run.
DueJobsRun == Maintenance!DueJobsRun
=============================================================================
