--------------------------- MODULE FetchSchedule ----------------------------
(***************************************************************************)
(* When one service is fetched: the arithmetic of glifestream/fetching.py  *)
(* (intervals, retries with backoff, Retry-After) and the worker's cycle   *)
(* that applies it, on a clock.  FetchQueue has the interleavings of many  *)
(* jobs; here a claim and its fetch belong to the only job there is.       *)
(***************************************************************************)
EXTENDS Integers

CONSTANTS
  None,             \* NULL, for a time and for a fetch interval
  ProviderInterval, \* max(FETCH_DEFAULT_INTERVAL_SEC, limit_sec)
  RetryBase,        \* FETCH_RETRY_BASE_SEC
  TerminalDelay,    \* FETCH_TERMINAL_DELAY_SEC
  MaxDoublings,     \* MAX_RETRY_DOUBLINGS
  RetryAfters,      \* the Retry-After delays a remote may send
  Intervals,        \* bound: the fetch_interval_sec values the owner saves
  Asks,             \* bound: what else the owner does: "run now", "worker.py"
                    \* and its option "--force-check"
  MaxTime,          \* bound: the clock's last reading
  MaxFailures,      \* bound: the length of a streak of failures
  MaxCrashes        \* bound: the crashes of the worker

ASSUME NoneAssumption == None \notin Int
ASSUME DelayAssumption ==
  /\ {ProviderInterval, RetryBase, TerminalDelay, MaxDoublings} \subseteq Nat
  /\ RetryAfters \subseteq Nat
  /\ Intervals \subseteq Nat \cup {None}
  /\ {MaxTime, MaxFailures, MaxCrashes} \subseteq Nat

VARIABLES
  now,      \* the clock
  service,  \* the service's row
  loaded,   \* the Service object of the fetch under way, or None
  state,    \* the service's fetch-state row
  loop,     \* where the daemon is: "plan", "sleep", "claim" or "fetch"
  wake_at,  \* when its select() times out; None if never
  signal,   \* a datagram waits in its socket
  crashes,  \* how many crashes happened
  \* History, for the properties only:
  asked,    \* the Retry-After of the last recorded failure, or 0
  owner     \* the owner changed the plan since the last recorded outcome

vars == <<now, service, loaded, state, loop, wake_at, signal, crashes, asked, owner>>
daemonVars == <<loop, wake_at, signal>>

-----------------------------------------------------------------------------
(* The delays. *)

Min2(a, b) == IF a < b THEN a ELSE b
Max2(a, b) == IF a > b THEN a ELSE b

get_effective_interval_sec(svc) ==
  IF svc.fetch_interval_sec = None THEN ProviderInterval ELSE svc.fetch_interval_sec

compute_next_fetch_at(svc, reference_time) ==
  IF svc.active THEN reference_time + get_effective_interval_sec(svc) ELSE None

\* Mutant: the second retry comes as soon as the first.
DoublingsFromTheSecond(attempt) == Min2(Max2(attempt - 2, 0), MaxDoublings)

\* How often the base delay doubles before the `attempt`-th retry.
Doublings(attempt) == Min2(Max2(attempt, 1) - 1, MaxDoublings)

RetryDelay(svc, failure, attempt) ==
  IF failure = "terminal"
    THEN Max2(get_effective_interval_sec(svc), TerminalDelay)
    ELSE Min2(RetryBase * 2 ^ Doublings(attempt), get_effective_interval_sec(svc))

compute_retry_at(svc, failure, attempt, retry_after) ==
  IF svc.active THEN now + Max2(RetryDelay(svc, failure, attempt), retry_after) ELSE None

-----------------------------------------------------------------------------
(* Rows. *)

\* last_checked, or this moment for a service that was never checked.
LastChecked(svc) == IF svc.last_checked = None THEN now ELSE svc.last_checked

Busy(st) == st.status \in {"queued", "running"}

Due(svc) == svc.active /\ svc.next_fetch_at # None /\ svc.next_fetch_at <= now

\* failure is failure_kind, except that "interrupted" is failure_category: the
\* kind is then "retryable".
Failed(st, failure) ==
  [st EXCEPT !.status = "failed",
             !.finished_at = now,
             !.consecutive_failures = @ + 1,
             !.failure = failure]

\* Mutant: the streak goes on.
SucceededInStreak(st) ==
  [st EXCEPT !.status = "succeeded", !.finished_at = now, !.failure = "none"]

Succeeded(st) ==
  [st EXCEPT !.status = "succeeded",
             !.finished_at = now,
             !.consecutive_failures = 0,
             !.failure = "none"]

\* recover_abandoned_fetch_states
Recovered(st) == IF st.status = "running" THEN Failed(st, "interrupted") ELSE st

\* What initialize_missing_schedules makes of a service that waits: an earlier
\* next_fetch_at moves forward to an interval after the last check.
Scheduled(svc, st) ==
  LET expected == compute_next_fetch_at(svc, LastChecked(svc)) IN
  IF /\ svc.active
     /\ ~ Busy(st)
     /\ svc.next_fetch_at = None \/ svc.next_fetch_at < expected
    THEN [svc EXCEPT !.next_fetch_at = expected]
    ELSE svc

-----------------------------------------------------------------------------
Times == 0..MaxTime
ServiceRow ==
  [active : BOOLEAN,
   fetch_interval_sec : Intervals \cup {None},
   last_checked : Times \cup {None},
   next_fetch_at : Int \cup {None}]
StateRow ==
  [status : {"idle", "queued", "running", "succeeded", "failed"},
   trigger : {"manual", "schedule"},
   finished_at : Times \cup {None},
   consecutive_failures : 0..MaxFailures,
   failure : {"none", "retryable", "terminal", "interrupted"}]

TypeOK ==
  /\ now \in Times
  /\ service \in ServiceRow
  /\ loaded \in ServiceRow \cup {None}
  /\ state \in StateRow
  /\ loop \in {"plan", "sleep", "claim", "fetch"}
  /\ wake_at \in Int \cup {None}
  /\ signal \in BOOLEAN
  /\ crashes \in 0..MaxCrashes
  /\ asked \in RetryAfters \cup {0}
  /\ owner \in BOOLEAN

\* A service the settings page has just created.
Init ==
  /\ now = 0
  /\ service = [active |-> TRUE, fetch_interval_sec |-> None,
                last_checked |-> None, next_fetch_at |-> ProviderInterval]
  /\ loaded = None
  /\ state = [status |-> "idle", trigger |-> "schedule", finished_at |-> None,
              consecutive_failures |-> 0, failure |-> "none"]
  /\ loop = "plan"
  /\ wake_at = None
  /\ signal = FALSE
  /\ crashes = 0
  /\ asked = 0
  /\ owner = FALSE

-----------------------------------------------------------------------------
(* The daemon's cycle. *)

\* initialize_missing_schedules, then get_next_wait_timeout.
Plan ==
  /\ loop = "plan"
  /\ state' = Recovered(state)
  /\ service' = Scheduled(service, state')
  /\ wake_at' = IF state'.status = "queued" THEN now
                ELSE IF service'.active /\ service'.next_fetch_at # None
                  THEN Max2(service'.next_fetch_at, now)
                  ELSE None
  /\ loop' = "sleep"
  /\ UNCHANGED <<now, loaded, signal, crashes, asked, owner>>

\* Due, woken, or busy with another service or a maintenance job.
Wake ==
  /\ loop = "sleep"
  /\ loop' = "claim"
  /\ signal' = FALSE
  /\ wake_at' = None
  /\ UNCHANGED <<now, service, loaded, state, crashes, asked, owner>>

\* claim_runnable_jobs, which schedules again first.
ClaimJobs ==
  LET st == Recovered(state)
      svc == Scheduled(service, st)
  IN
  /\ loop = "claim"
  /\ service' = svc
  /\ \/ /\ st.status = "queued"
        /\ state' = [st EXCEPT !.status = "running"]
        /\ loop' = "fetch"
     \/ /\ ~ Busy(st) /\ Due(svc)
        /\ state' = [st EXCEPT !.status = "running", !.trigger = "schedule"]
        /\ loop' = "fetch"
     \/ /\ ~ Busy(st) /\ ~ Due(svc)
        /\ state' = st
        /\ loop' = "plan"
  /\ loaded' = IF loop' = "fetch" THEN svc ELSE None
  /\ UNCHANGED <<now, wake_at, signal, crashes, asked, owner>>

ProviderSaves ==
  /\ loop = "fetch"
  /\ loaded' = [loaded EXCEPT !.last_checked = now]
  /\ service' = loaded'
  /\ UNCHANGED <<now, state, daemonVars, crashes, asked, owner>>

\* _update_state_success
FetchSucceeds ==
  /\ loop = "fetch"
  /\ state' = Succeeded(state)
  /\ service' = [service EXCEPT !.next_fetch_at = compute_next_fetch_at(service, now)]
  /\ loop' = "plan"
  /\ loaded' = None
  /\ asked' = 0
  /\ owner' = FALSE
  /\ UNCHANGED <<now, wake_at, signal, crashes>>

\* _update_state_failure
FetchFails(failure, retry_after) ==
  /\ loop = "fetch"
  /\ state.consecutive_failures < MaxFailures
  /\ state' = Failed(state, failure)
  /\ service' = [service EXCEPT !.next_fetch_at =
       compute_retry_at(service, failure, state'.consecutive_failures, retry_after)]
  /\ loop' = "plan"
  /\ loaded' = None
  /\ asked' = retry_after
  /\ owner' = FALSE
  /\ UNCHANGED <<now, wake_at, signal, crashes>>

Crash ==
  /\ crashes < MaxCrashes
  /\ state.consecutive_failures < MaxFailures
  /\ crashes' = crashes + 1
  /\ loop' = "plan"
  /\ loaded' = None
  /\ signal' = FALSE
  /\ wake_at' = None
  /\ UNCHANGED <<now, service, state, asked, owner>>

-----------------------------------------------------------------------------
(* The owner, and the clock. *)

\* persist_service_payload and sync_service_schedule.
SaveSettings(active, interval) ==
  LET svc == [service EXCEPT !.active = active, !.fetch_interval_sec = interval] IN
  /\ service' = [svc EXCEPT !.next_fetch_at =
                   compute_next_fetch_at(svc, LastChecked(svc))]
  /\ state' = IF active \/ Busy(state) THEN state ELSE [state EXCEPT !.status = "idle"]
  /\ owner' = TRUE
  /\ UNCHANGED <<now, loaded, daemonVars, crashes, asked>>

\* enqueue_manual_fetch and its wake-up signal.
RunNow ==
  /\ "run now" \in Asks
  /\ state' = IF Busy(state) THEN state
              ELSE [state EXCEPT !.status = "queued", !.trigger = "manual"]
  /\ service' = IF service.next_fetch_at = None
                  THEN [service EXCEPT !.next_fetch_at =
                          compute_next_fetch_at(service, LastChecked(service))]
                  ELSE service
  /\ signal' = TRUE
  /\ UNCHANGED <<now, loaded, loop, wake_at, crashes, asked, owner>>

\* run_services fetches in a process of its own and has no fetch state.
ShouldRun ==
  service.last_checked # None =>
    now >= service.last_checked + get_effective_interval_sec(service)

\* Whether the provider saved before it succeeded or failed.
CliFetch(saves, failure, retry_after) ==
  LET svc == IF saves THEN [service EXCEPT !.last_checked = now] ELSE service IN
  /\ "worker.py" \in Asks
  /\ "--force-check" \in Asks \/ (service.active /\ ShouldRun)
  /\ service' = [svc EXCEPT !.next_fetch_at =
                   IF failure = "none" THEN compute_next_fetch_at(svc, now)
                   ELSE compute_retry_at(svc, failure, 1, retry_after)]
  /\ owner' = TRUE
  /\ UNCHANGED <<now, loaded, state, daemonVars, crashes, asked>>

Tick ==
  /\ now < MaxTime
  /\ now' = now + 1
  /\ UNCHANGED <<service, loaded, state, daemonVars, crashes, asked, owner>>

-----------------------------------------------------------------------------
Next ==
  \/ Plan
  \/ Wake
  \/ ClaimJobs
  \/ ProviderSaves
  \/ FetchSucceeds
  \/ \E failure \in {"retryable", "terminal"}, retry_after \in RetryAfters \cup {0} :
       FetchFails(failure, retry_after)
  \/ Crash
  \/ \E active \in BOOLEAN, interval \in Intervals : SaveSettings(active, interval)
  \/ RunNow
  \/ \E saves \in BOOLEAN, failure \in {"none", "retryable", "terminal"},
        retry_after \in RetryAfters \cup {0} : CliFetch(saves, failure, retry_after)
  \/ Tick

Spec == Init /\ [][Next]_vars

-----------------------------------------------------------------------------
(* Properties. *)

\* The wait that the docstring of compute_retry_at and the changelog promise
\* after the last recorded outcome.
PromisedWait ==
  LET interval == get_effective_interval_sec(service)
      attempt == state.consecutive_failures
  IN CASE state.failure = "none" -> interval
       [] state.failure = "terminal" -> Max2(Max2(interval, TerminalDelay), asked)
       [] state.failure = "retryable" ->
            Max2(Min2(RetryBase * 2 ^ Min2(attempt - 1, MaxDoublings), interval), asked)

\* The schedule never fetches a service sooner than its last outcome lets it,
\* whatever the passes over the schedule do in between; only the owner does,
\* and an interruption, which tells nothing about the remote.
WaitsLongEnough ==
  [][/\ state.status # "running"
     /\ state'.status = "running"
     /\ state'.trigger = "schedule"
     /\ state.finished_at # None
     /\ state.failure # "interrupted"
     /\ ~ owner
     => now >= state.finished_at + PromisedWait]_vars

\* The status tab's "failed n times in a row" and the backoff read the same
\* streak: it is empty exactly when there is no failure to describe, and
\* requests, recoveries and saved settings neither start nor end one.
StreakMatchesOutcome ==
  /\ state.consecutive_failures = 0 <=> state.failure = "none"
  /\ state.status = "succeeded" => state.failure = "none"
  /\ state.status = "failed" => state.failure # "none"

\* "A temporary failure is retried after one minute, doubling on each further
\* failure": the plan the worker sleeps on holds such a retry.
RetryIsSoon ==
  /\ loop = "sleep"
  /\ service.active
  /\ state.status = "failed"
  /\ state.failure = "retryable"
  /\ ~ owner
  => service.next_fetch_at <=
       state.finished_at + Max2(RetryBase * 2 ^ (state.consecutive_failures - 1), asked)

\* "claim_runnable_jobs marks due services as running in one transaction."
DueIsClaimed == [][ClaimJobs /\ Due(service) => state'.status = "running"]_vars

\* "The daemon wakes up when a fetch is due": it never sleeps past one.
WakesWhenDue ==
  /\ loop = "sleep"
  /\ Due(service)
  /\ ~ Busy(state)
  => signal \/ (wake_at # None /\ wake_at <= now)
=============================================================================
