------------------------ MODULE FetchScheduleProofs -------------------------
(* The theorems about FetchSchedule, for every delay, interval, Retry-After *)
(* and length of the run.                                                   *)
EXTENDS FetchSchedule, TLAPS

-----------------------------------------------------------------------------
(* The delays.  The provers know nothing of 2 ^ n but that it is a number,   *)
(* and nothing else is needed: the promise and the plan double alike.        *)

LEMMA MinMaxType ==
  \A a, b \in Int : /\ Min2(a, b) \in Int /\ Max2(a, b) \in Int
                    /\ Max2(a, b) >= a /\ Max2(a, b) >= b
BY DEF Min2, Max2

LEMMA IntervalType ==
  \A svc \in ServiceRow : get_effective_interval_sec(svc) \in Nat
BY NoneAssumption, DelayAssumption DEF ServiceRow, get_effective_interval_sec

LEMMA DoublingsType == \A n \in Int : Doublings(n) \in Nat
BY DelayAssumption DEF Doublings, Min2, Max2

LEMMA RetryDelayType ==
  ASSUME NEW svc \in ServiceRow, NEW failure, NEW n \in Int
  PROVE  RetryDelay(svc, failure, n) \in Int
<1>1. 2 ^ Doublings(n) \in Int
  BY DoublingsType
<1>2. RetryBase * 2 ^ Doublings(n) \in Int
  BY <1>1, DelayAssumption
<1>3. QED
  BY <1>2, IntervalType, MinMaxType, DelayAssumption DEF RetryDelay

LEMMA NextType ==
  ASSUME NEW svc \in ServiceRow, NEW time \in Int
  PROVE  compute_next_fetch_at(svc, time) \in Int \cup {None}
BY IntervalType DEF compute_next_fetch_at

LEMMA RetryAtType ==
  ASSUME NEW svc \in ServiceRow, NEW failure, NEW n \in Int, NEW wait \in Int, now \in Int
  PROVE  compute_retry_at(svc, failure, n, wait) \in Int \cup {None}
<1>1. Max2(RetryDelay(svc, failure, n), wait) \in Int
  BY RetryDelayType, MinMaxType
<1>2. QED
  BY <1>1 DEF compute_retry_at

LEMMA WithNextType ==
  ASSUME NEW svc \in ServiceRow, NEW next \in Int \cup {None}
  PROVE  [svc EXCEPT !.next_fetch_at = next] \in ServiceRow
BY DEF ServiceRow

LEMMA TimeType == now \in Times => now \in Nat
BY DelayAssumption DEF Times

-----------------------------------------------------------------------------
(* A pass over the schedule plans a service and never moves it earlier.      *)

LEMMA ScheduledMovesForward ==
  ASSUME NEW svc \in ServiceRow, NEW st, now \in Times
  PROVE  /\ Scheduled(svc, st) \in ServiceRow
         /\ Scheduled(svc, st).active = svc.active
         /\ Scheduled(svc, st).fetch_interval_sec = svc.fetch_interval_sec
         /\ svc.next_fetch_at # None =>
              /\ Scheduled(svc, st).next_fetch_at # None
              /\ Scheduled(svc, st).next_fetch_at >= svc.next_fetch_at
<1> DEFINE expected == compute_next_fetch_at(svc, LastChecked(svc))
<1>1. now \in Int
  BY TimeType
<1>2. LastChecked(svc) \in Int
  BY <1>1, DelayAssumption DEF LastChecked, ServiceRow, Times
<1>3. svc.active => expected \in Int
  BY <1>2, IntervalType DEF compute_next_fetch_at
<1>4. svc.active => [svc EXCEPT !.next_fetch_at = expected] \in ServiceRow
  BY <1>3, WithNextType
<1>5. CASE Scheduled(svc, st) = svc
  <2>1. svc.next_fetch_at \in Int \cup {None}
    BY DEF ServiceRow
  <2>2. svc.next_fetch_at # None => svc.next_fetch_at >= svc.next_fetch_at
    BY <2>1
  <2>3. QED
    BY <1>5, <2>2
<1>6. CASE /\ Scheduled(svc, st) = [svc EXCEPT !.next_fetch_at = expected]
           /\ svc.active
           /\ svc.next_fetch_at = None \/ svc.next_fetch_at < expected
  <2>1. Scheduled(svc, st).next_fetch_at = expected
    BY <1>6 DEF ServiceRow
  <2>2. /\ Scheduled(svc, st).active = svc.active
        /\ Scheduled(svc, st).fetch_interval_sec = svc.fetch_interval_sec
    BY <1>6 DEF ServiceRow
  <2>3. svc.next_fetch_at \in Int \cup {None}
    BY DEF ServiceRow
  <2>4. expected \in Int /\ expected # None
    BY <1>3, <1>6, NoneAssumption
  <2>5. svc.next_fetch_at # None => expected >= svc.next_fetch_at
    <3> HIDE DEF expected
    <3>1. QED
      BY <1>6, <2>3, <2>4
  <2>6. Scheduled(svc, st) \in ServiceRow
    BY <1>4, <1>6
  <2>7. QED
    BY <2>1, <2>2, <2>4, <2>5, <2>6
<1>7. QED
  BY <1>5, <1>6 DEF Scheduled
-----------------------------------------------------------------------------
(* Every claim's fetch is under way, or was interrupted and waits for the    *)
(* next recovery; the bound on streaks leaves room to count it.              *)

RunningIsFetched ==
  /\ loop = "fetch" => state.status = "running" /\ loaded \in ServiceRow
  /\ state.status = "running" /\ loop # "fetch" =>
       loop = "plan" /\ state.consecutive_failures < MaxFailures
  /\ state.status = "queued" => state.trigger = "manual"

CycleInv == TypeOK /\ RunningIsFetched /\ StreakMatchesOutcome

LEMMA FailedType ==
  ASSUME NEW st \in StateRow, st.consecutive_failures < MaxFailures, now \in Times,
         NEW failure \in {"retryable", "terminal", "interrupted"}
  PROVE  /\ Failed(st, failure) \in StateRow
         /\ Failed(st, failure).status = "failed"
         /\ Failed(st, failure).failure = failure
         /\ Failed(st, failure).consecutive_failures = st.consecutive_failures + 1
         /\ Failed(st, failure).finished_at = now
<1>1. st.consecutive_failures + 1 \in 0..MaxFailures
  BY DelayAssumption DEF StateRow
<1>2. QED
  BY <1>1 DEF Failed, StateRow

LEMMA RecoveredType ==
  ASSUME CycleInv, loop # "fetch"
  PROVE  /\ Recovered(state) \in StateRow
         /\ Recovered(state).status = "queued" => Recovered(state).trigger = "manual"
         /\ Recovered(state).status # "running"
         /\ Recovered(state) = state \/ Recovered(state).failure = "interrupted"
         /\ Recovered(state).consecutive_failures = 0 <=> Recovered(state).failure = "none"
         /\ Recovered(state).status = "succeeded" => Recovered(state).failure = "none"
         /\ Recovered(state).status = "failed" => Recovered(state).failure # "none"
<1>1. CASE state.status = "running"
  <2>1. /\ state.consecutive_failures < MaxFailures
        /\ state \in StateRow
        /\ now \in Times
    BY <1>1 DEF CycleInv, RunningIsFetched, TypeOK
  <2>2. state.consecutive_failures + 1 # 0
    BY <2>1, DelayAssumption DEF StateRow
  <2>3. QED
    BY <1>1, <2>1, <2>2, FailedType DEF Recovered
<1>2. CASE state.status # "running"
  BY <1>2 DEF Recovered, CycleInv, RunningIsFetched, StreakMatchesOutcome, TypeOK
<1>3. QED
  BY <1>1, <1>2

LEMMA CycleInvInit == Init => CycleInv
<1> SUFFICES ASSUME Init PROVE CycleInv
  OBVIOUS
<1>1. service \in ServiceRow
  BY DelayAssumption DEF Init, ServiceRow
<1>2. state \in StateRow
  BY DelayAssumption DEF Init, StateRow
<1>3. now \in Times /\ crashes \in 0..MaxCrashes
  BY DelayAssumption DEF Init, Times
<1>4. wake_at \in Int \cup {None} /\ asked \in RetryAfters \cup {0}
  BY DEF Init
<1>5. QED
  BY <1>1, <1>2, <1>3, <1>4
  DEF Init, CycleInv, TypeOK, RunningIsFetched, StreakMatchesOutcome

LEMMA CycleInvPlan == CycleInv /\ Plan => CycleInv'
<1> SUFFICES ASSUME CycleInv, Plan PROVE CycleInv'
  OBVIOUS
<1>1. now \in Times /\ now \in Int /\ service \in ServiceRow
  BY TimeType DEF CycleInv, TypeOK
<1>2. state' = Recovered(state) /\ loop = "plan"
  BY DEF Plan
<1>3. service' \in ServiceRow
  BY <1>1, ScheduledMovesForward DEF Plan
<1>4. service'.next_fetch_at \in Int \cup {None}
  BY <1>3 DEF ServiceRow
<1>5. wake_at' \in Int \cup {None}
  BY <1>1, <1>4, MinMaxType DEF Plan
<1>6. QED
  BY <1>2, <1>3, <1>5, RecoveredType
  DEF Plan, CycleInv, TypeOK, RunningIsFetched, StreakMatchesOutcome

LEMMA CycleInvClaim == CycleInv /\ ClaimJobs => CycleInv'
<1> SUFFICES ASSUME CycleInv, ClaimJobs PROVE CycleInv'
  OBVIOUS
<1> DEFINE st == Recovered(state)
           svc == Scheduled(service, st)
<1>1. st \in StateRow /\ st.status # "running"
  BY RecoveredType DEF ClaimJobs
<1>2. svc \in ServiceRow
  BY ScheduledMovesForward DEF CycleInv, TypeOK
<1>3. loop' = "fetch" => loaded' = svc
  BY DEF ClaimJobs
<1>4. \/ state' = [st EXCEPT !.status = "running"] /\ loop' = "fetch"
      \/ state' = [st EXCEPT !.status = "running", !.trigger = "schedule"] /\ loop' = "fetch"
      \/ state' = st /\ loop' = "plan"
  BY DEF ClaimJobs
<1>5. /\ state' \in StateRow
      /\ state'.failure = st.failure
      /\ state'.consecutive_failures = st.consecutive_failures
      /\ state'.status = IF loop' = "fetch" THEN "running" ELSE st.status
      /\ state'.status = "queued" => state' = st
  BY <1>1, <1>4 DEF StateRow
<1>6. QED
  BY <1>1, <1>2, <1>3, <1>4, <1>5, RecoveredType
  DEF ClaimJobs, CycleInv, TypeOK, RunningIsFetched, StreakMatchesOutcome

LEMMA CycleInvOutcome ==
  ASSUME CycleInv,
         \/ FetchSucceeds
         \/ \E failure \in {"retryable", "terminal"}, retry_after \in RetryAfters \cup {0} :
              FetchFails(failure, retry_after)
  PROVE  CycleInv'
<1>1. /\ now \in Times /\ now \in Int
      /\ service \in ServiceRow
      /\ state \in StateRow
  BY TimeType DEF CycleInv, TypeOK
<1>2. CASE FetchSucceeds
  <2>1. state' = Succeeded(state)
    BY <1>2 DEF FetchSucceeds
  <2>2. /\ state' \in StateRow
        /\ state'.status = "succeeded"
        /\ state'.failure = "none"
        /\ state'.consecutive_failures = 0
    <3>1. 0 \in 0..MaxFailures
      BY DelayAssumption
    <3>2. QED
      BY <1>1, <2>1, <3>1 DEF Succeeded, StateRow
  <2>3. service' \in ServiceRow
    BY <1>1, <1>2, NextType, WithNextType DEF FetchSucceeds
  <2>4. QED
    BY <1>2, <2>2, <2>3
    DEF FetchSucceeds, CycleInv, TypeOK, RunningIsFetched, StreakMatchesOutcome
<1>3. ASSUME NEW failure \in {"retryable", "terminal"},
             NEW retry_after \in RetryAfters \cup {0}, FetchFails(failure, retry_after)
      PROVE  CycleInv'
  <2>1. /\ state' = Failed(state, failure)
        /\ state.consecutive_failures < MaxFailures
    BY <1>3 DEF FetchFails
  <2>2. /\ state' \in StateRow
        /\ state'.status = "failed"
        /\ state'.failure = failure
        /\ state'.consecutive_failures = state.consecutive_failures + 1
    BY <1>1, <2>1, FailedType
  <2>3. state'.consecutive_failures \in Int /\ state'.consecutive_failures # 0
    BY <1>1, <2>2, DelayAssumption DEF StateRow
  <2>4. retry_after \in Int
    BY DelayAssumption
  <2>5. service' \in ServiceRow
    BY <1>1, <1>3, <2>3, <2>4, RetryAtType, WithNextType DEF FetchFails
  <2>6. QED
    BY <1>3, <2>2, <2>3, <2>5
    DEF FetchFails, CycleInv, TypeOK, RunningIsFetched, StreakMatchesOutcome
<1>4. QED
  BY <1>2, <1>3

LEMMA CycleInvOwner ==
  ASSUME CycleInv,
         \/ \E active \in BOOLEAN, interval \in Intervals : SaveSettings(active, interval)
         \/ RunNow
         \/ \E saves \in BOOLEAN, failure \in {"none", "retryable", "terminal"},
              retry_after \in RetryAfters \cup {0} : CliFetch(saves, failure, retry_after)
  PROVE  CycleInv'
<1>1. /\ now \in Times /\ now \in Int
      /\ service \in ServiceRow
      /\ state \in StateRow
  BY TimeType DEF CycleInv, TypeOK
<1>2. \A svc \in ServiceRow : LastChecked(svc) \in Int
  BY <1>1, DelayAssumption DEF LastChecked, ServiceRow, Times
<1>3. ASSUME NEW active \in BOOLEAN, NEW interval \in Intervals,
             SaveSettings(active, interval)
      PROVE  CycleInv'
  <2> DEFINE svc == [service EXCEPT !.active = active, !.fetch_interval_sec = interval]
  <2>1. svc \in ServiceRow
    BY <1>1 DEF ServiceRow
  <2>2. compute_next_fetch_at(svc, LastChecked(svc)) \in Int \cup {None}
    BY <1>2, <2>1, NextType
  <2>3. service' \in ServiceRow
    BY <1>3, <2>1, <2>2, WithNextType DEF SaveSettings
  <2>4. state' = state \/ (~ Busy(state) /\ state' = [state EXCEPT !.status = "idle"])
    BY <1>3 DEF SaveSettings
  <2>5. /\ state' \in StateRow
        /\ state'.failure = state.failure
        /\ state'.consecutive_failures = state.consecutive_failures
        /\ state' # state => state.status # "running" /\ state'.status = "idle"
    BY <1>1, <2>4 DEF Busy, StateRow
  <2>6. QED
    BY <1>3, <2>3, <2>5
    DEF SaveSettings, daemonVars, CycleInv, TypeOK, RunningIsFetched, StreakMatchesOutcome
<1>4. CASE RunNow
  <2>1. service' \in ServiceRow
    BY <1>1, <1>2, <1>4, NextType, WithNextType DEF RunNow
  <2>2. \/ state' = state
        \/ /\ ~ Busy(state)
           /\ state' = [state EXCEPT !.status = "queued", !.trigger = "manual"]
    BY <1>4 DEF RunNow
  <2>3. /\ state' \in StateRow
        /\ state'.failure = state.failure
        /\ state'.consecutive_failures = state.consecutive_failures
        /\ state' # state => /\ state.status # "running"
                             /\ state'.status = "queued"
                             /\ state'.trigger = "manual"
    BY <1>1, <2>2 DEF Busy, StateRow
  <2>4. QED
    BY <1>4, <2>1, <2>3
    DEF RunNow, CycleInv, TypeOK, RunningIsFetched, StreakMatchesOutcome
<1>5. ASSUME NEW saves \in BOOLEAN, NEW failure \in {"none", "retryable", "terminal"},
             NEW retry_after \in RetryAfters \cup {0},
             CliFetch(saves, failure, retry_after)
      PROVE  CycleInv'
  <2> DEFINE svc == IF saves THEN [service EXCEPT !.last_checked = now] ELSE service
  <2>1. svc \in ServiceRow
    BY <1>1 DEF ServiceRow
  <2>2. retry_after \in Int
    BY DelayAssumption
  <2>3. /\ compute_next_fetch_at(svc, now) \in Int \cup {None}
        /\ compute_retry_at(svc, failure, 1, retry_after) \in Int \cup {None}
    BY <1>1, <2>1, <2>2, NextType, RetryAtType
  <2>4. service' \in ServiceRow
    <3> HIDE DEF svc
    <3>1. \A next \in Int \cup {None} : [svc EXCEPT !.next_fetch_at = next] \in ServiceRow
      BY <2>1, WithNextType
    <3>2. service' = [svc EXCEPT !.next_fetch_at =
                        IF failure = "none" THEN compute_next_fetch_at(svc, now)
                        ELSE compute_retry_at(svc, failure, 1, retry_after)]
      BY <1>5 DEF CliFetch, svc
    <3>3. QED
      BY <2>3, <3>1, <3>2
  <2>5. QED
    BY <1>5, <2>4
    DEF CliFetch, daemonVars, CycleInv, TypeOK, RunningIsFetched, StreakMatchesOutcome
<1>6. QED
  BY <1>3, <1>4, <1>5

LEMMA CycleInvStep == CycleInv /\ [Next]_vars => CycleInv'
<1> SUFFICES ASSUME CycleInv, [Next]_vars PROVE CycleInv'
  OBVIOUS
<1>1. CASE Wake
  BY <1>1 DEF Wake, CycleInv, TypeOK, RunningIsFetched, StreakMatchesOutcome
<1>2. CASE ProviderSaves
  <2>1. loaded \in ServiceRow /\ now \in Times
    BY <1>2 DEF ProviderSaves, CycleInv, TypeOK, RunningIsFetched
  <2>2. loaded' \in ServiceRow
    BY <1>2, <2>1 DEF ProviderSaves, ServiceRow
  <2>3. QED
    BY <1>2, <2>2 DEF ProviderSaves, daemonVars, CycleInv, TypeOK, RunningIsFetched,
                      StreakMatchesOutcome
<1>3. CASE Crash
  <2>1. crashes' \in 0..MaxCrashes
    BY <1>3, DelayAssumption DEF Crash, CycleInv, TypeOK
  <2>2. QED
    BY <1>3, <2>1 DEF Crash, CycleInv, TypeOK, RunningIsFetched, StreakMatchesOutcome
<1>4. CASE Tick
  <2>1. now' \in Times
    BY <1>4, DelayAssumption DEF Tick, CycleInv, TypeOK, Times
  <2>2. QED
    BY <1>4, <2>1 DEF Tick, daemonVars, CycleInv, TypeOK, RunningIsFetched,
                      StreakMatchesOutcome
<1>5. CASE UNCHANGED vars
  BY <1>5 DEF vars, CycleInv, TypeOK, RunningIsFetched, StreakMatchesOutcome
<1>6. QED
  BY <1>1, <1>2, <1>3, <1>4, <1>5, CycleInvPlan, CycleInvClaim, CycleInvOutcome,
     CycleInvOwner DEF Next

\* The cycle's invariant holds in every reachable state.
THEOREM CycleInvAlways == Spec => []CycleInv
BY CycleInvInit, CycleInvStep, PTL DEF Spec

\* Every reachable state is well typed.
THEOREM TypeCorrect == Spec => []TypeOK
<1>1. CycleInv => TypeOK
  BY DEF CycleInv
<1>2. QED
  BY <1>1, CycleInvAlways, PTL

\* The streak of failures and the last failure's kind never disagree.
THEOREM StreakIsRight == Spec => []StreakMatchesOutcome
<1>1. CycleInv => StreakMatchesOutcome
  BY DEF CycleInv
<1>2. QED
  BY <1>1, CycleInvAlways, PTL

-----------------------------------------------------------------------------
(* The waits.  WaitsLongEnough is about the step that claims; the invariant  *)
(* behind it is that between outcomes the stored plan never undercuts the    *)
(* promise, unless the owner stepped in.                                     *)

Promised ==
  /\ state.status # "running"
  /\ state.finished_at # None
  /\ state.failure # "interrupted"
  /\ ~ owner

PlannedLongEnough ==
  Promised /\ service.active =>
    /\ service.next_fetch_at # None
    /\ service.next_fetch_at >= state.finished_at + PromisedWait

LEMMA PromisedWaitType ==
  ASSUME CycleInv, Promised
  PROVE  state.finished_at + PromisedWait \in Int
<1>1. /\ state \in StateRow
      /\ service \in ServiceRow
      /\ asked \in Int
  BY DelayAssumption DEF CycleInv, TypeOK
<1>2. state.finished_at \in Int /\ state.consecutive_failures \in Nat
  BY <1>1, DelayAssumption DEF Promised, StateRow, Times
<1>3. get_effective_interval_sec(service) \in Int
  BY <1>1, IntervalType
<1>4. state.failure = "retryable" =>
        RetryBase * 2 ^ Min2(state.consecutive_failures - 1, MaxDoublings) \in Int
  <2>1. state.failure = "retryable" => state.consecutive_failures # 0
    BY DEF CycleInv, StreakMatchesOutcome
  <2>2. state.failure = "retryable" =>
          Min2(state.consecutive_failures - 1, MaxDoublings) \in Nat
    BY <1>2, <2>1, DelayAssumption DEF Min2
  <2>3. QED
    BY <2>2, DelayAssumption
<1>5. state.failure \in {"none", "retryable", "terminal"}
  BY <1>1 DEF Promised, StateRow
<1>6. PromisedWait \in Int
  BY <1>1, <1>3, <1>4, <1>5, MinMaxType, DelayAssumption DEF PromisedWait
<1>7. QED
  BY <1>2, <1>6

\* The promise depends on the outcome, on the interval and on Retry-After.
LEMMA PromiseStays ==
  ASSUME state'.failure = state.failure,
         state'.consecutive_failures = state.consecutive_failures,
         state'.finished_at = state.finished_at,
         service'.fetch_interval_sec = service.fetch_interval_sec,
         asked' = asked
  PROVE  state'.finished_at + PromisedWait' = state.finished_at + PromisedWait
<1>1. get_effective_interval_sec(service)' = get_effective_interval_sec(service)
  BY DEF get_effective_interval_sec
<1>2. QED
  BY <1>1 DEF PromisedWait

\* A pass over the schedule keeps the plan.
LEMMA PassKeepsPlan ==
  ASSUME CycleInv, PlannedLongEnough, loop # "fetch",
         service' = Scheduled(service, Recovered(state)),
         state'.failure = Recovered(state).failure,
         state'.consecutive_failures = Recovered(state).consecutive_failures,
         state'.finished_at = Recovered(state).finished_at,
         asked' = asked, owner' = owner
  PROVE  /\ PlannedLongEnough'
         /\ Promised /\ service'.active =>
              /\ Recovered(state) = state
              /\ service'.next_fetch_at \in Int
              /\ service'.next_fetch_at >= state.finished_at + PromisedWait
<1>1. /\ service \in ServiceRow /\ service' \in ServiceRow
      /\ service'.active = service.active
      /\ service'.fetch_interval_sec = service.fetch_interval_sec
      /\ service.next_fetch_at # None =>
           service'.next_fetch_at # None /\ service'.next_fetch_at >= service.next_fetch_at
  BY ScheduledMovesForward DEF CycleInv, TypeOK
<1>2. /\ service.next_fetch_at \in Int \cup {None}
      /\ service'.next_fetch_at \in Int \cup {None}
  BY <1>1 DEF ServiceRow
<1>3. Promised /\ service'.active =>
        /\ Recovered(state) = state
        /\ service'.next_fetch_at \in Int
        /\ service'.next_fetch_at # None
        /\ service'.next_fetch_at >= state.finished_at + PromisedWait
  <2>1. SUFFICES ASSUME Promised, service'.active
                 PROVE  /\ Recovered(state) = state
                        /\ service'.next_fetch_at \in Int
                        /\ service'.next_fetch_at # None
                        /\ service'.next_fetch_at >= state.finished_at + PromisedWait
    OBVIOUS
  <2>2. Recovered(state) = state
    BY <2>1 DEF Promised, Recovered
  <2>3. /\ service.next_fetch_at # None
        /\ service.next_fetch_at >= state.finished_at + PromisedWait
    BY <1>1, <2>1 DEF PlannedLongEnough
  <2>4. QED
    BY <1>1, <1>2, <2>1, <2>2, <2>3, PromisedWaitType
<1>4. Promised' => Recovered(state) = state /\ Promised
  <2>1. CASE state.status = "running"
    <3>1. Recovered(state).failure = "interrupted"
      BY <2>1, RecoveredType
    <3>2. QED
      BY <3>1 DEF Promised
  <2>2. CASE state.status # "running"
    BY <2>2 DEF Recovered, Promised
  <2>3. QED
    BY <2>1, <2>2
<1>5. PlannedLongEnough'
  <2>1. SUFFICES ASSUME Promised', service'.active
                 PROVE  /\ service'.next_fetch_at # None
                        /\ service'.next_fetch_at >= state'.finished_at + PromisedWait'
    BY DEF PlannedLongEnough
  <2>2. state'.finished_at + PromisedWait' = state.finished_at + PromisedWait
    BY <1>1, <1>4, <2>1, PromiseStays
  <2>3. QED
    BY <1>3, <1>4, <2>1, <2>2
<1>6. QED
  BY <1>3, <1>5

\* An outcome plans exactly the wait it promises.
LEMMA OutcomePlans ==
  ASSUME CycleInv,
         \/ FetchSucceeds
         \/ \E failure \in {"retryable", "terminal"}, retry_after \in RetryAfters \cup {0} :
              FetchFails(failure, retry_after)
  PROVE  PlannedLongEnough'
<1>1. /\ now \in Times /\ now \in Int
      /\ service \in ServiceRow
      /\ state \in StateRow
  BY TimeType DEF CycleInv, TypeOK
<1>2. SUFFICES ASSUME service'.active
               PROVE  /\ service'.next_fetch_at # None
                      /\ service'.next_fetch_at >= state'.finished_at + PromisedWait'
  BY DEF PlannedLongEnough
<1>3. service'.active = service.active
      /\ service'.fetch_interval_sec = service.fetch_interval_sec
  BY <1>1 DEF FetchSucceeds, FetchFails, ServiceRow
<1>4. get_effective_interval_sec(service)' = get_effective_interval_sec(service)
  BY <1>3 DEF get_effective_interval_sec
<1>5. CASE FetchSucceeds
  <2>1. /\ state'.finished_at = now
        /\ state'.failure = "none"
    BY <1>1, <1>5 DEF FetchSucceeds, Succeeded, StateRow
  <2>2. PromisedWait' = get_effective_interval_sec(service)
    BY <1>4, <2>1 DEF PromisedWait
  <2>3. service'.next_fetch_at = now + get_effective_interval_sec(service)
    BY <1>1, <1>2, <1>3, <1>5 DEF FetchSucceeds, compute_next_fetch_at, ServiceRow
  <2>4. now + get_effective_interval_sec(service) \in Int
    BY <1>1, IntervalType
  <2>5. QED
    BY <2>1, <2>2, <2>3, <2>4, NoneAssumption
<1>6. ASSUME NEW failure \in {"retryable", "terminal"},
             NEW retry_after \in RetryAfters \cup {0}, FetchFails(failure, retry_after)
      PROVE  /\ service'.next_fetch_at # None
             /\ service'.next_fetch_at >= state'.finished_at + PromisedWait'
  <2> DEFINE n == state'.consecutive_failures
             delay == RetryDelay(service, failure, n)
  <2>1. /\ state' = Failed(state, failure)
        /\ state.consecutive_failures < MaxFailures
        /\ asked' = retry_after
    BY <1>6 DEF FetchFails
  <2>2. /\ state'.failure = failure
        /\ state'.finished_at = now
        /\ n = state.consecutive_failures + 1
    BY <1>1, <2>1, FailedType
  <2>3. n \in Int /\ n >= 1
    BY <1>1, <2>2, DelayAssumption DEF StateRow
  <2>4. delay \in Int /\ retry_after \in Int
    BY <1>1, <2>3, RetryDelayType, DelayAssumption
  <2>5. Doublings(n) = Min2(n - 1, MaxDoublings)
    BY <2>3 DEF Doublings, Max2
  <2>6. PromisedWait' = Max2(delay, retry_after)
    <3> HIDE DEF n
    <3>1. CASE failure = "terminal"
      <4>1. PromisedWait' =
              Max2(Max2(get_effective_interval_sec(service), TerminalDelay), retry_after)
        BY <1>4, <2>1, <2>2, <3>1 DEF PromisedWait
      <4>2. QED
        BY <3>1, <4>1 DEF RetryDelay
    <3>2. CASE failure = "retryable"
      <4>1. PromisedWait' =
              Max2(Min2(RetryBase * 2 ^ Min2(n - 1, MaxDoublings),
                        get_effective_interval_sec(service)), retry_after)
        BY <1>4, <2>1, <2>2, <3>2 DEF PromisedWait, n
      <4>2. QED
        BY <2>5, <3>2, <4>1 DEF RetryDelay
    <3>3. QED
      BY <3>1, <3>2
  <2>7. service'.next_fetch_at = now + Max2(delay, retry_after)
    BY <1>1, <1>2, <1>3, <1>6 DEF FetchFails, compute_retry_at, ServiceRow
  <2>8. now + Max2(delay, retry_after) \in Int
    <3> HIDE DEF delay
    <3>1. Max2(delay, retry_after) \in Int
      BY <2>4, MinMaxType
    <3>2. QED
      BY <1>1, <3>1
  <2>9. QED
    BY <2>2, <2>6, <2>7, <2>8, NoneAssumption
<1>7. QED
  BY <1>5, <1>6

LEMMA PlanInit == Init => PlannedLongEnough
BY DEF Init, PlannedLongEnough, Promised

LEMMA PlanStep ==
  CycleInv /\ PlannedLongEnough /\ [Next]_vars => PlannedLongEnough'
<1> SUFFICES ASSUME CycleInv, PlannedLongEnough, [Next]_vars PROVE PlannedLongEnough'
  OBVIOUS
<1>1. CASE Plan
  BY <1>1, PassKeepsPlan DEF Plan
<1>2. CASE ClaimJobs
  <2>1. Recovered(state) \in StateRow
    BY <1>2, RecoveredType DEF ClaimJobs
  <2>2. /\ state'.failure = Recovered(state).failure
        /\ state'.consecutive_failures = Recovered(state).consecutive_failures
        /\ state'.finished_at = Recovered(state).finished_at
    BY <1>2, <2>1 DEF ClaimJobs, StateRow
  <2>3. QED
    BY <1>2, <2>2, PassKeepsPlan DEF ClaimJobs
<1>3. CASE ProviderSaves
  BY <1>3 DEF ProviderSaves, CycleInv, RunningIsFetched, PlannedLongEnough, Promised
<1>4. CASE RunNow
  <2>1. state \in StateRow /\ service \in ServiceRow
    BY DEF CycleInv, TypeOK
  <2>2. /\ state'.failure = state.failure
        /\ state'.consecutive_failures = state.consecutive_failures
        /\ state'.finished_at = state.finished_at
        /\ state.status = "running" => state'.status = "running"
        /\ asked' = asked /\ owner' = owner
    BY <1>4, <2>1 DEF RunNow, Busy, StateRow
  <2>3. /\ service'.active = service.active
        /\ service'.fetch_interval_sec = service.fetch_interval_sec
        /\ service.next_fetch_at # None => service' = service
    BY <1>4, <2>1 DEF RunNow, ServiceRow
  <2>4. state'.finished_at + PromisedWait' = state.finished_at + PromisedWait
    BY <2>2, <2>3, PromiseStays
  <2>5. Promised' => Promised
    BY <2>2 DEF Promised
  <2>6. QED
    BY <2>2, <2>3, <2>4, <2>5 DEF PlannedLongEnough
<1>5. ASSUME \/ \E active \in BOOLEAN, interval \in Intervals : SaveSettings(active, interval)
             \/ \E saves \in BOOLEAN, failure \in {"none", "retryable", "terminal"},
                  retry_after \in RetryAfters \cup {0} :
                    CliFetch(saves, failure, retry_after)
      PROVE  PlannedLongEnough'
  BY <1>5 DEF SaveSettings, CliFetch, PlannedLongEnough, Promised
<1>6. ASSUME Wake \/ Crash \/ Tick \/ UNCHANGED vars PROVE PlannedLongEnough'
  <2>1. UNCHANGED <<service, state, asked, owner>>
    BY <1>6 DEF Wake, Crash, Tick, vars
  <2>2. QED
    BY <2>1 DEF PlannedLongEnough, Promised, PromisedWait, get_effective_interval_sec
<1>7. QED
  BY <1>1, <1>2, <1>3, <1>4, <1>5, <1>6, OutcomePlans DEF Next

\* Only a claim starts a scheduled fetch, and it finds the plan run out.
LEMMA ClaimWaited ==
  ASSUME CycleInv, PlannedLongEnough, [Next]_vars, Promised,
         state'.status = "running", state'.trigger = "schedule"
  PROVE  now >= state.finished_at + PromisedWait
<1>1. state.status # "running" /\ state \in StateRow /\ now \in Int
  BY TimeType DEF Promised, CycleInv, TypeOK
<1>2. CASE ClaimJobs
  <2>1. loop # "fetch" /\ Recovered(state) = state
    BY <1>1, <1>2 DEF ClaimJobs, Recovered
  <2>2. CASE state.status = "queued"
    <3>1. state' = [state EXCEPT !.status = "running"]
      BY <1>2, <2>1, <2>2 DEF ClaimJobs, Busy
    <3>2. state'.trigger = "manual"
      BY <1>1, <2>2, <3>1 DEF CycleInv, RunningIsFetched, StateRow
    <3>3. QED
      BY <3>2
  <2>3. CASE state.status # "queued"
    <3>1. service' = Scheduled(service, state) /\ Due(service')
      BY <1>1, <1>2, <2>1, <2>3 DEF ClaimJobs
    <3>2. /\ state'.failure = state.failure
          /\ state'.consecutive_failures = state.consecutive_failures
          /\ state'.finished_at = state.finished_at
      BY <1>1, <1>2, <2>1 DEF ClaimJobs, StateRow
    <3>3. /\ service'.next_fetch_at \in Int
          /\ service'.next_fetch_at >= state.finished_at + PromisedWait
      BY <1>2, <2>1, <3>1, <3>2, PassKeepsPlan DEF ClaimJobs, Due
    <3>4. service'.next_fetch_at <= now
      BY <3>1 DEF Due
    <3>5. QED
      BY <1>1, <3>3, <3>4, PromisedWaitType
  <2>4. QED
    BY <2>2, <2>3
<1>3. CASE Plan
  BY <1>3, RecoveredType DEF Plan
<1>4. CASE RunNow
  BY <1>1, <1>4 DEF RunNow, StateRow
<1>5. ASSUME NEW active \in BOOLEAN, NEW interval \in Intervals,
             SaveSettings(active, interval)
      PROVE  FALSE
  BY <1>1, <1>5 DEF SaveSettings, StateRow
<1>6. CASE UNCHANGED state
  BY <1>1, <1>6
<1>7. CASE loop = "fetch"
  BY <1>1, <1>7 DEF CycleInv, RunningIsFetched
<1>8. QED
  BY <1>2, <1>3, <1>4, <1>5, <1>6, <1>7
  DEF Next, Wake, ProviderSaves, FetchSucceeds, FetchFails, Crash, CliFetch, Tick, vars

\* No scheduled fetch comes sooner than the last outcome promised.
THEOREM ScheduleWaits == Spec => WaitsLongEnough
<1> DEFINE Waited ==
      /\ state.status # "running"
      /\ state'.status = "running"
      /\ state'.trigger = "schedule"
      /\ state.finished_at # None
      /\ state.failure # "interrupted"
      /\ ~ owner
      => now >= state.finished_at + PromisedWait
<1>1. CycleInv /\ PlannedLongEnough /\ [Next]_vars => [Waited]_vars
  BY ClaimWaited DEF Promised
<1>2. QED
  BY <1>1, PlanInit, PlanStep, CycleInvAlways, PTL DEF Spec, WaitsLongEnough
=============================================================================
