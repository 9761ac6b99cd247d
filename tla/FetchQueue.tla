----------------------------- MODULE FetchQueue -----------------------------
(***************************************************************************)
(* The fetch queue of glifestream/fetching.py: service rows and their      *)
(* fetch-state rows in the database, the one worker daemon that claims and *)
(* runs jobs, the job threads Python cannot stop, and the owner's requests *)
(* from the settings pages.                                                *)
(*                                                                         *)
(* Each action is one database statement or transaction together with the  *)
(* in-memory work around it, so everything that can run between two        *)
(* statements does.  Time is abstracted: a stored next_fetch_at lies ahead *)
(* ("later") or has passed ("due"), and a job that is waited for may pass  *)
(* its deadline at any moment.  FetchSchedule has the arithmetic.          *)
(***************************************************************************)
EXTENDS Naturals, FiniteSets

CONSTANTS
  Services,     \* the services a provider can fetch (is_service_fetchable)
  Tokens,       \* the worker tokens that can be in use at one time
  NoToken,      \* the empty worker_token
  MaxWorkers,   \* WORKER_POOL_SIZE
  Editable,     \* bound: the services whose settings the owner saves
  Deletable,    \* bound: the services the owner deletes
  MaxHung,      \* bound: the fetches that never return
  MaxFaults     \* bound: the crashes, database errors and dying threads

ASSUME TokenAssumption == NoToken \notin Tokens
ASSUME PoolAssumption == MaxWorkers \in Nat \ {0}
ASSUME BoundAssumption ==
  /\ Editable \subseteq Services
  /\ Deletable \subseteq Services
  /\ MaxHung \in Nat
  /\ MaxFaults \in Nat

VARIABLES
  stored,       \* the services whose row exists
  service,      \* the service rows
  state,        \* the fetch-state rows; a missing row reads as an idle one
  loop,         \* where the daemon is in its cycle
  phase,        \* which initialize_missing_schedules call: "top" or "claim"
  pending,      \* the active services that call has still to look at
  worker_token, \* the token of the last claim
  running,      \* the jobs _run_jobs waits for
  abandoning,   \* the overdue job that is recorded but not yet rescheduled
  job,          \* the jobs: what each thread does and its Service object
  form,         \* the settings form being saved for each service
  faults        \* how many of those happened

dbVars == <<stored, service, state>>
loopVars == <<loop, phase, pending>>
poolVars == <<worker_token, running, abandoning>>
vars == <<dbVars, loopVars, poolVars, job, form, faults>>

-----------------------------------------------------------------------------
(* Rows and jobs. *)

Statuses == {"idle", "queued", "running", "succeeded", "failed"}

ServiceRow == [active : BOOLEAN, next_fetch_at : {"none", "later", "due"}]
StateRow == [status : Statuses, worker_token : Tokens \cup {NoToken}]

IdleState == [status |-> "idle", worker_token |-> NoToken]
Unloaded == [active |-> FALSE, next_fetch_at |-> "none"]

JobSteps == {"none", "waiting", "fetching", "hung", "succeeded", "failed",
             "recorded", "finished"}
NoJob == [pc |-> "none", service |-> Unloaded]

\* Queued or running: a new request changes nothing, and the schedule waits.
Busy(s) == state[s].status \in {"queued", "running"}

\* The threads that may still act on what they loaded.
Live(t, s) ==
  job[<<t, s>>].pc \in {"fetching", "hung", "succeeded", "failed", "recorded"}

\* The daemon no longer waits for this thread, and has recorded that.
GivenUp(t, s) ==
  /\ Live(t, s)
  /\ ~ (t = worker_token /\ s \in running)
  /\ ~ (t = worker_token /\ loop = "recover")

\* compute_next_fetch_at: an inactive service has no next fetch.
NextFetchAt(row) == IF row.active THEN "later" ELSE "none"

\* A fresh uuid4 equals no token that a row or a thread still holds.
Unused(t) == \A s \in Services : job[<<t, s>>].pc = "none" /\ state[s].worker_token # t

-----------------------------------------------------------------------------
TypeOK ==
  /\ stored \subseteq Services
  /\ service \in [Services -> ServiceRow]
  /\ state \in [Services -> StateRow]
  /\ loop \in {"stopped", "recover", "schedule", "sleep", "commit", "load", "jobs"}
  /\ phase \in {"top", "claim"}
  /\ pending \subseteq Services
  /\ worker_token \in Tokens \cup {NoToken}
  /\ running \subseteq Services
  /\ abandoning \subseteq Services
  /\ job \in [Tokens \X Services -> [pc : JobSteps, service : ServiceRow]]
  /\ form \in [Services -> [pc : {"none", "saved", "busy", "free"}, active : BOOLEAN]]
  /\ faults \in 0..MaxFaults

NoForm == [pc |-> "none", active |-> FALSE]

Init ==
  /\ stored = Services
  /\ service = [s \in Services |-> [active |-> TRUE, next_fetch_at |-> "none"]]
  /\ state = [s \in Services |-> IdleState]
  /\ loop = "stopped"
  /\ phase = "top"
  /\ pending = {}
  /\ worker_token = NoToken
  /\ running = {}
  /\ abandoning = {}
  /\ job = [ts \in Tokens \X Services |-> NoJob]
  /\ form = [s \in Services |-> NoForm]
  /\ faults = 0

-----------------------------------------------------------------------------
(* The daemon's process. *)

OneFault == faults < MaxFaults /\ faults' = faults + 1

WorkerStart ==
  /\ loop = "stopped"
  /\ loop' = "recover"
  /\ phase' = "top"
  /\ UNCHANGED <<dbVars, pending, poolVars, job, form, faults>>

\* The process exits, and its daemon threads with it.
WorkerExits ==
  /\ loop' = "stopped"
  /\ phase' = "top"
  /\ pending' = {}
  /\ running' = {}
  /\ abandoning' = {}
  /\ worker_token' = NoToken
  /\ job' = [ts \in Tokens \X Services |-> NoJob]

Crash ==
  /\ loop # "stopped"
  /\ OneFault
  /\ WorkerExits
  /\ UNCHANGED <<dbVars, form>>

\* A DatabaseError inside run_ready_jobs ends this cycle, not the worker.
\* The jobs it waited for run on, and their rows stay as they are.
CycleFails ==
  /\ loop' = "recover"
  /\ phase' = "top"
  /\ pending' = {}
  /\ running' = {}
  /\ abandoning' = {}
  /\ job' = [ts \in Tokens \X Services |->
               IF job[ts].pc \in {"waiting", "finished"} THEN NoJob ELSE job[ts]]

-----------------------------------------------------------------------------
(* initialize_missing_schedules, which serve_once calls before it sleeps   *)
(* and claim_runnable_jobs calls again after it woke up.                   *)

\* Mutant: only what this process claimed itself.
RecoverOwnJobs(rows) ==
  [s \in Services |->
     IF rows[s].status = "running" /\ rows[s].worker_token = worker_token
       THEN [status |-> "failed", worker_token |-> NoToken]
       ELSE rows[s]]

\* recover_abandoned_fetch_states, one UPDATE.
RecoverAbandoned(rows) ==
  [s \in Services |->
     IF rows[s].status = "running"
       THEN [status |-> "failed", worker_token |-> NoToken]
       ELSE rows[s]]

Recover ==
  /\ loop = "recover"
  /\ state' = RecoverAbandoned(state)
  /\ pending' = {s \in stored : service[s].active}
  /\ loop' = "schedule"
  /\ UNCHANGED <<stored, service, phase, poolVars, job, form, faults>>

\* A missing or outdated next_fetch_at moves ahead; an interval after
\* last_checked may lie in the past, which BecomesDue then says.
ScheduleService(s) ==
  /\ loop = "schedule"
  /\ s \in pending \cap stored
  /\ pending' = pending \ {s}
  /\ \/ ~ Busy(s) /\ service' = [service EXCEPT ![s].next_fetch_at = "later"]
     \/ (Busy(s) \/ service[s].next_fetch_at # "none") /\ UNCHANGED service
  /\ UNCHANGED <<stored, state, loop, phase, poolVars, job, form, faults>>

\* The row was deleted after the list was read: the state row cannot be
\* created.  Only run_ready_jobs catches the DatabaseError.
ScheduleDeleted(s) ==
  /\ loop = "schedule"
  /\ s \in pending \ stored
  /\ IF phase = "claim" THEN CycleFails /\ UNCHANGED worker_token ELSE WorkerExits
  /\ UNCHANGED <<dbVars, form, faults>>

SchedulesDone ==
  /\ loop = "schedule"
  /\ pending = {}
  /\ loop' = IF phase = "top" THEN "sleep" ELSE "commit"
  /\ UNCHANGED <<dbVars, phase, pending, poolVars, job, form, faults>>

\* A wake-up signal, a due fetch or the next maintenance job.
Wake ==
  /\ loop = "sleep"
  /\ loop' = "recover"
  /\ phase' = "claim"
  /\ UNCHANGED <<dbVars, pending, poolVars, job, form, faults>>

-----------------------------------------------------------------------------
(* The claim, and the jobs. *)

\* Mutant: a queued service waits for its schedule.
ClaimableBySchedule ==
  {s \in stored : service[s].active /\ service[s].next_fetch_at = "due" /\ ~ Busy(s)}

Claimable ==
  {s \in Services :
     \/ state[s].status = "queued"
     \/ /\ s \in stored
        /\ service[s].active
        /\ service[s].next_fetch_at = "due"
        /\ ~ Busy(s)}

NothingToClaim ==
  /\ loop = "commit"
  /\ Claimable = {}
  /\ loop' = "recover"
  /\ phase' = "top"
  /\ UNCHANGED <<dbVars, pending, poolVars, job, form, faults>>

\* One transaction.
ClaimJobs(t) ==
  /\ loop = "commit"
  /\ Claimable # {}
  /\ Unused(t)
  /\ worker_token' = t
  /\ state' = [s \in Services |->
                 IF s \in Claimable
                   THEN [status |-> "running", worker_token |-> t]
                   ELSE state[s]]
  /\ job' = [ts \in Tokens \X Services |->
               IF ts[1] = t /\ ts[2] \in Claimable
                 THEN [pc |-> "waiting", service |-> Unloaded]
                 ELSE job[ts]]
  /\ loop' = "load"
  /\ UNCHANGED <<stored, service, phase, pending, running, abandoning, form, faults>>

Waiting == {s \in Services : worker_token \in Tokens /\ job[<<worker_token, s>>].pc = "waiting"}

\* Service.objects.get for each claimed job, after the claim is committed.
LoadJobs ==
  /\ loop = "load"
  /\ Waiting \subseteq stored
  /\ job' = [ts \in Tokens \X Services |->
               IF ts[1] = worker_token /\ ts[2] \in Waiting
                 THEN [job[ts] EXCEPT !.service = service[ts[2]]]
                 ELSE job[ts]]
  /\ loop' = "jobs"
  /\ UNCHANGED <<dbVars, phase, pending, poolVars, form, faults>>

\* DoesNotExist is no DatabaseError, so nothing catches it.
LoadDeleted ==
  /\ loop = "load"
  /\ ~ (Waiting \subseteq stored)
  /\ WorkerExits
  /\ UNCHANGED <<dbVars, form, faults>>

\* Mutants: one job too many; every thread counts, as in a thread pool.
HasRoomForOneMore == Cardinality(running) <= MaxWorkers
HasThread == Cardinality({ts \in Tokens \X Services : Live(ts[1], ts[2])}) < MaxWorkers

HasRoom == Cardinality(running) < MaxWorkers

StartJob(s) ==
  /\ loop = "jobs"
  /\ abandoning = {}
  /\ s \in Waiting
  /\ HasRoom
  /\ running' = running \cup {s}
  /\ job' = [job EXCEPT ![<<worker_token, s>>].pc = "fetching"]
  /\ UNCHANGED <<dbVars, loopVars, worker_token, abandoning, form, faults>>

\* finished.get returned; a job given up before is no longer in running.
CollectFinished(s) ==
  /\ loop = "jobs"
  /\ abandoning = {}
  /\ worker_token \in Tokens
  /\ job[<<worker_token, s>>].pc = "finished"
  /\ running' = running \ {s}
  /\ job' = [job EXCEPT ![<<worker_token, s>>] = NoJob]
  /\ UNCHANGED <<dbVars, loopVars, worker_token, abandoning, form, faults>>

JobsDone ==
  /\ loop = "jobs"
  /\ abandoning = {}
  /\ Waiting = {}
  /\ running = {}
  /\ loop' = "recover"
  /\ phase' = "top"
  /\ job' = [ts \in Tokens \X Services |->
               IF job[ts].pc = "finished" THEN NoJob ELSE job[ts]]
  /\ UNCHANGED <<dbVars, pending, poolVars, form, faults>>

-----------------------------------------------------------------------------
(* Outcomes. *)

\* Mutants: any running row; any row.
RowRuns(t, s) == state[s].status = "running"
AnyRow(t, s) == TRUE

\* _record_outcome: the UPDATE matches only while the token is still there.
HoldsToken(t, s) == state[s].worker_token = t

\* Mutant: the token stays.
RecordedKeepingToken(s, outcome) == state' = [state EXCEPT ![s].status = outcome]

Recorded(s, outcome) ==
  state' = [state EXCEPT ![s] = [status |-> outcome, worker_token |-> NoToken]]

\* _abandon_overdue_jobs for one job, up to its UPDATE.
AbandonJob(s) ==
  /\ loop = "jobs"
  /\ abandoning = {}
  /\ s \in running
  /\ running' = running \ {s}
  /\ IF HoldsToken(worker_token, s)
       THEN Recorded(s, "failed") /\ abandoning' = {s}
       ELSE UNCHANGED <<state, abandoning>>
  /\ UNCHANGED <<stored, service, loopVars, worker_token, job, form, faults>>

\* The rest of _update_state_failure, on the Service object the thread has too.
RescheduleAbandoned(s) ==
  /\ s \in abandoning \cap stored
  /\ LET next == NextFetchAt(job[<<worker_token, s>>].service) IN
     /\ job' = [job EXCEPT ![<<worker_token, s>>].service.next_fetch_at = next]
     /\ service' = [service EXCEPT ![s].next_fetch_at = next]
  /\ abandoning' = {}
  /\ UNCHANGED <<stored, state, loopVars, worker_token, running, form, faults>>

\* The row is gone: reading the attempt is a DoesNotExist, which nothing
\* catches, or save(update_fields=...) a DatabaseError.
AbandonDeleted ==
  /\ loop = "jobs"
  /\ abandoning \ stored # {}
  /\ WorkerExits \/ (CycleFails /\ UNCHANGED worker_token)
  /\ UNCHANGED <<dbVars, form, faults>>

\* The database is locked for too long.
AbandonFails ==
  /\ loop = "jobs"
  /\ running \cup abandoning # {}
  /\ OneFault
  /\ CycleFails
  /\ UNCHANGED <<dbVars, worker_token, form>>

-----------------------------------------------------------------------------
(* run_service_fetch in the thread of job <<t, s>>. *)

\* The thread's last step: finished.put, to a queue a later cycle ignores.
Ended(t) == IF loop = "jobs" /\ t = worker_token THEN "finished" ELSE "none"

EndJob(t, s) ==
  job' = [job EXCEPT ![<<t, s>>] = IF Ended(t) = "none" THEN NoJob
                                                    ELSE [@ EXCEPT !.pc = "finished"]]

\* The provider's self.service.save() writes every column of the object the
\* thread loaded, and inserts the row if it is gone.
ProviderSaves(t, s) ==
  /\ job[<<t, s>>].pc = "fetching"
  /\ service' = [service EXCEPT ![s] = job[<<t, s>>].service]
  /\ stored' = stored \cup {s}
  /\ UNCHANGED <<state, loopVars, poolVars, job, form, faults>>

\* api.run() returned or raised, and service.refresh_from_db() read the row.
FetchEnds(t, s) ==
  /\ job[<<t, s>>].pc = "fetching"
  /\ IF s \in stored
       THEN \E outcome \in {"succeeded", "failed"} :
              job' = [job EXCEPT ![<<t, s>>] = [pc |-> outcome, service |-> service[s]]]
       ELSE EndJob(t, s)
  /\ UNCHANGED <<dbVars, loopVars, poolVars, form, faults>>

\* The handler's own queries fail: the thread ends and records nothing.
JobDies(t, s) ==
  /\ job[<<t, s>>].pc \in {"fetching", "succeeded", "failed", "recorded"}
  /\ OneFault
  /\ EndJob(t, s)
  /\ UNCHANGED <<dbVars, loopVars, poolVars, form>>

RecordOutcome(t, s) ==
  /\ job[<<t, s>>].pc \in {"succeeded", "failed"}
  /\ IF HoldsToken(t, s)
       THEN /\ Recorded(s, job[<<t, s>>].pc)
            /\ job' = [job EXCEPT ![<<t, s>>].pc = "recorded"]
       ELSE EndJob(t, s) /\ UNCHANGED state
  /\ UNCHANGED <<stored, service, loopVars, poolVars, form, faults>>

RescheduleJob(t, s) ==
  /\ job[<<t, s>>].pc = "recorded"
  /\ service' = IF s \in stored
                  THEN [service EXCEPT ![s].next_fetch_at = NextFetchAt(job[<<t, s>>].service)]
                  ELSE service
  /\ EndJob(t, s)
  /\ UNCHANGED <<stored, state, loopVars, poolVars, form, faults>>

\* The remote never answers.
Hang(t, s) ==
  /\ job[<<t, s>>].pc = "fetching"
  /\ Cardinality({ts \in Tokens \X Services : job[ts].pc = "hung"}) < MaxHung
  /\ job' = [job EXCEPT ![<<t, s>>].pc = "hung"]
  /\ UNCHANGED <<dbVars, loopVars, poolVars, form, faults>>

-----------------------------------------------------------------------------
(* The owner, and time. *)

\* enqueue_manual_fetch, one transaction.
RunNow(s) ==
  /\ s \in stored
  /\ state' = IF Busy(s) THEN state
              ELSE [state EXCEPT ![s] = [status |-> "queued", worker_token |-> NoToken]]
  /\ service' = IF service[s].next_fetch_at = "none"
                  THEN [service EXCEPT ![s].next_fetch_at = NextFetchAt(service[s])]
                  ELSE service
  /\ UNCHANGED <<stored, loopVars, poolVars, job, form, faults>>

\* persist_service_payload saves the form's row, and then sync_service_schedule
\* reads the state row, and writes by what it read.
SaveSettings(s, active) ==
  /\ s \in Editable \cap stored
  /\ form[s].pc = "none"
  /\ service' = [service EXCEPT ![s].active = active]
  /\ form' = [form EXCEPT ![s] = [pc |-> "saved", active |-> active]]
  /\ UNCHANGED <<stored, state, loopVars, poolVars, job, faults>>

SyncRead(s) ==
  /\ form[s].pc = "saved"
  /\ form' = [form EXCEPT ![s].pc = IF Busy(s) THEN "busy" ELSE "free"]
  /\ UNCHANGED <<dbVars, loopVars, poolVars, job, faults>>

SyncWrite(s) ==
  /\ form[s].pc \in {"busy", "free"}
  /\ IF s \in stored
       THEN /\ state' = IF ~ form[s].active /\ form[s].pc = "free"
                          THEN [state EXCEPT ![s] = IdleState]
                          ELSE state
            /\ service' = [service EXCEPT ![s].next_fetch_at = NextFetchAt(form[s])]
       ELSE UNCHANGED <<state, service>>
  /\ form' = [form EXCEPT ![s] = NoForm]
  /\ UNCHANGED <<stored, loopVars, poolVars, job, faults>>

\* The admin deletes the service, and its state row with it.
DeleteService(s) ==
  /\ s \in Deletable \cap stored
  /\ stored' = stored \ {s}
  /\ service' = [service EXCEPT ![s] = Unloaded]
  /\ state' = [state EXCEPT ![s] = IdleState]
  /\ UNCHANGED <<loopVars, poolVars, job, form, faults>>

BecomesDue(s) ==
  /\ service[s].next_fetch_at = "later"
  /\ service' = [service EXCEPT ![s].next_fetch_at = "due"]
  /\ UNCHANGED <<stored, state, loopVars, poolVars, job, form, faults>>

-----------------------------------------------------------------------------
DaemonStep ==
  \/ WorkerStart
  \/ Recover
  \/ \E s \in Services : ScheduleService(s) \/ ScheduleDeleted(s)
  \/ SchedulesDone
  \/ Wake
  \/ NothingToClaim
  \/ \E t \in Tokens : ClaimJobs(t)
  \/ LoadJobs
  \/ LoadDeleted
  \/ \E s \in Services : StartJob(s) \/ CollectFinished(s)
  \/ JobsDone
  \/ \E s \in Services : AbandonJob(s) \/ RescheduleAbandoned(s)
  \/ AbandonDeleted

JobStep(t, s) == FetchEnds(t, s) \/ RecordOutcome(t, s) \/ RescheduleJob(t, s)

Fault ==
  \/ Crash
  \/ AbandonFails
  \/ \E t \in Tokens, s \in Services : JobDies(t, s) \/ Hang(t, s)

OwnerStep(s) ==
  \/ RunNow(s)
  \/ \E active \in BOOLEAN : SaveSettings(s, active)
  \/ SyncRead(s)
  \/ SyncWrite(s)
  \/ DeleteService(s)

Next ==
  \/ DaemonStep
  \/ \E t \in Tokens, s \in Services : JobStep(t, s) \/ ProviderSaves(t, s)
  \/ Fault
  \/ \E s \in Services : OwnerStep(s) \/ BecomesDue(s)

Spec == Init /\ [][Next]_vars

\* A process manager restarts the daemon and its loop keeps going; a fetch
\* that does not hang ends, be it long after its deadline.  The owner, the
\* faults and the provider's saves owe nothing.
Fairness ==
  /\ WF_vars(DaemonStep)
  /\ \A t \in Tokens, s \in Services : WF_vars(JobStep(t, s))

FairSpec == Spec /\ Fairness

-----------------------------------------------------------------------------
(* Properties. *)

\* After each recovery no row says "running" until the next claim, so a job
\* that died without a word never blocks its service's next fetch.
NothingLeftRunning ==
  loop \in {"schedule", "sleep", "commit"} =>
    \A s \in Services : state[s].status # "running"

\* A thread the daemon gave up on holds no token: whatever it does later, its
\* UPDATE in _record_outcome matches no row.
GivenUpHoldsNoToken ==
  \A t \in Tokens, s \in Services : GivenUp(t, s) => state[s].worker_token # t

\* However many hung threads pile up, at most MaxWorkers of them can still
\* record an outcome while the daemon waits for jobs.
PoolLimit ==
  loop = "jobs" =>
    Cardinality({ts \in Tokens \X Services :
                   Live(ts[1], ts[2]) /\ state[ts[2]].worker_token = ts[1]}) <= MaxWorkers

\* The first outcome of a claim stands: a timeout and a late success never
\* overwrite one another.
OutcomeStands ==
  [][\A s \in Services :
       /\ state[s].status \in {"succeeded", "failed"}
       /\ state'[s].status \in {"succeeded", "failed"}
       => state'[s].status = state[s].status]_vars

\* A success is recorded only by a job the daemon still waits for, or has not
\* yet written off after a failed cycle.
SuccessIsAwaited ==
  [][\A s \in Services :
       state[s].status = "running" /\ state'[s].status = "succeeded"
       => s \in running \/ loop = "recover"]_vars

\* "Run now" is answered: every stored request is claimed in the end, whatever
\* hangs, dies or crashes meanwhile.
RequestIsClaimed ==
  \A s \in Services : state[s].status = "queued" ~> state[s].status = "running"

\* Every claim gets an outcome, be it a timeout or an interruption.
ClaimEnds ==
  \A s \in Services : state[s].status = "running" ~> state[s].status # "running"

\* A hung fetch delays the jobs behind it, and stops none of them.
WaitingJobStarts == \A s \in Services : s \in Waiting ~> s \notin Waiting

Requests ==
  INSTANCE FetchRequests
    WITH status <- [s \in Services |-> state[s].status],
         Forgettable <- Editable \cup Deletable

\* The queue does what FetchRequests promises: each claim takes every request
\* there is and no running fetch, each fetch ends once, and only an owner who
\* switches a service off or deletes it makes a request go away.
ServesRequests == Requests!Spec

\* test_fetching_timeout.py says a fetch that finishes after its timeout
\* changes nothing.
LateFetchChangesNothing ==
  [][\A t \in Tokens, s \in Services :
       GivenUp(t, s) /\ (ProviderSaves(t, s) \/ JobStep(t, s))
       => /\ <<stored, state>>' = <<stored, state>>
          /\ service'[s].active = service[s].active]_vars
=============================================================================
