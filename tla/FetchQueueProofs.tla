-------------------------- MODULE FetchQueueProofs --------------------------
(* The theorems about FetchQueue, for every set of services and tokens and *)
(* every pool size.                                                        *)
EXTENDS FetchQueue, FiniteSetTheorems, TLAPS

-----------------------------------------------------------------------------
(* Types. *)

LEMMA EndJobType ==
  ASSUME TypeOK, NEW t \in Tokens, NEW s \in Services, EndJob(t, s)
  PROVE  job' \in [Tokens \X Services -> [pc : JobSteps, service : ServiceRow]]
<1>1. NoJob \in [pc : JobSteps, service : ServiceRow]
  BY DEF NoJob, Unloaded, JobSteps, ServiceRow
<1>2. [job[<<t, s>>] EXCEPT !.pc = "finished"] \in [pc : JobSteps, service : ServiceRow]
  BY DEF TypeOK, JobSteps
<1>3. QED
  BY <1>1, <1>2 DEF TypeOK, EndJob

LEMMA NextFetchType ==
  ASSUME NEW rows \in [Services -> ServiceRow], NEW s \in Services,
         NEW next \in {"none", "later", "due"}
  PROVE  [rows EXCEPT ![s].next_fetch_at = next] \in [Services -> ServiceRow]
BY DEF ServiceRow

LEMMA NextFetchAtType == \A row : NextFetchAt(row) \in {"none", "later", "due"}
BY DEF NextFetchAt

LEMMA ExitType ==
  ASSUME TypeOK, WorkerExits
  PROVE  /\ loop' = "stopped" /\ phase' = "top"
         /\ pending' \subseteq Services
         /\ worker_token' \in Tokens \cup {NoToken}
         /\ running' \subseteq Services
         /\ abandoning' \subseteq Services
         /\ job' \in [Tokens \X Services -> [pc : JobSteps, service : ServiceRow]]
BY DEF TypeOK, WorkerExits, NoJob, Unloaded, JobSteps, ServiceRow

LEMMA CycleFailsType ==
  ASSUME TypeOK, CycleFails
  PROVE  /\ loop' = "recover" /\ phase' = "top"
         /\ pending' \subseteq Services
         /\ running' \subseteq Services
         /\ abandoning' \subseteq Services
         /\ job' \in [Tokens \X Services -> [pc : JobSteps, service : ServiceRow]]
BY DEF TypeOK, CycleFails, NoJob, Unloaded, JobSteps, ServiceRow

LEMMA TypeDaemon == TypeOK /\ DaemonStep => TypeOK'
<1> SUFFICES ASSUME TypeOK, DaemonStep PROVE TypeOK'
  OBVIOUS
<1> USE DEF dbVars, loopVars, poolVars
<1>1. CASE WorkerStart
  BY <1>1 DEF WorkerStart, TypeOK
<1>2. CASE Recover
  BY <1>2 DEF Recover, RecoverAbandoned, TypeOK, StateRow, Statuses
<1>3. ASSUME NEW s \in Services, ScheduleService(s) PROVE TypeOK'
  <2>1. service' \in [Services -> ServiceRow]
    <3>1. [service EXCEPT ![s].next_fetch_at = "later"] \in [Services -> ServiceRow]
      BY NextFetchType DEF TypeOK
    <3>2. QED
      BY <1>3, <3>1 DEF ScheduleService, TypeOK
  <2>2. QED
    BY <1>3, <2>1 DEF ScheduleService, TypeOK
<1>4. ASSUME NEW s \in Services, ScheduleDeleted(s) PROVE TypeOK'
  BY <1>4, ExitType, CycleFailsType DEF ScheduleDeleted, TypeOK
<1>5. CASE SchedulesDone
  BY <1>5 DEF SchedulesDone, TypeOK
<1>6. CASE Wake
  BY <1>6 DEF Wake, TypeOK
<1>7. CASE NothingToClaim
  BY <1>7 DEF NothingToClaim, TypeOK
<1>8. ASSUME NEW t \in Tokens, ClaimJobs(t) PROVE TypeOK'
  BY <1>8 DEF ClaimJobs, TypeOK, StateRow, Statuses, JobSteps, Unloaded, ServiceRow
<1>9. CASE LoadJobs
  BY <1>9 DEF LoadJobs, TypeOK
<1>10. CASE LoadDeleted
  BY <1>10, ExitType DEF LoadDeleted, TypeOK
<1>11. ASSUME NEW s \in Services, StartJob(s) PROVE TypeOK'
  BY <1>11 DEF StartJob, TypeOK, JobSteps
<1>12. ASSUME NEW s \in Services, CollectFinished(s) PROVE TypeOK'
  BY <1>12 DEF CollectFinished, TypeOK, NoJob, Unloaded, JobSteps, ServiceRow
<1>13. CASE JobsDone
  BY <1>13 DEF JobsDone, TypeOK, NoJob, Unloaded, JobSteps, ServiceRow
<1>14. ASSUME NEW s \in Services, AbandonJob(s) PROVE TypeOK'
  BY <1>14 DEF AbandonJob, Recorded, TypeOK, StateRow, Statuses
<1>15. ASSUME NEW s \in Services, RescheduleAbandoned(s) PROVE TypeOK'
  <2> DEFINE next == NextFetchAt(job[<<worker_token, s>>].service)
  <2>1. next \in {"none", "later", "due"}
    BY NextFetchAtType
  <2>2. service' \in [Services -> ServiceRow]
    BY <1>15, <2>1, NextFetchType DEF RescheduleAbandoned, TypeOK
  <2>3. job' \in [Tokens \X Services -> [pc : JobSteps, service : ServiceRow]]
    <3> DEFINE old == job[<<worker_token, s>>]
    <3>1. CASE worker_token \in Tokens
      <4>1. [old EXCEPT !.service.next_fetch_at = next] \in [pc : JobSteps, service : ServiceRow]
        <5>1. old \in [pc : JobSteps, service : ServiceRow]
          BY <3>1 DEF TypeOK
        <5>2. [old.service EXCEPT !.next_fetch_at = next] \in ServiceRow
          BY <2>1, <5>1 DEF ServiceRow
        <5>3. QED
          BY <5>1, <5>2
      <4>2. QED
        BY <1>15, <3>1, <4>1 DEF RescheduleAbandoned, TypeOK
    <3>2. CASE worker_token \notin Tokens
      <4>1. job' = job
        BY <1>15, <3>2 DEF RescheduleAbandoned, TypeOK
      <4>2. QED
        BY <4>1 DEF TypeOK
    <3>3. QED
      BY <3>1, <3>2
  <2>4. QED
    BY <1>15, <2>2, <2>3 DEF RescheduleAbandoned, TypeOK
<1>16. CASE AbandonDeleted
  BY <1>16, ExitType, CycleFailsType DEF AbandonDeleted, TypeOK
<1>17. QED
  BY <1>1, <1>2, <1>3, <1>4, <1>5, <1>6, <1>7, <1>8, <1>9, <1>10, <1>11, <1>12,
     <1>13, <1>14, <1>15, <1>16 DEF DaemonStep

LEMMA TypeThread ==
  ASSUME TypeOK, NEW t \in Tokens, NEW s \in Services,
         JobStep(t, s) \/ ProviderSaves(t, s) \/ JobDies(t, s) \/ Hang(t, s)
  PROVE  TypeOK'
<1> USE DEF dbVars, loopVars, poolVars
<1>1. CASE FetchEnds(t, s)
  <2>1. CASE s \in stored
    <3>1. service[s] \in ServiceRow
      BY DEF TypeOK
    <3>2. PICK outcome \in {"succeeded", "failed"} :
            job' = [job EXCEPT ![<<t, s>>] = [pc |-> outcome, service |-> service[s]]]
      BY <1>1, <2>1 DEF FetchEnds
    <3>3. job' \in [Tokens \X Services -> [pc : JobSteps, service : ServiceRow]]
      BY <3>1, <3>2 DEF TypeOK, JobSteps
    <3>4. QED
      BY <1>1, <3>3 DEF FetchEnds, TypeOK
  <2>2. CASE s \notin stored
    <3>1. job' \in [Tokens \X Services -> [pc : JobSteps, service : ServiceRow]]
      BY <1>1, <2>2, EndJobType DEF FetchEnds
    <3>2. QED
      BY <1>1, <3>1 DEF FetchEnds, TypeOK
  <2>3. QED
    BY <2>1, <2>2
<1>2. CASE RecordOutcome(t, s)
  <2>1. CASE HoldsToken(t, s)
    <3>1. state' \in [Services -> StateRow]
      <4>1. [status |-> job[<<t, s>>].pc, worker_token |-> NoToken] \in StateRow
        BY <1>2 DEF RecordOutcome, StateRow, Statuses
      <4>2. state' = [state EXCEPT ![s] = [status |-> job[<<t, s>>].pc, worker_token |-> NoToken]]
        BY <1>2, <2>1 DEF RecordOutcome, Recorded
      <4>3. QED
        BY <4>1, <4>2 DEF TypeOK
    <3>2. job' \in [Tokens \X Services -> [pc : JobSteps, service : ServiceRow]]
      <4>1. job' = [job EXCEPT ![<<t, s>>].pc = "recorded"]
        BY <1>2, <2>1 DEF RecordOutcome
      <4>2. QED
        BY <4>1 DEF TypeOK, JobSteps
    <3>3. QED
      BY <1>2, <3>1, <3>2 DEF RecordOutcome, TypeOK
  <2>2. CASE ~ HoldsToken(t, s)
    <3>1. job' \in [Tokens \X Services -> [pc : JobSteps, service : ServiceRow]]
      BY <1>2, <2>2, EndJobType DEF RecordOutcome
    <3>2. QED
      BY <1>2, <2>2, <3>1 DEF RecordOutcome, TypeOK
  <2>3. QED
    BY <2>1, <2>2
<1>3. CASE RescheduleJob(t, s)
  <2>1. job' \in [Tokens \X Services -> [pc : JobSteps, service : ServiceRow]]
    BY <1>3, EndJobType DEF RescheduleJob
  <2>2. service' \in [Services -> ServiceRow]
    BY <1>3, NextFetchType, NextFetchAtType DEF RescheduleJob, TypeOK
  <2>3. QED
    BY <1>3, <2>1, <2>2 DEF RescheduleJob, TypeOK
<1>4. CASE ProviderSaves(t, s)
  BY <1>4 DEF ProviderSaves, TypeOK
<1>5. CASE JobDies(t, s)
  <2>1. job' \in [Tokens \X Services -> [pc : JobSteps, service : ServiceRow]]
    BY <1>5, EndJobType DEF JobDies
  <2>2. QED
    BY <1>5, <2>1, BoundAssumption DEF JobDies, OneFault, TypeOK
<1>6. CASE Hang(t, s)
  BY <1>6 DEF Hang, TypeOK, JobSteps
<1>7. QED
  BY <1>1, <1>2, <1>3, <1>4, <1>5, <1>6 DEF JobStep

LEMMA TypeOwner ==
  ASSUME TypeOK, NEW s \in Services, OwnerStep(s) \/ BecomesDue(s)
  PROVE  TypeOK'
<1> USE DEF dbVars, loopVars, poolVars
<1>1. CASE RunNow(s)
  BY <1>1 DEF RunNow, NextFetchAt, TypeOK, StateRow, Statuses, ServiceRow
<1>2. ASSUME NEW active \in BOOLEAN, SaveSettings(s, active) PROVE TypeOK'
  BY <1>2 DEF SaveSettings, TypeOK, ServiceRow
<1>3. CASE SyncRead(s)
  BY <1>3 DEF SyncRead, TypeOK
<1>4. CASE SyncWrite(s)
  <2>1. service' \in [Services -> ServiceRow]
    <3>1. [service EXCEPT ![s].next_fetch_at = NextFetchAt(form[s])] \in [Services -> ServiceRow]
      BY NextFetchType, NextFetchAtType DEF TypeOK
    <3>2. QED
      BY <1>4, <3>1 DEF SyncWrite, TypeOK
  <2>2. state' \in [Services -> StateRow]
    BY <1>4 DEF SyncWrite, IdleState, TypeOK, StateRow, Statuses
  <2>3. QED
    BY <1>4, <2>1, <2>2 DEF SyncWrite, NoForm, TypeOK
<1>5. CASE DeleteService(s)
  BY <1>5 DEF DeleteService, IdleState, Unloaded, TypeOK, StateRow, Statuses, ServiceRow
<1>6. CASE BecomesDue(s)
  BY <1>6 DEF BecomesDue, TypeOK, ServiceRow
<1>7. QED
  BY <1>1, <1>2, <1>3, <1>4, <1>5, <1>6 DEF OwnerStep

LEMMA TypeInit == Init => TypeOK
BY BoundAssumption
DEF Init, TypeOK, ServiceRow, StateRow, Statuses, IdleState, JobSteps, NoJob,
    Unloaded, NoForm

LEMMA TypeStep == TypeOK /\ [Next]_vars => TypeOK'
<1> SUFFICES ASSUME TypeOK, [Next]_vars PROVE TypeOK'
  OBVIOUS
<1>1. CASE Crash
  BY <1>1, ExitType, BoundAssumption DEF Crash, OneFault, TypeOK, dbVars
<1>2. CASE AbandonFails
  BY <1>2, CycleFailsType, BoundAssumption DEF AbandonFails, OneFault, TypeOK, dbVars
<1>3. CASE UNCHANGED vars
  BY <1>3 DEF vars, dbVars, loopVars, poolVars, TypeOK
<1>4. QED
  BY <1>1, <1>2, <1>3, TypeDaemon, TypeThread, TypeOwner DEF Next, Fault

\* Every reachable state is well typed.
THEOREM TypeCorrect == Spec => []TypeOK
BY TypeInit, TypeStep, PTL DEF Spec

-----------------------------------------------------------------------------
(* The fence.  GivenUpHoldsNoToken is not inductive by itself: that a job   *)
(* the daemon waits for is the only one that can hold a token rests on each *)
(* claim starting from rows without one, and on each row that leaves        *)
(* "running" losing its token.                                              *)

RunningHasToken ==
  \A s \in Services : state[s].status = "running" <=> state[s].worker_token # NoToken

HolderIsAwaited ==
  \A t \in Tokens, s \in Services :
    Live(t, s) /\ state[s].worker_token = t =>
      t = worker_token /\ ((loop = "jobs" /\ s \in running) \/ loop = "recover")

QueueInv == RunningHasToken /\ NothingLeftRunning /\ HolderIsAwaited

LEMMA QueueInvInit == Init => QueueInv
BY TokenAssumption
DEF Init, QueueInv, RunningHasToken, NothingLeftRunning, HolderIsAwaited, Live,
    IdleState, NoJob

\* The threads of an exiting process are gone, and the rows stay.
LEMMA QueueInvExit ==
  ASSUME QueueInv, WorkerExits, state' = state
  PROVE  QueueInv'
BY DEF QueueInv, RunningHasToken, NothingLeftRunning, HolderIsAwaited, Live,
       WorkerExits, NoJob

\* A failed cycle awaits nobody, and keeps the token until the next recovery.
LEMMA QueueInvCycleFails ==
  ASSUME QueueInv, CycleFails, state' = state, worker_token' = worker_token
  PROVE  QueueInv'
<1> USE DEF QueueInv, RunningHasToken, NothingLeftRunning, HolderIsAwaited
<1>1. ASSUME NEW t \in Tokens, NEW s \in Services, Live(t, s)'
      PROVE  Live(t, s)
  BY <1>1 DEF Live, CycleFails, NoJob
<1>2. QED
  BY <1>1 DEF CycleFails

LEMMA QueueInvDaemon == TypeOK /\ QueueInv /\ DaemonStep => QueueInv'
<1> SUFFICES ASSUME TypeOK, QueueInv, DaemonStep PROVE QueueInv'
  OBVIOUS
<1> USE DEF dbVars, loopVars, poolVars, QueueInv, RunningHasToken, NothingLeftRunning,
            HolderIsAwaited
<1>1. CASE WorkerStart
  BY <1>1 DEF WorkerStart, Live
<1>2. CASE Recover
  <2>1. \A s \in Services : /\ state'[s].worker_token = NoToken
                            /\ state'[s].status # "running"
    BY <1>2 DEF Recover, RecoverAbandoned
  <2>2. QED
    BY <1>2, <2>1, TokenAssumption DEF Recover
<1>3. ASSUME NEW s \in Services, ScheduleService(s) PROVE QueueInv'
  BY <1>3 DEF ScheduleService, Live
<1>4. ASSUME NEW s \in Services, ScheduleDeleted(s) PROVE QueueInv'
  BY <1>4, QueueInvExit, QueueInvCycleFails DEF ScheduleDeleted
<1>5. CASE SchedulesDone
  BY <1>5 DEF SchedulesDone, Live
<1>6. CASE Wake
  BY <1>6 DEF Wake, Live
<1>7. CASE NothingToClaim
  BY <1>7 DEF NothingToClaim, Live
<1>8. ASSUME NEW t \in Tokens, ClaimJobs(t) PROVE QueueInv'
  <2>1. \A s \in Services : state[s].worker_token = NoToken
    BY <1>8 DEF ClaimJobs
  <2>2. RunningHasToken'
    BY <1>8, <2>1, TokenAssumption DEF ClaimJobs, TypeOK
  <2>3. ASSUME NEW u \in Tokens, NEW s \in Services, Live(u, s)'
        PROVE  state'[s].worker_token # u
    <3>1. CASE s \in Claimable /\ u = t
      <4>1. job'[<<u, s>>].pc = "waiting"
        BY <1>8, <3>1 DEF ClaimJobs
      <4>2. QED
        BY <2>3, <4>1 DEF Live
    <3>2. CASE s \in Claimable /\ u # t
      BY <1>8, <3>2 DEF ClaimJobs, TypeOK
    <3>3. CASE s \notin Claimable
      BY <1>8, <2>1, <3>3, TokenAssumption DEF ClaimJobs
    <3>4. QED
      BY <3>1, <3>2, <3>3
  <2>4. QED
    BY <1>8, <2>2, <2>3 DEF ClaimJobs
<1>9. CASE LoadJobs
  <2>1. ASSUME NEW u \in Tokens, NEW s \in Services, Live(u, s)'
        PROVE  Live(u, s)
    BY <1>9, <2>1 DEF LoadJobs, Live, TypeOK
  <2>2. QED
    BY <1>9, <2>1 DEF LoadJobs
<1>10. CASE LoadDeleted
  BY <1>10, QueueInvExit DEF LoadDeleted
<1>11. ASSUME NEW s \in Services, StartJob(s) PROVE QueueInv'
  <2>1. ASSUME NEW u \in Tokens, NEW r \in Services, Live(u, r)', ~ Live(u, r)
        PROVE  u = worker_token /\ r = s
    BY <1>11, <2>1 DEF StartJob, Live, TypeOK
  <2>2. QED
    BY <1>11, <2>1 DEF StartJob
<1>12. ASSUME NEW s \in Services, CollectFinished(s) PROVE QueueInv'
  <2>1. ~ Live(worker_token, s)
    BY <1>12 DEF CollectFinished, Live
  <2>2. ASSUME NEW u \in Tokens, NEW r \in Services, Live(u, r)'
        PROVE  Live(u, r)
    BY <1>12, <2>2 DEF CollectFinished, Live, NoJob, TypeOK
  <2>3. QED
    BY <1>12, <2>1, <2>2 DEF CollectFinished
<1>13. CASE JobsDone
  <2>1. ASSUME NEW u \in Tokens, NEW r \in Services, Live(u, r)'
        PROVE  Live(u, r)
    BY <1>13, <2>1 DEF JobsDone, Live, NoJob, TypeOK
  <2>2. QED
    BY <1>13, <2>1 DEF JobsDone
<1>14. ASSUME NEW s \in Services, AbandonJob(s) PROVE QueueInv'
  <2>1. state'[s].worker_token # worker_token \/ worker_token = NoToken
    BY <1>14 DEF AbandonJob, HoldsToken, Recorded, TypeOK
  <2>2. \A r \in Services \ {s} : state'[r] = state[r]
    BY <1>14 DEF AbandonJob, Recorded, TypeOK
  <2>3. state'[s] = state[s] \/ state'[s] = [status |-> "failed", worker_token |-> NoToken]
    BY <1>14 DEF AbandonJob, Recorded, TypeOK
  <2>4. QED
    BY <1>14, <2>1, <2>2, <2>3, TokenAssumption DEF AbandonJob, Live
<1>15. ASSUME NEW s \in Services, RescheduleAbandoned(s) PROVE QueueInv'
  <2>1. ASSUME NEW u \in Tokens, NEW r \in Services, Live(u, r)'
        PROVE  Live(u, r)
    <3>1. CASE worker_token \in Tokens /\ <<u, r>> = <<worker_token, s>>
      BY <1>15, <2>1, <3>1 DEF RescheduleAbandoned, Live, TypeOK
    <3>2. CASE worker_token \in Tokens /\ <<u, r>> # <<worker_token, s>>
      BY <1>15, <2>1, <3>2 DEF RescheduleAbandoned, Live, TypeOK
    <3>3. CASE worker_token \notin Tokens
      <4>1. <<worker_token, s>> \notin DOMAIN job
        BY <3>3 DEF TypeOK
      <4>2. job' = job
        BY <1>15, <4>1 DEF RescheduleAbandoned, TypeOK
      <4>3. QED
        BY <2>1, <4>2 DEF Live
    <3>4. QED
      BY <3>1, <3>2, <3>3
  <2>2. QED
    BY <1>15, <2>1 DEF RescheduleAbandoned
<1>16. CASE AbandonDeleted
  BY <1>16, QueueInvExit, QueueInvCycleFails DEF AbandonDeleted
<1>17. QED
  BY <1>1, <1>2, <1>3, <1>4, <1>5, <1>6, <1>7, <1>8, <1>9, <1>10, <1>11, <1>12,
     <1>13, <1>14, <1>15, <1>16 DEF DaemonStep

\* A thread that ends is no longer live, and no other thread comes alive.
LEMMA EndJobLive ==
  ASSUME TypeOK, NEW t \in Tokens, NEW s \in Services, EndJob(t, s),
         NEW u \in Tokens, NEW r \in Services, Live(u, r)'
  PROVE  Live(u, r) /\ <<u, r>> # <<t, s>>
<1>1. job'[<<t, s>>].pc \in {"none", "finished"}
  BY DEF EndJob, NoJob, TypeOK
<1>2. <<u, r>> # <<t, s>>
  BY <1>1 DEF Live
<1>3. job'[<<u, r>>] = job[<<u, r>>]
  BY <1>2 DEF EndJob, TypeOK
<1>4. QED
  BY <1>2, <1>3 DEF Live

LEMMA QueueInvThread ==
  ASSUME TypeOK, QueueInv, NEW t \in Tokens, NEW s \in Services,
         JobStep(t, s) \/ ProviderSaves(t, s) \/ JobDies(t, s) \/ Hang(t, s)
  PROVE  QueueInv'
<1> USE DEF dbVars, loopVars, poolVars, QueueInv, RunningHasToken, NothingLeftRunning,
            HolderIsAwaited
<1>1. CASE FetchEnds(t, s)
  <2>1. ASSUME NEW u \in Tokens, NEW r \in Services, Live(u, r)'
        PROVE  Live(u, r)
    <3>1. CASE s \in stored
      <4>1. \A ts \in Tokens \X Services : ts # <<t, s>> => job'[ts] = job[ts]
        BY <1>1, <3>1 DEF FetchEnds, TypeOK
      <4>2. Live(t, s)
        BY <1>1 DEF FetchEnds, Live
      <4>3. QED
        BY <2>1, <4>1, <4>2 DEF Live
    <3>2. CASE s \notin stored
      BY <1>1, <2>1, <3>2, EndJobLive DEF FetchEnds
    <3>3. QED
      BY <3>1, <3>2
  <2>2. QED
    BY <1>1, <2>1 DEF FetchEnds
<1>2. CASE RecordOutcome(t, s)
  <2>1. CASE HoldsToken(t, s)
    <3>1. ASSUME NEW u \in Tokens, NEW r \in Services, Live(u, r)'
          PROVE  Live(u, r)
      BY <1>2, <2>1, <3>1 DEF RecordOutcome, Live, TypeOK
    <3>2. \A r \in Services \ {s} : state'[r] = state[r]
      BY <1>2, <2>1 DEF RecordOutcome, Recorded, TypeOK
    <3>3. state'[s].worker_token = NoToken /\ state'[s].status \in {"succeeded", "failed"}
      BY <1>2, <2>1 DEF RecordOutcome, Recorded, TypeOK
    <3>4. QED
      BY <1>2, <3>1, <3>2, <3>3, TokenAssumption DEF RecordOutcome
  <2>2. CASE ~ HoldsToken(t, s)
    BY <1>2, <2>2, EndJobLive DEF RecordOutcome
  <2>3. QED
    BY <2>1, <2>2
<1>3. CASE RescheduleJob(t, s)
  BY <1>3, EndJobLive DEF RescheduleJob
<1>4. CASE ProviderSaves(t, s)
  BY <1>4 DEF ProviderSaves, Live
<1>5. CASE JobDies(t, s)
  BY <1>5, EndJobLive DEF JobDies
<1>6. CASE Hang(t, s)
  <2>1. ASSUME NEW u \in Tokens, NEW r \in Services, Live(u, r)'
        PROVE  Live(u, r)
    BY <1>6, <2>1 DEF Hang, Live, TypeOK
  <2>2. QED
    BY <1>6, <2>1 DEF Hang
<1>7. QED
  BY <1>1, <1>2, <1>3, <1>4, <1>5, <1>6 DEF JobStep

LEMMA QueueInvOwner ==
  ASSUME TypeOK, QueueInv, NEW s \in Services, OwnerStep(s) \/ BecomesDue(s)
  PROVE  QueueInv'
<1> USE DEF dbVars, loopVars, poolVars, QueueInv, RunningHasToken, NothingLeftRunning,
            HolderIsAwaited
<1>1. CASE RunNow(s)
  BY <1>1, TokenAssumption DEF RunNow, TypeOK, Live
<1>2. ASSUME NEW active \in BOOLEAN, SaveSettings(s, active) PROVE QueueInv'
  BY <1>2 DEF SaveSettings, Live
<1>3. CASE SyncRead(s)
  BY <1>3 DEF SyncRead, Live
<1>4. CASE SyncWrite(s)
  <2>1. \A r \in Services : state'[r] = state[r] \/ state'[r] = IdleState
    BY <1>4 DEF SyncWrite, TypeOK
  <2>2. QED
    BY <1>4, <2>1, TokenAssumption DEF SyncWrite, IdleState, Live
<1>5. CASE DeleteService(s)
  <2>1. \A r \in Services : state'[r] = state[r] \/ state'[r] = IdleState
    BY <1>5 DEF DeleteService, TypeOK
  <2>2. QED
    BY <1>5, <2>1, TokenAssumption DEF DeleteService, IdleState, Live
<1>6. CASE BecomesDue(s)
  BY <1>6 DEF BecomesDue, Live
<1>7. QED
  BY <1>1, <1>2, <1>3, <1>4, <1>5, <1>6 DEF OwnerStep

LEMMA QueueInvStep == TypeOK /\ QueueInv /\ [Next]_vars => QueueInv'
<1> SUFFICES ASSUME TypeOK, QueueInv, [Next]_vars PROVE QueueInv'
  OBVIOUS
<1>1. CASE Crash
  BY <1>1, QueueInvExit DEF Crash, dbVars
<1>2. CASE AbandonFails
  BY <1>2, QueueInvCycleFails DEF AbandonFails, dbVars
<1>3. CASE UNCHANGED vars
  BY <1>3 DEF vars, dbVars, loopVars, poolVars, QueueInv, RunningHasToken,
              NothingLeftRunning, HolderIsAwaited, Live
<1>4. QED
  BY <1>1, <1>2, <1>3, QueueInvDaemon, QueueInvThread, QueueInvOwner DEF Next, Fault

\* The fence's invariant holds in every reachable state.
THEOREM QueueInvAlways == Spec => [](TypeOK /\ QueueInv)
<1>1. Init => TypeOK /\ QueueInv
  BY TypeInit, QueueInvInit
<1>2. TypeOK /\ QueueInv /\ [Next]_vars => (TypeOK /\ QueueInv)'
  BY TypeStep, QueueInvStep
<1>3. QED
  BY <1>1, <1>2, PTL DEF Spec

\* A thread the daemon gave up on can never again record an outcome.
THEOREM GivenUpIsFenced == Spec => []GivenUpHoldsNoToken
<1>1. TypeOK /\ QueueInv => GivenUpHoldsNoToken
  BY DEF QueueInv, HolderIsAwaited, GivenUpHoldsNoToken, GivenUp
<1>2. QED
  BY <1>1, QueueInvAlways, PTL

\* After a recovery no row is left running, whatever failed before it.
THEOREM RecoveryIsComplete == Spec => []NothingLeftRunning
<1>1. TypeOK /\ QueueInv => NothingLeftRunning
  BY DEF QueueInv
<1>2. QED
  BY <1>1, QueueInvAlways, PTL

-----------------------------------------------------------------------------
(* The pool, and the token its jobs were claimed with. *)

TokenInUse == loop \in {"load", "jobs"} => worker_token \in Tokens

RunningFits == IsFiniteSet(running) /\ Cardinality(running) <= MaxWorkers

PoolInv == TokenInUse /\ RunningFits

LEMMA PoolInvInit == Init => PoolInv
<1>1. IsFiniteSet({}) /\ Cardinality({}) = 0
  BY FS_EmptySet
<1>2. QED
  BY <1>1, PoolAssumption DEF Init, PoolInv, TokenInUse, RunningFits

\* Nothing is waited for once a process exits or a cycle fails.
LEMMA PoolInvEmpty ==
  ASSUME WorkerExits \/ CycleFails
  PROVE  PoolInv'
<1>1. IsFiniteSet({}) /\ Cardinality({}) = 0
  BY FS_EmptySet
<1>2. QED
  BY <1>1, PoolAssumption DEF WorkerExits, CycleFails, PoolInv, TokenInUse, RunningFits

LEMMA PoolInvRemove ==
  ASSUME PoolInv, NEW s \in Services, running' = running \ {s},
         loop' = loop, worker_token' = worker_token
  PROVE  PoolInv'
<1>1. IsFiniteSet(running \ {s}) /\ Cardinality(running \ {s}) <= Cardinality(running)
  BY FS_Subset DEF PoolInv, RunningFits
<1>2. Cardinality(running) \in Nat /\ Cardinality(running \ {s}) \in Nat
  BY <1>1, FS_CardinalityType DEF PoolInv, RunningFits
<1>3. QED
  BY <1>1, <1>2, PoolAssumption DEF PoolInv, TokenInUse, RunningFits

LEMMA PoolInvStep == TypeOK /\ PoolInv /\ [Next]_vars => PoolInv'
<1> SUFFICES ASSUME TypeOK, PoolInv, [Next]_vars PROVE PoolInv'
  OBVIOUS
<1>1. ASSUME NEW s \in Services, StartJob(s) PROVE PoolInv'
  <2>1. /\ IsFiniteSet(running \cup {s})
        /\ Cardinality(running \cup {s}) <= Cardinality(running) + 1
    BY FS_AddElement, FS_CardinalityType DEF PoolInv, RunningFits
  <2>2. Cardinality(running) \in Nat /\ Cardinality(running \cup {s}) \in Nat
    BY <2>1, FS_CardinalityType DEF PoolInv, RunningFits
  <2>3. RunningFits'
    BY <1>1, <2>1, <2>2, PoolAssumption DEF StartJob, HasRoom, RunningFits
  <2>4. QED
    BY <1>1, <2>3 DEF StartJob, PoolInv, TokenInUse, loopVars
<1>2. ASSUME NEW s \in Services, CollectFinished(s) \/ AbandonJob(s) PROVE PoolInv'
  BY <1>2, PoolInvRemove DEF CollectFinished, AbandonJob, loopVars
<1>3. CASE DaemonStep /\ ~ (\E s \in Services : \/ StartJob(s)
                                                \/ CollectFinished(s)
                                                \/ AbandonJob(s))
  BY <1>3, PoolInvEmpty
  DEF DaemonStep, WorkerStart, Recover, ScheduleService, ScheduleDeleted, SchedulesDone,
      Wake, NothingToClaim, ClaimJobs, LoadJobs, LoadDeleted, JobsDone,
      RescheduleAbandoned, AbandonDeleted, PoolInv, TokenInUse, RunningFits, poolVars,
      loopVars
<1>4. ASSUME NEW t \in Tokens, NEW s \in Services,
             JobStep(t, s) \/ ProviderSaves(t, s) \/ JobDies(t, s) \/ Hang(t, s)
      PROVE  PoolInv'
  BY <1>4 DEF JobStep, FetchEnds, RecordOutcome, RescheduleJob, ProviderSaves, JobDies,
              Hang, PoolInv, TokenInUse, RunningFits, poolVars, loopVars
<1>5. CASE Crash \/ AbandonFails
  BY <1>5, PoolInvEmpty DEF Crash, AbandonFails
<1>6. ASSUME NEW s \in Services, OwnerStep(s) \/ BecomesDue(s) PROVE PoolInv'
  BY <1>6 DEF OwnerStep, RunNow, SaveSettings, SyncRead, SyncWrite, DeleteService,
              BecomesDue, PoolInv, TokenInUse, RunningFits, poolVars, loopVars
<1>7. CASE UNCHANGED vars
  BY <1>7 DEF vars, loopVars, poolVars, PoolInv, TokenInUse, RunningFits
<1>8. QED
  BY <1>1, <1>2, <1>3, <1>4, <1>5, <1>6, <1>7 DEF Next, Fault, DaemonStep

\* The pool's invariant holds in every reachable state.
THEOREM PoolInvAlways == Spec => []PoolInv
BY PoolInvInit, PoolInvStep, TypeCorrect, PTL DEF Spec

\* At most MaxWorkers threads can still record an outcome, however many hung
\* ones the process has gathered.
THEOREM PoolIsBounded == Spec => []PoolLimit
<1> DEFINE Holders == {ts \in Tokens \X Services :
                         Live(ts[1], ts[2]) /\ state[ts[2]].worker_token = ts[1]}
           service_of == [ts \in Holders |-> ts[2]]
<1>1. ASSUME QueueInv, PoolInv, loop = "jobs" PROVE Cardinality(Holders) <= MaxWorkers
  <2>1. \A ts \in Holders : ts = <<worker_token, ts[2]>> /\ ts[2] \in running
    BY <1>1 DEF QueueInv, HolderIsAwaited
  <2>2. service_of \in Injection(Holders, running)
    BY <2>1 DEF Injection, IsInjective
  <2>3. IsFiniteSet(Holders) /\ Cardinality(Holders) <= Cardinality(running)
    BY <1>1, <2>2, FS_Injection DEF PoolInv, RunningFits
  <2>4. Cardinality(Holders) \in Nat /\ Cardinality(running) \in Nat
    BY <1>1, <2>3, FS_CardinalityType DEF PoolInv, RunningFits
  <2>5. QED
    BY <1>1, <2>3, <2>4, PoolAssumption DEF PoolInv, RunningFits
<1>2. QueueInv /\ PoolInv => PoolLimit
  BY <1>1 DEF PoolLimit
<1>3. QED
  BY <1>2, QueueInvAlways, PoolInvAlways, PTL

-----------------------------------------------------------------------------
(* Outcomes. *)

\* The statements that write an outcome: each finds the row running.
LEMMA OutcomeWrites ==
  ASSUME TypeOK, QueueInv, PoolInv, [Next]_vars, NEW s \in Services,
         state'[s].status # state[s].status,
         state'[s].status \in {"succeeded", "failed"}
  PROVE  /\ state[s].status = "running"
         /\ state'[s].status = "succeeded" => s \in running \/ loop = "recover"
<1>1. CASE Recover
  BY <1>1 DEF Recover, RecoverAbandoned
<1>2. ASSUME NEW r \in Services, AbandonJob(r)
      PROVE  state[s].status = "running" /\ state'[s].status = "failed"
  <2>1. s = r /\ HoldsToken(worker_token, r) /\ state'[s].status = "failed"
    BY <1>2 DEF AbandonJob, Recorded, TypeOK
  <2>2. worker_token \in Tokens
    BY <1>2 DEF AbandonJob, PoolInv, TokenInUse
  <2>3. QED
    BY <2>1, <2>2, TokenAssumption DEF HoldsToken, QueueInv, RunningHasToken
<1>3. ASSUME NEW t \in Tokens, NEW r \in Services, RecordOutcome(t, r)
      PROVE  state[s].status = "running" /\ (s \in running \/ loop = "recover")
  <2>1. s = r /\ HoldsToken(t, r)
    BY <1>3 DEF RecordOutcome, Recorded, TypeOK
  <2>2. Live(t, r)
    BY <1>3 DEF RecordOutcome, Live
  <2>3. QED
    BY <2>1, <2>2, TokenAssumption
    DEF HoldsToken, QueueInv, RunningHasToken, HolderIsAwaited
<1>4. ASSUME NEW r \in Services,
             RunNow(r) \/ SyncWrite(r) \/ DeleteService(r)
      PROVE  FALSE
  BY <1>4 DEF RunNow, SyncWrite, DeleteService, IdleState, TypeOK
<1>5. ASSUME NEW t \in Tokens, ClaimJobs(t) PROVE FALSE
  BY <1>5 DEF ClaimJobs, TypeOK
<1>6. CASE UNCHANGED state
  BY <1>6
<1>7. QED
  <2>1. CASE DaemonStep
    BY <2>1, <1>1, <1>2, <1>5, <1>6
    DEF DaemonStep, WorkerStart, ScheduleService, ScheduleDeleted, SchedulesDone,
        Wake, NothingToClaim, LoadJobs, LoadDeleted, StartJob, CollectFinished,
        JobsDone, RescheduleAbandoned, AbandonDeleted, dbVars
  <2>2. ASSUME NEW t \in Tokens, NEW r \in Services,
               JobStep(t, r) \/ ProviderSaves(t, r) \/ JobDies(t, r) \/ Hang(t, r)
        PROVE  RecordOutcome(t, r) \/ UNCHANGED state
    BY <2>2 DEF JobStep, FetchEnds, RescheduleJob, ProviderSaves, JobDies, Hang, dbVars
  <2>3. CASE Crash \/ AbandonFails \/ UNCHANGED vars
    BY <2>3, <1>6 DEF Crash, AbandonFails, vars, dbVars
  <2>4. ASSUME NEW r \in Services, OwnerStep(r) \/ BecomesDue(r) PROVE FALSE
    BY <2>4, <1>4 DEF OwnerStep, SaveSettings, SyncRead, BecomesDue, dbVars
  <2>5. QED
    BY <1>3, <1>6, <2>1, <2>2, <2>3, <2>4 DEF Next, Fault

\* A timeout and a late success never overwrite one another.
THEOREM FirstOutcomeStands == Spec => OutcomeStands
<1> DEFINE Stands == \A s \in Services :
                       /\ state[s].status \in {"succeeded", "failed"}
                       /\ state'[s].status \in {"succeeded", "failed"}
                       => state'[s].status = state[s].status
<1>1. TypeOK /\ QueueInv /\ PoolInv /\ [Next]_vars => [Stands]_vars
  BY OutcomeWrites
<1>2. QED
  BY <1>1, QueueInvAlways, PoolInvAlways, PTL DEF Spec, OutcomeStands

\* A success comes from a job the daemon waits for, or has not yet written off
\* after a failed cycle.
THEOREM SuccessesAreAwaited == Spec => SuccessIsAwaited
<1> DEFINE Awaited == \A s \in Services :
                        state[s].status = "running" /\ state'[s].status = "succeeded"
                        => s \in running \/ loop = "recover"
<1>1. TypeOK /\ QueueInv /\ PoolInv /\ [Next]_vars => [Awaited]_vars
  BY OutcomeWrites
<1>2. QED
  BY <1>1, QueueInvAlways, PoolInvAlways, PTL DEF Spec, SuccessIsAwaited
-----------------------------------------------------------------------------
(* FetchQueue implements FetchRequests. *)

StatusOf == [s \in Services |-> state[s].status]

\* Only the settings of an Editable service are ever being saved.
FormInv == \A s \in Services : form[s].pc # "none" => s \in Editable

LEMMA FormInvStep == TypeOK /\ FormInv /\ [Next]_vars => FormInv'
<1> SUFFICES ASSUME TypeOK, FormInv, [Next]_vars PROVE FormInv'
  OBVIOUS
<1>1. CASE UNCHANGED form
  BY <1>1 DEF FormInv
<1>2. ASSUME NEW s \in Services, NEW active \in BOOLEAN, SaveSettings(s, active)
      PROVE  FormInv'
  BY <1>2 DEF SaveSettings, FormInv, TypeOK
<1>3. ASSUME NEW s \in Services, SyncRead(s) PROVE FormInv'
  BY <1>3 DEF SyncRead, FormInv, TypeOK
<1>4. ASSUME NEW s \in Services, SyncWrite(s) PROVE FormInv'
  BY <1>4 DEF SyncWrite, FormInv, TypeOK, NoForm
<1>5. QED
  <2>1. CASE DaemonStep
    BY <2>1, <1>1
    DEF DaemonStep, WorkerStart, Recover, ScheduleService, ScheduleDeleted, SchedulesDone,
        Wake, NothingToClaim, ClaimJobs, LoadJobs, LoadDeleted, StartJob, CollectFinished,
        JobsDone, AbandonJob, RescheduleAbandoned, AbandonDeleted
  <2>2. ASSUME NEW t \in Tokens, NEW s \in Services,
               JobStep(t, s) \/ ProviderSaves(t, s) \/ JobDies(t, s) \/ Hang(t, s)
        PROVE  UNCHANGED form
    BY <2>2 DEF JobStep, FetchEnds, RecordOutcome, RescheduleJob, ProviderSaves, JobDies, Hang
  <2>3. CASE Crash \/ AbandonFails \/ UNCHANGED vars
    BY <2>3, <1>1 DEF Crash, AbandonFails, vars
  <2>4. ASSUME NEW s \in Services, RunNow(s) \/ DeleteService(s) \/ BecomesDue(s)
        PROVE  UNCHANGED form
    BY <2>4 DEF RunNow, DeleteService, BecomesDue
  <2>5. QED
    BY <1>1, <1>2, <1>3, <1>4, <2>1, <2>2, <2>3, <2>4 DEF Next, Fault, OwnerStep

LEMMA ClaimRefines ==
  ASSUME TypeOK, NEW t \in Tokens, ClaimJobs(t)
  PROVE  Requests!Next
<1>1. \A s \in Services : state[s].status = "queued" => s \in Claimable
  BY DEF Claimable
<1>2. \A s \in Claimable : state[s].status # "running"
  BY DEF Claimable, Busy
<1>3. StatusOf' = [s \in Services |-> IF s \in Claimable THEN "running" ELSE state[s].status]
  BY DEF ClaimJobs, StatusOf
<1>4. PICK S \in SUBSET Services : S = Claimable
  BY DEF Claimable
<1>5. Requests!Claim(S)
  BY <1>1, <1>2, <1>3, <1>4 DEF Requests!Claim, StatusOf
<1>6. QED
  BY <1>5 DEF Requests!Next

LEMMA OutcomeRefines ==
  ASSUME TypeOK, NEW s \in Services, state[s].status = "running",
         NEW outcome \in {"succeeded", "failed"}, Recorded(s, outcome)
  PROVE  Requests!End(s, outcome)
<1>1. StatusOf' = [StatusOf EXCEPT ![s] = outcome]
  BY DEF StatusOf, Recorded, TypeOK
<1>2. QED
  BY <1>1 DEF StatusOf, Requests!End

LEMMA ForgetRefines ==
  ASSUME TypeOK, NEW s \in Editable \cup Deletable,
         state' = [state EXCEPT ![s] = IdleState]
  PROVE  Requests!Forget(s)
<1>1. StatusOf' = [StatusOf EXCEPT ![s] = "idle"]
  BY DEF StatusOf, IdleState, TypeOK
<1>2. QED
  BY <1>1 DEF StatusOf, Requests!Forget

LEMMA StepRefines ==
  TypeOK /\ QueueInv /\ PoolInv /\ FormInv /\ [Next]_vars
    => Requests!Next \/ UNCHANGED StatusOf
<1> SUFFICES ASSUME TypeOK, QueueInv, PoolInv, FormInv, [Next]_vars
             PROVE  Requests!Next \/ UNCHANGED StatusOf
  OBVIOUS
<1>1. CASE UNCHANGED state
  BY <1>1 DEF StatusOf
<1>2. CASE Recover
  <2>1. StatusOf' = [s \in Services |-> IF state[s].status = "running" THEN "failed"
                                                               ELSE state[s].status]
    BY <1>2 DEF Recover, RecoverAbandoned, StatusOf
  <2>2. QED
    BY <2>1 DEF StatusOf, Requests!Interrupt, Requests!Next
<1>3. ASSUME NEW t \in Tokens, ClaimJobs(t) PROVE Requests!Next
  BY <1>3, ClaimRefines
<1>4. ASSUME NEW s \in Services, AbandonJob(s) PROVE Requests!Next \/ UNCHANGED state
  <2>1. CASE HoldsToken(worker_token, s)
    <3>1. state[s].status = "running"
      BY <1>4, <2>1, TokenAssumption
      DEF AbandonJob, PoolInv, TokenInUse, HoldsToken, QueueInv, RunningHasToken
    <3>2. QED
      BY <1>4, <2>1, <3>1, OutcomeRefines DEF AbandonJob, Requests!Next
  <2>2. QED
    BY <1>4, <2>1 DEF AbandonJob
<1>5. ASSUME NEW t \in Tokens, NEW s \in Services, RecordOutcome(t, s)
      PROVE  Requests!Next \/ UNCHANGED state
  <2>1. CASE HoldsToken(t, s)
    <3>1. state[s].status = "running"
      BY <2>1, TokenAssumption DEF HoldsToken, QueueInv, RunningHasToken
    <3>2. PICK outcome \in {"succeeded", "failed"} : Recorded(s, outcome)
      BY <1>5, <2>1 DEF RecordOutcome
    <3>3. Requests!End(s, outcome)
      BY <3>1, <3>2, OutcomeRefines
    <3>4. QED
      BY <3>3 DEF Requests!Next
  <2>2. QED
    BY <1>5, <2>1 DEF RecordOutcome
<1>6. ASSUME NEW s \in Services, RunNow(s) PROVE Requests!Next \/ UNCHANGED state
  <2>1. CASE ~ Busy(s)
    <3>1. StatusOf' = [StatusOf EXCEPT ![s] = "queued"]
      BY <1>6, <2>1 DEF RunNow, StatusOf, TypeOK
    <3>2. state[s].status \in {"idle", "succeeded", "failed"}
      BY <2>1 DEF Busy, TypeOK, StateRow, Statuses
    <3>3. Requests!Ask(s)
      BY <3>1, <3>2 DEF StatusOf, Requests!Ask, Requests!AtRest
    <3>4. QED
      BY <3>3 DEF Requests!Next
  <2>2. QED
    BY <1>6, <2>1 DEF RunNow
<1>7. ASSUME NEW s \in Services, SyncWrite(s) \/ DeleteService(s)
      PROVE  Requests!Next \/ UNCHANGED state
  <2>1. CASE state' = [state EXCEPT ![s] = IdleState]
    <3>1. s \in Editable \cup Deletable
      BY <1>7 DEF SyncWrite, DeleteService, FormInv
    <3>2. QED
      BY <2>1, <3>1, ForgetRefines DEF Requests!Next
  <2>2. QED
    BY <1>7, <2>1 DEF SyncWrite, DeleteService
<1>8. QED
  <2>1. CASE DaemonStep
    BY <2>1, <1>1, <1>2, <1>3, <1>4
    DEF DaemonStep, WorkerStart, ScheduleService, ScheduleDeleted, SchedulesDone,
        Wake, NothingToClaim, LoadJobs, LoadDeleted, StartJob, CollectFinished,
        JobsDone, RescheduleAbandoned, AbandonDeleted, dbVars
  <2>2. ASSUME NEW t \in Tokens, NEW s \in Services,
               JobStep(t, s) \/ ProviderSaves(t, s) \/ JobDies(t, s) \/ Hang(t, s)
        PROVE  RecordOutcome(t, s) \/ UNCHANGED state
    BY <2>2 DEF JobStep, FetchEnds, RescheduleJob, ProviderSaves, JobDies, Hang, dbVars
  <2>3. CASE Crash \/ AbandonFails \/ UNCHANGED vars
    BY <2>3, <1>1 DEF Crash, AbandonFails, vars, dbVars
  <2>4. ASSUME NEW s \in Services, OwnerStep(s) \/ BecomesDue(s)
        PROVE  RunNow(s) \/ SyncWrite(s) \/ DeleteService(s) \/ UNCHANGED state
    BY <2>4 DEF OwnerStep, SaveSettings, SyncRead, BecomesDue, dbVars
  <2>5. QED
    BY <1>1, <1>5, <1>6, <1>7, <2>1, <2>2, <2>3, <2>4 DEF Next, Fault

\* The queue, whatever its services, workers, threads and faults, serves
\* requests as FetchRequests says: the initial states agree, and each step is
\* a step of it or leaves every status alone.
THEOREM QueueServesRequests == Spec => ServesRequests
<1>1. Init => FormInv
  BY DEF Init, FormInv, NoForm
<1>2. Init => Requests!Init
  BY DEF Init, Requests!Init, IdleState
<1>3. Spec => []FormInv
  BY <1>1, FormInvStep, TypeCorrect, PTL DEF Spec
<1>4. TypeOK /\ QueueInv /\ PoolInv /\ FormInv /\ [Next]_vars
        => [Requests!Next]_[s \in Services |-> state[s].status]
  BY StepRefines DEF StatusOf
<1>5. QED
  BY <1>2, <1>3, <1>4, QueueInvAlways, PoolInvAlways, PTL DEF Spec, ServesRequests, Requests!Spec
=============================================================================
