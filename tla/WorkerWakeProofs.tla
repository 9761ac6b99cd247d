-------------------------- MODULE WorkerWakeProofs --------------------------
(* The theorems about WorkerWake, for every set of workers and callers and *)
(* every bound.                                                            *)
EXTENDS WorkerWake, WellFoundedInduction, TLAPS

\* The lock is held from the moment open_socket has it until close_socket
\* gives it back, and serving needs a socket file of one's own.
LockInv ==
  \A w \in Workers :
    /\ pc[w] # "off" => lock = w
    /\ pc[w] \in Serving => path = w

\* While the worker posts, what its last_pk covers is told to the hubs, and
\* every request stored meanwhile has a newer key.
PublishInv ==
  /\ requests \subseteq 1..(next_pk - 1)
  /\ RequestsArePosted
  /\ \A w \in Workers :
       /\ pc[w] \in {"post", "delete"} => last_pk[w] < next_pk
       /\ pc[w] = "delete" => Covered(w) \subseteq posted

\* A request that the plan of a sleeping worker did not see has a datagram in
\* the socket, or a caller that will still find this worker's socket.
SleepInv ==
  \A w \in Workers :
    /\ pc[w] = "sleep"
    /\ requests # {}
    /\ deaths = 0
    => \/ timeout[w]
       \/ buffer[w] > 0
       \/ \E c \in Callers :
            calls[c] = "connect" \/ (calls[c] = "send" /\ connected[c] = w)

LEMMA NewestIsLargest ==
  ASSUME requests \subseteq Keys, requests # {}
  PROVE  Newest \in requests /\ \A other \in requests : other <= Newest
<1>0. MaxRequests \in Nat
  BY LimitAssumption
<1> DEFINE Below == {MaxRequests - pk : pk \in requests}
          Less == OpToRel(<, Nat)
<1>1. Below \subseteq Nat /\ Below # {}
  <2>1. ASSUME NEW pk \in requests PROVE MaxRequests - pk \in Nat
    BY <1>0 DEF Keys
  <2>2. QED
    BY <2>1
<1>2. PICK n \in Below : \A m \in Below : n <= m
  <2>1. PICK n \in Below : \A m \in Below : <<m, n>> \notin Less
    <3> HIDE DEF Below, Less
    <3>1. IsWellFoundedOn(Less, Nat)
      BY NatLessThanWellFounded DEF Less
    <3>2. QED
      BY <1>1, <3>1, WFMin
  <2>2. ASSUME NEW m \in Below PROVE n <= m
    <3>1. m \in Nat /\ n \in Nat
      BY <1>1
    <3>2. m < n => <<m, n>> \in Less
      BY <3>1 DEF OpToRel
    <3>3. ~ (m < n)
      <4> HIDE DEF Below, Less
      <4>1. QED
        BY <2>1, <2>2, <3>2
    <3>4. QED
      <4> HIDE DEF Below
      <4>1. QED
        BY <3>1, <3>3
  <2>3. QED
    BY <2>2
<1>3. PICK pk \in requests : n = MaxRequests - pk
  BY <1>2
<1>4. \A other \in requests : other <= pk
  <2> SUFFICES ASSUME NEW other \in requests PROVE other <= pk
    OBVIOUS
  <2>1. MaxRequests - other \in Below
    OBVIOUS
  <2>2. MaxRequests - pk <= MaxRequests - other
    BY <1>2, <1>3, <2>1
  <2>3. QED
    BY <1>0, <2>2 DEF Keys
<1>5. QED
  BY <1>4 DEF Newest

-----------------------------------------------------------------------------
(* Types. *)

LEMMA TypeOpenClose ==
  ASSUME TypeOK, NEW w \in Workers,
         OpenStep(w) \/ CloseStep(w) \/ Fault(w) \/ WakeOnTime(w)
  PROVE  TypeOK'
<1> USE LimitAssumption DEF TypeOK, WorkerSteps, Serving, Goes, diskVars, callVars
<1>1. CASE OpenStep(w)
  BY <1>1 DEF OpenStep, AcquireLock, UnlinkStale, UnlinkFile, Bind
<1>2. CASE CloseStep(w)
  BY <1>2 DEF CloseStep, RemoveFile, ReleaseLock
<1>3. CASE OpenFails(w)
  BY <1>3 DEF OpenFails, OneFault
<1>4. CASE Stop(w)
  BY <1>4 DEF Stop, OneFault, SocketCloses
<1>5. CASE Crash(w)
  BY <1>5 DEF Crash, OneFault, SocketCloses
<1>6. CASE ReadFails(w)
  BY <1>6 DEF ReadFails, OneFault
<1>7. CASE WakeOnTime(w)
  BY <1>7 DEF WakeOnTime
<1>8. QED
  BY <1>1, <1>2, <1>3, <1>4, <1>5, <1>6, <1>7 DEF Fault

LEMMA TypeCycle ==
  ASSUME TypeOK, NEW w \in Workers, CycleStep(w)
  PROVE  TypeOK'
<1> USE LimitAssumption DEF TypeOK, WorkerSteps, Serving, Goes, diskVars, callVars
<1>1. CASE Plan(w)
  BY <1>1 DEF Plan, WorkStored
<1>2. CASE Wake(w)
  BY <1>2 DEF Wake
<1>3. CASE Drain(w)
  BY <1>3 DEF Drain
<1>4. CASE RunReadyJobs(w)
  BY <1>4 DEF RunReadyJobs
<1>5. CASE ReadRequests(w)
  <2>1. CASE requests = {}
    BY <1>5, <2>1 DEF ReadRequests
  <2>2. CASE requests # {}
    <3>1. Newest \in requests
      BY <2>2, NewestIsLargest
    <3>2. Newest \in 0..MaxRequests
      BY <3>1 DEF Keys
    <3>3. QED
      BY <1>5, <2>2, <3>2 DEF ReadRequests
  <2>3. QED
    BY <2>1, <2>2
<1>6. CASE PostToHubs(w)
  BY <1>6 DEF PostToHubs
<1>7. CASE DeleteRequests(w)
  BY <1>7 DEF DeleteRequests
<1>8. QED
  BY <1>1, <1>2, <1>3, <1>4, <1>5, <1>6, <1>7 DEF CycleStep

LEMMA TypeCall ==
  ASSUME TypeOK, NEW c \in Callers, StoreRequest(c) \/ CallStep(c) \/ CallerDies(c)
  PROVE  TypeOK'
<1> USE LimitAssumption DEF TypeOK, workerVars, diskVars
<1>1. CASE StoreRequest(c)
  BY <1>1 DEF StoreRequest, Keys
<1>2. CASE Connect(c)
  BY <1>2 DEF Connect
<1>3. CASE Send(c)
  BY <1>3 DEF Send, HasSpace
<1>4. CASE CallerDies(c)
  BY <1>4 DEF CallerDies
<1>5. QED
  BY <1>1, <1>2, <1>3, <1>4 DEF CallStep

\* Locks, keys, sockets and calls stay what they are, and no socket ever holds
\* more datagrams than its limit.
THEOREM TypeCorrect == Spec => []TypeOK
<1>1. Init => TypeOK
  BY LimitAssumption DEF Init, TypeOK, WorkerSteps, Keys
<1>2. TypeOK /\ [Next]_vars => TypeOK'
  <2> SUFFICES ASSUME TypeOK, [Next]_vars PROVE TypeOK'
    OBVIOUS
  <2>1. CASE UNCHANGED vars
    BY <2>1 DEF TypeOK, vars, workerVars, diskVars, callVars
  <2>2. QED
    BY <2>1, TypeOpenClose, TypeCycle, TypeCall DEF Next
<1>3. QED
  BY <1>1, <1>2, PTL DEF Spec

-----------------------------------------------------------------------------
(* The lock. *)

LEMMA LockSteps == TypeOK /\ LockInv /\ [Next]_vars => LockInv'
<1> SUFFICES ASSUME TypeOK, LockInv, [Next]_vars PROVE LockInv'
  OBVIOUS
<1> USE NobodyAssumption DEF TypeOK, LockInv, Serving, Goes
<1>1. ASSUME NEW w \in Workers, AcquireLock(w) PROVE LockInv'
  BY <1>1 DEF AcquireLock
<1>2. ASSUME NEW w \in Workers, UnlinkStale(w) PROVE LockInv'
  BY <1>2 DEF UnlinkStale, UnlinkFile
<1>3. ASSUME NEW w \in Workers, Bind(w) PROVE LockInv'
  BY <1>3 DEF Bind
<1>4. ASSUME NEW w \in Workers, OpenFails(w) PROVE LockInv'
  BY <1>4 DEF OpenFails
<1>5. ASSUME NEW w \in Workers, Stop(w) PROVE LockInv'
  BY <1>5 DEF Stop
<1>6. ASSUME NEW w \in Workers, CloseStep(w) PROVE LockInv'
  BY <1>6 DEF CloseStep, RemoveFile, ReleaseLock
<1>7. ASSUME NEW w \in Workers, Crash(w) PROVE LockInv'
  BY <1>7 DEF Crash
<1>8. ASSUME NEW w \in Workers, CycleStep(w) \/ WakeOnTime(w) \/ ReadFails(w)
      PROVE  LockInv'
  BY <1>8 DEF CycleStep, WakeOnTime, ReadFails, Plan, Wake, Drain, RunReadyJobs,
              ReadRequests, PostToHubs, DeleteRequests
<1>9. ASSUME NEW c \in Callers, StoreRequest(c) \/ CallStep(c) \/ CallerDies(c)
      PROVE  LockInv'
  BY <1>9 DEF StoreRequest, CallStep, Connect, Send, CallerDies, workerVars
<1>10. CASE UNCHANGED vars
  BY <1>10 DEF vars, workerVars
<1>11. QED
  BY <1>1, <1>2, <1>3, <1>4, <1>5, <1>6, <1>7, <1>8, <1>9, <1>10
  DEF Next, OpenStep, Fault

THEOREM LockInvAlways == Spec => []LockInv
<1>1. Init => LockInv
  BY DEF Init, LockInv, Serving
<1>2. QED
  BY <1>1, LockSteps, TypeCorrect, PTL DEF Spec

\* Two workers never serve at once, and the socket file is the serving one's,
\* so that each signal reaches it.
THEOREM WorkerIsAlone == Spec => []WorkerIsReached
<1>1. LockInv => WorkerIsReached
  BY DEF LockInv, WorkerIsReached, Serving
<1>2. QED
  BY <1>1, LockInvAlways, PTL

-----------------------------------------------------------------------------
(* The publish requests. *)

LEMMA PublishSteps == TypeOK /\ LockInv /\ PublishInv /\ [Next]_vars => PublishInv'
<1> SUFFICES ASSUME TypeOK, LockInv, PublishInv, [Next]_vars PROVE PublishInv'
  OBVIOUS
<1> USE LimitAssumption DEF TypeOK, PublishInv, RequestsArePosted, Covered, Goes, Keys
<1>1. ASSUME NEW w \in Workers, ReadRequests(w) PROVE PublishInv'
  <2>1. CASE requests = {}
    BY <1>1, <2>1 DEF ReadRequests, diskVars
  <2>2. CASE requests # {}
    <3>1. Newest \in requests
      BY <2>2, NewestIsLargest
    <3>2. Newest < next_pk
      BY <3>1
    <3>3. UNCHANGED diskVars /\ pc' = [pc EXCEPT ![w] = "post"]
          /\ last_pk' = [last_pk EXCEPT ![w] = Newest]
      BY <1>1, <2>2 DEF ReadRequests
    <3>4. \A v \in Workers : pc'[v] \in {"post", "delete"} => last_pk'[v] < next_pk'
      BY <3>2, <3>3 DEF diskVars
    <3>5. \A v \in Workers : pc'[v] = "delete" => Covered(v)' \subseteq posted'
      BY <3>3 DEF diskVars
    <3>6. QED
      BY <3>3, <3>4, <3>5 DEF diskVars
  <2>3. QED
    BY <2>1, <2>2
<1>2. ASSUME NEW w \in Workers, PostToHubs(w) PROVE PublishInv'
  BY <1>2 DEF PostToHubs
<1>3. ASSUME NEW w \in Workers, DeleteRequests(w) PROVE PublishInv'
  BY <1>3 DEF DeleteRequests
<1>4. ASSUME NEW c \in Callers, StoreRequest(c) PROVE PublishInv'
  BY <1>4 DEF StoreRequest, workerVars
<1>5. ASSUME UNCHANGED diskVars, UNCHANGED last_pk,
             \A w \in Workers : pc'[w] \in {"post", "delete"} => pc'[w] = pc[w]
      PROVE  PublishInv'
  BY <1>5 DEF diskVars
<1>6. ASSUME NEW w \in Workers,
             OpenStep(w) \/ CloseStep(w) \/ Fault(w) \/ WakeOnTime(w)
      PROVE  PublishInv'
  <2>1. UNCHANGED diskVars /\ UNCHANGED last_pk
    BY <1>6 DEF OpenStep, AcquireLock, UnlinkStale, Bind, CloseStep, RemoveFile,
                ReleaseLock, Fault, OpenFails, Stop, Crash, ReadFails, WakeOnTime
  <2>2. \A v \in Workers : pc'[v] \in {"post", "delete"} => pc'[v] = pc[v]
    BY <1>6 DEF OpenStep, AcquireLock, UnlinkStale, Bind, CloseStep, RemoveFile,
                ReleaseLock, Fault, OpenFails, Stop, Crash, ReadFails, WakeOnTime
  <2>3. QED
    BY <1>5, <2>1, <2>2
<1>7. ASSUME NEW w \in Workers, Plan(w) \/ Wake(w) \/ Drain(w) \/ RunReadyJobs(w)
      PROVE  PublishInv'
  BY <1>5, <1>7 DEF Plan, Wake, Drain, RunReadyJobs
<1>8. ASSUME NEW c \in Callers, CallStep(c) \/ CallerDies(c) PROVE PublishInv'
  BY <1>5, <1>8 DEF CallStep, Connect, Send, CallerDies, workerVars
<1>9. CASE UNCHANGED vars
  BY <1>5, <1>9 DEF vars, workerVars
<1>10. QED
  BY <1>1, <1>2, <1>3, <1>4, <1>6, <1>7, <1>8, <1>9 DEF Next, CycleStep

\* A stored request outlives every fault until a post to the hubs that began
\* after it was stored.
THEOREM RequestsSurvive == Spec => []RequestsArePosted
<1>1. Init => PublishInv
  BY DEF Init, PublishInv, RequestsArePosted
<1>2. PublishInv => RequestsArePosted
  BY DEF PublishInv
<1>3. QED
  BY <1>1, <1>2, PublishSteps, LockInvAlways, TypeCorrect, PTL DEF Spec

-----------------------------------------------------------------------------
(* Sleep. *)

LEMMA SleepSteps == TypeOK /\ LockInv /\ SleepInv /\ [Next]_vars => SleepInv'
<1> SUFFICES ASSUME TypeOK, LockInv, SleepInv, [Next]_vars PROVE SleepInv'
  OBVIOUS
<1> USE LimitAssumption DEF TypeOK, SleepInv, Goes, Serving
<1>1. ASSUME NEW w \in Workers, Plan(w) PROVE SleepInv'
  BY <1>1 DEF Plan, WorkStored, diskVars, callVars
<1>2. ASSUME NEW w \in Workers, Wake(w) \/ Drain(w) \/ RunReadyJobs(w) \/ WakeOnTime(w)
      PROVE  SleepInv'
  BY <1>2 DEF Wake, Drain, RunReadyJobs, WakeOnTime, diskVars, callVars
<1>3. ASSUME NEW w \in Workers,
             ReadRequests(w) \/ ReadFails(w) \/ PostToHubs(w) \/ DeleteRequests(w)
      PROVE  SleepInv'
  BY <1>3 DEF ReadRequests, ReadFails, PostToHubs, DeleteRequests, diskVars, callVars
<1>4. ASSUME NEW w \in Workers, OpenStep(w) \/ CloseStep(w) \/ OpenFails(w)
      PROVE  SleepInv'
  BY <1>4 DEF OpenStep, AcquireLock, UnlinkStale, Bind, CloseStep, RemoveFile,
              ReleaseLock, OpenFails, diskVars, callVars
\* The socket that closes is that of a worker that no longer sleeps.
<1>5. ASSUME NEW w \in Workers, Stop(w) \/ Crash(w) PROVE SleepInv'
  <2>1. pc'[w] # "sleep"
    BY <1>5 DEF Stop, Crash
  <2>2. ASSUME NEW v \in Workers, v # w, pc'[v] = "sleep"
        PROVE  pc[v] = "sleep" /\ buffer'[v] = buffer[v] /\ timeout'[v] = timeout[v]
               /\ \A c \in Callers : connected[c] = v => connected'[c] = v
    BY <1>5, <2>2 DEF Stop, Crash, SocketCloses
  <2>3. UNCHANGED <<requests, deaths, calls>>
    BY <1>5 DEF Stop, Crash, diskVars
  <2>4. QED
    BY <2>1, <2>2, <2>3
<1>6. ASSUME NEW c \in Callers, StoreRequest(c) PROVE SleepInv'
  BY <1>6 DEF StoreRequest, workerVars
\* The file is the sleeping worker's, so the caller reaches it.
<1>7. ASSUME NEW c \in Callers, Connect(c) PROVE SleepInv'
  <2>1. \A w \in Workers : pc[w] = "sleep" => path = w
    BY DEF LockInv
  <2>2. UNCHANGED <<pc, timeout, buffer, requests, deaths>>
    BY <1>7 DEF Connect, workerVars, diskVars
  <2>3. ASSUME NEW w \in Workers, pc[w] = "sleep"
        PROVE  /\ calls'[c] = "send" /\ connected'[c] = w
               /\ \A d \in Callers \ {c} : calls'[d] = calls[d] /\ connected'[d] = connected[d]
    BY <1>7, <2>1, <2>3 DEF Connect
  <2>4. QED
    BY <2>2, <2>3
<1>8. ASSUME NEW c \in Callers, Send(c) PROVE SleepInv'
  <2>1. UNCHANGED <<pc, timeout, requests, deaths>>
    BY <1>8 DEF Send, workerVars, diskVars
  <2>2. \A w \in Workers : connected[c] = w => buffer'[w] > 0
    BY <1>8, NobodyAssumption DEF Send
  <2>3. \A w \in Workers : buffer[w] > 0 => buffer'[w] > 0
    BY <1>8 DEF Send
  <2>4. \A d \in Callers \ {c} : calls'[d] = calls[d] /\ connected'[d] = connected[d]
    BY <1>8 DEF Send
  <2>5. calls[c] = "send"
    BY <1>8 DEF Send
  <2>6. QED
    BY <2>1, <2>2, <2>3, <2>4, <2>5
<1>9. ASSUME NEW c \in Callers, CallerDies(c) PROVE SleepInv'
  BY <1>9 DEF CallerDies
<1>10. CASE UNCHANGED vars
  BY <1>10 DEF vars, workerVars, diskVars, callVars
<1>11. QED
  BY <1>1, <1>2, <1>3, <1>4, <1>5, <1>6, <1>7, <1>8, <1>9, <1>10
  DEF Next, CycleStep, Fault, CallStep

\* The worker never sleeps on a stored request while its caller is done and no
\* web process died halfway.
THEOREM NoWakeupIsLost == Spec => []NoLostWakeup
<1>1. Init => SleepInv
  BY DEF Init, SleepInv
<1>2. SleepInv => NoLostWakeup
  BY DEF SleepInv, NoLostWakeup
<1>3. QED
  BY <1>1, <1>2, SleepSteps, LockInvAlways, TypeCorrect, PTL DEF Spec
=============================================================================
