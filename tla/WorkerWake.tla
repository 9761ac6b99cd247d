----------------------------- MODULE WorkerWake -----------------------------
(***************************************************************************)
(* How a request reaches the one worker: the lock and the wake socket of   *)
(* FetchWorker in glifestream/fetching.py, the cycle of worker/daemon.py,  *)
(* and the WebSub publish requests the pages store and signal.             *)
(*                                                                         *)
(* Processes come and go.  The kernel drops a dead process's lock and its  *)
(* socket, with the datagrams in it, and leaves the socket file.           *)
(***************************************************************************)
EXTENDS Naturals, FiniteSets

CONSTANTS
  Workers,      \* the processes that may try to be the worker
  Callers,      \* the web requests that may run at one time
  Nobody,       \* no process: a free lock, no socket file, no connection
  Stale,        \* the socket file of a process that is gone
  QueueLimit,   \* the datagrams a socket holds before a sender must wait
  MaxRequests,  \* bound: the publish requests ever stored
  MaxFaults,    \* bound: the worker's crashes, failed calls and shutdowns
  MaxDeaths     \* bound: the web processes that die within a request

ASSUME NobodyAssumption == Nobody \notin Workers /\ Stale \notin Workers /\ Nobody # Stale
ASSUME LimitAssumption == QueueLimit \in Nat \ {0} /\ {MaxRequests, MaxFaults, MaxDeaths} \subseteq Nat

VARIABLES
  lock,      \* which process holds the flock on WORKER_SOCKET.lock
  path,      \* whose socket the file WORKER_SOCKET is
  pc,        \* what each worker process does
  buffer,    \* the datagrams in its socket
  timeout,   \* whether its select() returns at once
  last_pk,   \* the newest request its publish covers
  requests,  \* the keys of the stored WebSubPublishRequest rows
  next_pk,   \* the key of the next one
  posted,    \* history: the requests some post to the hubs came after
  calls,     \* where each web request is in request_websub_publish
  connected, \* the socket its datagram goes to
  faults,    \* how many faults happened
  deaths     \* how many web processes died

diskVars == <<requests, next_pk, posted>>
workerVars == <<pc, timeout, last_pk>>
callVars == <<calls, connected>>
vars == <<lock, path, workerVars, buffer, diskVars, callVars, faults, deaths>>

Keys == 1..MaxRequests

\* The steps at which a worker's socket is open.
Serving == {"plan", "sleep", "drain", "fetch", "publish", "post", "delete"}

WorkerSteps == {"off", "unlink", "bind", "remove", "release"} \cup Serving

TypeOK ==
  /\ lock \in Workers \cup {Nobody}
  /\ path \in Workers \cup {Nobody, Stale}
  /\ pc \in [Workers -> WorkerSteps]
  /\ buffer \in [Workers -> 0..QueueLimit]
  /\ timeout \in [Workers -> BOOLEAN]
  /\ last_pk \in [Workers -> 0..MaxRequests]
  /\ requests \subseteq Keys
  /\ next_pk \in 1..(MaxRequests + 1)
  /\ posted \subseteq Keys
  /\ calls \in [Callers -> {"idle", "connect", "send"}]
  /\ connected \in [Callers -> Workers \cup {Nobody}]
  /\ faults \in 0..MaxFaults
  /\ deaths \in 0..MaxDeaths

Init ==
  /\ lock = Nobody
  /\ path = Nobody
  /\ pc = [w \in Workers |-> "off"]
  /\ buffer = [w \in Workers |-> 0]
  /\ timeout = [w \in Workers |-> FALSE]
  /\ last_pk = [w \in Workers |-> 0]
  /\ requests = {}
  /\ next_pk = 1
  /\ posted = {}
  /\ calls = [c \in Callers |-> "idle"]
  /\ connected = [c \in Callers |-> Nobody]
  /\ faults = 0
  /\ deaths = 0

OneFault == faults < MaxFaults /\ faults' = faults + 1

Goes(w, from, to) == pc[w] = from /\ pc' = [pc EXCEPT ![w] = to]

-----------------------------------------------------------------------------
(* open_socket and close_socket. *)

\* _acquire_lock; a process that finds the lock taken exits.
AcquireLock(w) ==
  /\ Goes(w, "off", "unlink")
  /\ lock = Nobody
  /\ lock' = w
  /\ UNCHANGED <<path, buffer, timeout, last_pk, diskVars, callVars, faults, deaths>>

\* Mutant: a socket file that is there is left to the process it belongs to.
UnlinkNothing == path' = path

UnlinkFile == path' = Nobody

UnlinkStale(w) ==
  /\ Goes(w, "unlink", "bind")
  /\ UnlinkFile
  /\ UNCHANGED <<lock, buffer, timeout, last_pk, diskVars, callVars, faults, deaths>>

\* bind fails while the file exists.
Bind(w) ==
  /\ Goes(w, "bind", "plan")
  /\ path = Nobody
  /\ path' = w
  /\ UNCHANGED <<lock, buffer, timeout, last_pk, diskVars, callVars, faults, deaths>>

\* What the kernel does with a socket that is closed.
SocketCloses(w) ==
  /\ buffer' = [buffer EXCEPT ![w] = 0]
  /\ connected' = [c \in Callers |-> IF connected[c] = w THEN Nobody ELSE connected[c]]

\* open_socket's handler: the lock goes, and with the process the socket.
OpenFails(w) ==
  /\ pc[w] \in {"unlink", "bind"}
  /\ OneFault
  /\ pc' = [pc EXCEPT ![w] = "off"]
  /\ lock' = Nobody
  /\ UNCHANGED <<path, buffer, timeout, last_pk, diskVars, callVars, deaths>>

\* Mutant: the lock is given back before the socket file is removed.
StopUnlocked(w) ==
  /\ pc[w] \in Serving
  /\ OneFault
  /\ pc' = [pc EXCEPT ![w] = "remove"]
  /\ lock' = Nobody
  /\ path' = IF path = w THEN Stale ELSE path
  /\ SocketCloses(w)
  /\ UNCHANGED <<timeout, last_pk, diskVars, calls, deaths>>

\* An interrupt, or an exception the cycle does not catch: close_socket begins.
Stop(w) ==
  /\ pc[w] \in Serving
  /\ OneFault
  /\ pc' = [pc EXCEPT ![w] = "remove"]
  /\ path' = IF path = w THEN Stale ELSE path
  /\ SocketCloses(w)
  /\ UNCHANGED <<lock, timeout, last_pk, diskVars, calls, deaths>>

RemoveFile(w) ==
  /\ Goes(w, "remove", "release")
  /\ path' = Nobody
  /\ UNCHANGED <<lock, buffer, timeout, last_pk, diskVars, callVars, faults, deaths>>

ReleaseLock(w) ==
  /\ Goes(w, "release", "off")
  /\ lock' = IF lock = w THEN Nobody ELSE lock
  /\ UNCHANGED <<path, buffer, timeout, last_pk, diskVars, callVars, faults, deaths>>

Crash(w) ==
  /\ pc[w] # "off"
  /\ OneFault
  /\ pc' = [pc EXCEPT ![w] = "off"]
  /\ lock' = IF lock = w THEN Nobody ELSE lock
  /\ path' = IF path = w THEN Stale ELSE path
  /\ SocketCloses(w)
  /\ UNCHANGED <<timeout, last_pk, diskVars, calls, deaths>>

-----------------------------------------------------------------------------
(* serve_once. *)

\* Mutant: only due fetches end the sleep at once.
NoWork == FALSE

\* get_next_wait_timeout, as far as publish requests go.
WorkStored == requests # {}

Plan(w) ==
  /\ Goes(w, "plan", "sleep")
  /\ timeout' = [timeout EXCEPT ![w] = WorkStored]
  /\ UNCHANGED <<lock, path, buffer, last_pk, diskVars, callVars, faults, deaths>>

\* select() returned: a datagram came, or there is work.
Wake(w) ==
  /\ Goes(w, "sleep", "drain")
  /\ buffer[w] > 0 \/ timeout[w]
  /\ UNCHANGED <<lock, path, buffer, timeout, last_pk, diskVars, callVars, faults, deaths>>

\* A fetch or a maintenance job is due.
WakeOnTime(w) ==
  /\ Goes(w, "sleep", "drain")
  /\ UNCHANGED <<lock, path, buffer, timeout, last_pk, diskVars, callVars, faults, deaths>>

\* Mutant: the worker wakes up and leaves the datagrams where they are.
DrainNothing(w) ==
  /\ Goes(w, "drain", "fetch")
  /\ UNCHANGED <<lock, path, buffer, timeout, last_pk, diskVars, callVars, faults, deaths>>

\* drain_socket, one recv() at a time.
Drain(w) ==
  /\ pc[w] = "drain"
  /\ IF buffer[w] > 0
       THEN buffer' = [buffer EXCEPT ![w] = @ - 1] /\ pc' = pc
       ELSE buffer' = buffer /\ pc' = [pc EXCEPT ![w] = "fetch"]
  /\ UNCHANGED <<lock, path, timeout, last_pk, diskVars, callVars, faults, deaths>>

\* run_ready_jobs takes its time.
RunReadyJobs(w) ==
  /\ Goes(w, "fetch", "publish")
  /\ UNCHANGED <<lock, path, buffer, timeout, last_pk, diskVars, callVars, faults, deaths>>

-----------------------------------------------------------------------------
(* publish_requested_websub.  The maintenance jobs after it change nothing   *)
(* here.                                                                     *)

Newest == CHOOSE pk \in requests : \A other \in requests : other <= pk

ReadRequests(w) ==
  /\ pc[w] = "publish"
  /\ IF requests = {}
       THEN /\ pc' = [pc EXCEPT ![w] = "plan"]
            /\ last_pk' = last_pk
       ELSE /\ pc' = [pc EXCEPT ![w] = "post"]
            /\ last_pk' = [last_pk EXCEPT ![w] = Newest]
  /\ UNCHANGED <<lock, path, buffer, timeout, diskVars, callVars, faults, deaths>>

\* A DatabaseError: the request is still there in the next cycle.
ReadFails(w) ==
  /\ Goes(w, "publish", "plan")
  /\ OneFault
  /\ UNCHANGED <<lock, path, buffer, timeout, last_pk, diskVars, callVars, deaths>>

\* websub.publish, which tells the hubs to read the feed as it is now; that it
\* fails is logged and nothing more.
PostToHubs(w) ==
  /\ Goes(w, "post", "delete")
  /\ posted' = posted \cup requests
  /\ UNCHANGED <<lock, path, buffer, timeout, last_pk, requests, next_pk, callVars, faults, deaths>>

\* Mutant: every request, also one stored since.
AllRequests(w) == requests

Covered(w) == {pk \in requests : pk <= last_pk[w]}

DeleteRequests(w) ==
  /\ Goes(w, "delete", "plan")
  /\ requests' = requests \ Covered(w)
  /\ UNCHANGED <<lock, path, buffer, timeout, last_pk, next_pk, posted, callVars, faults, deaths>>

-----------------------------------------------------------------------------
(* request_websub_publish and send_worker_wake_signal in a web request. *)

StoreRequest(c) ==
  /\ calls[c] = "idle"
  /\ next_pk <= MaxRequests
  /\ requests' = requests \cup {next_pk}
  /\ next_pk' = next_pk + 1
  /\ calls' = [calls EXCEPT ![c] = "connect"]
  /\ UNCHANGED <<lock, path, workerVars, buffer, posted, connected, faults, deaths>>

\* A socket file nobody listens to is a refused connection: the signal is
\* given up, and the request stays.
Connect(c) ==
  /\ calls[c] = "connect"
  /\ IF path \in Workers
       THEN /\ calls' = [calls EXCEPT ![c] = "send"]
            /\ connected' = [connected EXCEPT ![c] = path]
       ELSE /\ calls' = [calls EXCEPT ![c] = "idle"]
            /\ connected' = connected
  /\ UNCHANGED <<lock, path, workerVars, buffer, diskVars, faults, deaths>>

HasSpace(w) == buffer[w] < QueueLimit

\* A full socket makes the sender wait; a closed one makes it give up.
Send(c) ==
  /\ calls[c] = "send"
  /\ \/ /\ connected[c] \in Workers
        /\ HasSpace(connected[c])
        /\ buffer' = [buffer EXCEPT ![connected[c]] = @ + 1]
     \/ /\ connected[c] = Nobody
        /\ buffer' = buffer
  /\ calls' = [calls EXCEPT ![c] = "idle"]
  /\ connected' = [connected EXCEPT ![c] = Nobody]
  /\ UNCHANGED <<lock, path, workerVars, diskVars, faults, deaths>>

\* The web process dies halfway: its signal is never sent.
CallerDies(c) ==
  /\ calls[c] # "idle"
  /\ deaths < MaxDeaths
  /\ deaths' = deaths + 1
  /\ calls' = [calls EXCEPT ![c] = "idle"]
  /\ connected' = [connected EXCEPT ![c] = Nobody]
  /\ UNCHANGED <<lock, path, workerVars, buffer, diskVars, faults>>

-----------------------------------------------------------------------------
OpenStep(w) == AcquireLock(w) \/ UnlinkStale(w) \/ Bind(w)
CloseStep(w) == RemoveFile(w) \/ ReleaseLock(w)
CycleStep(w) ==
  \/ Plan(w) \/ Wake(w) \/ Drain(w) \/ RunReadyJobs(w)
  \/ ReadRequests(w) \/ PostToHubs(w) \/ DeleteRequests(w)
CallStep(c) == Connect(c) \/ Send(c)
Fault(w) == OpenFails(w) \/ Stop(w) \/ Crash(w) \/ ReadFails(w)

Next ==
  \/ \E w \in Workers :
       OpenStep(w) \/ CloseStep(w) \/ CycleStep(w) \/ WakeOnTime(w) \/ Fault(w)
  \/ \E c \in Callers : StoreRequest(c) \/ CallStep(c) \/ CallerDies(c)

Spec == Init /\ [][Next]_vars

\* A process manager starts some worker again and again, and a process that
\* runs goes on; a connected caller goes on, too.  That a fetch or a
\* maintenance job becomes due is not counted on.
Fairness ==
  /\ WF_vars(\E w \in Workers : AcquireLock(w))
  /\ \A w \in Workers :
       WF_vars(UnlinkStale(w) \/ Bind(w)) /\ WF_vars(CloseStep(w)) /\ WF_vars(CycleStep(w))
  /\ \A c \in Callers : WF_vars(CallStep(c))

FairSpec == Spec /\ Fairness

-----------------------------------------------------------------------------
(* Properties. *)

\* The worker assumes it is alone: two never serve at once, and while one
\* serves the socket file is its own, so each signal reaches it.
WorkerIsReached ==
  \A w \in Workers : pc[w] \in Serving =>
    /\ path = w
    /\ \A other \in Workers \ {w} : pc[other] \notin Serving

\* The worker never sleeps on a stored request, through its restarts too: while
\* no web process died halfway, select() does not wait, a datagram is in the
\* socket, or a caller is still on its way to send one.
NoLostWakeup ==
  \A w \in Workers :
    /\ pc[w] = "sleep"
    /\ requests # {}
    /\ deaths = 0
    => timeout[w] \/ buffer[w] > 0 \/ \E c \in Callers : calls[c] # "idle"

\* A request is deleted only after a post to the hubs that began when it was
\* already stored, whatever stops the worker in between.
RequestsArePosted == 1..(next_pk - 1) \subseteq requests \cup posted

\* Every request is answered in the end, however often the worker crashes,
\* stops or fails and without help from the schedule; only a web process that
\* died halfway leaves its request to the next scheduled fetch.
RequestsEnd == \A pk \in Keys : pk \in requests ~> pk \notin requests \/ deaths > 0

\* The owner's page does not wait for ever on a full socket.
SendersReturn == \A c \in Callers : calls[c] = "send" ~> calls[c] = "idle"
=============================================================================
