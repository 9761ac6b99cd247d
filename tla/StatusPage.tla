----------------------------- MODULE StatusPage -----------------------------
(***************************************************************************)
(* The status page (frontend/src/settings/fetch-status.ts): "Run now"      *)
(* shows a fetch as queued and asks for it, and while any fetch is shown   *)
(* queued or running the page polls the status of every service.           *)
(*                                                                         *)
(* At most one poll is on its way, beside any number of fetch-now          *)
(* requests, and answers come in any order.  The page numbers its polls,   *)
(* so that one asked for before a refusal does not hide it; all that the   *)
(* numbers decide is whether a service was refused since the poll in       *)
(* flight was sent, and `outdated` holds just that.  Texts, times and      *)
(* diagnostics of a fetch are left out.                                    *)
(***************************************************************************)
EXTENDS Naturals

CONSTANTS
  Services,   \* the services on the page
  MaxClicks,  \* bound: clicks on "Run now", and fetches queued elsewhere
  MaxLosses   \* bound: requests that fail

VARIABLES
  status,    \* of each service, in the database
  deleted,   \* the services deleted since the page was loaded
  shown,     \* of each service, on the page
  timer,     \* a poll is scheduled (poll_timer)
  poll,      \* the poll in flight, and the statuses it read
  outdated,  \* services refused since that poll was sent
  clicks,    \* of each click: its service, where its request is, the answer
  losses

serverVars == <<status, deleted>>
pageVars == <<shown, timer, poll, outdated>>
vars == <<serverVars, pageVars, clicks, losses>>

Active == {"queued", "running"}
Statuses == Active \cup {"done"}
NoPoll == [at |-> "none"]
NoClick == [at |-> "none"]

TypeOK ==
  /\ status \in [Services -> Statuses]
  /\ deleted \subseteq Services
  /\ shown \in [Services -> Statuses \cup {"refused", "missing"}]
  /\ timer \in BOOLEAN
  /\ poll \in [at : {"none", "sent"}]
              \cup [at : {"read"}, reply : [Services -> Statuses], gone : SUBSET Services]
  /\ outdated \subseteq Services
  /\ DOMAIN clicks = 1..MaxClicks
  /\ \A c \in 1..MaxClicks :
       clicks[c] \in [at : {"none", "answered"}] \cup [at : {"sent", "missing", "refused"}, service : Services]
                     \cup [at : {"accepted"}, service : Services, reply : Statuses]
  /\ losses \in 0..MaxLosses

-----------------------------------------------------------------------------
(* Polling.                                                                *)

has_active_fetch_statuses(page) == \E s \in Services : page[s] \in Active

\* The timer once the page shows `page`; none is set while a poll is in flight.
TimerFor(page, inFlight) ==
  /\ has_active_fetch_statuses(page)
  /\ timer \/ ~inFlight

InFlight == poll.at # "none"
Refresh == poll' = [at |-> "sent"] /\ outdated' = {}

\* The timer goes off; it does nothing else with a poll in flight.
refresh_fetch_status ==
  /\ timer
  /\ timer' = FALSE
  /\ IF InFlight THEN UNCHANGED <<poll, outdated>> ELSE Refresh
  /\ UNCHANGED <<serverVars, shown, clicks, losses>>

\* The server answers with what it has, nothing of a deleted service.
handle_fetch_status_api ==
  /\ poll.at = "sent"
  /\ poll' = [at |-> "read", reply |-> status, gone |-> deleted]
  /\ UNCHANGED <<serverVars, shown, timer, outdated, clicks, losses>>

\* Mutant: a poll asked for before the refusal shows what it read.
Everything(s) == s \notin poll.gone
Current(s) == s \notin poll.gone \cup outdated

\* Mutant: the page shows the answer and asks no more.
NoTimer(page) == FALSE
\* The answer is shown, and the next poll scheduled.
TimerAfter(page) == TimerFor(page, FALSE)

PollAnswered ==
  /\ poll.at = "read"
  /\ LET page == [s \in Services |-> IF Current(s) THEN poll.reply[s] ELSE shown[s]]
     IN shown' = page /\ timer' = TimerAfter(page)
  /\ poll' = NoPoll
  /\ UNCHANGED <<serverVars, outdated, clicks, losses>>

\* get_json gives null: the page is as it was, and polls again.
PollFails ==
  /\ InFlight
  /\ losses < MaxLosses
  /\ losses' = losses + 1
  /\ timer' = TimerAfter(shown)
  /\ poll' = NoPoll
  /\ UNCHANGED <<serverVars, shown, outdated, clicks>>

-----------------------------------------------------------------------------
(* "Run now".                                                              *)

IsNext(c) == clicks[c].at = "none" /\ \A b \in 1..(c - 1) : clicks[b].at # "none"

\* Shows the fetch as queued, polls at once, and asks for the fetch.
run_fetch_service(s) ==
  \E c \in 1..MaxClicks :
    /\ IsNext(c)
    /\ clicks' = [clicks EXCEPT ![c] = [at |-> "sent", service |-> s]]
    /\ shown' = [shown EXCEPT ![s] = "queued"]
    /\ timer' = FALSE
    /\ IF InFlight THEN UNCHANGED <<poll, outdated>> ELSE Refresh
    /\ UNCHANGED <<serverVars, losses>>

\* The server queues the fetch unless it is queued or running.
handle_fetch_now_api(c) ==
  /\ clicks[c].at = "sent"
  /\ LET s == clicks[c].service
         queued == IF status[s] \in Active THEN status[s] ELSE "queued"
     IN IF s \in deleted
        THEN /\ clicks' = [clicks EXCEPT ![c].at = "missing"]
             /\ UNCHANGED status
        ELSE /\ status' = [status EXCEPT ![s] = queued]
             /\ clicks' = [clicks EXCEPT ![c] =
                             [at |-> "accepted", service |-> s, reply |-> queued]]
  /\ UNCHANGED <<deleted, pageVars, losses>>

\* The request or its answer is lost, which the page takes for a refusal.
FetchNowLost(c) ==
  /\ clicks[c].at \in {"sent", "accepted", "missing"}
  /\ losses < MaxLosses
  /\ losses' = losses + 1
  /\ clicks' = [clicks EXCEPT ![c] = [at |-> "refused", service |-> clicks[c].service]]
  /\ UNCHANGED <<serverVars, pageVars>>

Accepted(c) ==
  /\ clicks[c].at = "accepted"
  /\ LET page == [shown EXCEPT ![clicks[c].service] = clicks[c].reply]
     IN shown' = page /\ timer' = TimerFor(page, InFlight)
  /\ IF InFlight THEN UNCHANGED <<poll, outdated>> ELSE Refresh
  /\ clicks' = [clicks EXCEPT ![c] = [at |-> "answered"]]
  /\ UNCHANGED <<serverVars, losses>>

\* Polls sent so far are not to hide the refusal.
Refused(c) ==
  /\ clicks[c].at \in {"missing", "refused"}
  /\ LET s == clicks[c].service
         page == [shown EXCEPT ![s] = clicks[c].at]
     IN /\ shown' = page
        /\ timer' = TimerFor(page, InFlight)
        /\ outdated' = IF InFlight THEN outdated \cup {s} ELSE outdated
  /\ clicks' = [clicks EXCEPT ![c] = [at |-> "answered"]]
  /\ UNCHANGED <<serverVars, poll, losses>>

-----------------------------------------------------------------------------
(* Meanwhile: the worker, the schedule, the admin pages.                   *)

Claim(s) ==
  /\ status[s] = "queued"
  /\ status' = [status EXCEPT ![s] = "running"]
  /\ UNCHANGED <<deleted, pageVars, clicks, losses>>

Finish(s) ==
  /\ status[s] = "running"
  /\ status' = [status EXCEPT ![s] = "done"]
  /\ UNCHANGED <<deleted, pageVars, clicks, losses>>

\* By the schedule, or from another page.
QueueElsewhere(s) ==
  /\ status[s] = "done"
  /\ s \notin deleted
  /\ status' = [status EXCEPT ![s] = "queued"]
  /\ \E c \in 1..MaxClicks :
       IsNext(c) /\ clicks' = [clicks EXCEPT ![c] = [at |-> "answered"]]
  /\ UNCHANGED <<deleted, pageVars, losses>>

Delete(s) ==
  /\ s \notin deleted
  /\ deleted' = deleted \cup {s}
  /\ UNCHANGED <<status, pageVars, clicks, losses>>

-----------------------------------------------------------------------------
\* The page as it is served, which polls at once if it shows an active fetch.
Init ==
  /\ status \in [Services -> Statuses]
  /\ deleted = {}
  /\ shown = status
  /\ timer = FALSE
  /\ poll = IF has_active_fetch_statuses(shown) THEN [at |-> "sent"] ELSE NoPoll
  /\ outdated = {}
  /\ clicks = [c \in 1..MaxClicks |-> NoClick]
  /\ losses = 0

Answer(c) == handle_fetch_now_api(c) \/ Accepted(c) \/ Refused(c)
Poll == refresh_fetch_status \/ handle_fetch_status_api \/ PollAnswered
Work(s) == Claim(s) \/ Finish(s)

Next ==
  \/ Poll
  \/ PollFails
  \/ \E c \in 1..MaxClicks : Answer(c) \/ FetchNowLost(c)
  \/ \E s \in Services : Work(s) \/ run_fetch_service(s) \/ QueueElsewhere(s) \/ Delete(s)

\* The browser's timer and answers come, and the worker gets to every fetch
\* and ends it (FetchQueue shows that it does).
Fairness ==
  /\ WF_vars(Poll)
  /\ \A c \in 1..MaxClicks : WF_vars(Answer(c))
  /\ \A s \in Services : WF_vars(Work(s))

Spec == Init /\ [][Next]_vars /\ Fairness

-----------------------------------------------------------------------------
\* A fetch shown queued or running is not shown so for ever: the page polls
\* until it has read the end of it, whichever answers come in which order and
\* also after a poll that failed.  A service deleted under the page is in no
\* answer, and the page polls for it until it is loaded again.
ShownFetchEnds ==
  \A s \in Services : shown[s] \in Active ~> (shown[s] \notin Active \/ s \in deleted)

\* No answer to a poll hides that a service was not found: the poll may have
\* read its status before it was deleted.
RefusalStands ==
  [][\A s \in Services :
       shown[s] = "missing" /\ clicks' = clicks => shown'[s] = "missing"]_vars
=============================================================================
