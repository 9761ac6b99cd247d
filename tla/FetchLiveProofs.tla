--------------------------- MODULE FetchLiveProofs ---------------------------
(***************************************************************************)
(* The status page and the daemon's scheduled jobs: what no interleaving   *)
(* of polls, "Run now" and deletions can do to the page, for any number of *)
(* services and clicks, and when the jobs run, for any jobs, schedules and *)
(* calendar.                                                               *)
(***************************************************************************)
EXTENDS MCFetchLive, WellFoundedInduction, TLAPS

(* The status page (frontend/src/settings/fetch-status.ts).                *)

PageClicks == [at : {"none", "answered"}]
          \cup [at : {"sent", "missing", "refused"}, service : PageServices]
          \cup [at : {"accepted"}, service : PageServices, reply : Page!Statuses]
PagePolls == [at : {"none", "sent"}]
         \cup [at : {"read"}, reply : [PageServices -> Page!Statuses], gone : SUBSET PageServices]

\* A service that was not found was deleted.
MissingIsDeleted ==
  /\ \A s \in PageServices : shown[s] = "missing" => s \in deleted
  /\ \A c \in 1..MaxClicks : clicks[c].at = "missing" => clicks[c].service \in deleted

\* A poll that was read before the deletion is known not to tell.
PollIsCurrent ==
  poll.at = "read" =>
    \A s \in PageServices : shown[s] = "missing" => s \in poll.gone \cup outdated

PageInv == Page!TypeOK /\ MissingIsDeleted /\ PollIsCurrent

\* Bounds are numbers.
PageBounded == MaxClicks \in Nat /\ MaxLosses \in Nat

-----------------------------------------------------------------------------

LEMMA PageInitInv == ASSUME PageBounded, Page!Init PROVE PageInv
<1>1. Page!TypeOK
  <2>1. shown \in [PageServices -> Page!Statuses \cup {"refused", "missing"}]
    BY DEF Page!Init
  <2>2. clicks = [c \in 1..MaxClicks |-> Page!NoClick]
    BY DEF Page!Init
  <2>3. poll \in [at : {"none", "sent"}]
    BY DEF Page!Init, Page!NoPoll
  <2>4. \A c \in 1..MaxClicks : clicks[c] \in [at : {"none", "answered"}]
    BY <2>2 DEF Page!NoClick
  <2>5. DOMAIN clicks = 1..MaxClicks
    BY <2>2
  <2>6. timer \in BOOLEAN /\ status \in [PageServices -> Page!Statuses]
        /\ deleted = {} /\ outdated = {}
    BY DEF Page!Init
  <2>7. losses \in 0..MaxLosses
    BY SMT DEF Page!Init, PageBounded
  <2> QED
    BY <2>1, <2>3, <2>4, <2>5, <2>6, <2>7 DEF Page!TypeOK
<1>2. MissingIsDeleted
  BY DEF Page!Init, MissingIsDeleted, Page!NoClick, Page!Statuses, Page!Active
<1>3. PollIsCurrent
  BY DEF Page!Init, PollIsCurrent, Page!NoPoll
<1> QED
  BY <1>1, <1>2, <1>3 DEF PageInv

\* What one click may become.
LEMMA ClickTypes ==
  ASSUME Page!TypeOK, NEW c \in 1..MaxClicks, NEW click \in PageClicks,
         clicks' = [clicks EXCEPT ![c] = click]
  PROVE  /\ DOMAIN clicks' = 1..MaxClicks
         /\ \A b \in 1..MaxClicks : clicks'[b] \in PageClicks
         /\ clicks'[c] = click
         /\ \A b \in 1..MaxClicks : b # c => clicks'[b] = clicks[b]
BY DEF Page!TypeOK, PageClicks

LEMMA ClickIsAny ==
  ASSUME Page!TypeOK, NEW c \in 1..MaxClicks
  PROVE  /\ clicks[c] \in PageClicks
         /\ clicks[c].at \in {"sent", "missing", "refused", "accepted"} => clicks[c].service \in PageServices
         /\ clicks[c].at = "accepted" => clicks[c].reply \in Page!Statuses
<1>1. clicks[c] \in PageClicks
  BY DEF Page!TypeOK, PageClicks
<1>2. CASE clicks[c] \in [at : {"none", "answered"}]
  BY <1>1, <1>2
<1>3. CASE clicks[c] \in [at : {"sent", "missing", "refused"}, service : PageServices]
  BY <1>1, <1>3
<1>4. CASE clicks[c] \in [at : {"accepted"}, service : PageServices, reply : Page!Statuses]
  BY <1>1, <1>4
<1> QED
  BY <1>1, <1>2, <1>3, <1>4 DEF PageClicks

LEMMA PollIsAny ==
  ASSUME Page!TypeOK
  PROVE  /\ poll \in PagePolls
         /\ poll.at \in {"none", "sent", "read"}
         /\ poll.at = "read" => poll.reply \in [PageServices -> Page!Statuses] /\ poll.gone \subseteq PageServices
<1>1. poll \in PagePolls
  BY DEF Page!TypeOK, PagePolls
<1>2. CASE poll \in [at : {"none", "sent"}]
  BY <1>1, <1>2
<1>3. CASE poll \in [at : {"read"}, reply : [PageServices -> Page!Statuses], gone : SUBSET PageServices]
  BY <1>1, <1>3
<1> QED
  BY <1>1, <1>2, <1>3 DEF PagePolls


-----------------------------------------------------------------------------
(* Each action keeps the three parts. *)

LEMMA TimerIsBoolean ==
  ASSUME NEW page, NEW inFlight \in BOOLEAN
  PROVE  Page!TimerFor(page, inFlight) \in BOOLEAN
BY DEF Page!TimerFor

LEMMA PollStep ==
  ASSUME PageInv, Page!Poll \/ Page!PollFails, PageBounded
  PROVE  PageInv'
<1> USE DEF PageInv
<1>1. CASE Page!refresh_fetch_status
  <2>1. CASE Page!InFlight
    BY <1>1, <2>1 DEF Page!refresh_fetch_status, Page!serverVars, Page!TypeOK, MissingIsDeleted, PollIsCurrent
  <2>2. CASE ~Page!InFlight
    <3>1. poll' = [at |-> "sent"] /\ outdated' = {} /\ timer' = FALSE
          /\ UNCHANGED <<Page!serverVars, shown, clicks, losses>>
      BY <1>1, <2>2 DEF Page!refresh_fetch_status, Page!Refresh
    <3>2. poll' \in [at : {"none", "sent"}] /\ poll'.at # "read"
      BY <3>1
    <3>3. Page!TypeOK'
      BY <3>1, <3>2 DEF Page!TypeOK, Page!serverVars
    <3> QED
      BY <3>1, <3>2, <3>3 DEF Page!serverVars, MissingIsDeleted, PollIsCurrent
  <2> QED
    BY <2>1, <2>2
<1>2. CASE Page!handle_fetch_status_api
  <2>1. poll' \in [at : {"read"}, reply : [PageServices -> Page!Statuses], gone : SUBSET PageServices]
        /\ poll'.gone = deleted
    BY <1>2 DEF Page!handle_fetch_status_api, Page!TypeOK
  <2> QED
    BY <1>2, <2>1 DEF Page!handle_fetch_status_api, Page!serverVars, Page!TypeOK, MissingIsDeleted, PollIsCurrent
<1>3. CASE Page!PollAnswered
  <2> DEFINE page == [s \in PageServices |-> IF Page!Current(s) THEN poll.reply[s] ELSE shown[s]]
  <2>1. poll.reply \in [PageServices -> Page!Statuses]
    BY <1>3, PollIsAny DEF Page!PollAnswered
  <2>2. shown' = page /\ poll' = Page!NoPoll /\ UNCHANGED <<Page!serverVars, outdated, clicks, losses>>
    BY <1>3 DEF Page!PollAnswered
  <2>3. timer' \in BOOLEAN
    BY <1>3, TimerIsBoolean DEF Page!PollAnswered, Page!TimerAfter
  <2>4. page \in [PageServices -> Page!Statuses \cup {"refused", "missing"}]
    BY <2>1 DEF Page!TypeOK
  <2>5. \A s \in PageServices : page[s] = "missing" => shown[s] = "missing"
    BY <2>1 DEF Page!Statuses, Page!Active
  <2> HIDE DEF page
  <2>6. Page!TypeOK'
    BY <2>2, <2>3, <2>4 DEF Page!TypeOK, Page!NoPoll, Page!serverVars
  <2> QED
    BY <2>2, <2>5, <2>6 DEF MissingIsDeleted, PollIsCurrent, Page!NoPoll, Page!serverVars
<1>4. CASE Page!PollFails
  <2>1. timer' \in BOOLEAN
    BY <1>4, TimerIsBoolean DEF Page!PollFails, Page!TimerAfter
  <2> QED
    BY <1>4, <2>1 DEF Page!PollFails, Page!TypeOK, MissingIsDeleted, PollIsCurrent, Page!NoPoll, Page!serverVars, PageBounded
<1> QED
  BY <1>1, <1>2, <1>3, <1>4 DEF Page!Poll

LEMMA RunNowStep ==
  ASSUME PageInv, PageBounded, NEW s \in PageServices, Page!run_fetch_service(s)
  PROVE  PageInv'
<1> PICK c \in 1..MaxClicks :
      /\ clicks' = [clicks EXCEPT ![c] = [at |-> "sent", service |-> s]]
      /\ shown' = [shown EXCEPT ![s] = "queued"]
      /\ timer' = FALSE
      /\ IF Page!InFlight THEN UNCHANGED <<poll, outdated>> ELSE Page!Refresh
      /\ UNCHANGED <<Page!serverVars, losses>>
  BY DEF Page!run_fetch_service
<1>1. /\ DOMAIN clicks' = 1..MaxClicks
      /\ \A b \in 1..MaxClicks : clicks'[b] \in PageClicks
      /\ clicks'[c] = [at |-> "sent", service |-> s]
      /\ \A b \in 1..MaxClicks : b # c => clicks'[b] = clicks[b]
  BY ClickTypes DEF PageClicks, PageInv
<1>2. shown' \in [PageServices -> Page!Statuses \cup {"refused", "missing"}]
  BY DEF PageInv, Page!TypeOK, Page!Statuses, Page!Active
<1>3. \A r \in PageServices : shown'[r] = "missing" => shown[r] = "missing"
  BY DEF PageInv, Page!TypeOK
<1>4. \/ UNCHANGED <<poll, outdated>>
      \/ poll' = [at |-> "sent"] /\ outdated' = {}
  BY DEF Page!Refresh
<1>5. Page!TypeOK'
  <2>1. poll' \in PagePolls /\ outdated' \subseteq PageServices
    <3>1. CASE UNCHANGED <<poll, outdated>>
      BY <3>1, PollIsAny DEF PageInv, Page!TypeOK
    <3>2. CASE poll' = [at |-> "sent"] /\ outdated' = {}
      <4>1. poll' \in [at : {"none", "sent"}]
        BY <3>2
      <4> QED
        BY <3>2, <4>1 DEF PagePolls
    <3> QED
      BY <1>4, <3>1, <3>2
  <2>2. timer' \in BOOLEAN /\ UNCHANGED <<status, deleted, losses>>
    BY DEF Page!serverVars
  <2> QED
    BY <1>1, <1>2, <2>1, <2>2 DEF PageInv, Page!TypeOK, PageClicks, PagePolls
<1> QED
  BY <1>1, <1>3, <1>4, <1>5 DEF PageInv, MissingIsDeleted, PollIsCurrent, Page!serverVars

LEMMA AnswerStep ==
  ASSUME PageInv, PageBounded, NEW c \in 1..MaxClicks, Page!Answer(c) \/ Page!FetchNowLost(c)
  PROVE  PageInv'
<1>1. CASE Page!handle_fetch_now_api(c)
  <2> DEFINE s == clicks[c].service
             queued == IF status[s] \in Page!Active THEN status[s] ELSE "queued"
  <2>1. s \in PageServices
    BY <1>1, ClickIsAny DEF Page!handle_fetch_now_api, PageInv
  <2>2. queued \in Page!Statuses
    BY DEF Page!Statuses, Page!Active
  <2>3. CASE s \in deleted
    <3>1. clicks' = [clicks EXCEPT ![c] = [at |-> "missing", service |-> s]]
      <4>1. clicks[c] = [at |-> "sent", service |-> s]
        BY <1>1, ClickIsAny DEF Page!handle_fetch_now_api, PageInv, PageClicks
      <4> QED
        BY <1>1, <2>3, <4>1 DEF Page!handle_fetch_now_api
    <3>2. /\ DOMAIN clicks' = 1..MaxClicks
          /\ \A b \in 1..MaxClicks : clicks'[b] \in PageClicks
          /\ clicks'[c] = [at |-> "missing", service |-> s]
          /\ \A b \in 1..MaxClicks : b # c => clicks'[b] = clicks[b]
      BY <2>1, <3>1, ClickTypes DEF PageClicks, PageInv
    <3>3. UNCHANGED <<status, deleted, Page!pageVars, losses>>
      BY <1>1, <2>3 DEF Page!handle_fetch_now_api
    <3>4. Page!TypeOK'
      BY <3>2, <3>3 DEF PageInv, Page!TypeOK, Page!pageVars, PageClicks
    <3> QED
      BY <2>3, <3>2, <3>3, <3>4 DEF PageInv, MissingIsDeleted, PollIsCurrent, Page!pageVars
  <2>4. CASE s \notin deleted
    <3> DEFINE click == [at |-> "accepted", service |-> s, reply |-> queued]
    <3>1. /\ clicks' = [clicks EXCEPT ![c] = click]
          /\ status' = [status EXCEPT ![s] = queued]
          /\ UNCHANGED <<deleted, Page!pageVars, losses>>
      BY <1>1, <2>4 DEF Page!handle_fetch_now_api
    <3>2. click \in PageClicks
      BY <2>1, <2>2 DEF PageClicks
    <3>3. click.at # "missing"
      OBVIOUS
    <3> HIDE DEF click
    <3>4. /\ DOMAIN clicks' = 1..MaxClicks
          /\ \A b \in 1..MaxClicks : clicks'[b] \in PageClicks
          /\ clicks'[c] = click
          /\ \A b \in 1..MaxClicks : b # c => clicks'[b] = clicks[b]
      BY <3>1, <3>2, ClickTypes DEF PageInv
    <3>5. status' \in [PageServices -> Page!Statuses]
      BY <2>2, <3>1 DEF PageInv, Page!TypeOK
    <3>6. Page!TypeOK'
      BY <3>1, <3>4, <3>5 DEF PageInv, Page!TypeOK, Page!pageVars, PageClicks
    <3> QED
      BY <3>1, <3>3, <3>4, <3>6 DEF PageInv, MissingIsDeleted, PollIsCurrent, Page!pageVars
  <2> QED
    BY <2>3, <2>4
<1>2. CASE Page!Accepted(c)
  <2> DEFINE page == [shown EXCEPT ![clicks[c].service] = clicks[c].reply]
  <2>1. clicks[c].service \in PageServices /\ clicks[c].reply \in Page!Statuses
    BY <1>2, ClickIsAny DEF Page!Accepted, PageInv
  <2>2. /\ shown' = page
        /\ clicks' = [clicks EXCEPT ![c] = [at |-> "answered"]]
        /\ UNCHANGED <<Page!serverVars, losses>>
        /\ UNCHANGED <<poll, outdated>> \/ (poll' = [at |-> "sent"] /\ outdated' = {})
    BY <1>2 DEF Page!Accepted, Page!Refresh
  <2>3. timer' \in BOOLEAN
    BY <1>2, TimerIsBoolean DEF Page!Accepted, Page!InFlight
  <2>4. page \in [PageServices -> Page!Statuses \cup {"refused", "missing"}]
    BY <2>1 DEF PageInv, Page!TypeOK
  <2>5. \A r \in PageServices : page[r] = "missing" => shown[r] = "missing"
    BY <2>1 DEF PageInv, Page!TypeOK, Page!Statuses, Page!Active
  <2> HIDE DEF page
  <2>6. /\ DOMAIN clicks' = 1..MaxClicks
        /\ \A b \in 1..MaxClicks : clicks'[b] \in PageClicks
        /\ clicks'[c] = [at |-> "answered"]
        /\ \A b \in 1..MaxClicks : b # c => clicks'[b] = clicks[b]
    BY <2>2, ClickTypes DEF PageInv, PageClicks
  <2>7. Page!TypeOK'
    BY <2>2, <2>3, <2>4, <2>6 DEF PageInv, Page!TypeOK, Page!serverVars, PageClicks
  <2> QED
    BY <2>2, <2>5, <2>6, <2>7 DEF PageInv, MissingIsDeleted, PollIsCurrent, Page!serverVars
<1>3. CASE Page!Refused(c)
  <2> DEFINE s == clicks[c].service
             page == [shown EXCEPT ![s] = clicks[c].at]
  <2>1. s \in PageServices
    BY <1>3, ClickIsAny DEF Page!Refused, PageInv
  <2>2. /\ clicks[c].at \in {"missing", "refused"}
        /\ shown' = page
        /\ clicks' = [clicks EXCEPT ![c] = [at |-> "answered"]]
        /\ UNCHANGED <<Page!serverVars, poll, losses>>
        /\ outdated' = IF Page!InFlight THEN outdated \cup {s} ELSE outdated
    BY <1>3 DEF Page!Refused
  <2>3. timer' \in BOOLEAN
    BY <1>3, TimerIsBoolean DEF Page!Refused, Page!InFlight
  <2>4. page \in [PageServices -> Page!Statuses \cup {"refused", "missing"}]
    BY <2>1, <2>2 DEF PageInv, Page!TypeOK
  <2>5. \A r \in PageServices : page[r] = "missing" =>
          shown[r] = "missing" \/ (r = s /\ clicks[c].at = "missing")
    BY <2>1, <2>2 DEF PageInv, Page!TypeOK
  <2> HIDE DEF page
  <2>6. /\ DOMAIN clicks' = 1..MaxClicks
        /\ \A b \in 1..MaxClicks : clicks'[b] \in PageClicks
        /\ clicks'[c] = [at |-> "answered"]
        /\ \A b \in 1..MaxClicks : b # c => clicks'[b] = clicks[b]
    BY <2>2, ClickTypes DEF PageInv, PageClicks
  <2>7. Page!TypeOK'
    BY <2>1, <2>2, <2>3, <2>4, <2>6 DEF PageInv, Page!TypeOK, Page!serverVars, PageClicks
  <2>8. MissingIsDeleted'
    BY <2>2, <2>5, <2>6 DEF PageInv, MissingIsDeleted, Page!serverVars
  <2>9. PollIsCurrent'
    BY <2>2, <2>5 DEF PageInv, PollIsCurrent, Page!InFlight
  <2> QED
    BY <2>7, <2>8, <2>9 DEF PageInv
<1>4. CASE Page!FetchNowLost(c)
  <2> DEFINE click == [at |-> "refused", service |-> clicks[c].service]
  <2>1. clicks[c].service \in PageServices
    BY <1>4, ClickIsAny DEF Page!FetchNowLost, PageInv
  <2>2. click \in PageClicks /\ click.at # "missing"
    BY <2>1 DEF PageClicks
  <2>3. clicks' = [clicks EXCEPT ![c] = click] /\ UNCHANGED <<Page!serverVars, Page!pageVars>>
        /\ losses' \in 0..MaxLosses
    BY <1>4 DEF Page!FetchNowLost, PageInv, Page!TypeOK, PageBounded
  <2> HIDE DEF click
  <2>4. /\ DOMAIN clicks' = 1..MaxClicks
        /\ \A b \in 1..MaxClicks : clicks'[b] \in PageClicks
        /\ clicks'[c] = click
        /\ \A b \in 1..MaxClicks : b # c => clicks'[b] = clicks[b]
    BY <2>2, <2>3, ClickTypes DEF PageInv
  <2>5. Page!TypeOK'
    BY <2>3, <2>4 DEF PageInv, Page!TypeOK, Page!serverVars, Page!pageVars, PageClicks
  <2> QED
    BY <2>2, <2>3, <2>4, <2>5 DEF PageInv, MissingIsDeleted, PollIsCurrent, Page!serverVars, Page!pageVars
<1> QED
  BY <1>1, <1>2, <1>3, <1>4 DEF Page!Answer

LEMMA ServerStep ==
  ASSUME PageInv, PageBounded, NEW s \in PageServices, Page!Work(s) \/ Page!QueueElsewhere(s) \/ Page!Delete(s)
  PROVE  PageInv'
<1>1. CASE Page!Work(s)
  <2>1. status' \in [PageServices -> Page!Statuses] /\ UNCHANGED <<deleted, Page!pageVars, clicks, losses>>
    BY <1>1 DEF Page!Work, Page!Claim, Page!Finish, PageInv, Page!TypeOK, Page!Statuses, Page!Active
  <2> QED
    BY <2>1 DEF PageInv, Page!TypeOK, MissingIsDeleted, PollIsCurrent, Page!pageVars
<1>2. CASE Page!QueueElsewhere(s)
  <2> PICK c \in 1..MaxClicks : clicks' = [clicks EXCEPT ![c] = [at |-> "answered"]]
    BY <1>2 DEF Page!QueueElsewhere
  <2>1. status' \in [PageServices -> Page!Statuses] /\ UNCHANGED <<deleted, Page!pageVars, losses>>
    BY <1>2 DEF Page!QueueElsewhere, PageInv, Page!TypeOK, Page!Statuses, Page!Active
  <2>2. /\ DOMAIN clicks' = 1..MaxClicks
        /\ \A b \in 1..MaxClicks : clicks'[b] \in PageClicks
        /\ clicks'[c] = [at |-> "answered"]
        /\ \A b \in 1..MaxClicks : b # c => clicks'[b] = clicks[b]
    BY ClickTypes DEF PageInv, PageClicks
  <2>3. Page!TypeOK'
    BY <2>1, <2>2 DEF PageInv, Page!TypeOK, Page!pageVars, PageClicks
  <2> QED
    BY <2>1, <2>2, <2>3 DEF PageInv, MissingIsDeleted, PollIsCurrent, Page!pageVars
<1>3. CASE Page!Delete(s)
  BY <1>3 DEF Page!Delete, PageInv, Page!TypeOK, MissingIsDeleted, PollIsCurrent, Page!pageVars
<1> QED
  BY <1>1, <1>2, <1>3

LEMMA PageNextInv == ASSUME PageInv, PageBounded, [Page!Next]_(Page!vars) PROVE PageInv'
<1>1. CASE Page!Next
  BY <1>1, PollStep, RunNowStep, AnswerStep, ServerStep DEF Page!Next
<1>2. CASE UNCHANGED Page!vars
  BY <1>2 DEF Page!vars, Page!serverVars, Page!pageVars, PageInv, Page!TypeOK, MissingIsDeleted, PollIsCurrent
<1> QED
  BY <1>1, <1>2

\* The page keeps its invariant when another part moves.
LEMMA PageSpecInv == ASSUME PageBounded PROVE LiveSpec => []PageInv
<1>1. LiveInit => PageInv
  BY PageInitInv DEF LiveInit
<1>2. PageInv /\ [LiveNext]_allVars => PageInv'
  <2> SUFFICES ASSUME PageInv, [LiveNext]_allVars PROVE PageInv'
    OBVIOUS
  <2>1. [Page!Next]_(Page!vars)
    BY DEF LiveNext, allVars, pageVars, Page!vars, Page!serverVars, Page!pageVars
  <2> QED
    BY <2>1, PageNextInv
<1> QED
  BY <1>1, <1>2, PTL DEF LiveSpec

-----------------------------------------------------------------------------
\* The status page's state is of its types, whatever is clicked, answered and
\* lost (frontend/src/settings/fetch-status.ts).
THEOREM PageTypes == ASSUME PageBounded PROVE LiveSpec => []Page!TypeOK
<1>1. PageInv => Page!TypeOK
  BY DEF PageInv
<1> QED
  BY <1>1, PageSpecInv, PTL

\* No answer to a poll hides that a service was not found: a poll that was read
\* before the deletion is outdated by the refusal (fetch-status.ts:334-341).
THEOREM RefusalsStand == ASSUME PageBounded PROVE LiveSpec => RefusalStands
<1>1. PageInv /\ [LiveNext]_allVars
        => [\A s \in PageServices :
              shown[s] = "missing" /\ clicks' = clicks => shown'[s] = "missing"]_(Page!vars)
  <2> SUFFICES ASSUME PageInv, Page!Next, NEW s \in PageServices, shown[s] = "missing",
                      clicks' = clicks
               PROVE  shown'[s] = "missing"
    BY DEF LiveNext, allVars, pageVars, Page!vars, Page!serverVars, Page!pageVars
  <2>1. CASE Page!PollAnswered
    <3>1. s \in poll.gone \cup outdated
      BY <2>1 DEF PageInv, PollIsCurrent, Page!PollAnswered
    <3> QED
      BY <2>1, <3>1 DEF Page!PollAnswered, Page!Current
  <2>2. ASSUME NEW r \in PageServices, Page!run_fetch_service(r)
        PROVE  FALSE
    BY <2>2 DEF Page!run_fetch_service, Page!IsNext, PageInv, Page!TypeOK
  <2>3. ASSUME NEW c \in 1..MaxClicks, Page!Accepted(c) \/ Page!Refused(c)
        PROVE  FALSE
    BY <2>3 DEF Page!Accepted, Page!Refused, PageInv, Page!TypeOK
  <2>4. ASSUME NEW c \in 1..MaxClicks, Page!handle_fetch_now_api(c) \/ Page!FetchNowLost(c)
        PROVE  shown' = shown
    BY <2>4 DEF Page!handle_fetch_now_api, Page!FetchNowLost, Page!pageVars
  <2>5. ASSUME Page!refresh_fetch_status \/ Page!handle_fetch_status_api \/ Page!PollFails
        PROVE  shown' = shown
    BY <2>5 DEF Page!refresh_fetch_status, Page!handle_fetch_status_api, Page!PollFails
  <2>6. ASSUME NEW r \in PageServices, Page!Work(r) \/ Page!QueueElsewhere(r) \/ Page!Delete(r)
        PROVE  shown' = shown
    BY <2>6 DEF Page!Work, Page!Claim, Page!Finish, Page!QueueElsewhere, Page!Delete, Page!pageVars
  <2> QED
    BY <2>1, <2>2, <2>3, <2>4, <2>5, <2>6 DEF Page!Next, Page!Poll, Page!Answer
<1> QED
  BY <1>1, PageSpecInv, PTL DEF LiveSpec, RefusalStands, Page!RefusalStands

-----------------------------------------------------------------------------
(* The daemon's scheduled jobs (worker/schedule.py, worker/daemon.py).     *)

\* The calendar has days and times; None is no time.
Calendar ==
  /\ TimesADay \in Nat \ {0} /\ DaysAMonth \in Nat \ {0} /\ DaysAWeek \in Nat \ {0}
  /\ Configured \subseteq [Jobs -> Maintenance!Schedules]
  /\ Limit \in Nat /\ MaxTime \in Nat /\ None \notin Nat

\* The times of a job are of its schedule, and those before the next one ran.
TimesRan(j) ==
  /\ ran[j] \subseteq 0..now
  /\ next_run[j] # None =>
       /\ next_run[j] > started /\ Maintenance!matches(schedule[j], next_run[j])
       /\ ran[j] = {t \in (started + 1)..(next_run[j] - 1) : Maintenance!matches(schedule[j], t)}

\* A daemon that runs has a next time for every job, and sleeps no longer.
Awaited ==
  /\ daemon # "dead" => \A j \in Jobs : next_run[j] # None
  /\ daemon = "sleep" => \A j \in Jobs : deadline # None /\ deadline <= next_run[j]

JobsInv ==
  /\ Maintenance!TypeOK /\ ran \in [Jobs -> SUBSET Nat]
  /\ started <= now /\ cutoff <= now
  /\ \A j \in Jobs : TimesRan(j)
  /\ Awaited

\* Every set of numbers that holds one holds a least one.
LEMMA LeastExists ==
  ASSUME NEW S \in SUBSET Nat, S # {}
  PROVE  Maintenance!Min(S) \in S /\ \A n \in S : Maintenance!Min(S) <= n
<1> DEFINE R == {p \in Nat \X Nat : p[1] < p[2]}
<1>1. IsWellFoundedOn(R, Nat)
  BY NatLessThanWellFounded, Zenon DEF OpToRel
<1> HIDE DEF R
<1>2. PICK m \in S : \A n \in S : ~(<<n, m>> \in R)
  BY <1>1, WFMin, Zenon
<1>3. \A n \in S : ~(n < m)
  BY <1>2 DEF R
<1>4. \A n \in S : m <= n
  BY <1>3
<1> QED
  BY <1>4 DEF Maintenance!Min

\* The next time is the first match after the last one, if there is any in reach.
LEMMA NextAfter ==
  ASSUME Calendar, NEW s, NEW when \in Nat, Maintenance!next_after(s, when) # None
  PROVE  LET next == Maintenance!next_after(s, when)
         IN  /\ next \in (when + 1)..(when + 1 + Limit) /\ Maintenance!matches(s, next)
             /\ \A t \in (when + 1)..(next - 1) : ~Maintenance!matches(s, t)
<1> DEFINE found == {t \in Maintenance!LookedAt(when) : Maintenance!matches(s, t)}
<1>1. found # {} /\ Maintenance!next_after(s, when) = Maintenance!Min(found)
  BY DEF Maintenance!next_after
<1>2. found \in SUBSET Nat
  BY DEF Maintenance!LookedAt, Calendar
<1>3. Maintenance!Min(found) \in found /\ \A n \in found : Maintenance!Min(found) <= n
  BY <1>1, <1>2, LeastExists
<1>4. Maintenance!Min(found) \in (when + 1)..(when + 1 + Limit) /\ Maintenance!matches(s, Maintenance!Min(found))
  BY <1>3 DEF Maintenance!LookedAt
<1>5. ASSUME NEW t \in (when + 1)..(Maintenance!Min(found) - 1), Maintenance!matches(s, t) PROVE FALSE
  <2>1. t \in found
    BY <1>4, <1>5 DEF Maintenance!LookedAt, Calendar
  <2> QED
    BY <1>2, <1>3, <1>5, <2>1
<1> QED
  BY <1>1, <1>4, <1>5

LEMMA JobsInit == ASSUME Calendar, Maintenance!Init PROVE JobsInv
<1>1. /\ schedule \in [Jobs -> Maintenance!Schedules] /\ now = 0 /\ started = 0 /\ cutoff = 0
      /\ next_run = [j \in Jobs |-> Maintenance!next_after(schedule[j], 0)]
      /\ daemon = (IF \E j \in Jobs : next_run[j] = None THEN "dead" ELSE "plan")
      /\ ran = [j \in Jobs |-> {}] /\ deadline = None /\ queue = {}
  BY DEF Maintenance!Init, Calendar
<1>2. \A j \in Jobs : next_run[j] # None =>
        /\ next_run[j] \in 1..(1 + Limit) /\ Maintenance!matches(schedule[j], next_run[j])
        /\ \A t \in 1..(next_run[j] - 1) : ~Maintenance!matches(schedule[j], t)
  BY <1>1, NextAfter
<1>3. Maintenance!TypeOK
  BY <1>1, <1>2 DEF Maintenance!TypeOK, Maintenance!Times, Calendar
<1>4. \A j \in Jobs : TimesRan(j)
  BY <1>1, <1>2 DEF TimesRan
<1> QED
  BY <1>1, <1>3, <1>4 DEF JobsInv, Awaited

\* A step that leaves the schedule of the jobs as it is.
LEMMA JobsStay ==
  ASSUME JobsInv, UNCHANGED Maintenance!jobVars, now' \in 0..MaxTime, now <= now'
  PROVE  (\A j \in Jobs : TimesRan(j))' /\ (ran \in [Jobs -> SUBSET Nat])' /\ started' <= now'
BY DEF JobsInv, TimesRan, Maintenance!jobVars, Maintenance!TypeOK, Maintenance!matches,
       Maintenance!_day_matches

LEMMA PlanStep == ASSUME Calendar, JobsInv, Maintenance!Plan PROVE JobsInv'
<1> PICK fetch \in (now..MaxTime) \cup {None} : deadline' = Maintenance!_select_timeout(fetch)
  BY DEF Maintenance!Plan
<1> DEFINE times == ({fetch} \cup {next_run[j] : j \in Jobs}) \ {None}
<1>1. times \in SUBSET Maintenance!Times /\ times \in SUBSET Nat
  <2>1. times \subseteq Maintenance!Times
    BY DEF JobsInv, Maintenance!TypeOK, Maintenance!Times, Calendar
  <2> QED
    BY <2>1 DEF Maintenance!Times, Calendar
<1>2. CASE times = {}
  <2>1. deadline' = None /\ \A j \in Jobs : next_run[j] = None
    BY <1>2 DEF Maintenance!_select_timeout
  <2> QED
    BY <2>1, JobsStay DEF JobsInv, Awaited, Maintenance!TypeOK, Maintenance!Plan, Maintenance!jobVars
<1>3. CASE times # {}
  <2>1. deadline' = Maintenance!Min(times)
    BY <1>3 DEF Maintenance!_select_timeout
  <2>2. Maintenance!Min(times) \in times /\ \A t \in times : Maintenance!Min(times) <= t
    <3> HIDE DEF times
    <3> QED
      BY <1>1, <1>3, LeastExists
  <2>3. \A j \in Jobs : next_run[j] # None => next_run[j] \in times
    OBVIOUS
  <2> HIDE DEF times
  <2>4. deadline' \in Maintenance!Times /\ deadline' # None
    BY <1>1, <2>1, <2>2 DEF Calendar
  <2>5. Awaited'
    BY <2>1, <2>2, <2>3, <2>4 DEF JobsInv, Awaited, Maintenance!Plan, Maintenance!jobVars
  <2> QED
    BY <2>4, <2>5, JobsStay DEF JobsInv, Maintenance!TypeOK, Maintenance!Plan, Maintenance!jobVars
<1> QED
  BY <1>2, <1>3

\* A job runs for its next time, and is given the one after it.
LEMMA RunJobStep == ASSUME Calendar, JobsInv, NEW j \in Jobs, Maintenance!RunJob(j) PROVE JobsInv'
<1>1. CASE next_run[j] <= cutoff
  <2> DEFINE next == Maintenance!next_after(schedule[j], next_run[j])
  <2>1. /\ ran' = [ran EXCEPT ![j] = ran[j] \cup {next_run[j]}]
        /\ next_run' = [next_run EXCEPT ![j] = next]
        /\ daemon = "jobs" /\ daemon' = IF next_run'[j] = None THEN "dead" ELSE daemon
        /\ UNCHANGED <<queue, schedule, started, deadline, cutoff, now>>
    BY <1>1 DEF Maintenance!RunJob
  <2>2. /\ next_run[j] \in Nat /\ next_run[j] <= now /\ started \in Nat /\ next_run[j] > started
        /\ ran[j] \subseteq 0..now /\ now \in 0..MaxTime
        /\ Maintenance!matches(schedule[j], next_run[j])
        /\ ran[j] = {t \in (started + 1)..(next_run[j] - 1) : Maintenance!matches(schedule[j], t)}
    BY <1>1, <2>1 DEF JobsInv, Awaited, TimesRan, Maintenance!TypeOK, Maintenance!Times, Calendar
  <2>3. next # None =>
          /\ next \in (next_run[j] + 1)..(next_run[j] + 1 + Limit)
          /\ Maintenance!matches(schedule[j], next)
          /\ \A t \in (next_run[j] + 1)..(next - 1) : ~Maintenance!matches(schedule[j], t)
    BY <2>2, NextAfter
  <2> HIDE DEF next
  <2>4. /\ next_run'[j] = next /\ ran'[j] = ran[j] \cup {next_run[j]}
        /\ \A k \in Jobs \ {j} : next_run'[k] = next_run[k] /\ ran'[k] = ran[k]
    BY <2>1 DEF JobsInv, Maintenance!TypeOK
  <2>5. next # None =>
          ran[j] \cup {next_run[j]}
            = {t \in (started + 1)..(next - 1) : Maintenance!matches(schedule[j], t)}
    BY <2>2, <2>3, Z3
  <2>6. TimesRan(j)'
    BY <2>1, <2>2, <2>3, <2>4, <2>5
       DEF TimesRan, Maintenance!matches, Maintenance!_day_matches
  <2>7. \A k \in Jobs \ {j} : TimesRan(k)'
    BY <2>1, <2>4 DEF JobsInv, TimesRan, Maintenance!matches, Maintenance!_day_matches
  <2>8. next \in Maintenance!Times \cup {None}
    BY <2>2, <2>3 DEF Maintenance!Times, Calendar
  <2>9. Maintenance!TypeOK' /\ (ran \in [Jobs -> SUBSET Nat])'
    BY <2>1, <2>2, <2>4, <2>8 DEF JobsInv, Maintenance!TypeOK, Maintenance!Times, Calendar
  <2>10. Awaited'
    BY <2>1, <2>4 DEF JobsInv, Awaited
  <2> QED
    BY <2>1, <2>6, <2>7, <2>9, <2>10 DEF JobsInv
<1>2. CASE ~(next_run[j] <= cutoff)
  <2>1. UNCHANGED <<Maintenance!jobVars, daemon, deadline, cutoff, now>> /\ queue' \subseteq queue
        /\ daemon = "jobs"
    BY <1>2 DEF Maintenance!RunJob, Maintenance!jobVars
  <2> QED
    BY <2>1, JobsStay DEF JobsInv, Awaited, Maintenance!TypeOK, Maintenance!jobVars
<1> QED
  BY <1>1, <1>2

\* A new daemon schedules its jobs from now on.
LEMMA RestartStep == ASSUME Calendar, JobsInv, Maintenance!Restart PROVE JobsInv'
<1>1. /\ next_run' = [j \in Jobs |-> Maintenance!next_after(schedule[j], now)]
      /\ \A j \in Jobs : next_run'[j] # None
      /\ daemon' = "plan" /\ started' = now /\ ran' = [j \in Jobs |-> {}]
      /\ queue' = {} /\ cutoff' = 0 /\ UNCHANGED <<schedule, deadline, now>>
  BY DEF Maintenance!Restart
<1>2. now \in 0..MaxTime /\ now \in Nat
  BY DEF JobsInv, Maintenance!TypeOK, Calendar
<1>3. \A j \in Jobs :
        /\ next_run'[j] \in (now + 1)..(now + 1 + Limit)
        /\ Maintenance!matches(schedule[j], next_run'[j])
        /\ \A t \in (now + 1)..(next_run'[j] - 1) : ~Maintenance!matches(schedule[j], t)
  BY <1>1, <1>2, NextAfter
<1>4. Maintenance!TypeOK'
  BY <1>1, <1>2, <1>3 DEF JobsInv, Maintenance!TypeOK, Maintenance!Times, Calendar
<1>5. (\A j \in Jobs : TimesRan(j))'
  BY <1>1, <1>2, <1>3 DEF TimesRan, Maintenance!matches, Maintenance!_day_matches
<1> QED
  BY <1>1, <1>2, <1>4, <1>5 DEF JobsInv, Awaited

LEMMA TickStep == ASSUME Calendar, JobsInv, Maintenance!Tick PROVE JobsInv'
<1>1. /\ now' = now + 1 /\ now' \in 0..MaxTime /\ now <= now'
      /\ UNCHANGED <<Maintenance!jobVars, daemon, deadline, queue, cutoff>>
  BY DEF Maintenance!Tick, JobsInv, Maintenance!TypeOK, Calendar
<1> QED
  BY <1>1, JobsStay DEF JobsInv, Awaited, Maintenance!TypeOK, Maintenance!jobVars, Calendar

LEMMA JobsNext == ASSUME Calendar, JobsInv, [Maintenance!Next]_(Maintenance!vars) PROVE JobsInv'
<1>1. ASSUME \/ Maintenance!Timeout \/ Maintenance!Signal \/ Maintenance!_run_due_maintenance_jobs
             \/ Maintenance!JobFails \/ Maintenance!EndOfCycle
      PROVE  JobsInv'
  <2>1. /\ UNCHANGED <<Maintenance!jobVars, now>> /\ daemon' # "sleep"
        /\ daemon' # "dead" => daemon # "dead"
        /\ daemon' \in {"fetch", "jobs", "dead", "plan"}
        /\ deadline' \in {deadline, None} /\ cutoff' \in {cutoff, now, 0} /\ queue' \in {queue, Jobs}
    BY <1>1 DEF Maintenance!Timeout, Maintenance!Signal, Maintenance!Wakes, Maintenance!JobFails,
                Maintenance!_run_due_maintenance_jobs, Maintenance!EndOfCycle
  <2>2. now \in 0..MaxTime /\ 0 <= now
    BY DEF JobsInv, Maintenance!TypeOK, Calendar
  <2> QED
    BY <2>1, <2>2, JobsStay DEF JobsInv, Awaited, Maintenance!TypeOK, Maintenance!jobVars, Calendar
<1>2. CASE UNCHANGED Maintenance!vars
  BY <1>2, JobsStay DEF JobsInv, Awaited, Maintenance!TypeOK, Maintenance!vars, Maintenance!jobVars
<1> QED
  BY <1>1, <1>2, PlanStep, RunJobStep, RestartStep, TickStep DEF Maintenance!Next, Maintenance!Daemon

LEMMA JobsSpecInv == ASSUME Calendar PROVE LiveSpec => []JobsInv
<1>1. LiveInit => JobsInv
  BY JobsInit DEF LiveInit
<1>2. JobsInv /\ [LiveNext]_allVars => JobsInv'
  <2> SUFFICES ASSUME JobsInv, [LiveNext]_allVars PROVE JobsInv'
    OBVIOUS
  <2>1. [Maintenance!Next]_(Maintenance!vars)
    BY DEF LiveNext, allVars, scheduleVars, Maintenance!vars
  <2> QED
    BY <2>1, JobsNext
<1> QED
  BY <1>1, <1>2, PTL DEF LiveSpec

-----------------------------------------------------------------------------
\* A field that was given as "*" holds every value.
LEMMA AnyIsAll ==
  ASSUME NEW S, NEW f \in Maintenance!Fields(S)
  PROVE  f.any \in BOOLEAN /\ (f.any => f.values = S)
<1>1. CASE f = Maintenance!Any(S)
  BY <1>1 DEF Maintenance!Any
<1>2. CASE \E V \in SUBSET S : f = [values |-> V, any |-> FALSE]
  BY <1>2
<1> QED
  BY <1>1, <1>2 DEF Maintenance!Fields

\* The rule of the code (CronSchedule._day_matches) is cron's.
LEMMA CodeFollowsCron ==
  ASSUME Calendar, JobsInv, NEW j \in Jobs, NEW t \in Nat
  PROVE  Maintenance!matches(schedule[j], t) <=> Maintenance!CronRuns(j, t)
<1> DEFINE s == schedule[j]
<1>1. s \in Maintenance!Schedules
  BY DEF JobsInv, Maintenance!TypeOK
<1>2. /\ s.day_of_month \in Maintenance!Fields(1..DaysAMonth)
      /\ s.day_of_week \in Maintenance!Fields(0..(DaysAWeek - 1))
  BY <1>1 DEF Maintenance!Schedules
<1>3. /\ s.day_of_month.any \in BOOLEAN /\ s.day_of_week.any \in BOOLEAN
      /\ s.day_of_month.any => s.day_of_month.values = 1..DaysAMonth
      /\ s.day_of_week.any => s.day_of_week.values = 0..(DaysAWeek - 1)
  BY <1>2, AnyIsAll
<1> HIDE DEF s
<1>4. t \div TimesADay \in Nat
  BY DEF Calendar
<1>5. Maintenance!DayOf(t) \in 1..DaysAMonth /\ Maintenance!WeekdayOf(t) \in 0..(DaysAWeek - 1)
  BY <1>4 DEF Maintenance!DayOf, Maintenance!WeekdayOf, Calendar
<1> QED
  BY <1>3, <1>5 DEF Maintenance!matches, Maintenance!_day_matches, Maintenance!CronRuns, s

\* Each job ran for exactly the times cron's rule names since the daemon
\* started, up to its next run: whatever the schedules, none was skipped while
\* the daemon was busy or asleep, none ran twice and none early.
THEOREM CronIsFollowed == ASSUME Calendar PROVE LiveSpec => []JobsFollowCron
<1>1. JobsInv => JobsFollowCron
  <2> SUFFICES ASSUME JobsInv, NEW j \in Jobs
               PROVE  /\ \A t \in ran[j] : t <= now
                      /\ next_run[j] # None =>
                           ran[j] = {t \in (started + 1)..(next_run[j] - 1) : Maintenance!CronRuns(j, t)}
    BY DEF JobsFollowCron, Maintenance!JobsFollowCron
  <2>1. \A t \in ran[j] : t <= now
    BY DEF JobsInv, TimesRan, Maintenance!TypeOK, Calendar
  <2>2. ASSUME next_run[j] # None
        PROVE  ran[j] = {t \in (started + 1)..(next_run[j] - 1) : Maintenance!CronRuns(j, t)}
    <3>1. ran[j] = {t \in (started + 1)..(next_run[j] - 1) : Maintenance!matches(schedule[j], t)}
      BY <2>2 DEF JobsInv, TimesRan
    <3>2. \A t \in (started + 1)..(next_run[j] - 1) : t \in Nat
      BY <2>2 DEF JobsInv, Maintenance!TypeOK, Maintenance!Times, Calendar
    <3> QED
      BY <3>1, <3>2, CodeFollowsCron
  <2> QED
    BY <2>1, <2>2
<1> QED
  BY <1>1, JobsSpecInv, PTL

\* The daemon never sleeps past the time of a job (_select_timeout): no time
\* passes in select beyond the first of their next runs.
THEOREM DeadlinesAreKept == ASSUME Calendar PROVE LiveSpec => NeverOversleeps
<1>1. JobsInv /\ [LiveNext]_allVars
        => [daemon = "sleep" /\ now' # now => \A j \in Jobs : next_run[j] >= now']_(Maintenance!vars)
  <2> SUFFICES ASSUME JobsInv, Maintenance!Next, daemon = "sleep", now' # now, NEW j \in Jobs
               PROVE  next_run[j] >= now'
    BY DEF LiveNext, allVars, scheduleVars, Maintenance!vars
  <2>1. Maintenance!Tick
    BY DEF Maintenance!Next, Maintenance!Daemon, Maintenance!Plan, Maintenance!Timeout,
           Maintenance!Signal, Maintenance!Wakes, Maintenance!_run_due_maintenance_jobs,
           Maintenance!RunJob, Maintenance!EndOfCycle, Maintenance!JobFails, Maintenance!Restart
  <2>2. now' = now + 1 /\ now < deadline /\ deadline <= next_run[j]
    BY <2>1 DEF Maintenance!Tick, JobsInv, Awaited
  <2>3. now \in Nat /\ deadline \in Nat /\ next_run[j] \in Nat
    BY <2>1 DEF Maintenance!Tick, JobsInv, Awaited, Maintenance!TypeOK, Maintenance!Times, Calendar
  <2> QED
    BY <2>2, <2>3
<1> QED
  BY <1>1, JobsSpecInv, PTL DEF LiveSpec, NeverOversleeps, Maintenance!NeverOversleeps
=============================================================================
