---------------------------- MODULE StreamPages ----------------------------
(***************************************************************************)
(* Reading the stream page by page: the query of one page                  *)
(* (stream/index_view.py) and the browser, which appends the next page in  *)
(* place (frontend/src/stream/continuous.ts) until the page is long, and   *)
(* then follows the link.                                                  *)
(*                                                                         *)
(* The link to the next page names a second, not an entry: the whole       *)
(* seconds of the date of the first entry that did not fit.  Entries come  *)
(* and go between two pages.  A date is counted in half seconds, so that   *)
(* an odd one has a fraction.  The filters of a page (class, author, list, *)
(* who reads it) are one set here, the entries it may show; search, whose  *)
(* pages are counted, and the link back to newer entries are left out.     *)
(***************************************************************************)
EXTENDS Naturals, FiniteSets

CONSTANTS
  Entries,     \* the entries that may come to the stream
  None,        \* no further page; no answer
  Dates,       \* their dates, in half seconds
  PageSize,    \* ENTRIES_ON_PAGE
  Continuous,  \* continuous_reading: how long a page grows
  MaxChanges   \* bound: entries published, hidden or shown while reading

VARIABLES
  backtime,  \* the newest first, as everywhere but in an archive
  date,      \* of each entry
  visible,   \* the entries a page may show now
  steady,    \* History: those it might show ever since the first page
  seen,      \* History: the entries shown to the reader
  length,    \* how many articles the page holds
  cursor,    \* where the link to the next page starts, None without a link
  request,   \* the request for a page on its way, and its answer
  changes

streamVars == <<visible, steady, changes>>
pageVars == <<seen, length, cursor, request>>
vars == <<backtime, date, streamVars, pageVars>>

Second(d) == d \div 2
Seconds == {Second(d) : d \in Dates}
NoRequest == [at |-> "none", entries |-> {}, next |-> None]

TypeOK ==
  /\ backtime \in BOOLEAN
  /\ date \in [Entries -> Dates]
  /\ visible \subseteq Entries
  /\ steady \subseteq visible
  /\ seen \subseteq Entries
  /\ length \in 0..(Continuous + PageSize - 1)
  /\ cursor \in Seconds \cup {None}
  /\ request \in [at : {"none", "sent", "answered", "lost"},
                  entries : SUBSET Entries, next : Seconds \cup {None}]
  /\ changes \in 0..MaxChanges

-----------------------------------------------------------------------------
(* The server: one page.                                                   *)

\* e comes before f on a page, or may.
Before(e, f) == IF backtime THEN date[e] >= date[f] ELSE date[e] <= date[f]

\* Mutant: the entries of the second the link names are not asked for again.
PastStart(e, start) ==
  IF backtime THEN date[e] < 2 * start ELSE date[e] > 2 * start
\* date_published__lte or __gte the second the link names.
FromStart(e, start) ==
  IF backtime THEN date[e] <= 2 * start ELSE date[e] >= 2 * start

\* The first PageSize of `found`; entries of one date come in any order.
Firsts(found) ==
  {page \in SUBSET found :
     /\ Cardinality(page) <= PageSize
     /\ Cardinality(page) < PageSize => page = found
     /\ \A e \in page, f \in found \ page : Before(e, f)}

\* The second of the first entry that is left.
NextStart(found, page) ==
  IF found = page THEN None
  ELSE Second(date[CHOOSE e \in found \ page : \A f \in found \ page : Before(e, f)])

From(start) == {e \in visible : FromStart(e, start)}

-----------------------------------------------------------------------------
(* The browser.                                                            *)

Init ==
  /\ backtime \in BOOLEAN
  /\ date \in [Entries -> Dates]
  /\ visible \in SUBSET Entries
  /\ steady = visible
  /\ seen \in Firsts(visible)
  /\ length = Cardinality(seen)
  /\ cursor = NextStart(visible, seen)
  /\ request = NoRequest
  /\ changes = 0

\* Mutant: a page of continuous_reading entries still grows.
Longer == length > Continuous

Long == length >= Continuous

\* A click on a link with a page on its way does nothing.
Click ==
  /\ request.at = "none"
  /\ cursor # None
  /\ ~Long
  /\ request' = [NoRequest EXCEPT !.at = "sent"]
  /\ UNCHANGED <<backtime, date, streamVars, seen, length, cursor>>

\* A long page is left for the next one.
Follow ==
  /\ request.at = "none"
  /\ cursor # None
  /\ Long
  /\ \E page \in Firsts(From(cursor)) :
       /\ seen' = seen \cup page
       /\ length' = Cardinality(page)
       /\ cursor' = NextStart(From(cursor), page)
  /\ UNCHANGED <<backtime, date, streamVars, request>>

Answer ==
  /\ request.at = "sent"
  /\ \E page \in Firsts(From(cursor)) :
       request' = [at |-> "answered", entries |-> page,
                   next |-> NextStart(From(cursor), page)]
  /\ UNCHANGED <<backtime, date, streamVars, seen, length, cursor>>

\* The link stays busy: only loading the page again helps.
Fails ==
  /\ request.at \in {"sent", "answered"}
  /\ request' = [NoRequest EXCEPT !.at = "lost"]
  /\ UNCHANGED <<backtime, date, streamVars, seen, length, cursor>>

append_page ==
  /\ request.at = "answered"
  /\ seen' = seen \cup request.entries
  /\ length' = length + Cardinality(request.entries)
  /\ cursor' = request.next
  /\ request' = NoRequest
  /\ UNCHANGED <<backtime, date, streamVars>>

-----------------------------------------------------------------------------
(* Meanwhile: imports, posts, the owner.                                   *)

Publish(e) ==
  /\ changes < MaxChanges
  /\ e \notin visible
  /\ visible' = visible \cup {e}
  /\ changes' = changes + 1
  /\ UNCHANGED <<backtime, date, steady, pageVars>>

Hide(e) ==
  /\ changes < MaxChanges
  /\ e \in visible
  /\ visible' = visible \ {e}
  /\ steady' = steady \ {e}
  /\ changes' = changes + 1
  /\ UNCHANGED <<backtime, date, pageVars>>

Next ==
  \/ Click
  \/ Follow
  \/ Answer
  \/ Fails
  \/ append_page
  \/ \E e \in Entries : Publish(e) \/ Hide(e)

Spec == Init /\ [][Next]_vars

-----------------------------------------------------------------------------
\* Reading on skips no entry: whatever lies before the place where the next
\* page starts was shown, if it was there all the time, however many entries
\* came or went and however many share a second.  Newest first, this holds only
\* for dates without a fraction: index_view.py:422 cuts the fraction off, and
\* an entry of that second, the first one of the next page, may be left out.
NothingIsSkipped ==
  \A e \in steady :
    (/\ backtime => date[e] % 2 = 0
     /\ cursor # None => IF backtime THEN date[e] > 2 * cursor ELSE date[e] < 2 * cursor)
      => e \in seen
=============================================================================
