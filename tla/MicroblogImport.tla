--------------------------- MODULE MicroblogImport ---------------------------
(***************************************************************************)
(* The providers of timelines with reposts: Mastodon (apis/mastodon.py)    *)
(* and the AT Protocol (apis/atproto.py).                                  *)
(*                                                                         *)
(* A timeline lists appearances, the newest first: a post as its author    *)
(* published it, and each repost of it, all under one guid.  A run copies  *)
(* the service row, asks for the first page of the timeline, saves the row *)
(* with the time of the check, and writes one appearance after the other;  *)
(* on the way it asks for the posts that these reply to or quote.          *)
(*                                                                         *)
(* Dates are in halves of a second.  An appearance is compared by its      *)
(* local date, without its offset and its fraction, and stored with the    *)
(* whole date.                                                             *)
(*                                                                         *)
(* Of an entry, its date, its reposter and what it shows of the posts it   *)
(* names are told apart.  Entries lost in races and deleted ones are       *)
(* EntryStore's: here one appearance is resolved, built and stored in one  *)
(* step.                                                                   *)
(***************************************************************************)
EXTENDS Integers, Sequences

CONSTANTS
  Posts,      \* posts of the timeline
  Named,      \* posts that these reply to or quote
  Reposters,  \* whoever reposts
  None,       \* nobody; nothing; no entry
  MaxDate,    \* bound: the dates, from 1
  Offsets,    \* from UTC, of the dates that authors give
  Long,       \* a full page of the timeline: 40 statuses, 50 posts
  Short,      \* the page that Mastodon sends when it is not told how much: 20
  MaxListed   \* bound: the length of the timeline

VARIABLES
  api,        \* "mastodon" or "atproto"
  home,       \* the service reads the home timeline: it has no user id
  names,      \* external: the posts a post names but does not bring along
  timeline,   \* external: what the remote lists
  published,  \* external: the appearances there were
  creds,      \* whether a handle and a password are stored
  skips,      \* skip_reblogs of the stored row
  checked,    \* whether last_checked of the stored row is set
  rows,       \* the entry of each post, or None
  run,        \* the run: where it is, its copy of the row, what is left, its cache
  outcome,    \* of the last run
  handled,    \* history: the appearances the run has dealt with, unless forced
  written     \* history: the posts whose entries the run has written

remoteVars == <<names, timeline, published>>
serviceVars == <<api, home, creds>>
rowVars == <<skips, checked>>
history == <<handled, written>>
vars == <<serviceVars, remoteVars, rowVars, rows, run, outcome, history>>

Dates == 1..MaxDate
Appearance == [post : Posts, by : Reposters \cup {None}, date : Dates, offset : Offsets]
Seen == {"unasked", "found", "unavailable"}
Row == [date : Dates, by : Reposters \cup {None}, shows : [Named -> Seen], protected : BOOLEAN]

\* Of a FetchError, whether the fetch is tried again soon.
Errors == {"retryable", "terminal"}

Unasked == [n \in Named |-> "unasked"]
Idle == [at |-> "idle", skips |-> FALSE, checked |-> FALSE, forced |-> FALSE, left |-> <<>>,
         cache |-> Unasked]

TypeOK ==
  /\ api \in {"mastodon", "atproto"} /\ home \in BOOLEAN /\ creds \in BOOLEAN
  /\ names \in [Posts -> [reply : Named \cup {None}, quote : Named \cup {None}]]
  /\ timeline \in Seq(Appearance) /\ published \subseteq Appearance
  /\ skips \in BOOLEAN /\ checked \in BOOLEAN
  /\ rows \in [Posts -> Row \cup {None}]
  /\ run \in [at : {"idle", "ask", "save", "feed", "import"}, skips : BOOLEAN,
              checked : BOOLEAN, forced : BOOLEAN, left : Seq(Appearance),
              cache : [Named -> Seen]]
  /\ outcome \in Errors \cup {"none"}
  /\ handled \subseteq Appearance /\ written \subseteq Posts

Init ==
  /\ api \in {"mastodon", "atproto"}
  /\ home \in BOOLEAN /\ creds \in BOOLEAN
  /\ names \in [Posts -> [reply : Named \cup {None},
                          quote : IF api = "mastodon" THEN Named \cup {None} ELSE {None}]]
  /\ timeline = <<>> /\ published = {}
  /\ skips \in BOOLEAN /\ checked = FALSE
  /\ rows = [p \in Posts |-> None]
  /\ run = Idle /\ outcome = "none"
  /\ handled = {} /\ written = {}

-----------------------------------------------------------------------------
(* The remote.  A date need not be that of the listing: an author's client *)
(* dates a post.  The offset is that of the text: a Mastodon server writes *)
(* UTC, and so does the AT Protocol's of its own date of a repost.         *)

Publish(a) ==
  /\ Len(timeline) < MaxListed
  /\ \A b \in published : b.post # a.post \/ b.by # a.by
  /\ a.by # None \/ api = "mastodon" => a.offset = 0
  /\ timeline' = <<a>> \o timeline
  /\ published' = published \cup {a}
  /\ UNCHANGED <<serviceVars, names, rowVars, rows, run, outcome, history>>

\* What the remote sends of the timeline, at most n appearances.
Page(n) == SubSeq(timeline, 1, IF Len(timeline) < n THEN Len(timeline) ELSE n)

-----------------------------------------------------------------------------
(* A run until it has its page.                                            *)

Begin(forced) ==
  /\ run.at = "idle"
  /\ run' = [Idle EXCEPT !.at = "ask", !.skips = skips, !.checked = checked, !.forced = forced]
  /\ outcome' = "none"
  /\ UNCHANGED <<serviceVars, remoteVars, rowVars, rows, history>>

Ends(error) ==
  /\ run' = Idle
  /\ outcome' = error
  /\ handled' = {} /\ written' = {}
  /\ UNCHANGED <<serviceVars, remoteVars, rowVars, rows>>

\* The exceptions of the AT Protocol's client: its own kinds, with the HTTP
\* status where there was an answer.
Statuses == {401, 404, 408, 429, 500, 501}
Exceptions == [kind : {"timeout", "network", "unauthorized", "model", "other", "foreign"},
               status : Statuses \cup {None}]

classify_status_code(status) == IF status \in {408, 429, 500} THEN "retryable" ELSE "terminal"

\* What is not classified is raised on, and reported as unexpected.
_to_fetch_error(exc) ==
  CASE exc.kind = "foreign" -> "terminal"
    [] exc.kind = "timeout" -> "retryable"
    [] exc.kind \notin {"foreign", "timeout"} /\ exc.status # None -> classify_status_code(exc.status)
    [] exc.kind = "network" /\ exc.status = None -> "retryable"
    [] exc.kind \in {"unauthorized", "model", "other"} /\ exc.status = None -> "terminal"

ClientErrors == {_to_fetch_error(exc) : exc \in Exceptions}

\* Mastodon: the home timeline and the first page of an account are long.
get_urls == IF home \/ ~run.checked THEN Long ELSE Short

\* Mastodon: the page is read before the check is saved; a read may fail in
\* every way (HttpReads).
Fetch ==
  /\ api = "mastodon" /\ run.at = "ask"
  /\ \/ /\ run' = [run EXCEPT !.at = "save", !.left = Page(get_urls)]
        /\ UNCHANGED <<serviceVars, remoteVars, rowVars, rows, outcome, history>>
     \/ \E error \in Errors : Ends(error)

\* AT Protocol: signing in comes first, and then the check is saved.
LogIn ==
  /\ api = "atproto" /\ run.at = "ask"
  /\ \/ ~creds /\ Ends("terminal")
     \/ /\ creds
        /\ run' = [run EXCEPT !.at = "save"]
        /\ UNCHANGED <<serviceVars, remoteVars, rowVars, rows, outcome, history>>
     \/ creds /\ \E error \in ClientErrors : Ends(error)

\* The whole row the run read is saved, with the time of this check.
SaveCheck ==
  /\ run.at = "save"
  /\ checked' = TRUE
  /\ skips' = run.skips
  /\ run' = [run EXCEPT !.at = IF api = "mastodon" THEN "import" ELSE "feed"]
  /\ UNCHANGED <<serviceVars, remoteVars, rows, outcome, history>>

\* AT Protocol: only now the timeline is asked for.
GetFeed ==
  /\ run.at = "feed"
  /\ \/ /\ run' = [run EXCEPT !.at = "import", !.left = Page(Long)]
        /\ UNCHANGED <<serviceVars, remoteVars, rowVars, rows, outcome, history>>
     \/ \E error \in ClientErrors : Ends(error)

-----------------------------------------------------------------------------
(* One appearance after the other.                                         *)

First == Head(run.left)

\* Both providers' _candidates leave reposts out when the run's copy says so.
SkipsRepost == First.by # None /\ run.skips

\* The freshness of a candidate: its local date, taken for UTC, whose fraction
\* and offset timetuple() drops.
mtime(a) == LET local == a.date + a.offset IN local - (local % 2)

\* resolve_entry
Stale == rows[First.post] # None /\ ~run.forced /\ mtime(First) <= rows[First.post].date
Protected == rows[First.post] # None /\ rows[First.post].protected

\* Mutant: a failed answer is not remembered.
FoundOnly(n) == run.cache[n] = "found"
\* _fetch_status and _get_parent_post remember any answer until the run ends.
Remembered(n) == run.cache[n] # "unasked"

\* The posts the entry names: Mastodon's reply and quote, AT Protocol's reply.
MentionedBy(p) == {names[p].reply, names[p].quote} \ {None}

Asks(n) == n \in MentionedBy(First.post) /\ ~Remembered(n)

\* The cache once the entry is built; an answer that is a failure is that the
\* post is unavailable.
Caches == { c \in [Named -> Seen] :
              \A n \in Named : IF Asks(n) THEN c[n] # "unasked" ELSE c[n] = run.cache[n] }

\* The entry shows of each post it names what the cache says.
ShownOf(p, cache) == [n \in Named |-> IF n \in MentionedBy(p) THEN cache[n] ELSE "unasked"]

\* Mutant: an earlier repost is not cleared.
MarkReblog(by, old) == IF by = None /\ old # None THEN old.by ELSE by
\* set_reblog marks the entry as reposted, or clears an earlier repost.
set_reblog(by, old) == by

\* The columns that _normalize assigns; the date is the repost's for a repost.
Normalized(a, cache, old) ==
  [date |-> a.date, by |-> set_reblog(a.by, old), shows |-> ShownOf(a.post, cache),
   protected |-> old # None /\ old.protected]

Passes(cache) == run' = [run EXCEPT !.left = Tail(@), !.cache = cache]
Handles == handled' = IF run.forced THEN handled ELSE handled \cup {First}

SkipRepost ==
  /\ SkipsRepost
  /\ Passes(run.cache)
  /\ UNCHANGED <<rows, history>>

\* The entry is new enough, or the owner protects it from imports.
SkipKnown ==
  /\ ~SkipsRepost /\ (Stale \/ Protected)
  /\ Passes(run.cache)
  /\ IF Stale THEN Handles ELSE UNCHANGED handled
  /\ UNCHANGED <<rows, written>>

\* The entry is built and stored, or it cannot be stored and is counted.
Store ==
  /\ ~SkipsRepost /\ ~Stale /\ ~Protected
  /\ \E cache \in Caches :
       /\ Passes(cache)
       /\ \/ /\ rows' = [rows EXCEPT ![First.post] = Normalized(First, cache, @)]
             /\ Handles /\ written' = written \cup {First.post}
          \/ UNCHANGED <<rows, history>>

Import ==
  /\ run.at = "import" /\ run.left # <<>>
  /\ SkipRepost \/ SkipKnown \/ Store
  /\ UNCHANGED <<serviceVars, remoteVars, rowVars, outcome>>

\* An appearance without a date, or one that cannot be built, ends the run.
Malformed ==
  /\ run.at = "import" /\ run.left # <<>>
  /\ Ends("terminal")

Finish ==
  /\ run.at = "import" /\ run.left = <<>>
  /\ Ends("none")

-----------------------------------------------------------------------------
(* The owner.                                                              *)

\* The admin's form, also while a run works with its copy.
ChooseReposts ==
  /\ skips' = ~skips
  /\ UNCHANGED <<serviceVars, remoteVars, checked, rows, run, outcome, history>>

\* The admin's protection of an entry.
Protect(p) ==
  /\ rows[p] # None
  /\ rows' = [rows EXCEPT ![p].protected = ~@]
  /\ UNCHANGED <<serviceVars, remoteVars, rowVars, run, outcome, history>>

Next ==
  \/ \E a \in Appearance : Publish(a)
  \/ \E forced \in BOOLEAN : Begin(forced)
  \/ Fetch \/ LogIn \/ SaveCheck \/ GetFeed
  \/ Import \/ Malformed \/ Finish
  \/ ChooseReposts \/ \E p \in Posts : Protect(p)

Spec == Init /\ [][Next]_vars

-----------------------------------------------------------------------------
\* An entry is one appearance of its post: its date and its reposter belong
\* together, whatever was imported before it and whatever was forced.
EntriesAreAppearances ==
  \A p \in Posts : rows[p] # None =>
    \E a \in published : a.post = p /\ a.by = rows[p].by /\ a.date = rows[p].date

\* An appearance that a run dealt with has an entry, which is not older than the
\* whole second of its date, as it is compared.  Excepted is a post dated ahead of
\* UTC: it is compared as newer than it is, and may set its entry back.
NewestStays ==
  \A a \in handled :
    /\ rows[a.post] # None
    /\ (\A b \in published : b.post = a.post => b.offset <= 0)
         => mtime(a) <= rows[a.post].date

\* One run asks once for a post that others name: all the entries it writes
\* show that post, or that it is unavailable.
NamedAlike ==
  run.at = "import" =>
    \A p \in written : \A n \in MentionedBy(p) :
      rows[p].shows[n] = run.cache[n] /\ run.cache[n] # "unasked"

\* What the runs of a provider leave of a timeline, in whatever order posts and
\* their reposts were listed, dated, imported and forced.
TimelineIsKept == EntriesAreAppearances /\ NewestStays /\ NamedAlike
=============================================================================
