------------------------------ MODULE MCEntries ------------------------------
(***************************************************************************)
(* The modules about entries and pages, and about the reads, commands and  *)
(* sign-ins beside them.  They share no variable, so one specification     *)
(* holds them all: EntriesInit chooses the part that moves, and the others *)
(* stay as they start.  SmallSpec is the instance of it for TLC.           *)
(***************************************************************************)
EXTENDS PageCache, Integers, TLC

CONSTANTS
  Imports, Newest, MaxRows,                                 \* EntryStore
  Posts, Classes, MaxPerSecond, MaxEdits,                   \* SelfPosts
  Videos, OnVimeo, Upgradables, Edited, Starts, Gone, MaxUpgrades, MaxTokens,  \* EntryUpgrades
  StreamEntries, EntryDates, PageSize, Continuous, MaxChanges,   \* StreamPages
  Tabs, MaxAuths, MaxRest,                                  \* ServiceAccess
  Backoff, MaxRetryAfter, Waits, Feed, Sniff, Media, Longest,  \* HttpReads
  Services, MaxOptions,                                     \* WorkerCommands
  TimelinePosts, Named, Reposters, MaxDate, Offsets,        \* MicroblogImport
  FullPage, ShortPage, MaxListed,
  Bytes, FeatureKinds, MaxFeatures, MaxFacets, MaxAttachments,     \* PostContent
  Articles, Changing                                        \* EntryVisibility

VARIABLES
  part,
  \* EntryStore
  entryRow, inserted, favorite, favoriting, import, looked, deleted,
  \* SelfPosts
  post, storedPosts, requests, postEdits,
  \* EntryUpgrades
  api, public, entry, edits, rows, skipped, tokens, upgrading, files, young, media,
  sweep, lasting, undone, again,
  \* StreamPages
  backtime, date, visible, steady, seen, length, cursor, request, changes,
  \* ServiceAccess
  method, saved, creds, client, session, form, visit, fetch, auths, rest, unused,
  \* HttpReads
  what, reading, page, attempt, answer, kept, error, waited,
  \* WorkerCommands
  argv, parsed, at, did, entries,
  \* MicroblogImport
  provider, home, names, timeline, published, account, skips, checked, imported, run,
  outcome, handled, written,
  \* PostContent
  rendering, size, starts, facets, current, chunks, given, attachments, turn, thumbnails,
  markup, mblob,
  \* EntryVisibility
  sso, articles, favored, listed, viewer, asked, filters, loaded, masked, titled, months,
  response

storeVars == <<entryRow, inserted, favorite, favoriting, import, looked, deleted>>
postVars == <<post, storedPosts, requests, postEdits>>
upgradeVars == <<api, public, entry, edits, rows, skipped, tokens, upgrading, files, young,
                 media, sweep, lasting, undone, again>>
streamVars == <<backtime, date, visible, steady, seen, length, cursor, request, changes>>
accessVars == <<method, saved, creds, client, session, form, visit, fetch, auths, rest, unused>>
readVars == <<what, reading, page, attempt, answer, kept, error, waited>>
commandVars == <<argv, parsed, at, did, entries>>
timelineVars == <<provider, home, names, timeline, published, account, skips, checked, imported,
                  run, outcome, handled, written>>
contentVars == <<rendering, size, starts, facets, current, chunks, given, attachments, turn,
                 thumbnails, markup, mblob>>
viewVars == <<sso, articles, favored, listed, viewer, asked, filters, loaded, masked, titled,
              months, response>>
entryVars == <<storeVars, postVars, upgradeVars>>
pageVars == <<streamVars, contentVars, viewVars>>
workVars == <<accessVars, readVars, commandVars, timelineVars>>
allVars == <<part, vars, entryVars, pageVars, workVars>>

-----------------------------------------------------------------------------
EntryRows == INSTANCE EntryStore WITH row <- entryRow
Sharing == INSTANCE SelfPosts WITH stored <- storedPosts, edits <- postEdits
Upgrades == INSTANCE EntryUpgrades WITH
  Entries <- Upgradables, Start <- Starts, request <- upgrading
Stream == INSTANCE StreamPages WITH Entries <- StreamEntries, Dates <- EntryDates
Access == INSTANCE ServiceAccess
Reads == INSTANCE HttpReads WITH at <- reading
Commands == INSTANCE WorkerCommands
Timeline == INSTANCE MicroblogImport WITH
  Posts <- TimelinePosts, Long <- FullPage, Short <- ShortPage,
  api <- provider, creds <- account, rows <- imported
Content == INSTANCE PostContent WITH Kinds <- FeatureKinds, length <- size
Visibility == INSTANCE EntryVisibility WITH Entries <- Articles

Parts == {"cache", "store", "posts", "upgrades", "stream", "access", "read", "command",
          "timeline", "content", "view"}

\* A part that does not move holds nothing, or what it starts with.
EntriesInit ==
  /\ part \in Parts
  /\ Init /\ (part = "cache" \/ kind = "page")
  /\ EntryRows!Init /\ (part = "store" \/ entryRow = None)
  /\ \/ part = "posts" /\ Sharing!Init
     \/ part # "posts" /\ post = None /\ storedPosts = None /\ requests = None /\ postEdits = None
  /\ Upgrades!Init
  /\ \/ part = "stream" /\ Stream!Init
     \/ /\ part # "stream"
        /\ backtime = None /\ date = None /\ visible = None /\ steady = None /\ seen = None
        /\ length = None /\ cursor = None /\ request = None /\ changes = None
  /\ \/ part = "access" /\ Access!Init
     \/ /\ part # "access"
        /\ method = None /\ saved = None /\ creds = None /\ client = None /\ session = None
        /\ form = None /\ visit = None /\ fetch = None /\ auths = None /\ rest = None
        /\ unused = None
  /\ \/ part = "read" /\ Reads!Init
     \/ /\ part # "read"
        /\ what = None /\ reading = None /\ page = None /\ attempt = None /\ answer = None
        /\ kept = None /\ error = None /\ waited = None
  /\ \/ part = "command" /\ Commands!Init
     \/ /\ part # "command"
        /\ argv = None /\ parsed = None /\ at = None /\ did = None /\ entries = None
  /\ \/ part = "timeline" /\ Timeline!Init
     \/ /\ part # "timeline"
        /\ provider = None /\ home = None /\ names = None /\ timeline = None
        /\ published = None /\ account = None /\ skips = None /\ checked = None
        /\ imported = None /\ run = None /\ outcome = None /\ handled = None /\ written = None
  /\ \/ part = "content" /\ Content!Init
     \/ /\ part # "content"
        /\ rendering = None /\ size = None /\ starts = None /\ facets = None /\ current = None
        /\ chunks = None /\ given = None /\ attachments = None /\ turn = None
        /\ thumbnails = None /\ markup = None /\ mblob = None
  /\ \/ part = "view" /\ Visibility!Init
     \/ /\ part # "view"
        /\ sso = None /\ articles = None /\ favored = None /\ listed = None /\ viewer = None
        /\ asked = None /\ filters = None /\ loaded = None /\ masked = None /\ titled = None
        /\ months = None /\ response = None

EntriesNext ==
  \/ part = "cache" /\ Next /\ UNCHANGED <<part, entryVars, pageVars, workVars>>
  \/ part = "store" /\ EntryRows!Next
     /\ UNCHANGED <<part, vars, postVars, upgradeVars, pageVars, workVars>>
  \/ part = "posts" /\ Sharing!Next
     /\ UNCHANGED <<part, vars, storeVars, upgradeVars, pageVars, workVars>>
  \/ part = "upgrades" /\ Upgrades!Next
     /\ UNCHANGED <<part, vars, storeVars, postVars, pageVars, workVars>>
  \/ part = "stream" /\ Stream!Next
     /\ UNCHANGED <<part, vars, entryVars, contentVars, viewVars, workVars>>
  \/ part = "content" /\ Content!Next
     /\ UNCHANGED <<part, vars, entryVars, streamVars, viewVars, workVars>>
  \/ part = "view" /\ Visibility!Next
     /\ UNCHANGED <<part, vars, entryVars, streamVars, contentVars, workVars>>
  \/ part = "access" /\ Access!Next
     /\ UNCHANGED <<part, vars, entryVars, pageVars, readVars, commandVars, timelineVars>>
  \/ part = "read" /\ Reads!Next
     /\ UNCHANGED <<part, vars, entryVars, pageVars, accessVars, commandVars, timelineVars>>
  \/ part = "command" /\ Commands!Next
     /\ UNCHANGED <<part, vars, entryVars, pageVars, accessVars, readVars, timelineVars>>
  \/ part = "timeline" /\ Timeline!Next
     /\ UNCHANGED <<part, vars, entryVars, pageVars, accessVars, readVars, commandVars>>

EntriesSpec == EntriesInit /\ [][EntriesNext]_allVars

-----------------------------------------------------------------------------
(* The instance for TLC. *)

\* The pauses of the retries.
Pauses == <<1, 2>>

\* Behind UTC, UTC, and ahead of it: one second stands for hours.
AroundUtc == {-2, 0, 2}

\* The entries to upgrade: a player in an old import, in two entries or with a
\* card of the same song, the local thumbnail of a service that is private now.
OnYoutube == CHOOSE v \in Videos \ OnVimeo : TRUE
First == CHOOSE e \in Upgradables : TRUE
Upgradable(type, video, thumb) ==
  [type |-> type, markup |-> "old", video |-> video, thumb |-> thumb]
Nothing == [api |-> "selfposts", public |-> TRUE, blocks |-> <<>>]
Of(service, isPublic, block) == [api |-> service, public |-> isPublic, blocks |-> <<block>>]
SmallStarts ==
  {First :> first @@ [e \in Upgradables |-> Nothing] : first \in
     {Of("selfposts", TRUE, Upgradable("player", OnYoutube, "old")),
      Of("vimeo", FALSE, Upgradable("player", CHOOSE v \in OnVimeo : TRUE, "remote")),
      Of("selfposts", FALSE, Upgradable("song", OnYoutube, "old"))}}
  \cup {[e \in Upgradables |-> Of("selfposts", TRUE, Upgradable("card", OnYoutube, "now"))]}

\* Of initial states that differ only in the names of posts or of entries of the
\* stream, one is enough.
RankOf(p) == (IF post[p].service = 1 THEN 4 ELSE 0) + (IF post[p].draft THEN 2 ELSE 0)
             + (IF post[p].reshare THEN 1 ELSE 0)
InOrder(rank) == \A i, j \in DOMAIN rank : i < j => rank[i] <= rank[j]

\* A quote and a reply; two replies.
FewNames ==
  \/ \E p, q \in TimelinePosts : p # q /\ names[p].quote # None /\ names[p].reply = None
                                   /\ names[q].reply # None /\ names[q].quote = None
  \/ provider = "atproto" /\ \A p \in TimelinePosts : names[p].reply # None

\* The entries that stay are seen by everybody.
Plain == [active |-> TRUE, draft |-> FALSE, friends_only |-> FALSE, public |-> TRUE, home |-> TRUE]

FewStarts ==
  /\ part # "upgrades" => api[First] = "vimeo"
  /\ part = "posts" => InOrder([p \in Posts |-> RankOf(p)])
  /\ part = "stream" => InOrder(date)
  /\ part = "timeline" => FewNames /\ ~skips /\ ~home /\ (provider = "mastodon" => account)
  /\ part = "view" => /\ favored = Changing /\ listed = Changing
                      /\ \A a \in Articles \ Changing : articles[a] = Plain

\* Dates are compared within a post: those of two posts may be the same.
FewDates ==
  part = "timeline" =>
    \A a, b \in published : a.post # b.post => a.date = 1 /\ b.date = 1 /\ a.offset = b.offset

SmallInit == EntriesInit /\ FewStarts
\* One skip stands at a time, of an entry that was legacy when it was skipped.
FewSkips ==
  /\ Cardinality(skipped') <= 1
  /\ \A s \in skipped' \ skipped : s[1] \in Upgrades!pending(s[2])

SmallNext == EntriesNext /\ FewDates' /\ FewSkips
SmallSpec == SmallInit /\ [][SmallNext]_allVars

-----------------------------------------------------------------------------
(* The properties, each of the part its module describes; NoStaleResponse  *)
(* is PageCache's.                                                         *)

\* The variables of every part hold what their modules say they hold.
TypesOK ==
  CASE part = "cache" -> TypeOK
    [] part = "store" -> EntryRows!TypeOK
    [] part = "posts" -> Sharing!TypeOK
    [] part = "upgrades" -> Upgrades!TypeOK
    [] part = "stream" -> Stream!TypeOK
    [] part = "access" -> Access!TypeOK
    [] part = "read" -> Reads!TypeOK
    [] part = "command" -> Commands!TypeOK
    [] part = "timeline" -> Timeline!TypeOK
    [] part = "content" -> Content!TypeOK
    [] part = "view" -> Visibility!TypeOK

\* Of two imports that insert the same entry, neither fails.
RacingImportsSucceed == part = "store" => EntryRows!RacingImportsSucceed

\* An import replaces only a row that was older and not protected.
ImportsFollowRules == EntryRows!ImportsFollowRules

\* Posts of one second have guids of their own.
OwnGuids == part = "posts" => Sharing!OwnGuids

\* What is announced to the hubs is stored, and no failed reshare stays.
AnnouncedPostsAreStored == part = "posts" => Sharing!AnnouncedPostsAreStored

\* An upgrade makes what its preview showed, of what it showed.
OnlyAsShown == Upgrades!OnlyAsShown

\* The upgrades of an entry form a chain that can be reverted.
UpgradesChain == part = "upgrades" => Upgrades!UpgradesChain

\* The sweep of orphaned thumbnails keeps those in use.
SweepKeepsUsed == Upgrades!SweepKeepsUsed

\* Reading page after page skips no entry.
NothingIsSkipped == part = "stream" => Stream!NothingIsSkipped

\* What a remote can make one read cost is bounded.
ReadsAreBounded == part = "read" => Reads!ReadsAreBounded

\* No command line deletes an entry that its owner wants.
WantedEntriesStay == part = "command" => Commands!WantedEntriesStay

\* An entry is the newest appearance of its post, as one run saw it.
TimelineIsKept == part = "timeline" => Timeline!TimelineIsKept

\* A post's text and attachments are in its entry, once and in order.
ContentIsKept == part = "content" => Content!ContentIsKept

\* Nobody is shown more of an entry than he may see.
OnlyMayShow == part = "view" => Visibility!OnlyMayShow
=============================================================================
