--------------------------- MODULE EntryUpgrades ---------------------------
(***************************************************************************)
(* Upgrading old entries (upgrades/service.py and the pages of             *)
(* usettings/upgrade_settings.py) and the sweep of orphaned thumbnails     *)
(* (worker/maintenance.py, stream/media.py).  The owner works in several   *)
(* tabs: a preview may be approved long after it was shown, twice, or      *)
(* after another tab decided.  Imports and edits change entries meanwhile. *)
(***************************************************************************)
EXTENDS Upgraders

CONSTANTS
  Entries,     \* the entries
  Edited,      \* bound: the entries whose text ever changes
  Gone,        \* an entry that was deleted
  Start,       \* what the entries may be at first: entries -> [api, public, blocks]
  MaxUpgrades, \* bound: upgrade rows ever stored
  MaxEdits,    \* bound: edits of an entry's text
  MaxTokens    \* bound: previews and lists shown and not expired

VARIABLES
  api,      \* the api of the service of each entry
  public,   \* whether that service is public
  entry,    \* the content of each entry, or Gone
  edits,    \* history: the edits of each entry
  rows,     \* the EntryUpgrade rows, by their id, but for the skipped ones
  skipped,  \* the <<entry, upgrader>> of rows that are skipped
  tokens,   \* the approvals in open tabs, which have not expired
  request,  \* the batch that is being applied or reverted
  files,    \* the thumbnails on disk
  young,    \* those written in the last day
  media,    \* the <<entry, file>> of the Media rows of thumbnails
  sweep,    \* where --thumbs-delete-orphans is, with what it may delete
  lasting,  \* history: the thumbnails in use ever since the sweep listed
  undone,   \* history: whether an upgrade was reverted or deleted in this sweep
  again     \* history: the entries that an upgrade led back to what one had made

rowVars == <<entry, edits, rows, media>>
diskVars == <<files, young>>
sweepVars == <<sweep, lasting, undone>>
fixed == <<api, public>>
vars == <<fixed, rowVars, skipped, tokens, request, diskVars, sweepVars, again>>

Stored == {e \in Entries : entry[e] # Gone}
ApiOf(key) == IF key \in Providers THEN key ELSE "selfposts"

Approved == [entry : Entries, base : Content, becomes : Content]

\* A row that was deleted with its entry keeps its id.
Row == [entry : Entries, key : Keys, old : Content, new : Content,
        status : {"applied", "reverted", "deleted"}, batch : Nat]

TypeOK ==
  /\ api \in [Entries -> Providers \cup {"selfposts"}] /\ public \in [Entries -> BOOLEAN]
  /\ entry \in [Entries -> Content \cup {Gone}] /\ edits \in [Entries -> 0..MaxEdits]
  /\ rows \in Seq(Row)
  /\ skipped \subseteq Stored \X Keys
  /\ tokens \subseteq [kind : {"one", "list"}, key : Keys, approved : SUBSET Approved]
  /\ request \in IF request.op = "revert"
                 THEN [op : {"revert"}, key : Keys, batch : Nat, todo : SUBSET Nat]
                 ELSE [op : {"none", "apply"}, key : Keys, batch : Nat, todo : SUBSET Approved]
  /\ young \subseteq files /\ files \subseteq File
  /\ media \subseteq Stored \X File
  /\ sweep \in [at : {"idle", "listed", "entries", "ready"}, orphans : SUBSET File]
  /\ lasting \subseteq File /\ undone \in BOOLEAN /\ again \subseteq Entries

NoRequest == [op |-> "none", key |-> "music", batch |-> 0, todo |-> {}]
NoSweep == [at |-> "idle", orphans |-> {}]

Init ==
  /\ \E start \in Start :
       /\ api = [e \in Entries |-> start[e].api]
       /\ public = [e \in Entries |-> start[e].public]
       /\ entry = [e \in Entries |-> IF start[e].blocks = <<>> THEN Gone
                                    ELSE [blocks |-> start[e].blocks, text |-> "plain"]]
  /\ edits = [e \in Entries |-> 0]
  /\ rows = <<>>
  /\ skipped = {} /\ tokens = {}
  /\ request = NoRequest
  /\ files = UNION {thumb_rels(entry[e]) : e \in Stored}
  /\ young = {}
  /\ media = UNION {{e} \X thumb_rels(entry[e]) : e \in Stored}
  /\ sweep = NoSweep /\ lasting = {} /\ undone = FALSE /\ again = {}

-----------------------------------------------------------------------------
(* The queue and what the owner is shown. *)

\* candidates and pending: of the upgrader's api, not skipped, and legacy.
pending(key) ==
  {e \in Stored : /\ api[e] = ApiOf(key)
                  /\ <<e, key>> \notin skipped
                  /\ is_legacy(key, entry[e], public[e], files)}

offline(key, e) == propose_offline(key, entry[e], public[e], files)

markup_only(key) == {e \in pending(key) : offline(key, e) \notin {None, entry[e]}}

\* What a tab approves: the entry as it was, by its hash, and what it becomes.
Approval(e, proposal) == [entry |-> e, base |-> entry[e], becomes |-> proposal]

\* upgrade_review: propose may fetch the thumbnail of the video the owner chose.
Review(key, e, chosen) ==
  LET proposal == propose(key, entry[e], chosen, public[e], files)
  IN  /\ Cardinality(tokens) < MaxTokens
      /\ e \in pending(key)
      /\ proposal # None
      /\ files' = files \cup thumb_rels(proposal)
      /\ young' = young \cup (files' \ files)
      /\ tokens' = tokens \cup {[kind |-> "one", key |-> key,
                                 approved |-> {Approval(e, proposal)}]}
      /\ UNCHANGED <<rowVars, skipped, request>>

\* upgrade_markup_only: the list of all that keep their thumbnail.
ReviewList(key) ==
  /\ Cardinality(tokens) < MaxTokens
  /\ markup_only(key) # {}
  /\ tokens' = tokens \cup {[kind |-> "list", key |-> key,
                 approved |-> {Approval(e, offline(key, e)) : e \in markup_only(key)}]}
  /\ UNCHANGED <<rowVars, skipped, request, diskVars>>

-----------------------------------------------------------------------------
(* Deciding. *)

\* _store, with extract_and_register for the upgraders that register media.
_store(e, key, proposal, batch) ==
  /\ Len(rows) < MaxUpgrades
  /\ rows' = Append(rows, [entry |-> e, key |-> key, old |-> entry[e], new |-> proposal,
                           status |-> "applied", batch |-> batch])
  /\ entry' = [entry EXCEPT ![e] = proposal]
  /\ media' = IF registers_media(key)
              THEN media \cup ({e} \X thumb_rels(proposal)) ELSE media
  /\ UNCHANGED edits

\* Mutant: any state of the entry will do.
Exists(a) == entry[a.entry] # Gone

Unchanged(a) == entry[a.entry] = a.base

\* apply: a conflict leaves everything as it is.
apply(t) ==
  /\ t.kind = "one"
  /\ \E a \in t.approved :
       /\ Unchanged(a)
       /\ thumb_rels(a.becomes) \subseteq files
       /\ _store(a.entry, t.key, a.becomes, 0)
  /\ UNCHANGED <<skipped, tokens, request, diskVars>>

\* uuid4: no row has it, the rows before it having lower ones.
NewBatch == Len(rows) + 1

\* apply_markup_only, and then each entry in a transaction of its own.
apply_markup_only(t) ==
  /\ request.op = "none"
  /\ t.kind = "list"
  /\ request' = [op |-> "apply", key |-> t.key, batch |-> NewBatch, todo |-> t.approved]
  /\ UNCHANGED <<rowVars, skipped, tokens, diskVars>>

\* What the batch makes of it: the offline upgrade of the entry as it is now.
ApplyNext(a) ==
  LET e == a.entry
      accepted == Unchanged(a) /\ offline(request.key, e) \notin {None, entry[e]}
  IN  /\ request.op = "apply"
      /\ request' = [request EXCEPT !.todo = @ \ {a}]
      /\ \/ accepted /\ _store(e, request.key, offline(request.key, e), request.batch)
         \/ ~accepted /\ UNCHANGED rowVars
      /\ UNCHANGED <<skipped, tokens, diskVars>>

\* skip needs no token and asks nothing about what happened since the page was
\* shown, or whether it proposed anything.
skip(key, e) ==
  /\ e \in Stored /\ api[e] = ApiOf(key)
  /\ skipped' = skipped \cup {<<e, key>>}
  /\ UNCHANGED <<rowVars, tokens, request, diskVars>>

requeue_skipped(key) ==
  /\ \E s \in skipped : s[2] = key
  /\ skipped' = {s \in skipped : s[2] # key}
  /\ UNCHANGED <<rowVars, tokens, request, diskVars>>

Added(u) == thumb_rels(u.new) \ thumb_rels(u.old)

\* Mutant: a row that stands is enough.
StandsOnly(id) == rows[id].status = "applied"

Revertible(id) ==
  rows[id].status = "applied" /\ entry[rows[id].entry] = rows[id].new

PutBack(id) ==
  LET u == rows[id]
  IN  /\ entry' = [entry EXCEPT ![u.entry] = u.old]
      /\ media' = media \ ({u.entry} \X Added(u))
      /\ rows' = [rows EXCEPT ![id].status = "reverted"]
      /\ UNCHANGED edits

revert(id) ==
  /\ Revertible(id)
  /\ PutBack(id)
  /\ UNCHANGED <<skipped, tokens, request, diskVars>>

revert_batch(batch) ==
  LET standing == {id \in DOMAIN rows : rows[id].batch = batch /\ rows[id].status = "applied"}
  IN  /\ request.op = "none"
      /\ batch # 0 /\ standing # {}
      /\ request' = [NoRequest EXCEPT !.op = "revert", !.batch = batch, !.todo = standing]
      /\ UNCHANGED <<rowVars, skipped, tokens, diskVars>>

RevertNext(id) ==
  /\ request.op = "revert"
  /\ request' = [request EXCEPT !.todo = @ \ {id}]
  /\ \/ Revertible(id) /\ PutBack(id)
     \/ ~Revertible(id) /\ UNCHANGED rowVars
  /\ UNCHANGED <<skipped, tokens, diskVars>>

EndBatch ==
  /\ request.op # "none" /\ request.todo = {}
  /\ request' = NoRequest
  /\ UNCHANGED <<rowVars, skipped, tokens, diskVars>>

-----------------------------------------------------------------------------
(* What happens meanwhile. *)

\* The owner or an import changes the entry's text, perhaps to what it was.
Edit(e) ==
  /\ e \in Stored \cap Edited
  /\ edits[e] < MaxEdits
  /\ edits' = [edits EXCEPT ![e] = @ + 1]
  /\ \E text \in {"plain", "edited"} \ {entry[e].text} :
       entry' = [entry EXCEPT ![e].text = text]
  /\ UNCHANGED <<rows, media, skipped, tokens, request, diskVars>>

\* --delete-old: the upgrades, skips and media go with their entry.
Delete(e) ==
  /\ e \in Stored
  /\ entry' = [entry EXCEPT ![e] = Gone]
  /\ rows' = [i \in DOMAIN rows |-> IF rows[i].entry = e
                                     THEN [rows[i] EXCEPT !.status = "deleted"] ELSE rows[i]]
  /\ media' = {m \in media : m[1] # e}
  /\ skipped' = {s \in skipped : s[1] # e}
  /\ UNCHANGED <<edits, tokens, request, diskVars>>

\* TOKEN_MAX_AGE_SEC and ORPHAN_MIN_AGE_SEC are both a day; no sweep takes one.
DayPasses ==
  /\ sweep.at = "idle" /\ request.op = "none"
  /\ tokens # {} \/ young # {}
  /\ tokens' = {} /\ young' = {}
  /\ UNCHANGED <<rowVars, skipped, request, files>>

-----------------------------------------------------------------------------
(* The sweep: the names of the files, then two queries, then the deletions. *)

ShownThumbs == UNION {thumb_rels(entry[e]) : e \in Stored}

\* Mutant: what an upgrade replaced is no longer shown.
NoReplaced == {}

Applied == {id \in DOMAIN rows : rows[id].status = "applied"}
ReplacedThumbs == UNION {thumb_rels(rows[id].old) : id \in Applied}

list_orphan_thumbs ==
  /\ UNCHANGED diskVars
  /\ \/ /\ sweep.at = "idle"
        /\ sweep' = [at |-> "listed", orphans |-> files \ young]
     \/ /\ sweep.at = "listed"
        /\ sweep' = [at |-> "entries", orphans |-> sweep.orphans \ ShownThumbs]
     \/ /\ sweep.at = "entries"
        /\ sweep' = [at |-> "ready", orphans |-> sweep.orphans \ ReplacedThumbs]

delete_thumb_files ==
  /\ sweep.at = "ready"
  /\ files' = files \ sweep.orphans
  /\ young' = young \ sweep.orphans
  /\ sweep' = NoSweep

Sweep == (list_orphan_thumbs \/ delete_thumb_files) /\ UNCHANGED <<rowVars, skipped, tokens, request>>

Pages ==
  \/ \E key \in Keys :
       \/ \E e \in Entries, video \in Videos : Review(key, e, video)
       \/ ReviewList(key)
       \/ \E e \in Entries : skip(key, e)
       \/ requeue_skipped(key)
  \/ \E t \in tokens : apply(t) \/ apply_markup_only(t)
  \/ \E a \in request.todo : ApplyNext(a)
  \/ \E id \in DOMAIN rows : revert(id) \/ revert_batch(rows[id].batch)
  \/ \E id \in request.todo : RevertNext(id)
  \/ EndBatch
  \/ \E e \in Entries : Edit(e) \/ Delete(e)
  \/ DayPasses

\* History: a thumbnail is in use by an entry, or by an upgrade that stands and
\* that a revert would need it for.
InUse == ShownThumbs \cup UNION {thumb_rels(rows[id].old) : id \in Applied}

\* The standing upgrades that changed an entry, and whether two made the same of
\* it: a thumbnail that was chosen before, and lost.
Standing(e) == {id \in Applied : rows[id].entry = e /\ rows[id].old # rows[id].new}
Repeats(e) == \E i, j \in Standing(e) : i # j /\ rows[i].new = rows[j].new

Remember ==
  /\ lasting' = IF sweep'.at = "idle" THEN {}
                ELSE IF sweep'.at = "listed" /\ sweep.at = "idle" THEN InUse
                ELSE lasting \cap InUse'
  /\ undone' = (sweep'.at # "idle" /\ (undone \/ \E id \in Applied : rows'[id].status # "applied"))
  /\ again' = again \cup {e \in Entries : Repeats(e)'}

Next == /\ \/ Pages /\ UNCHANGED sweep
           \/ Sweep
        /\ Remember
        /\ UNCHANGED fixed

Spec == Init /\ [][Next]_vars

-----------------------------------------------------------------------------
\* An upgrade gives an entry what the owner was shown, and takes it from the
\* state the owner was shown: also in a batch, which computes it again.
OnlyAsShown ==
  [][Len(rows') > Len(rows) =>
       LET u == rows'[Len(rows')]
       IN  \E t \in tokens \cup {[key |-> request.key,
                                  approved |-> IF request.op = "apply" THEN request.todo ELSE {}]} :
             \E a \in t.approved :
               /\ t.key = u.key /\ a.entry = u.entry
               /\ a.base = entry[u.entry] /\ a.becomes = entry'[u.entry]]_vars

\* The standing upgrades of an entry nobody edits are a chain that ends in what
\* the entry is: each can be reverted, the last one first, whatever the tabs,
\* batches and reverts did in between.  An upgrade that only fetched a lost
\* thumbnail again changed nothing and may stand anywhere; and of one that led
\* back to what a standing one had made, either can be reverted first.
UpgradesChain ==
  \A e \in Stored \ again : edits[e] = 0 =>
    \A i \in Standing(e) :
      LET later == {j \in Standing(e) : j > i}
      IN  /\ later = {} => rows[i].new = entry[e]
          /\ \A j \in later : (\A k \in later : j <= k) => rows[i].new = rows[j].old

\* A thumbnail that some entry or some applied upgrade needed throughout a
\* sweep is not deleted, when no upgrade was reverted meanwhile, or deleted with
\* its entry: an upgrade hands it from the first of the two queries to the second.
SweepKeepsUsed ==
  [][undone \/ sweep.at # "ready" \/ (files \ files') \cap lasting = {}]_vars
=============================================================================
