----------------------------- MODULE PageCache -----------------------------
(***************************************************************************)
(* The page cache of glifestream/utils/page_cache.py and the saves of      *)
(* stream/models.py that empty it.  The cache server keeps a generation    *)
(* and, under it, pages and computed values.  Any of them may be dropped   *)
(* at any moment: it is a memcached, which evicts and restarts.  The model *)
(* has one page, or one value that remember() computes and keeps.          *)
(*                                                                         *)
(* A generation is <<epoch, n>>: the time_ns() that started it and the     *)
(* increments since.  No number of increments reaches a later time.        *)
(***************************************************************************)
EXTENDS Naturals, FiniteSets

CONSTANTS
  Writers,    \* the processes that save rows the pages show
  Readers,    \* the requests served at one time
  None,       \* nothing: no generation, no cached page
  MaxCommits, \* bound: the changes ever committed, and the increments of one epoch
  MaxEpochs   \* bound: the times read for a new generation

ASSUME NoneAssumption == None \notin (Nat \X Nat) /\ None \notin Nat
ASSUME BoundAssumption == {MaxCommits, MaxEpochs} \subseteq Nat

VARIABLES
  data,       \* the version of the committed rows
  row,        \* the version at which the service row's page fields were set
  settled,    \* history: the newest version whose save has emptied the cache
  generation, \* the generation in the cache
  epochs,     \* the times ever read for a generation
  kind,       \* whether the item is a page or a value remember() keeps
  stored,     \* the version of it that the cache keeps under each key
  writer,     \* where each save is
  reader      \* where each request is

vars == <<data, row, settled, generation, epochs, kind, stored, writer, reader>>
cacheVars == <<generation, epochs, stored>>
dataVars == <<data, row, settled, kind>>

Versions == 0..MaxCommits
Generations == (1..MaxEpochs) \X (0..MaxCommits)
Keys == Generations \cup {None}

ReaderSteps == {"idle", "add", "again", "lookup", "render", "store", "served"}
WriterSteps == {"idle", "loaded", "committed", "missed"}

TypeOK ==
  /\ data \in Versions /\ row \in Versions /\ settled \in Versions
  /\ generation \in Keys
  /\ epochs \in 0..MaxEpochs
  /\ kind \in {"page", "value"}
  /\ stored \in [Keys -> Versions \cup {None}]
  /\ writer \in [Writers -> [at : WriterSteps, version : Versions, epoch : 0..MaxEpochs]]
  /\ reader \in [Readers -> [at : ReaderSteps, key : Keys, epoch : 0..MaxEpochs,
                             since : Versions, shows : Versions]]

IdleWriter == [at |-> "idle", version |-> 0, epoch |-> 0]
IdleReader == [at |-> "idle", key |-> None, epoch |-> 0, since |-> 0, shows |-> 0]

Init ==
  /\ data = 0 /\ row = 0 /\ settled = 0
  /\ generation = None
  /\ epochs = 0
  /\ kind \in {"page", "value"}
  /\ stored = [g \in Keys |-> None]
  /\ writer = [w \in Writers |-> IdleWriter]
  /\ reader = [r \in Readers |-> IdleReader]

-----------------------------------------------------------------------------
(* Saving.  A transaction's rows become visible with its commit; invalidate *)
(* has left _next_generation to run on_commit.                              *)

\* An entry, a media row, a favourite, a list, or a service whose page fields
\* its owner changed: a signal or PageQuerySet.update invalidates.
Commit(w) ==
  /\ writer[w].at = "idle"
  /\ data < MaxCommits
  /\ data' = data + 1
  /\ \/ row' = row
     \/ row' = data'
  /\ writer' = [writer EXCEPT ![w] = [@ EXCEPT !.at = "committed", !.version = data']]
  /\ UNCHANGED <<settled, kind, cacheVars, reader>>

\* A fetch loads its service row, with the page fields as they are.
Load(w) ==
  /\ writer[w].at = "idle"
  /\ writer' = [writer EXCEPT ![w] = [@ EXCEPT !.at = "loaded", !.version = row]]
  /\ UNCHANGED <<dataVars, cacheVars, reader>>

\* service.save() of that fetch: its page_state is the one it loaded, so the
\* pages stay, even when the row has other page fields by now.
SaveLoaded(w) ==
  /\ writer[w].at = "loaded"
  /\ \/ /\ row = writer[w].version
        /\ UNCHANGED <<data, row>>
     \/ /\ row # writer[w].version
        /\ data < MaxCommits
        /\ data' = data + 1
        /\ row' = data'
  /\ writer' = [writer EXCEPT ![w] = IdleWriter]
  /\ UNCHANGED <<settled, kind, cacheVars, reader>>

Settle(v) == settled' = IF settled < v THEN v ELSE settled

\* cache.incr raised ValueError: take the time for cache.set.
TakeTime(w) ==
  /\ epochs < MaxEpochs
  /\ epochs' = epochs + 1
  /\ writer' = [writer EXCEPT ![w] = [@ EXCEPT !.at = "missed", !.epoch = epochs']]
  /\ UNCHANGED <<generation, settled>>

Incremented == <<generation[1], generation[2] + 1>>

\* _next_generation: cache.incr, which is atomic.
NextGeneration(w) ==
  /\ writer[w].at = "committed"
  /\ \/ /\ generation # None
        /\ generation[2] < MaxCommits
        /\ generation' = Incremented
        /\ Settle(writer[w].version)
        /\ writer' = [writer EXCEPT ![w] = IdleWriter]
        /\ UNCHANGED epochs
     \/ generation = None /\ TakeTime(w)
  /\ UNCHANGED <<data, row, kind, stored, reader>>

SetGeneration(w) ==
  /\ writer[w].at = "missed"
  /\ generation' = <<writer[w].epoch, 0>>
  /\ Settle(writer[w].version)
  /\ writer' = [writer EXCEPT ![w] = IdleWriter]
  /\ UNCHANGED <<data, row, kind, epochs, stored, reader>>

\* The process dies between its commit and the new generation.
Dies(w) ==
  /\ writer[w].at \in {"committed", "missed"}
  /\ writer' = [writer EXCEPT ![w] = IdleWriter]
  /\ UNCHANGED <<dataVars, cacheVars, reader>>

-----------------------------------------------------------------------------
(* Serving. *)

Moves(r, fields) == reader' = [reader EXCEPT ![r] = fields]

\* generation(): the first cache.get of process_request or remember().
Ask(r) ==
  /\ reader[r].at = "idle"
  /\ \/ /\ generation # None
        /\ Moves(r, [IdleReader EXCEPT !.at = "lookup", !.key = generation, !.since = settled])
        /\ UNCHANGED epochs
     \/ /\ generation = None
        /\ epochs < MaxEpochs
        /\ epochs' = epochs + 1
        /\ Moves(r, [IdleReader EXCEPT !.at = "add", !.epoch = epochs', !.since = settled])
  /\ UNCHANGED <<dataVars, generation, stored, writer>>

NewGeneration(r) == <<reader[r].epoch, 0>>

\* cache.add, which leaves a generation that is there.
Add(r) ==
  /\ reader[r].at = "add"
  /\ generation' = IF generation = None THEN NewGeneration(r) ELSE generation
  /\ Moves(r, [reader[r] EXCEPT !.at = "again", !.epoch = 0])
  /\ UNCHANGED <<dataVars, epochs, stored, writer>>

\* The second cache.get, None if the generation was dropped once more.
Again(r) ==
  /\ reader[r].at = "again"
  /\ Moves(r, [reader[r] EXCEPT !.at = "lookup", !.key = generation])
  /\ UNCHANGED <<dataVars, cacheVars, writer>>

\* remember() looks up nothing without a generation; a page does, under None.
Found(r) ==
  /\ kind = "value" => reader[r].key # None
  /\ stored[reader[r].key] # None

Lookup(r) ==
  /\ reader[r].at = "lookup"
  /\ IF Found(r)
     THEN Moves(r, [reader[r] EXCEPT !.at = "served",
                    !.shows = stored[reader[r].key]])
     ELSE Moves(r, [reader[r] EXCEPT !.at = "render"])
  /\ UNCHANGED <<dataVars, cacheVars, writer>>

\* The view reads its rows; shows is the oldest version it read.
Render(r) ==
  /\ reader[r].at = "render"
  /\ Moves(r, [reader[r] EXCEPT !.at = "store", !.shows = data])
  /\ UNCHANGED <<dataVars, cacheVars, writer>>

\* Mutant: the key is made when the page is stored.
KeyOfNow(r) == generation

KeyOfRequest(r) == reader[r].key

\* process_response stores what may be cached; remember() what has a key.
Store(r) ==
  /\ reader[r].at = "store"
  /\ \/ /\ kind = "value" => KeyOfRequest(r) # None
        /\ stored' = [stored EXCEPT ![KeyOfRequest(r)] = reader[r].shows]
     \/ /\ kind = "value" => KeyOfRequest(r) = None
        /\ UNCHANGED stored
  /\ Moves(r, [reader[r] EXCEPT !.at = "served"])
  /\ UNCHANGED <<dataVars, generation, epochs, writer>>

Respond(r) ==
  /\ reader[r].at = "served"
  /\ Moves(r, IdleReader)
  /\ UNCHANGED <<dataVars, cacheVars, writer>>

-----------------------------------------------------------------------------
(* The cache server. *)

EvictGeneration ==
  /\ generation # None
  /\ generation' = None
  /\ UNCHANGED <<dataVars, epochs, stored, writer, reader>>

EvictPage(g) ==
  /\ stored[g] # None
  /\ stored' = [stored EXCEPT ![g] = None]
  /\ UNCHANGED <<dataVars, generation, epochs, writer, reader>>

Next ==
  \/ \E w \in Writers : Commit(w) \/ Load(w) \/ SaveLoaded(w) \/ NextGeneration(w)
                        \/ SetGeneration(w) \/ Dies(w)
  \/ \E r \in Readers : Ask(r) \/ Add(r) \/ Again(r) \/ Lookup(r) \/ Render(r) \/ Store(r) \/ Respond(r)
  \/ EvictGeneration
  \/ \E g \in Keys : EvictPage(g)

Spec == Init /\ [][Next]_vars

-----------------------------------------------------------------------------
\* A response shows every change whose save had moved the generation before
\* the request began, however saves, requests and evictions interleave.  The
\* pages of a request that found no generation twice are left out: they are
\* kept under the key "None", which no save ever leaves behind.
NoStaleResponse ==
  \A r \in Readers :
    reader[r].at = "served" /\ (kind = "page" => reader[r].key # None)
      => reader[r].shows >= reader[r].since
=============================================================================
