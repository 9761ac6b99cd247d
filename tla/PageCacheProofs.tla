-------------------------- MODULE PageCacheProofs --------------------------
(***************************************************************************)
(* Theorems about the page cache: no response is staler than the cache     *)
(* promises, for any number of saves, requests and evictions.              *)
(*                                                                         *)
(* A generation is made once.  Each is made of a time that was read for it *)
(* alone, or by an increment past all that were ever used of that time;    *)
(* so a key of a generation that a save left behind is never asked for     *)
(* again, and what was stored under the current one was rendered since     *)
(* the last save that moved it.                                            *)
(***************************************************************************)
EXTENDS PageCache, TLAPS

\* A time that was read for a generation that is not set yet.
Pending(e) ==
  \/ \E w \in Writers : writer[w].at = "missed" /\ writer[w].epoch = e
  \/ \E r \in Readers : reader[r].at = "add" /\ reader[r].epoch = e

\* Each of those times was read for one process.
EpochsDiffer ==
  /\ \A w \in Writers : writer[w].at = "missed" => writer[w].epoch \in 1..epochs
  /\ \A r \in Readers : reader[r].at = "add" => reader[r].epoch \in 1..epochs
  /\ \A v, w \in Writers : writer[v].at = "missed" /\ writer[w].at = "missed" /\ v # w
                             => writer[v].epoch # writer[w].epoch
  /\ \A q, r \in Readers : reader[q].at = "add" /\ reader[r].at = "add" /\ q # r
                             => reader[q].epoch # reader[r].epoch
  /\ \A w \in Writers, r \in Readers : writer[w].at = "missed" /\ reader[r].at = "add"
                                         => writer[w].epoch # reader[r].epoch

\* What was ever a generation, and may still matter.
InUse(g) ==
  \/ g = generation
  \/ stored[g] # None
  \/ \E r \in Readers : reader[r].key = g

\* None of those is made again, neither of a time nor by an increment.
MadeOnce ==
  \A g \in Generations : InUse(g) =>
    /\ g[1] <= epochs
    /\ ~Pending(g[1])
    /\ generation # None /\ generation[1] = g[1] => g[2] <= generation[2]

\* The history never runs ahead of the rows.
Settled ==
  /\ settled <= data
  /\ \A w \in Writers : writer[w].at \in {"committed", "missed"} => writer[w].version <= data
  /\ \A r \in Readers : reader[r].since <= settled

\* What is, or will be, under the current generation shows all that settled.
CurrentIsFresh ==
  generation # None =>
    /\ stored[generation] # None => stored[generation] >= settled
    /\ \A r \in Readers : reader[r].at = "store" /\ reader[r].key = generation
                            => reader[r].shows >= settled

\* What a request may find under its key is fresh enough for it.
FoundIsFresh ==
  \A r \in Readers : reader[r].at = "lookup" /\ reader[r].key # None =>
    /\ stored[reader[r].key] # None => stored[reader[r].key] >= reader[r].since
    /\ \A q \in Readers : reader[q].at = "store" /\ reader[q].key = reader[r].key
                            => reader[q].shows >= reader[r].since

\* And so is what it renders.
RenderedIsFresh ==
  \A r \in Readers : reader[r].at = "store" => reader[r].shows >= reader[r].since

IInv ==
  /\ TypeOK
  /\ EpochsDiffer
  /\ MadeOnce
  /\ Settled
  /\ CurrentIsFresh
  /\ FoundIsFresh
  /\ RenderedIsFresh
  /\ NoStaleResponse


\* What a save and a request remember.
WriterRow == [at : WriterSteps, version : Versions, epoch : 0..MaxEpochs]
ReaderRow == [at : ReaderSteps, key : Keys, epoch : 0..MaxEpochs,
              since : Versions, shows : Versions]

-----------------------------------------------------------------------------
(* Types. *)

\* The bounds, one by one.
LEMMA Bounds == MaxCommits \in Nat /\ MaxEpochs \in Nat
BY BoundAssumption

\* Every step keeps the types.
LEMMA TypeStep ==
  ASSUME TypeOK, EpochsDiffer, Next PROVE TypeOK'
<1> USE Bounds
<1>a. writer \in [Writers -> WriterRow] /\ reader \in [Readers -> ReaderRow]
  BY DEF TypeOK, WriterRow, ReaderRow
<1>b. ASSUME NEW w \in Writers, NEW x \in WriterRow, writer' = [writer EXCEPT ![w] = x]
      PROVE  writer' \in [Writers -> WriterRow]
  BY <1>a, <1>b
<1>c. ASSUME NEW r \in Readers, NEW x \in ReaderRow, reader' = [reader EXCEPT ![r] = x]
      PROVE  reader' \in [Readers -> ReaderRow]
  BY <1>a, <1>c
<1>1. ASSUME NEW w \in Writers, Commit(w) PROVE TypeOK'
  <2>1. data' \in Versions /\ row' \in Versions
    BY <1>1 DEF Commit, TypeOK, Versions
  <2>2. [writer[w] EXCEPT !.at = "committed", !.version = data'] \in WriterRow
    BY <1>a, <2>1 DEF WriterRow, WriterSteps
  <2>3. writer' \in [Writers -> WriterRow]
    BY <1>1, <1>b, <2>2 DEF Commit
  <2> QED BY <1>1, <2>1, <2>3 DEF Commit, TypeOK, cacheVars, WriterRow
<1>2. ASSUME NEW w \in Writers, Load(w) PROVE TypeOK'
  <2>1. [writer[w] EXCEPT !.at = "loaded", !.version = row] \in WriterRow
    BY <1>a DEF TypeOK, WriterRow, WriterSteps
  <2>2. writer' \in [Writers -> WriterRow]
    BY <1>2, <1>b, <2>1 DEF Load
  <2> QED BY <1>2, <2>2 DEF Load, TypeOK, dataVars, cacheVars, WriterRow
<1>d. IdleWriter \in WriterRow
  BY DEF IdleWriter, WriterRow, WriterSteps, Versions
<1>3. ASSUME NEW w \in Writers, SaveLoaded(w) PROVE TypeOK'
  <2>1. data' \in Versions /\ row' \in Versions
    BY <1>3 DEF SaveLoaded, TypeOK, Versions
  <2>2. writer' \in [Writers -> WriterRow]
    BY <1>3, <1>b, <1>d DEF SaveLoaded
  <2> QED BY <1>3, <2>1, <2>2 DEF SaveLoaded, TypeOK, cacheVars, WriterRow
<1>e. ASSUME NEW w \in Writers, Settle(writer[w].version) PROVE settled' \in Versions
  BY <1>a, <1>e DEF Settle, TypeOK, WriterRow
<1>4. ASSUME NEW w \in Writers, NextGeneration(w) PROVE TypeOK'
  <2>1. CASE generation # None
    <3>1. /\ generation[2] < MaxCommits /\ generation' = Incremented
          /\ Settle(writer[w].version) /\ writer' = [writer EXCEPT ![w] = IdleWriter]
          /\ UNCHANGED <<data, row, kind, epochs, stored, reader>>
      BY <1>4, <2>1 DEF NextGeneration
    <3>2. generation' \in Keys
      BY <2>1, <3>1 DEF TypeOK, Keys, Generations, Incremented
    <3>3. writer' \in [Writers -> WriterRow]
      BY <1>b, <1>d, <3>1
    <3> QED BY <1>e, <3>1, <3>2, <3>3 DEF TypeOK, WriterRow
  <2>2. CASE generation = None
    <3>1. /\ TakeTime(w) /\ UNCHANGED <<data, row, kind, stored, reader>>
      BY <1>4, <2>2 DEF NextGeneration
    <3>2. epochs' \in 0..MaxEpochs
      BY <3>1 DEF TakeTime, TypeOK
    <3>3. [writer[w] EXCEPT !.at = "missed", !.epoch = epochs'] \in WriterRow
      BY <1>a, <3>2 DEF WriterRow, WriterSteps
    <3>4. writer' \in [Writers -> WriterRow]
      BY <1>b, <3>1, <3>3 DEF TakeTime
    <3> QED BY <3>1, <3>2, <3>4 DEF TakeTime, TypeOK, WriterRow
  <2> QED BY <2>1, <2>2
<1>5. ASSUME NEW w \in Writers, SetGeneration(w) PROVE TypeOK'
  <2>1. writer[w].epoch \in 1..MaxEpochs
    BY <1>a, <1>5 DEF SetGeneration, EpochsDiffer, TypeOK
  <2>2. generation' \in Keys
    BY <1>5, <2>1 DEF SetGeneration, Keys, Generations
  <2>3. writer' \in [Writers -> WriterRow] /\ settled' \in Versions
    BY <1>5, <1>b, <1>d, <1>e DEF SetGeneration
  <2> QED BY <1>5, <2>2, <2>3 DEF SetGeneration, TypeOK, WriterRow
<1>6. ASSUME NEW w \in Writers, Dies(w) PROVE TypeOK'
  <2>1. writer' \in [Writers -> WriterRow]
    BY <1>6, <1>b, <1>d DEF Dies
  <2> QED BY <1>6, <2>1 DEF Dies, TypeOK, dataVars, cacheVars, WriterRow
<1>f. IdleReader \in ReaderRow
  BY DEF IdleReader, ReaderRow, ReaderSteps, Keys, Versions
<1>7. ASSUME NEW r \in Readers, Ask(r) PROVE TypeOK'
  <2>1. epochs' \in 0..MaxEpochs
    BY <1>7 DEF Ask, TypeOK
  <2>2. [IdleReader EXCEPT !.at = "lookup", !.key = generation, !.since = settled] \in ReaderRow
    BY <1>f DEF TypeOK, ReaderRow, ReaderSteps
  <2>3. [IdleReader EXCEPT !.at = "add", !.epoch = epochs', !.since = settled] \in ReaderRow
    <3> DEFINE e == epochs'
    <3>1. e \in 0..MaxEpochs
      BY <2>1
    <3> HIDE DEF e
    <3>2. [IdleReader EXCEPT !.at = "add", !.epoch = e, !.since = settled] \in ReaderRow
      BY <1>f, <3>1 DEF TypeOK, ReaderRow, ReaderSteps
    <3> QED BY <3>2 DEF e
  <2>4. reader' \in [Readers -> ReaderRow]
    BY <1>7, <1>c, <2>2, <2>3 DEF Ask, Moves
  <2> QED BY <1>7, <2>1, <2>4 DEF Ask, TypeOK, dataVars, ReaderRow
<1>8. ASSUME NEW r \in Readers, Add(r) PROVE TypeOK'
  <2>1. reader[r].epoch \in 1..MaxEpochs
    BY <1>a, <1>8 DEF Add, EpochsDiffer, TypeOK
  <2>2. generation' \in Keys
    BY <1>8, <2>1 DEF Add, NewGeneration, Keys, Generations, TypeOK
  <2>3. [reader[r] EXCEPT !.at = "again", !.epoch = 0] \in ReaderRow
    <3> DEFINE e == 0
    <3>1. e \in 0..MaxEpochs
      OBVIOUS
    <3> HIDE DEF e
    <3>2. [reader[r] EXCEPT !.at = "again", !.epoch = e] \in ReaderRow
      BY <1>a, <3>1 DEF ReaderRow, ReaderSteps
    <3> QED BY <3>2 DEF e
  <2>4. reader' \in [Readers -> ReaderRow]
    BY <1>8, <1>c, <2>3 DEF Add, Moves
  <2> QED BY <1>8, <2>2, <2>4 DEF Add, TypeOK, dataVars, ReaderRow
<1>9. ASSUME NEW r \in Readers, Again(r) PROVE TypeOK'
  <2>1. [reader[r] EXCEPT !.at = "lookup", !.key = generation] \in ReaderRow
    BY <1>a DEF TypeOK, ReaderRow, ReaderSteps
  <2>2. reader' \in [Readers -> ReaderRow]
    BY <1>9, <1>c, <2>1 DEF Again, Moves
  <2> QED BY <1>9, <2>2 DEF Again, TypeOK, dataVars, cacheVars, ReaderRow
<1>10. ASSUME NEW r \in Readers, Lookup(r) PROVE TypeOK'
  <2>1. reader[r].key \in Keys
    BY <1>a DEF ReaderRow
  <2>2. Found(r) => stored[reader[r].key] \in Versions
    BY <2>1 DEF Found, TypeOK
  <2>3. /\ [reader[r] EXCEPT !.at = "render"] \in ReaderRow
        /\ Found(r) => [reader[r] EXCEPT !.at = "served", !.shows = stored[reader[r].key]] \in ReaderRow
    BY <1>a, <2>2 DEF ReaderRow, ReaderSteps
  <2>4. reader' \in [Readers -> ReaderRow]
    BY <1>10, <1>c, <2>3 DEF Lookup, Moves
  <2> QED BY <1>10, <2>4 DEF Lookup, TypeOK, dataVars, cacheVars, ReaderRow
<1>11. ASSUME NEW r \in Readers, Render(r) PROVE TypeOK'
  <2>1. [reader[r] EXCEPT !.at = "store", !.shows = data] \in ReaderRow
    BY <1>a DEF TypeOK, ReaderRow, ReaderSteps
  <2>2. reader' \in [Readers -> ReaderRow]
    BY <1>11, <1>c, <2>1 DEF Render, Moves
  <2> QED BY <1>11, <2>2 DEF Render, TypeOK, dataVars, cacheVars, ReaderRow
<1>12. ASSUME NEW r \in Readers, Store(r) PROVE TypeOK'
  <2>1. [reader[r] EXCEPT !.at = "served"] \in ReaderRow
    BY <1>a DEF ReaderRow, ReaderSteps
  <2>2. reader' \in [Readers -> ReaderRow]
    BY <1>12, <1>c, <2>1 DEF Store, Moves
  <2>3. stored' \in [Keys -> Versions \cup {None}]
    BY <1>a, <1>12 DEF Store, KeyOfRequest, TypeOK, ReaderRow
  <2> QED BY <1>12, <2>2, <2>3 DEF Store, TypeOK, dataVars, ReaderRow
<1>13. ASSUME NEW r \in Readers, Respond(r) PROVE TypeOK'
  <2>1. reader' \in [Readers -> ReaderRow]
    BY <1>13, <1>c, <1>f DEF Respond, Moves
  <2> QED BY <1>13, <2>1 DEF Respond, TypeOK, dataVars, cacheVars, ReaderRow
<1>14. ASSUME EvictGeneration PROVE TypeOK'
  BY <1>14 DEF EvictGeneration, TypeOK, dataVars, Keys
<1>15. ASSUME NEW g \in Keys, EvictPage(g) PROVE TypeOK'
  BY <1>15 DEF EvictPage, TypeOK, dataVars
<1> QED BY <1>1, <1>2, <1>3, <1>4, <1>5, <1>6, <1>7, <1>8, <1>9, <1>10, <1>11, <1>12,
           <1>13, <1>14, <1>15 DEF Next

\* What the proofs need of the types.
Simple ==
  /\ data \in Nat /\ settled \in Nat /\ epochs \in Nat
  /\ generation \in Generations \cup {None}
  /\ \A g \in Generations : g # None /\ g[1] \in Nat /\ g[2] \in Nat
  /\ \A g \in Generations \cup {None} : stored[g] \in Nat \cup {None}
  /\ \A w \in Writers : writer[w].epoch \in Nat /\ writer[w].version \in Nat
  /\ \A r \in Readers :
       /\ reader[r].key \in Generations \cup {None} /\ reader[r].epoch \in Nat
       /\ reader[r].since \in Nat /\ reader[r].shows \in Nat

LEMMA Simply == TypeOK => Simple
BY Bounds, NoneAssumption DEF TypeOK, Simple, Versions, Keys, Generations

LEMMA SimplyNext == TypeOK' => Simple'
BY Bounds, NoneAssumption DEF TypeOK, Simple, Versions, Keys, Generations

\* The alternatives of the steps that have some, field by field.
LEMMA NextGenerationCases ==
  ASSUME TypeOK, NEW w \in Writers, NextGeneration(w)
  PROVE  /\ writer[w].at = "committed" /\ UNCHANGED <<data, row, kind, stored, reader>>
         /\ \A v \in Writers \ {w} : writer'[v] = writer[v]
         /\ \/ /\ generation # None /\ generation' = Incremented
               /\ Settle(writer[w].version) /\ UNCHANGED epochs
               /\ writer'[w] = IdleWriter
            \/ /\ generation = None /\ UNCHANGED <<generation, settled>>
               /\ epochs' = epochs + 1
               /\ writer'[w].at = "missed" /\ writer'[w].epoch = epochs + 1
               /\ writer'[w].version = writer[w].version
BY DEF NextGeneration, TakeTime, TypeOK

LEMMA AskCases ==
  ASSUME TypeOK, NEW r \in Readers, Ask(r)
  PROVE  /\ reader[r].at = "idle" /\ UNCHANGED <<data, row, settled, kind, generation, stored, writer>>
         /\ \A q \in Readers \ {r} : reader'[q] = reader[q]
         /\ reader'[r].since = settled /\ reader'[r].shows = 0
         /\ \/ /\ generation # None /\ UNCHANGED epochs
               /\ reader'[r].at = "lookup" /\ reader'[r].key = generation
            \/ /\ generation = None /\ epochs' = epochs + 1
               /\ reader'[r].at = "add" /\ reader'[r].key = None /\ reader'[r].epoch = epochs + 1
<1>1. CASE generation # None
  <2>1. reader' = [reader EXCEPT ![r] = [IdleReader EXCEPT !.at = "lookup", !.key = generation, !.since = settled]]
    BY <1>1 DEF Ask, Moves
  <2> QED BY <1>1, <2>1 DEF Ask, IdleReader, TypeOK, dataVars
<1>2. CASE generation = None
  <2>1. reader' = [reader EXCEPT ![r] = [IdleReader EXCEPT !.at = "add", !.epoch = epochs', !.since = settled]]
    BY <1>2 DEF Ask, Moves
  <2> QED BY <1>2, <2>1 DEF Ask, IdleReader, TypeOK, dataVars
<1> QED BY <1>1, <1>2

LEMMA LookupCases ==
  ASSUME TypeOK, NEW r \in Readers, Lookup(r)
  PROVE  /\ reader[r].at = "lookup"
         /\ UNCHANGED <<data, row, settled, kind, generation, epochs, stored, writer>>
         /\ \A q \in Readers \ {r} : reader'[q] = reader[q]
         /\ reader'[r].since = reader[r].since /\ reader'[r].key = reader[r].key
         /\ \/ /\ Found(r) /\ reader'[r].at = "served"
               /\ reader'[r].shows = stored[reader[r].key]
            \/ reader'[r].at = "render"
<1>1. CASE Found(r)
  <2>1. reader' = [reader EXCEPT ![r] = [reader[r] EXCEPT !.at = "served", !.shows = stored[reader[r].key]]]
    BY <1>1 DEF Lookup, Moves
  <2> QED BY <1>1, <2>1 DEF Lookup, TypeOK, dataVars, cacheVars
<1>2. CASE ~Found(r)
  BY <1>2 DEF Lookup, Moves, TypeOK, dataVars, cacheVars
<1> QED BY <1>1, <1>2

-----------------------------------------------------------------------------
(* The parts of the invariant, step by step. *)

\* Every time that is read is one past all before it, and is read for one process.
LEMMA EpochsStep ==
  ASSUME TypeOK, TypeOK', EpochsDiffer, Next
  PROVE  EpochsDiffer'
<1> USE Bounds, NoneAssumption DEF TypeOK, Versions, Keys, Generations, EpochsDiffer
<1>t. Simple /\ Simple'
  <2> HIDE DEF TypeOK
  <2> QED BY Simply, SimplyNext
<1>1. ASSUME NEW w \in Writers, Commit(w) PROVE EpochsDiffer'
  BY <1>1 DEF Commit, dataVars, cacheVars
<1>2. ASSUME NEW w \in Writers, Load(w) PROVE EpochsDiffer'
  BY <1>2 DEF Load, dataVars, cacheVars
<1>3. ASSUME NEW w \in Writers, SaveLoaded(w) PROVE EpochsDiffer'
  BY <1>3 DEF SaveLoaded, cacheVars, IdleWriter
<1>4. ASSUME NEW w \in Writers, NextGeneration(w) PROVE EpochsDiffer'
  <2> HIDE DEF TypeOK, Versions, Keys, Generations
  <2> QED BY <1>4, NextGenerationCases, <1>t DEF Incremented, Settle, IdleWriter, Simple
<1>5. ASSUME NEW w \in Writers, SetGeneration(w) PROVE EpochsDiffer'
  BY <1>5 DEF SetGeneration, Settle, IdleWriter
<1>6. ASSUME NEW w \in Writers, Dies(w) PROVE EpochsDiffer'
  BY <1>6 DEF Dies, dataVars, cacheVars, IdleWriter
<1>7. ASSUME NEW r \in Readers, Ask(r) PROVE EpochsDiffer'
  <2> HIDE DEF TypeOK, Versions, Keys, Generations
  <2> QED BY <1>7, AskCases, <1>t DEF Simple
<1>8. ASSUME NEW r \in Readers, Add(r) PROVE EpochsDiffer'
  BY <1>8 DEF Add, Moves, NewGeneration, dataVars
<1>9. ASSUME NEW r \in Readers, Again(r) PROVE EpochsDiffer'
  BY <1>9 DEF Again, Moves, dataVars, cacheVars
<1>10. ASSUME NEW r \in Readers, Lookup(r) PROVE EpochsDiffer'
  <2> HIDE DEF TypeOK, Versions, Keys, Generations
  <2> QED BY <1>10, LookupCases, <1>t DEF Found, Simple
<1>11. ASSUME NEW r \in Readers, Render(r) PROVE EpochsDiffer'
  BY <1>11 DEF Render, Moves, dataVars, cacheVars
<1>12. ASSUME NEW r \in Readers, Store(r) PROVE EpochsDiffer'
  BY <1>12 DEF Store, KeyOfRequest, Moves, dataVars
<1>13. ASSUME NEW r \in Readers, Respond(r) PROVE EpochsDiffer'
  BY <1>13 DEF Respond, Moves, IdleReader, dataVars, cacheVars
<1>14. ASSUME EvictGeneration PROVE EpochsDiffer'
  BY <1>14 DEF EvictGeneration, dataVars
<1>15. ASSUME NEW g \in Keys, EvictPage(g) PROVE EpochsDiffer'
  BY <1>15 DEF EvictPage, dataVars
<1> QED BY <1>1, <1>2, <1>3, <1>4, <1>5, <1>6, <1>7, <1>8, <1>9, <1>10, <1>11,
           <1>12, <1>13, <1>14, <1>15 DEF Next

\* A save settles what it committed.
LEMMA SettledStep ==
  ASSUME TypeOK, TypeOK', Settled, Next
  PROVE  Settled'
<1> USE Bounds, NoneAssumption DEF TypeOK, Versions, Keys, Generations, Settled
<1>1. ASSUME NEW w \in Writers, Commit(w) PROVE Settled'
  BY <1>1 DEF Commit, dataVars, cacheVars
<1>2. ASSUME NEW w \in Writers, Load(w) PROVE Settled'
  BY <1>2 DEF Load, dataVars, cacheVars
<1>3. ASSUME NEW w \in Writers, SaveLoaded(w) PROVE Settled'
  BY <1>3 DEF SaveLoaded, cacheVars, IdleWriter
<1>4. ASSUME NEW w \in Writers, NextGeneration(w) PROVE Settled'
  BY <1>4, NextGenerationCases DEF Incremented, Settle, IdleWriter
<1>5. ASSUME NEW w \in Writers, SetGeneration(w) PROVE Settled'
  BY <1>5 DEF SetGeneration, Settle, IdleWriter
<1>6. ASSUME NEW w \in Writers, Dies(w) PROVE Settled'
  BY <1>6 DEF Dies, dataVars, cacheVars, IdleWriter
<1>7. ASSUME NEW r \in Readers, Ask(r) PROVE Settled'
  BY <1>7, AskCases
<1>8. ASSUME NEW r \in Readers, Add(r) PROVE Settled'
  BY <1>8 DEF Add, Moves, NewGeneration, dataVars
<1>9. ASSUME NEW r \in Readers, Again(r) PROVE Settled'
  BY <1>9 DEF Again, Moves, dataVars, cacheVars
<1>10. ASSUME NEW r \in Readers, Lookup(r) PROVE Settled'
  BY <1>10, LookupCases DEF Found
<1>11. ASSUME NEW r \in Readers, Render(r) PROVE Settled'
  BY <1>11 DEF Render, Moves, dataVars, cacheVars
<1>12. ASSUME NEW r \in Readers, Store(r) PROVE Settled'
  BY <1>12 DEF Store, KeyOfRequest, Moves, dataVars
<1>13. ASSUME NEW r \in Readers, Respond(r) PROVE Settled'
  BY <1>13 DEF Respond, Moves, IdleReader, dataVars, cacheVars
<1>14. ASSUME EvictGeneration PROVE Settled'
  BY <1>14 DEF EvictGeneration, dataVars
<1>15. ASSUME NEW g \in Keys, EvictPage(g) PROVE Settled'
  BY <1>15 DEF EvictPage, dataVars
<1> QED BY <1>1, <1>2, <1>3, <1>4, <1>5, <1>6, <1>7, <1>8, <1>9, <1>10, <1>11,
           <1>12, <1>13, <1>14, <1>15 DEF Next

\* A page is rendered of the rows, which are ahead of what settled.
LEMMA RenderedStep ==
  ASSUME TypeOK, TypeOK', Settled, RenderedIsFresh, Next
  PROVE  RenderedIsFresh'
<1> USE Bounds, NoneAssumption DEF TypeOK, Versions, Keys, Generations, RenderedIsFresh, Settled
<1>1. ASSUME NEW w \in Writers, Commit(w) PROVE RenderedIsFresh'
  BY <1>1 DEF Commit, dataVars, cacheVars
<1>2. ASSUME NEW w \in Writers, Load(w) PROVE RenderedIsFresh'
  BY <1>2 DEF Load, dataVars, cacheVars
<1>3. ASSUME NEW w \in Writers, SaveLoaded(w) PROVE RenderedIsFresh'
  BY <1>3 DEF SaveLoaded, cacheVars, IdleWriter
<1>4. ASSUME NEW w \in Writers, NextGeneration(w) PROVE RenderedIsFresh'
  BY <1>4, NextGenerationCases DEF Incremented, Settle, IdleWriter
<1>5. ASSUME NEW w \in Writers, SetGeneration(w) PROVE RenderedIsFresh'
  BY <1>5 DEF SetGeneration, Settle, IdleWriter
<1>6. ASSUME NEW w \in Writers, Dies(w) PROVE RenderedIsFresh'
  BY <1>6 DEF Dies, dataVars, cacheVars, IdleWriter
<1>7. ASSUME NEW r \in Readers, Ask(r) PROVE RenderedIsFresh'
  BY <1>7, AskCases
<1>8. ASSUME NEW r \in Readers, Add(r) PROVE RenderedIsFresh'
  BY <1>8 DEF Add, Moves, NewGeneration, dataVars
<1>9. ASSUME NEW r \in Readers, Again(r) PROVE RenderedIsFresh'
  BY <1>9 DEF Again, Moves, dataVars, cacheVars
<1>10. ASSUME NEW r \in Readers, Lookup(r) PROVE RenderedIsFresh'
  BY <1>10, LookupCases DEF Found
<1>11. ASSUME NEW r \in Readers, Render(r) PROVE RenderedIsFresh'
  BY <1>11 DEF Render, Moves, dataVars, cacheVars
<1>12. ASSUME NEW r \in Readers, Store(r) PROVE RenderedIsFresh'
  BY <1>12 DEF Store, KeyOfRequest, Moves, dataVars
<1>13. ASSUME NEW r \in Readers, Respond(r) PROVE RenderedIsFresh'
  BY <1>13 DEF Respond, Moves, IdleReader, dataVars, cacheVars
<1>14. ASSUME EvictGeneration PROVE RenderedIsFresh'
  BY <1>14 DEF EvictGeneration, dataVars
<1>15. ASSUME NEW g \in Keys, EvictPage(g) PROVE RenderedIsFresh'
  BY <1>15 DEF EvictPage, dataVars
<1> QED BY <1>1, <1>2, <1>3, <1>4, <1>5, <1>6, <1>7, <1>8, <1>9, <1>10, <1>11,
           <1>12, <1>13, <1>14, <1>15 DEF Next

\* A request takes the current generation for its key, and it keeps that key.
LEMMA FoundStep ==
  ASSUME TypeOK, TypeOK', Settled, CurrentIsFresh, FoundIsFresh, Next
  PROVE  FoundIsFresh'
<1> USE Bounds, NoneAssumption
    DEF TypeOK, Versions, Keys, Generations, FoundIsFresh, CurrentIsFresh, Settled
<1>t. Simple /\ Simple'
  <2> HIDE DEF TypeOK
  <2> QED BY Simply, SimplyNext
<1>1. ASSUME NEW w \in Writers, Commit(w) PROVE FoundIsFresh'
  BY <1>1 DEF Commit, dataVars, cacheVars
<1>2. ASSUME NEW w \in Writers, Load(w) PROVE FoundIsFresh'
  BY <1>2 DEF Load, dataVars, cacheVars
<1>3. ASSUME NEW w \in Writers, SaveLoaded(w) PROVE FoundIsFresh'
  BY <1>3 DEF SaveLoaded, cacheVars, IdleWriter
<1>4. ASSUME NEW w \in Writers, NextGeneration(w) PROVE FoundIsFresh'
  BY <1>4, NextGenerationCases DEF Incremented, Settle, IdleWriter
<1>5. ASSUME NEW w \in Writers, SetGeneration(w) PROVE FoundIsFresh'
  BY <1>5 DEF SetGeneration, Settle, IdleWriter
<1>6. ASSUME NEW w \in Writers, Dies(w) PROVE FoundIsFresh'
  BY <1>6 DEF Dies, dataVars, cacheVars, IdleWriter
<1>7. ASSUME NEW r \in Readers, Ask(r) PROVE FoundIsFresh'
  <2> HIDE DEF TypeOK, Versions, Keys, Generations
  <2> QED BY <1>7, AskCases, <1>t DEF Simple
<1>8. ASSUME NEW r \in Readers, Add(r) PROVE FoundIsFresh'
  BY <1>8 DEF Add, Moves, NewGeneration, dataVars
<1>9. ASSUME NEW r \in Readers, Again(r) PROVE FoundIsFresh'
  BY <1>9 DEF Again, Moves, dataVars, cacheVars
<1>10. ASSUME NEW r \in Readers, Lookup(r) PROVE FoundIsFresh'
  BY <1>10, LookupCases DEF Found
<1>11. ASSUME NEW r \in Readers, Render(r) PROVE FoundIsFresh'
  BY <1>11 DEF Render, Moves, dataVars, cacheVars
<1>12. ASSUME NEW r \in Readers, Store(r) PROVE FoundIsFresh'
  BY <1>12 DEF Store, KeyOfRequest, Moves, dataVars
<1>13. ASSUME NEW r \in Readers, Respond(r) PROVE FoundIsFresh'
  BY <1>13 DEF Respond, Moves, IdleReader, dataVars, cacheVars
<1>14. ASSUME EvictGeneration PROVE FoundIsFresh'
  BY <1>14 DEF EvictGeneration, dataVars
<1>15. ASSUME NEW g \in Keys, EvictPage(g) PROVE FoundIsFresh'
  BY <1>15 DEF EvictPage, dataVars
<1> QED BY <1>1, <1>2, <1>3, <1>4, <1>5, <1>6, <1>7, <1>8, <1>9, <1>10, <1>11,
           <1>12, <1>13, <1>14, <1>15 DEF Next

\* What settles moves the generation to one that nothing was stored under.
LEMMA CurrentStep ==
  ASSUME TypeOK, TypeOK', Settled, MadeOnce, EpochsDiffer, CurrentIsFresh, Next
  PROVE  CurrentIsFresh'
<1> USE Bounds, NoneAssumption
    DEF TypeOK, Versions, Keys, Generations, CurrentIsFresh, MadeOnce,
        EpochsDiffer, InUse, Pending, Settled
<1>t. Simple /\ Simple'
  <2> HIDE DEF TypeOK
  <2> QED BY Simply, SimplyNext
<1>1. ASSUME NEW w \in Writers, Commit(w) PROVE CurrentIsFresh'
  BY <1>1 DEF Commit, dataVars, cacheVars
<1>2. ASSUME NEW w \in Writers, Load(w) PROVE CurrentIsFresh'
  BY <1>2 DEF Load, dataVars, cacheVars
<1>3. ASSUME NEW w \in Writers, SaveLoaded(w) PROVE CurrentIsFresh'
  BY <1>3 DEF SaveLoaded, cacheVars, IdleWriter
<1>4. ASSUME NEW w \in Writers, NextGeneration(w) PROVE CurrentIsFresh'
  BY <1>4, NextGenerationCases DEF Incremented, Settle, IdleWriter
<1>5. ASSUME NEW w \in Writers, SetGeneration(w) PROVE CurrentIsFresh'
  BY <1>5 DEF SetGeneration, Settle, IdleWriter
<1>6. ASSUME NEW w \in Writers, Dies(w) PROVE CurrentIsFresh'
  BY <1>6 DEF Dies, dataVars, cacheVars, IdleWriter
<1>7. ASSUME NEW r \in Readers, Ask(r) PROVE CurrentIsFresh'
  <2> HIDE DEF TypeOK, Versions, Keys, Generations
  <2> QED BY <1>7, AskCases, <1>t DEF Simple
<1>8. ASSUME NEW r \in Readers, Add(r) PROVE CurrentIsFresh'
  BY <1>8 DEF Add, Moves, NewGeneration, dataVars
<1>9. ASSUME NEW r \in Readers, Again(r) PROVE CurrentIsFresh'
  BY <1>9 DEF Again, Moves, dataVars, cacheVars
<1>10. ASSUME NEW r \in Readers, Lookup(r) PROVE CurrentIsFresh'
  BY <1>10, LookupCases DEF Found
<1>11. ASSUME NEW r \in Readers, Render(r) PROVE CurrentIsFresh'
  BY <1>11 DEF Render, Moves, dataVars, cacheVars
<1>12. ASSUME NEW r \in Readers, Store(r) PROVE CurrentIsFresh'
  BY <1>12 DEF Store, KeyOfRequest, Moves, dataVars
<1>13. ASSUME NEW r \in Readers, Respond(r) PROVE CurrentIsFresh'
  BY <1>13 DEF Respond, Moves, IdleReader, dataVars, cacheVars
<1>14. ASSUME EvictGeneration PROVE CurrentIsFresh'
  BY <1>14 DEF EvictGeneration, dataVars
<1>15. ASSUME NEW g \in Keys, EvictPage(g) PROVE CurrentIsFresh'
  BY <1>15 DEF EvictPage, dataVars
<1> QED BY <1>1, <1>2, <1>3, <1>4, <1>5, <1>6, <1>7, <1>8, <1>9, <1>10, <1>11,
           <1>12, <1>13, <1>14, <1>15 DEF Next

\* No generation that was used is made again.
LEMMA MadeOnceStep ==
  ASSUME TypeOK, TypeOK', MadeOnce, EpochsDiffer, Next
  PROVE  MadeOnce'
<1> USE Bounds, NoneAssumption
    DEF TypeOK, Versions, Keys, Generations, MadeOnce, EpochsDiffer, InUse, Pending
<1>t. Simple /\ Simple'
  <2> HIDE DEF TypeOK
  <2> QED BY Simply, SimplyNext
<1>1. ASSUME NEW w \in Writers, Commit(w) PROVE MadeOnce'
  BY <1>1 DEF Commit, dataVars, cacheVars
<1>2. ASSUME NEW w \in Writers, Load(w) PROVE MadeOnce'
  BY <1>2 DEF Load, dataVars, cacheVars
<1>3. ASSUME NEW w \in Writers, SaveLoaded(w) PROVE MadeOnce'
  BY <1>3 DEF SaveLoaded, cacheVars, IdleWriter
<1>4. ASSUME NEW w \in Writers, NextGeneration(w) PROVE MadeOnce'
  BY <1>4, NextGenerationCases DEF Incremented, Settle, IdleWriter
<1>5. ASSUME NEW w \in Writers, SetGeneration(w) PROVE MadeOnce'
  BY <1>5 DEF SetGeneration, Settle, IdleWriter
<1>6. ASSUME NEW w \in Writers, Dies(w) PROVE MadeOnce'
  BY <1>6 DEF Dies, dataVars, cacheVars, IdleWriter
<1>7. ASSUME NEW r \in Readers, Ask(r) PROVE MadeOnce'
  <2> HIDE DEF TypeOK, Versions, Keys, Generations
  <2> QED BY <1>7, AskCases, <1>t DEF Simple
<1>8. ASSUME NEW r \in Readers, Add(r) PROVE MadeOnce'
  BY <1>8 DEF Add, Moves, NewGeneration, dataVars
<1>9. ASSUME NEW r \in Readers, Again(r) PROVE MadeOnce'
  BY <1>9 DEF Again, Moves, dataVars, cacheVars
<1>10. ASSUME NEW r \in Readers, Lookup(r) PROVE MadeOnce'
  <2> HIDE DEF TypeOK, Versions, Keys, Generations
  <2> QED BY <1>10, LookupCases, <1>t DEF Found, Simple
<1>11. ASSUME NEW r \in Readers, Render(r) PROVE MadeOnce'
  BY <1>11 DEF Render, Moves, dataVars, cacheVars
<1>12. ASSUME NEW r \in Readers, Store(r) PROVE MadeOnce'
  BY <1>12 DEF Store, KeyOfRequest, Moves, dataVars
<1>13. ASSUME NEW r \in Readers, Respond(r) PROVE MadeOnce'
  BY <1>13 DEF Respond, Moves, IdleReader, dataVars, cacheVars
<1>14. ASSUME EvictGeneration PROVE MadeOnce'
  BY <1>14 DEF EvictGeneration, dataVars
<1>15. ASSUME NEW g \in Keys, EvictPage(g) PROVE MadeOnce'
  BY <1>15 DEF EvictPage, dataVars
<1> QED BY <1>1, <1>2, <1>3, <1>4, <1>5, <1>6, <1>7, <1>8, <1>9, <1>10, <1>11,
           <1>12, <1>13, <1>14, <1>15 DEF Next

\* A response shows what it found or rendered.
LEMMA NoStaleStep ==
  ASSUME TypeOK, TypeOK', Settled, FoundIsFresh, RenderedIsFresh, NoStaleResponse, Next
  PROVE  NoStaleResponse'
<1> USE Bounds, NoneAssumption
    DEF TypeOK, Versions, Keys, Generations, NoStaleResponse, FoundIsFresh, RenderedIsFresh, Settled
<1>1. ASSUME NEW w \in Writers, Commit(w) PROVE NoStaleResponse'
  BY <1>1 DEF Commit, dataVars, cacheVars
<1>2. ASSUME NEW w \in Writers, Load(w) PROVE NoStaleResponse'
  BY <1>2 DEF Load, dataVars, cacheVars
<1>3. ASSUME NEW w \in Writers, SaveLoaded(w) PROVE NoStaleResponse'
  BY <1>3 DEF SaveLoaded, cacheVars, IdleWriter
<1>4. ASSUME NEW w \in Writers, NextGeneration(w) PROVE NoStaleResponse'
  BY <1>4, NextGenerationCases DEF Incremented, Settle, IdleWriter
<1>5. ASSUME NEW w \in Writers, SetGeneration(w) PROVE NoStaleResponse'
  BY <1>5 DEF SetGeneration, Settle, IdleWriter
<1>6. ASSUME NEW w \in Writers, Dies(w) PROVE NoStaleResponse'
  BY <1>6 DEF Dies, dataVars, cacheVars, IdleWriter
<1>7. ASSUME NEW r \in Readers, Ask(r) PROVE NoStaleResponse'
  BY <1>7, AskCases
<1>8. ASSUME NEW r \in Readers, Add(r) PROVE NoStaleResponse'
  BY <1>8 DEF Add, Moves, NewGeneration, dataVars
<1>9. ASSUME NEW r \in Readers, Again(r) PROVE NoStaleResponse'
  BY <1>9 DEF Again, Moves, dataVars, cacheVars
<1>10. ASSUME NEW r \in Readers, Lookup(r) PROVE NoStaleResponse'
  BY <1>10, LookupCases DEF Found
<1>11. ASSUME NEW r \in Readers, Render(r) PROVE NoStaleResponse'
  BY <1>11 DEF Render, Moves, dataVars, cacheVars
<1>12. ASSUME NEW r \in Readers, Store(r) PROVE NoStaleResponse'
  BY <1>12 DEF Store, KeyOfRequest, Moves, dataVars
<1>13. ASSUME NEW r \in Readers, Respond(r) PROVE NoStaleResponse'
  BY <1>13 DEF Respond, Moves, IdleReader, dataVars, cacheVars
<1>14. ASSUME EvictGeneration PROVE NoStaleResponse'
  BY <1>14 DEF EvictGeneration, dataVars
<1>15. ASSUME NEW g \in Keys, EvictPage(g) PROVE NoStaleResponse'
  BY <1>15 DEF EvictPage, dataVars
<1> QED BY <1>1, <1>2, <1>3, <1>4, <1>5, <1>6, <1>7, <1>8, <1>9, <1>10, <1>11,
           <1>12, <1>13, <1>14, <1>15 DEF Next

-----------------------------------------------------------------------------
(* The theorems. *)

LEMMA InitHolds == Init => IInv
<1> SUFFICES ASSUME Init PROVE IInv
  OBVIOUS
<1> USE Bounds, NoneAssumption DEF Init, IdleWriter, IdleReader
<1>1. TypeOK
  BY DEF TypeOK, Versions, Keys, ReaderSteps, WriterSteps
<1>2. EpochsDiffer
  BY DEF EpochsDiffer
<1>3. MadeOnce
  BY DEF MadeOnce, InUse, Keys, Generations
<1>4. Settled /\ CurrentIsFresh
  BY DEF Settled, CurrentIsFresh
<1>5. FoundIsFresh /\ RenderedIsFresh /\ NoStaleResponse
  BY DEF FoundIsFresh, RenderedIsFresh, NoStaleResponse
<1> QED BY <1>1, <1>2, <1>3, <1>4, <1>5 DEF IInv

LEMMA NextHolds == IInv /\ [Next]_vars => IInv'
<1> SUFFICES ASSUME IInv, [Next]_vars PROVE IInv'
  OBVIOUS
<1>1. CASE Next
  <2>1. TypeOK'
    BY <1>1, TypeStep DEF IInv
  <2> QED BY <1>1, <2>1, EpochsStep, SettledStep, RenderedStep, FoundStep, CurrentStep,
             MadeOnceStep, NoStaleStep DEF IInv
<1>2. CASE UNCHANGED vars
  BY <1>2 DEF IInv, vars, TypeOK, EpochsDiffer, MadeOnce, InUse, Pending, Settled, CurrentIsFresh,
              FoundIsFresh, RenderedIsFresh, NoStaleResponse, Found
<1> QED BY <1>1, <1>2

\* The cache, the saves and the requests stay what TypeOK says.
THEOREM CacheTypes == Spec => []TypeOK
<1>1. IInv => TypeOK
  BY DEF IInv
<1> QED BY <1>1, InitHolds, NextHolds, PTL DEF Spec

\* No response lacks a change whose save had moved the generation before the
\* request began, whatever is saved, served and evicted at the same time.
THEOREM CacheIsFresh == Spec => []NoStaleResponse
<1>1. IInv => NoStaleResponse
  BY DEF IInv
<1> QED BY <1>1, InitHolds, NextHolds, PTL DEF Spec
=============================================================================
