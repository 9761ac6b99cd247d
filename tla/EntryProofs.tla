----------------------------- MODULE EntryProofs -----------------------------
(***************************************************************************)
(* Racing imports of a guid, the owner's posts, and reading page after     *)
(* page: what no interleaving can do to them, for any number of imports,   *)
(* posts, entries and dates; and what a post's text and attachments become *)
(* in its entry, for any text, facets and attachments.                     *)
(***************************************************************************)
EXTENDS MCEntries, FiniteSetTheorems, WellFoundedInduction, SequenceTheorems, TLAPS

(* Imports, the owner's commands and the deletion of old entries           *)
(* (ingestion/service.py, stream/api_view.py).                             *)

ImportSteps == {"idle", "build", "write", "again", "rewrite", "done"}
ImportOutcomes == {"none", "created", "updated", "skipped", "failed"}
ImportRecords == [at : ImportSteps, fresh : EntryRows!Freshness, force : BOOLEAN,
                  e : EntryRows!Row \cup {None}, outcome : ImportOutcomes]

\* Bounds are numbers, and None is neither a row nor a primary key.
StoreBounded == Newest \in Nat /\ MaxRows \in Nat \ {0}
  /\ None \notin EntryRows!Row \cup EntryRows!Pks

Holding == {"build", "write", "rewrite"}

\* A stored row has its key, and an import at work an entry and no outcome.
WellFormed ==
  /\ entryRow # None => entryRow.pk # None
  /\ favoriting.at = "download" => favoriting.e \in EntryRows!Row /\ favoriting.e.pk # None
  /\ \A i \in Imports : /\ import[i].at \in Holding => import[i].e \in EntryRows!Row
                        /\ import[i].at # "done" => import[i].outcome = "none"

\* Until an entry is deleted, whoever holds an entry of the table holds the one
\* that is there, and an insert that clashed finds a row to look at.
HeldIsStored ==
  ~deleted =>
    /\ favoriting.at = "download" => entryRow # None /\ entryRow.pk = favoriting.e.pk
    /\ \A i \in Imports :
         /\ import[i].at \in Holding /\ import[i].e.pk # None =>
              entryRow # None /\ entryRow.pk = import[i].e.pk
         /\ import[i].at = "again" => entryRow # None
         /\ import[i].at = "rewrite" => import[i].e.pk # None
         /\ import[i].outcome # "failed"

\* Whoever holds an entry of the table was let by the rules.
LookedByRules ==
  \A i \in Imports :
    import[i].at \in Holding /\ import[i].e.pk # None =>
      /\ looked[i] # None
      /\ ~looked[i].protected
      /\ ~import[i].force /\ import[i].fresh # None => looked[i].updated < import[i].fresh

StoreInv == EntryRows!TypeOK /\ WellFormed /\ HeldIsStored /\ LookedByRules

-----------------------------------------------------------------------------
LEMMA StoreShape == EntryRows!TypeOK <=>
  /\ entryRow \in EntryRows!Row \cup {None} /\ inserted \in 0..MaxRows
  /\ favorite \in BOOLEAN /\ deleted \in BOOLEAN
  /\ favoriting \in [at : {"idle", "download"}, e : EntryRows!Row \cup {None}]
  /\ import \in [Imports -> ImportRecords]
  /\ looked \in [Imports -> EntryRows!Row \cup {None}]
BY DEF EntryRows!TypeOK, ImportRecords, ImportSteps, ImportOutcomes

LEMMA NewEntryIsRow ==
  ASSUME StoreBounded
  PROVE  EntryRows!NewEntry \in EntryRows!Row /\ EntryRows!NewEntry.pk = None
BY DEF EntryRows!NewEntry, EntryRows!Row, StoreBounded

\* What build() sets keeps the key.
LEMMA AssignedFields ==
  ASSUME StoreBounded, NEW e \in EntryRows!Row, NEW fresh \in EntryRows!Freshness
  PROVE  EntryRows!assigned_fields(e, fresh) \in EntryRows!Row
           /\ EntryRows!assigned_fields(e, fresh).pk = e.pk
<1>1. (IF fresh = None THEN e.updated ELSE fresh) \in 0..Newest
  BY DEF EntryRows!Row, EntryRows!Freshness, StoreBounded
<1> QED
  BY <1>1 DEF EntryRows!assigned_fields, EntryRows!Row

LEMMA EndIsImport ==
  ASSUME NEW a \in ImportSteps, NEW how \in ImportOutcomes, EntryRows!TypeOK
  PROVE  /\ EntryRows!IdleImport \in ImportRecords
         /\ [EntryRows!IdleImport EXCEPT !.at = a, !.outcome = how] \in ImportRecords
BY DEF EntryRows!IdleImport, ImportRecords, ImportSteps, ImportOutcomes, EntryRows!Freshness

\* A saved entry is the row then there, by the key it has or got.
LEMMA SaveKeeps ==
  ASSUME StoreBounded, EntryRows!TypeOK, NEW e \in EntryRows!Row, EntryRows!Save(e)
  PROVE  /\ entryRow' \in EntryRows!Row /\ entryRow'.pk # None /\ inserted' \in 0..MaxRows
         /\ entryRow # None /\ entryRow.pk # None => entryRow'.pk = entryRow.pk
<1>1. CASE e.pk # None
  BY <1>1 DEF EntryRows!Save, EntryRows!Clashes, EntryRows!TypeOK, EntryRows!Row
<1>2. CASE e.pk = None
  <2>1. inserted' \in 1..MaxRows /\ inserted' # None
    BY <1>2 DEF EntryRows!Save, EntryRows!TypeOK, StoreBounded, EntryRows!Pks
  <2>2. entryRow' = [e EXCEPT !.pk = inserted'] /\ ~EntryRows!Clashes(e)
    BY <1>2 DEF EntryRows!Save
  <2>3. entryRow' \in EntryRows!Row /\ entryRow'.pk = inserted'
    BY <2>1, <2>2 DEF EntryRows!Row, EntryRows!Pks
  <2> QED
    BY <1>2, <2>1, <2>2, <2>3 DEF EntryRows!Clashes
<1> QED
  BY <1>1, <1>2
-----------------------------------------------------------------------------
LEMMA StoreInitInv == ASSUME StoreBounded, EntryRows!Init PROVE StoreInv
<1>1. entryRow \in EntryRows!Row \cup {None} /\ inserted \in 0..MaxRows
        /\ (entryRow # None => entryRow.pk # None)
  <2>1. CASE entryRow = None /\ inserted = 0
    BY <2>1 DEF StoreBounded
  <2>2. CASE entryRow = [EntryRows!NewEntry EXCEPT !.pk = 1] /\ inserted = 1
    <3>1. 1 \in EntryRows!Pks /\ 1 \in 0..MaxRows /\ 1 # None
      BY DEF StoreBounded, EntryRows!Pks
    <3>2. entryRow \in EntryRows!Row /\ entryRow.pk = 1
      BY <2>2, <3>1, NewEntryIsRow DEF EntryRows!Row
    <3> QED
      BY <2>2, <3>1, <3>2
  <2> QED
    BY <2>1, <2>2 DEF EntryRows!Init
<1>2. favoriting \in [at : {"idle", "download"}, e : EntryRows!Row \cup {None}]
        /\ favoriting.at = "idle"
  BY DEF EntryRows!Init
<1>3. EntryRows!IdleImport \in ImportRecords /\ EntryRows!IdleImport.at = "idle"
        /\ EntryRows!IdleImport.outcome = "none"
  BY DEF EntryRows!IdleImport, ImportRecords, ImportSteps, ImportOutcomes, EntryRows!Freshness
<1>4. import \in [Imports -> ImportRecords]
      /\ \A i \in Imports : import[i].at = "idle" /\ import[i].outcome = "none"
  BY <1>3 DEF EntryRows!Init
<1>5. EntryRows!TypeOK
  BY <1>1, <1>2, <1>4, StoreShape DEF EntryRows!Init
<1> QED
  BY <1>1, <1>2, <1>4, <1>5 DEF StoreInv, WellFormed, HeldIsStored, LookedByRules, Holding

-----------------------------------------------------------------------------
(* Each action. *)

\* A step of one import leaves the others as they are.
LEMMA OneImport ==
  ASSUME EntryRows!TypeOK, NEW i \in Imports, NEW fields \in ImportRecords,
           EntryRows!Moves(i, fields)
  PROVE  /\ import' \in [Imports -> ImportRecords]
         /\ import'[i] = fields
         /\ \A j \in Imports : j # i => import'[j] = import[j]
BY StoreShape DEF EntryRows!Moves

LEMMA OneLook ==
  ASSUME EntryRows!TypeOK, NEW i \in Imports, EntryRows!Looks(i) \/ EntryRows!Forgets(i)
  PROVE  /\ looked' \in [Imports -> EntryRows!Row \cup {None}]
         /\ EntryRows!Looks(i) => looked'[i] = entryRow
         /\ \A j \in Imports : j # i => looked'[j] = looked[j]
BY StoreShape DEF EntryRows!Looks, EntryRows!Forgets

\* An import that ends holds nothing.
LEMMA EndStep ==
  ASSUME StoreBounded, StoreInv, NEW i \in Imports, NEW how \in ImportOutcomes,
           EntryRows!Ends(i, how),
         EntryRows!Looks(i) \/ EntryRows!Forgets(i), UNCHANGED <<EntryRows!ownerVars, deleted>>,
         how = "failed" => deleted,
         \/ UNCHANGED <<entryRow, inserted>>
         \/ /\ entryRow' \in EntryRows!Row /\ entryRow'.pk # None /\ inserted' \in 0..MaxRows
            /\ entryRow # None => entryRow'.pk = entryRow.pk
  PROVE  StoreInv'
<1> DEFINE fields == [EntryRows!IdleImport EXCEPT !.at = "done", !.outcome = how]
<1>1. fields \in ImportRecords /\ fields.at = "done" /\ fields.outcome = how
  BY EndIsImport DEF StoreInv, ImportSteps, EntryRows!IdleImport
<1>2. EntryRows!Moves(i, fields)
  BY DEF EntryRows!Ends
<1> HIDE DEF fields
<1>3. /\ import' \in [Imports -> ImportRecords]
      /\ import'[i] = fields
      /\ \A j \in Imports : j # i => import'[j] = import[j]
  BY <1>1, <1>2, OneImport DEF StoreInv
<1>4. /\ looked' \in [Imports -> EntryRows!Row \cup {None}]
      /\ \A j \in Imports : j # i => looked'[j] = looked[j]
  BY OneLook DEF StoreInv
<1>5. entryRow' \in EntryRows!Row \cup {None} /\ inserted' \in 0..MaxRows
        /\ (entryRow' # None => entryRow'.pk # None)
      /\ (entryRow # None => entryRow' # None /\ entryRow'.pk = entryRow.pk)
  BY StoreShape DEF StoreInv, WellFormed, StoreBounded
<1>6. EntryRows!TypeOK'
  BY <1>3, <1>4, <1>5, StoreShape DEF StoreInv, EntryRows!TypeOK, EntryRows!ownerVars,
     ImportRecords, ImportSteps, ImportOutcomes
<1>7. WellFormed'
  BY <1>1, <1>3, <1>5 DEF StoreInv, WellFormed, EntryRows!ownerVars, Holding
<1>8. HeldIsStored'
  BY <1>1, <1>3, <1>5, StoreShape DEF StoreInv, HeldIsStored, EntryRows!ownerVars, Holding
<1>9. LookedByRules'
  BY <1>1, <1>3, <1>4 DEF StoreInv, LookedByRules, Holding
<1> QED
  BY <1>6, <1>7, <1>8, <1>9 DEF StoreInv

\* An import that goes on, with the entry it holds then.
LEMMA MoveStep ==
  ASSUME StoreBounded, StoreInv, NEW i \in Imports, NEW fields \in ImportRecords,
           EntryRows!Moves(i, fields),
         UNCHANGED <<entryRow, inserted, EntryRows!ownerVars, deleted>>,
         UNCHANGED looked \/ EntryRows!Looks(i) \/ EntryRows!Forgets(i),
         fields.outcome = "none",
         fields.at \in Holding => fields.e \in EntryRows!Row,
         ~deleted /\ fields.at \in Holding /\ fields.e.pk # None =>
           entryRow # None /\ entryRow.pk = fields.e.pk,
         ~deleted /\ fields.at = "again" => entryRow # None,
         ~deleted /\ fields.at = "rewrite" => fields.e.pk # None,
         fields.at \in Holding /\ fields.e.pk # None =>
           /\ looked'[i] # None
           /\ ~looked'[i].protected
           /\ ~fields.force /\ fields.fresh # None => looked'[i].updated < fields.fresh
  PROVE  StoreInv'
<1>1. /\ import' \in [Imports -> ImportRecords]
      /\ import'[i] = fields
      /\ \A j \in Imports : j # i => import'[j] = import[j]
  BY OneImport DEF StoreInv
<1>2. /\ looked' \in [Imports -> EntryRows!Row \cup {None}]
      /\ \A j \in Imports : j # i => looked'[j] = looked[j]
  BY OneLook, StoreShape DEF StoreInv
<1>3. EntryRows!TypeOK'
  BY <1>1, <1>2, StoreShape DEF StoreInv, EntryRows!TypeOK, EntryRows!ownerVars,
     ImportRecords, ImportSteps, ImportOutcomes
<1>4. WellFormed'
  BY <1>1 DEF StoreInv, WellFormed, EntryRows!ownerVars
<1>5. HeldIsStored'
  BY <1>1 DEF StoreInv, HeldIsStored, EntryRows!ownerVars
<1>6. LookedByRules'
  BY <1>1, <1>2 DEF StoreInv, LookedByRules
<1> QED
  BY <1>3, <1>4, <1>5, <1>6 DEF StoreInv

LEMMA ResolveStep ==
  ASSUME StoreBounded, StoreInv, NEW i \in Imports, EntryRows!Resolve(i)
  PROVE  StoreInv'
<1> PICK fresh \in EntryRows!Freshness, force \in BOOLEAN :
      LET it == [import[i] EXCEPT !.fresh = fresh, !.force = force]
      IN  IF EntryRows!Skipped(fresh, force)
          THEN EntryRows!Moves(i, [EntryRows!IdleImport EXCEPT !.at = "done", !.outcome = "skipped"])
          ELSE EntryRows!Moves(i, [it EXCEPT
                 !.at = "build", !.e = IF entryRow = None THEN EntryRows!NewEntry ELSE entryRow])
  BY DEF EntryRows!Resolve
<1>1. EntryRows!Looks(i)
        /\ UNCHANGED <<entryRow, inserted, EntryRows!ownerVars, deleted>> /\ import[i].at = "idle"
  BY DEF EntryRows!Resolve
<1>2. CASE EntryRows!Skipped(fresh, force)
  <2>1. EntryRows!Ends(i, "skipped")
    BY <1>2 DEF EntryRows!Ends
  <2> QED
    BY <1>1, <2>1, EndStep DEF ImportOutcomes
<1>3. CASE ~EntryRows!Skipped(fresh, force)
  <2> DEFINE fields == [[import[i] EXCEPT !.fresh = fresh, !.force = force]
                          EXCEPT !.at = "build",
                                 !.e = IF entryRow = None THEN EntryRows!NewEntry ELSE entryRow]
  <2>1. import[i] \in ImportRecords /\ import[i].outcome = "none"
    BY <1>1, StoreShape DEF StoreInv, WellFormed
  <2>2. (IF entryRow = None THEN EntryRows!NewEntry ELSE entryRow) \in EntryRows!Row
    BY NewEntryIsRow, StoreShape DEF StoreInv
  <2>3. fields \in ImportRecords
    BY <2>1, <2>2 DEF ImportRecords, ImportSteps
  <2>4. /\ fields.at = "build" /\ fields.fresh = fresh /\ fields.force = force
        /\ fields.outcome = "none"
             /\ fields.e = IF entryRow = None THEN EntryRows!NewEntry ELSE entryRow
    BY <2>1 DEF ImportRecords
  <2>5. EntryRows!Moves(i, fields)
    BY <1>3
  <2> HIDE DEF fields
  <2>6. looked'[i] = entryRow
    BY <1>1, OneLook DEF StoreInv
  <2>7. fields.e.pk # None =>
          /\ entryRow # None /\ ~entryRow.protected /\ entryRow.pk = fields.e.pk
          /\ ~force /\ fresh # None => entryRow.updated < fresh
    <3>1. fields.e.pk # None => entryRow # None /\ entryRow \in EntryRows!Row
            /\ fields.e = entryRow
      BY <2>4, NewEntryIsRow, StoreShape DEF StoreInv
    <3>2. entryRow # None => ~entryRow.protected /\ (~force /\ fresh # None
            => ~(fresh <= entryRow.updated))
      BY <1>3 DEF EntryRows!Skipped
    <3>3. entryRow # None => entryRow.updated \in Nat
      BY StoreShape DEF StoreInv, EntryRows!Row, StoreBounded
    <3>4. fresh # None => fresh \in Nat
      BY DEF EntryRows!Freshness, StoreBounded
    <3> QED
      BY <3>1, <3>2, <3>3, <3>4
  <2> QED
    BY <1>1, <2>2, <2>3, <2>4, <2>5, <2>6, <2>7, MoveStep DEF Holding
<1> QED
  BY <1>2, <1>3

LEMMA BuildStep ==
  ASSUME StoreBounded, StoreInv, NEW i \in Imports, EntryRows!Build(i)
  PROVE  StoreInv'
<1>1. import[i].at = "build"
        /\ UNCHANGED <<entryRow, inserted, looked, EntryRows!ownerVars, deleted>>
  BY DEF EntryRows!Build
<1>2. import[i] \in ImportRecords /\ import[i].outcome = "none"
        /\ import[i].e \in EntryRows!Row /\ import[i].fresh \in EntryRows!Freshness
  BY <1>1, StoreShape DEF StoreInv, WellFormed, Holding, ImportRecords
<1>3. CASE EntryRows!Moves(i, EntryRows!IdleImport)
  <2>1. EntryRows!IdleImport \in ImportRecords /\ EntryRows!IdleImport.at = "idle"
          /\ EntryRows!IdleImport.outcome = "none"
    BY DEF EntryRows!IdleImport, ImportRecords, ImportSteps, ImportOutcomes, EntryRows!Freshness
  <2> QED
    BY <1>1, <1>3, <2>1, MoveStep DEF Holding
<1>4. CASE EntryRows!Moves(i, [import[i] EXCEPT
               !.at = "write", !.e = EntryRows!assigned_fields(@, import[i].fresh)])
  <2> DEFINE e == EntryRows!assigned_fields(import[i].e, import[i].fresh)
             fields == [import[i] EXCEPT !.at = "write", !.e = e]
  <2>1. e \in EntryRows!Row /\ e.pk = import[i].e.pk
    BY <1>2, AssignedFields
  <2> HIDE DEF e
  <2>2. fields \in ImportRecords
    BY <1>2, <2>1 DEF ImportRecords, ImportSteps
  <2>3. /\ fields.at = "write" /\ fields.e = e /\ fields.outcome = "none"
        /\ fields.fresh = import[i].fresh /\ fields.force = import[i].force
    BY <1>2 DEF ImportRecords
  <2>4. EntryRows!Moves(i, fields)
    BY <1>4, <1>2 DEF e, ImportRecords
  <2> HIDE DEF fields
  <2>5. e.pk # None =>
          /\ ~deleted => entryRow # None /\ entryRow.pk = e.pk
          /\ looked[i] # None /\ ~looked[i].protected
          /\ ~import[i].force /\ import[i].fresh # None => looked[i].updated < import[i].fresh
    BY <1>1, <2>1 DEF StoreInv, HeldIsStored, LookedByRules, Holding
  <2> QED
    BY <1>1, <2>1, <2>2, <2>3, <2>4, <2>5, MoveStep DEF Holding
<1> QED
  BY <1>3, <1>4 DEF EntryRows!Build

LEMMA WriteStep ==
  ASSUME StoreBounded, StoreInv, NEW i \in Imports, EntryRows!Write(i)
  PROVE  StoreInv'
<1>1. import[i].at = "write" /\ EntryRows!Forgets(i)
        /\ UNCHANGED <<EntryRows!ownerVars, deleted>>
  BY DEF EntryRows!Write
<1>2. import[i] \in ImportRecords /\ import[i].outcome = "none" /\ import[i].e \in EntryRows!Row
  BY <1>1, StoreShape DEF StoreInv, WellFormed, Holding, ImportRecords
<1>3. CASE EntryRows!Save(import[i].e) /\ EntryRows!Ends(i, EntryRows!Outcome(import[i].e))
  <2>1. EntryRows!Outcome(import[i].e) \in ImportOutcomes
          /\ EntryRows!Outcome(import[i].e) # "failed"
    BY DEF EntryRows!Outcome, ImportOutcomes
  <2>2. /\ entryRow' \in EntryRows!Row /\ entryRow'.pk # None /\ inserted' \in 0..MaxRows
        /\ entryRow # None => entryRow'.pk = entryRow.pk
    BY <1>2, <1>3, SaveKeeps DEF StoreInv, WellFormed
  <2> QED
    BY <1>1, <1>3, <2>1, <2>2, EndStep
<1>4. CASE EntryRows!Clashes(import[i].e) /\ EntryRows!Clashed(i)
             /\ UNCHANGED <<entryRow, inserted>>
  <2>1. CASE import[i].e.pk # None
    <3>1. deleted
      BY <1>1, <1>4, <2>1, StoreShape DEF StoreInv, HeldIsStored, Holding, EntryRows!Clashes
    <3> QED
      BY <1>1, <1>4, <2>1, <3>1, EndStep DEF EntryRows!Clashed, ImportOutcomes
  <2>2. CASE import[i].e.pk = None
    <3> DEFINE fields == [import[i] EXCEPT !.at = "again"]
    <3>1. fields \in ImportRecords /\ fields.at = "again" /\ fields.outcome = "none"
      BY <1>2 DEF ImportRecords, ImportSteps
    <3>2. EntryRows!Moves(i, fields)
      BY <1>4, <2>2 DEF EntryRows!Clashed
    <3> HIDE DEF fields
    <3>3. entryRow # None
      BY <1>4 DEF EntryRows!Clashes
    <3> QED
      BY <1>1, <1>4, <3>1, <3>2, <3>3, MoveStep DEF Holding
  <2> QED
    BY <2>1, <2>2
<1> QED
  BY <1>3, <1>4 DEF EntryRows!Write

LEMMA ResolveAgainStep ==
  ASSUME StoreBounded, StoreInv, NEW i \in Imports, EntryRows!ResolveAgain(i)
  PROVE  StoreInv'
<1>1. import[i].at = "again" /\ EntryRows!Looks(i)
        /\ UNCHANGED <<entryRow, inserted, EntryRows!ownerVars, deleted>>
  BY DEF EntryRows!ResolveAgain
<1>2. import[i] \in ImportRecords /\ import[i].outcome = "none"
        /\ import[i].fresh \in EntryRows!Freshness
  BY <1>1, StoreShape DEF StoreInv, WellFormed, ImportRecords
<1>3. CASE EntryRows!SkippedAgain(i)
  BY <1>1, <1>3, EndStep DEF EntryRows!ResolveAgain, ImportOutcomes
<1>4. CASE ~EntryRows!SkippedAgain(i)
  <2> DEFINE found == IF entryRow = None THEN EntryRows!NewEntry ELSE entryRow
             e == EntryRows!assigned_fields(found, import[i].fresh)
             fields == [import[i] EXCEPT !.at = "rewrite", !.e = e]
  <2>1. found \in EntryRows!Row
    BY NewEntryIsRow, StoreShape DEF StoreInv
  <2>2. e \in EntryRows!Row /\ e.pk = found.pk
    BY <1>2, <2>1, AssignedFields
  <2>3. entryRow = None => found.pk = None
    BY NewEntryIsRow
  <2>4. entryRow # None => found = entryRow
    OBVIOUS
  <2>5. EntryRows!Moves(i, fields)
    BY <1>4 DEF EntryRows!ResolveAgain
  <2> HIDE DEF found, e
  <2>6. fields \in ImportRecords
    BY <1>2, <2>2 DEF ImportRecords, ImportSteps
  <2>7. /\ fields.at = "rewrite" /\ fields.e = e /\ fields.outcome = "none"
        /\ fields.fresh = import[i].fresh /\ fields.force = import[i].force
    BY <1>2 DEF ImportRecords
  <2> HIDE DEF fields
  <2>8. looked'[i] = entryRow
    BY <1>1, OneLook DEF StoreInv
  <2>9. e.pk # None =>
          /\ entryRow # None /\ ~entryRow.protected /\ entryRow.pk = e.pk
          /\ ~import[i].force /\ import[i].fresh # None => entryRow.updated < import[i].fresh
    <3>1. e.pk # None => entryRow # None /\ entryRow \in EntryRows!Row /\ entryRow.pk = e.pk
      BY <2>2, <2>3, <2>4, StoreShape DEF StoreInv
    <3>2. entryRow # None => /\ ~entryRow.protected
                             /\ ~import[i].force /\ import[i].fresh # None
                                  => ~(import[i].fresh <= entryRow.updated)
      BY <1>4 DEF EntryRows!SkippedAgain, EntryRows!Skipped
    <3>3. entryRow # None => entryRow.updated \in Nat
      BY StoreShape DEF StoreInv, EntryRows!Row, StoreBounded
    <3>4. import[i].fresh # None => import[i].fresh \in Nat
      BY <1>2 DEF EntryRows!Freshness, StoreBounded
    <3> QED
      BY <3>1, <3>2, <3>3, <3>4
  <2>10. ~deleted => e.pk # None
    BY <1>1, <2>2, <2>4 DEF StoreInv, HeldIsStored, WellFormed
  <2> QED
    BY <1>1, <2>2, <2>5, <2>6, <2>7, <2>8, <2>9, <2>10, MoveStep DEF Holding
<1> QED
  BY <1>3, <1>4

LEMMA RewriteStep ==
  ASSUME StoreBounded, StoreInv, NEW i \in Imports, EntryRows!Rewrite(i)
  PROVE  StoreInv'
<1>1. import[i].at = "rewrite" /\ EntryRows!Forgets(i)
        /\ UNCHANGED <<EntryRows!ownerVars, deleted>>
  BY DEF EntryRows!Rewrite
<1>2. import[i].e \in EntryRows!Row
  BY <1>1 DEF StoreInv, WellFormed, Holding
<1>3. CASE EntryRows!Save(import[i].e) /\ EntryRows!Ends(i, EntryRows!Outcome(import[i].e))
  <2>1. EntryRows!Outcome(import[i].e) \in ImportOutcomes
          /\ EntryRows!Outcome(import[i].e) # "failed"
    BY DEF EntryRows!Outcome, ImportOutcomes
  <2>2. /\ entryRow' \in EntryRows!Row /\ entryRow'.pk # None /\ inserted' \in 0..MaxRows
        /\ entryRow # None => entryRow'.pk = entryRow.pk
    BY <1>2, <1>3, SaveKeeps DEF StoreInv, WellFormed
  <2> QED
    BY <1>1, <1>3, <2>1, <2>2, EndStep
<1>4. CASE EntryRows!Clashes(import[i].e) /\ EntryRows!Ends(i, "failed")
             /\ UNCHANGED <<entryRow, inserted>>
  <2>1. deleted
    BY <1>1, <1>4, StoreShape DEF StoreInv, HeldIsStored, Holding, EntryRows!Clashes
  <2> QED
    BY <1>1, <1>4, <2>1, EndStep DEF ImportOutcomes
<1> QED
  BY <1>3, <1>4 DEF EntryRows!Rewrite

\* The owner's commands and the deletion leave the imports alone; the row keeps
\* its key until it is deleted.
LEMMA RowStep ==
  ASSUME StoreBounded, StoreInv, UNCHANGED EntryRows!importVars,
         entryRow' \in EntryRows!Row \cup {None}, entryRow' # None
           => entryRow'.pk # None, inserted' \in 0..MaxRows,
         favorite' \in BOOLEAN, deleted' \in BOOLEAN, deleted => deleted',
         favoriting' \in [at : {"idle", "download"}, e : EntryRows!Row \cup {None}],
         favoriting'.at = "download" =>
           /\ favoriting'.e \in EntryRows!Row /\ favoriting'.e.pk # None
           /\ ~deleted' => entryRow' # None /\ entryRow'.pk = favoriting'.e.pk,
         ~deleted' /\ entryRow # None => entryRow' # None /\ entryRow'.pk = entryRow.pk
  PROVE  StoreInv'
<1>1. EntryRows!TypeOK'
  BY StoreShape DEF StoreInv, EntryRows!TypeOK, EntryRows!importVars, ImportRecords,
     ImportSteps, ImportOutcomes
<1>2. WellFormed'
  BY DEF StoreInv, WellFormed, EntryRows!importVars
<1>3. HeldIsStored'
  BY DEF StoreInv, HeldIsStored, EntryRows!importVars
<1>4. LookedByRules'
  BY DEF StoreInv, LookedByRules, EntryRows!importVars
<1> QED
  BY <1>1, <1>2, <1>3, <1>4 DEF StoreInv

LEMMA OwnerStep ==
  ASSUME StoreBounded, StoreInv,
           \/ EntryRows!_cmd_hide \/ EntryRows!_cmd_unhide \/ EntryRows!Protect
           \/ EntryRows!Favorites \/ EntryRows!DeleteOld
  PROVE  StoreInv'
<1> USE StoreShape DEF StoreInv
<1>1. CASE EntryRows!_cmd_hide \/ EntryRows!_cmd_unhide \/ EntryRows!Protect
  <2>1. UNCHANGED <<inserted, EntryRows!ownerVars, EntryRows!importVars, deleted>>
          /\ entryRow # None /\ entryRow \in EntryRows!Row
    BY <1>1 DEF EntryRows!_cmd_hide, EntryRows!_cmd_unhide, EntryRows!Protect, EntryRows!Updates
  <2>2. entryRow' \in EntryRows!Row /\ entryRow'.pk = entryRow.pk
    BY <1>1, <2>1 DEF EntryRows!_cmd_hide, EntryRows!_cmd_unhide, EntryRows!Protect,
       EntryRows!Updates, EntryRows!Row
  <2> QED
    BY <2>1, <2>2, RowStep DEF EntryRows!ownerVars, WellFormed, HeldIsStored, StoreBounded
<1>2. CASE EntryRows!Favorites /\ EntryRows!_cmd_unfavorite
  BY <1>2, RowStep DEF EntryRows!Favorites, EntryRows!_cmd_unfavorite, WellFormed, HeldIsStored
<1>3. CASE EntryRows!Favorites /\ EntryRows!_cmd_favorite /\ favoriting.at = "idle"
  <2>1. /\ entryRow # None /\ entryRow \in EntryRows!Row
             /\ favoriting' = [at |-> "download", e |-> entryRow]
        /\ favorite' = TRUE /\ UNCHANGED <<entryRow, inserted, EntryRows!importVars, deleted>>
    BY <1>3 DEF EntryRows!Favorites, EntryRows!_cmd_favorite
  <2>2. favoriting' \in [at : {"idle", "download"}, e : EntryRows!Row \cup {None}]
          /\ favoriting'.e = entryRow
    BY <2>1
  <2> QED
    BY <2>1, <2>2, RowStep DEF WellFormed
<1>4. CASE EntryRows!Favorites /\ EntryRows!_cmd_favorite /\ favoriting.at = "download"
  <2>1. /\ favoriting' = [at |-> "idle", e |-> None]
        /\ UNCHANGED <<EntryRows!importVars, deleted, favorite>>
        /\ EntryRows!Save(favoriting.e) \/ UNCHANGED <<entryRow, inserted>>
    BY <1>4 DEF EntryRows!Favorites, EntryRows!_cmd_favorite
  <2>2. favoriting' \in [at : {"idle", "download"}, e : EntryRows!Row \cup {None}]
          /\ favoriting'.at = "idle"
    BY <2>1
  <2>3. CASE EntryRows!Save(favoriting.e)
    <3>1. favoriting.e \in EntryRows!Row
      BY <1>4 DEF WellFormed
    <3>2. /\ entryRow' \in EntryRows!Row /\ entryRow'.pk # None /\ inserted' \in 0..MaxRows
          /\ entryRow # None => entryRow'.pk = entryRow.pk
      BY <2>3, <3>1, SaveKeeps DEF WellFormed
    <3> QED
      BY <2>1, <2>2, <3>2, RowStep DEF StoreBounded
  <2>4. CASE UNCHANGED <<entryRow, inserted>>
    BY <2>1, <2>2, <2>4, RowStep DEF WellFormed
  <2> QED
    BY <2>1, <2>3, <2>4
<1>5. CASE EntryRows!DeleteOld
  BY <1>5, RowStep DEF EntryRows!DeleteOld, EntryRows!ownerVars, WellFormed
<1>6. EntryRows!Favorites => /\ EntryRows!_cmd_favorite \/ EntryRows!_cmd_unfavorite
                             /\ favoriting.at = "idle" \/ favoriting.at = "download"
  BY DEF EntryRows!Favorites
<1> QED
  BY <1>1, <1>2, <1>3, <1>4, <1>5, <1>6

LEMMA StoreNextInv ==
  ASSUME StoreBounded, StoreInv, [EntryRows!Next]_(EntryRows!vars)
  PROVE  StoreInv'
<1>1. CASE EntryRows!Next
  BY <1>1, ResolveStep, BuildStep, WriteStep, ResolveAgainStep, RewriteStep, OwnerStep
     DEF EntryRows!Next
<1>2. CASE UNCHANGED EntryRows!vars
  BY <1>2, StoreShape DEF EntryRows!vars, EntryRows!ownerVars, EntryRows!importVars,
     StoreInv, EntryRows!TypeOK, WellFormed, HeldIsStored, LookedByRules,
                     ImportRecords, ImportSteps, ImportOutcomes
<1> QED
  BY <1>1, <1>2

-----------------------------------------------------------------------------
(* Posts and reshares of one second (apis/selfposts.py).                   *)

PostRecords == [at : Sharing!Steps, service : Classes, held : Classes, n : 1..(MaxPerSecond + 1),
         draft : BOOLEAN, reshare : BOOLEAN]

PostsBounded == MaxPerSecond \in Nat /\ MaxEdits \in Nat /\ IsFiniteSet(Posts)

\* Whose guid the table would refuse to another post.
Holds(p) == p \in storedPosts \/ post[p].at = "register"

\* Which posts have a row; a reshare has none before its transaction ends, and
\* stays no draft until it is announced.
StoredByStep ==
  \A p \in Posts :
    /\ p \in storedPosts <=> post[p].at \in {"uploads", "publish", "shared"}
    /\ post[p].reshare => post[p].at # "uploads"
    /\ post[p].reshare /\ post[p].at \in {"insert", "register", "publish"} => ~post[p].draft
    /\ post[p].reshare /\ post[p].at = "shared" => p \in requests
    /\ p \in requests => p \in storedPosts

HoldersDiffer ==
  \A p, q \in Posts : p # q /\ Holds(p) /\ Holds(q) => Sharing!Guid(p) # Sharing!Guid(q)

\* Each number that a post passed over is a stored post's.
PassedAreTaken ==
  \A p \in Posts :
    /\ \A n \in 1..(post[p].n - 1) : \E q \in storedPosts : post[q].n = n
    /\ post[p].at = "lost" => post[p].n = MaxPerSecond + 1

PostsInv == Sharing!TypeOK /\ StoredByStep /\ HoldersDiffer /\ PassedAreTaken

-----------------------------------------------------------------------------
LEMMA PostsInitInv == ASSUME PostsBounded, Sharing!Init PROVE PostsInv
<1> DEFINE Idle == {[at |-> "idle", service |-> c, held |-> c, n |-> 1, draft |-> d, reshare |-> r] :
                      c \in Classes, d \in BOOLEAN, r \in BOOLEAN}
<1>1. post \in [Posts -> Idle] /\ storedPosts = {} /\ requests = {} /\ postEdits = 0
  BY DEF Sharing!Init
<1>2. postEdits \in 0..MaxEdits
  BY <1>1 DEF PostsBounded
<1>3. \A i \in Idle : i \in PostRecords /\ i.at = "idle" /\ i.n = 1
  BY DEF PostRecords, Sharing!Steps, PostsBounded
<1>4. \A p \in Posts : post[p] \in PostRecords /\ post[p].at = "idle" /\ post[p].n = 1
  BY <1>1, <1>3
<1>5. Sharing!TypeOK
  BY <1>1, <1>2, <1>4 DEF Sharing!TypeOK, PostRecords
<1>6. StoredByStep /\ HoldersDiffer
  BY <1>1, <1>4 DEF StoredByStep, HoldersDiffer, Holds
<1>7. PassedAreTaken
  BY <1>4 DEF PassedAreTaken
<1> QED
  BY <1>5, <1>6, <1>7 DEF PostsInv

\* A step of one post leaves the others as they are.
LEMMA OnePost ==
  ASSUME Sharing!TypeOK, NEW p \in Posts, NEW fields \in PostRecords,
           post' = [post EXCEPT ![p] = fields]
  PROVE  /\ post' \in [Posts -> PostRecords] /\ post'[p] = fields
         /\ \A q \in Posts : q # p => post'[q] = post[q]
BY DEF Sharing!TypeOK, PostRecords

LEMMA OneMove ==
  ASSUME Sharing!TypeOK, NEW p \in Posts, NEW step \in Sharing!Steps, Sharing!Moves(p, step)
  PROVE  /\ post' \in [Posts -> PostRecords] /\ post'[p] = [post[p] EXCEPT !.at = step]
         /\ post'[p].at = step /\ post'[p].service = post[p].service
         /\ post'[p].n = post[p].n /\ post'[p].held = post[p].held
         /\ post'[p].draft = post[p].draft /\ post'[p].reshare = post[p].reshare
         /\ \A q \in Posts : q # p => post'[q] = post[q]
<1>1. post[p] \in PostRecords
  BY DEF Sharing!TypeOK, PostRecords
<1>2. [post[p] EXCEPT !.at = step] \in PostRecords
  BY <1>1 DEF PostRecords
<1>3. post' = [post EXCEPT ![p] = [post[p] EXCEPT !.at = step]]
  BY DEF Sharing!Moves
<1> QED
  BY <1>1, <1>2, <1>3, OnePost DEF PostRecords

\* What a step must keep, for the post that takes it.
LEMMA StepKeeps ==
  ASSUME PostsBounded, PostsInv, NEW p \in Posts, post' \in [Posts -> PostRecords],
         \A q \in Posts : q # p => post'[q] = post[q],
         \A q \in Posts : q # p => (q \in storedPosts' <=> q \in storedPosts)
           /\ (q \in requests' <=> q \in requests),
         storedPosts \subseteq storedPosts', storedPosts' \subseteq Posts, requests' \subseteq Posts,
         postEdits' \in 0..MaxEdits,
         /\ p \in storedPosts' <=> post'[p].at \in {"uploads", "publish", "shared"}
         /\ post'[p].reshare => post'[p].at # "uploads"
         /\ post'[p].reshare /\ post'[p].at \in {"insert", "register", "publish"}
              => ~post'[p].draft
         /\ post'[p].reshare /\ post'[p].at = "shared" => p \in requests'
         /\ p \in requests' => p \in storedPosts',
         p \in storedPosts => post'[p].n = post[p].n,
         Holds(p)' => \A q \in Posts : q # p /\ Holds(q) =>
                        Sharing!Guid(q) # <<post'[p].service, post'[p].n>>,
         \A n \in 1..(post'[p].n - 1) : \E q \in storedPosts : post[q].n = n,
         post'[p].at = "lost" => post'[p].n = MaxPerSecond + 1
  PROVE  PostsInv'
<1>1. Sharing!TypeOK'
  BY DEF Sharing!TypeOK, PostRecords
<1>2. StoredByStep'
  BY DEF PostsInv, StoredByStep
<1>3. HoldersDiffer'
  <2> SUFFICES ASSUME NEW r \in Posts, NEW s \in Posts, r # s, Holds(r)', Holds(s)'
               PROVE  Sharing!Guid(r)' # Sharing!Guid(s)'
    BY DEF HoldersDiffer
  <2>1. \A q \in Posts : q # p => (Holds(q)' <=> Holds(q)) /\ Sharing!Guid(q)' = Sharing!Guid(q)
    BY DEF Holds, Sharing!Guid
  <2>2. Sharing!Guid(p)' = <<post'[p].service, post'[p].n>>
    BY DEF Sharing!Guid
  <2> QED
    BY <2>1, <2>2 DEF PostsInv, HoldersDiffer
<1>4. PassedAreTaken'
  <2>1. \A q \in storedPosts : q \in storedPosts' /\ post'[q].n = post[q].n
    BY DEF PostsInv, Sharing!TypeOK
  <2>2. \A q \in Posts : \A n \in 1..(post'[q].n - 1) : \E r \in storedPosts : post[r].n = n
    BY DEF PostsInv, PassedAreTaken
  <2> QED
    BY <2>1, <2>2 DEF PostsInv, PassedAreTaken
<1> QED
  BY <1>1, <1>2, <1>3, <1>4 DEF PostsInv

-----------------------------------------------------------------------------
(* Each action. *)

\* A post that moves on under its guid, stored or not as before.
LEMMA MovesOn ==
  ASSUME PostsBounded, PostsInv, NEW p \in Posts, NEW step \in Sharing!Steps \ {"lost",
           "register"}, Sharing!Moves(p, step),
         UNCHANGED <<storedPosts, postEdits>>, requests' = requests
           \/ requests' = requests \cup {p},
         p \in storedPosts <=> step \in {"uploads", "publish", "shared"},
         post[p].reshare => step # "uploads",
         post[p].reshare /\ step \in {"insert", "publish"} => ~post[p].draft,
         post[p].reshare /\ step = "shared" => p \in requests',
         p \in requests' => p \in storedPosts
  PROVE  PostsInv'
<1>1. /\ post' \in [Posts -> PostRecords]
      /\ post'[p].at = step /\ post'[p].service = post[p].service
      /\ post'[p].n = post[p].n
      /\ post'[p].draft = post[p].draft /\ post'[p].reshare = post[p].reshare
      /\ \A q \in Posts : q # p => post'[q] = post[q]
  BY OneMove DEF PostsInv
<1>2. Holds(p)' => \A q \in Posts : q # p /\ Holds(q)
        => Sharing!Guid(q) # <<post'[p].service, post'[p].n>>
  BY <1>1 DEF PostsInv, HoldersDiffer, Holds, Sharing!Guid
<1>3. \A n \in 1..(post'[p].n - 1) : \E q \in storedPosts : post[q].n = n
  BY <1>1 DEF PostsInv, PassedAreTaken
<1>4. postEdits' \in 0..MaxEdits /\ storedPosts' \subseteq Posts
        /\ requests' \subseteq Posts /\ storedPosts \subseteq storedPosts'
  BY DEF PostsInv, Sharing!TypeOK
<1> QED
  BY <1>1, <1>2, <1>3, <1>4, StepKeeps

LEMMA PostBuildStep ==
  ASSUME PostsBounded, PostsInv, NEW p \in Posts, Sharing!build(p)
  PROVE  PostsInv'
<1>1. p \notin storedPosts /\ p \notin requests
  BY DEF Sharing!build, PostsInv, StoredByStep
<1> QED
  BY <1>1, MovesOn DEF Sharing!build, Sharing!Steps

LEMMA PostInsertStep ==
  ASSUME PostsBounded, PostsInv, NEW p \in Posts, Sharing!_insert(p)
  PROVE  PostsInv'
<1>1. /\ post[p].at = "insert" /\ ~Sharing!MustWait(p) /\ UNCHANGED <<requests, postEdits>>
      /\ p \notin storedPosts /\ p \notin requests
      /\ post[p].reshare => ~post[p].draft
      /\ postEdits' \in 0..MaxEdits /\ requests' \subseteq Posts /\ storedPosts \subseteq Posts
  BY DEF Sharing!_insert, PostsInv, StoredByStep, Sharing!TypeOK
<1>2. post[p] \in PostRecords /\ post[p].n \in 1..(MaxPerSecond + 1)
  BY DEF PostsInv, Sharing!TypeOK, PostRecords
<1>3. \A n \in 1..(post[p].n - 1) : \E q \in storedPosts : post[q].n = n
  BY DEF PostsInv, PassedAreTaken
<1>4. CASE Sharing!MayTry(p) /\ ~Sharing!Taken(p)
           /\ IF post[p].reshare
              THEN Sharing!Moves(p, "register") /\ UNCHANGED storedPosts
              ELSE Sharing!Moves(p, "uploads") /\ storedPosts' = storedPosts \cup {p}
  <2>1. \A q \in Posts : q # p /\ Holds(q) => Sharing!Guid(q) # <<post[p].service, post[p].n>>
    BY <1>1, <1>4 DEF Sharing!MustWait, Sharing!Taken, Sharing!Takers, Holds, Sharing!Guid
  <2>2. PICK step \in {"register", "uploads"} :
          /\ Sharing!Moves(p, step) /\ (step = "register" <=> post[p].reshare)
          /\ storedPosts' = IF step = "uploads" THEN storedPosts \cup {p} ELSE storedPosts
    BY <1>4
  <2>3. /\ post' \in [Posts -> PostRecords]
        /\ post'[p].at = step /\ post'[p].service = post[p].service
        /\ post'[p].n = post[p].n
        /\ post'[p].draft = post[p].draft /\ post'[p].reshare = post[p].reshare
        /\ \A q \in Posts : q # p => post'[q] = post[q]
    BY <2>2, OneMove DEF PostsInv, Sharing!Steps
  <2> QED
    BY <1>1, <1>3, <2>1, <2>2, <2>3, StepKeeps
<1>5. CASE Sharing!MayTry(p) /\ Sharing!Taken(p) /\ post' = [post EXCEPT ![p].n = @ + 1]
             /\ UNCHANGED storedPosts
  <2> DEFINE fields == [post[p] EXCEPT !.n = post[p].n + 1]
  <2>1. fields \in PostRecords
    BY <1>2, <1>5 DEF Sharing!MayTry, PostRecords, PostsBounded
  <2>2. /\ post' \in [Posts -> PostRecords] /\ post'[p] = fields
        /\ \A q \in Posts : q # p => post'[q] = post[q]
    BY <1>5, <2>1, OnePost DEF PostsInv
  <2>3. /\ fields.at = "insert" /\ fields.n = post[p].n + 1
        /\ fields.reshare = post[p].reshare /\ fields.draft = post[p].draft
    BY <1>1, <1>2 DEF PostRecords
  <2> HIDE DEF fields
  <2>4. \E q \in storedPosts : post[q].n = post[p].n
    BY <1>5 DEF Sharing!Taken, Sharing!Takers, Sharing!Guid
  <2>5. \A n \in 1..(post'[p].n - 1) : \E q \in storedPosts : post[q].n = n
    BY <1>2, <1>3, <2>2, <2>3, <2>4 DEF PostsBounded
  <2>6. ~Holds(p)'
    BY <1>1, <1>5, <2>2, <2>3 DEF Holds
  <2> QED
    BY <1>1, <1>5, <2>2, <2>3, <2>5, <2>6, StepKeeps
<1>6. CASE ~Sharing!MayTry(p) /\ Sharing!Moves(p, "lost") /\ UNCHANGED storedPosts
  <2>1. /\ post' \in [Posts -> PostRecords]
        /\ post'[p].at = "lost" /\ post'[p].n = post[p].n
        /\ \A q \in Posts : q # p => post'[q] = post[q]
    BY <1>6, OneMove DEF PostsInv, Sharing!Steps
  <2>2. post'[p].n = MaxPerSecond + 1
    BY <1>2, <1>6, <2>1 DEF Sharing!MayTry, PostsBounded
  <2>3. ~Holds(p)'
    BY <1>1, <1>6, <2>1 DEF Holds
  <2> QED
    BY <1>1, <1>3, <1>6, <2>1, <2>2, <2>3, StepKeeps
<1> QED
  BY <1>4, <1>5, <1>6 DEF Sharing!_insert

\* A post that is stored moves to a service where its guid is free.
LEMMA ServiceStep ==
  ASSUME PostsBounded, PostsInv, NEW p \in Posts, p \in storedPosts, NEW fields \in PostRecords,
         post' = [post EXCEPT ![p] = fields], Sharing!MayMove(p, fields.service),
         fields.at \in {"uploads", "publish", "shared"}, fields.n = post[p].n,
         fields.reshare = post[p].reshare,
         fields.reshare => fields.at = "shared" /\ post[p].at = "shared",
         UNCHANGED <<storedPosts, requests>>, postEdits' \in 0..MaxEdits
  PROVE  PostsInv'
<1>1. /\ post' \in [Posts -> PostRecords] /\ post'[p] = fields
      /\ \A q \in Posts : q # p => post'[q] = post[q]
  BY OnePost DEF PostsInv
<1>2. \A q \in Posts : q # p /\ Holds(q) => Sharing!Guid(q) # <<fields.service, fields.n>>
  BY DEF Sharing!MayMove, Holds
<1>3. \A n \in 1..(post[p].n - 1) : \E q \in storedPosts : post[q].n = n
  BY DEF PostsInv, PassedAreTaken
<1>4. fields.reshare => p \in requests
  BY DEF PostsInv, StoredByStep
<1>5. storedPosts' \subseteq Posts /\ requests' \subseteq Posts
        /\ storedPosts \subseteq storedPosts'
  BY DEF PostsInv, Sharing!TypeOK
<1> QED
  BY <1>1, <1>2, <1>3, <1>4, <1>5, StepKeeps

LEMMA StoreUploadsStep ==
  ASSUME PostsBounded, PostsInv, NEW p \in Posts, Sharing!StoreUploads(p)
  PROVE  PostsInv'
<1>1. p \in storedPosts /\ ~post[p].reshare /\ post[p] \in PostRecords
  BY DEF Sharing!StoreUploads, PostsInv, StoredByStep, Sharing!TypeOK, PostRecords
<1>2. CASE Sharing!Moves(p, "publish") \/ Sharing!Moves(p, "shared")
  BY <1>1, <1>2, MovesOn DEF Sharing!StoreUploads, Sharing!Steps
<1>3. CASE Sharing!_store_uploads(p)
  <2> DEFINE fields == [post[p] EXCEPT !.service = post[p].held, !.at = "publish"]
  <2>1. fields \in PostRecords /\ fields.service = post[p].held /\ fields.at = "publish"
        /\ fields.n = post[p].n /\ fields.reshare = post[p].reshare
    BY <1>1 DEF PostRecords, Sharing!Steps
  <2>2. post' = [post EXCEPT ![p] = fields]
    BY <1>3 DEF Sharing!_store_uploads, PostsInv, Sharing!TypeOK
  <2> HIDE DEF fields
  <2>3. Sharing!MayMove(p, fields.service)
          /\ UNCHANGED <<storedPosts, requests, postEdits>> /\ postEdits' \in 0..MaxEdits
    BY <1>3, <2>1 DEF Sharing!_store_uploads, Sharing!StoreUploads, PostsInv, Sharing!TypeOK
  <2> QED
    BY <1>1, <2>1, <2>2, <2>3, ServiceStep
<1> QED
  BY <1>2, <1>3 DEF Sharing!StoreUploads

LEMMA RegisterStep ==
  ASSUME PostsBounded, PostsInv, NEW p \in Posts, Sharing!Register(p)
  PROVE  PostsInv'
<1>1. /\ post[p].at = "register" /\ UNCHANGED <<requests, postEdits>>
      /\ p \notin storedPosts /\ p \notin requests /\ post[p] \in PostRecords
      /\ post[p].reshare => ~post[p].draft
      /\ postEdits' \in 0..MaxEdits /\ requests' \subseteq Posts /\ storedPosts \subseteq Posts
  BY DEF Sharing!Register, PostsInv, StoredByStep, Sharing!TypeOK, PostRecords
<1>2. CASE Sharing!Moves(p, "publish") /\ storedPosts' = storedPosts \cup {p}
  <2>1. /\ post' \in [Posts -> PostRecords]
        /\ post'[p].at = "publish" /\ post'[p].service = post[p].service
        /\ post'[p].n = post[p].n
        /\ post'[p].draft = post[p].draft /\ post'[p].reshare = post[p].reshare
        /\ \A q \in Posts : q # p => post'[q] = post[q]
    BY <1>2, OneMove DEF PostsInv, Sharing!Steps
  <2>2. \A q \in Posts : q # p /\ Holds(q) => Sharing!Guid(q) # <<post[p].service, post[p].n>>
    BY <1>1 DEF PostsInv, HoldersDiffer, Holds, Sharing!Guid
  <2>3. \A n \in 1..(post[p].n - 1) : \E q \in storedPosts : post[q].n = n
    BY DEF PostsInv, PassedAreTaken
  <2> QED
    BY <1>1, <1>2, <2>1, <2>2, <2>3, StepKeeps
<1>3. CASE post' = [post EXCEPT ![p].at = "idle", ![p].n = 1]
             /\ storedPosts' = Sharing!RolledBack(p)
  <2> DEFINE fields == [post[p] EXCEPT !.at = "idle", !.n = 1]
  <2>1. fields \in PostRecords /\ fields.at = "idle" /\ fields.n = 1
    <3>1. 1 \in 1..(MaxPerSecond + 1)
      BY DEF PostsBounded
    <3> QED
      BY <1>1, <3>1 DEF PostRecords, Sharing!Steps
  <2>2. post' = [post EXCEPT ![p] = fields]
    BY <1>3 DEF PostsInv, Sharing!TypeOK
  <2>3. /\ post' \in [Posts -> PostRecords] /\ post'[p] = fields
        /\ \A q \in Posts : q # p => post'[q] = post[q]
    BY <2>1, <2>2, OnePost DEF PostsInv
  <2> HIDE DEF fields
  <2>4. ~Holds(p)' /\ storedPosts' = storedPosts
    BY <1>1, <1>3, <2>1, <2>3 DEF Holds, Sharing!RolledBack
  <2> QED
    BY <1>1, <2>1, <2>3, <2>4, StepKeeps
<1> QED
  BY <1>2, <1>3 DEF Sharing!Register

LEMMA PublishStep ==
  ASSUME PostsBounded, PostsInv, NEW p \in Posts, Sharing!Publish(p)
  PROVE  PostsInv'
<1>1. p \in storedPosts /\ (post[p].reshare => ~post[p].draft)
  BY DEF Sharing!Publish, PostsInv, StoredByStep
<1>2. requests' = requests \/ requests' = requests \cup {p}
  BY DEF Sharing!Publish
<1>3. post[p].reshare => p \in requests'
  BY <1>1 DEF Sharing!Publish
<1> QED
  BY <1>1, <1>2, <1>3, MovesOn DEF Sharing!Publish, Sharing!Steps

LEMMA PutContentStep ==
  ASSUME PostsBounded, PostsInv, NEW p \in Posts, Sharing!_cmd_putcontent(p)
  PROVE  PostsInv'
<1>1. /\ p \in storedPosts /\ post[p].at \in {"shared", "uploads"} /\ post[p] \in PostRecords
      /\ post[p].reshare => post[p].at = "shared"
      /\ UNCHANGED <<storedPosts, requests>> /\ postEdits' \in 0..MaxEdits
  BY DEF Sharing!_cmd_putcontent, PostsInv, StoredByStep, Sharing!TypeOK, PostRecords,
     PostsBounded
<1>2. CASE \E c \in Sharing!class_service(p) :
             /\ Sharing!MayMove(p, c)
             /\ post' = [post EXCEPT ![p].service = c,
                                    ![p].held = IF post[p].at = "shared" THEN c ELSE @]
  <2> PICK c \in Sharing!class_service(p) :
        /\ Sharing!MayMove(p, c)
        /\ post' = [post EXCEPT ![p].service = c,
                               ![p].held = IF post[p].at = "shared" THEN c ELSE @]
    BY <1>2
  <2> DEFINE held == IF post[p].at = "shared" THEN c ELSE post[p].held
             fields == [post[p] EXCEPT !.service = c, !.held = held]
  <2>1. c \in Classes /\ held \in Classes
    BY <1>1 DEF Sharing!class_service, PostRecords
  <2>2. post' = [post EXCEPT ![p] = fields]
    BY DEF PostsInv, Sharing!TypeOK
  <2> HIDE DEF held
  <2>3. fields \in PostRecords /\ fields.service = c /\ fields.at = post[p].at
        /\ fields.n = post[p].n /\ fields.reshare = post[p].reshare
    BY <1>1, <2>1 DEF PostRecords
  <2> HIDE DEF fields
  <2> QED
    BY <1>1, <2>2, <2>3, ServiceStep
<1>3. CASE post[p].at = "shared" /\ post' = [post EXCEPT ![p].draft = ~@]
  <2> DEFINE fields == [post[p] EXCEPT !.draft = ~post[p].draft]
  <2>1. fields \in PostRecords /\ fields.service = post[p].service /\ fields.at = post[p].at
        /\ fields.n = post[p].n /\ fields.reshare = post[p].reshare
    BY <1>1 DEF PostRecords
  <2>2. post' = [post EXCEPT ![p] = fields]
    BY <1>3 DEF PostsInv, Sharing!TypeOK
  <2> HIDE DEF fields
  <2>3. Sharing!MayMove(p, post[p].service)
    BY <1>1 DEF PostsInv, HoldersDiffer, Holds, Sharing!MayMove, Sharing!Guid
  <2> QED
    BY <1>1, <1>3, <2>1, <2>2, <2>3, ServiceStep
<1> QED
  BY <1>2, <1>3 DEF Sharing!_cmd_putcontent

LEMMA PostsNextInv ==
  ASSUME PostsBounded, PostsInv, [Sharing!Next]_(Sharing!vars)
  PROVE  PostsInv'
<1>1. CASE Sharing!Next
  BY <1>1, PostBuildStep, PostInsertStep, StoreUploadsStep, RegisterStep, PublishStep,
     PutContentStep DEF Sharing!Next
<1>2. CASE UNCHANGED Sharing!vars
  BY <1>2 DEF Sharing!vars, PostsInv, Sharing!TypeOK, StoredByStep, HoldersDiffer,
     PassedAreTaken, Holds, Sharing!Guid
<1> QED
  BY <1>1, <1>2

-----------------------------------------------------------------------------
LEMMA SharingCardinality == ASSUME NEW S PROVE Sharing!Cardinality(S) = Cardinality(S)
BY DEF Sharing!Cardinality, Cardinality

\* A post that passed over every number did so past as many stored posts: each
\* has one number.
LEMMA LostInAFullSecond ==
  ASSUME PostsBounded, PostsInv, NEW p \in Posts, post[p].at = "lost"
  PROVE  Sharing!Cardinality(storedPosts) >= MaxPerSecond
<1>1. \A n \in 1..MaxPerSecond : \E q \in storedPosts : post[q].n = n
  BY DEF PostsInv, PassedAreTaken, PostsBounded
<1> DEFINE taker == [n \in 1..MaxPerSecond |-> CHOOSE q \in storedPosts : post[q].n = n]
<1>2. \A n \in 1..MaxPerSecond : taker[n] \in storedPosts /\ post[taker[n]].n = n
  BY <1>1
<1> HIDE DEF taker
<1>3. taker \in [1..MaxPerSecond -> storedPosts]
  BY <1>2 DEF taker
<1>4. taker \in Injection(1..MaxPerSecond, storedPosts)
  BY <1>2, <1>3 DEF Injection, IsInjective
<1>5. IsFiniteSet(storedPosts)
  BY FS_Subset DEF PostsInv, Sharing!TypeOK, PostsBounded
<1>6. Cardinality(1..MaxPerSecond) <= Sharing!Cardinality(storedPosts)
  BY <1>4, <1>5, FS_Injection, SharingCardinality
<1>7. Cardinality(1..MaxPerSecond) = MaxPerSecond
  BY FS_Interval DEF PostsBounded
<1>8. Sharing!Cardinality(storedPosts) \in Nat
  BY <1>5, FS_CardinalityType, SharingCardinality
<1> QED
  BY <1>6, <1>7, <1>8 DEF PostsBounded

-----------------------------------------------------------------------------
(* Reading page after page (stream/index_view.py, continuous.ts).          *)

\* Dates are numbers up to some date; None is no second.
StreamBounded ==
  /\ \E last \in Nat : EntryDates \subseteq 0..last
  /\ IsFiniteSet(StreamEntries)
  /\ PageSize \in Nat /\ Continuous \in Nat \ {0} /\ MaxChanges \in Nat
  /\ None \notin Nat

\* The entries a page may be sure of: newest first, a date with a fraction may
\* be lost (index_view.py:422).
Whole(e) == backtime => date[e] % 2 = 0

\* What was there all the time and is not in `shown` is on the pages from `start`.
Ahead(shown, start) ==
  \A e \in steady \ shown : Whole(e) => start # None /\ Stream!FromStart(e, start)

\* A page on its way is the one the link names, and keeps the page short.
OnItsWay ==
  /\ request.at \in {"sent", "answered"} => cursor # None /\ length < Continuous
  /\ request.at = "answered" =>
       Ahead(seen \cup request.entries, request.next)
         /\ Stream!Cardinality(request.entries) <= PageSize

StreamInv == Stream!TypeOK /\ Ahead(seen, cursor) /\ OnItsWay

-----------------------------------------------------------------------------
LEMMA StreamCardinality == ASSUME NEW S PROVE Stream!Cardinality(S) = Cardinality(S)
BY DEF Stream!Cardinality, Cardinality

\* Every set of numbers that holds one holds a least one.
LEMMA LeastExists ==
  ASSUME NEW S \in SUBSET Nat, S # {}
  PROVE  \E m \in S : \A n \in S : m <= n
<1> DEFINE R == {p \in Nat \X Nat : p[1] < p[2]}
<1>1. IsWellFoundedOn(R, Nat)
  BY NatLessThanWellFounded, Zenon DEF OpToRel
<1> HIDE DEF R
<1>2. PICK m \in S : \A n \in S : ~(<<n, m>> \in R)
  BY <1>1, WFMin, Zenon
<1>3. \A n \in S : ~(n < m)
  BY <1>2 DEF R
<1> QED
  BY <1>3

\* So a set of dates has a first and a last one.
LEMMA DatesHaveEnds ==
  ASSUME StreamBounded, NEW D \in SUBSET EntryDates, D # {}
  PROVE  \E a \in D, b \in D : \A d \in D : a <= d /\ d <= b
<1> PICK last \in Nat : EntryDates \subseteq 0..last
  BY DEF StreamBounded
<1>1. PICK a \in D : \A d \in D : a <= d
  BY LeastExists
<1> DEFINE Left == {last - d : d \in D}
<1>2. Left \in SUBSET Nat /\ Left # {}
  OBVIOUS
<1>3. PICK least \in Left : \A n \in Left : least <= n
  BY <1>2, LeastExists
<1>4. PICK b \in D : least = last - b
  BY <1>3
<1>5. \A d \in D : last - b <= last - d /\ d \in Nat
  BY <1>3, <1>4
<1>6. \A d \in D : d <= b
  BY <1>5
<1> QED
  BY <1>1, <1>6

LEMMA DatesAreNat == ASSUME StreamBounded PROVE EntryDates \subseteq Nat
BY DEF StreamBounded

LEMMA SecondIsNat ==
  ASSUME StreamBounded, NEW d \in EntryDates
  PROVE  /\ d \in Nat /\ Stream!Second(d) \in Nat /\ Stream!Second(d) \in Stream!Seconds
         /\ 2 * Stream!Second(d) <= d /\ d <= 2 * Stream!Second(d) + 1
         /\ d % 2 = 0 => d = 2 * Stream!Second(d)
<1>1. d \in Nat
  BY DEF StreamBounded
<1>2. d \div 2 \in Nat /\ 2 * (d \div 2) <= d /\ d <= 2 * (d \div 2) + 1 /\ (d % 2 = 0
        => d = 2 * (d \div 2))
  BY <1>1
<1> QED
  BY <1>1, <1>2 DEF Stream!Second, Stream!Seconds

LEMMA SecondsAreNat ==
  ASSUME StreamBounded
  PROVE  Stream!Seconds \subseteq Nat /\ None \notin Stream!Seconds
BY SecondIsNat DEF Stream!Seconds, StreamBounded

\* Among entries there is one that may come first.
LEMMA FirstExists ==
  ASSUME StreamBounded, date \in [StreamEntries -> EntryDates],
           NEW left \in SUBSET StreamEntries, left # {}
  PROVE  \E e \in left : \A f \in left : Stream!Before(e, f)
<1> DEFINE D == {date[e] : e \in left}
<1>1. D \in SUBSET EntryDates /\ D # {}
  OBVIOUS
<1>2. PICK a \in D, b \in D : \A d \in D : a <= d /\ d <= b
  BY <1>1, DatesHaveEnds
<1>3. PICK first \in left, last \in left : date[first] = a /\ date[last] = b
  BY <1>2
<1>4. \A e \in left : date[e] \in D
  OBVIOUS
<1> HIDE DEF D
<1>5. \A e \in left : date[first] <= date[e] /\ date[e] <= date[last]
  BY <1>2, <1>3, <1>4
<1>6. \A e \in left : date[e] \in Nat
  BY DatesAreNat
<1>7. CASE backtime
  BY <1>5, <1>6, <1>7 DEF Stream!Before
<1>8. CASE ~backtime
  BY <1>5, <1>6, <1>8 DEF Stream!Before
<1> QED
  BY <1>7, <1>8

\* A page and the link after it leave nothing out.
LEMMA PageAndLink ==
  ASSUME StreamBounded, date \in [StreamEntries -> EntryDates],
           NEW found \in SUBSET StreamEntries,
         NEW shownPage \in Stream!Firsts(found)
  PROVE  /\ shownPage \subseteq found /\ Stream!Cardinality(shownPage) \in 0..PageSize
         /\ Stream!NextStart(found, shownPage) \in Stream!Seconds \cup {None}
         /\ \A e \in found \ shownPage :
              Whole(e) => Stream!NextStart(found, shownPage) # None
                /\ Stream!FromStart(e, Stream!NextStart(found, shownPage))
<1>1. shownPage \subseteq found /\ Stream!Cardinality(shownPage) <= PageSize
  BY DEF Stream!Firsts
<1>2. Stream!Cardinality(shownPage) \in 0..PageSize
  <2>1. IsFiniteSet(shownPage)
    BY <1>1, FS_Subset DEF StreamBounded
  <2> QED
    BY <1>1, <2>1, FS_CardinalityType, StreamCardinality DEF StreamBounded
<1>3. CASE found = shownPage
  BY <1>1, <1>2, <1>3 DEF Stream!NextStart
<1>4. CASE found # shownPage
  <2> DEFINE left == found \ shownPage
             next == CHOOSE e \in left : \A f \in left : Stream!Before(e, f)
  <2>1. left \in SUBSET StreamEntries /\ left # {}
    BY <1>1, <1>4
  <2>2. \E e \in left : \A f \in left : Stream!Before(e, f)
    BY <2>1, FirstExists
  <2>3. next \in left /\ \A f \in left : Stream!Before(next, f)
    BY <2>2
  <2>4. Stream!NextStart(found, shownPage) = Stream!Second(date[next])
    BY <1>4 DEF Stream!NextStart
  <2> HIDE DEF next
  <2>5. date[next] \in EntryDates
    BY <2>1, <2>3
  <2>6. /\ date[next] \in Nat /\ Stream!Second(date[next]) \in Stream!Seconds
             /\ Stream!Second(date[next]) \in Nat
        /\ 2 * Stream!Second(date[next]) <= date[next]
             /\ date[next] <= 2 * Stream!Second(date[next]) + 1
        /\ date[next] % 2 = 0 => date[next] = 2 * Stream!Second(date[next])
    BY <2>5, SecondIsNat
  <2>7. ASSUME NEW e \in left, Whole(e)
        PROVE  Stream!FromStart(e, Stream!Second(date[next]))
    <3>1. Stream!Before(next, e)
      BY <2>3
    <3>2. date[e] \in Nat
      BY <2>1, DatesAreNat
    <3>3. CASE backtime
      <4>1. date[e] <= date[next] /\ date[e] % 2 = 0
        BY <2>7, <3>1, <3>2, <3>3, <2>6 DEF Stream!Before, Whole
      <4> QED
        BY <2>6, <3>2, <3>3, <4>1 DEF Stream!FromStart
    <3>4. CASE ~backtime
      <4>1. date[next] <= date[e]
        BY <3>1, <3>4 DEF Stream!Before
      <4> QED
        BY <2>6, <3>2, <3>4, <4>1 DEF Stream!FromStart
    <3> QED
      BY <3>3, <3>4
  <2>8. None \notin Stream!Seconds
    BY SecondsAreNat
  <2> QED
    BY <1>1, <1>2, <2>4, <2>6, <2>7, <2>8
<1> QED
  BY <1>3, <1>4

\* So the next page takes reading on from where the link is.
LEMMA NextPage ==
  ASSUME StreamBounded, StreamInv, cursor # None,
           NEW shownPage \in Stream!Firsts(Stream!From(cursor))
  PROVE  /\ shownPage \subseteq StreamEntries /\ Stream!Cardinality(shownPage) \in 0..PageSize
         /\ Stream!NextStart(Stream!From(cursor), shownPage) \in Stream!Seconds \cup {None}
         /\ Ahead(seen \cup shownPage, Stream!NextStart(Stream!From(cursor), shownPage))
<1>1. Stream!From(cursor) \in SUBSET StreamEntries /\ date \in [StreamEntries -> EntryDates]
  BY DEF StreamInv, Stream!TypeOK, Stream!From
<1>2. /\ shownPage \subseteq Stream!From(cursor) /\ Stream!Cardinality(shownPage) \in 0..PageSize
      /\ Stream!NextStart(Stream!From(cursor), shownPage) \in Stream!Seconds \cup {None}
      /\ \A e \in Stream!From(cursor) \ shownPage :
           Whole(e) => /\ Stream!NextStart(Stream!From(cursor), shownPage) # None
                       /\ Stream!FromStart(e, Stream!NextStart(Stream!From(cursor), shownPage))
  BY <1>1, PageAndLink
<1>3. \A e \in steady \ seen : Whole(e) => e \in Stream!From(cursor)
  BY DEF StreamInv, Ahead, Stream!TypeOK, Stream!From
<1> QED
  BY <1>1, <1>2, <1>3 DEF Ahead

-----------------------------------------------------------------------------
LEMMA StreamInitInv == ASSUME StreamBounded, Stream!Init PROVE StreamInv
<1>1. /\ visible \in SUBSET StreamEntries /\ date \in [StreamEntries -> EntryDates]
           /\ steady = visible
      /\ seen \in Stream!Firsts(visible) /\ cursor = Stream!NextStart(visible, seen)
      /\ length = Stream!Cardinality(seen) /\ request = Stream!NoRequest /\ changes = 0
           /\ backtime \in BOOLEAN
  BY DEF Stream!Init
<1>2. /\ seen \subseteq visible /\ Stream!Cardinality(seen) \in 0..PageSize
      /\ cursor \in Stream!Seconds \cup {None} /\ Ahead(seen, cursor)
  BY <1>1, PageAndLink DEF Ahead
<1>3. length \in 0..(Continuous + PageSize - 1) /\ changes \in 0..MaxChanges
  BY <1>1, <1>2 DEF StreamBounded
<1>4. request \in [at : {"none", "sent", "answered", "lost"},
                   entries : SUBSET StreamEntries, next : Stream!Seconds \cup {None}]
                     /\ request.at = "none"
  BY <1>1 DEF Stream!NoRequest
<1> QED
  BY <1>1, <1>2, <1>3, <1>4 DEF StreamInv, Stream!TypeOK, OnItsWay

LEMMA StreamNextInv ==
  ASSUME StreamBounded, StreamInv, [Stream!Next]_(Stream!vars)
  PROVE  StreamInv'
<1> DEFINE Requests == [at : {"none", "sent", "answered", "lost"},
                        entries : SUBSET StreamEntries, next : Stream!Seconds \cup {None}]
<1>1. CASE Stream!Click
  <2>1. request' \in Requests /\ request'.at = "sent"
    BY <1>1 DEF Stream!Click, Stream!NoRequest
  <2>2. length < Continuous
    BY <1>1 DEF Stream!Click, Stream!Long, StreamInv, Stream!TypeOK, StreamBounded
  <2> QED
    BY <1>1, <2>1, <2>2 DEF Stream!Click, StreamInv, Stream!TypeOK, OnItsWay, Ahead, Whole,
       Stream!FromStart, Stream!streamVars
<1>2. CASE Stream!Follow
  <2> PICK shownPage \in Stream!Firsts(Stream!From(cursor)) :
        /\ seen' = seen \cup shownPage
        /\ length' = Stream!Cardinality(shownPage)
        /\ cursor' = Stream!NextStart(Stream!From(cursor), shownPage)
    BY <1>2 DEF Stream!Follow
  <2>1. UNCHANGED <<backtime, date, visible, steady, changes, request>> /\ cursor # None
        /\ request.at = "none"
    BY <1>2 DEF Stream!Follow, Stream!streamVars
  <2>2. /\ shownPage \subseteq StreamEntries /\ Stream!Cardinality(shownPage) \in 0..PageSize
        /\ cursor' \in Stream!Seconds \cup {None}
        /\ Ahead(seen', cursor')
    BY <2>1, NextPage
  <2>3. length' \in 0..(Continuous + PageSize - 1)
    BY <2>2 DEF StreamBounded
  <2>4. Stream!TypeOK'
    BY <2>1, <2>2, <2>3 DEF StreamInv, Stream!TypeOK
  <2>5. Ahead(seen, cursor)' /\ OnItsWay'
    BY <2>1, <2>2 DEF Ahead, Whole, Stream!FromStart, OnItsWay
  <2> QED
    BY <2>4, <2>5 DEF StreamInv
<1>3. CASE Stream!Answer
  <2> PICK shownPage \in Stream!Firsts(Stream!From(cursor)) :
        request' = [at |-> "answered", entries |-> shownPage,
                    next |-> Stream!NextStart(Stream!From(cursor), shownPage)]
    BY <1>3 DEF Stream!Answer
  <2>1. UNCHANGED <<backtime, date, visible, steady, changes, seen, length, cursor>>
        /\ request.at = "sent" /\ cursor # None /\ length < Continuous
    BY <1>3 DEF Stream!Answer, Stream!streamVars, StreamInv, OnItsWay
  <2>2. /\ shownPage \subseteq StreamEntries /\ Stream!Cardinality(shownPage) \in 0..PageSize
        /\ Stream!NextStart(Stream!From(cursor), shownPage) \in Stream!Seconds \cup {None}
        /\ Ahead(seen \cup shownPage, Stream!NextStart(Stream!From(cursor), shownPage))
    BY <2>1, NextPage
  <2> DEFINE next == Stream!NextStart(Stream!From(cursor), shownPage)
  <2> HIDE DEF next
  <2>3. /\ request' = [at |-> "answered", entries |-> shownPage, next |-> next]
        /\ next \in Stream!Seconds \cup {None} /\ Ahead(seen \cup shownPage, next)
    BY <2>2 DEF next
  <2>4. request' \in Requests /\ request'.entries = shownPage /\ request'.next = next
    BY <2>2, <2>3
  <2>5. Stream!TypeOK'
    BY <2>1, <2>4 DEF StreamInv, Stream!TypeOK
  <2>6. Stream!Cardinality(request'.entries) <= PageSize
    BY <2>2, <2>4 DEF StreamBounded
  <2>7. Ahead(seen, cursor)' /\ Ahead(seen \cup request.entries, request.next)'
    BY <2>1, <2>3, <2>4 DEF StreamInv, Ahead, Whole, Stream!FromStart
  <2> QED
    BY <2>1, <2>5, <2>6, <2>7 DEF StreamInv, OnItsWay
<1>4. CASE Stream!Fails
  <2>1. request' \in Requests /\ request'.at = "lost"
    BY <1>4 DEF Stream!Fails, Stream!NoRequest
  <2> QED
    BY <1>4, <2>1 DEF Stream!Fails, StreamInv, Stream!TypeOK, OnItsWay, Ahead, Whole,
       Stream!FromStart, Stream!streamVars
<1>5. CASE Stream!append_page
  <2>1. request' \in Requests /\ request'.at = "none"
    BY <1>5 DEF Stream!append_page, Stream!NoRequest
  <2>2. length' \in 0..(Continuous + PageSize - 1)
    <3>1. Stream!Cardinality(request.entries) \in 0..PageSize
      <4>1. IsFiniteSet(request.entries)
        BY FS_Subset DEF StreamInv, Stream!TypeOK, StreamBounded
      <4> QED
        BY <1>5, <4>1, FS_CardinalityType, StreamCardinality DEF Stream!append_page, StreamInv, OnItsWay,
           StreamBounded
    <3>2. length \in Nat /\ length < Continuous
            /\ length' = length + Stream!Cardinality(request.entries)
      BY <1>5 DEF Stream!append_page, StreamInv, OnItsWay, Stream!TypeOK, StreamBounded
    <3> QED
      BY <3>1, <3>2 DEF StreamBounded
  <2>3. /\ seen' = seen \cup request.entries /\ cursor' = request.next
        /\ UNCHANGED <<backtime, date, visible, steady, changes>>
    BY <1>5 DEF Stream!append_page, Stream!streamVars
  <2>4. Stream!TypeOK'
    BY <2>1, <2>2, <2>3 DEF StreamInv, Stream!TypeOK
  <2>5. Ahead(seen, cursor)'
    BY <1>5, <2>3 DEF Stream!append_page, StreamInv, OnItsWay, Ahead, Whole, Stream!FromStart
  <2> QED
    BY <2>1, <2>4, <2>5 DEF StreamInv, OnItsWay
<1>6. ASSUME NEW e \in StreamEntries, Stream!Publish(e) \/ Stream!Hide(e)
      PROVE  StreamInv'
  <2>1. /\ UNCHANGED <<backtime, date, seen, length, cursor, request>>
        /\ steady' \subseteq steady /\ steady' \subseteq visible'
             /\ visible' \subseteq StreamEntries
    BY <1>6 DEF Stream!Publish, Stream!Hide, Stream!pageVars, StreamInv, Stream!TypeOK
  <2>2. changes' \in 0..MaxChanges
    BY <1>6 DEF Stream!Publish, Stream!Hide, StreamInv, Stream!TypeOK, StreamBounded
  <2>3. Stream!TypeOK'
    BY <2>1, <2>2 DEF StreamInv, Stream!TypeOK
  <2>4. Ahead(seen, cursor)'
    BY <2>1 DEF StreamInv, Ahead, Whole, Stream!FromStart
  <2>5. OnItsWay'
    BY <2>1 DEF StreamInv, OnItsWay, Ahead, Whole, Stream!FromStart
  <2> QED
    BY <2>3, <2>4, <2>5 DEF StreamInv
<1>7. CASE UNCHANGED Stream!vars
  BY <1>7 DEF Stream!vars, Stream!streamVars, Stream!pageVars, StreamInv, Stream!TypeOK,
     OnItsWay, Ahead, Whole, Stream!FromStart
<1> QED
  BY <1>1, <1>2, <1>3, <1>4, <1>5, <1>6, <1>7 DEF Stream!Next

-----------------------------------------------------------------------------
(* Of the whole: a step moves the part that was chosen, by that part's     *)
(* next-state relation, and leaves the other parts as they are.            *)

LEMMA StorePart ==
  ASSUME [EntriesNext]_allVars
  PROVE  /\ part' = part
         /\ [part = "store" /\ EntryRows!Next]_(EntryRows!vars)
<1>1. CASE EntriesNext
  BY <1>1 DEF EntriesNext, entryVars, storeVars, EntryRows!vars, EntryRows!ownerVars,
     EntryRows!importVars
<1>2. CASE UNCHANGED allVars
  BY <1>2 DEF allVars, entryVars, storeVars, EntryRows!vars, EntryRows!ownerVars,
     EntryRows!importVars
<1> QED
  BY <1>1, <1>2

LEMMA PostsPart ==
  ASSUME [EntriesNext]_allVars
  PROVE  /\ part' = part
         /\ [part = "posts" /\ Sharing!Next]_(Sharing!vars)
<1>1. CASE EntriesNext
  BY <1>1 DEF EntriesNext, entryVars, postVars, Sharing!vars
<1>2. CASE UNCHANGED allVars
  BY <1>2 DEF allVars, entryVars, postVars, Sharing!vars
<1> QED
  BY <1>1, <1>2

LEMMA StreamPart ==
  ASSUME [EntriesNext]_allVars
  PROVE  /\ part' = part
         /\ [part = "stream" /\ Stream!Next]_(Stream!vars)
<1>1. CASE EntriesNext
  BY <1>1 DEF EntriesNext, pageVars, streamVars, Stream!vars, Stream!streamVars, Stream!pageVars
<1>2. CASE UNCHANGED allVars
  BY <1>2 DEF allVars, pageVars, streamVars, Stream!vars, Stream!streamVars, Stream!pageVars
<1> QED
  BY <1>1, <1>2

\* So what a part keeps of its own is kept while it is the one that moves.
LEMMA StoreSpecInv == ASSUME StoreBounded PROVE EntriesSpec => [](part = "store" => StoreInv)
<1>1. EntriesInit => (part = "store" => StoreInv)
  BY StoreInitInv DEF EntriesInit
<1>2. (part = "store" => StoreInv) /\ [EntriesNext]_allVars => (part = "store" => StoreInv)'
  BY StorePart, StoreNextInv
<1> QED
  BY <1>1, <1>2, PTL DEF EntriesSpec

LEMMA PostsSpecInv == ASSUME PostsBounded PROVE EntriesSpec => [](part = "posts" => PostsInv)
<1>1. EntriesInit => (part = "posts" => PostsInv)
  BY PostsInitInv DEF EntriesInit
<1>2. (part = "posts" => PostsInv) /\ [EntriesNext]_allVars => (part = "posts" => PostsInv)'
  BY PostsPart, PostsNextInv
<1> QED
  BY <1>1, <1>2, PTL DEF EntriesSpec

LEMMA StreamSpecInv == ASSUME StreamBounded PROVE EntriesSpec => [](part = "stream" => StreamInv)
<1>1. EntriesInit => (part = "stream" => StreamInv)
  BY StreamInitInv DEF EntriesInit
<1>2. (part = "stream" => StreamInv) /\ [EntriesNext]_allVars => (part = "stream" => StreamInv)'
  BY StreamPart, StreamNextInv
<1> QED
  BY <1>1, <1>2, PTL DEF EntriesSpec

-----------------------------------------------------------------------------
\* Imports that race for a guid do not fail each other: an insert that comes
\* second looks again and finds the row (IntegrityError in ingestion/service.py),
\* whose key nobody changes until an entry is deleted.
THEOREM RacingImports == ASSUME StoreBounded PROVE EntriesSpec => []RacingImportsSucceed
<1>1. (part = "store" => StoreInv) => RacingImportsSucceed
  BY DEF StoreInv, HeldIsStored, RacingImportsSucceed, EntryRows!RacingImportsSucceed
<1> QED
  BY <1>1, StoreSpecInv, PTL

\* What an import must have seen of a row that it writes over.
Rule(i) ==
  import[i].at \in {"write", "rewrite"} /\ import'[i].outcome = "updated" =>
    /\ looked[i] # None
    /\ ~looked[i].protected
    /\ ~import[i].force /\ import[i].fresh # None => looked[i].updated < import[i].fresh

LEMMA OneFollowsRules ==
  ASSUME StoreBounded, StoreInv, EntryRows!Next, NEW i \in Imports
  PROVE  Rule(i)
<1> SUFFICES ASSUME import[i].at \in {"write", "rewrite"}, import'[i].outcome = "updated"
             PROVE  import[i].e.pk # None
  BY DEF StoreInv, LookedByRules, Holding, Rule
<1>1. import[i].outcome = "none"
  BY DEF StoreInv, WellFormed
<1>2. import'[i] # import[i]
  BY <1>1
<1>3. ASSUME NEW j \in Imports,
             \/ EntryRows!Resolve(j) \/ EntryRows!Build(j) \/ EntryRows!Write(j)
             \/ EntryRows!ResolveAgain(j) \/ EntryRows!Rewrite(j)
      PROVE  j = i
  BY <1>2, <1>3 DEF EntryRows!Resolve, EntryRows!Build, EntryRows!Write, EntryRows!ResolveAgain,
     EntryRows!Rewrite, EntryRows!Moves, EntryRows!Ends, EntryRows!Clashed, StoreInv,
     EntryRows!TypeOK
<1>4. EntryRows!Write(i) \/ EntryRows!Rewrite(i)
  <2>1. ~EntryRows!Resolve(i) /\ ~EntryRows!Build(i) /\ ~EntryRows!ResolveAgain(i)
    BY DEF EntryRows!Resolve, EntryRows!Build, EntryRows!ResolveAgain
  <2>2. ~(\/ EntryRows!_cmd_hide \/ EntryRows!_cmd_unhide \/ EntryRows!Protect
          \/ EntryRows!Favorites \/ EntryRows!DeleteOld)
    BY <1>2 DEF EntryRows!importVars, EntryRows!_cmd_hide, EntryRows!_cmd_unhide,
       EntryRows!Protect, EntryRows!Updates, EntryRows!Favorites, EntryRows!DeleteOld
  <2> QED
    BY <1>3, <2>1, <2>2 DEF EntryRows!Next
<1>5. \/ EntryRows!Ends(i, EntryRows!Outcome(import[i].e))
      \/ EntryRows!Ends(i, "failed")
      \/ EntryRows!Moves(i, [import[i] EXCEPT !.at = "again"])
  BY <1>4 DEF EntryRows!Write, EntryRows!Rewrite, EntryRows!Clashed
<1>6. import[i] \in ImportRecords
  BY StoreShape DEF StoreInv
<1>7. EntryRows!Ends(i, EntryRows!Outcome(import[i].e))
  <2>1. ~EntryRows!Ends(i, "failed")
    BY StoreShape DEF EntryRows!Ends, EntryRows!Moves, EntryRows!IdleImport, StoreInv
  <2>2. ~EntryRows!Moves(i, [import[i] EXCEPT !.at = "again"])
    BY <1>1, <1>6, StoreShape DEF EntryRows!Moves, ImportRecords, StoreInv
  <2> QED
    BY <1>5, <2>1, <2>2
<1>8. import'[i].outcome = EntryRows!Outcome(import[i].e)
  BY <1>7, StoreShape DEF EntryRows!Ends, EntryRows!Moves, EntryRows!IdleImport, StoreInv
<1> QED
  BY <1>8 DEF EntryRows!Outcome

\* No import writes over a row that it saw protected or as new as the item,
\* whichever of its two looks at the table it writes by (resolve_entry).
THEOREM ImportsByRules == ASSUME StoreBounded PROVE EntriesSpec => ImportsFollowRules
<1>1. (part = "store" => StoreInv) /\ [EntriesNext]_allVars
        => [\A i \in Imports : Rule(i)]_(EntryRows!vars)
  BY StorePart, OneFollowsRules
<1>2. EntriesSpec => [][\A i \in Imports : Rule(i)]_(EntryRows!vars)
  BY <1>1, StoreSpecInv, PTL DEF EntriesSpec
<1> QED
  BY <1>2 DEF Rule, ImportsFollowRules, EntryRows!ImportsFollowRules

\* Posts of one second have guids of their own in each service, whatever is
\* shared, moved and rolled back at once, and only a full second loses one
\* (_insert in apis/selfposts.py).
THEOREM GuidsAreOwn == ASSUME PostsBounded PROVE EntriesSpec => []OwnGuids
<1>1. (part = "posts" => PostsInv) => OwnGuids
  BY LostInAFullSecond
     DEF PostsInv, Sharing!TypeOK, HoldersDiffer, Holds, OwnGuids, Sharing!OwnGuids
<1> QED
  BY <1>1, PostsSpecInv, PTL

\* Nothing is announced that has no row, and no reshare that failed leaves one
\* (reshare in apis/selfposts.py, within its transaction).
THEOREM AnnouncedAreStored == ASSUME PostsBounded PROVE EntriesSpec => []AnnouncedPostsAreStored
<1>1. (part = "posts" => PostsInv) => AnnouncedPostsAreStored
  BY DEF PostsInv, Sharing!TypeOK, StoredByStep, AnnouncedPostsAreStored,
     Sharing!AnnouncedPostsAreStored
<1> QED
  BY <1>1, PostsSpecInv, PTL

\* Reading on skips no entry that was there all the time (the link of
\* index_view.py names the second of the first entry that did not fit).
THEOREM NoneIsSkipped == ASSUME StreamBounded PROVE EntriesSpec => []NothingIsSkipped
<1>1. (part = "stream" => StreamInv) => NothingIsSkipped
  <2> SUFFICES ASSUME StreamInv, NEW e \in steady, e \notin seen, Whole(e),
                      cursor # None => IF backtime THEN date[e] > 2 * cursor ELSE date[e] < 2 * cursor
               PROVE  FALSE
    BY DEF NothingIsSkipped, Stream!NothingIsSkipped, Whole
  <2>1. cursor # None /\ Stream!FromStart(e, cursor)
    BY DEF StreamInv, Ahead
  <2>2. cursor \in Nat /\ date[e] \in Nat
    BY <2>1, SecondsAreNat, DatesAreNat DEF StreamInv, Stream!TypeOK
  <2> QED
    BY <2>1, <2>2 DEF Stream!FromStart
<1> QED
  BY <1>1, StreamSpecInv, PTL

-----------------------------------------------------------------------------
(* The text and the attachments of a post (apis/atproto.py,                *)
(* apis/mastodon.py).                                                      *)

\* Bounds are numbers.
ContentBounded == {Bytes, MaxFeatures, MaxFacets, MaxAttachments} \subseteq Nat

\* What of the attachments is written, and what is listed.
WrittenTo == IF rendering = "markup" THEN turn - 1 ELSE Len(attachments)
ListedTo == CASE rendering = "markup" -> 0 [] rendering = "mblob" -> turn - 1
              [] OTHER -> Len(attachments)

Video(i) == Content!IsVideo(attachments[i])

MarkupRow == [kind : {"thumbnails", "player"}, of : Seq(Content!Turns)]
Listing == [of : Content!Turns, isdefault : BOOLEAN]

MediaShape ==
  /\ attachments \in Seq(Content!Attachment) /\ Len(attachments) <= MaxAttachments
  /\ turn \in 1..(Len(attachments) + 1)
  /\ thumbnails \in Seq(Content!Turns) /\ markup \in Seq(MarkupRow) /\ mblob \in Seq(Listing)
  /\ rendering \in {"text", "tail"} => attachments = <<>>
  /\ rendering # "markup" => thumbnails = <<>>

\* A player is of a video that can be shown; thumbnails are of such images.
BlockIsRight(b, n) ==
  /\ b.kind = "player" => \E i \in 1..n : b = Content!Player(i) /\ Video(i)
  /\ \A k \in DOMAIN b.of : b.of[k] \in 1..n /\ Content!Shown(b.of[k])

\* What was written, and the images that wait: all that could be shown, in order.
Rising(s) == \A k, l \in 1..Len(s) : k < l => s[k] < s[l]
BlocksRise(m) ==
  /\ \A g \in 1..Len(m) : Rising(m[g].of)
  /\ \A g, h \in 1..Len(m) : g < h =>
       \A k \in 1..Len(m[g].of), l \in 1..Len(m[h].of) : m[g].of[k] < m[h].of[l]

InMarkup(i) == \E g \in 1..Len(markup) : \E k \in 1..Len(markup[g].of) : markup[g].of[k] = i
Waiting(i) == \E k \in 1..Len(thumbnails) : thumbnails[k] = i

MarkupInv ==
  /\ \A g \in 1..Len(markup) : BlockIsRight(markup[g], WrittenTo)
  /\ BlocksRise(markup) /\ Rising(thumbnails)
  /\ \A k \in 1..Len(thumbnails) :
       /\ thumbnails[k] \in 1..WrittenTo /\ Content!Shown(thumbnails[k])
       /\ ~Video(thumbnails[k])
       /\ \A i \in 1..WrittenTo : InMarkup(i) => i < thumbnails[k]
  /\ \A i \in 1..WrittenTo : Content!Shown(i) => InMarkup(i) \/ Waiting(i)
  /\ \A i \in 1..WrittenTo : Content!Shown(i) /\ Video(i) =>
       \E g \in 1..Len(markup) : markup[g] = Content!Player(i)

ListInv ==
  /\ \A v \in 1..Len(mblob) : /\ mblob[v].of \in 1..ListedTo /\ Content!Shown(mblob[v].of)
                              /\ Video(mblob[v].of)
                              /\ mblob[v].isdefault <=> v = 1
  /\ \A i \in 1..ListedTo : Content!Shown(i) /\ Video(i) =>
       \E v \in 1..Len(mblob) : mblob[v].of = i

MediaInv == MediaShape /\ MarkupInv /\ ListInv

-----------------------------------------------------------------------------
LEMMA AppendedBlock ==
  ASSUME NEW T, NEW m \in Seq(T), NEW b \in T, BlocksRise(m), Rising(b.of),
         \A g \in 1..Len(m) : \A k \in 1..Len(m[g].of), l \in 1..Len(b.of) : m[g].of[k] < b.of[l]
  PROVE  BlocksRise(Append(m, b))
<1> DEFINE a == Append(m, b)
<1>1. /\ Len(a) = Len(m) + 1 /\ Len(m) \in Nat
      /\ \A i \in 1..Len(m) : a[i] = m[i]
      /\ a[Len(m) + 1] = b
  BY AppendProperties, LenProperties
<1> HIDE DEF a
<1>2. ASSUME NEW g \in 1..Len(a) PROVE Rising(a[g].of)
  <2>1. CASE g \in 1..Len(m)
    BY <1>1, <2>1 DEF BlocksRise
  <2>2. CASE g = Len(m) + 1
    BY <1>1, <2>2
  <2> QED
    BY <1>1, <2>1, <2>2
<1>3. ASSUME NEW g \in 1..Len(a), NEW h \in 1..Len(a), g < h,
             NEW k \in 1..Len(a[g].of), NEW l \in 1..Len(a[h].of)
      PROVE  a[g].of[k] < a[h].of[l]
  <2>1. g \in 1..Len(m) /\ a[g] = m[g]
    BY <1>1, <1>3
  <2>2. CASE h \in 1..Len(m)
    <3>1. a[h] = m[h]
      BY <1>1, <2>2
    <3> QED
      BY <1>3, <2>1, <2>2, <3>1 DEF BlocksRise
  <2>3. CASE h = Len(m) + 1
    BY <1>1, <1>3, <2>1, <2>3
  <2> QED
    BY <1>1, <2>2, <2>3
<1> QED
  BY <1>2, <1>3 DEF BlocksRise, a

LEMMA RowsAreSequences ==
  ASSUME markup \in Seq(MarkupRow)
  PROVE  \A g \in 1..Len(markup) :
           /\ markup[g].of \in Seq(Content!Turns)
           /\ DOMAIN markup[g].of = 1..Len(markup[g].of)
<1> TAKE g \in 1..Len(markup)
<1>1. markup[g] \in MarkupRow
  BY ElementOfSeq
<1>2. markup[g].of \in Seq(Content!Turns)
  BY <1>1 DEF MarkupRow
<1> QED
  BY <1>2, LenProperties

\* The row of images that is written, and what the entry then holds.
WrittenIn(m, i) == \E g \in 1..Len(m) : \E k \in 1..Len(m[g].of) : m[g].of[k] = i

LEMMA Flushing ==
  ASSUME ContentBounded, MediaInv, rendering = "markup"
  PROVE  /\ Content!Flushed \in Seq(MarkupRow) /\ BlocksRise(Content!Flushed)
         /\ \A g \in 1..Len(Content!Flushed) : BlockIsRight(Content!Flushed[g], turn - 1)
         /\ \A i \in 1..(turn - 1) : Content!Shown(i) => WrittenIn(Content!Flushed, i)
         /\ \A i \in 1..(turn - 1) : Content!Shown(i) /\ Video(i) =>
              \E g \in 1..Len(Content!Flushed) : Content!Flushed[g] = Content!Player(i)
<1> DEFINE f == Content!Flushed
<1>1. CASE thumbnails = <<>>
  <2>1. f = markup /\ Len(thumbnails) = 0
    BY <1>1, EmptySeq DEF Content!Flushed
  <2> QED
    BY <2>1 DEF MediaInv, MediaShape, MarkupInv, WrittenTo, InMarkup, Waiting, WrittenIn
<1>2. CASE thumbnails # <<>>
  <2> DEFINE r == Content!Row
  <2>1. f = Append(markup, r) /\ r = [kind |-> "thumbnails", of |-> thumbnails]
    BY <1>2 DEF Content!Flushed, Content!Row
  <2>2. r \in MarkupRow /\ r.of = thumbnails /\ r.kind = "thumbnails"
    BY <2>1 DEF MediaInv, MediaShape, MarkupRow
  <2> HIDE DEF r, f
  <2>3. /\ f \in Seq(MarkupRow) /\ Len(f) = Len(markup) + 1 /\ Len(markup) \in Nat
        /\ \A i \in 1..Len(markup) : f[i] = markup[i]
        /\ f[Len(markup) + 1] = r
    BY <2>1, <2>2, AppendProperties, LenProperties DEF MediaInv, MediaShape
  <2>4. BlocksRise(f)
    <3>1. \A g \in 1..Len(markup) : \A k \in 1..Len(markup[g].of), l \in 1..Len(thumbnails) :
            markup[g].of[k] < thumbnails[l]
      <4> TAKE g \in 1..Len(markup)
      <4> TAKE k \in 1..Len(markup[g].of), l \in 1..Len(thumbnails)
      <4>2. k \in DOMAIN markup[g].of
        BY RowsAreSequences DEF MediaInv, MediaShape
      <4>3. markup[g].of[k] \in 1..WrittenTo
        BY <4>2 DEF MediaInv, MarkupInv, BlockIsRight
      <4>4. InMarkup(markup[g].of[k])
        BY DEF InMarkup
      <4> QED
        BY <4>3, <4>4 DEF MediaInv, MarkupInv
    <3>2. BlocksRise(markup) /\ Rising(r.of) /\ markup \in Seq(MarkupRow)
      BY <2>2 DEF MediaInv, MarkupInv, MediaShape
    <3> QED
      BY <2>1, <2>2, <3>1, <3>2, AppendedBlock
  <2>5. ASSUME NEW g \in 1..Len(f) PROVE BlockIsRight(f[g], turn - 1)
    <3>1. CASE g \in 1..Len(markup)
      BY <2>3, <3>1 DEF MediaInv, MarkupInv, WrittenTo
    <3>2. CASE g = Len(markup) + 1
      <4>1. DOMAIN thumbnails = 1..Len(thumbnails)
        BY LenProperties DEF MediaInv, MediaShape
      <4> QED
        BY <2>2, <2>3, <3>2, <4>1 DEF BlockIsRight, MediaInv, MarkupInv, WrittenTo
    <3> QED
      BY <2>3, <3>1, <3>2
  <2>6. ASSUME NEW i \in 1..(turn - 1), Content!Shown(i) PROVE WrittenIn(f, i)
    <3>1. i \in 1..WrittenTo
      BY DEF WrittenTo
    <3>2. CASE InMarkup(i)
      <4>1. PICK g \in 1..Len(markup) : \E k \in 1..Len(markup[g].of) : markup[g].of[k] = i
        BY <3>2 DEF InMarkup
      <4>2. g \in 1..Len(f) /\ f[g] = markup[g]
        BY <2>3
      <4> QED
        BY <4>1, <4>2 DEF WrittenIn
    <3>3. CASE Waiting(i)
      <4>1. Len(markup) + 1 \in 1..Len(f)
        BY <2>3
      <4>2. \E k \in 1..Len(f[Len(markup) + 1].of) : f[Len(markup) + 1].of[k] = i
        BY <2>2, <2>3, <3>3 DEF Waiting
      <4> QED
        BY <4>1, <4>2 DEF WrittenIn
    <3> QED
      BY <2>6, <3>1, <3>2, <3>3 DEF MediaInv, MarkupInv
  <2>7. ASSUME NEW i \in 1..(turn - 1), Content!Shown(i), Video(i)
        PROVE  \E g \in 1..Len(f) : f[g] = Content!Player(i)
    <3>1. PICK g \in 1..Len(markup) : markup[g] = Content!Player(i)
      BY <2>7 DEF MediaInv, MarkupInv, WrittenTo
    <3> QED
      BY <2>3, <3>1
  <2> QED
    BY <2>3, <2>4, <2>5, <2>6, <2>7 DEF f
<1> QED
  BY <1>1, <1>2

-----------------------------------------------------------------------------
LEMMA BlockStays ==
  ASSUME NEW b, NEW m \in Int, NEW n \in Int, m <= n, BlockIsRight(b, m)
  PROVE  BlockIsRight(b, n)
<1>1. \A i \in 1..m : i \in 1..n
  OBVIOUS
<1> QED
  BY <1>1 DEF BlockIsRight

\* Of an attachment nothing changes.
LEMMA ItemsStay ==
  ASSUME UNCHANGED attachments
  PROVE  /\ \A i : (Content!Shown(i)' <=> Content!Shown(i)) /\ (Video(i)' <=> Video(i))
         /\ \A i : Content!Player(i)' = Content!Player(i)
BY DEF Content!Shown, Video, Content!IsVideo, Content!Player

LEMMA BlocksLater ==
  ASSUME UNCHANGED attachments,
         \A g \in 1..Len(markup') : BlockIsRight(markup'[g], WrittenTo')
  PROVE  (\A g \in 1..Len(markup) : BlockIsRight(markup[g], WrittenTo))'
BY ItemsStay DEF BlockIsRight

LEMMA WrittenBefore ==
  ASSUME MediaInv, NEW i, InMarkup(i) PROVE i \in 1..WrittenTo
<1> PICK g \in 1..Len(markup) : \E k \in 1..Len(markup[g].of) : markup[g].of[k] = i
  BY DEF InMarkup
<1>1. PICK k \in 1..Len(markup[g].of) : markup[g].of[k] = i
  OBVIOUS
<1>2. k \in DOMAIN markup[g].of
  BY RowsAreSequences DEF MediaInv, MediaShape
<1> QED
  BY <1>1, <1>2 DEF MediaInv, MarkupInv, BlockIsRight

LEMMA NextTurn ==
  ASSUME ContentBounded, MediaShape, rendering = "markup", turn <= Len(attachments),
         turn' = turn + 1, UNCHANGED <<rendering, attachments>>
  PROVE  /\ Len(attachments) \in Nat /\ turn \in Content!Turns /\ turn' \in 1..(Len(attachments) + 1)
         /\ WrittenTo = turn - 1 /\ WrittenTo' = turn /\ ListedTo' = 0 /\ ListedTo = 0
         /\ turn \in Nat
<1>1. Len(attachments) \in Nat
  BY LenProperties DEF MediaShape
<1>2. turn \in Nat \ {0} /\ turn \in Content!Turns /\ turn' \in 1..(Len(attachments) + 1)
  BY <1>1 DEF ContentBounded, MediaShape, Content!Turns
<1>3. WrittenTo = turn - 1 /\ WrittenTo' = turn
  BY <1>2 DEF WrittenTo
<1>4. ListedTo = 0 /\ ListedTo' = 0
  BY DEF ListedTo
<1> QED
  BY <1>1, <1>2, <1>3, <1>4

\* An image is collected, a video written with the images before it.
LEMMA ImageStep ==
  ASSUME ContentBounded, MediaInv, rendering = "markup", turn <= Len(attachments),
         attachments[turn].type = "image", Content!Shown(turn),
         thumbnails' = Append(thumbnails, turn), turn' = turn + 1,
         UNCHANGED <<rendering, attachments, markup, mblob>>
  PROVE  MediaInv'
<1> USE DEF MediaInv
<1>1. /\ Len(attachments) \in Nat /\ turn \in Content!Turns /\ turn' \in 1..(Len(attachments) + 1)
      /\ WrittenTo = turn - 1 /\ WrittenTo' = turn /\ ListedTo' = 0 /\ ListedTo = 0
  BY NextTurn DEF MediaInv
<1>2. /\ Len(thumbnails') = Len(thumbnails) + 1 /\ Len(thumbnails) \in Nat
      /\ thumbnails' \in Seq(Content!Turns)
      /\ \A k \in 1..Len(thumbnails) : thumbnails'[k] = thumbnails[k]
      /\ thumbnails'[Len(thumbnails) + 1] = turn
  BY <1>1, AppendProperties, LenProperties DEF MediaShape
<1>3. \A i : (Content!Shown(i)' <=> Content!Shown(i)) /\ (Video(i)' <=> Video(i))
  BY ItemsStay
<1>4. MediaShape'
  BY <1>1, <1>2 DEF MediaShape
<1>5. \A i : InMarkup(i)' <=> InMarkup(i)
  BY DEF InMarkup
<1>6. (\A g \in 1..Len(markup) : BlockIsRight(markup[g], WrittenTo))'
  <2> SUFFICES ASSUME NEW g \in 1..Len(markup) PROVE BlockIsRight(markup[g], turn)
    BY <1>1, BlocksLater
  <2>1. BlockIsRight(markup[g], turn - 1)
    BY <1>1 DEF MarkupInv
  <2> QED
    BY <1>1, <2>1, BlockStays DEF Content!Turns
<1>7. ASSUME NEW i \in 1..turn, InMarkup(i) PROVE i < turn
  BY <1>1, <1>7, WrittenBefore DEF Content!Turns
<1>8. BlocksRise(markup') /\ Rising(thumbnails')
  <2>1. \A k \in 1..Len(thumbnails) : thumbnails[k] < turn
    BY <1>1 DEF MarkupInv, Content!Turns
  <2>2. \A k, l \in 1..Len(thumbnails) : k < l => thumbnails[k] < thumbnails[l]
    BY DEF MarkupInv, Rising
  <2>3. Rising(thumbnails')
    BY <1>2, <2>1, <2>2 DEF Rising
  <2>4. BlocksRise(markup) /\ markup' = markup
    BY DEF MarkupInv
  <2> QED
    BY <2>3, <2>4 DEF BlocksRise
<1>9. ASSUME NEW k \in 1..Len(thumbnails')
      PROVE  /\ thumbnails'[k] \in 1..turn /\ Content!Shown(thumbnails'[k])
             /\ ~Video(thumbnails'[k])
             /\ \A i \in 1..turn : InMarkup(i) => i < thumbnails'[k]
  <2>1. CASE k = Len(thumbnails) + 1
    BY <1>1, <1>2, <1>7, <2>1 DEF Video, Content!IsVideo, Content!Turns
  <2>2. CASE k \in 1..Len(thumbnails)
    BY <1>1, <1>2, <1>7, <2>2 DEF MarkupInv, Content!Turns
  <2> QED
    BY <1>2, <2>1, <2>2
<1>10. ASSUME NEW i \in 1..turn, Content!Shown(i) PROVE InMarkup(i) \/ Waiting(i)'
  <2>1. CASE i = turn
    BY <1>2, <2>1 DEF Waiting
  <2>2. CASE i \in 1..(turn - 1)
    BY <1>1, <1>2, <1>10, <2>2 DEF Waiting, MarkupInv
  <2> QED
    BY <1>1, <2>1, <2>2 DEF Content!Turns
<1>11. ASSUME NEW i \in 1..turn, Content!Shown(i), Video(i)
       PROVE  \E g \in 1..Len(markup) : markup[g] = Content!Player(i)
  <2>1. i # turn
    BY <1>11 DEF Video, Content!IsVideo
  <2> QED
    BY <1>1, <1>11, <2>1 DEF MarkupInv, Content!Turns
<1>12. MarkupInv'
  BY <1>1, <1>3, <1>5, <1>6, <1>8, <1>9, <1>10, <1>11 DEF MarkupInv, Content!Player
<1>13. ListInv'
  BY <1>1, <1>3 DEF ListInv
<1> QED
  BY <1>4, <1>12, <1>13

\* What cannot be shown, and is no video, leaves all as it is.
LEMMA PassStep ==
  ASSUME ContentBounded, MediaInv, rendering = "markup", turn <= Len(attachments),
         ~Content!Shown(turn), turn' = turn + 1,
         UNCHANGED <<rendering, attachments, thumbnails, markup, mblob>>
  PROVE  MediaInv'
<1> USE DEF MediaInv
<1>1. /\ Len(attachments) \in Nat /\ turn \in Content!Turns /\ turn' \in 1..(Len(attachments) + 1)
      /\ WrittenTo = turn - 1 /\ WrittenTo' = turn /\ ListedTo' = 0 /\ ListedTo = 0
  BY NextTurn DEF MediaInv
<1>2. \A i : (Content!Shown(i)' <=> Content!Shown(i)) /\ (Video(i)' <=> Video(i))
  BY ItemsStay
<1>3. MediaShape'
  BY <1>1 DEF MediaShape
<1>4. \A i : (InMarkup(i)' <=> InMarkup(i)) /\ (Waiting(i)' <=> Waiting(i))
  BY DEF InMarkup, Waiting
<1>5. (\A g \in 1..Len(markup) : BlockIsRight(markup[g], WrittenTo))'
  <2> SUFFICES ASSUME NEW g \in 1..Len(markup) PROVE BlockIsRight(markup[g], turn)
    BY <1>1, BlocksLater
  <2>1. BlockIsRight(markup[g], turn - 1)
    BY <1>1 DEF MarkupInv
  <2> QED
    BY <1>1, <2>1, BlockStays DEF Content!Turns
<1>6. ASSUME NEW i \in 1..turn, InMarkup(i) PROVE i < turn
  BY <1>1, <1>6, WrittenBefore DEF Content!Turns
<1>7. BlocksRise(markup') /\ Rising(thumbnails')
  BY DEF MarkupInv, BlocksRise, Rising
<1>8. ASSUME NEW k \in 1..Len(thumbnails)
      PROVE  /\ thumbnails[k] \in 1..turn /\ Content!Shown(thumbnails[k])
             /\ ~Video(thumbnails[k])
             /\ \A i \in 1..turn : InMarkup(i) => i < thumbnails[k]
  BY <1>1, <1>6 DEF MarkupInv, Content!Turns
<1>9. \A i \in 1..turn : Content!Shown(i) => i \in 1..(turn - 1)
  BY <1>1 DEF Content!Turns
<1>10. MarkupInv'
  BY <1>1, <1>2, <1>4, <1>5, <1>7, <1>8, <1>9 DEF MarkupInv, Content!Player
<1>11. ListInv'
  BY <1>1, <1>2 DEF ListInv
<1> QED
  BY <1>3, <1>10, <1>11

\* A video ends a row of images, and is a block of its own if it can be shown.
LEMMA VideoStep ==
  ASSUME ContentBounded, MediaInv, rendering = "markup", turn <= Len(attachments),
         Video(turn), markup' = Content!WithPlayer(turn), thumbnails' = <<>>, turn' = turn + 1,
         UNCHANGED <<rendering, attachments, mblob>>
  PROVE  MediaInv'
<1> USE DEF MediaInv
<1> DEFINE f == Content!Flushed
<1>1. /\ Len(attachments) \in Nat /\ turn \in Content!Turns /\ turn' \in 1..(Len(attachments) + 1)
      /\ WrittenTo = turn - 1 /\ WrittenTo' = turn /\ ListedTo' = 0 /\ ListedTo = 0
      /\ turn \in Nat
  BY NextTurn DEF MediaInv
<1>2. \A i : (Content!Shown(i)' <=> Content!Shown(i)) /\ (Video(i)' <=> Video(i))
  BY ItemsStay
<1>3. /\ f \in Seq(MarkupRow) /\ BlocksRise(f)
      /\ \A g \in 1..Len(f) : BlockIsRight(f[g], turn - 1)
      /\ \A i \in 1..(turn - 1) : Content!Shown(i) => WrittenIn(f, i)
      /\ \A i \in 1..(turn - 1) : Content!Shown(i) /\ Video(i) =>
           \E g \in 1..Len(f) : f[g] = Content!Player(i)
  BY Flushing
<1>4. markup' = IF Content!Shown(turn) THEN Append(f, Content!Player(turn)) ELSE f
  BY DEF Content!WithPlayer
<1> HIDE DEF f
<1>5. Len(f) \in Nat /\ Len(<<>>) = 0 /\ <<>> \in Seq(Content!Turns)
  BY <1>3, LenProperties, EmptySeq
<1>6. \A g \in 1..Len(f) : BlockIsRight(f[g], turn)
  <2> TAKE g \in 1..Len(f)
  <2>1. BlockIsRight(f[g], turn - 1)
    BY <1>3
  <2> QED
    BY <1>1, <2>1, BlockStays
<1>7. CASE ~Content!Shown(turn)
  <2>1. markup' = f
    BY <1>4, <1>7
  <2>2. MediaShape'
    BY <1>1, <1>3, <1>5, <2>1 DEF MediaShape
  <2>3. \A i \in 1..turn : Content!Shown(i) => i \in 1..(turn - 1)
    BY <1>1, <1>7
  <2>4. \A i : InMarkup(i)' <=> WrittenIn(f, i)
    BY <2>1 DEF InMarkup, WrittenIn
  <2>5. BlocksRise(markup') /\ Rising(thumbnails')
    BY <1>3, <1>5, <2>1 DEF Rising
  <2>6. MarkupInv'
    <3>1. (\A g \in 1..Len(markup) : BlockIsRight(markup[g], WrittenTo))'
      BY <1>1, <1>6, <2>1, BlocksLater
    <3>2. \A i \in 1..turn : Content!Shown(i) => InMarkup(i)'
      BY <1>3, <2>3, <2>4
    <3>3. \A i \in 1..turn : Content!Shown(i) /\ Video(i) =>
            \E g \in 1..Len(markup') : markup'[g] = Content!Player(i)
      BY <1>3, <2>1, <2>3
    <3> QED
      BY <1>1, <1>5, <2>5, <3>1, <3>2, <3>3, ItemsStay DEF MarkupInv
  <2>7. ListInv'
    BY <1>1, <1>2 DEF ListInv
  <2> QED
    BY <2>2, <2>6, <2>7
<1>8. CASE Content!Shown(turn)
  <2> DEFINE p == Content!Player(turn)
  <2>1. p.kind = "player" /\ p.of = <<turn>> /\ p \in MarkupRow
    BY <1>1 DEF Content!Player, MarkupRow
  <2>2. Len(p.of) = 1 /\ p.of[1] = turn /\ DOMAIN p.of = {1}
    BY <2>1
  <2> HIDE DEF p
  <2>3. markup' = Append(f, p)
    BY <1>4, <1>8 DEF p
  <2>4. /\ markup' \in Seq(MarkupRow) /\ Len(markup') = Len(f) + 1
        /\ \A g \in 1..Len(f) : markup'[g] = f[g]
        /\ markup'[Len(f) + 1] = p
    BY <1>3, <2>1, <2>3, AppendProperties
  <2>5. MediaShape'
    BY <1>1, <1>5, <2>4 DEF MediaShape
  <2>6. BlocksRise(markup')
    <3>1. ASSUME NEW g \in 1..Len(f), NEW k \in 1..Len(f[g].of), NEW l \in 1..Len(p.of)
          PROVE  f[g].of[k] < p.of[l]
      <4>1. k \in DOMAIN f[g].of
        <5>1. f[g] \in MarkupRow
          BY <1>3, ElementOfSeq
        <5> QED
          BY <5>1, LenProperties DEF MarkupRow
      <4>2. f[g].of[k] \in 1..(turn - 1)
        BY <1>1, <1>3, <4>1 DEF BlockIsRight
      <4> QED
        BY <1>1, <2>2, <4>2
    <3>2. Rising(p.of)
      BY <2>2 DEF Rising
    <3> QED
      BY <1>3, <2>1, <2>3, <3>1, <3>2, AppendedBlock
  <2>7. BlockIsRight(p, turn)
    <3>1. turn \in 1..turn
      BY <1>1, <2>1 DEF Content!Turns
    <3>2. \A k \in DOMAIN p.of : p.of[k] \in 1..turn /\ Content!Shown(p.of[k])
      BY <1>8, <2>2, <3>1
    <3>3. \E i \in 1..turn : p = Content!Player(i) /\ Video(i)
      BY <3>1 DEF p
    <3> QED
      BY <3>2, <3>3 DEF BlockIsRight
  <2>8. (\A g \in 1..Len(markup) : BlockIsRight(markup[g], WrittenTo))'
    <3>1. ASSUME NEW g \in 1..Len(markup') PROVE BlockIsRight(markup'[g], turn)
      BY <1>5, <1>6, <2>4, <2>7
    <3> QED
      BY <1>1, <3>1, BlocksLater
  <2>9. ASSUME NEW i \in 1..turn, Content!Shown(i) PROVE InMarkup(i)'
    <3>1. CASE i = turn
      <4>1. Len(f) + 1 \in 1..Len(markup') /\ 1 \in 1..Len(p.of)
        BY <1>5, <2>2, <2>4
      <4> QED
        BY <2>2, <2>4, <3>1, <4>1 DEF InMarkup
    <3>2. CASE i # turn
      <4>1. WrittenIn(f, i)
        BY <1>1, <1>3, <2>9, <3>2
      <4>2. PICK g \in 1..Len(f) : \E k \in 1..Len(f[g].of) : f[g].of[k] = i
        BY <4>1 DEF WrittenIn
      <4>3. g \in 1..Len(markup') /\ markup'[g] = f[g]
        BY <1>5, <2>4
      <4> QED
        BY <4>2, <4>3 DEF InMarkup
    <3> QED
      BY <3>1, <3>2
  <2>10. ASSUME NEW i \in 1..turn, Content!Shown(i), Video(i)
         PROVE  \E g \in 1..Len(markup') : markup'[g] = Content!Player(i)
    <3>1. CASE i = turn
      BY <1>5, <2>4, <3>1 DEF p
    <3>2. CASE i # turn
      <4>1. PICK g \in 1..Len(f) : f[g] = Content!Player(i)
        BY <1>1, <1>3, <2>10, <3>2
      <4> QED
        BY <1>5, <2>4, <4>1
    <3> QED
      BY <3>1, <3>2
  <2>11. Rising(thumbnails')
    BY <1>5 DEF Rising
  <2>12. MarkupInv'
    BY <1>1, <1>5, <2>6, <2>8, <2>9, <2>10, <2>11, ItemsStay DEF MarkupInv
  <2>13. ListInv'
    BY <1>1, <1>2 DEF ListInv
  <2> QED
    BY <2>5, <2>12, <2>13
<1> QED
  BY <1>7, <1>8

LEMMA RenderAttachmentStep ==
  ASSUME ContentBounded, MediaInv, Content!RenderAttachment PROVE MediaInv'
<1>1. /\ rendering = "markup" /\ turn <= Len(attachments) /\ turn' = turn + 1
      /\ UNCHANGED <<rendering, attachments, mblob>>
  BY DEF Content!RenderAttachment
<1>2. attachments[turn] \in Content!Attachment
  <2>1. attachments \in Seq(Content!Attachment) /\ Len(attachments) \in Nat
    BY LenProperties DEF MediaInv, MediaShape
  <2> QED
    BY <1>1, <2>1, ElementOfSeq DEF MediaInv, MediaShape
<1>3. attachments[turn].type \in {"image", "video", "gifv", "audio"}
  BY <1>2 DEF Content!Attachment
<1>4. CASE attachments[turn].type = "image"
  <2>1. /\ thumbnails' = IF Content!Shown(turn) THEN Append(thumbnails, turn) ELSE thumbnails
        /\ UNCHANGED markup
    BY <1>4 DEF Content!RenderAttachment, Content!IsVideo
  <2>2. CASE Content!Shown(turn)
    BY <1>1, <1>4, <2>1, <2>2, ImageStep
  <2>3. CASE ~Content!Shown(turn)
    BY <1>1, <2>1, <2>3, PassStep
  <2> QED
    BY <2>2, <2>3
<1>5. CASE Video(turn)
  <2>1. markup' = Content!WithPlayer(turn) /\ thumbnails' = <<>>
    BY <1>5 DEF Content!RenderAttachment, Video, Content!IsVideo
  <2> QED
    BY <1>1, <1>5, <2>1, VideoStep
<1>6. CASE attachments[turn].type = "audio"
  <2>1. UNCHANGED <<thumbnails, markup>> /\ ~Content!Shown(turn)
    BY <1>6 DEF Content!RenderAttachment, Content!IsVideo, Content!Shown
  <2> QED
    BY <1>1, <2>1, PassStep
<1> QED
  BY <1>3, <1>4, <1>5, <1>6 DEF Video, Content!IsVideo

LEMMA MarkupStays ==
  ASSUME MarkupInv, UNCHANGED <<attachments, thumbnails, markup>>, WrittenTo' = WrittenTo
  PROVE  MarkupInv'
<1>1. \A i : (InMarkup(i)' <=> InMarkup(i)) /\ (Waiting(i)' <=> Waiting(i))
  BY DEF InMarkup, Waiting
<1>2. (\A g \in 1..Len(markup) : BlockIsRight(markup[g], WrittenTo))'
  BY BlocksLater DEF MarkupInv
<1>3. BlocksRise(markup') /\ Rising(thumbnails')
  BY DEF MarkupInv, BlocksRise, Rising
<1> QED
  BY <1>1, <1>2, <1>3, ItemsStay DEF MarkupInv

LEMMA ListStays ==
  ASSUME ListInv, UNCHANGED <<attachments, mblob>>, ListedTo' = ListedTo PROVE ListInv'
BY ItemsStay DEF ListInv

LEMMA AttachmentsEndStep ==
  ASSUME ContentBounded, MediaInv, Content!AttachmentsEnd PROVE MediaInv'
<1> DEFINE f == Content!Flushed
<1>1. /\ rendering = "markup" /\ turn > Len(attachments) /\ rendering' = "mblob"
      /\ markup' = f /\ thumbnails' = <<>> /\ turn' = 1
      /\ UNCHANGED <<attachments, mblob>>
  BY DEF Content!AttachmentsEnd, Content!textVars
<1>2. /\ Len(attachments) \in Nat /\ turn = Len(attachments) + 1
      /\ Len(<<>>) = 0 /\ <<>> \in Seq(Content!Turns)
  <2>1. Len(attachments) \in Nat
    BY LenProperties DEF MediaInv, MediaShape
  <2> QED
    BY <1>1, <2>1, EmptySeq DEF MediaInv, MediaShape
<1>3. WrittenTo' = Len(attachments) /\ turn - 1 = Len(attachments)
  BY <1>1, <1>2 DEF WrittenTo
<1>4. ListedTo' = 0 /\ ListedTo = 0
  BY <1>1 DEF ListedTo
<1>5. /\ f \in Seq(MarkupRow) /\ BlocksRise(f)
      /\ \A g \in 1..Len(f) : BlockIsRight(f[g], turn - 1)
      /\ \A i \in 1..(turn - 1) : Content!Shown(i) => WrittenIn(f, i)
      /\ \A i \in 1..(turn - 1) : Content!Shown(i) /\ Video(i) =>
           \E g \in 1..Len(f) : f[g] = Content!Player(i)
  BY <1>1, Flushing
<1> HIDE DEF f
<1>6. MediaShape'
  BY <1>1, <1>2, <1>5 DEF MediaInv, MediaShape
<1>7. (\A g \in 1..Len(markup) : BlockIsRight(markup[g], WrittenTo))'
  BY <1>1, <1>3, <1>5, BlocksLater
<1>8. Rising(thumbnails') /\ BlocksRise(markup')
  BY <1>1, <1>2, <1>5 DEF Rising
<1>9. \A i \in 1..WrittenTo' : Content!Shown(i) => InMarkup(i)'
  BY <1>1, <1>3, <1>5 DEF WrittenIn, InMarkup
<1>10. \A i \in 1..WrittenTo' : Content!Shown(i) /\ Video(i) =>
         \E g \in 1..Len(markup') : markup'[g] = Content!Player(i)
  BY <1>1, <1>3, <1>5
<1>11. MarkupInv'
  BY <1>1, <1>2, <1>7, <1>8, <1>9, <1>10, ItemsStay DEF MarkupInv
<1>12. ListInv'
  BY <1>1, <1>4, ListStays DEF MediaInv
<1> QED
  BY <1>6, <1>11, <1>12 DEF MediaInv

LEMMA ListVideoStep ==
  ASSUME ContentBounded, MediaInv, Content!ListVideo PROVE MediaInv'
<1>1. /\ rendering = "mblob" /\ turn <= Len(attachments) /\ turn' = turn + 1
      /\ UNCHANGED <<rendering, attachments, thumbnails, markup>>
      /\ mblob' = IF Video(turn) /\ Content!Shown(turn)
                  THEN Append(mblob, [of |-> turn, isdefault |-> mblob = <<>>]) ELSE mblob
  BY DEF Content!ListVideo, Content!textVars, Video
<1>2. /\ Len(attachments) \in Nat /\ turn \in Nat \ {0} /\ turn \in Content!Turns
      /\ turn' \in 1..(Len(attachments) + 1) /\ thumbnails = <<>>
      /\ mblob \in Seq(Listing)
  <2>1. Len(attachments) \in Nat
    BY LenProperties DEF MediaInv, MediaShape
  <2> QED
    BY <1>1, <2>1 DEF MediaInv, MediaShape, ContentBounded, Content!Turns
<1>3. ListedTo = turn - 1 /\ ListedTo' = turn
  BY <1>1, <1>2 DEF ListedTo
<1>4. MarkupInv'
  <2>1. WrittenTo' = WrittenTo
    BY <1>1 DEF WrittenTo
  <2> QED
    BY <1>1, <2>1, MarkupStays DEF MediaInv
<1>5. CASE ~(Video(turn) /\ Content!Shown(turn))
  <2>1. mblob' = mblob
    BY <1>1, <1>5
  <2>2. MediaShape'
    BY <1>1, <1>2, <2>1 DEF MediaInv, MediaShape
  <2>3. ListInv'
    <3>1. \A i \in 1..turn : Content!Shown(i) /\ Video(i) => i \in 1..(turn - 1)
      BY <1>2, <1>5
    <3>2. \A i \in 1..(turn - 1) : i \in 1..turn
      BY <1>2
    <3> QED
      BY <1>1, <1>3, <2>1, <3>1, <3>2, ItemsStay DEF MediaInv, ListInv
  <2> QED
    BY <1>4, <2>2, <2>3 DEF MediaInv
<1>6. CASE Video(turn) /\ Content!Shown(turn)
  <2> DEFINE l == [of |-> turn, isdefault |-> mblob = <<>>]
  <2>1. l \in Listing /\ l.of = turn /\ (l.isdefault <=> mblob = <<>>)
    BY <1>2 DEF Listing
  <2>2. mblob' = Append(mblob, l)
    BY <1>1, <1>6
  <2> HIDE DEF l
  <2>3. /\ mblob' \in Seq(Listing) /\ Len(mblob') = Len(mblob) + 1 /\ Len(mblob) \in Nat
        /\ \A v \in 1..Len(mblob) : mblob'[v] = mblob[v]
        /\ mblob'[Len(mblob) + 1] = l
    BY <1>2, <2>1, <2>2, AppendProperties, LenProperties
  <2>4. MediaShape'
    BY <1>1, <1>2, <2>3 DEF MediaInv, MediaShape
  <2>5. mblob = <<>> <=> Len(mblob) + 1 = 1
    BY <1>2, EmptySeq
  <2>6. ASSUME NEW v \in 1..Len(mblob')
        PROVE  /\ mblob'[v].of \in 1..turn /\ Content!Shown(mblob'[v].of)
               /\ Video(mblob'[v].of)
               /\ mblob'[v].isdefault <=> v = 1
    <3>1. CASE v = Len(mblob) + 1
      <4>1. mblob'[v] = l /\ turn \in 1..turn
        BY <1>2, <2>3, <3>1
      <4> QED
        BY <1>6, <2>1, <2>5, <3>1, <4>1
    <3>2. CASE v \in 1..Len(mblob)
      BY <1>2, <1>3, <2>3, <3>2 DEF MediaInv, ListInv
    <3> QED
      BY <2>3, <3>1, <3>2
  <2>7. ASSUME NEW i \in 1..turn, Content!Shown(i), Video(i)
        PROVE  \E v \in 1..Len(mblob') : mblob'[v].of = i
    <3>1. CASE i = turn
      <4>1. Len(mblob) + 1 \in 1..Len(mblob')
        BY <2>3
      <4> QED
        BY <2>1, <2>3, <3>1, <4>1
    <3>2. CASE i # turn
      <4>1. PICK v \in 1..Len(mblob) : mblob[v].of = i
        BY <1>2, <1>3, <2>7, <3>2 DEF MediaInv, ListInv
      <4> QED
        BY <2>3, <4>1
    <3> QED
      BY <3>1, <3>2
  <2>8. ListInv'
    BY <1>1, <1>3, <2>6, <2>7, ItemsStay DEF ListInv
  <2> QED
    BY <1>4, <2>4, <2>8 DEF MediaInv
<1> QED
  BY <1>5, <1>6

\* The other steps leave the attachments to the end of their loop.
LEMMA OtherStep ==
  ASSUME ContentBounded, MediaInv, UNCHANGED Content!mediaVars,
         \/ rendering = "mblob" /\ rendering' = "done" /\ turn > Len(attachments)
         \/ rendering = "text" /\ rendering' \in {"text", "tail"}
         \/ rendering = "tail" /\ rendering' = "done"
  PROVE  MediaInv'
<1>1. UNCHANGED <<attachments, turn, thumbnails, markup, mblob>>
  BY DEF Content!mediaVars
<1>2. Len(attachments) \in Nat /\ turn \in 1..(Len(attachments) + 1)
  BY LenProperties DEF MediaInv, MediaShape
<1>3. WrittenTo' = WrittenTo
  BY <1>1 DEF WrittenTo
<1>4. ListedTo' = ListedTo
  BY <1>1, <1>2 DEF ListedTo
<1>5. MediaShape'
  BY <1>1 DEF MediaInv, MediaShape
<1> QED
  BY <1>1, <1>3, <1>4, <1>5, MarkupStays, ListStays DEF MediaInv

LEMMA MediaNext ==
  ASSUME ContentBounded, MediaInv, [Content!Next]_(Content!vars) PROVE MediaInv'
<1>1. CASE Content!RenderAttachment
  BY <1>1, RenderAttachmentStep
<1>2. CASE Content!AttachmentsEnd
  BY <1>2, AttachmentsEndStep
<1>3. CASE Content!ListVideo
  BY <1>3, ListVideoStep
<1>4. CASE Content!VideosEnd
  BY <1>4, OtherStep DEF Content!VideosEnd
<1>5. CASE Content!RenderFacet \/ Content!FacetsEnd \/ Content!RenderTail
  BY <1>5, OtherStep DEF Content!RenderFacet, Content!FacetsEnd, Content!RenderTail
<1>6. CASE UNCHANGED Content!vars
  <2>1. UNCHANGED <<rendering, attachments, turn, thumbnails, markup, mblob>>
    BY <1>6 DEF Content!vars, Content!mediaVars
  <2>2. WrittenTo' = WrittenTo /\ ListedTo' = ListedTo /\ MediaShape'
    BY <2>1 DEF WrittenTo, ListedTo, MediaInv, MediaShape
  <2> QED
    BY <2>1, <2>2, MarkupStays, ListStays DEF MediaInv
<1> QED
  BY <1>1, <1>2, <1>3, <1>4, <1>5, <1>6 DEF Content!Next

LEMMA MediaInit == ASSUME ContentBounded, Content!Init PROVE MediaInv
<1>1. /\ attachments \in Content!Lists(Content!Attachment, MaxAttachments)
      /\ rendering = "text" => attachments = <<>>
      /\ rendering \in {"text", "markup"}
      /\ turn = 1 /\ thumbnails = <<>> /\ markup = <<>> /\ mblob = <<>>
  <2>1. <<>> \in Content!Lists(Content!Attachment, MaxAttachments)
    <3>1. <<>> \in [1..0 -> Content!Attachment] /\ 0 \in 0..MaxAttachments
      BY DEF ContentBounded
    <3> QED
      BY <3>1 DEF Content!Lists
  <2> QED
    BY <2>1 DEF Content!Init
<1>2. attachments \in Seq(Content!Attachment) /\ Len(attachments) \in 0..MaxAttachments
  <2>1. PICK m \in 0..MaxAttachments : attachments \in [1..m -> Content!Attachment]
    BY <1>1 DEF Content!Lists
  <2>2. m \in Nat
    BY <2>1 DEF ContentBounded
  <2> QED
    BY <2>1, <2>2
<1>3. \A S : <<>> \in Seq(S) /\ Len(<<>>) = 0
  BY EmptySeq
<1>4. MediaShape
  BY <1>1, <1>2, <1>3 DEF MediaShape, ContentBounded
<1>5. CASE rendering = "markup"
  <2>1. WrittenTo = 0 /\ ListedTo = 0
    BY <1>1, <1>5 DEF WrittenTo, ListedTo
  <2> QED
    BY <1>1, <1>3, <1>4, <2>1 DEF MediaInv, MarkupInv, ListInv, BlocksRise, Rising
<1>6. CASE rendering = "text"
  <2>1. WrittenTo = 0 /\ ListedTo = 0
    BY <1>1, <1>3, <1>6 DEF WrittenTo, ListedTo
  <2> QED
    BY <1>1, <1>3, <1>4, <2>1 DEF MediaInv, MarkupInv, ListInv, BlocksRise, Rising
<1> QED
  BY <1>1, <1>5, <1>6

LEMMA MediaIsInOrder ==
  ASSUME ContentBounded, MediaInv PROVE Content!MediaInOrder
<1> SUFFICES ASSUME rendering = "done" PROVE
      /\ \A i \in DOMAIN attachments : Content!Shown(i) =>
           \E g \in DOMAIN markup : \E k \in DOMAIN markup[g].of : markup[g].of[k] = i
      /\ \A g, h \in DOMAIN markup : \A k \in DOMAIN markup[g].of, l \in DOMAIN markup[h].of :
           /\ Content!Shown(markup[g].of[k])
           /\ Content!Before(g, k, h, l) => markup[g].of[k] < markup[h].of[l]
      /\ \A i \in DOMAIN attachments :
           (\E g \in DOMAIN markup : markup[g] = Content!Player(i))
             <=> (\E v \in DOMAIN mblob : mblob[v].of = i)
      /\ \A v \in DOMAIN mblob : mblob[v].isdefault <=> v = 1
  BY DEF Content!MediaInOrder
<1>1. /\ DOMAIN attachments = 1..Len(attachments) /\ DOMAIN markup = 1..Len(markup)
      /\ DOMAIN mblob = 1..Len(mblob) /\ Len(thumbnails) = 0
      /\ WrittenTo = Len(attachments) /\ ListedTo = Len(attachments)
  BY LenProperties, EmptySeq DEF MediaInv, MediaShape, WrittenTo, ListedTo
<1>2. \A g \in 1..Len(markup) : DOMAIN markup[g].of = 1..Len(markup[g].of)
  BY RowsAreSequences DEF MediaInv, MediaShape
<1>3. ASSUME NEW i \in DOMAIN attachments, Content!Shown(i)
      PROVE  \E g \in DOMAIN markup : \E k \in DOMAIN markup[g].of : markup[g].of[k] = i
  <2>1. InMarkup(i)
    BY <1>1, <1>3 DEF MediaInv, MarkupInv, Waiting
  <2> QED
    BY <1>1, <1>2, <2>1 DEF InMarkup
<1>4. ASSUME NEW g \in DOMAIN markup, NEW h \in DOMAIN markup,
             NEW k \in DOMAIN markup[g].of, NEW l \in DOMAIN markup[h].of
      PROVE  /\ Content!Shown(markup[g].of[k])
             /\ Content!Before(g, k, h, l) => markup[g].of[k] < markup[h].of[l]
  <2>1. Content!Shown(markup[g].of[k])
    BY <1>1 DEF MediaInv, MarkupInv, BlockIsRight
  <2>2. k \in 1..Len(markup[g].of) /\ l \in 1..Len(markup[h].of)
    BY <1>1, <1>2
  <2>3. BlocksRise(markup) /\ g \in 1..Len(markup) /\ h \in 1..Len(markup)
    BY <1>1 DEF MediaInv, MarkupInv
  <2>4. g < h => markup[g].of[k] < markup[h].of[l]
    BY <2>2, <2>3 DEF BlocksRise
  <2>5. g = h /\ k < l => markup[g].of[k] < markup[h].of[l]
    BY <2>2, <2>3 DEF BlocksRise, Rising
  <2> QED
    BY <2>1, <2>4, <2>5 DEF Content!Before
<1>5. ASSUME NEW i \in DOMAIN attachments
      PROVE  (\E g \in DOMAIN markup : markup[g] = Content!Player(i))
               <=> (\E v \in DOMAIN mblob : mblob[v].of = i)
  <2>1. ASSUME NEW g \in DOMAIN markup, markup[g] = Content!Player(i)
        PROVE  \E v \in DOMAIN mblob : mblob[v].of = i
    <3>1. BlockIsRight(markup[g], Len(attachments))
      BY <1>1 DEF MediaInv, MarkupInv
    <3>2. markup[g].kind = "player" /\ markup[g].of = <<i>>
      BY <2>1 DEF Content!Player
    <3>3. PICK j \in 1..Len(attachments) : markup[g] = Content!Player(j) /\ Video(j)
      BY <3>1, <3>2 DEF BlockIsRight
    <3>4. markup[g].of = <<j>>
      BY <3>3 DEF Content!Player
    <3>5. j = i
      BY <3>2, <3>4
    <3>6. 1 \in DOMAIN markup[g].of /\ markup[g].of[1] = i
      BY <3>2
    <3>7. Content!Shown(i)
      BY <3>1, <3>6 DEF BlockIsRight
    <3> QED
      BY <1>1, <3>3, <3>5, <3>7 DEF MediaInv, ListInv
  <2>2. ASSUME NEW v \in DOMAIN mblob, mblob[v].of = i
        PROVE  \E g \in DOMAIN markup : markup[g] = Content!Player(i)
    <3>1. Content!Shown(i) /\ Video(i)
      BY <1>1, <2>2 DEF MediaInv, ListInv
    <3> QED
      BY <1>1, <3>1 DEF MediaInv, MarkupInv
  <2> QED
    BY <2>1, <2>2
<1>6. \A v \in DOMAIN mblob : mblob[v].isdefault <=> v = 1
  BY <1>1 DEF MediaInv, ListInv
<1> QED
  BY <1>3, <1>4, <1>5, <1>6

-----------------------------------------------------------------------------
(* The text of a post.                                                     *)

\* Numbers can be put in the order of a stable sort: a new last one goes behind
\* those that are not greater.
Ordered(key, n, p) ==
  /\ \A i, j \in 1..n : i # j => p[i] # p[j]
  /\ \A i, j \in 1..n : i < j => \/ key[p[i]] < key[p[j]]
                                 \/ key[p[i]] = key[p[j]] /\ p[i] < p[j]

LEMMA OrderOfMore ==
  ASSUME NEW n \in Nat, NEW key \in [1..(n + 1) -> Int],
         NEW q \in [1..n -> 1..n], Ordered(key, n, q)
  PROVE  \E p \in [1..(n + 1) -> 1..(n + 1)] : Ordered(key, n + 1, p)
<1> DEFINE last == key[n + 1]
<1> DEFINE P == {k \in 1..(n + 1) : k = n + 1 \/ key[q[k]] > last}
<1>1. PICK k \in P : \A l \in P : k <= l
  <2>1. n + 1 \in P /\ P \in SUBSET Nat
    OBVIOUS
  <2> QED
    BY <2>1, LeastExists
<1>2. k \in 1..(n + 1) /\ (k = n + 1 \/ key[q[k]] > last)
  BY <1>1
<1>3. \A i \in 1..n : q[i] \in 1..n
  OBVIOUS
<1>4. last \in Int /\ \A i \in 1..n : key[q[i]] \in Int
  <2>1. n + 1 \in 1..(n + 1) /\ \A i \in 1..n : i \in 1..(n + 1)
    OBVIOUS
  <2> QED
    BY <1>3, <2>1
<1>5. \A i \in 1..(n + 1) : i < k => i \in 1..n /\ key[q[i]] <= last
  <2> TAKE i \in 1..(n + 1)
  <2> SUFFICES ASSUME i < k PROVE i \in 1..n /\ key[q[i]] <= last
    OBVIOUS
  <2>1. i \in 1..n
    BY <1>2
  <2>2. ~(key[q[i]] > last)
    <3>1. i \notin P
      BY <1>1, <1>2
    <3> QED
      BY <3>1
  <2>3. key[q[i]] \in Int /\ last \in Int
    BY <1>4, <2>1
  <2> HIDE DEF last
  <2> QED
    BY <2>1, <2>2, <2>3
<1> HIDE DEF P, last
<1>6. \A i, j \in 1..n : i < j => \/ key[q[i]] < key[q[j]]
                                  \/ key[q[i]] = key[q[j]] /\ q[i] < q[j]
  BY DEF Ordered
<1>7. \A i \in 1..n : k <= i => key[q[i]] > last
  <2> SUFFICES ASSUME NEW i \in 1..n, k <= i PROVE key[q[i]] > last
    OBVIOUS
  <2>1. k \in 1..n /\ key[q[k]] > last
    BY <1>2
  <2>2. CASE k = i
    BY <2>1, <2>2
  <2>3. CASE k < i
    <3> DEFINE a == key[q[k]]
               b == key[q[i]]
    <3>1. a \in Int /\ b \in Int /\ last \in Int
      BY <1>4, <2>1
    <3>2. a > last
      BY <2>1
    <3>3. a < b \/ a = b
      BY <1>6, <2>1, <2>3
    <3> HIDE DEF a, b
    <3>4. b > last
      <4>1. CASE a < b
        BY <3>1, <3>2, <4>1
      <4>2. CASE a = b
        BY <3>2, <4>2
      <4> QED
        BY <3>3, <4>1, <4>2
    <3> QED
      BY <3>4 DEF b
  <2> QED
    BY <2>1, <2>2, <2>3
<1> DEFINE p == [i \in 1..(n + 1) |-> IF i < k THEN q[i] ELSE IF i = k THEN n + 1 ELSE q[i - 1]]
<1>8. \A i \in 1..(n + 1) : i < k => i \in 1..n /\ p[i] = q[i] /\ p[i] \in 1..n
  BY <1>3, <1>5
<1>9. \A i \in 1..(n + 1) : i = k => p[i] = n + 1
  OBVIOUS
<1>10. \A i \in 1..(n + 1) : k < i =>
         i - 1 \in 1..n /\ k <= i - 1 /\ p[i] = q[i - 1] /\ p[i] \in 1..n
  <2> SUFFICES ASSUME NEW i \in 1..(n + 1), k < i
               PROVE  i - 1 \in 1..n /\ k <= i - 1 /\ p[i] = q[i - 1] /\ p[i] \in 1..n
    OBVIOUS
  <2>1. i - 1 \in 1..n /\ k <= i - 1 /\ ~(i < k) /\ i # k
    BY <1>2
  <2> QED
    BY <1>3, <2>1
<1> HIDE DEF p
<1>11. p \in [1..(n + 1) -> 1..(n + 1)]
  <2>1. ASSUME NEW i \in 1..(n + 1) PROVE p[i] \in 1..(n + 1)
    <3>1. i < k \/ i = k \/ k < i
      BY <1>2
    <3>2. p[i] \in 1..n \/ p[i] = n + 1
      BY <1>8, <1>9, <1>10, <3>1
    <3> QED
      BY <3>2
  <2> QED
    BY <2>1 DEF p
<1>12. ASSUME NEW i \in 1..(n + 1), NEW j \in 1..(n + 1), i < j
       PROVE  \/ key[p[i]] < key[p[j]]
              \/ key[p[i]] = key[p[j]] /\ p[i] < p[j]
  <2>1. CASE j < k
    <3>1. i < k
      BY <1>2, <1>12, <2>1
    <3> QED
      BY <1>6, <1>8, <1>12, <2>1, <3>1
  <2>2. CASE j = k
    <3>1. i \in 1..n /\ p[i] = q[i] /\ q[i] \in 1..n /\ key[q[i]] <= last
      BY <1>5, <1>8, <1>12, <2>2
    <3>2. p[j] = n + 1 /\ key[p[j]] = last
      BY <1>9, <2>2 DEF last
    <3>3. key[p[i]] \in Int /\ key[p[j]] \in Int
      BY <1>4, <3>1, <3>2
    <3> QED
      BY <3>1, <3>2, <3>3
  <2>3. CASE k < j /\ i < k
    <3>1. p[i] = q[i] /\ key[q[i]] <= last /\ i \in 1..n
      BY <1>5, <1>8, <2>3
    <3>2. p[j] = q[j - 1] /\ key[q[j - 1]] > last /\ j - 1 \in 1..n
      BY <1>7, <1>10, <2>3
    <3> DEFINE a == key[p[i]]
               b == key[p[j]]
    <3>3. a \in Int /\ b \in Int /\ a <= last /\ b > last
      BY <1>4, <3>1, <3>2
    <3> HIDE DEF a, b
    <3>4. a < b
      BY <1>4, <3>3
    <3> QED
      BY <3>4 DEF a, b
  <2>4. CASE k < j /\ i = k
    <3>1. p[i] = n + 1 /\ key[p[i]] = last
      BY <1>9, <2>4 DEF last
    <3>2. p[j] = q[j - 1] /\ key[q[j - 1]] > last /\ j - 1 \in 1..n
      BY <1>7, <1>10, <2>4
    <3>3. key[p[i]] \in Int /\ key[p[j]] \in Int
      BY <1>4, <3>1, <3>2
    <3> QED
      BY <3>1, <3>2, <3>3
  <2>5. CASE k < j /\ k < i
    <3>1. p[i] = q[i - 1] /\ i - 1 \in 1..n /\ p[j] = q[j - 1] /\ j - 1 \in 1..n
      BY <1>10, <2>5
    <3>2. i - 1 < j - 1
      BY <1>12
    <3> QED
      BY <1>6, <3>1, <3>2
  <2> QED
    BY <1>2, <2>1, <2>2, <2>3, <2>4, <2>5
<1>13. \A i, j \in 1..(n + 1) : i < j => p[i] # p[j]
  <2> SUFFICES ASSUME NEW i \in 1..(n + 1), NEW j \in 1..(n + 1), i < j, p[i] = p[j]
               PROVE  FALSE
    OBVIOUS
  <2>1. p[i] \in 1..(n + 1) /\ key[p[i]] \in Int
    BY <1>11
  <2>2. key[p[i]] < key[p[i]] \/ p[i] < p[i]
    BY <1>12
  <2> QED
    BY <2>1, <2>2
<1>14. \A i, j \in 1..(n + 1) : i # j => p[i] # p[j]
  BY <1>13
<1> QED
  BY <1>11, <1>12, <1>14 DEF Ordered

LEMMA OrderExists ==
  ASSUME NEW n \in Nat, NEW key \in [1..n -> Int]
  PROVE  \E p \in [1..n -> 1..n] : Ordered(key, n, p)
<1> DEFINE Bad == {m \in Nat : \E k \in [1..m -> Int] : \A p \in [1..m -> 1..m] : ~Ordered(k, m, p)}
<1> SUFFICES ASSUME n \in Bad PROVE FALSE
  OBVIOUS
<1>1. PICK m \in Bad : \A l \in Bad : m <= l
  <2>1. Bad \in SUBSET Nat /\ Bad # {}
    OBVIOUS
  <2> QED
    BY <2>1, LeastExists
<1>2. m \in Nat
  BY <1>1
<1>3. PICK k \in [1..m -> Int] : \A p \in [1..m -> 1..m] : ~Ordered(k, m, p)
  BY <1>1
<1>4. m # 0
  <2> SUFFICES ASSUME m = 0 PROVE FALSE
    OBVIOUS
  <2> DEFINE none == [i \in 1..m |-> i]
  <2>1. none \in [1..m -> 1..m] /\ Ordered(k, m, none)
    BY DEF Ordered
  <2> QED
    BY <1>3, <2>1
<1>5. PICK l \in Nat : m = l + 1
  BY <1>2, <1>4
<1>6. l \notin Bad
  <2>1. ~(m <= l)
    BY <1>2, <1>5
  <2> HIDE DEF Bad
  <2> QED
    BY <1>1, <2>1
<1> DEFINE k1 == [i \in 1..l |-> k[i]]
<1>7. k1 \in [1..l -> Int]
  BY <1>5
<1>8. PICK q \in [1..l -> 1..l] : Ordered(k1, l, q)
  BY <1>6, <1>7
<1>9. Ordered(k, l, q)
  <2>1. \A i \in 1..l : k1[q[i]] = k[q[i]]
    OBVIOUS
  <2> QED
    BY <1>8, <2>1 DEF Ordered
<1> QED
  BY <1>3, <1>5, <1>9, OrderOfMore

\* The pieces follow each other from the first byte to e, at starts of characters.
Joined(c, e) ==
  /\ c = <<>> => e = 0
  /\ c # <<>> => c[1].from = 0 /\ c[Len(c)].to = e
  /\ \A i \in 1..Len(c) : c[i].from <= c[i].to /\ c[i].from \in starts /\ c[i].to \in starts
  /\ \A i \in 1..Len(c) : i > 1 => c[i - 1].to = c[i].from

\* The facets in order, of which the first have had their turn; a facet that is
\* to be a link is valid and apart from every other valid one.
Arranged == Content!Sorted(given)
Consumed == Len(given) - Len(facets)
Lonely(i) ==
  /\ Content!Valid(Arranged[i])
  /\ \A j \in 1..Len(given) :
       j # i /\ Content!Valid(Arranged[j]) => Content!Apart(Arranged[i], Arranged[j])
IsLink(c, f) == \E i \in 1..Len(c) : c[i] = Content!Piece(f.start, f.end, Content!TargetOf(f))

\* A valid facet was rendered last.
Reached == \E j \in 1..Consumed : Content!Valid(Arranged[j]) /\ current = Arranged[j].end

TextShape ==
  /\ rendering \in {"text", "tail", "markup", "mblob", "done"}
  /\ size \in 0..Bytes /\ starts \in SUBSET (0..size) /\ {0, size} \subseteq starts
  /\ given \in Seq(Content!Facet) /\ facets \in Seq(Content!Facet)
  /\ Len(facets) <= Len(given)
  /\ \A i \in 1..Len(facets) : facets[i] = Arranged[Consumed + i]
  /\ rendering # "text" => facets = <<>>
  /\ rendering \in {"markup", "mblob"} => chunks = <<>>
  /\ chunks \in Seq(Content!Chunk)

TextInv ==
  /\ TextShape
  /\ current \in starts /\ Joined(chunks, current)
  /\ rendering = "done" /\ chunks # <<>> => current = size
  /\ rendering = "text" => current = 0 \/ Reached
  /\ \A i \in 1..Consumed : Lonely(i) => IsLink(chunks, Arranged[i])

-----------------------------------------------------------------------------
\* What the stable sort gives, of facets with a start.
LEMMA SortedIs ==
  ASSUME NEW n \in Nat, NEW s, DOMAIN s = 1..n, \A i \in 1..n : s[i].start \in Int
  PROVE  \E p \in [1..n -> 1..n] :
           /\ Content!Sorted(s) = [i \in 1..n |-> s[p[i]]]
           /\ Ordered([i \in 1..n |-> s[i].start], n, p)
<1> DEFINE key == [i \in 1..n |-> s[i].start]
<1> DEFINE IsOrder(p) ==
      /\ \A i, j \in DOMAIN s : i # j => p[i] # p[j]
      /\ \A i, j \in DOMAIN s :
           i < j => \/ s[p[i]].start < s[p[j]].start
                    \/ s[p[i]].start = s[p[j]].start /\ p[i] < p[j]
<1> DEFINE order == CHOOSE p \in [DOMAIN s -> DOMAIN s] : IsOrder(p)
<1>1. key \in [1..n -> Int] /\ \A i \in 1..n : key[i] = s[i].start
  OBVIOUS
<1> HIDE DEF key
<1>2. \A p \in [1..n -> 1..n] : IsOrder(p) <=> Ordered(key, n, p)
  <2> TAKE p \in [1..n -> 1..n]
  <2>1. \A i \in 1..n : p[i] \in 1..n
    OBVIOUS
  <2>2. \A i \in 1..n : key[p[i]] = s[p[i]].start
    BY <1>1, <2>1
  <2>3. ASSUME IsOrder(p) PROVE Ordered(key, n, p)
    <3>1. \A i, j \in 1..n : i # j => p[i] # p[j]
      BY <2>3, Zenon
    <3>2. \A i, j \in 1..n :
            i < j => \/ s[p[i]].start < s[p[j]].start
                     \/ s[p[i]].start = s[p[j]].start /\ p[i] < p[j]
      BY <2>3, Zenon
    <3>3. ASSUME NEW i \in 1..n, NEW j \in 1..n, i < j
          PROVE  \/ key[p[i]] < key[p[j]]
                 \/ key[p[i]] = key[p[j]] /\ p[i] < p[j]
      <4>1. key[p[i]] = s[p[i]].start /\ key[p[j]] = s[p[j]].start
        BY <2>2
      <4>2. \/ s[p[i]].start < s[p[j]].start
            \/ s[p[i]].start = s[p[j]].start /\ p[i] < p[j]
        BY <3>2, <3>3, Zenon
      <4> QED
        BY <4>1, <4>2, Zenon
    <3> QED
      BY <3>1, <3>3 DEF Ordered
  <2>4. ASSUME Ordered(key, n, p) PROVE IsOrder(p)
    <3>1. \A i, j \in 1..n : i # j => p[i] # p[j]
      BY <2>4 DEF Ordered
    <3>2. \A i, j \in 1..n :
            i < j => \/ s[p[i]].start < s[p[j]].start
                     \/ s[p[i]].start = s[p[j]].start /\ p[i] < p[j]
      BY <2>2, <2>4 DEF Ordered
    <3> QED
      BY <3>1, <3>2, Zenon
  <2> QED
    BY <2>3, <2>4
<1>3. \E p \in [DOMAIN s -> DOMAIN s] : IsOrder(p)
  BY <1>1, <1>2, OrderExists
<1>4. order \in [1..n -> 1..n] /\ IsOrder(order)
  <2> HIDE DEF IsOrder
  <2> QED
    BY <1>3
<1>5. Content!Sorted(s) = [i \in 1..n |-> s[order[i]]]
  BY DEF Content!Sorted
<1> HIDE DEF order, IsOrder
<1>6. Ordered(key, n, order)
  BY <1>2, <1>4
<1> QED
  BY <1>4, <1>5, <1>6 DEF key

LEMMA OntoAll ==
  ASSUME NEW n \in Nat, NEW p \in [1..n -> 1..n], \A i, j \in 1..n : i # j => p[i] # p[j]
  PROVE  \A k \in 1..n : \E i \in 1..n : p[i] = k
<1>1. IsFiniteSet(1..n)
  BY FS_Interval
<1>2. p \in Injection(1..n, 1..n)
  BY DEF Injection, IsInjective
<1>3. p \in Surjection(1..n, 1..n)
  BY <1>1, <1>2, FS_Injection
<1> QED
  BY <1>3 DEF Surjection

\* Each facet is among the sorted ones, and these are in order of their starts.
LEMMA ArrangedIs ==
  ASSUME given \in Seq(Content!Facet), ContentBounded
  PROVE  /\ Arranged \in Seq(Content!Facet) /\ Len(Arranged) = Len(given)
         /\ \A i, j \in 1..Len(given) : i < j => Arranged[i].start <= Arranged[j].start
         /\ \E p \in [1..Len(given) -> 1..Len(given)] :
              /\ \A i \in 1..Len(given) : Arranged[i] = given[p[i]]
              /\ \A i, j \in 1..Len(given) : i # j => p[i] # p[j]
              /\ \A k \in 1..Len(given) : \E i \in 1..Len(given) : p[i] = k
<1> DEFINE n == Len(given)
<1>1. n \in Nat /\ DOMAIN given = 1..n /\ \A i \in 1..n : given[i] \in Content!Facet
  BY LenProperties, ElementOfSeq
<1>2. \A f \in Content!Facet : f.start \in Int
  BY DEF Content!Facet, ContentBounded
<1> HIDE DEF n
<1> DEFINE key == [i \in 1..n |-> given[i].start]
<1>3. PICK p \in [1..n -> 1..n] : /\ Content!Sorted(given) = [i \in 1..n |-> given[p[i]]]
                                  /\ Ordered(key, n, p)
  BY <1>1, <1>2, SortedIs
<1>4. \A i \in 1..n : p[i] \in 1..n /\ Arranged[i] = given[p[i]] /\ Arranged[i] \in Content!Facet
  BY <1>1, <1>3 DEF Arranged
<1>5. Arranged \in Seq(Content!Facet) /\ Len(Arranged) = n
  <2>1. Arranged = [i \in 1..n |-> given[p[i]]]
    BY <1>3 DEF Arranged
  <2>2. Arranged \in [1..n -> Content!Facet]
    BY <1>4, <2>1
  <2>3. Arranged \in Seq(Content!Facet)
    BY <1>1, <2>2
  <2> QED
    BY <1>1, <2>2, <2>3, LenProperties
<1>6. \A i, j \in 1..n : i # j => p[i] # p[j]
  BY <1>3 DEF Ordered
<1>7. \A k \in 1..n : \E i \in 1..n : p[i] = k
  BY <1>1, <1>6, OntoAll
<1>8. ASSUME NEW i \in 1..n, NEW j \in 1..n, i < j PROVE Arranged[i].start <= Arranged[j].start
  <2> DEFINE a == Arranged[i].start
             b == Arranged[j].start
  <2>1. key[p[i]] = a /\ key[p[j]] = b /\ a \in Int /\ b \in Int
    BY <1>2, <1>4
  <2> HIDE DEF key
  <2>2. key[p[i]] < key[p[j]] \/ key[p[i]] = key[p[j]]
    BY <1>3, <1>8 DEF Ordered
  <2> HIDE DEF a, b
  <2>3. a < b \/ a = b
    BY <2>1, <2>2
  <2>4. a <= b
    BY <2>1, <2>3
  <2> QED
    BY <2>4 DEF a, b
<1> QED
  BY <1>4, <1>5, <1>6, <1>7, <1>8 DEF n

\* Another piece, from where the last one ended.
LEMMA JoinedMore ==
  ASSUME NEW T, NEW c \in Seq(T), NEW e \in Int, NEW b \in T, Joined(c, e),
         b.from = e, b.to \in Int, e <= b.to, b.from \in starts, b.to \in starts
  PROVE  Joined(Append(c, b), b.to)
<1> DEFINE a == Append(c, b)
<1>1. /\ Len(a) = Len(c) + 1 /\ Len(c) \in Nat /\ a # <<>>
      /\ \A i \in 1..Len(c) : a[i] = c[i]
      /\ a[Len(c) + 1] = b
  BY AppendProperties, LenProperties
<1>2. c = <<>> <=> Len(c) = 0
  BY EmptySeq
<1> HIDE DEF a
<1>3. a[1].from = 0 /\ a[Len(a)].to = b.to
  <2>1. CASE c = <<>>
    BY <1>1, <1>2, <2>1 DEF Joined
  <2>2. CASE c # <<>>
    BY <1>1, <1>2, <2>2 DEF Joined
  <2> QED
    BY <2>1, <2>2
<1>4. ASSUME NEW i \in 1..Len(a)
      PROVE  /\ a[i].from <= a[i].to /\ a[i].from \in starts /\ a[i].to \in starts
             /\ i > 1 => a[i - 1].to = a[i].from
  <2>1. CASE i \in 1..Len(c)
    <3>1. a[i] = c[i] /\ (i > 1 => a[i - 1] = c[i - 1])
      BY <1>1, <2>1
    <3> QED
      BY <2>1, <3>1 DEF Joined
  <2>2. CASE i = Len(c) + 1
    <3>1. i > 1 => a[i - 1].to = e
      BY <1>1, <1>2, <2>2 DEF Joined
    <3> QED
      BY <1>1, <2>2, <3>1
  <2> QED
    BY <1>1, <2>1, <2>2
<1> QED
  BY <1>1, <1>3, <1>4 DEF Joined, a

\* A link is to the first of a facet's features that can be linked to.
LEMMA TargetIs ==
  ASSUME NEW f \in Content!Facet, Content!Usable(f) # {}, ContentBounded
  PROVE  Content!TargetOf(f) \in Content!Targets
<1>1. f.features \in Content!Lists(FeatureKinds, MaxFeatures)
  BY DEF Content!Facet
<1>2. PICK m \in 0..MaxFeatures : f.features \in [1..m -> FeatureKinds]
  BY <1>1 DEF Content!Lists
<1>3. Content!Usable(f) \in SUBSET Nat
  BY <1>2 DEF Content!Usable
<1>4. \E m1 \in Content!Usable(f) : \A j \in Content!Usable(f) : m1 <= j
  BY <1>3, LeastExists
<1>5. (CHOOSE i \in Content!Usable(f) : \A j \in Content!Usable(f) : i <= j) \in Content!Usable(f)
  BY <1>4
<1> QED
  BY <1>5 DEF Content!TargetOf, Content!Usable

LEMMA TextStays ==
  ASSUME UNCHANGED <<size, starts, given>>
  PROVE  /\ Arranged' = Arranged
         /\ \A f : Content!Valid(f)' <=> Content!Valid(f)
         /\ \A i : Lonely(i)' <=> Lonely(i)
         /\ \A c, e : Joined(c, e)' <=> Joined(c, e)
<1>1. Arranged' = Arranged
  BY DEF Arranged
<1>2. \A f : Content!Valid(f)' <=> Content!Valid(f)
  BY DEF Content!Valid, Content!Decodes
<1>3. \A i : Lonely(i)' <=> Lonely(i)
  BY <1>1, <1>2 DEF Lonely
<1>4. \A c, e : Joined(c, e)' <=> Joined(c, e)
  BY DEF Joined
<1> QED
  BY <1>1, <1>2, <1>3, <1>4

\* The facet whose turn it is, and those before and behind it.
LEMMA FacetTurn ==
  ASSUME ContentBounded, TextInv, facets # <<>>, facets' = Tail(facets), given' = given
  PROVE  /\ Len(given) \in Nat /\ Consumed \in Nat /\ Consumed + 1 \in 1..Len(given)
         /\ Head(facets) = Arranged[Consumed + 1] /\ Head(facets) \in Content!Facet
         /\ Consumed' = Consumed + 1 /\ Arranged' = Arranged
         /\ facets' \in Seq(Content!Facet) /\ Len(facets') <= Len(given)
         /\ \A i \in 1..Len(facets') : facets'[i] = Arranged[Consumed' + i]
<1>1. /\ Len(given) \in Nat /\ Len(facets) \in Nat /\ Len(facets) # 0 /\ Len(facets) <= Len(given)
      /\ \A i \in 1..Len(facets) : facets[i] = Arranged[Consumed + i]
  BY LenProperties, EmptySeq DEF TextInv, TextShape
<1>2. /\ Head(facets) \in Content!Facet /\ facets' \in Seq(Content!Facet)
      /\ Len(facets') = Len(facets) - 1 /\ Head(facets) = facets[1]
      /\ \A i \in 1..Len(facets') : facets'[i] = facets[i + 1]
  BY HeadTailProperties DEF TextInv, TextShape
<1>3. Consumed \in Nat /\ Consumed + 1 \in 1..Len(given) /\ Consumed' = Consumed + 1
  BY <1>1, <1>2 DEF Consumed
<1>4. Head(facets) = Arranged[Consumed + 1]
  BY <1>1, <1>2
<1>5. \A i \in 1..Len(facets') : facets'[i] = Arranged[Consumed' + i]
  <2> TAKE i \in 1..Len(facets')
  <2>1. i + 1 \in 1..Len(facets) /\ Consumed + (i + 1) = Consumed' + i
    BY <1>1, <1>2, <1>3
  <2> QED
    BY <1>1, <1>2, <2>1
<1>6. Arranged' = Arranged
  BY DEF Arranged
<1> QED
  BY <1>1, <1>2, <1>3, <1>4, <1>5, <1>6

\* A facet that is to be a link starts behind what is rendered.
LEMMA LonelyIsAhead ==
  ASSUME ContentBounded, TextInv, rendering = "text", Consumed + 1 \in 1..Len(given),
         Len(given) \in Nat, Consumed \in Nat,
         Lonely(Consumed + 1)
  PROVE  current <= Arranged[Consumed + 1].start
<1> DEFINE f == Arranged[Consumed + 1]
<1>1. /\ Content!Valid(f) /\ f \in Content!Facet
      /\ \A j \in 1..Consumed : j \in 1..Len(given) /\ j # Consumed + 1 /\ Arranged[j] \in Content!Facet
      /\ \A j \in 1..Consumed : Arranged[j].start <= f.start
  <2>1. given \in Seq(Content!Facet)
    BY DEF TextInv, TextShape
  <2>2. /\ Arranged \in Seq(Content!Facet) /\ Len(Arranged) = Len(given)
        /\ \A i, j \in 1..Len(given) : i < j => Arranged[i].start <= Arranged[j].start
    BY <2>1, ArrangedIs
  <2>3. \A j \in 1..Len(given) : Arranged[j] \in Content!Facet
    BY <2>2, ElementOfSeq
  <2>4. \A j \in 1..Consumed : j \in 1..Len(given) /\ j < Consumed + 1
    OBVIOUS
  <2> QED
    BY <2>2, <2>3, <2>4 DEF Lonely
<1>2. \A g \in Content!Facet : g.start \in Int /\ g.end \in Int
  BY DEF Content!Facet, ContentBounded
<1>3. 0 <= f.start /\ f.start < f.end
  BY <1>1 DEF Content!Valid
<1>4. CASE current = 0
  BY <1>3, <1>4
<1>5. CASE current # 0
  <2>1. PICK j \in 1..Consumed : Content!Valid(Arranged[j]) /\ current = Arranged[j].end
    BY <1>5 DEF TextInv, Reached
  <2> DEFINE g == Arranged[j]
  <2>2. Content!Apart(f, g)
    BY <1>1, <2>1 DEF Lonely
  <2>3. g.start <= f.start /\ g \in Content!Facet
    BY <1>1
  <2> HIDE DEF f, g
  <2>4. g.start \in Int /\ g.end \in Int /\ f.start \in Int /\ f.end \in Int
    BY <1>1, <1>2, <2>3
  <2>5. f.end <= g.start \/ g.end <= f.start
    BY <2>2 DEF Content!Apart
  <2>6. g.end <= f.start
    BY <1>3, <2>3, <2>4, <2>5
  <2> QED
    BY <2>1, <2>6 DEF f, g
<1> QED
  BY <1>4, <1>5

LEMMA TwoMore ==
  ASSUME NEW T, NEW s \in Seq(T), NEW a \in T, NEW b \in T
  PROVE  s \o <<a, b>> = Append(Append(s, a), b)
<1>1. Append(s, a) \in Seq(T) /\ Append(s, a) = s \o <<a>>
  BY AppendProperties, AppendIsConcat
<1>2. Append(Append(s, a), b) = (s \o <<a>>) \o <<b>>
  BY <1>1, AppendIsConcat
<1>3. <<a>> \in Seq(T) /\ <<b>> \in Seq(T)
  BY SMT
<1>4. <<a>> \o <<b>> = <<a, b>>
  <2>1. Len(<<a>>) = 1 /\ Len(<<b>>) = 1 /\ <<a>>[1] = a /\ <<b>>[1] = b
    OBVIOUS
  <2>2. /\ <<a>> \o <<b>> \in Seq(T) /\ Len(<<a>> \o <<b>>) = 2
        /\ (<<a>> \o <<b>>)[1] = a /\ (<<a>> \o <<b>>)[2] = b
    BY <1>3, <2>1, ConcatProperties
  <2>3. <<a, b>> \in Seq(T) /\ Len(<<a, b>>) = 2 /\ <<a, b>>[1] = a /\ <<a, b>>[2] = b
    OBVIOUS
  <2> DEFINE l == <<a>> \o <<b>>
             r == <<a, b>>
  <2>4. l \in Seq(T) /\ r \in Seq(T) /\ Len(l) = 2 /\ Len(r) = 2 /\ l[1] = r[1] /\ l[2] = r[2]
    BY <2>2, <2>3
  <2> HIDE DEF l, r
  <2>5. \A i \in 1..Len(l) : l[i] = r[i]
    BY <2>4
  <2>6. l = r
    BY <2>4, <2>5, SeqEqual
  <2> QED
    BY <2>6 DEF l, r
<1> QED
  BY <1>2, <1>3, <1>4, ConcatAssociative

LEMMA LinkedStep ==
  ASSUME ContentBounded, TextInv, Content!RenderFacet, Content!InRange(Head(facets)),
         Content!Usable(Head(facets)) # {}, Content!Decodes(Head(facets))
  PROVE  TextInv'
<1> DEFINE f == Head(facets)
           a == Content!Piece(current, f.start, "none")
           b == Content!Piece(f.start, f.end, Content!TargetOf(f))
           k == Consumed + 1
<1>1. /\ rendering = "text" /\ facets # <<>> /\ facets' = Tail(facets)
      /\ chunks' = chunks \o <<a, b>> /\ current' = f.end
      /\ UNCHANGED <<rendering, size, starts, given>>
  BY DEF Content!RenderFacet
<1>2. /\ Len(given) \in Nat /\ Consumed \in Nat /\ k \in 1..Len(given)
      /\ f = Arranged[k] /\ f \in Content!Facet
      /\ Consumed' = k /\ Arranged' = Arranged
      /\ facets' \in Seq(Content!Facet) /\ Len(facets') <= Len(given)
      /\ \A i \in 1..Len(facets') : facets'[i] = Arranged[Consumed' + i]
  BY <1>1, FacetTurn
<1>3. /\ f.start \in Int /\ f.end \in Int /\ current \in Nat /\ size \in 0..Bytes
      /\ starts \in SUBSET (0..size) /\ current \in starts
      /\ chunks \in Seq(Content!Chunk) /\ Joined(chunks, current)
      /\ \A i \in 1..Consumed : Lonely(i) => IsLink(chunks, Arranged[i])
  <2>1. f.start \in Int /\ f.end \in Int
    BY <1>2 DEF Content!Facet, ContentBounded
  <2>2. /\ size \in 0..Bytes /\ starts \in SUBSET (0..size) /\ current \in starts
        /\ chunks \in Seq(Content!Chunk) /\ Joined(chunks, current)
    BY DEF TextInv, TextShape
  <2>3. current \in Nat
    BY <2>2 DEF ContentBounded
  <2>4. \A i \in 1..Consumed : Lonely(i) => IsLink(chunks, Arranged[i])
    BY DEF TextInv
  <2> QED
    BY <2>1, <2>2, <2>3, <2>4
<1>4. current <= f.start /\ f.start < f.end /\ f.end <= size /\ f.start \in starts /\ f.end \in starts
  BY <1>3 DEF Content!InRange, Content!Decodes
<1>5. Content!Valid(f)
  BY <1>3, <1>4 DEF Content!Valid, Content!Decodes
<1>6. Content!TargetOf(f) \in Content!Targets
  BY <1>2, TargetIs
<1>7. a \in Content!Chunk /\ b \in Content!Chunk
  BY <1>3, <1>4, <1>6 DEF Content!Chunk, Content!Piece, ContentBounded
<1>8. a.from = current /\ a.to = f.start /\ b.from = f.start /\ b.to = f.end
  BY DEF Content!Piece
<1>9. b = Content!Piece(f.start, f.end, Content!TargetOf(f))
  OBVIOUS
<1> HIDE DEF a, b, f, k
<1> DEFINE one == Append(chunks, a)
<1>10. one \in Seq(Content!Chunk) /\ Len(one) = Len(chunks) + 1 /\ Len(chunks) \in Nat
       /\ \A i \in 1..Len(chunks) : one[i] = chunks[i]
  BY <1>3, <1>7, AppendProperties, LenProperties
<1>11. Joined(one, f.start)
  BY <1>3, <1>4, <1>7, <1>8, JoinedMore
<1> HIDE DEF one
<1>12. chunks' = Append(one, b)
  BY <1>1, <1>3, <1>7, TwoMore DEF one
<1>13. /\ chunks' \in Seq(Content!Chunk) /\ Len(chunks') = Len(chunks) + 2
       /\ \A i \in 1..Len(chunks) : chunks'[i] = chunks[i]
       /\ chunks'[Len(chunks) + 2] = b
  <2>1. /\ Append(one, b) \in Seq(Content!Chunk) /\ Len(Append(one, b)) = Len(one) + 1
        /\ \A i \in 1..Len(one) : Append(one, b)[i] = one[i]
        /\ Append(one, b)[Len(one) + 1] = b
    BY <1>7, <1>10, AppendProperties
  <2> QED
    BY <1>10, <1>12, <2>1
<1>14. Joined(chunks', f.end)
  BY <1>3, <1>4, <1>7, <1>8, <1>10, <1>11, <1>12, JoinedMore
<1>15. ASSUME NEW i \in 1..k, Lonely(i) PROVE IsLink(chunks', Arranged[i])
  <2>1. CASE i = k
    <3>1. Len(chunks) + 2 \in 1..Len(chunks')
      BY <1>10, <1>13
    <3> QED
      BY <1>2, <1>9, <1>13, <2>1, <3>1 DEF IsLink
  <2>2. CASE i # k
    <3>1. i \in 1..Consumed
      BY <1>2, <2>2 DEF k
    <3>2. IsLink(chunks, Arranged[i])
      BY <1>3, <1>15, <3>1
    <3>3. PICK c \in 1..Len(chunks) :
            chunks[c] = Content!Piece(Arranged[i].start, Arranged[i].end, Content!TargetOf(Arranged[i]))
      BY <3>2 DEF IsLink
    <3>4. c \in 1..Len(chunks') /\ chunks'[c] = chunks[c]
      BY <1>10, <1>13
    <3> QED
      BY <3>3, <3>4 DEF IsLink
  <2> QED
    BY <2>1, <2>2
<1>16. TextShape'
  BY <1>1, <1>2, <1>13 DEF TextInv, TextShape
<1>17. current' \in starts' /\ Joined(chunks, current)'
  BY <1>1, <1>4, <1>14, TextStays
<1>18. Reached'
  <2>1. k \in 1..k /\ Content!Valid(Arranged[k]) /\ current' = Arranged[k].end
    BY <1>1, <1>2, <1>5
  <2> QED
    BY <1>1, <1>2, <2>1 DEF Reached, Content!Valid, Content!Decodes
<1>19. \A i \in 1..Consumed' : Lonely(i)' => IsLink(chunks', Arranged'[i])
  BY <1>1, <1>2, <1>15, TextStays
<1> QED
  BY <1>1, <1>16, <1>17, <1>18, <1>19 DEF TextInv, IsLink

LEMMA SkippedStep ==
  ASSUME ContentBounded, TextInv, Content!RenderFacet,
         ~(/\ Content!InRange(Head(facets)) /\ Content!Usable(Head(facets)) # {}
           /\ Content!Decodes(Head(facets)))
  PROVE  TextInv'
<1> DEFINE f == Head(facets)
           k == Consumed + 1
<1>1. /\ rendering = "text" /\ facets # <<>> /\ facets' = Tail(facets)
      /\ UNCHANGED <<rendering, size, starts, given, chunks, current>>
  BY DEF Content!RenderFacet
<1>2. /\ Len(given) \in Nat /\ Consumed \in Nat /\ k \in 1..Len(given)
      /\ f = Arranged[k] /\ f \in Content!Facet
      /\ Consumed' = k /\ Arranged' = Arranged
      /\ facets' \in Seq(Content!Facet) /\ Len(facets') <= Len(given)
      /\ \A i \in 1..Len(facets') : facets'[i] = Arranged[Consumed' + i]
  BY <1>1, FacetTurn
<1>3. ~Lonely(k)
  <2> SUFFICES ASSUME Lonely(k) PROVE FALSE
    OBVIOUS
  <2>1. current <= f.start
    BY <1>1, <1>2, LonelyIsAhead
  <2>2. Content!Valid(f)
    BY <1>2 DEF Lonely
  <2> QED
    BY <2>1, <2>2 DEF Content!Valid, Content!InRange
<1> HIDE DEF f
<1>4. \A i \in 1..k : Lonely(i) => i \in 1..Consumed
  BY <1>2, <1>3
<1> HIDE DEF k
<1>5. TextShape'
  BY <1>1, <1>2 DEF TextInv, TextShape
<1>6. current' \in starts' /\ Joined(chunks, current)'
  BY <1>1, TextStays DEF TextInv
<1>7. current' = 0 \/ Reached'
  <2>1. \A j \in 1..Consumed : j \in 1..k
    BY <1>2 DEF k
  <2>2. current = 0 \/ Reached
    BY <1>1 DEF TextInv
  <2>3. ASSUME Reached PROVE Reached'
    BY <1>1, <1>2, <2>1, <2>3 DEF Reached, Content!Valid, Content!Decodes
  <2> QED
    BY <1>1, <2>2, <2>3
<1>8. \A i \in 1..Consumed' : Lonely(i)' => IsLink(chunks', Arranged'[i])
  BY <1>1, <1>2, <1>4, TextStays DEF TextInv
<1> QED
  BY <1>1, <1>5, <1>6, <1>7, <1>8 DEF TextInv, IsLink

\* The other steps leave the facets.
LEMMA FacetsStay ==
  ASSUME UNCHANGED <<size, starts, facets, given>>
  PROVE  Arranged' = Arranged /\ Consumed' = Consumed /\ (\A i : Lonely(i)' <=> Lonely(i))
BY TextStays DEF Consumed

LEMMA FacetsEndStep == ASSUME ContentBounded, TextInv, Content!FacetsEnd PROVE TextInv'
<1>1. /\ rendering = "text" /\ facets = <<>> /\ rendering' = "tail"
      /\ UNCHANGED <<size, starts, facets, current, chunks, given>>
  BY DEF Content!FacetsEnd, Content!textVars
<1>2. TextShape'
  BY <1>1, FacetsStay DEF TextInv, TextShape
<1>3. current' \in starts' /\ Joined(chunks, current)'
  BY <1>1, TextStays DEF TextInv
<1>4. \A i \in 1..Consumed' : Lonely(i)' => IsLink(chunks', Arranged'[i])
  BY <1>1, FacetsStay DEF TextInv
<1> QED
  BY <1>1, <1>2, <1>3, <1>4 DEF TextInv, IsLink

\* What is left of the text is shown, as `current` is where a character starts.
LEMMA RenderTailStep == ASSUME ContentBounded, TextInv, Content!RenderTail PROVE TextInv'
<1> DEFINE b == Content!Piece(current, size, "none")
<1>1. /\ rendering = "tail" /\ rendering' = "done" /\ current' = size
      /\ UNCHANGED <<size, starts, facets, given>>
      /\ chunks' = Append(chunks, IF current \in starts THEN b ELSE Content!Piece(0, size, "none"))
  BY DEF Content!RenderTail
<1>2. /\ current \in starts /\ size \in 0..Bytes /\ starts \in SUBSET (0..size)
      /\ size \in starts /\ chunks \in Seq(Content!Chunk) /\ Joined(chunks, current)
  BY DEF TextInv, TextShape
<1>3. current \in 0..Bytes /\ current <= size /\ current \in Int /\ size \in Int
  BY <1>2 DEF ContentBounded
<1>4. chunks' = Append(chunks, b)
  BY <1>1, <1>2
<1>5. b \in Content!Chunk /\ b.from = current /\ b.to = size
  BY <1>2, <1>3 DEF Content!Chunk, Content!Piece
<1> HIDE DEF b
<1>6. /\ chunks' \in Seq(Content!Chunk)
      /\ Len(chunks') = Len(chunks) + 1 /\ Len(chunks) \in Nat
      /\ \A i \in 1..Len(chunks) : chunks'[i] = chunks[i]
  BY <1>2, <1>4, <1>5, AppendProperties, LenProperties
<1>7. Joined(chunks', size)
  BY <1>2, <1>3, <1>4, <1>5, JoinedMore
<1>8. TextShape'
  BY <1>1, <1>6, FacetsStay DEF TextInv, TextShape
<1>9. current' \in starts' /\ Joined(chunks, current)'
  BY <1>1, <1>2, <1>7, TextStays
<1>10. ASSUME NEW i \in 1..Consumed, Lonely(i) PROVE IsLink(chunks', Arranged[i])
  <2>1. IsLink(chunks, Arranged[i])
    BY <1>10 DEF TextInv
  <2>2. PICK c \in 1..Len(chunks) :
          chunks[c] = Content!Piece(Arranged[i].start, Arranged[i].end, Content!TargetOf(Arranged[i]))
    BY <2>1 DEF IsLink
  <2>3. c \in 1..Len(chunks') /\ chunks'[c] = chunks[c]
    BY <1>6
  <2> QED
    BY <2>2, <2>3 DEF IsLink
<1>11. \A i \in 1..Consumed' : Lonely(i)' => IsLink(chunks', Arranged'[i])
  BY <1>1, <1>10, FacetsStay
<1> QED
  BY <1>1, <1>8, <1>9, <1>11 DEF TextInv, IsLink

LEMMA TextInit == ASSUME ContentBounded, Content!Init PROVE TextInv
<1>1. /\ rendering \in {"text", "markup"} /\ given \in Content!Lists(Content!Facet, MaxFacets)
      /\ rendering = "markup" => given = <<>>
      /\ facets = Arranged /\ current = 0 /\ chunks = <<>>
      /\ size \in 0..Bytes
      /\ starts \in {S \cup {0, size} : S \in SUBSET (0..size)}
  <2>1. <<>> \in Content!Lists(Content!Facet, MaxFacets)
    <3>1. <<>> \in [1..0 -> Content!Facet] /\ 0 \in 0..MaxFacets
      BY DEF ContentBounded
    <3> QED
      BY <3>1 DEF Content!Lists
  <2>2. 0 \in 0..Bytes
    BY DEF ContentBounded
  <2> QED
    BY <2>1, <2>2 DEF Content!Init, Arranged
<1>2. given \in Seq(Content!Facet)
  <2>1. PICK m \in 0..MaxFacets : given \in [1..m -> Content!Facet]
    BY <1>1 DEF Content!Lists
  <2>2. m \in Nat
    BY <2>1 DEF ContentBounded
  <2> QED
    BY <2>1, <2>2
<1>3. facets \in Seq(Content!Facet) /\ Len(facets) = Len(given) /\ Len(given) \in Nat
  BY <1>1, <1>2, ArrangedIs, LenProperties
<1>4. Consumed = 0
  BY <1>3 DEF Consumed
<1>5. \A i \in 1..Len(facets) : facets[i] = Arranged[Consumed + i]
  BY <1>1, <1>3, <1>4
<1>6. starts \in SUBSET (0..size) /\ {0, size} \subseteq starts
  <2>1. PICK S \in SUBSET (0..size) : starts = S \cup {0, size}
    BY <1>1
  <2>2. 0 \in 0..size /\ size \in 0..size
    BY <1>1 DEF ContentBounded
  <2> QED
    BY <2>1, <2>2
<1>7. chunks \in Seq(Content!Chunk) /\ Len(chunks) = 0
  BY <1>1, EmptySeq
<1>8. rendering # "text" => facets = <<>>
  <2> SUFFICES ASSUME rendering # "text" PROVE facets = <<>>
    OBVIOUS
  <2>1. Len(given) = 0
    BY <1>1, EmptySeq
  <2> QED
    BY <1>3, <2>1, EmptySeq
<1>9. TextShape
  BY <1>1, <1>2, <1>3, <1>5, <1>6, <1>7, <1>8 DEF TextShape
<1>10. Joined(chunks, current)
  BY <1>1, <1>7 DEF Joined
<1> QED
  BY <1>1, <1>4, <1>6, <1>9, <1>10 DEF TextInv

LEMMA TextNext == ASSUME ContentBounded, TextInv, [Content!Next]_(Content!vars) PROVE TextInv'
<1>1. CASE Content!RenderFacet
  BY <1>1, LinkedStep, SkippedStep
<1>2. CASE Content!FacetsEnd
  BY <1>2, FacetsEndStep
<1>3. CASE Content!RenderTail
  BY <1>3, RenderTailStep
<1>4. ASSUME UNCHANGED Content!textVars,
             \/ rendering' = rendering
             \/ rendering = "markup" /\ rendering' = "mblob"
             \/ rendering = "mblob" /\ rendering' = "done"
      PROVE  TextInv'
  <2>1. UNCHANGED <<size, starts, facets, current, chunks, given>>
    BY <1>4 DEF Content!textVars
  <2>2. TextShape'
    BY <1>4, <2>1, FacetsStay DEF TextInv, TextShape
  <2>3. current' \in starts' /\ Joined(chunks, current)'
    BY <2>1, TextStays DEF TextInv
  <2>4. \A i \in 1..Consumed' : Lonely(i)' => IsLink(chunks', Arranged'[i])
    BY <2>1, FacetsStay DEF TextInv
  <2>5. rendering' = "text" => current' = 0 \/ Reached'
    <3> SUFFICES ASSUME rendering' = "text", Reached PROVE Reached'
      BY <1>4, <2>1 DEF TextInv
    <3> QED
      BY <2>1, FacetsStay DEF Reached, Content!Valid, Content!Decodes
  <2>6. rendering' = "done" /\ chunks' # <<>> => current' = size'
    BY <1>4, <2>1 DEF TextInv, TextShape
  <2> QED
    BY <2>2, <2>3, <2>4, <2>5, <2>6 DEF TextInv, IsLink
<1>5. CASE Content!RenderAttachment
  BY <1>4, <1>5 DEF Content!RenderAttachment
<1>6. CASE Content!AttachmentsEnd
  BY <1>4, <1>6 DEF Content!AttachmentsEnd
<1>7. CASE Content!ListVideo
  BY <1>4, <1>7 DEF Content!ListVideo
<1>8. CASE Content!VideosEnd
  BY <1>4, <1>8 DEF Content!VideosEnd
<1>9. CASE UNCHANGED Content!vars
  BY <1>4, <1>9 DEF Content!vars
<1> QED
  BY <1>1, <1>2, <1>3, <1>5, <1>6, <1>7, <1>8, <1>9 DEF Content!Next

-----------------------------------------------------------------------------
LEMMA TextIsAsMeant ==
  ASSUME ContentBounded, TextInv PROVE Content!TextIsWhole
BY LenProperties DEF TextInv, TextShape, Joined, Content!TextIsWhole

LEMMA LinksAreAsMeant ==
  ASSUME ContentBounded, TextInv PROVE Content!LinksAreKept
<1> DEFINE n == Len(given)
<1> SUFFICES ASSUME rendering = "done", NEW i \in DOMAIN given, Content!Valid(given[i]),
                    \A j \in DOMAIN given \ {i} :
                      Content!Valid(given[j]) => Content!Apart(given[i], given[j])
             PROVE  \E c \in DOMAIN chunks :
                      chunks[c] = Content!Piece(given[i].start, given[i].end,
                                                Content!TargetOf(given[i]))
  BY DEF Content!LinksAreKept
<1>1. /\ n \in Nat /\ DOMAIN given = 1..n /\ DOMAIN chunks = 1..Len(chunks)
      /\ given \in Seq(Content!Facet)
  BY LenProperties DEF TextInv, TextShape
<1>2. Consumed = n
  BY <1>1, EmptySeq DEF TextInv, TextShape, Consumed
<1>3. PICK p \in [1..n -> 1..n] :
        /\ \A k \in 1..n : Arranged[k] = given[p[k]]
        /\ \A k, l \in 1..n : k # l => p[k] # p[l]
        /\ \A k \in 1..n : \E l \in 1..n : p[l] = k
  BY <1>1, ArrangedIs
<1> HIDE DEF n
<1>4. PICK k \in 1..n : p[k] = i
  BY <1>1, <1>3
<1>5. \A l \in 1..n : l # k => p[l] \in DOMAIN given \ {i}
  BY <1>1, <1>3, <1>4
<1>6. Arranged[k] = given[i]
  BY <1>3, <1>4
<1>7. Lonely(k)
  <2>1. \A l \in 1..n : l # k /\ Content!Valid(Arranged[l]) => Content!Apart(Arranged[k], Arranged[l])
    BY <1>3, <1>5, <1>6
  <2> QED
    BY <1>6, <2>1 DEF Lonely, n
<1>8. IsLink(chunks, Arranged[k])
  BY <1>2, <1>7 DEF TextInv
<1> QED
  BY <1>1, <1>6, <1>8 DEF IsLink

-----------------------------------------------------------------------------
ContentInv == MediaInv /\ TextInv

LEMMA ContentPart ==
  ASSUME part = "content", [EntriesNext]_allVars
  PROVE  part' = part /\ [Content!Next]_(Content!vars)
BY DEF EntriesNext, allVars, pageVars, contentVars, Content!vars, Content!textVars,
       Content!mediaVars

LEMMA ContentSpecInv ==
  ASSUME ContentBounded PROVE EntriesSpec => [](part = "content" => ContentInv)
<1>1. EntriesInit => (part = "content" => ContentInv)
  BY MediaInit, TextInit DEF EntriesInit, ContentInv
<1>2. (part = "content" => ContentInv) /\ [EntriesNext]_allVars => (part = "content" => ContentInv)'
  <2> SUFFICES ASSUME part = "content" => ContentInv, [EntriesNext]_allVars, part' = "content"
               PROVE  ContentInv'
    OBVIOUS
  <2>1. part = "content"
    BY DEF EntriesNext, allVars
  <2> QED
    BY <2>1, ContentPart, MediaNext, TextNext DEF ContentInv
<1> QED
  BY <1>1, <1>2, PTL DEF EntriesSpec

\* What the author of a post wrote and attached is in the entry, once and in
\* order: the text whole, whatever ranges the facets name, a link for every facet
\* that can be one, every image and video in the order of the post and the same
\* videos in the list beside it (apis/atproto.py, apis/mastodon.py).
THEOREM PostsAreRendered ==
  ASSUME ContentBounded PROVE EntriesSpec => []ContentIsKept
<1>1. (part = "content" => ContentInv) => ContentIsKept
  BY MediaIsInOrder, TextIsAsMeant, LinksAreAsMeant DEF ContentInv, ContentIsKept, Content!ContentIsKept
<1> QED
  BY <1>1, ContentSpecInv, PTL
=============================================================================
