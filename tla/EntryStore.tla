----------------------------- MODULE EntryStore -----------------------------
(***************************************************************************)
(* The rows of entries and those who write them at the same time: imports  *)
(* (ingestion/service.py), the owner's commands (stream/api_view.py) and   *)
(* the deletion of old entries (worker/maintenance.py).  An import loads a *)
(* row, downloads for a while, and saves the whole row; so does the        *)
(* favourite command.  The feed here has one guid.  Of what a row holds,   *)
(* only its date and what the owner set are told apart: its content goes   *)
(* with the date.                                                          *)
(***************************************************************************)
EXTENDS Naturals

CONSTANTS
  Imports,       \* the imports: a fetch, a pushed payload, a forced run
  None,          \* no row; no primary key yet; no date to compare
  Newest,        \* bound: the dates the item has at the remote
  MaxRows        \* bound: the rows ever inserted for the guid

VARIABLES
  row,       \* the entry with the guid, or None
  inserted,  \* the primary keys given so far
  favorite,  \* whether the owner has a Favorite of it
  favoriting,\* where the favourite command is, with the entry it loaded
  import,    \* where each import is, with its candidate and entry
  looked,    \* history: the row as each import last looked at it
  deleted    \* history: whether a row was ever deleted

importVars == <<import, looked>>
ownerVars == <<favorite, favoriting>>
vars == <<row, inserted, ownerVars, importVars, deleted>>

Pks == 1..MaxRows
Row == [pk : Pks \cup {None}, updated : 0..Newest, active : BOOLEAN, protected : BOOLEAN]
Freshness == (1..Newest) \cup {None}

NewEntry == [pk |-> None, updated |-> 0, active |-> TRUE, protected |-> FALSE]
IdleImport == [at |-> "idle", fresh |-> None, force |-> FALSE, e |-> None, outcome |-> "none"]

TypeOK ==
  /\ row \in Row \cup {None} /\ inserted \in 0..MaxRows
  /\ favorite \in BOOLEAN /\ deleted \in BOOLEAN
  /\ favoriting \in [at : {"idle", "download"}, e : Row \cup {None}]
  /\ import \in [Imports -> [at : {"idle", "build", "write", "again", "rewrite", "done"},
                             fresh : Freshness, force : BOOLEAN, e : Row \cup {None},
                             outcome : {"none", "created", "updated", "skipped", "failed"}]]
  /\ looked \in [Imports -> Row \cup {None}]

Init ==
  /\ \/ row = None /\ inserted = 0
     \/ row = [NewEntry EXCEPT !.pk = 1] /\ inserted = 1
  /\ favorite = FALSE /\ favoriting = [at |-> "idle", e |-> None]
  /\ import = [i \in Imports |-> IdleImport]
  /\ looked = [i \in Imports |-> None]
  /\ deleted = FALSE

-----------------------------------------------------------------------------
(* Entry.save() writes every column: an update of its row, an insert where *)
(* that row is gone, and an error where another row has the guid.          *)

Clashes(e) == row # None /\ row.pk # e.pk

Save(e) ==
  /\ ~Clashes(e)
  /\ \/ /\ e.pk # None
        /\ row' = e
        /\ UNCHANGED inserted
     \/ /\ e.pk = None
        /\ inserted < MaxRows
        /\ inserted' = inserted + 1
        /\ row' = [e EXCEPT !.pk = inserted']

-----------------------------------------------------------------------------
(* Imports. *)

\* resolve_entry for the row there is: what is skipped.
Skipped(fresh, force) ==
  /\ row # None
  /\ \/ ~force /\ fresh # None /\ fresh <= row.updated
     \/ row.protected

Moves(i, fields) == import' = [import EXCEPT ![i] = fields]
Looks(i) == looked' = [looked EXCEPT ![i] = row]
Forgets(i) == looked' = [looked EXCEPT ![i] = None]

\* resolve_entry, and then a build that may take long.
Resolve(i) ==
  /\ import[i].at = "idle"
  /\ \E fresh \in Freshness, force \in BOOLEAN :
       LET it == [import[i] EXCEPT !.fresh = fresh, !.force = force]
       IN  IF Skipped(fresh, force)
           THEN Moves(i, [IdleImport EXCEPT !.at = "done", !.outcome = "skipped"])
           ELSE Moves(i, [it EXCEPT !.at = "build",
                                    !.e = IF row = None THEN NewEntry ELSE row])
  /\ Looks(i)
  /\ UNCHANGED <<row, inserted, ownerVars, deleted>>

\* build() answers, or raises and ends the run; then only what it assigned is
\* set: the date with the content, and not what the owner's commands set.
assigned_fields(e, fresh) == [e EXCEPT !.updated = IF fresh = None THEN @ ELSE fresh]

Build(i) ==
  /\ import[i].at = "build"
  /\ \/ Moves(i, [import[i] EXCEPT !.at = "write", !.e = assigned_fields(@, import[i].fresh)])
     \/ Moves(i, IdleImport)
  /\ UNCHANGED <<row, inserted, looked, ownerVars, deleted>>

Outcome(e) == IF e.pk = None THEN "created" ELSE "updated"

Ends(i, outcome) == Moves(i, [IdleImport EXCEPT !.at = "done", !.outcome = outcome])

\* Mutant: an error is an error, for new entries too.
RaisesAlways(i) == Ends(i, "failed")

\* The guid was inserted meanwhile: look again, if this entry was new.
Clashed(i) ==
  IF import[i].e.pk = None THEN Moves(i, [import[i] EXCEPT !.at = "again"])
                           ELSE Ends(i, "failed")

\* _store and _write.
Write(i) ==
  /\ import[i].at = "write"
  /\ \/ Save(import[i].e) /\ Ends(i, Outcome(import[i].e))
     \/ Clashes(import[i].e) /\ Clashed(i) /\ UNCHANGED <<row, inserted>>
  /\ Forgets(i) /\ UNCHANGED <<ownerVars, deleted>>

\* Mutant: the row that is there is written, whatever it is.
Takes(i) == FALSE

SkippedAgain(i) == Skipped(import[i].fresh, import[i].force)

\* The second resolve_entry, by the same rules.
ResolveAgain(i) ==
  /\ import[i].at = "again"
  /\ IF SkippedAgain(i)
     THEN Ends(i, "skipped")
     ELSE Moves(i, [import[i] EXCEPT !.at = "rewrite",
            !.e = assigned_fields(IF row = None THEN NewEntry ELSE row, import[i].fresh)])
  /\ Looks(i)
  /\ UNCHANGED <<row, inserted, ownerVars, deleted>>

Rewrite(i) ==
  /\ import[i].at = "rewrite"
  /\ \/ Save(import[i].e) /\ Ends(i, Outcome(import[i].e))
     \/ Clashes(import[i].e) /\ Ends(i, "failed") /\ UNCHANGED <<row, inserted>>
  /\ Forgets(i) /\ UNCHANGED <<ownerVars, deleted>>

-----------------------------------------------------------------------------
(* The owner's commands. *)

\* hide and unhide write one column; the admin's protection loads and saves the
\* entry within one request, which is one step here.
Updates(fields) ==
  /\ row # None
  /\ row' = fields /\ row' # row
  /\ UNCHANGED <<inserted, ownerVars, importVars, deleted>>

_cmd_hide == row # None /\ Updates([row EXCEPT !.active = FALSE])
_cmd_unhide == row # None /\ Updates([row EXCEPT !.active = TRUE])
Protect == \E p \in BOOLEAN : row # None /\ Updates([row EXCEPT !.protected = p])

\* favorite: the entry is loaded, the Favorite stored, the images downloaded
\* and registered, and then the whole entry saved.
_cmd_favorite ==
  \/ /\ favoriting.at = "idle"
     /\ row # None /\ ~favorite
     /\ favorite' = TRUE
     /\ favoriting' = [at |-> "download", e |-> row]
     /\ UNCHANGED <<row, inserted>>
  \/ /\ favoriting.at = "download"
     /\ \/ Save(favoriting.e)
        \/ Clashes(favoriting.e) /\ UNCHANGED <<row, inserted>>
     /\ favoriting' = [at |-> "idle", e |-> None]
     /\ UNCHANGED favorite

_cmd_unfavorite ==
  /\ row # None /\ favorite
  /\ favorite' = FALSE
  /\ UNCHANGED <<row, inserted, favoriting>>

Favorites ==
  /\ _cmd_favorite \/ _cmd_unfavorite
  /\ UNCHANGED <<importVars, deleted>>

\* --delete-old spares what is protected or a favourite.
DeleteOld ==
  /\ row # None /\ ~row.protected /\ ~favorite
  /\ row' = None
  /\ deleted' = TRUE
  /\ UNCHANGED <<inserted, ownerVars, importVars>>

Next ==
  \/ \E i \in Imports : Resolve(i) \/ Build(i) \/ Write(i) \/ ResolveAgain(i) \/ Rewrite(i)
  \/ _cmd_hide \/ _cmd_unhide \/ Protect \/ Favorites \/ DeleteOld

Spec == Init /\ [][Next]_vars

-----------------------------------------------------------------------------
\* While no entry is deleted, no import fails because of another one: the one
\* whose insert comes second takes the row of the first.
RacingImportsSucceed ==
  ~deleted => \A i \in Imports : import[i].outcome # "failed"

\* An import writes over a row only if that row, as the import last saw it, was
\* neither protected nor as new as the item: also over a row that another
\* import inserted while this one was building.
ImportsFollowRules ==
  [][\A i \in Imports :
       import[i].at \in {"write", "rewrite"} /\ import'[i].outcome = "updated" =>
         /\ looked[i] # None
         /\ ~looked[i].protected
         /\ ~import[i].force /\ import[i].fresh # None => looked[i].updated < import[i].fresh]_vars
=============================================================================
