--------------------------- MODULE WorkerCommands ---------------------------
(***************************************************************************)
(* One run of the worker's command line (worker/cli.py) and the cleanup of *)
(* entries it may ask for (worker/maintenance.py).  An option is a pair of *)
(* the field it sets and the value; a later one overrides an earlier one.  *)
(* What the other commands do is in other modules: here they only show     *)
(* which of them ran.                                                      *)
(***************************************************************************)
EXTENDS Integers, Sequences

CONSTANTS
  None,        \* no value
  Services,    \* the services an entry may be of
  MaxOptions   \* bound: the options of one command line

VARIABLES
  argv,     \* the options still to be parsed
  parsed,   \* _ParsedOptions
  at,       \* where main is
  did,      \* what was done: a kind of command, with its argument
  entries   \* the entries stored

vars == <<argv, parsed, at, did, entries>>

\* Days is one of a negative number, zero or a positive one.
Days == {-1, 0, 1}
Flags == {"email_to_post", "init_files", "list_services", "daemon",
          "force_check", "force_overwrite", "only_inactive", "report_orphan_uploads"}
Options == (Flags \X {TRUE})
           \cup ({"list_old", "delete_old"} \X Days)
           \cup ({"thumbs"} \X {"list-orphans", "delete-orphans"})
           \cup ({"websub_cmd"} \X {"subscribe", "renew", "other"})
           \cup ({"id"} \X Services)
           \cup {<<"extra", TRUE>>, <<"unknown", TRUE>>}

Defaults == [o \in {option[1] : option \in Options} |-> IF o \in Flags THEN FALSE ELSE None]

Kinds == {"usage", "daemon", "fetch", "cleanup", "websub", "email2post", "init_files", "list_services"}

\* Its age is whether the days have passed: since it was published, and since
\* it was inserted.
Entries == [service : Services, public : BOOLEAN, protected : BOOLEAN, favorite : BOOLEAN,
            active : BOOLEAN, published_old : BOOLEAN, inserted_old : BOOLEAN]

TypeOK ==
  /\ \E n \in 0..MaxOptions : argv \in [1..n -> Options]
  /\ DOMAIN parsed = DOMAIN Defaults
  /\ at \in {"parse", "execute", "exit"}
  /\ did \in [kind : Kinds \cup {None}, what : {"nothing", "thumbs", "uploads", "list", "delete",
                "error", "active", "any", "declined", "unknown", "subscribe", "renew"}]
  /\ entries \subseteq Entries

Nothing == [kind |-> None, what |-> "nothing"]

Init ==
  /\ \E n \in 0..MaxOptions : argv \in [1..n -> Options]
  /\ parsed = Defaults
  /\ at = "parse"
  /\ did = Nothing
  /\ entries = Entries

-----------------------------------------------------------------------------
(* parse_legacy_command. *)

_parse_options ==
  /\ at = "parse" /\ argv # <<>>
  /\ parsed' = [parsed EXCEPT ![Head(argv)[1]] = Head(argv)[2]]
  /\ argv' = Tail(argv)
  /\ UNCHANGED <<at, did, entries>>

cleanup_command ==
  \/ parsed.list_old # None \/ parsed.delete_old # None
  \/ parsed.thumbs # None \/ parsed.report_orphan_uploads

_select_command_kind ==
  CASE parsed.unknown # None \/ parsed.extra # None -> "usage"
    [] parsed.email_to_post -> "email2post"
    [] parsed.init_files -> "init_files"
    [] parsed.list_services -> "list_services"
    [] parsed.daemon -> "daemon"
    [] parsed.websub_cmd # None -> "websub"
    [] cleanup_command -> "cleanup"
    [] OTHER -> "fetch"

Select ==
  /\ at = "parse" /\ argv = <<>>
  /\ did' = [Nothing EXCEPT !.kind = _select_command_kind]
  /\ at' = "execute"
  /\ UNCHANGED <<argv, parsed, entries>>

-----------------------------------------------------------------------------
(* execute_command. *)

listing == parsed.list_old # None

OldDays == IF listing THEN parsed.list_old ELSE parsed.delete_old

\* Whether a date is before the cutoff: a cutoff in the future is after all.
Before(old) == OldDays < 0 \/ old

\* Mutant: what is a favourite is not looked up.
WithFavorites(e) == FALSE

IsFavorite(e) == e.favorite

get_old_entries_queryset ==
  {e \in entries :
     /\ parsed.id # None => e.service = parsed.id
     /\ ~e.public /\ ~e.protected /\ ~IsFavorite(e)
     /\ Before(e.published_old) /\ Before(e.inserted_old)
     /\ parsed.only_inactive => ~e.active}

Does(what) == did' = [did EXCEPT !.what = what]
IsTrue(days) == days # None /\ days # 0

\* execute_maintenance_command: one action, in this order.
handle_cleanup ==
  CASE parsed.thumbs # None -> Does("thumbs") /\ UNCHANGED entries
    [] parsed.thumbs = None /\ parsed.report_orphan_uploads -> Does("uploads") /\ UNCHANGED entries
    [] OTHER ->
         IF IsTrue(parsed.list_old) \/ IsTrue(parsed.delete_old)
         THEN IF listing \/ parsed.delete_old = None
              THEN Does("list") /\ UNCHANGED entries
              ELSE Does("delete") /\ entries' = entries \ get_old_entries_queryset
         ELSE Does("error") /\ UNCHANGED entries

\* handle_fetch, after its question; inactive services only when one is forced.
handle_fetch ==
  \/ Does(IF parsed.force_check /\ parsed.id # None THEN "any" ELSE "active")
  \/ parsed.force_overwrite /\ Does("declined")

handle_websub ==
  Does(IF parsed.websub_cmd = "subscribe" /\ parsed.id = None THEN "unknown"
       ELSE IF parsed.websub_cmd = "other" THEN "unknown" ELSE parsed.websub_cmd)

execute_command ==
  /\ at = "execute"
  /\ at' = "exit"
  /\ \/ did.kind = "cleanup" /\ handle_cleanup
     \/ did.kind = "fetch" /\ handle_fetch /\ UNCHANGED entries
     \/ did.kind = "websub" /\ handle_websub /\ UNCHANGED entries
     \/ did.kind \in {"usage", "email2post", "init_files", "list_services", "daemon"}
        /\ UNCHANGED <<did, entries>>
  /\ UNCHANGED <<argv, parsed>>

Next == _parse_options \/ Select \/ execute_command

Spec == Init /\ [][Next]_vars

-----------------------------------------------------------------------------
\* No command line deletes an entry that its owner protected, marked as a
\* favourite or publishes, nor one of another service or a visible one where
\* the options narrow the deletion; nor, but for a negative number of days,
\* one that was published or inserted since.
WantedEntriesStay ==
  \A e \in Entries \ entries :
    /\ ~e.favorite /\ ~e.protected /\ ~e.public
    /\ parsed.only_inactive => ~e.active
    /\ parsed.id # None => e.service = parsed.id
    /\ parsed.delete_old > 0 => e.published_old /\ e.inserted_old
=============================================================================
