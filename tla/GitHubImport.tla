--------------------------- MODULE GitHubImport ---------------------------
(***************************************************************************)
(* The GitHub provider (apis/github.py) and the kinds of activity the      *)
(* owner chooses for it in Settings.                                       *)
(*                                                                         *)
(* A run reads the service row, asks GitHub for the events and, for a      *)
(* user's timeline, for the newest releases of the repositories pushed     *)
(* lately, saves the row with the time of the check, and only then writes  *)
(* the entries, the events first.  An entry that cannot be stored is       *)
(* passed over; rendering an event asks GitHub for more and stops the run  *)
(* when that fails.  The owner may save other choices at any time: the row *)
(* is saved, then the entries of the kinds turned off are hidden, then     *)
(* those of the kinds turned on are shown, each in a commit of its own.    *)
(*                                                                         *)
(* An event stands for its kind.  The releases of a repository are         *)
(* numbered in the order GitHub lists them, that of their creation; they   *)
(* may be published in another.  What an entry says is left out, and so    *)
(* are the freshness rules, which EntryStore models, the limit of one page *)
(* of events, and two forms saved at once.                                 *)
(***************************************************************************)
EXTENDS Naturals, FiniteSets

CONSTANTS
  Repos,        \* the user's repositories whose releases a run may list
  Foreign,      \* his forks and private ones, which a run passes over
  Kinds,        \* the kinds of activity other than releases
  None,         \* "never checked"
  Lookback,     \* RELEASE_LOOKBACK, in ticks
  PageSize,     \* the repositories of the one page a run reads
  MaxRepos,     \* MAX_RELEASE_REPOS
  PerRepo,      \* RELEASES_PER_REPO
  MaxReleases,  \* bound: releases of one repository
  MaxTime,      \* bound: the clock
  MaxEdits,     \* bound: submissions of the settings form
  MaxHides      \* bound: entries the owner hides or unhides

Releases == Repos \X (1..MaxReleases)
Items == Kinds \cup Releases
Categories == Kinds \cup {"release"}
Category(i) == IF i \in Kinds THEN i ELSE "release"
Listing == Repos \cup Foreign

VARIABLES
  home,         \* the service reads a home timeline: it has no user id
  options,      \* the kinds of activity in the stored row
  lastChecked,  \* last_checked of the stored row
  now,
  listed,       \* the items GitHub lists: events and published releases
  pushed,       \* when a repository was pushed last, or None
  releasedAt,   \* when a release was published, or None
  entry,        \* the stored entry of an item: "none", "shown", "hidden"
  run,          \* the run: its step, the row it read, what it has left
  saving,       \* the settings form being saved: its step, what it read and chose
  left,         \* items the last run that a failure stopped did not write
  missed,       \* releases a run whose check was saved left out or failed to store
  overlapped,   \* the settings were saved during a run
  cutOff,       \* kinds turned off by a form that failed before hiding them
  unhidden,     \* entries the owner has shown himself
  edits, hides

world == <<listed, pushed, releasedAt>>
ghosts == <<left, missed, overlapped, cutOff, unhidden>>
counts == <<edits, hides>>
vars == <<home, options, lastChecked, now, world, entry, run, saving, ghosts, counts>>

Times == 0..MaxTime
Idle == [at |-> "idle", options |-> {}, checked |-> None, forced |-> FALSE,
         found |-> {}, beyond |-> {}]
NoForm == [at |-> "idle", was |-> {}, chosen |-> {}, checked |-> None]

TypeOK ==
  /\ home \in BOOLEAN
  /\ options \subseteq Categories
  /\ lastChecked \in Times \cup {None}
  /\ now \in Times
  /\ listed \subseteq Items
  /\ pushed \in [Listing -> Times \cup {None}]
  /\ releasedAt \in [Releases -> Times \cup {None}]
  /\ entry \in [Items -> {"none", "shown", "hidden"}]
  /\ run \in [at : {"idle", "ask", "save", "write"}, options : SUBSET Categories,
              checked : Times \cup {None}, forced : BOOLEAN,
              found : SUBSET Items, beyond : SUBSET Releases]
  /\ saving \in [at : {"idle", "read", "hide", "show"}, was : SUBSET Categories,
               chosen : SUBSET Categories, checked : Times \cup {None}]
  /\ left \subseteq Items
  /\ missed \subseteq Releases
  /\ overlapped \in BOOLEAN
  /\ cutOff \subseteq Categories
  /\ unhidden \subseteq Items
  /\ edits \in 0..MaxEdits /\ hides \in 0..MaxHides

Init ==
  /\ home \in BOOLEAN
  /\ options \in SUBSET Categories
  /\ lastChecked = None
  /\ now = 0
  /\ listed = {}
  /\ pushed = [r \in Listing |-> None]
  /\ releasedAt = [x \in Releases |-> None]
  /\ entry = [i \in Items |-> "none"]
  /\ run = Idle
  /\ saving = NoForm
  /\ left = {} /\ missed = {} /\ overlapped = FALSE /\ cutOff = {} /\ unhidden = {}
  /\ edits = 0 /\ hides = 0

-----------------------------------------------------------------------------
(* GitHub: pushes, releases, events, and the end of the list of events.    *)

\* A run's requests take less than a tick: the clock waits for its save.
Tick ==
  /\ now < MaxTime
  /\ run.at # "save"
  /\ now' = now + 1
  /\ UNCHANGED <<home, options, lastChecked, world, entry, run, saving, ghosts, counts>>

Push(r) ==
  /\ pushed[r] # now
  /\ pushed' = [pushed EXCEPT ![r] = now]
  /\ UNCHANGED <<home, options, lastChecked, now, listed, releasedAt, entry,
                 run, saving, ghosts, counts>>

\* A release follows the push that triggered it.
Publish(i) ==
  /\ i \notin listed
  /\ IF i \in Releases
     THEN /\ pushed[i[1]] # None /\ releasedAt[i] = None
          /\ releasedAt' = [releasedAt EXCEPT ![i] = now]
     ELSE UNCHANGED releasedAt
  /\ listed' = listed \cup {i}
  /\ UNCHANGED <<home, options, lastChecked, now, pushed, entry, run, saving,
                 ghosts, counts>>

-----------------------------------------------------------------------------
(* One run.                                                                *)

Begin(forced) ==
  /\ run.at = "idle"
  /\ run' = [Idle EXCEPT !.at = "ask", !.options = options,
                         !.checked = lastChecked, !.forced = forced]
  /\ UNCHANGED <<home, options, lastChecked, now, world, entry, saving, ghosts, counts>>

\* Mutant: only repositories pushed since the previous fetch.
SinceTheCheck(previous) == previous
\* The oldest push a run looks at.
Cutoff(previous) == IF previous > Lookback THEN previous - Lookback ELSE 0

\* What a list of `from` sorted by the last push starts with: n repositories,
\* or all, and none left out was pushed after one of them.
Newest(from, n) ==
  { S \in SUBSET from :
      /\ Cardinality(S) <= n
      /\ \A r \in from \ S : /\ Cardinality(S) = n
                             /\ \A q \in S : pushed[r] <= pushed[q] }

\* The releases a run lists for one repository: the newest of those published
\* and of the drafts its token lets it see.
FirstOf(r, drafts) ==
  { x \in (listed \cap Releases) \cup drafts :
      /\ x[1] = r
      /\ Cardinality({ y \in (listed \cap Releases) \cup drafts :
                         y[1] = r /\ y[2] > x[2] }) < PerRepo }

\* The repositories looked at were pushed since the cutoff.
Recent(looked) ==
  { r \in looked : (run.checked # None /\ ~run.forced) => pushed[r] >= Cutoff(run.checked) }

EventCandidates == { i \in listed : i \in Kinds \/ home }
ReleaseCandidates(looked, drafts) ==
  IF home THEN {} ELSE listed \cap UNION { FirstOf(r, drafts) : r \in Recent(looked) }

\* The releases no look at the repositories would find: their repository is
\* beyond the page or the limit, or the newer ones of it are enough.
Beyond(looked, drafts) ==
  (listed \cap Releases) \ UNION { FirstOf(r, drafts) : r \in looked }

Ask ==
  /\ run.at = "ask"
  /\ \E page \in Newest({ r \in Listing : pushed[r] # None }, PageSize) :
     \E looked \in Newest(page \cap Repos, MaxRepos), drafts \in SUBSET (Releases \ listed) :
       run' = [run EXCEPT
         !.at = "save",
         !.found = { i \in EventCandidates \cup ReleaseCandidates(looked, drafts) :
                       Category(i) \in run.options },
         !.beyond = IF "release" \in run.options THEN Beyond(looked, drafts)
                    ELSE listed \cap Releases]
  /\ UNCHANGED <<home, options, lastChecked, now, world, entry, saving, ghosts, counts>>

\* The whole row the run read is saved, with the time of this check.
SaveCheck ==
  /\ run.at = "save"
  /\ run' = [run EXCEPT !.at = "write"]
  /\ lastChecked' = now
  /\ options' = run.options
  /\ missed' = missed \cup run.beyond
  /\ UNCHANGED <<home, now, world, entry, saving, left, overlapped, cutOff, unhidden, counts>>

\* Events come before the releases of the user's repositories.
IsNext(i) ==
  /\ run.at = "write"
  /\ i \in run.found
  /\ (i \in Releases /\ ~home) => run.found \cap Kinds = {}

Write(i) ==
  /\ IsNext(i)
  /\ entry' = [entry EXCEPT ![i] = IF @ = "none" THEN "shown" ELSE @]
  /\ run' = [run EXCEPT !.found = @ \ {i}]
  /\ UNCHANGED <<home, options, lastChecked, now, world, saving, ghosts, counts>>

\* The entry cannot be stored: it is counted as failed, and the run goes on.
WriteFails(i) ==
  /\ IsNext(i)
  /\ run' = [run EXCEPT !.found = @ \ {i}]
  /\ missed' = missed \cup ({i} \cap Releases)
  /\ UNCHANGED <<home, options, lastChecked, now, world, entry, saving, left,
                 overlapped, cutOff, unhidden, counts>>

Finish ==
  /\ run.at = "write"
  /\ run.found = {}
  /\ run' = Idle
  /\ left' = {}
  /\ UNCHANGED <<home, options, lastChecked, now, world, entry, saving, missed,
                 overlapped, cutOff, unhidden, counts>>

\* A request of the run fails before the check is saved.
AskFails ==
  /\ run.at = "ask"
  /\ run' = Idle
  /\ UNCHANGED <<home, options, lastChecked, now, world, entry, saving, ghosts, counts>>

Stopped ==
  /\ run' = Idle
  /\ missed' = missed \cup (run.found \cap Releases)
  /\ UNCHANGED <<home, options, lastChecked, now, world, entry, saving, overlapped,
                 cutOff, unhidden, counts>>

\* Rendering an event asks GitHub for more, and the answer is a failure other
\* than "there is nothing": the exception ends the run.
RenderFails ==
  /\ run.at = "write"
  /\ run.found \cap Kinds # {}
  /\ left' = run.found
  /\ Stopped

\* The worker dies with entries left to write.
Crash ==
  /\ run.at = "write"
  /\ run.found # {}
  /\ left' = {}
  /\ Stopped

-----------------------------------------------------------------------------
(* The owner.                                                              *)

\* The form reads the row, and keeps the kinds it imports now.
SubmitSettings(chosen) ==
  /\ saving.at = "idle"
  /\ edits < MaxEdits
  /\ saving' = [at |-> "read", was |-> options, chosen |-> chosen, checked |-> lastChecked]
  /\ edits' = edits + 1
  /\ UNCHANGED <<home, options, lastChecked, now, world, entry, run, ghosts, hides>>

\* The whole row is saved, as it was read but for the choice.
SaveSettings ==
  /\ saving.at = "read"
  /\ saving' = [saving EXCEPT !.at = "hide"]
  /\ options' = saving.chosen
  /\ lastChecked' = saving.checked
  /\ overlapped' = (overlapped \/ run.at # "idle")
  /\ UNCHANGED <<home, now, world, entry, run, left, missed, cutOff, unhidden, counts>>

\* Mutant: the kinds imported before are asked for after the row is changed.
AskedLate(was, is) == is \ is
\* The kinds whose entries are to be hidden once `is` is imported, not `was`.
TurnedOff(was, is) == was \ is

\* show_enabled_entries, its first update.
HideEntries ==
  /\ saving.at = "hide"
  /\ saving' = [saving EXCEPT !.at = "show"]
  /\ entry' = [i \in Items |->
                 IF entry[i] = "shown" /\ Category(i) \in TurnedOff(saving.was, saving.chosen)
                 THEN "hidden" ELSE entry[i]]
  /\ unhidden' = { i \in unhidden : entry'[i] = "shown" }
  /\ cutOff' = cutOff \ (saving.was \ saving.chosen)
  /\ UNCHANGED <<home, options, lastChecked, now, world, run, left, missed, overlapped, counts>>

\* Its second update.
ShowEntries ==
  /\ saving.at = "show"
  /\ saving' = NoForm
  /\ entry' = [i \in Items |->
                 IF entry[i] = "hidden" /\ Category(i) \in saving.chosen \ saving.was
                 THEN "shown" ELSE entry[i]]
  /\ UNCHANGED <<home, options, lastChecked, now, world, run, ghosts, counts>>

\* The save, the schedule or an update fails: the form says so, and no more is done.
FormFails ==
  /\ saving.at # "idle"
  /\ saving' = NoForm
  /\ cutOff' = IF saving.at = "hide" THEN cutOff \cup (saving.was \ saving.chosen) ELSE cutOff
  /\ UNCHANGED <<home, options, lastChecked, now, world, entry, run, left, missed,
                 overlapped, unhidden, counts>>

Hide(i) ==
  /\ hides < MaxHides
  /\ entry[i] = "shown"
  /\ entry' = [entry EXCEPT ![i] = "hidden"]
  /\ unhidden' = unhidden \ {i}
  /\ hides' = hides + 1
  /\ UNCHANGED <<home, options, lastChecked, now, world, run, saving, left, missed,
                 overlapped, cutOff, edits>>

Unhide(i) ==
  /\ hides < MaxHides
  /\ entry[i] = "hidden"
  /\ entry' = [entry EXCEPT ![i] = "shown"]
  /\ unhidden' = unhidden \cup {i}
  /\ hides' = hides + 1
  /\ UNCHANGED <<home, options, lastChecked, now, world, run, saving, left, missed,
                 overlapped, cutOff, edits>>

Next ==
  \/ Tick
  \/ \E r \in Listing : Push(r)
  \/ \E i \in Items : Publish(i)
  \/ \E forced \in BOOLEAN : Begin(forced)
  \/ Ask
  \/ SaveCheck
  \/ \E i \in Items : Write(i)
  \/ \E i \in Items : WriteFails(i)
  \/ Finish
  \/ AskFails
  \/ RenderFails
  \/ Crash
  \/ \E chosen \in SUBSET Categories : SubmitSettings(chosen)
  \/ SaveSettings
  \/ HideEntries
  \/ ShowEntries
  \/ FormFails
  \/ \E i \in Items : Hide(i)
  \/ \E i \in Items : Unhide(i)

Spec == Init /\ [][Next]_vars

-----------------------------------------------------------------------------
(* Properties.                                                             *)

\* github.py:44-48: a release that came within the lookback of its push is
\* never lost between two checks: each run finds it until it is stored, across
\* failed requests, forced runs, settings saved with an older row and changed
\* kinds.  Excepted is what this run leaves out, or an earlier one whose check
\* was saved left out: releases beyond the page of repositories, beyond
\* MAX_RELEASE_REPOS or RELEASES_PER_REPO, not imported then, that could not
\* be stored, or still unwritten when a run stopped.  The program does lose
\* those once their push is out of sight.
ReleasesAreFound ==
  [][ (/\ run.at = "ask" /\ run'.at = "save"
       /\ ~home /\ "release" \in run.options)
      => \A x \in Releases \ (missed \cup run'.beyond) :
           (releasedAt[x] # None /\ releasedAt[x] <= pushed[x[1]] + Lookback)
             => (entry[x] # "none" \/ x \in run'.found) ]_vars

\* service_settings.py:253-258: no entry of a kind that is off is shown, unless
\* the owner showed it himself or a form is between the save and the hiding,
\* through imports, crashes and forms that fail at any step.  A kind whose
\* hiding a failure cut off stays excepted until it is turned on and off
\* again; a save that falls into a run is excepted.
DisabledAreHidden ==
  ~overlapped =>
    \A i \in Items :
      (/\ entry[i] = "shown" /\ Category(i) \notin options \cup cutOff
       /\ ~(saving.at = "hide" /\ Category(i) \in saving.was))
        => i \in unhidden

=============================================================================
