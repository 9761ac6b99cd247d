--------------------------- MODULE FetchHungProofs ---------------------------
(***************************************************************************)
(* What the imports of a GitHub service show and find, for any             *)
(* repositories, kinds of activity, limits and times, and how WebSub       *)
(* subscriptions last and agree with their hubs, for any feeds, addresses, *)
(* leases and intervals of renewal.  Each theorem is about the whole       *)
(* module, and about the parts of it that MCFetchHung lets move.           *)
(***************************************************************************)
EXTENDS MCFetchHung, TLAPS

(* The GitHub provider (apis/github.py).                                   *)

\* None is no time, and a release is no kind of activity.
Assumed ==
  /\ Lookback \in Nat /\ MaxTime \in Nat /\ MaxEdits \in Nat /\ MaxHides \in Nat
  /\ None \notin Nat
  /\ Kinds \cap GitHub!Releases = {}

RunType ==
  [at : {"idle", "ask", "save", "write"}, options : SUBSET GitHub!Categories,
   checked : GitHub!Times \cup {None}, forced : BOOLEAN,
   found : SUBSET GitHub!Items, beyond : SUBSET GitHub!Releases]
FormType ==
  [at : {"idle", "read", "hide", "show"}, was : SUBSET GitHub!Categories,
   chosen : SUBSET GitHub!Categories, checked : GitHub!Times \cup {None}]

\* Unless the settings were saved during a run, a run and a form know the
\* choice of the owner, and a run looks for nothing else.
RunIsCurrent ==
  ~overlapped =>
    /\ run.at # "idle" => run.options = options
    /\ run.at # "idle" => \A i \in run.found : GitHub!Category(i) \in options
    /\ saving.at = "read" => saving.was = options
    /\ saving.at \in {"hide", "show"} => saving.chosen = options

ShownAreChosen ==
  ~overlapped => \A i \in GitHub!Items :
    (/\ entry[i] = "shown" /\ GitHub!Category(i) \notin options \cup cutOff
     /\ ~(saving.at = "hide" /\ GitHub!Category(i) \in saving.was))
      => i \in unhidden

\* The times of a check that the row, the run and the form know.
Checks == {lastChecked, run.checked, saving.checked}

\* None of them is of the future; what is published is listed.
ChecksArePast ==
  /\ \A c \in Checks : c # None => c \in Nat /\ c <= now
  /\ \A r \in GitHub!Listing : pushed[r] # None => pushed[r] \in Nat /\ pushed[r] <= now
  /\ \A x \in GitHub!Releases : releasedAt[x] # None =>
       releasedAt[x] \in Nat /\ releasedAt[x] <= now /\ x \in listed /\ pushed[x[1]] # None

\* A release that came within the lookback of its push, before `time`.
OldBy(x, time) ==
  releasedAt[x] # None /\ releasedAt[x] <= pushed[x[1]] + Lookback /\ pushed[x[1]] + Lookback < time

\* It needs no later run: it was imported, is being, or is an exception.
Settled(x) ==
  entry[x] # "none" \/ x \in missed \/ (run.at = "write" /\ x \in run.found)

\* What was out of sight of a check was settled by it.
OldAreTaken ==
  ~home => \A x \in GitHub!Releases :
    /\ \A c \in Checks : c # None /\ OldBy(x, c) => Settled(x)
    /\ run.at = "save" /\ OldBy(x, now) => Settled(x) \/ x \in run.found \cup run.beyond

ImportInv ==
  GitHub!TypeOK /\ RunIsCurrent /\ ShownAreChosen /\ ChecksArePast /\ OldAreTaken

LEMMA ImportTypes ==
  GitHub!TypeOK <=>
    /\ home \in BOOLEAN /\ options \subseteq GitHub!Categories
    /\ lastChecked \in GitHub!Times \cup {None} /\ now \in GitHub!Times
    /\ listed \subseteq GitHub!Items
    /\ pushed \in [GitHub!Listing -> GitHub!Times \cup {None}]
    /\ releasedAt \in [GitHub!Releases -> GitHub!Times \cup {None}]
    /\ entry \in [GitHub!Items -> {"none", "shown", "hidden"}]
    /\ run \in RunType /\ saving \in FormType
    /\ left \subseteq GitHub!Items /\ missed \subseteq GitHub!Releases
    /\ overlapped \in BOOLEAN /\ cutOff \subseteq GitHub!Categories
    /\ unhidden \subseteq GitHub!Items
    /\ edits \in 0..MaxEdits /\ hides \in 0..MaxHides
BY DEF GitHub!TypeOK, RunType, FormType

LEMMA ReleaseParts ==
  ASSUME NEW x \in GitHub!Releases
  PROVE  x \in GitHub!Items /\ x[1] \in Repos /\ x[1] \in GitHub!Listing
BY DEF GitHub!Releases, GitHub!Items, GitHub!Listing

LEMMA IdleTypes ==
  ASSUME Assumed
  PROVE  /\ GitHub!Idle \in RunType /\ GitHub!Idle.at = "idle" /\ GitHub!Idle.checked = None
         /\ GitHub!Idle.found = {}
         /\ GitHub!NoForm \in FormType /\ GitHub!NoForm.at = "idle" /\ GitHub!NoForm.checked = None
BY DEF GitHub!Idle, GitHub!NoForm, RunType, FormType

\* A run that asks finds each release in its sight, and has those out of it.
LEMMA AskFinds ==
  ASSUME Assumed, ImportInv, GitHub!Ask, ~home, NEW x \in GitHub!Releases,
         releasedAt[x] # None, releasedAt[x] <= pushed[x[1]] + Lookback
  PROVE  entry[x] # "none" \/ x \in missed \/ x \in run'.found \/ x \in run'.beyond
<1> USE DEF GitHub!Category
<1>1. PICK page \in GitHub!Newest({r \in GitHub!Listing : pushed[r] # None}, PageSize) :
      \E looked \in GitHub!Newest(page \cap Repos, MaxRepos),
         drafts \in SUBSET (GitHub!Releases \ listed) :
        run' = [run EXCEPT
          !.at = "save",
          !.found = { i \in GitHub!EventCandidates \cup GitHub!ReleaseCandidates(looked, drafts) :
                        GitHub!Category(i) \in run.options },
          !.beyond = IF "release" \in run.options THEN GitHub!Beyond(looked, drafts)
                     ELSE listed \cap GitHub!Releases]
  BY DEF GitHub!Ask
<1>2. PICK looked \in GitHub!Newest(page \cap Repos, MaxRepos),
           drafts \in SUBSET (GitHub!Releases \ listed) :
        run' = [run EXCEPT
          !.at = "save",
          !.found = { i \in GitHub!EventCandidates \cup GitHub!ReleaseCandidates(looked, drafts) :
                        GitHub!Category(i) \in run.options },
          !.beyond = IF "release" \in run.options THEN GitHub!Beyond(looked, drafts)
                     ELSE listed \cap GitHub!Releases]
  BY <1>1
<1>3. run \in RunType /\ x \in listed /\ run.at = "ask"
  BY ImportTypes DEF ImportInv, ChecksArePast, GitHub!Ask
<1>4. /\ run'.found = { i \in GitHub!EventCandidates \cup GitHub!ReleaseCandidates(looked, drafts) :
                          GitHub!Category(i) \in run.options }
      /\ run'.beyond = IF "release" \in run.options THEN GitHub!Beyond(looked, drafts)
                       ELSE listed \cap GitHub!Releases
  BY <1>2, <1>3 DEF RunType
<1>5. CASE x \in run'.beyond
  BY <1>5
<1>6. CASE x \notin run'.beyond
  <2>1. "release" \in run.options /\ x \notin GitHub!Beyond(looked, drafts)
    BY <1>3, <1>4, <1>6
  <2>2. PICK r \in looked : x \in GitHub!FirstOf(r, drafts)
    BY <1>3, <2>1 DEF GitHub!Beyond
  <2>3. x[1] = r
    BY <2>2 DEF GitHub!FirstOf
  <2>4. CASE r \in GitHub!Recent(looked)
    <3>1. x \in GitHub!ReleaseCandidates(looked, drafts)
      BY <1>3, <2>2, <2>4 DEF GitHub!ReleaseCandidates
    <3>2. GitHub!Category(x) = "release"
      BY DEF Assumed
    <3> QED
      BY <1>4, <2>1, <3>1, <3>2
  <2>5. CASE r \notin GitHub!Recent(looked)
    <3>1. run.checked # None /\ ~(pushed[r] >= GitHub!Cutoff(run.checked))
      BY <2>5 DEF GitHub!Recent
    <3>2. /\ run.checked \in Nat /\ pushed[r] \in Nat /\ releasedAt[x] \in Nat
      BY <2>3, <3>1, ReleaseParts DEF ImportInv, ChecksArePast, Checks
    <3>3. pushed[r] + Lookback < run.checked
      BY <3>1, <3>2 DEF GitHub!Cutoff, Assumed
    <3>4. OldBy(x, run.checked)
      BY <2>3, <3>3 DEF OldBy
    <3>5. Settled(x)
      BY <3>1, <3>4 DEF ImportInv, OldAreTaken, Checks
    <3> QED
      BY <1>3, <3>5 DEF Settled
  <2> QED
    BY <2>4, <2>5
<1> QED
  BY <1>5, <1>6

-----------------------------------------------------------------------------
LEMMA ImportInit == ASSUME Assumed, GitHub!Init PROVE ImportInv
<1>1. 0 \in GitHub!Times /\ edits \in 0..MaxEdits /\ hides \in 0..MaxHides
  BY DEF Assumed, GitHub!Init, GitHub!Times
<1>2. GitHub!TypeOK
  BY <1>1, ImportTypes, IdleTypes DEF GitHub!Init
<1>3. /\ \A x \in GitHub!Releases : releasedAt[x] = None
      /\ \A r \in GitHub!Listing : pushed[r] = None
      /\ \A i \in GitHub!Items : entry[i] = "none"
      /\ \A c \in Checks : c = None
      /\ run.at = "idle" /\ saving.at = "idle"
  BY IdleTypes DEF GitHub!Init, Checks
<1> QED
  BY <1>2, <1>3 DEF ImportInv, RunIsCurrent, ShownAreChosen, ChecksArePast, OldAreTaken, OldBy

\* A later push or release makes no release older.
LEMMA NoneGetsOlder ==
  ASSUME Assumed, ImportInv, UNCHANGED <<home, entry, run, saving, missed, lastChecked, now>>,
         ChecksArePast', \A x \in GitHub!Releases, t \in Nat : t <= now /\ OldBy(x, t)' => OldBy(x, t)
  PROVE  OldAreTaken'
<1>1. now \in Nat /\ Checks' = Checks
  BY ImportTypes DEF ImportInv, GitHub!Times, Checks
<1>2. \A x \in GitHub!Releases : /\ OldBy(x, now)' => OldBy(x, now)
                                 /\ \A c \in Checks : c # None /\ OldBy(x, c)' => OldBy(x, c)
  BY <1>1 DEF ImportInv, ChecksArePast, OldBy
<1>3. \A x \in GitHub!Releases : Settled(x) => Settled(x)'
  BY DEF Settled
<1> QED
  BY <1>1, <1>2, <1>3 DEF ImportInv, OldAreTaken, OldBy

\* GitHub and the clock.
LEMMA WorldStep ==
  ASSUME Assumed, ImportInv,
         \/ GitHub!Tick
         \/ \E r \in GitHub!Listing : GitHub!Push(r)
         \/ \E i \in GitHub!Items : GitHub!Publish(i)
  PROVE  ImportInv'
<1>1. UNCHANGED <<home, options, lastChecked, entry, run, saving, left, missed, overlapped, cutOff,
                  unhidden, edits, hides>>
  BY DEF GitHub!Tick, GitHub!Push, GitHub!Publish, GitHub!ghosts, GitHub!counts, GitHub!world
<1>2. RunIsCurrent' /\ ShownAreChosen'
  BY <1>1 DEF ImportInv, RunIsCurrent, ShownAreChosen
<1>3. now \in Nat /\ now <= MaxTime /\ now \in GitHub!Times
  BY ImportTypes DEF ImportInv, GitHub!Times, Assumed
<1>4. Checks' = Checks
  BY <1>1 DEF Checks
<1>5. CASE GitHub!Tick
  <2>1. /\ now' = now + 1 /\ now < MaxTime /\ run.at # "save"
        /\ UNCHANGED <<listed, pushed, releasedAt>>
    BY <1>5 DEF GitHub!Tick, GitHub!world
  <2>2. now' \in GitHub!Times
    BY <1>3, <2>1 DEF GitHub!Times, Assumed
  <2>3. GitHub!TypeOK'
    BY <1>1, <2>1, <2>2 DEF ImportInv, GitHub!TypeOK
  <2>4. ChecksArePast'
    BY <1>3, <1>4, <2>1 DEF ImportInv, ChecksArePast
  <2>5. OldAreTaken'
    BY <1>1, <1>4, <2>1 DEF ImportInv, OldAreTaken, OldBy, Settled
  <2> QED
    BY <1>2, <2>3, <2>4, <2>5 DEF ImportInv
<1>6. ASSUME NEW r \in GitHub!Listing, GitHub!Push(r)
      PROVE  ImportInv'
  <2>1. /\ pushed' = [pushed EXCEPT ![r] = now] /\ UNCHANGED <<now, listed, releasedAt>>
    BY <1>6 DEF GitHub!Push
  <2>2. /\ pushed' \in [GitHub!Listing -> GitHub!Times \cup {None}]
        /\ pushed'[r] = now /\ \A q \in GitHub!Listing \ {r} : pushed'[q] = pushed[q]
    BY <1>3, <2>1, ImportTypes DEF ImportInv
  <2>3. GitHub!TypeOK'
    BY <1>1, <2>1, <2>2 DEF ImportInv, GitHub!TypeOK
  <2>4. now # None
    BY <1>3 DEF Assumed
  <2>5. ChecksArePast'
    BY <1>3, <1>4, <2>1, <2>2, <2>4, ReleaseParts DEF ImportInv, ChecksArePast
  <2>6. ASSUME NEW x \in GitHub!Releases, NEW t \in Nat, t <= now, OldBy(x, t)' PROVE OldBy(x, t)
    BY <1>3, <2>1, <2>2, <2>6, ReleaseParts DEF OldBy, Assumed
  <2>7. OldAreTaken'
    BY <1>1, <2>1, <2>5, <2>6, NoneGetsOlder
  <2> QED
    BY <1>2, <2>3, <2>5, <2>7 DEF ImportInv
<1>7. ASSUME NEW i \in GitHub!Items, GitHub!Publish(i)
      PROVE  ImportInv'
  <2>1. /\ listed' = listed \cup {i} /\ UNCHANGED <<now, pushed>>
        /\ releasedAt' = (IF i \in GitHub!Releases THEN [releasedAt EXCEPT ![i] = now] ELSE releasedAt)
        /\ i \in GitHub!Releases => pushed[i[1]] # None
    BY <1>7 DEF GitHub!Publish
  <2>2. /\ releasedAt' \in [GitHub!Releases -> GitHub!Times \cup {None}]
        /\ \A x \in GitHub!Releases : releasedAt'[x] = (IF x = i THEN now ELSE releasedAt[x])
    BY <1>3, <2>1, ImportTypes DEF ImportInv
  <2>3. GitHub!TypeOK'
    BY <1>1, <2>1, <2>2 DEF ImportInv, GitHub!TypeOK
  <2>4. ChecksArePast'
    BY <1>3, <1>4, <2>1, <2>2 DEF ImportInv, ChecksArePast
  <2>5. ASSUME NEW x \in GitHub!Releases, NEW t \in Nat, t <= now, OldBy(x, t)' PROVE OldBy(x, t)
    <3>1. x = i => pushed[x[1]] \in Nat
      BY <2>1, ReleaseParts DEF ImportInv, ChecksArePast
    <3> QED
      BY <1>3, <2>1, <2>2, <2>5, <3>1 DEF OldBy, Assumed
  <2>6. OldAreTaken'
    BY <1>1, <2>1, <2>4, <2>5, NoneGetsOlder
  <2> QED
    BY <1>2, <2>3, <2>4, <2>6 DEF ImportInv
<1> QED
  BY <1>5, <1>6, <1>7

\* The steps of a run up to its save.
LEMMA CheckStep ==
  ASSUME Assumed, ImportInv,
         \/ \E forced \in BOOLEAN : GitHub!Begin(forced)
         \/ GitHub!Ask \/ GitHub!SaveCheck \/ GitHub!AskFails
  PROVE  ImportInv'
<1>1. UNCHANGED <<home, now, listed, pushed, releasedAt, entry, saving, left, overlapped, cutOff,
                  unhidden, edits, hides>>
  BY DEF GitHub!Begin, GitHub!Ask, GitHub!SaveCheck, GitHub!AskFails, GitHub!world, GitHub!ghosts,
         GitHub!counts
<1>2. run \in RunType /\ now \in Nat /\ now \in GitHub!Times
  BY ImportTypes DEF ImportInv, GitHub!Times
<1>3. ASSUME run' \in RunType, UNCHANGED <<options, lastChecked, missed>>, run.at # "write",
             run'.at = "idle" \/ (run'.at = "ask" /\ run'.options = options /\ run'.found = {}),
             run'.checked \in Checks \cup {None}
      PROVE  ImportInv'
  <2>1. GitHub!TypeOK'
    BY <1>1, <1>3, ImportTypes DEF ImportInv, GitHub!TypeOK, RunType
  <2>2. RunIsCurrent' /\ ShownAreChosen'
    BY <1>1, <1>3 DEF ImportInv, RunIsCurrent, ShownAreChosen
  <2>3. Checks' \subseteq Checks \cup {None}
    BY <1>1, <1>3 DEF Checks
  <2>4. ChecksArePast'
    BY <1>1, <2>3 DEF ImportInv, ChecksArePast
  <2>5. OldAreTaken'
    BY <1>1, <1>3, <2>3 DEF ImportInv, OldAreTaken, OldBy, Settled
  <2> QED
    BY <2>1, <2>2, <2>4, <2>5 DEF ImportInv
<1>4. ASSUME NEW forced \in BOOLEAN, GitHub!Begin(forced) PROVE ImportInv'
  <2>1. /\ run' = [at |-> "ask", options |-> options, checked |-> lastChecked, forced |-> forced,
                   found |-> {}, beyond |-> {}]
        /\ UNCHANGED <<options, lastChecked, missed>> /\ run.at = "idle"
    BY <1>4 DEF GitHub!Begin, GitHub!Idle, GitHub!ghosts
  <2>2. options \in SUBSET GitHub!Categories /\ lastChecked \in GitHub!Times \cup {None}
    BY ImportTypes DEF ImportInv
  <2>3. run' \in RunType /\ run'.at = "ask" /\ run'.options = options /\ run'.found = {}
        /\ run'.checked \in Checks
    BY <2>1, <2>2 DEF RunType, Checks
  <2> QED
    BY <1>3, <2>1, <2>3
<1>5. CASE GitHub!AskFails
  <2>1. run' = GitHub!Idle /\ UNCHANGED <<options, lastChecked, missed>> /\ run.at = "ask"
    BY <1>5 DEF GitHub!AskFails, GitHub!ghosts
  <2> QED
    BY <1>3, <2>1, IdleTypes
<1>6. CASE GitHub!Ask
  <2>1. /\ run' \in RunType /\ run'.at = "save" /\ run'.options = run.options /\ run'.checked = run.checked
        /\ \A i \in run'.found : GitHub!Category(i) \in run.options
        /\ UNCHANGED <<options, lastChecked, missed>> /\ run.at = "ask"
    <3>1. PICK found, beyond :
             /\ run' = [run EXCEPT !.at = "save", !.found = found, !.beyond = beyond]
             /\ found \subseteq GitHub!Items /\ beyond \subseteq GitHub!Releases
             /\ \A i \in found : GitHub!Category(i) \in run.options
      <4>1. listed \subseteq GitHub!Items
        BY ImportTypes DEF ImportInv
      <4>2. PICK page \in GitHub!Newest({r \in GitHub!Listing : pushed[r] # None}, PageSize) :
            \E looked \in GitHub!Newest(page \cap Repos, MaxRepos),
               drafts \in SUBSET (GitHub!Releases \ listed) :
              run' = [run EXCEPT
                !.at = "save",
                !.found = { i \in GitHub!EventCandidates \cup GitHub!ReleaseCandidates(looked, drafts) :
                              GitHub!Category(i) \in run.options },
                !.beyond = IF "release" \in run.options THEN GitHub!Beyond(looked, drafts)
                           ELSE listed \cap GitHub!Releases]
        BY <1>6 DEF GitHub!Ask
      <4>3. PICK looked \in GitHub!Newest(page \cap Repos, MaxRepos),
                 drafts \in SUBSET (GitHub!Releases \ listed) :
              run' = [run EXCEPT
                !.at = "save",
                !.found = { i \in GitHub!EventCandidates \cup GitHub!ReleaseCandidates(looked, drafts) :
                              GitHub!Category(i) \in run.options },
                !.beyond = IF "release" \in run.options THEN GitHub!Beyond(looked, drafts)
                           ELSE listed \cap GitHub!Releases]
        BY <4>2
      <4> DEFINE f == { i \in GitHub!EventCandidates \cup GitHub!ReleaseCandidates(looked, drafts) :
                          GitHub!Category(i) \in run.options }
                 b == IF "release" \in run.options THEN GitHub!Beyond(looked, drafts)
                      ELSE listed \cap GitHub!Releases
      <4>4. GitHub!EventCandidates \subseteq listed /\ GitHub!ReleaseCandidates(looked, drafts) \subseteq listed
            /\ GitHub!Beyond(looked, drafts) \subseteq GitHub!Releases
        BY DEF GitHub!EventCandidates, GitHub!ReleaseCandidates, GitHub!Beyond
      <4>5. f \subseteq GitHub!Items /\ b \subseteq GitHub!Releases
            /\ \A i \in f : GitHub!Category(i) \in run.options
        BY <4>1, <4>4
      <4>6. run' = [run EXCEPT !.at = "save", !.found = f, !.beyond = b]
        BY <4>3
      <4> HIDE DEF f, b
      <4> QED
        BY <4>5, <4>6
    <3>2. run' \in RunType /\ run'.at = "save" /\ run'.options = run.options
          /\ run'.checked = run.checked /\ run'.found = found
      BY <1>2, <3>1 DEF RunType
    <3> QED
      BY <1>6, <3>1, <3>2 DEF GitHub!Ask, GitHub!ghosts
  <2>2. GitHub!TypeOK'
    BY <1>1, <2>1, ImportTypes DEF ImportInv, GitHub!TypeOK, RunType
  <2>3. RunIsCurrent' /\ ShownAreChosen'
    BY <1>1, <2>1 DEF ImportInv, RunIsCurrent, ShownAreChosen
  <2>4. Checks' = Checks
    BY <1>1, <2>1 DEF Checks
  <2>5. ChecksArePast'
    BY <1>1, <2>4 DEF ImportInv, ChecksArePast
  <2>6. OldAreTaken'
    <3> SUFFICES ASSUME ~home, NEW x \in GitHub!Releases
                 PROVE  /\ \A c \in Checks : c # None /\ OldBy(x, c) => entry[x] # "none" \/ x \in missed
                        /\ OldBy(x, now) => entry[x] # "none" \/ x \in missed
                                            \/ x \in run'.found \cup run'.beyond
      BY <1>1, <2>1, <2>4 DEF OldAreTaken, OldBy, Settled
    <3>1. \A c \in Checks : c # None /\ OldBy(x, c) => entry[x] # "none" \/ x \in missed
      BY <2>1 DEF ImportInv, OldAreTaken, Settled
    <3>2. OldBy(x, now) => entry[x] # "none" \/ x \in missed \/ x \in run'.found \cup run'.beyond
      BY <1>6, AskFinds DEF OldBy
    <3> QED
      BY <3>1, <3>2
  <2> QED
    BY <2>2, <2>3, <2>5, <2>6 DEF ImportInv
<1>7. CASE GitHub!SaveCheck
  <2>1. /\ run.at = "save" /\ run' = [run EXCEPT !.at = "write"]
        /\ lastChecked' = now /\ options' = run.options
        /\ missed' = missed \cup run.beyond
    BY <1>7 DEF GitHub!SaveCheck
  <2>2. /\ run'.at = "write" /\ run'.found = run.found /\ run'.options = run.options
        /\ run'.checked = run.checked /\ run' \in RunType
        /\ run.beyond \subseteq GitHub!Releases /\ run.options \subseteq GitHub!Categories
    BY <1>2, <2>1 DEF RunType
  <2>3. GitHub!TypeOK'
    BY <1>1, <1>2, <2>1, <2>2 DEF ImportInv, GitHub!TypeOK, RunType
  <2>4. RunIsCurrent' /\ ShownAreChosen'
    BY <1>1, <2>1, <2>2 DEF ImportInv, RunIsCurrent, ShownAreChosen
  <2>5. Checks' \subseteq Checks \cup {now}
    BY <1>1, <2>1, <2>2 DEF Checks
  <2>6. ChecksArePast'
    BY <1>1, <1>2, <2>5 DEF ImportInv, ChecksArePast
  <2>7. OldAreTaken'
    BY <1>1, <2>1, <2>2, <2>5 DEF ImportInv, OldAreTaken, OldBy, Settled
  <2> QED
    BY <2>3, <2>4, <2>6, <2>7 DEF ImportInv
<1> QED
  BY <1>4, <1>5, <1>6, <1>7

\* A run writes its entries, or stops.
LEMMA WriteStep ==
  ASSUME Assumed, ImportInv,
         \/ \E i \in GitHub!Items : GitHub!Write(i) \/ GitHub!WriteFails(i)
         \/ GitHub!Finish \/ GitHub!RenderFails \/ GitHub!Crash
  PROVE  ImportInv'
<1>1. UNCHANGED <<home, options, lastChecked, now, listed, pushed, releasedAt, saving, overlapped,
                  cutOff, unhidden, edits, hides>>
  BY DEF GitHub!Write, GitHub!WriteFails, GitHub!Finish, GitHub!RenderFails, GitHub!Crash,
         GitHub!Stopped, GitHub!world, GitHub!ghosts, GitHub!counts
<1>2. /\ run \in RunType /\ entry \in [GitHub!Items -> {"none", "shown", "hidden"}]
      /\ left \subseteq GitHub!Items /\ missed \subseteq GitHub!Releases
  BY ImportTypes DEF ImportInv
<1>3. ASSUME run.at = "write", run' \in RunType, run'.checked \in {run.checked, None},
             run'.at \in {"idle", "write"}, run'.at = "write" => run'.options = run.options,
             run'.found \subseteq run.found,
             entry' \in [GitHub!Items -> {"none", "shown", "hidden"}],
             \A i \in GitHub!Items :
               \/ entry'[i] = entry[i]
               \/ entry[i] = "none" /\ entry'[i] = "shown" /\ i \in run.found,
             left' \subseteq GitHub!Items, missed' \subseteq GitHub!Releases, missed \subseteq missed',
             \A x \in GitHub!Releases : x \in run.found =>
               entry'[x] # "none" \/ x \in missed' \/ (run'.at = "write" /\ x \in run'.found)
      PROVE  ImportInv'
  <2>1. GitHub!TypeOK'
    BY <1>1, <1>3 DEF ImportInv, GitHub!TypeOK, RunType
  <2>2. RunIsCurrent' /\ ShownAreChosen'
    BY <1>1, <1>3 DEF ImportInv, RunIsCurrent, ShownAreChosen
  <2>3. Checks' \subseteq Checks \cup {None}
    BY <1>1, <1>3 DEF Checks
  <2>4. ChecksArePast'
    BY <1>1, <2>3 DEF ImportInv, ChecksArePast
  <2>5. \A x \in GitHub!Releases : Settled(x) => Settled(x)'
    BY <1>3, ReleaseParts DEF Settled
  <2>6. OldAreTaken'
    BY <1>1, <1>3, <2>3, <2>5 DEF ImportInv, OldAreTaken, OldBy
  <2> QED
    BY <2>1, <2>2, <2>4, <2>6 DEF ImportInv
<1>4. ASSUME NEW i \in GitHub!Items, GitHub!Write(i) \/ GitHub!WriteFails(i)
      PROVE  ImportInv'
  <2>1. /\ run.at = "write" /\ i \in run.found /\ run' = [run EXCEPT !.found = run.found \ {i}]
        /\ left' = left
        /\ \/ entry' = [entry EXCEPT ![i] = IF entry[i] = "none" THEN "shown" ELSE entry[i]]
              /\ missed' = missed
           \/ entry' = entry /\ missed' = missed \cup ({i} \cap GitHub!Releases)
    BY <1>4 DEF GitHub!Write, GitHub!WriteFails, GitHub!IsNext, GitHub!ghosts
  <2>2. /\ run'.at = "write" /\ run'.found = run.found \ {i} /\ run'.options = run.options
        /\ run'.checked = run.checked /\ run' \in RunType
    BY <1>2, <2>1 DEF RunType
  <2>3. /\ entry' \in [GitHub!Items -> {"none", "shown", "hidden"}]
        /\ \A k \in GitHub!Items : k # i => entry'[k] = entry[k]
        /\ entry'[i] = entry[i] \/ (entry[i] = "none" /\ entry'[i] = "shown")
        /\ entry'[i] # "none" \/ ({i} \cap GitHub!Releases) \subseteq missed'
    BY <1>2, <2>1
  <2> QED
    BY <1>2, <1>3, <2>1, <2>2, <2>3
<1>5. CASE GitHub!Finish \/ GitHub!RenderFails \/ GitHub!Crash
  <2>1. /\ run.at = "write" /\ run' = GitHub!Idle /\ UNCHANGED entry
        /\ missed' = missed \cup (run.found \cap GitHub!Releases)
        /\ left' \in {run.found, {}}
    BY <1>5 DEF GitHub!Finish, GitHub!RenderFails, GitHub!Crash, GitHub!Stopped
  <2>2. run.found \subseteq GitHub!Items
    BY <1>2 DEF RunType
  <2> QED
    BY <1>2, <1>3, <2>1, <2>2, IdleTypes
<1> QED
  BY <1>4, <1>5

\* The form is read, saved, and the entries hidden and shown; or it fails.
LEMMA FormStep ==
  ASSUME Assumed, ImportInv,
         \/ \E chosen \in SUBSET GitHub!Categories : GitHub!SubmitSettings(chosen)
         \/ GitHub!SaveSettings \/ GitHub!HideEntries \/ GitHub!ShowEntries \/ GitHub!FormFails
  PROVE  ImportInv'
<1> USE DEF GitHub!TurnedOff
<1>1. UNCHANGED <<home, now, listed, pushed, releasedAt, run, left, missed, hides>>
  BY DEF GitHub!SubmitSettings, GitHub!SaveSettings, GitHub!HideEntries, GitHub!ShowEntries,
         GitHub!FormFails, GitHub!world, GitHub!ghosts, GitHub!counts
<1>2. /\ saving \in FormType /\ entry \in [GitHub!Items -> {"none", "shown", "hidden"}]
      /\ options \in SUBSET GitHub!Categories /\ lastChecked \in GitHub!Times \cup {None}
      /\ cutOff \subseteq GitHub!Categories /\ unhidden \subseteq GitHub!Items
      /\ edits \in 0..MaxEdits /\ overlapped \in BOOLEAN
  BY ImportTypes DEF ImportInv
<1>3. /\ saving.was \subseteq GitHub!Categories /\ saving.chosen \subseteq GitHub!Categories
      /\ saving.checked \in GitHub!Times \cup {None}
  BY <1>2 DEF FormType
<1>4. ASSUME saving' \in FormType, Checks' \subseteq Checks \cup {None},
             entry' \in [GitHub!Items -> {"none", "shown", "hidden"}],
             \A i \in GitHub!Items : entry'[i] = "none" <=> entry[i] = "none",
             options' \subseteq GitHub!Categories, lastChecked' \in GitHub!Times \cup {None},
             cutOff' \subseteq GitHub!Categories, unhidden' \subseteq GitHub!Items,
             edits' \in 0..MaxEdits, overlapped' \in BOOLEAN, RunIsCurrent', ShownAreChosen'
      PROVE  ImportInv'
  <2>1. GitHub!TypeOK'
    BY <1>1, <1>4 DEF ImportInv, GitHub!TypeOK, FormType
  <2>2. ChecksArePast'
    BY <1>1, <1>4 DEF ImportInv, ChecksArePast
  <2>3. OldAreTaken'
    BY <1>1, <1>4, ReleaseParts DEF ImportInv, OldAreTaken, OldBy, Settled
  <2> QED
    BY <1>4, <2>1, <2>2, <2>3 DEF ImportInv
<1>5. ASSUME NEW chosen \in SUBSET GitHub!Categories, GitHub!SubmitSettings(chosen) PROVE ImportInv'
  <2>1. /\ saving' = [at |-> "read", was |-> options, chosen |-> chosen, checked |-> lastChecked]
        /\ edits' = edits + 1 /\ edits < MaxEdits /\ saving.at = "idle"
        /\ UNCHANGED <<options, lastChecked, entry, overlapped, cutOff, unhidden>>
    BY <1>5 DEF GitHub!SubmitSettings, GitHub!ghosts
  <2>2. /\ saving' \in FormType /\ saving'.at = "read" /\ saving'.was = options
        /\ saving'.checked = lastChecked
    BY <1>2, <2>1 DEF FormType
  <2>3. Checks' \subseteq Checks
    BY <1>1, <2>1, <2>2 DEF Checks
  <2>4. edits' \in 0..MaxEdits
    BY <1>2, <2>1 DEF Assumed
  <2>5. RunIsCurrent' /\ ShownAreChosen'
    BY <1>1, <2>1, <2>2 DEF ImportInv, RunIsCurrent, ShownAreChosen
  <2> QED
    BY <1>2, <1>4, <2>1, <2>2, <2>3, <2>4, <2>5
<1>6. CASE GitHub!SaveSettings
  <2>1. /\ saving.at = "read" /\ saving' = [saving EXCEPT !.at = "hide"]
        /\ options' = saving.chosen /\ lastChecked' = saving.checked
        /\ overlapped' = (overlapped \/ run.at # "idle")
        /\ UNCHANGED <<entry, cutOff, unhidden, edits>>
    BY <1>6 DEF GitHub!SaveSettings, GitHub!counts
  <2>2. /\ saving' \in FormType /\ saving'.at = "hide" /\ saving'.was = saving.was
        /\ saving'.chosen = saving.chosen /\ saving'.checked = saving.checked
    BY <1>2, <2>1 DEF FormType
  <2>3. Checks' \subseteq Checks
    BY <1>1, <2>1, <2>2 DEF Checks
  <2>4. RunIsCurrent' /\ ShownAreChosen'
    BY <1>1, <2>1, <2>2 DEF ImportInv, RunIsCurrent, ShownAreChosen
  <2> QED
    BY <1>2, <1>3, <1>4, <2>1, <2>2, <2>3, <2>4
<1>7. CASE GitHub!HideEntries
  <2>1. /\ saving.at = "hide" /\ saving' = [saving EXCEPT !.at = "show"]
        /\ entry' = [i \in GitHub!Items |->
                       IF entry[i] = "shown" /\ GitHub!Category(i) \in saving.was \ saving.chosen
                       THEN "hidden" ELSE entry[i]]
        /\ unhidden' = {i \in unhidden : entry'[i] = "shown"}
        /\ cutOff' = cutOff \ (saving.was \ saving.chosen)
        /\ UNCHANGED <<options, lastChecked, overlapped, edits>>
    BY <1>7 DEF GitHub!HideEntries, GitHub!counts
  <2>2. /\ saving' \in FormType /\ saving'.at = "show" /\ saving'.chosen = saving.chosen
        /\ saving'.checked = saving.checked
    BY <1>2, <2>1 DEF FormType
  <2>3. /\ entry' \in [GitHub!Items -> {"none", "shown", "hidden"}]
        /\ \A i \in GitHub!Items :
             /\ entry'[i] = "none" <=> entry[i] = "none"
             /\ entry'[i] = "shown" =>
                  entry[i] = "shown" /\ GitHub!Category(i) \notin saving.was \ saving.chosen
    BY <1>2, <2>1
  <2>4. Checks' \subseteq Checks
    BY <1>1, <2>1, <2>2 DEF Checks
  <2>5. RunIsCurrent' /\ ShownAreChosen'
    BY <1>1, <2>1, <2>2, <2>3 DEF ImportInv, RunIsCurrent, ShownAreChosen
  <2> QED
    BY <1>2, <1>4, <2>1, <2>2, <2>3, <2>4, <2>5
<1>8. CASE GitHub!ShowEntries
  <2>1. /\ saving.at = "show" /\ saving' = GitHub!NoForm
        /\ entry' = [i \in GitHub!Items |->
                       IF entry[i] = "hidden" /\ GitHub!Category(i) \in saving.chosen \ saving.was
                       THEN "shown" ELSE entry[i]]
        /\ UNCHANGED <<options, lastChecked, overlapped, cutOff, unhidden, edits>>
    BY <1>8 DEF GitHub!ShowEntries, GitHub!ghosts, GitHub!counts
  <2>2. /\ entry' \in [GitHub!Items -> {"none", "shown", "hidden"}]
        /\ \A i \in GitHub!Items :
             /\ entry'[i] = "none" <=> entry[i] = "none"
             /\ entry'[i] = "shown" => entry[i] = "shown" \/ GitHub!Category(i) \in saving.chosen
    BY <1>2, <2>1
  <2>3. saving' \in FormType /\ saving'.at = "idle" /\ saving'.checked = None
    BY <2>1, IdleTypes
  <2>4. Checks' \subseteq Checks \cup {None}
    BY <1>1, <2>1, <2>3 DEF Checks
  <2>5. RunIsCurrent' /\ ShownAreChosen'
    BY <1>1, <2>1, <2>2, <2>3 DEF ImportInv, RunIsCurrent, ShownAreChosen
  <2> QED
    BY <1>2, <1>4, <2>1, <2>2, <2>3, <2>4, <2>5
<1>9. CASE GitHub!FormFails
  <2>1. /\ saving.at # "idle" /\ saving' = GitHub!NoForm
        /\ cutOff' = (IF saving.at = "hide" THEN cutOff \cup (saving.was \ saving.chosen) ELSE cutOff)
        /\ UNCHANGED <<options, lastChecked, entry, overlapped, unhidden, edits>>
    BY <1>9 DEF GitHub!FormFails, GitHub!counts
  <2>2. saving' \in FormType /\ saving'.at = "idle" /\ saving'.checked = None
    BY <2>1, IdleTypes
  <2>3. Checks' \subseteq Checks \cup {None}
    BY <1>1, <2>1, <2>2 DEF Checks
  <2>4. RunIsCurrent' /\ ShownAreChosen'
    BY <1>1, <2>1, <2>2 DEF ImportInv, RunIsCurrent, ShownAreChosen
  <2> QED
    BY <1>2, <1>3, <1>4, <2>1, <2>2, <2>3, <2>4
<1> QED
  BY <1>5, <1>6, <1>7, <1>8, <1>9

\* The owner hides an entry or shows it.
LEMMA HidingStep ==
  ASSUME Assumed, ImportInv, NEW i \in GitHub!Items, GitHub!Hide(i) \/ GitHub!Unhide(i)
  PROVE  ImportInv'
<1>1. /\ UNCHANGED <<home, options, lastChecked, now, listed, pushed, releasedAt, run, saving, left,
                     missed, overlapped, cutOff, edits>>
      /\ hides' = hides + 1 /\ hides < MaxHides /\ entry[i] # "none"
      /\ \/ entry' = [entry EXCEPT ![i] = "hidden"] /\ unhidden' = unhidden \ {i}
         \/ entry' = [entry EXCEPT ![i] = "shown"] /\ unhidden' = unhidden \cup {i}
  BY DEF GitHub!Hide, GitHub!Unhide, GitHub!world
<1>2. /\ entry' \in [GitHub!Items -> {"none", "shown", "hidden"}]
      /\ \A k \in GitHub!Items : entry'[k] = "none" <=> entry[k] = "none"
      /\ \A k \in GitHub!Items : k # i => entry'[k] = entry[k]
      /\ \/ entry'[i] = "hidden" /\ unhidden' = unhidden \ {i}
         \/ entry'[i] = "shown" /\ unhidden' = unhidden \cup {i}
  BY <1>1, ImportTypes DEF ImportInv
<1>3. GitHub!TypeOK'
  BY <1>1, <1>2 DEF ImportInv, GitHub!TypeOK, Assumed
<1>4. RunIsCurrent' /\ ShownAreChosen'
  BY <1>1, <1>2 DEF ImportInv, RunIsCurrent, ShownAreChosen
<1>5. ChecksArePast' /\ OldAreTaken'
  BY <1>1, <1>2, ReleaseParts DEF ImportInv, ChecksArePast, OldAreTaken, OldBy, Settled, Checks
<1> QED
  BY <1>3, <1>4, <1>5 DEF ImportInv

LEMMA ImportNext == ASSUME Assumed, ImportInv, [GitHub!Next]_(GitHub!vars) PROVE ImportInv'
<1>1. CASE UNCHANGED GitHub!vars
  BY <1>1 DEF GitHub!vars, GitHub!world, GitHub!ghosts, GitHub!counts, ImportInv, GitHub!TypeOK,
              RunIsCurrent, ShownAreChosen, ChecksArePast, OldAreTaken, OldBy, Settled, Checks
<1>2. CASE GitHub!Next
  BY <1>2, WorldStep, CheckStep, WriteStep, FormStep, HidingStep DEF GitHub!Next
<1> QED
  BY <1>1, <1>2

LEMMA ImportSpecInv == ASSUME Assumed PROVE (HungSpec => []ImportInv) /\ (GitHub!Spec => []ImportInv)
<1>1. GitHub!Init => ImportInv
  BY ImportInit
<1>2. ImportInv /\ [GitHub!Next]_(GitHub!vars) => ImportInv'
  BY ImportNext
<1>3. HungInit => GitHub!Init
  BY DEF HungInit
<1>4. [HungNext]_allVars => [GitHub!Next]_(GitHub!vars)
  BY DEF HungNext, allVars, importVars, GitHub!vars, GitHub!world, GitHub!ghosts, GitHub!counts
<1> QED
  BY <1>1, <1>2, <1>3, <1>4, PTL DEF HungSpec, GitHub!Spec

-----------------------------------------------------------------------------
\* No entry of a kind that is turned off is shown, but those the owner showed
\* himself (service_settings.py:253-258), for any forms and runs, and forms
\* that fail between their commits.
THEOREM DisabledStayHidden ==
  ASSUME Assumed
  PROVE  (HungSpec => []DisabledAreHidden) /\ (GitHub!Spec => []GitHub!DisabledAreHidden)
<1>1. ImportInv => DisabledAreHidden /\ GitHub!DisabledAreHidden
  BY DEF ImportInv, ShownAreChosen, DisabledAreHidden, GitHub!DisabledAreHidden
<1> QED
  BY <1>1, ImportSpecInv, PTL

\* A run finds every release that came within the lookback of its push, but
\* for those its limits leave out or an earlier run passed over
\* (github.py:44-48, 258-288).
THEOREM ReleasesSeen ==
  ASSUME Assumed
  PROVE  (HungSpec => ReleasesAreFound) /\ (GitHub!Spec => GitHub!ReleasesAreFound)
<1>1. ImportInv /\ [GitHub!Next]_(GitHub!vars)
        => [(/\ run.at = "ask" /\ run'.at = "save"
             /\ ~home /\ "release" \in run.options)
             => \A x \in GitHub!Releases \ (missed \cup run'.beyond) :
                  (releasedAt[x] # None /\ releasedAt[x] <= pushed[x[1]] + Lookback)
                    => (entry[x] # "none" \/ x \in run'.found)]_(GitHub!vars)
  <2> SUFFICES ASSUME ImportInv, GitHub!Next, run.at = "ask", run'.at = "save", ~home,
                      NEW x \in GitHub!Releases, x \notin missed, x \notin run'.beyond,
                      releasedAt[x] # None, releasedAt[x] <= pushed[x[1]] + Lookback
               PROVE  entry[x] # "none" \/ x \in run'.found
    OBVIOUS
  <2>1. ASSUME \/ GitHub!Tick
               \/ \E q \in GitHub!Listing : GitHub!Push(q)
               \/ \E i \in GitHub!Items : GitHub!Publish(i) \/ GitHub!Hide(i) \/ GitHub!Unhide(i)
               \/ \E chosen \in SUBSET GitHub!Categories : GitHub!SubmitSettings(chosen)
               \/ GitHub!SaveSettings \/ GitHub!HideEntries \/ GitHub!ShowEntries \/ GitHub!FormFails
        PROVE  run' = run
    BY <2>1 DEF GitHub!Tick, GitHub!Push, GitHub!Publish, GitHub!Hide, GitHub!Unhide,
                GitHub!SubmitSettings, GitHub!SaveSettings, GitHub!HideEntries, GitHub!ShowEntries,
                GitHub!FormFails
  <2>2. ASSUME \/ \E forced \in BOOLEAN : GitHub!Begin(forced)
               \/ \E i \in GitHub!Items : GitHub!Write(i) \/ GitHub!WriteFails(i)
               \/ GitHub!SaveCheck \/ GitHub!Finish \/ GitHub!RenderFails \/ GitHub!Crash
        PROVE  run.at # "ask"
    BY <2>2 DEF GitHub!Begin, GitHub!SaveCheck, GitHub!Write, GitHub!WriteFails, GitHub!IsNext,
                GitHub!Finish, GitHub!RenderFails, GitHub!Crash
  <2>3. GitHub!AskFails => run'.at = "idle"
    BY DEF GitHub!AskFails, GitHub!Idle
  <2>4. GitHub!Ask
    BY <2>1, <2>2, <2>3 DEF GitHub!Next
  <2> QED
    BY <2>4, AskFinds
<1>2. [HungNext]_allVars => [GitHub!Next]_(GitHub!vars)
  BY DEF HungNext, allVars, importVars, GitHub!vars, GitHub!world, GitHub!ghosts, GitHub!counts
<1> QED
  BY <1>1, <1>2, ImportSpecInv, PTL DEF HungSpec, GitHub!Spec, ReleasesAreFound, GitHub!ReleasesAreFound

-----------------------------------------------------------------------------
(* WebSub subscriptions (worker/commands/websub.py).                       *)

SubRow == [verified : BOOLEAN, left : (0..Lease) \cup {None}]
ProcessType == [at : {"post", "save"}, key : WebSub!Keys, new : BOOLEAN] \cup {WebSub!IdleProcess}

\* Subscriptions are renewed more often than a lease ends; None is no row and no
\* number of days.
Renewed ==
  /\ Lease \in Nat /\ Window \in Nat /\ RenewEvery \in Nat
  /\ RenewEvery < Lease /\ RenewEvery < Window
  /\ None \notin Nat /\ None \notin SubRow

\* Days left, `age` days after the last renewal, with which a lease lasts until
\* the next one, or which a hub granted since.
Lasts(days, age) == days + age >= Window \/ days + age >= Lease

\* The renewal has still to come to a row, or to post for the service at the
\* address c, or a hub to verify that.
InProgress(k, c) ==
  \/ k \in queue
  \/ renewal.at = "post" /\ renewal.key = c
  \/ <<c, "subscribe">> \in asked

Fresh(row, age) == row # None /\ row.verified /\ (row.left # None => Lasts(row.left, age))

\* A lease lasts, or is being renewed, or has been at the current address.
LeaseHolds(k) ==
  LET c == WebSub!Current(WebSub!Of(k))
  IN  (sub[k] # None /\ WebSub!Of(k) \notin neglected /\ sub[k].left # None) =>
        /\ sub[k].left = 0 => WebSub!Lives(c)
        /\ Lasts(sub[k].left, since) \/ InProgress(k, c) \/ Fresh(sub[c], since)

SubInv ==
  /\ WebSub!TypeOK
  /\ WebSub!SidesAgree
  /\ \A k \in WebSub!Keys : sub[k] # None /\ sub[k].left # None => leased[k]
  /\ \A k \in WebSub!Keys : LeaseHolds(k)

\* The rows that change are new, and are not verified yet.
OnlyNewRows ==
  \A k \in WebSub!Keys :
    \/ sub'[k] = sub[k]
    \/ sub[k] = None /\ sub'[k] = WebSub!Unverified

LEMMA SubTypes ==
  WebSub!TypeOK <=>
    /\ sub \in [WebSub!Keys -> SubRow \cup {None}] /\ leased \in [WebSub!Keys -> BOOLEAN]
    /\ services \subseteq Feeds /\ address \in [Feeds -> Addresses]
    /\ asked \subseteq WebSub!Keys \X WebSub!Modes /\ active \subseteq WebSub!Keys
    /\ command \in ProcessType /\ renewal \in ProcessType
    /\ queue \subseteq WebSub!Keys /\ since \in 0..RenewEvery
    /\ neglected \subseteq Feeds /\ parted \subseteq WebSub!Keys
BY DEF WebSub!TypeOK, SubRow, ProcessType

LEMMA SubInit == ASSUME Renewed, WebSub!Init PROVE SubInv
<1>1. WebSub!TypeOK
  BY SubTypes DEF WebSub!Init, ProcessType, Renewed
<1> QED
  BY <1>1 DEF WebSub!Init, SubInv, LeaseHolds, WebSub!SidesAgree, WebSub!Lives

\* What a key is made of.
LEMMA KeyParts ==
  /\ \A k \in WebSub!Keys : WebSub!Of(k) \in Feeds
  /\ address \in [Feeds -> Addresses] =>
       \A s \in Feeds : WebSub!Current(s) \in WebSub!Keys /\ WebSub!Of(WebSub!Current(s)) = s
BY DEF WebSub!Keys, WebSub!Of, WebSub!Current

\* A subscription starts, or the renewal comes to a row.
LEMMA LookedType ==
  ASSUME NEW s \in Feeds, WebSub!TypeOK
  PROVE  WebSub!Looked(s) \in ProcessType /\ WebSub!Looked(s).at = "post"
         /\ WebSub!Looked(s).key = WebSub!Current(s)
BY KeyParts, SubTypes DEF WebSub!Looked, ProcessType

LEMMA ProcessMoves ==
  ASSUME NEW p \in ProcessType
  PROVE  /\ WebSub!IdleProcess \in ProcessType /\ WebSub!IdleProcess.at = "idle"
         /\ p.at \in {"post", "save"} =>
              /\ p.key \in WebSub!Keys
              /\ [p EXCEPT !.at = "save"] \in ProcessType /\ [p EXCEPT !.at = "save"].at = "save"
BY DEF ProcessType, WebSub!IdleProcess

\* A new row is not verified yet.
LEMMA SaveIsSafe ==
  ASSUME Renewed, SubInv, NEW p \in ProcessType, p.at = "save", WebSub!Saved(p)
  PROVE  /\ sub' \in [WebSub!Keys -> SubRow \cup {None}]
         /\ OnlyNewRows
<1>1. WebSub!Unverified \in SubRow /\ p.key \in WebSub!Keys
  BY ProcessMoves DEF WebSub!Unverified, SubRow
<1> QED
  BY <1>1, SubTypes DEF WebSub!Saved, WebSub!CannotSave, WebSub!Saves, SubInv, OnlyNewRows

\* New rows live no more than none did.
LEMMA NewRowsAreSafe ==
  ASSUME Renewed, SubInv, sub' \in [WebSub!Keys -> SubRow \cup {None}], OnlyNewRows,
         UNCHANGED <<leased, active, parted>>
  PROVE  /\ WebSub!SidesAgree'
         /\ \A k \in WebSub!Keys : WebSub!Lives(k)' <=> WebSub!Lives(k)
         /\ \A k \in WebSub!Keys : sub'[k] # None /\ sub'[k].left # None => sub'[k] = sub[k]
<1>1. WebSub!Unverified.left = None /\ ~WebSub!Unverified.verified
  BY DEF WebSub!Unverified
<1>2. \A k \in WebSub!Keys : WebSub!Lives(k)' <=> WebSub!Lives(k)
  BY <1>1 DEF OnlyNewRows, WebSub!Lives
<1> QED
  BY <1>1, <1>2 DEF OnlyNewRows, SubInv, WebSub!SidesAgree

\* What a step keeps that changes no row but to save a new one.
LEMMA HoldsOn ==
  ASSUME Renewed, SubInv, WebSub!TypeOK', OnlyNewRows,
         UNCHANGED <<leased, active, parted, since>>,
         neglected \subseteq neglected',
         \A s \in Feeds : s \notin neglected' => address'[s] = address[s],
         \A k \in WebSub!Keys : WebSub!Of(k) \in neglected'
             \/ (InProgress(k, WebSub!Current(WebSub!Of(k)))
                   => InProgress(k, WebSub!Current(WebSub!Of(k)))')
  PROVE  SubInv'
<1>1. sub' \in [WebSub!Keys -> SubRow \cup {None}]
  BY DEF WebSub!TypeOK, SubRow
<1>2. /\ WebSub!SidesAgree'
      /\ \A k \in WebSub!Keys : WebSub!Lives(k)' <=> WebSub!Lives(k)
      /\ \A k \in WebSub!Keys : sub'[k] # None /\ sub'[k].left # None => sub'[k] = sub[k]
  BY <1>1, NewRowsAreSafe
<1>3. \A k \in WebSub!Keys : sub'[k] # None /\ sub'[k].left # None => leased'[k]
  BY <1>2 DEF SubInv
<1>4. ASSUME NEW k \in WebSub!Keys PROVE LeaseHolds(k)'
  <2> DEFINE c == WebSub!Current(WebSub!Of(k))
  <2> SUFFICES ASSUME sub'[k] # None, WebSub!Of(k) \notin neglected', sub'[k].left # None
               PROVE  /\ sub'[k].left = 0 => WebSub!Lives(c)'
                      /\ Lasts(sub'[k].left, since) \/ InProgress(k, c)' \/ Fresh(sub'[c'], since)
    BY DEF LeaseHolds, Lasts, Fresh
  <2>1. sub'[k] = sub[k] /\ WebSub!Of(k) \in Feeds /\ address'[WebSub!Of(k)] = address[WebSub!Of(k)]
    BY <1>2, KeyParts
  <2>2. c' = c /\ c \in WebSub!Keys
    BY <2>1, KeyParts, SubTypes DEF SubInv, WebSub!Current
  <2>3. /\ sub[k].left = 0 => WebSub!Lives(c)
        /\ Lasts(sub[k].left, since) \/ InProgress(k, c) \/ Fresh(sub[c], since)
    BY <2>1 DEF SubInv, LeaseHolds
  <2>4. Fresh(sub[c], since) => sub'[c] = sub[c]
    BY <2>2 DEF OnlyNewRows, Fresh
  <2>5. InProgress(k, c) => InProgress(k, c)'
    OBVIOUS
  <2>6. WebSub!Lives(c) => WebSub!Lives(c)'
    BY <1>2, <2>2 DEF WebSub!Lives
  <2> HIDE DEF c
  <2> QED
    BY <2>1, <2>2, <2>3, <2>4, <2>5, <2>6
<1> QED
  BY <1>2, <1>3, <1>4 DEF SubInv

\* The owner moves a service, and a command subscribes or unsubscribes one.
LEMMA SubscriberStep ==
  ASSUME Renewed, SubInv,
         \/ \E s \in Feeds : WebSub!Move(s) \/ WebSub!Subscribe(s)
         \/ \E k \in WebSub!Keys : WebSub!Unsubscribe(k)
         \/ WebSub!SubscribePost \/ WebSub!SubscribeSave
  PROVE  SubInv'
<1>1. UNCHANGED <<leased, services, active, renewal, queue, since, parted>>
  BY DEF WebSub!Move, WebSub!Subscribe, WebSub!Unsubscribe, WebSub!SubscribePost,
         WebSub!SubscribeSave, WebSub!rowVars, WebSub!ownerVars, WebSub!hubVars, WebSub!processVars,
         WebSub!history
<1>2. /\ sub \in [WebSub!Keys -> SubRow \cup {None}] /\ address \in [Feeds -> Addresses]
      /\ asked \subseteq WebSub!Keys \X WebSub!Modes /\ neglected \subseteq Feeds
      /\ command \in ProcessType
  BY SubTypes DEF SubInv
<1>3. ASSUME sub' \in [WebSub!Keys -> SubRow \cup {None}], OnlyNewRows,
             asked \subseteq asked', asked' \subseteq WebSub!Keys \X WebSub!Modes,
             command' \in ProcessType, UNCHANGED <<address, neglected>>
      PROVE  SubInv'
  <2>1. WebSub!TypeOK'
    BY <1>1, <1>3 DEF SubInv, WebSub!TypeOK, SubRow, ProcessType
  <2>2. \A k \in WebSub!Keys :
          InProgress(k, WebSub!Current(WebSub!Of(k))) => InProgress(k, WebSub!Current(WebSub!Of(k)))'
    BY <1>1, <1>3 DEF InProgress, WebSub!Current
  <2> QED
    BY <1>1, <1>3, <2>1, <2>2, HoldsOn
<1>4. ASSUME NEW s \in Feeds, WebSub!Move(s) PROVE SubInv'
  <2>1. PICK a \in Addresses : address' = [address EXCEPT ![s] = a]
    BY <1>4 DEF WebSub!Move
  <2>2. UNCHANGED <<sub, asked, command>> /\ neglected' = neglected \cup {s}
    BY <1>4 DEF WebSub!Move, WebSub!rowVars, WebSub!hubVars, WebSub!processVars
  <2>3. address' \in [Feeds -> Addresses] /\ \A r \in Feeds : r # s => address'[r] = address[r]
    BY <1>2, <2>1
  <2>4. WebSub!TypeOK'
    BY <1>1, <1>2, <2>2, <2>3 DEF SubInv, WebSub!TypeOK
  <2>5. \A k \in WebSub!Keys : WebSub!Of(k) \in neglected'
             \/ (InProgress(k, WebSub!Current(WebSub!Of(k)))
                   => InProgress(k, WebSub!Current(WebSub!Of(k)))')
    BY <1>1, <2>2, <2>3, KeyParts DEF InProgress, WebSub!Current
  <2> QED
    BY <1>1, <2>2, <2>3, <2>4, <2>5, HoldsOn DEF OnlyNewRows
<1>5. ASSUME NEW s \in Feeds, WebSub!Subscribe(s) PROVE SubInv'
  <2>1. command' = WebSub!Looked(s) /\ UNCHANGED <<sub, asked, address, neglected>>
    BY <1>5 DEF WebSub!Subscribe, WebSub!rowVars, WebSub!ownerVars, WebSub!hubVars, WebSub!history
  <2> QED
    BY <1>2, <1>3, <2>1, LookedType DEF OnlyNewRows, SubInv
<1>6. ASSUME NEW k \in WebSub!Keys, WebSub!Unsubscribe(k) PROVE SubInv'
  <2>1. asked' = asked \cup {<<k, "unsubscribe">>} /\ UNCHANGED <<sub, command, address, neglected>>
    BY <1>6 DEF WebSub!Unsubscribe, WebSub!rowVars, WebSub!ownerVars, WebSub!processVars, WebSub!history
  <2> QED
    BY <1>2, <1>3, <2>1 DEF OnlyNewRows, WebSub!Modes
<1>7. CASE WebSub!SubscribePost
  <2> DEFINE saves == [command EXCEPT !.at = "save"]
  <2>1. /\ command.at = "post" /\ command' \in {saves, WebSub!IdleProcess}
        /\ asked' = asked \/ asked' = asked \cup {<<command.key, "subscribe">>}
        /\ UNCHANGED <<sub, address, neglected>>
    BY <1>7 DEF WebSub!SubscribePost, WebSub!Posted, WebSub!rowVars, WebSub!ownerVars, WebSub!history
  <2>2. saves \in ProcessType /\ WebSub!IdleProcess \in ProcessType /\ command.key \in WebSub!Keys
    BY <1>2, <2>1, ProcessMoves
  <2> HIDE DEF saves
  <2> QED
    BY <1>2, <1>3, <2>1, <2>2 DEF OnlyNewRows, WebSub!Modes
<1>8. CASE WebSub!SubscribeSave
  <2>1. /\ command.at = "save" /\ (WebSub!Saved(command) \/ UNCHANGED sub)
        /\ command' = WebSub!IdleProcess /\ UNCHANGED <<asked, address, neglected>>
    BY <1>8 DEF WebSub!SubscribeSave, WebSub!ownerVars, WebSub!hubVars, WebSub!history
  <2>2. sub' \in [WebSub!Keys -> SubRow \cup {None}] /\ OnlyNewRows
    BY <1>2, <2>1, SaveIsSafe DEF OnlyNewRows
  <2> QED
    BY <1>2, <1>3, <2>1, <2>2, ProcessMoves
<1> QED
  BY <1>4, <1>5, <1>6, <1>7, <1>8

\* A service goes, with its rows.
LEMMA DeletionStep == ASSUME Renewed, SubInv, NEW s \in Feeds, WebSub!DeleteService(s) PROVE SubInv'
<1>1. /\ UNCHANGED <<leased, address, asked, active, command, renewal, queue, since, neglected>>
      /\ services' = services \ {s}
      /\ sub' = [k \in WebSub!Keys |-> IF WebSub!Of(k) = s THEN None ELSE sub[k]]
      /\ parted' = parted \cup {k \in active : WebSub!Of(k) = s}
  BY DEF WebSub!DeleteService, WebSub!hubVars, WebSub!processVars
<1>2. /\ sub \in [WebSub!Keys -> SubRow \cup {None}] /\ address \in [Feeds -> Addresses]
      /\ active \subseteq WebSub!Keys /\ parted \subseteq WebSub!Keys
  BY SubTypes DEF SubInv
<1>3. WebSub!TypeOK'
  BY <1>1, <1>2 DEF SubInv, WebSub!TypeOK, SubRow
<1>4. WebSub!SidesAgree'
  BY <1>1, <1>2 DEF SubInv, WebSub!SidesAgree, WebSub!Lives
<1>5. ASSUME NEW k \in WebSub!Keys PROVE LeaseHolds(k)'
  <2>1. WebSub!Of(WebSub!Current(WebSub!Of(k))) = WebSub!Of(k) /\ WebSub!Current(WebSub!Of(k)) \in WebSub!Keys
    BY <1>2, KeyParts
  <2> QED
    BY <1>1, <2>1 DEF SubInv, LeaseHolds, Lasts, InProgress, Fresh, WebSub!Lives, WebSub!Current
<1> QED
  BY <1>1, <1>3, <1>4, <1>5 DEF SubInv

\* A row that changes, and its hub with it or not.
LEMMA RowChanges ==
  ASSUME Renewed, SubInv, NEW k \in WebSub!Keys, NEW row \in SubRow \cup {None},
         sub' = [sub EXCEPT ![k] = row],
         UNCHANGED <<leased, services, address, command, renewal, queue, since>>,
         asked' \subseteq asked, neglected' \subseteq Feeds,
         \/ active' = active /\ parted' = parted \cup {k}
         \/ /\ active' \in {active \cup {k}, active \ {k}} /\ parted' = parted \ {k}
            /\ k \in active' <=> (row # None /\ row.verified /\ row.left # 0),
         row # None /\ row.left # None => leased[k]
  PROVE  WebSub!TypeOK' /\ WebSub!SidesAgree'
         /\ \A q \in WebSub!Keys : sub'[q] # None /\ sub'[q].left # None => leased'[q]
<1>1. /\ sub \in [WebSub!Keys -> SubRow \cup {None}]
      /\ active \subseteq WebSub!Keys /\ parted \subseteq WebSub!Keys
  BY SubTypes DEF SubInv
<1>2. /\ sub' \in [WebSub!Keys -> SubRow \cup {None}] /\ sub'[k] = row
      /\ \A q \in WebSub!Keys : q # k => sub'[q] = sub[q]
      /\ active' \subseteq WebSub!Keys /\ parted' \subseteq WebSub!Keys
  BY <1>1
<1>3. WebSub!TypeOK'
  BY <1>2 DEF SubInv, WebSub!TypeOK, SubRow
<1>4. WebSub!SidesAgree'
  BY <1>1, <1>2 DEF SubInv, WebSub!SidesAgree, WebSub!Lives
<1> QED
  BY <1>2, <1>3, <1>4 DEF SubInv

\* A hub verifies, or does not get through, or ends a lease it was not told of.
LEMMA HubStep ==
  ASSUME Renewed, SubInv, NEW k \in WebSub!Keys,
         \/ WebSub!VerifySubscribe(k) \/ WebSub!VerifyUnsubscribe(k)
         \/ WebSub!Refused(k) \/ WebSub!Lapse(k)
  PROVE  SubInv'
<1>1. UNCHANGED <<leased, services, address, command, renewal, queue, since>> /\ asked' \subseteq asked
  BY DEF WebSub!VerifySubscribe, WebSub!VerifyUnsubscribe, WebSub!Refused, WebSub!Lapse,
         WebSub!rowVars, WebSub!ownerVars, WebSub!hubVars, WebSub!processVars
<1>2. /\ sub \in [WebSub!Keys -> SubRow \cup {None}] /\ leased \in [WebSub!Keys -> BOOLEAN]
      /\ address \in [Feeds -> Addresses] /\ active \subseteq WebSub!Keys
      /\ neglected \subseteq Feeds /\ since \in 0..RenewEvery
  BY SubTypes DEF SubInv
<1>3. CASE WebSub!VerifySubscribe(k)
  <2> DEFINE row == [verified |-> TRUE, left |-> IF leased[k] THEN Lease ELSE sub[k].left]
  <2>1. sub[k] # None /\ row \in SubRow
    <3>1. sub[k] # None /\ sub[k].left \in (0..Lease) \cup {None}
      BY <1>2, <1>3 DEF WebSub!VerifySubscribe, SubRow
    <3> QED
      BY <3>1 DEF SubRow, Renewed
  <2>2. row # None /\ row.verified /\ row.left # 0 /\ (row.left # None => leased[k] /\ row.left = Lease)
    <3>1. row.verified /\ row.left # 0 /\ (row.left # None => leased[k] /\ row.left = Lease)
      BY <2>1 DEF SubInv, Renewed
    <3> HIDE DEF row
    <3> QED
      BY <2>1, <3>1 DEF Renewed
  <2>3. /\ sub' = [sub EXCEPT ![k] = row]
        /\ \/ active' = active \cup {k} /\ parted' = parted \ {k}
              /\ asked' = asked \ {<<k, "subscribe">>}
           \/ active' = active /\ parted' = parted \cup {k} /\ asked' = asked
        /\ neglected' = IF k = WebSub!Current(WebSub!Of(k)) THEN neglected \ {WebSub!Of(k)} ELSE neglected
    BY <1>3 DEF WebSub!VerifySubscribe, WebSub!hubVars
  <2> HIDE DEF row
  <2>4. /\ WebSub!TypeOK' /\ WebSub!SidesAgree'
        /\ \A q \in WebSub!Keys : sub'[q] # None /\ sub'[q].left # None => leased'[q]
    BY <1>1, <1>2, <2>1, <2>2, <2>3, RowChanges
  <2>5. sub'[k] = row /\ \A q \in WebSub!Keys : q # k => sub'[q] = sub[q]
    BY <1>2, <2>3
  <2>6. row.left # None => Lasts(row.left, since)
    BY <1>2, <2>2 DEF Lasts, Renewed
  <2>7. ASSUME NEW q \in WebSub!Keys PROVE LeaseHolds(q)'
    <3> DEFINE c == WebSub!Current(WebSub!Of(q))
    <3>1. c \in WebSub!Keys /\ c' = c /\ WebSub!Of(c) = WebSub!Of(q) /\ WebSub!Of(q) \in Feeds
      BY <1>1, <1>2, KeyParts DEF WebSub!Current
    <3> SUFFICES ASSUME sub'[q] # None, WebSub!Of(q) \notin neglected', sub'[q].left # None
                 PROVE  /\ sub'[q].left = 0 => WebSub!Lives(c)'
                        /\ Lasts(sub'[q].left, since) \/ InProgress(q, c)' \/ Fresh(sub'[c], since)
      BY <1>1, <3>1 DEF LeaseHolds, Lasts, Fresh
    <3>2. CASE c = k
      <4>1. WebSub!Lives(c)' /\ Fresh(sub'[c], since)
        BY <2>2, <2>5, <2>6, <3>1, <3>2 DEF WebSub!Lives, Fresh
      <4> QED
        BY <4>1
    <3>3. CASE c # k /\ q = k
      BY <2>2, <2>5, <2>6, <3>3 DEF Renewed
    <3>4. CASE c # k /\ q # k
      <4>1. sub'[q] = sub[q] /\ sub'[c] = sub[c] /\ WebSub!Of(q) \notin neglected
        BY <2>3, <2>5, <3>1, <3>4
      <4>2. /\ sub[q].left = 0 => WebSub!Lives(c)
            /\ Lasts(sub[q].left, since) \/ InProgress(q, c) \/ Fresh(sub[c], since)
        BY <4>1 DEF SubInv, LeaseHolds
      <4>3. InProgress(q, c) => InProgress(q, c)'
        BY <1>1, <2>3, <3>1, <3>4 DEF InProgress
      <4>4. WebSub!Lives(c) => WebSub!Lives(c)'
        BY <3>1, <4>1 DEF WebSub!Lives
      <4> HIDE DEF c
      <4> QED
        BY <4>1, <4>2, <4>3, <4>4
    <3> QED
      BY <3>2, <3>3, <3>4
  <2> QED
    BY <2>4, <2>7 DEF SubInv
<1>4. CASE WebSub!VerifyUnsubscribe(k)
  <2>1. /\ sub' = [sub EXCEPT ![k] = None] /\ neglected' = neglected \cup {WebSub!Of(k)}
        /\ \/ active' = active \ {k} /\ parted' = parted \ {k} /\ asked' = asked \ {<<k, "unsubscribe">>}
           \/ active' = active /\ parted' = parted \cup {k} /\ asked' = asked
    BY <1>4 DEF WebSub!VerifyUnsubscribe, WebSub!hubVars
  <2>2. /\ WebSub!TypeOK' /\ WebSub!SidesAgree'
        /\ \A q \in WebSub!Keys : sub'[q] # None /\ sub'[q].left # None => leased'[q]
    BY <1>1, <1>2, <2>1, RowChanges, KeyParts
  <2>3. \A q \in WebSub!Keys : q # k => sub'[q] = sub[q]
    BY <1>2, <2>1
  <2>4. ASSUME NEW q \in WebSub!Keys, WebSub!Of(q) \notin neglected' PROVE LeaseHolds(q)'
    <3> DEFINE c == WebSub!Current(WebSub!Of(q))
    <3>1. c \in WebSub!Keys /\ c' = c /\ c # k /\ q # k /\ WebSub!Of(q) \notin neglected
      BY <1>1, <1>2, <2>1, <2>4, KeyParts DEF WebSub!Current
    <3>2. sub'[q] = sub[q] /\ sub'[c] = sub[c]
      BY <2>3, <3>1
    <3>3. InProgress(q, c) => InProgress(q, c)'
      BY <1>1, <2>1, <3>1 DEF InProgress
    <3> QED
      BY <1>1, <3>1, <3>2, <3>3 DEF SubInv, LeaseHolds, Lasts, Fresh, WebSub!Lives
  <2> QED
    BY <2>2, <2>4 DEF SubInv, LeaseHolds
<1>5. CASE WebSub!Refused(k)
  <2>1. UNCHANGED <<sub, active, parted>>
        /\ \/ WebSub!Of(k) \in neglected' /\ neglected' = neglected \cup {WebSub!Of(k)}
              /\ \A q \in WebSub!Keys : q # k /\ <<q, "subscribe">> \in asked => <<q, "subscribe">> \in asked'
           \/ neglected' = neglected
              /\ \A q \in WebSub!Keys : <<q, "subscribe">> \in asked => <<q, "subscribe">> \in asked'
    BY <1>5 DEF WebSub!Refused, WebSub!rowVars, WebSub!Modes
  <2>2. WebSub!TypeOK'
    BY <1>1, <1>2, <2>1, KeyParts DEF SubInv, WebSub!TypeOK
  <2>3. \A q \in WebSub!Keys : WebSub!Of(q) \in neglected'
             \/ (InProgress(q, WebSub!Current(WebSub!Of(q)))
                   => InProgress(q, WebSub!Current(WebSub!Of(q)))')
    BY <1>1, <1>2, <2>1, KeyParts DEF InProgress, WebSub!Current
  <2> QED
    BY <1>1, <2>1, <2>2, <2>3, HoldsOn DEF OnlyNewRows
<1>6. CASE WebSub!Lapse(k)
  <2>1. UNCHANGED <<sub, asked, neglected, parted>> /\ active' = active \ {k} /\ k \in parted
    BY <1>6 DEF WebSub!Lapse, WebSub!rowVars, WebSub!history
  <2>2. WebSub!TypeOK'
    BY <1>1, <1>2, <2>1 DEF SubInv, WebSub!TypeOK
  <2>3. WebSub!SidesAgree'
    BY <2>1 DEF SubInv, WebSub!SidesAgree, WebSub!Lives
  <2> QED
    BY <1>1, <2>1, <2>2, <2>3
       DEF SubInv, LeaseHolds, Lasts, InProgress, Fresh, WebSub!Lives, WebSub!Current
<1> QED
  BY <1>3, <1>4, <1>5, <1>6

\* The renewal queues the rows whose lease ends soon; the others last.
LEMMA RenewStarts == ASSUME Renewed, SubInv, WebSub!Renew PROVE SubInv'
<1>1. /\ queue' = {k \in WebSub!Keys : WebSub!IsDue(k)} /\ since' = 0
      /\ UNCHANGED <<sub, leased, services, address, asked, active, command, renewal, neglected, parted>>
      /\ queue = {} /\ since > 0
  BY DEF WebSub!Renew, WebSub!rowVars, WebSub!ownerVars, WebSub!hubVars, WebSub!history
<1>2. sub \in [WebSub!Keys -> SubRow \cup {None}] /\ since \in 0..RenewEvery
  BY SubTypes DEF SubInv
<1>3. WebSub!TypeOK'
  BY <1>1 DEF SubInv, WebSub!TypeOK, Renewed
<1>4. ASSUME NEW k \in WebSub!Keys PROVE LeaseHolds(k)'
  <2> DEFINE c == WebSub!Current(WebSub!Of(k))
  <2>1. c' = c
    BY <1>1 DEF WebSub!Current
  <2>2. WebSub!Lives(c)' <=> WebSub!Lives(c)
    BY <1>1 DEF WebSub!Lives, WebSub!Current
  <2> SUFFICES ASSUME sub[k] # None, WebSub!Of(k) \notin neglected, sub[k].left # None
               PROVE  /\ sub[k].left = 0 => WebSub!Lives(c)
                      /\ Lasts(sub[k].left, since') \/ k \in queue'
    BY <1>1, <2>1, <2>2 DEF LeaseHolds, InProgress
  <2>3. sub[k].left = 0 => WebSub!Lives(c)
    BY DEF SubInv, LeaseHolds
  <2>4. sub[k].left \in 0..Lease
    BY <1>2 DEF SubRow
  <2>5. k \in queue' \/ ~(sub[k].left < Window)
    BY <1>1 DEF WebSub!IsDue, WebSub!EndsSoon
  <2> QED
    BY <1>1, <2>3, <2>4, <2>5 DEF Lasts, Renewed
<1>5. WebSub!SidesAgree'
  BY <1>1 DEF SubInv, WebSub!SidesAgree, WebSub!Lives
<1> QED
  BY <1>1, <1>3, <1>4, <1>5 DEF SubInv

\* The renewal visits its rows.
LEMMA RenewalStep ==
  ASSUME Renewed, SubInv,
         \/ \E k \in WebSub!Keys : WebSub!Visit(k)
         \/ WebSub!RenewFails \/ WebSub!RenewPost \/ WebSub!RenewSave
  PROVE  SubInv'
<1>1. UNCHANGED <<leased, services, address, active, command, since, parted>>
  BY DEF WebSub!Visit, WebSub!RenewFails, WebSub!RenewPost, WebSub!RenewSave,
         WebSub!rowVars, WebSub!ownerVars, WebSub!hubVars
<1>2. /\ sub \in [WebSub!Keys -> SubRow \cup {None}] /\ address \in [Feeds -> Addresses]
      /\ asked \subseteq WebSub!Keys \X WebSub!Modes /\ queue \subseteq WebSub!Keys
      /\ neglected \subseteq Feeds /\ renewal \in ProcessType
  BY SubTypes DEF SubInv
<1>3. ASSUME sub' \in [WebSub!Keys -> SubRow \cup {None}], OnlyNewRows,
             asked \subseteq asked', asked' \subseteq WebSub!Keys \X WebSub!Modes,
             queue' \subseteq WebSub!Keys, renewal' \in ProcessType,
             neglected' \subseteq Feeds, neglected \subseteq neglected',
             \A k \in WebSub!Keys : WebSub!Of(k) \in neglected'
               \/ (InProgress(k, WebSub!Current(WebSub!Of(k)))
                     => InProgress(k, WebSub!Current(WebSub!Of(k)))')
      PROVE  SubInv'
  <2>1. WebSub!TypeOK'
    BY <1>1, <1>3 DEF SubInv, WebSub!TypeOK, SubRow, ProcessType
  <2> QED
    BY <1>1, <1>3, <2>1, HoldsOn
<1>4. \A k \in WebSub!Keys : WebSub!Current(WebSub!Of(k))' = WebSub!Current(WebSub!Of(k))
                           /\ WebSub!Of(k) \in Feeds
                           /\ WebSub!Of(WebSub!Current(WebSub!Of(k))) = WebSub!Of(k)
  BY <1>1, <1>2, KeyParts DEF WebSub!Current
<1>5. ASSUME NEW k \in WebSub!Keys, WebSub!Visit(k) PROVE SubInv'
  <2>1. /\ renewal.at = "idle" /\ k \in queue /\ UNCHANGED <<sub, asked>>
        /\ \/ /\ queue' = queue \ {k} /\ renewal' = WebSub!Looked(WebSub!Of(k))
              /\ neglected' = neglected
           \/ /\ queue' = {} /\ neglected' = neglected \cup {WebSub!Of(q) : q \in queue}
              /\ renewal' = renewal
    BY <1>5 DEF WebSub!Visit, WebSub!rowVars, WebSub!hubVars
  <2>2. /\ WebSub!Looked(WebSub!Of(k)) \in ProcessType
        /\ WebSub!Looked(WebSub!Of(k)).at = "post"
        /\ WebSub!Looked(WebSub!Of(k)).key = WebSub!Current(WebSub!Of(k))
    BY <1>4, LookedType DEF SubInv
  <2>3. renewal' \in ProcessType /\ queue' \subseteq WebSub!Keys
        /\ neglected' \subseteq Feeds /\ neglected \subseteq neglected'
    BY <1>2, <1>4, <2>1, <2>2
  <2>4. \A q \in WebSub!Keys : WebSub!Of(q) \in neglected'
             \/ (InProgress(q, WebSub!Current(WebSub!Of(q)))
                   => InProgress(q, WebSub!Current(WebSub!Of(q)))')
    <3>1. CASE renewal' = renewal
      BY <1>2, <1>4, <2>1, <2>2, <3>1 DEF InProgress
    <3>2. CASE /\ queue' = queue \ {k} /\ renewal' = WebSub!Looked(WebSub!Of(k))
               /\ neglected' = neglected
      BY <1>4, <2>1, <2>2, <3>2 DEF InProgress
    <3> QED
      BY <2>1, <3>1, <3>2
  <2> QED
    BY <1>2, <1>3, <2>1, <2>3, <2>4 DEF OnlyNewRows
<1>6. ASSUME renewal.at # "idle", WebSub!RenewalRaises, UNCHANGED <<sub, asked>> PROVE SubInv'
  <2>1. /\ neglected' = neglected \cup {WebSub!Of(renewal.key)} \cup {WebSub!Of(k) : k \in queue}
        /\ queue' = {} /\ renewal' = WebSub!IdleProcess
    BY <1>6 DEF WebSub!RenewalRaises
  <2>2. renewal.key \in WebSub!Keys /\ renewal' \in ProcessType
    BY <1>2, <1>6, <2>1, ProcessMoves DEF ProcessType, WebSub!IdleProcess
  <2>3. neglected' \subseteq Feeds
    BY <1>2, <1>4, <2>1, <2>2
  <2>4. \A q \in WebSub!Keys : WebSub!Of(q) \in neglected'
             \/ (InProgress(q, WebSub!Current(WebSub!Of(q)))
                   => InProgress(q, WebSub!Current(WebSub!Of(q)))')
    BY <1>2, <1>4, <1>6, <2>1, <2>2 DEF InProgress
  <2> QED
    BY <1>2, <1>3, <1>6, <2>1, <2>2, <2>3, <2>4 DEF OnlyNewRows
<1>7. CASE WebSub!RenewFails
  BY <1>6, <1>7 DEF WebSub!RenewFails, WebSub!rowVars, WebSub!hubVars
<1>8. CASE WebSub!RenewPost
  <2> DEFINE saves == [renewal EXCEPT !.at = "save"]
  <2>1. /\ renewal.at = "post" /\ UNCHANGED <<sub, queue>>
        /\ asked' = asked \/ asked' = asked \cup {<<renewal.key, "subscribe">>}
        /\ \/ /\ asked' = asked \cup {<<renewal.key, "subscribe">>}
              /\ renewal' = saves /\ neglected' = neglected
           \/ /\ renewal' = WebSub!IdleProcess /\ neglected' = neglected \cup {WebSub!Of(renewal.key)}
    BY <1>8 DEF WebSub!RenewPost, WebSub!Posted, WebSub!rowVars
  <2>2. /\ renewal.key \in WebSub!Keys /\ saves \in ProcessType
        /\ WebSub!IdleProcess \in ProcessType
    BY <1>2, <2>1, ProcessMoves
  <2> HIDE DEF saves
  <2>3. /\ renewal' \in ProcessType /\ neglected' \subseteq Feeds /\ neglected \subseteq neglected'
        /\ asked' \subseteq WebSub!Keys \X WebSub!Modes /\ asked \subseteq asked'
    BY <1>2, <1>4, <2>1, <2>2 DEF WebSub!Modes
  <2>4. \A q \in WebSub!Keys : WebSub!Of(q) \in neglected'
             \/ (InProgress(q, WebSub!Current(WebSub!Of(q)))
                   => InProgress(q, WebSub!Current(WebSub!Of(q)))')
    BY <1>2, <1>4, <2>1, <2>2 DEF InProgress
  <2> QED
    BY <1>2, <1>3, <2>1, <2>3, <2>4 DEF OnlyNewRows
<1>9. CASE WebSub!RenewSave
  <2>1. CASE WebSub!RenewalRaises /\ UNCHANGED sub
    BY <1>6, <1>9, <2>1 DEF WebSub!RenewSave, WebSub!hubVars
  <2>2. CASE WebSub!Saved(renewal) /\ renewal' = WebSub!IdleProcess /\ UNCHANGED <<queue, neglected>>
    <3>1. renewal.at = "save" /\ asked' = asked
      BY <1>9 DEF WebSub!RenewSave, WebSub!hubVars
    <3>2. /\ sub' \in [WebSub!Keys -> SubRow \cup {None}] /\ OnlyNewRows
          /\ renewal' \in ProcessType
      BY <1>2, <2>2, <3>1, SaveIsSafe, ProcessMoves
    <3>3. \A q \in WebSub!Keys : InProgress(q, WebSub!Current(WebSub!Of(q)))
                                   => InProgress(q, WebSub!Current(WebSub!Of(q)))'
      BY <1>4, <2>2, <3>1 DEF InProgress
    <3> QED
      BY <1>2, <1>3, <2>2, <3>1, <3>2, <3>3
  <2> QED
    BY <1>9, <2>1, <2>2 DEF WebSub!RenewSave
<1> QED
  BY <1>5, <1>7, <1>8, <1>9

\* A day passes when nothing is being renewed: what is left lasts longer.
LEMMA DayPasses == ASSUME Renewed, SubInv, WebSub!Tick PROVE SubInv'
<1>1. /\ asked = {} /\ queue = {} /\ renewal.at = "idle" /\ since < RenewEvery /\ since' = since + 1
      /\ sub' = [k \in WebSub!Keys |->
                   IF sub[k] = None THEN None
                   ELSE [sub[k] EXCEPT !.left = IF sub[k].left \in {None, 0} THEN sub[k].left
                                                ELSE sub[k].left - 1]]
      /\ active' = {k \in active : k \in parted \/ ~WebSub!Ends(k)}
      /\ UNCHANGED <<leased, services, address, asked, command, renewal, queue, neglected, parted>>
  BY DEF WebSub!Tick, WebSub!ownerVars, WebSub!history
<1>2. /\ sub \in [WebSub!Keys -> SubRow \cup {None}] /\ since \in 0..RenewEvery
      /\ address \in [Feeds -> Addresses] /\ active \subseteq WebSub!Keys
  BY SubTypes DEF SubInv
<1>3. ASSUME NEW k \in WebSub!Keys
      PROVE  /\ sub[k] = None => sub'[k] = None
             /\ sub[k] # None =>
                  /\ sub[k].left \in (0..Lease) \cup {None}
                  /\ sub'[k] \in SubRow /\ sub'[k] # None /\ sub'[k].verified = sub[k].verified
                  /\ sub'[k].left = IF sub[k].left \in {None, 0} THEN sub[k].left ELSE sub[k].left - 1
  BY <1>1, <1>2 DEF SubRow, Renewed
<1>4. WebSub!TypeOK'
  <2>1. sub' \in [WebSub!Keys -> SubRow \cup {None}]
    BY <1>1, <1>3
  <2>2. since' \in 0..RenewEvery
    BY <1>1, <1>2 DEF Renewed
  <2> QED
    BY <1>1, <1>2, <2>1, <2>2 DEF SubInv, WebSub!TypeOK, SubRow
<1>5. WebSub!SidesAgree'
  <2> SUFFICES ASSUME NEW k \in WebSub!Keys, k \notin parted
               PROVE  WebSub!Lives(k)' <=> k \in active'
    BY <1>1 DEF WebSub!SidesAgree
  <2>1. WebSub!Lives(k) <=> k \in active
    BY DEF SubInv, WebSub!SidesAgree
  <2>2. WebSub!Lives(k)' <=> WebSub!Lives(k) /\ ~WebSub!Ends(k)
    BY <1>3 DEF WebSub!Lives, WebSub!Ends, Renewed
  <2> QED
    BY <1>1, <2>1, <2>2
\* Days that last leave some after one more.
<1>6. ASSUME NEW days \in (0..Lease) \cup {None}, days # None, Lasts(days, since)
      PROVE  days \in Nat /\ days # 0 /\ days - 1 # 0 /\ Lasts(days - 1, since')
  BY <1>1, <1>2, <1>6 DEF Lasts, Renewed
<1>7. ASSUME NEW k \in WebSub!Keys PROVE LeaseHolds(k)'
  <2> DEFINE c == WebSub!Current(WebSub!Of(k))
  <2>1. c \in WebSub!Keys /\ c' = c
    BY <1>1, <1>2, KeyParts DEF WebSub!Current
  <2> SUFFICES ASSUME sub[k] # None, WebSub!Of(k) \notin neglected, sub[k].left # None
               PROVE  /\ sub'[k].left = 0 => WebSub!Lives(c)'
                      /\ Lasts(sub'[k].left, since') \/ Fresh(sub'[c], since')
    BY <1>1, <1>3, <2>1 DEF LeaseHolds, Renewed, Fresh, Lasts
  <2>2. Lasts(sub[k].left, since) \/ Fresh(sub[c], since)
    BY <1>1 DEF SubInv, LeaseHolds, InProgress
  <2>3. CASE Lasts(sub[k].left, since)
    BY <1>3, <1>6, <2>3
  <2>4. CASE Fresh(sub[c], since)
    <3>1. WebSub!Lives(c)' /\ Fresh(sub'[c], since')
      BY <1>3, <1>6, <2>1, <2>4 DEF Fresh, WebSub!Lives, Renewed
    <3> QED
      BY <3>1
  <2> QED
    BY <2>2, <2>3, <2>4
<1>8. \A k \in WebSub!Keys : sub'[k] # None /\ sub'[k].left # None => leased[k]
  BY <1>3 DEF SubInv
<1> QED
  BY <1>1, <1>4, <1>5, <1>7, <1>8 DEF SubInv

LEMMA SubNext == ASSUME Renewed, SubInv, [WebSub!Next]_(WebSub!vars) PROVE SubInv'
<1>1. CASE UNCHANGED WebSub!vars
  BY <1>1 DEF WebSub!vars, WebSub!rowVars, WebSub!ownerVars, WebSub!hubVars, WebSub!processVars,
              WebSub!history, SubInv, WebSub!TypeOK, WebSub!SidesAgree, WebSub!Lives, LeaseHolds,
              Lasts, InProgress, Fresh, WebSub!Current
<1>2. CASE WebSub!Next
  BY <1>2, SubscriberStep, DeletionStep, HubStep, RenewStarts, RenewalStep, DayPasses DEF WebSub!Next
<1> QED
  BY <1>1, <1>2

LEMMA SubSpecInv == ASSUME Renewed PROVE (HungSpec => []SubInv) /\ (WebSub!Spec => []SubInv)
<1>1. WebSub!Init => SubInv
  BY SubInit
<1>2. SubInv /\ [WebSub!Next]_(WebSub!vars) => SubInv'
  BY SubNext
<1>3. HungInit => WebSub!Init
  BY DEF HungInit
<1>4. [HungNext]_allVars => [WebSub!Next]_(WebSub!vars)
  BY DEF HungNext, allVars, hubVars, WebSub!vars, WebSub!rowVars, WebSub!ownerVars, WebSub!hubVars,
         WebSub!processVars, WebSub!history
<1> QED
  BY <1>1, <1>2, <1>3, <1>4, PTL DEF HungSpec, WebSub!Spec

-----------------------------------------------------------------------------
\* A service is subscribed at its address before any of its leases ends, unless
\* its feed, its hub or its owner kept it from that (renew_subscriptions), for
\* any services, addresses and leases that a hub renews in time.
THEOREM LeasesAreRenewed ==
  ASSUME Renewed
  PROVE  (HungSpec => []LeasesLast) /\ (WebSub!Spec => []WebSub!LeasesLast)
<1>1. SubInv => LeasesLast /\ WebSub!LeasesLast
  BY DEF SubInv, LeaseHolds, LeasesLast, WebSub!LeasesLast, Renewed
<1> QED
  BY <1>1, SubSpecInv, PTL

\* A row lives exactly while its hub delivers, but for the keys whose hub was
\* not told (subscribe, verify), however answers are lost, rows saved late,
\* services deleted and addresses changed.
THEOREM SidesStayAgreed ==
  ASSUME Renewed
  PROVE  (HungSpec => []SidesAgree) /\ (WebSub!Spec => []WebSub!SidesAgree)
<1>1. SubInv => SidesAgree /\ WebSub!SidesAgree
  BY DEF SubInv, SidesAgree
<1> QED
  BY <1>1, SubSpecInv, PTL
=============================================================================
