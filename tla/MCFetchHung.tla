---------------------------- MODULE MCFetchHung ----------------------------
(***************************************************************************)
(* An instance for TLC of the fetch queue with fetches that hang, of the   *)
(* imports of a GitHub service (GitHubImport) and of WebSub subscriptions  *)
(* (WebSubSubscriptions).  They share no variable, so one run checks them  *)
(* all: Init chooses the part that moves, the others stay as they start.   *)
(*                                                                         *)
(* The imports and the subscriptions have several parts each, which leave  *)
(* out some steps: an owner who does nothing while time passes or a time   *)
(* that stops while he acts, and one feed that moves, or whose answers are *)
(* lost, or two that do neither.                                           *)
(***************************************************************************)
EXTENDS FetchQueue

CONSTANTS
  None,
  Repos, Foreign, Kinds, Lookback, PageSize, MaxRepos, PerRepo,   \* GitHubImport
  MaxReleases, MaxTime, MaxEdits, MaxHides,
  Feeds, Addresses, Lease, Window, RenewEvery                     \* WebSubSubscriptions

VARIABLES
  part,
  \* GitHubImport
  home, options, lastChecked, now, listed, pushed, releasedAt, entry, run, saving,
  left, missed, overlapped, cutOff, unhidden, edits, hides,
  \* WebSubSubscriptions
  sub, leased, services, address, asked, active, command, renewal, queue, since,
  neglected, parted

importVars == <<home, options, lastChecked, now, listed, pushed, releasedAt, entry, run, saving,
                left, missed, overlapped, cutOff, unhidden, edits, hides>>
hubVars == <<sub, leased, services, address, asked, active, command, renewal, queue, since,
             neglected, parted>>
allVars == <<part, vars, importVars, hubVars>>

GitHub == INSTANCE GitHubImport
WebSub == INSTANCE WebSubSubscriptions WITH Services <- Feeds

GitHubParts == {"imports", "settings"}
WebSubParts == {"feeds", "moves", "losses"}

One(S) == CHOOSE x \in S : TRUE

ImportsInit ==
  \/ part = "imports" /\ home = FALSE /\ options = GitHub!Categories
  \/ part = "settings" /\ home = TRUE
  \/ part \notin GitHubParts /\ home = FALSE /\ options = {}

HubsInit ==
  /\ services = CASE part = "feeds" -> Feeds
                  [] part \in {"moves", "losses"} -> {One(Feeds)}
                  [] OTHER -> {}
  /\ address = [s \in Feeds |-> One(Addresses)]
  /\ \E l \in BOOLEAN : /\ leased = [k \in WebSub!Keys |-> l]
                        /\ part \in {"feeds", "moves"} => l
                        /\ part \notin WebSubParts => ~l

HungInit ==
  /\ part \in {"queue"} \cup GitHubParts \cup WebSubParts
  /\ Init
  /\ ImportsInit /\ GitHub!Init
  /\ HubsInit /\ WebSub!Init

\* The steps of a part.
Keeps ==
  CASE part = "imports" -> UNCHANGED <<edits, hides>>
    [] part = "settings" -> UNCHANGED now /\ \A f \in Foreign : pushed'[f] = pushed[f]
                            /\ \A x \in GitHub!Releases : x \in listed' => x[2] = 1
    [] part = "feeds" -> UNCHANGED <<address, parted>>
    [] part = "moves" -> UNCHANGED parted
    [] part = "losses" -> UNCHANGED address

\* The clock of the imports stops; the other parts must always have a step.
HungNext ==
  \/ part = "queue" /\ Next /\ UNCHANGED <<part, importVars, hubVars>>
  \/ part \in GitHubParts /\ GitHub!Next /\ Keeps /\ UNCHANGED <<part, vars, hubVars>>
  \/ part \in GitHubParts /\ UNCHANGED allVars
  \/ part \in WebSubParts /\ WebSub!Next /\ Keeps /\ UNCHANGED <<part, vars, importVars>>

\* FetchQueue's fairness, when it is the part that moves.
HungFairness ==
  /\ WF_vars(part = "queue" /\ DaemonStep)
  /\ \A t \in Tokens, s \in Services : WF_vars(part = "queue" /\ JobStep(t, s))

HungSpec == HungInit /\ [][HungNext]_allVars /\ HungFairness

-----------------------------------------------------------------------------
(* The properties of the parts, which their modules describe; FetchQueue's *)
(* are there.                                                              *)

\* No release is lost between two checks but for those the program leaves out.
ReleasesAreFound == GitHub!ReleasesAreFound

\* No entry of a kind that is turned off is shown, once the form is through.
DisabledAreHidden == part \in GitHubParts => GitHub!DisabledAreHidden

\* A service is subscribed again before a lease of it ends.
LeasesLast == part \in WebSubParts => WebSub!LeasesLast

\* A row lives exactly while its hub delivers to it.
SidesAgree == part \in WebSubParts => WebSub!SidesAgree
=============================================================================
