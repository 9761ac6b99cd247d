------------------------- MODULE WebSubSubscriptions -------------------------
(***************************************************************************)
(* The subscriptions of stream/websub.py: a command subscribes a service   *)
(* to the hub of its feed, the hub verifies by calling back, and a         *)
(* scheduled command renews what will end soon.  A row is found by a hash  *)
(* of the hub, the service and its URL: once the owner changes the URL, or *)
(* the feed names another hub, a new row is made beside the old one.  The  *)
(* row is saved after the post to the hub, so the hub may call back before *)
(* there is one, and an answer may be lost either way.                     *)
(*                                                                         *)
(* Time is counted in the days a lease has left, so it has no bound.  The  *)
(* ids of rows are left out: a renewal visits them in any order.  Its      *)
(* --force is left out too: it visits rows that are not due as well.  A    *)
(* hub verifies one request of a subscription at a time.                   *)
(***************************************************************************)
EXTENDS Naturals, FiniteSets

CONSTANTS
  Services,   \* the webfeed services with a hub
  Addresses,  \* the URLs, and hubs, a service may have
  None,       \* no row; no expire date; no key
  Lease,      \* the days a hub grants
  Window,     \* the 7 days before its end in which a subscription is renewed
  RenewEvery  \* the days between two runs of --websub=renew

VARIABLES
  sub,        \* the row of each key, or None
  leased,     \* whether the hub of a key names a lease
  services,   \* the services that have not been deleted
  address,    \* the URL of each service, with the hub its feed names
  asked,      \* external: the verifications a hub has still to make
  active,     \* external: the keys whose hub delivers
  command,    \* where a subscribing command, or the settings page, is
  renewal,    \* where the renewal is
  queue,      \* the rows the renewal has still to visit
  since,      \* the days since the last renewal
  neglected,  \* history: services something has kept from being subscribed
  parted      \* history: keys whose hub was not told what became of the row

rowVars == <<sub, leased>>
ownerVars == <<services, address>>
hubVars == <<asked, active>>
processVars == <<command, renewal, queue, since>>
history == <<neglected, parted>>
vars == <<rowVars, ownerVars, hubVars, processVars, history>>

\* What the hash of a row is made of: the service, and its URL and hub.
Keys == Services \X Addresses
Of(k) == k[1]
Current(s) == <<s, address[s]>>

Modes == {"subscribe", "unsubscribe"}
IdleProcess == [at |-> "idle", key |-> None, new |-> FALSE]
Unverified == [verified |-> FALSE, left |-> None]

TypeOK ==
  LET Process == [at : {"post", "save"}, key : Keys, new : BOOLEAN] \cup {IdleProcess}
  IN  /\ sub \in [Keys -> [verified : BOOLEAN, left : (0..Lease) \cup {None}] \cup {None}]
      /\ leased \in [Keys -> BOOLEAN]
      /\ services \subseteq Services /\ address \in [Services -> Addresses]
      /\ asked \subseteq Keys \X Modes /\ active \subseteq Keys
      /\ command \in Process /\ renewal \in Process
      /\ queue \subseteq Keys /\ since \in 0..RenewEvery
      /\ neglected \subseteq Services /\ parted \subseteq Keys

Init ==
  /\ sub = [k \in Keys |-> None]
  /\ leased \in [Keys -> BOOLEAN]
  /\ services \in SUBSET Services /\ address \in [Services -> Addresses]
  /\ asked = {} /\ active = {}
  /\ command = IdleProcess /\ renewal = IdleProcess
  /\ queue = {} /\ since = 0
  /\ neglected = {} /\ parted = {}

-----------------------------------------------------------------------------
(* The owner. *)

\* The URL of a service is edited, or its feed names another hub.
Move(s) ==
  /\ s \in services
  /\ \E a \in Addresses \ {address[s]} : address' = [address EXCEPT ![s] = a]
  /\ neglected' = neglected \cup {s}
  /\ UNCHANGED <<rowVars, services, hubVars, processVars, parted>>

\* A deleted service takes its rows along; the hubs are not told.
DeleteService(s) ==
  /\ s \in services
  /\ services' = services \ {s}
  /\ sub' = [k \in Keys |-> IF Of(k) = s THEN None ELSE sub[k]]
  /\ parted' = parted \cup {k \in active : Of(k) = s}
  /\ UNCHANGED <<leased, address, hubVars, processVars, neglected>>

-----------------------------------------------------------------------------
(* subscribe(), by a command or by the renewal. *)

\* The feed answers and names its hub; is there a row of that hash?
Looked(s) == [at |-> "post", key |-> Current(s), new |-> sub[Current(s)] = None]

\* The hub takes the post.
Posted(p) == asked' = asked \cup {<<p.key, "subscribe">>}

\* Mutant: the row is saved as it was read, whatever the hub did meanwhile.
SavesAlways(p) == TRUE

\* The row is saved if it was new when looked for.
Saves(p) == p.new

\* An error if a row of that hash came first, or the service is gone.
CannotSave(p) ==
  \/ p.new /\ sub[p.key] # None
  \/ Saves(p) /\ Of(p.key) \notin services

Saved(p) ==
  /\ ~CannotSave(p)
  /\ sub' = IF Saves(p) THEN [sub EXCEPT ![p.key] = Unverified] ELSE sub

Subscribe(s) ==
  /\ command.at = "idle" /\ s \in services
  /\ command' = Looked(s)
  /\ UNCHANGED <<rowVars, ownerVars, hubVars, renewal, queue, since, history>>

\* The hub takes the post, and its answer arrives or is lost; or it does not
\* take it.
SubscribePost ==
  /\ command.at = "post"
  /\ \/ Posted(command) /\ command' \in {[command EXCEPT !.at = "save"], IdleProcess}
     \/ UNCHANGED asked /\ command' = IdleProcess
  /\ UNCHANGED <<rowVars, ownerVars, active, renewal, queue, since, history>>

SubscribeSave ==
  /\ command.at = "save"
  /\ Saved(command) \/ (CannotSave(command) /\ UNCHANGED sub)
  /\ command' = IdleProcess
  /\ UNCHANGED <<leased, ownerVars, hubVars, renewal, queue, since, history>>

\* unsubscribe() posts, and leaves the row to the hub's verification.
Unsubscribe(k) ==
  /\ sub[k] # None
  /\ asked' = asked \cup {<<k, "unsubscribe">>}
  /\ UNCHANGED <<rowVars, ownerVars, active, processVars, history>>

-----------------------------------------------------------------------------
(* verify(), which the hub calls: the row is changed, and the answer tells   *)
(* the hub to go on, unless it is lost.  The hub then asks again or gives up. *)

\* The row goes on, to the end of the lease if the hub names one.
VerifySubscribe(k) ==
  /\ <<k, "subscribe">> \in asked
  /\ sub[k] # None
  /\ sub' = [sub EXCEPT ![k] =
               [verified |-> TRUE, left |-> IF leased[k] THEN Lease ELSE @.left]]
  /\ \/ /\ asked' = asked \ {<<k, "subscribe">>}
        /\ active' = active \cup {k} /\ parted' = parted \ {k}
     \/ UNCHANGED hubVars /\ parted' = parted \cup {k}
  /\ neglected' = IF k = Current(Of(k)) THEN neglected \ {Of(k)} ELSE neglected
  /\ UNCHANGED <<leased, ownerVars, processVars>>

VerifyUnsubscribe(k) ==
  /\ <<k, "unsubscribe">> \in asked
  /\ sub[k] # None
  /\ sub' = [sub EXCEPT ![k] = None]
  /\ \/ /\ asked' = asked \ {<<k, "unsubscribe">>}
        /\ active' = active \ {k} /\ parted' = parted \ {k}
     \/ UNCHANGED hubVars /\ parted' = parted \cup {k}
  /\ neglected' = neglected \cup {Of(k)}
  /\ UNCHANGED <<leased, ownerVars, processVars>>

\* There is no row of that hash, or the hub does not get through.
Refused(k) ==
  /\ \E m \in Modes :
       /\ <<k, m>> \in asked /\ asked' = asked \ {<<k, m>>}
       /\ neglected' = IF m = "subscribe" THEN neglected \cup {Of(k)} ELSE neglected
  /\ UNCHANGED <<rowVars, ownerVars, active, processVars, parted>>

-----------------------------------------------------------------------------
(* renew_subscriptions. *)

\* Mutant: renew what has ended.
HasEnded(k) == sub[k].left = 0

EndsSoon(k) == sub[k].left < Window

IsDue(k) == sub[k] # None /\ (sub[k] # None => sub[k].left # None /\ EndsSoon(k))

\* The query loads every row; those that are not due only pass by.
Renew ==
  /\ renewal.at = "idle" /\ queue = {} /\ since > 0
  /\ queue' = {k \in Keys : IsDue(k)}
  /\ since' = 0
  /\ UNCHANGED <<rowVars, ownerVars, hubVars, command, renewal, history>>

\* The row is as the query loaded it: a hub may have removed it meanwhile.  The
\* service is read now, and subscribed at its address of now.
Visit(k) ==
  /\ renewal.at = "idle" /\ k \in queue
  /\ IF Of(k) \in services
     THEN /\ queue' = queue \ {k} /\ renewal' = Looked(Of(k))
          /\ UNCHANGED neglected
     ELSE /\ queue' = {} /\ neglected' = neglected \cup {Of(q) : q \in queue}
          /\ UNCHANGED renewal
  /\ UNCHANGED <<rowVars, ownerVars, hubVars, command, since, parted>>

\* An exception ends the loop for the rows after this one too.
RenewalRaises ==
  /\ neglected' = neglected \cup {Of(renewal.key)} \cup {Of(k) : k \in queue}
  /\ queue' = {}
  /\ renewal' = IdleProcess

\* The fetch of the feed raises.
RenewFails ==
  /\ renewal.at = "post"
  /\ RenewalRaises
  /\ UNCHANGED <<rowVars, ownerVars, hubVars, command, since, parted>>

\* As SubscribePost: a hub that does not answer ends this visit only.
RenewPost ==
  /\ renewal.at = "post"
  /\ \/ /\ Posted(renewal) /\ renewal' = [renewal EXCEPT !.at = "save"]
        /\ UNCHANGED neglected
     \/ /\ Posted(renewal) \/ UNCHANGED asked
        /\ renewal' = IdleProcess
        /\ neglected' = neglected \cup {Of(renewal.key)}
  /\ UNCHANGED <<rowVars, ownerVars, active, command, queue, since, parted>>

RenewSave ==
  /\ renewal.at = "save"
  /\ \/ /\ Saved(renewal) /\ renewal' = IdleProcess
        /\ UNCHANGED <<queue, neglected>>
     \/ CannotSave(renewal) /\ RenewalRaises /\ UNCHANGED sub
  /\ UNCHANGED <<leased, ownerVars, hubVars, command, since, parted>>

-----------------------------------------------------------------------------
\* A hub that was not told ends the lease by itself.
Lapse(k) ==
  /\ k \in active \cap parted /\ leased[k]
  /\ active' = active \ {k}
  /\ UNCHANGED <<rowVars, ownerVars, asked, processVars, history>>

Ends(k) == sub[k] # None /\ sub[k].left = 1

\* A day, in which hubs answer and the scheduled renewal ends.
Tick ==
  /\ asked = {} /\ queue = {} /\ renewal.at = "idle" /\ command.at = "idle"
  /\ since < RenewEvery /\ since' = since + 1
  /\ sub' = [k \in Keys |->
       IF sub[k] = None THEN None
       ELSE [sub[k] EXCEPT !.left = IF @ \in {None, 0} THEN @ ELSE @ - 1]]
  /\ active' = {k \in active : k \in parted \/ ~Ends(k)}
  /\ UNCHANGED <<leased, ownerVars, asked, command, renewal, queue, history>>

Next ==
  \/ \E s \in Services : Move(s) \/ DeleteService(s) \/ Subscribe(s)
  \/ \E k \in Keys : Unsubscribe(k) \/ VerifySubscribe(k) \/ VerifyUnsubscribe(k)
                     \/ Refused(k) \/ Visit(k) \/ Lapse(k)
  \/ SubscribePost \/ SubscribeSave \/ Renew \/ RenewFails \/ RenewPost \/ RenewSave \/ Tick

Spec == Init /\ [][Next]_vars

-----------------------------------------------------------------------------
\* The row is verified and its lease, if it has one, has not ended.
Lives(k) == sub[k] # None /\ sub[k].verified /\ sub[k].left # 0

\* A lease of a service does not end before the service is subscribed at its
\* current address: while any of its rows has ended, a former address's too,
\* the current one has a row that lives.  Excepted is a service whose feed or
\* hub failed, whose address changed or whose subscription was removed since
\* that address was last verified; the failure of one feed also excepts the
\* services the same renewal had still to visit.
LeasesLast ==
  \A k \in Keys : (sub[k] # None /\ sub[k].left = 0 /\ Of(k) \notin neglected)
                    => Lives(Current(Of(k)))

\* The row and the hub agree: a row lives exactly while its hub delivers to it,
\* in every order of commands, renewals, verifications, late saves and changes
\* of address, but for the keys whose hub was not told: its answer was lost, or
\* the service was deleted.
SidesAgree == \A k \in Keys \ parted : Lives(k) <=> k \in active
=============================================================================
