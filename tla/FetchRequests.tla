---------------------------- MODULE FetchRequests ----------------------------
(***************************************************************************)
(* What the fetch queue promises whoever looks at a service's status: the  *)
(* status table of ServiceFetchState (stream/models.py), without worker,   *)
(* threads, tokens and schedules.  FetchQueue implements it.               *)
(***************************************************************************)

CONSTANTS
  Services,
  Forgettable  \* the services whose owner may switch them off or delete them

VARIABLE status  \* of each service, as the status page reads it

TypeOK == status \in [Services -> {"idle", "queued", "running", "succeeded", "failed"}]

Init == status = [s \in Services |-> "idle"]

AtRest(s) == status[s] \in {"idle", "succeeded", "failed"}

\* "Run now"; of a queued or running service it changes nothing.
Ask(s) == AtRest(s) /\ status' = [status EXCEPT ![s] = "queued"]

\* Starts every fetch asked for, and the due ones with them, but none that runs.
Claim(S) ==
  /\ \A s \in Services : status[s] = "queued" => s \in S
  /\ \A s \in S : status[s] # "running"
  /\ status' = [s \in Services |-> IF s \in S THEN "running" ELSE status[s]]

\* Only a running fetch has an outcome, and only one.
End(s, outcome) ==
  /\ status[s] = "running"
  /\ status' = [status EXCEPT ![s] = outcome]

\* A worker that starts again fails what it finds running, all of it at once.
Interrupt ==
  status' = [s \in Services |-> IF status[s] = "running" THEN "failed" ELSE status[s]]

Forget(s) == s \in Forgettable /\ status' = [status EXCEPT ![s] = "idle"]

Next ==
  \/ \E S \in SUBSET Services : Claim(S)
  \/ Interrupt
  \/ \E s \in Services : Ask(s) \/ End(s, "succeeded") \/ End(s, "failed") \/ Forget(s)

Spec == Init /\ [][Next]_status
=============================================================================
