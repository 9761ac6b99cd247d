--------------------------- MODULE ServiceAccess ---------------------------
(***************************************************************************)
(* Giving a service its access: the service form of the settings           *)
(* (frontend/src/settings/service-form.ts, persist_service_payload), the   *)
(* popups that get a token by OAuth 1.0 or 2.0                             *)
(* (usettings/oauth_settings.py, gauth/gls_oauth*.py), and the fetches of  *)
(* that service.                                                           *)
(*                                                                         *)
(* A view reads the client's row, may ask the provider, and then saves the *)
(* whole row.  A fetch reads the service's row, and the token if the       *)
(* service signs in with it, and its provider class saves the whole        *)
(* service row later.  One active service; its name, URL and other fields, *)
(* and the endpoints an operator may type in, are left out.                *)
(***************************************************************************)
EXTENDS Naturals

CONSTANTS
  Tabs,     \* the popups and tabs of the OAuth pages
  None,     \* no token; no state
  MaxAuths, \* bound: authorizations started and tokens pasted
  MaxRest   \* bound: forms submitted, requests that fail, fetches by schedule

VARIABLES
  method,   \* the way this provider signs in: "oauth" or "oauth2"
  saved,    \* the service has a row
  creds,    \* how that row signs in
  client,   \* the OAuthClient row; a missing one is in phase 0
  session,  \* the state parameter the session keeps (OAuth 2.0)
  form,     \* the service form
  visit,    \* of each tab
  fetch,    \* the service's fetch, and what it read
  auths, rest,
  unused    \* History: the token obtained that no fetch has read yet

accessVars == <<client, session, visit, auths, unused>>
serviceVars == <<saved, creds, fetch>>
vars == <<method, accessVars, serviceVars, form, rest>>

NoToken == [token |-> None, final |-> FALSE]
Tokens == [token : 1..MaxAuths, final : BOOLEAN] \cup {NoToken}
Client == [phase : {0, 1, 3}, token : Tokens]
NewClient == [phase |-> 0, token |-> NoToken]
Closed == [at |-> "closed", auth |-> None, read |-> NewClient]

TypeOK ==
  /\ method \in {"oauth", "oauth2"}
  /\ saved \in BOOLEAN
  /\ creds \in {"none", method}
  /\ client \in Client
  /\ session \in 1..MaxAuths \cup {None}
  /\ form \in [at : {"new", "open", "sent", "saved", "refused"}, auth : {"none", method},
               popup : Tabs \cup {None}, need_import : BOOLEAN]
  /\ visit \in [Tabs -> [at : {"closed", "blank", "page", "asking", "away", "redeeming"},
                         auth : 1..MaxAuths \cup {None}, read : Client]]
  /\ fetch \in [status : {"idle", "queued", "running", "ended"},
                creds : {"none", method}]
  /\ auths \in 0..MaxAuths
  /\ rest \in 0..MaxRest
  /\ unused \in 1..MaxAuths \cup {None}

Init ==
  /\ method \in {"oauth", "oauth2"}
  /\ saved \in BOOLEAN
  /\ creds = "none"
  /\ client = NewClient
  /\ session = None
  /\ form = [at |-> IF saved THEN "open" ELSE "new", auth |-> "none",
             popup |-> None, need_import |-> FALSE]
  /\ visit = [t \in Tabs |-> Closed]
  /\ fetch = [status |-> "idle", creds |-> "none"]
  /\ auths = 0
  /\ rest = 0
  /\ unused = None

OneMore == rest < MaxRest /\ rest' = rest + 1

\* enqueue_manual_fetch.
Enqueued ==
  fetch' = IF fetch.status \in {"queued", "running"} THEN fetch
           ELSE [fetch EXCEPT !.status = "queued"]

-----------------------------------------------------------------------------
(* The service form.                                                       *)

submit_service_form(auth) ==
  /\ form.at \in {"new", "open"}
  /\ OneMore
  /\ form' = [form EXCEPT !.at = "sent", !.auth = auth]
  /\ UNCHANGED <<method, accessVars, serviceVars>>

\* "Configure access" of a service not saved yet opens the popup, while the
\* click still allows it, and saves the form first.
save_to_configure(t) ==
  /\ form.at = "new"
  /\ visit[t].at = "closed"
  /\ OneMore
  /\ form' = [form EXCEPT !.at = "sent", !.auth = method, !.popup = t]
  /\ visit' = [visit EXCEPT ![t].at = "blank"]
  /\ UNCHANGED <<method, client, session, auths, unused, serviceVars>>

\* A field is missing, or the request fails.
SaveRefused ==
  /\ form.at = "sent"
  /\ form' = [form EXCEPT !.at = "refused"]
  /\ UNCHANGED <<method, accessVars, serviceVars, rest>>

\* An owner who signs out of the provider wants no fetch with its token.
persist_service_payload ==
  /\ form.at = "sent"
  /\ saved' = TRUE
  /\ creds' = form.auth
  /\ form' = [form EXCEPT !.at = "saved", !.need_import = ~ saved]
  /\ unused' = IF form.auth = "none" THEN None ELSE unused
  /\ UNCHANGED <<method, client, session, visit, auths, fetch, rest>>

\* The popup gets its page, or is closed; a new service without one is
\* fetched.
prepare_service_form ==
  /\ form.at \in {"saved", "refused"}
  /\ form' = [form EXCEPT !.at = IF saved THEN "open" ELSE "new", !.popup = None,
                          !.need_import = FALSE]
  /\ visit' = IF form.popup = None THEN visit
              ELSE [visit EXCEPT ![form.popup].at =
                      IF form.at = "saved" THEN "page" ELSE "closed"]
  /\ IF form.at = "saved" /\ form.need_import /\ form.popup = None
     THEN Enqueued
     ELSE UNCHANGED fetch
  /\ UNCHANGED <<method, client, session, auths, unused, saved, creds, rest>>

configure_access(t) ==
  /\ form.at = "open"
  /\ visit[t].at = "closed"
  /\ visit' = [visit EXCEPT ![t].at = "page"]
  /\ UNCHANGED <<method, client, session, auths, unused, serviceVars, form, rest>>

-----------------------------------------------------------------------------
(* The OAuth pages.                                                        *)

\* OAuth 2.0: the page keeps a new state and sends the tab to the provider.
Authorize2(t) ==
  /\ method = "oauth2"
  /\ visit[t].at = "page"
  /\ client.phase = 0
  /\ auths < MaxAuths
  /\ auths' = auths + 1
  /\ session' = auths'
  /\ client' = [client EXCEPT !.phase = 1]
  /\ visit' = [visit EXCEPT ![t] = [Closed EXCEPT !.at = "away", !.auth = auths']]
  /\ UNCHANGED <<method, serviceVars, form, rest, unused>>

\* OAuth 1.0: in phase 0 the view asks for a request token first.
AskRequestToken(t) ==
  /\ method = "oauth"
  /\ visit[t].at = "page"
  /\ client.phase = 0
  /\ auths < MaxAuths
  /\ auths' = auths + 1
  /\ visit' = [visit EXCEPT ![t] = [at |-> "asking", auth |-> auths', read |-> client]]
  /\ UNCHANGED <<method, client, session, serviceVars, form, rest, unused>>

get_request_token(t) ==
  /\ visit[t].at = "asking"
  /\ client' = [phase |-> 1, token |-> [token |-> visit[t].auth, final |-> FALSE]]
  /\ visit' = [visit EXCEPT ![t] = [Closed EXCEPT !.at = "away", !.auth = visit[t].auth]]
  /\ UNCHANGED <<method, session, auths, serviceVars, form, rest, unused>>

\* The row is saved all the same, as it was read.
RequestTokenFails(t) ==
  /\ visit[t].at = "asking"
  /\ client' = visit[t].read
  /\ visit' = [visit EXCEPT ![t] = [Closed EXCEPT !.at = "page"]]
  /\ UNCHANGED <<method, session, auths, serviceVars, form, rest, unused>>

\* In phase 1 the tab goes to the provider with the request token there is.
Authorize1(t) ==
  /\ method = "oauth"
  /\ visit[t].at = "page"
  /\ client.phase = 1
  /\ visit' = [visit EXCEPT ![t] = [Closed EXCEPT !.at = "away", !.auth = client.token.token]]
  /\ UNCHANGED <<method, client, session, auths, serviceVars, form, rest, unused>>

\* The provider sends the tab back; the answer must be to this authorization.
Answers(n) ==
  /\ client.phase = 1
  /\ IF method = "oauth2" THEN session = n ELSE client.token.token = n

Callback(t) ==
  /\ visit[t].at = "away"
  /\ IF Answers(visit[t].auth)
     THEN /\ visit' = [visit EXCEPT ![t].at = "redeeming", ![t].read = client]
          /\ session' = None
     ELSE /\ visit' = [visit EXCEPT ![t] = [Closed EXCEPT !.at = "page"]]
          /\ UNCHANGED session
  /\ UNCHANGED <<method, client, auths, serviceVars, form, rest, unused>>

\* _sign_in_with: the service uses token n, and is fetched with it.
SignIn(n) ==
  /\ client' = [phase |-> 3, token |-> [token |-> n, final |-> TRUE]]
  /\ creds' = method
  /\ unused' = n
  /\ Enqueued

get_access_token(t) ==
  /\ visit[t].at = "redeeming"
  /\ SignIn(visit[t].auth)
  /\ visit' = [visit EXCEPT ![t] = Closed]
  /\ UNCHANGED <<method, saved, session, auths, form, rest>>

\* Nothing is saved; the state is used up.
AccessTokenFails(t) ==
  /\ visit[t].at = "redeeming"
  /\ visit' = [visit EXCEPT ![t] = [Closed EXCEPT !.at = "page"]]
  /\ UNCHANGED <<method, client, session, auths, serviceVars, form, rest, unused>>

\* A token pasted into the OAuth 2.0 page.
Paste(t) ==
  /\ method = "oauth2"
  /\ visit[t].at = "page"
  /\ auths < MaxAuths
  /\ auths' = auths + 1
  /\ SignIn(auths')
  /\ visit' = [visit EXCEPT ![t] = Closed]
  /\ UNCHANGED <<method, saved, session, form, rest>>

reset(t) ==
  /\ visit[t].at = "page"
  /\ client # NewClient
  /\ client' = NewClient
  /\ unused' = None
  /\ UNCHANGED <<method, session, visit, auths, serviceVars, form, rest>>

-----------------------------------------------------------------------------
(* The service's fetches.                                                  *)

BecomesDue ==
  /\ saved
  /\ fetch.status \in {"idle", "ended"}
  /\ OneMore
  /\ fetch' = [fetch EXCEPT !.status = "queued"]
  /\ UNCHANGED <<method, accessVars, saved, creds, form>>

FetchStarts ==
  /\ fetch.status = "queued"
  /\ fetch' = [status |-> "running", creds |-> creds]
  /\ unused' = IF creds = method /\ client.token.token = unused THEN None ELSE unused
  /\ UNCHANGED <<method, client, session, visit, auths, saved, creds, form, rest>>

\* self.service.save(): every column of the row as it was loaded.
ProviderSaves ==
  /\ fetch.status = "running"
  /\ creds' = fetch.creds
  /\ UNCHANGED <<method, accessVars, saved, fetch, form, rest>>

FetchEnds ==
  /\ fetch.status = "running"
  /\ fetch' = [fetch EXCEPT !.status = "ended"]
  /\ UNCHANGED <<method, accessVars, saved, creds, form, rest>>

Next ==
  \/ \E auth \in {"none", method} : submit_service_form(auth)
  \/ SaveRefused
  \/ persist_service_payload
  \/ prepare_service_form
  \/ \E t \in Tabs :
       \/ save_to_configure(t)
       \/ configure_access(t)
       \/ Authorize2(t)
       \/ AskRequestToken(t)
       \/ get_request_token(t)
       \/ RequestTokenFails(t)
       \/ Authorize1(t)
       \/ Callback(t)
       \/ get_access_token(t)
       \/ AccessTokenFails(t)
       \/ Paste(t)
       \/ reset(t)
  \/ BecomesDue
  \/ FetchStarts
  \/ ProviderSaves
  \/ FetchEnds

Spec == Init /\ [][Next]_vars

-----------------------------------------------------------------------------
\* _sign_in_with, oauth_settings.py: it "makes the service use the token it
\* just got, and fetches it with it", because "a fetch that ran before there was
\* a token failed, and would wait a day": a new token nobody has used yet has
\* a fetch coming that will.
TokenIsUsed == unused # None => fetch.status \in {"queued", "running"}
=============================================================================
