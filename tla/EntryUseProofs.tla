--------------------------- MODULE EntryUseProofs ---------------------------
(***************************************************************************)
(* What is done with entries: the commands that clean them up, the reads   *)
(* that fetch them, the pages that show them, the timelines they are of    *)
(* and the upgrades they are given, for any number of entries, posts,      *)
(* upgrades, retries and options; how their service is signed in; and the  *)
(* types of all parts.                                                     *)
(***************************************************************************)
EXTENDS EntryProofs, PageCacheProofs

(* The worker's command line and its cleanup (worker/cli.py,               *)
(* worker/maintenance.py).                                                 *)

\* None is no number.
CommandsBounded == MaxOptions \in Nat /\ None \notin Int

\* What an option may be set to.
ValuesOf(field) ==
  {Commands!Defaults[field]} \cup {o[2] : o \in {o \in Commands!Options : o[1] = field}}

\* While the options are parsed nothing is done; what is deleted is deleted last.
CommandInv ==
  /\ Commands!TypeOK
  /\ \A field \in DOMAIN Commands!Defaults : parsed[field] \in ValuesOf(field)
  /\ at # "exit" => entries = Commands!Entries
  /\ at = "execute" /\ did.kind = "websub" => parsed.websub_cmd # None
  /\ Commands!WantedEntriesStay

LEMMA PairParts == \A x, y : <<x, y>>[1] = x /\ <<x, y>>[2] = y
OBVIOUS

\* Two options take values that tell their commands apart.
LEMMA OptionValues ==
  ASSUME CommandInv
  PROVE  /\ parsed.delete_old \in Commands!Days \cup {None}
         /\ parsed.websub_cmd \in {"subscribe", "renew", "other", None}
<1>1. /\ "delete_old" \in DOMAIN Commands!Defaults /\ Commands!Defaults["delete_old"] = None
      /\ "websub_cmd" \in DOMAIN Commands!Defaults /\ Commands!Defaults["websub_cmd"] = None
  <2>1. <<"delete_old", 0>> \in Commands!Options /\ <<"websub_cmd", "renew">> \in Commands!Options
    BY DEF Commands!Options, Commands!Days
  <2> QED
    BY <2>1 DEF Commands!Defaults, Commands!Flags
<1>2. ASSUME NEW o \in Commands!Options
      PROVE  /\ o[1] = "delete_old" => o[2] \in Commands!Days
             /\ o[1] = "websub_cmd" => o[2] \in {"subscribe", "renew", "other"}
  <2>1. CASE o \in {"list_old", "delete_old"} \X Commands!Days
    BY <2>1
  <2>2. CASE o \in Commands!Flags \X {TRUE}
    BY <2>2 DEF Commands!Flags
  <2>3. CASE o \in {"thumbs"} \X {"list-orphans", "delete-orphans"}
    BY <2>3
  <2>4. CASE o \in {"websub_cmd"} \X {"subscribe", "renew", "other"}
    BY <2>4
  <2>5. CASE o \in {"id"} \X Services
    BY <2>5
  <2>6. CASE o \in {<<"extra", TRUE>>, <<"unknown", TRUE>>}
    <3>1. o[1] = "extra" \/ o[1] = "unknown"
      BY <2>6, PairParts, Zenon
    <3> QED
      BY <3>1
  <2> QED
    BY <2>1, <2>2, <2>3, <2>4, <2>5, <2>6 DEF Commands!Options
<1>3. parsed["delete_old"] \in Commands!Days \cup {None}
  BY <1>1, <1>2, Zenon DEF CommandInv, ValuesOf
<1>4. parsed["websub_cmd"] \in {"subscribe", "renew", "other", None}
  BY <1>1, <1>2, Zenon DEF CommandInv, ValuesOf
<1> QED
  BY <1>3, <1>4, Zenon

LEMMA CommandInitInv == ASSUME CommandsBounded, Commands!Init PROVE CommandInv
<1>1. Commands!TypeOK
  <2>1. did \in [kind : Commands!Kinds \cup {None}, what : {"nothing"}]
    BY DEF Commands!Init, Commands!Nothing
  <2> QED
    BY <2>1 DEF Commands!Init, Commands!TypeOK
<1>2. \A field \in DOMAIN Commands!Defaults : parsed[field] \in ValuesOf(field)
  BY Zenon DEF Commands!Init, ValuesOf
<1>3. Commands!WantedEntriesStay
  BY DEF Commands!Init, Commands!WantedEntriesStay
<1> QED
  BY <1>1, <1>2, <1>3 DEF CommandInv, Commands!Init

LEMMA ParseStep == ASSUME CommandsBounded, CommandInv, Commands!_parse_options PROVE CommandInv'
<1> PICK n \in 0..MaxOptions : argv \in [1..n -> Commands!Options]
  BY DEF CommandInv, Commands!TypeOK
<1> DEFINE option == Head(argv)
<1>1. /\ n > 0 /\ Len(argv) = n
      /\ Tail(argv) \in [1..(n - 1) -> Commands!Options] /\ n - 1 \in 0..MaxOptions
      /\ option \in Commands!Options
  <2>1. argv \in Seq(Commands!Options) /\ argv # <<>> /\ Len(argv) = n
    BY DEF Commands!_parse_options
  <2>2. /\ Tail(argv) \in Seq(Commands!Options) /\ Len(Tail(argv)) = n - 1
        /\ option \in Commands!Options
    BY <2>1, HeadTailProperties
  <2>3. n > 0
    BY <2>1
  <2>4. Tail(argv) \in [1..(n - 1) -> Commands!Options]
    BY <2>2, LenProperties
  <2> QED
    BY <2>1, <2>2, <2>3, <2>4 DEF CommandsBounded
<1>2. option[1] \in DOMAIN Commands!Defaults
  BY <1>1 DEF Commands!Defaults
<1>3. /\ parsed' = [parsed EXCEPT ![option[1]] = option[2]] /\ argv' = Tail(argv)
      /\ UNCHANGED <<at, did, entries>> /\ at = "parse" /\ entries = Commands!Entries
  BY DEF Commands!_parse_options, CommandInv
<1> HIDE DEF option
<1>4. Commands!TypeOK'
  BY <1>1, <1>3 DEF CommandInv, Commands!TypeOK
<1>5. ASSUME NEW field \in DOMAIN Commands!Defaults PROVE parsed'[field] \in ValuesOf(field)
  <2>1. CASE field = option[1]
    <3>1. parsed'[field] = option[2]
      BY <1>3, <2>1 DEF CommandInv, Commands!TypeOK
    <3>2. option[2] \in ValuesOf(field)
      BY <1>1, <2>1, Zenon DEF ValuesOf
    <3> QED
      BY <3>1, <3>2, Zenon
  <2>2. CASE field # option[1]
    <3>1. parsed'[field] = parsed[field]
      BY <1>3, <2>2 DEF CommandInv, Commands!TypeOK
    <3> QED
      BY <3>1, Zenon DEF CommandInv
  <2> QED
    BY <2>1, <2>2, Zenon
<1>6. Commands!WantedEntriesStay'
  BY <1>3 DEF Commands!WantedEntriesStay
<1> QED
  BY <1>3, <1>4, <1>5, <1>6 DEF CommandInv

LEMMA SelectStep == ASSUME CommandInv, Commands!Select PROVE CommandInv'
<1>1. Commands!_select_command_kind \in Commands!Kinds
  BY DEF Commands!_select_command_kind, Commands!Kinds
<1>2. /\ did' = [Commands!Nothing EXCEPT !.kind = Commands!_select_command_kind]
      /\ at' = "execute" /\ UNCHANGED <<argv, parsed, entries>> /\ entries = Commands!Entries
  BY DEF Commands!Select, CommandInv
<1>3. Commands!TypeOK'
  BY <1>1, <1>2 DEF CommandInv, Commands!TypeOK, Commands!Nothing
<1>4. Commands!WantedEntriesStay'
  BY <1>2 DEF Commands!WantedEntriesStay
<1>5. Commands!_select_command_kind = "websub" => parsed.websub_cmd # None
  BY DEF Commands!_select_command_kind
<1>6. did'.kind = Commands!_select_command_kind
  BY <1>2 DEF Commands!Nothing
<1> QED
  BY <1>2, <1>3, <1>4, <1>5, <1>6 DEF CommandInv

LEMMA ExecuteStep ==
  ASSUME CommandsBounded, CommandInv, Commands!execute_command
  PROVE  CommandInv'
<1>1. at' = "exit" /\ UNCHANGED <<argv, parsed>> /\ entries = Commands!Entries
  BY DEF Commands!execute_command, CommandInv
<1>2. did' = did \/ \E result \in {"thumbs", "uploads", "list", "delete", "error", "active", "any",
                                "declined", "unknown", "subscribe", "renew"} : Commands!Does(result)
  <2>1. CASE Commands!handle_cleanup
    BY <2>1 DEF Commands!handle_cleanup
  <2>2. CASE Commands!handle_fetch
    BY <2>2 DEF Commands!handle_fetch
  <2>3. CASE did.kind = "websub" /\ Commands!handle_websub
    <3>1. parsed.websub_cmd \in {"subscribe", "renew", "other"}
      BY <2>3, OptionValues DEF CommandInv, Commands!execute_command
    <3> QED
      BY <2>3, <3>1 DEF Commands!handle_websub
  <2> QED
    BY <2>1, <2>2, <2>3 DEF Commands!execute_command
<1>3. \/ UNCHANGED entries
      \/ /\ ~Commands!listing /\ parsed.delete_old # None
         /\ entries' = entries \ Commands!get_old_entries_queryset
  BY DEF Commands!execute_command, Commands!handle_cleanup
<1>4. Commands!TypeOK'
  <2>1. did' \in [kind : Commands!Kinds \cup {None},
                  what : {"nothing", "thumbs", "uploads", "list", "delete", "error", "active", "any",
                          "declined", "unknown", "subscribe", "renew"}]
    BY <1>2 DEF CommandInv, Commands!TypeOK, Commands!Does
  <2>2. entries' \subseteq Commands!Entries
    BY <1>1, <1>3
  <2> QED
    BY <1>1, <2>1, <2>2 DEF CommandInv, Commands!TypeOK
<1>5. Commands!WantedEntriesStay'
  <2> SUFFICES ASSUME NEW e \in Commands!Entries, e \notin entries'
               PROVE  /\ ~e.favorite /\ ~e.protected /\ ~e.public
                      /\ parsed.only_inactive => ~e.active
                      /\ parsed.id # None => e.service = parsed.id
                      /\ parsed.delete_old > 0 => e.published_old /\ e.inserted_old
    BY <1>1 DEF Commands!WantedEntriesStay
  <2>1. /\ e \in Commands!get_old_entries_queryset
        /\ ~Commands!listing /\ parsed.delete_old \in Commands!Days
    BY <1>1, <1>3, OptionValues
  <2>2. parsed.delete_old > 0 => ~(Commands!OldDays < 0)
    BY <2>1 DEF Commands!OldDays, Commands!Days
  <2> QED
    BY <2>1, <2>2 DEF Commands!get_old_entries_queryset, Commands!IsFavorite, Commands!Before
<1> QED
  BY <1>1, <1>4, <1>5 DEF CommandInv

LEMMA CommandNextInv ==
  ASSUME CommandsBounded, CommandInv, [Commands!Next]_(Commands!vars)
  PROVE  CommandInv'
<1>1. CASE Commands!Next
  BY <1>1, ParseStep, SelectStep, ExecuteStep DEF Commands!Next
<1>2. CASE UNCHANGED Commands!vars
  BY <1>2 DEF Commands!vars, CommandInv, Commands!TypeOK, Commands!WantedEntriesStay
<1> QED
  BY <1>1, <1>2
-----------------------------------------------------------------------------
(* One read of an address (utils/httpclient.py).                           *)

\* The pauses between retries are numbers, none of them longer than the wait
\* that is still granted to a remote.
ReadsBounded ==
  /\ Backoff \in Seq(0..MaxRetryAfter) /\ MaxRetryAfter \in Nat /\ Waits \subseteq Nat
  /\ {Feed, Sniff, Media, Longest} \subseteq Nat

\* A retry follows a failure that may pass, after the wait it asked for.
Passing(e) ==
  /\ e.retryable /\ e.category # "blocked_address"
  /\ e.after # None => e.after <= MaxRetryAfter

ReadInv ==
  /\ Reads!TypeOK
  /\ reading \in {"type", "body"} => what # "api"
  /\ what # "api" => kept <= Reads!Limit
  /\ reading = "sleep" => Passing(error) /\ attempt < Reads!Attempts
  /\ reading = "request" /\ attempt > 1 =>
       /\ Passing(error)
       /\ error.after # None => waited = error.after
       /\ waited <= MaxRetryAfter

LEMMA LimitIsNat ==
  ASSUME ReadsBounded, Reads!TypeOK, what # "api" PROVE Reads!Limit \in Nat
BY DEF Reads!Limit, Reads!TypeOK, ReadsBounded

LEMMA BackoffIsNat ==
  ASSUME ReadsBounded
  PROVE  /\ Len(Backoff) \in Nat
         /\ \A i \in 1..Len(Backoff) : Backoff[i] \in 0..MaxRetryAfter
BY LenProperties, ElementOfSeq DEF ReadsBounded

LEMMA ReadInitInv == ASSUME ReadsBounded, Reads!Init PROVE ReadInv
<1>1. Reads!NoAnswer \in Reads!Answers /\ Reads!NoAnswer.size = 0
  BY DEF Reads!NoAnswer, Reads!Answers, Reads!Types, ReadsBounded
<1>2. Reads!NoError \in [category : Reads!Categories, retryable : BOOLEAN, after : Waits \cup {None}]
  BY DEF Reads!NoError, Reads!Categories
<1>3. Reads!TypeOK
  BY <1>1, <1>2, BackoffIsNat DEF Reads!Init, Reads!TypeOK, Reads!Answers, ReadsBounded
<1> QED
  BY <1>3, LimitIsNat DEF Reads!Init, ReadInv

\* What a failed request may have found.
LEMMA FailureTypes ==
  ASSUME NEW e \in Reads!_classify_request_exception \cup Reads!_classify_response_error
  PROVE  /\ e \in [category : Reads!Categories, retryable : BOOLEAN, after : Waits \cup {None}]
         /\ Reads!WaitsHere(e) => Passing(e)
<1>1. CASE e \in Reads!_classify_request_exception
  <2>1. PICK c \in {"timeout", "connection", "blocked_address", "unexpected"}, passes \in BOOLEAN :
          /\ e = [category |-> c, retryable |-> passes, after |-> None]
          /\ passes => c \in {"timeout", "connection"}
    BY <1>1, Zenon DEF Reads!_classify_request_exception
  <2> QED
    BY <2>1 DEF Reads!Categories, Reads!WaitsHere, Passing
<1>2. CASE e \in Reads!_classify_response_error
  BY <1>2 DEF Reads!_classify_response_error, Reads!Categories, Reads!WaitsHere, Passing
<1> QED
  BY <1>1, <1>2

LEMMA ReadNextInv ==
  ASSUME ReadsBounded, ReadInv, [Reads!Next]_(Reads!vars)
  PROVE  ReadInv'
<1> USE LimitIsNat DEF ReadInv
<1> DEFINE Errors == [category : Reads!Categories, retryable : BOOLEAN, after : Waits \cup {None}]
<1>1. CASE Reads!RequestFails
  <2>1. PICK e \in Reads!_classify_request_exception \cup Reads!_classify_response_error :
          \/ Reads!WaitsHere(e) /\ attempt < Reads!Attempts /\ reading' = "sleep" /\ error' = e
          \/ Reads!Fails(e)
    BY <1>1 DEF Reads!RequestFails
  <2>2. e \in Errors /\ (Reads!WaitsHere(e) => Passing(e))
    BY FailureTypes
  <2>3. /\ waited' = 0 /\ UNCHANGED <<what, page, attempt, answer, kept>>
        /\ error' = e /\ reading' \in {"sleep", "failed"}
        /\ reading' = "sleep" => Reads!WaitsHere(e) /\ attempt < Reads!Attempts
    BY <1>1, <2>1 DEF Reads!RequestFails, Reads!Fails
  <2>4. Reads!TypeOK'
    BY <2>2, <2>3 DEF Reads!TypeOK
  <2> QED
    BY <2>2, <2>3, <2>4 DEF Reads!Limit, Passing, Reads!Attempts
<1>2. CASE Reads!Sleep
  <2>1. /\ Passing(error) /\ attempt \in Nat /\ attempt >= 1 /\ attempt < Len(Backoff) + 1
        /\ Len(Backoff) \in Nat
    BY <1>2, BackoffIsNat DEF Reads!Sleep, Reads!TypeOK, Reads!Attempts
  <2>2. Backoff[attempt] \in 0..MaxRetryAfter /\ attempt \in 1..Len(Backoff)
    BY <2>1, BackoffIsNat
  <2>3. /\ waited' = Reads!Pause /\ attempt' = attempt + 1 /\ reading' = "request"
        /\ UNCHANGED <<what, page, answer, kept, error>>
    BY <1>2 DEF Reads!Sleep
  <2>4. /\ waited' \in Waits \cup {Backoff[i] : i \in 1..Len(Backoff)}
        /\ error.after # None => waited' = error.after
        /\ waited' <= MaxRetryAfter
    BY <2>1, <2>2, <2>3 DEF Reads!Pause, Passing, Reads!TypeOK, ReadsBounded
  <2>5. attempt' \in 1..(Len(Backoff) + 1)
    BY <2>1, <2>3
  <2>6. Reads!TypeOK'
    BY <2>3, <2>4, <2>5 DEF Reads!TypeOK
  <2> QED
    BY <2>1, <2>3, <2>4, <2>6 DEF Reads!Limit, Passing
<1>3. CASE Reads!RequestSucceeds
  <2>1. /\ answer' \in Reads!Answers
        /\ IF what = "api" THEN reading' = "done" /\ kept' = answer'.size
                           ELSE reading' = "type" /\ kept' = 0
        /\ UNCHANGED <<what, page, attempt, error, waited>>
    BY <1>3 DEF Reads!RequestSucceeds
  <2>2. kept' \in 0..Longest
    BY <2>1 DEF Reads!Answers, ReadsBounded
  <2>3. Reads!TypeOK'
    BY <2>1, <2>2 DEF Reads!TypeOK, Reads!Answers
  <2>4. what # "api" => Reads!Limit' \in Nat
    BY <2>1, <2>3, LimitIsNat DEF Reads!Limit, Reads!TypeOK, ReadsBounded
  <2> QED
    BY <2>1, <2>3, <2>4
<1>4. ASSUME Reads!Invalid, UNCHANGED <<what, page, attempt, answer, kept, waited>>
      PROVE  ReadInv'
  <2>1. reading' = "failed" /\ error' \in Errors
    BY <1>4 DEF Reads!Invalid, Reads!Fails, Reads!Categories
  <2>2. Reads!TypeOK'
    BY <1>4, <2>1 DEF Reads!TypeOK
  <2> QED
    BY <1>4, <2>1, <2>2 DEF Reads!Limit
<1>5. CASE Reads!CheckHeaders
  <2>1. CASE Reads!Invalid
    BY <1>4, <1>5, <2>1 DEF Reads!CheckHeaders
  <2>2. CASE reading' = "body" /\ UNCHANGED <<error, what, page, attempt, answer, kept, waited>>
    BY <1>5, <2>2 DEF Reads!CheckHeaders, Reads!TypeOK, Reads!Limit
  <2> QED
    BY <1>5, <2>1, <2>2 DEF Reads!CheckHeaders
<1>6. CASE Reads!ReadChunk
  <2>1. CASE Reads!Invalid
    BY <1>4, <1>6, <2>1 DEF Reads!ReadChunk, Reads!Invalid, Reads!Fails, Reads!TypeOK
  <2>2. CASE ~Reads!TooLong
    <3>1. /\ kept' = kept + 1 /\ kept < answer.size /\ reading = "body"
          /\ UNCHANGED <<reading, error, what, page, attempt, answer, waited>>
      BY <1>6, <2>2 DEF Reads!ReadChunk
    <3>2. kept \in Nat /\ answer.size \in 0..Longest /\ kept' <= Reads!Limit /\ Longest \in Nat
      BY <2>2, <3>1 DEF Reads!TypeOK, Reads!TooLong, ReadsBounded
    <3>3. Reads!TypeOK'
      BY <3>1, <3>2 DEF Reads!TypeOK
    <3> QED
      BY <3>1, <3>2, <3>3 DEF Reads!Limit
  <2> QED
    BY <1>6, <2>1, <2>2 DEF Reads!ReadChunk
<1>7. CASE Reads!BodyFails
  <2>1. /\ reading' = "failed" /\ error' \in Errors
        /\ UNCHANGED <<what, page, attempt, answer, kept, waited>>
    BY <1>7 DEF Reads!BodyFails, Reads!Fails, Reads!NoError, Reads!Categories
  <2>2. Reads!TypeOK'
    BY <2>1 DEF Reads!TypeOK
  <2> QED
    BY <2>1, <2>2 DEF Reads!Limit
<1>8. CASE Reads!BodyEnds
  BY <1>8 DEF Reads!BodyEnds, Reads!TypeOK, Reads!Limit
<1>9. CASE Reads!FindFeed
  <2>1. CASE Reads!Invalid
    BY <1>4, <1>9, <2>1 DEF Reads!FindFeed, Reads!Invalid, Reads!Fails
  <2>2. CASE page' = 2 /\ attempt' = 1 /\ reading' = "request" /\ error' = Reads!NoError
    <3>1. error' \in Errors /\ UNCHANGED <<what, answer, kept, waited>>
      BY <1>9, <2>2 DEF Reads!FindFeed, Reads!NoError, Reads!Categories
    <3>2. Reads!TypeOK'
      BY <2>2, <3>1, BackoffIsNat DEF Reads!TypeOK
    <3>3. Reads!Limit' = Reads!Limit
      BY <3>1 DEF Reads!Limit
    <3> QED
      BY <2>2, <3>1, <3>2, <3>3
  <2> QED
    BY <1>9, <2>1, <2>2 DEF Reads!FindFeed
<1>10. CASE UNCHANGED Reads!vars
  BY <1>10 DEF Reads!vars, Reads!TypeOK, Reads!Limit, Passing
<1> QED
  BY <1>1, <1>2, <1>3, <1>5, <1>6, <1>7, <1>8, <1>9, <1>10 DEF Reads!Next
-----------------------------------------------------------------------------
(* Who is shown what (stream/index_view.py, stream/api_view.py).           *)

\* The filters of a query keep from strangers and friends what is theirs to see
\* only later, or never.
RightFilters ==
  /\ ~Visibility!authed => filters.public /\ filters.final
  /\ asked.page = "public" => filters.public
  /\ asked.page = "entry" => filters.ids = {asked.entry}

\* What one query read is what its viewer may see; a search finds nothing by a
\* content that he may not read.
RightlyLoaded ==
  /\ \A e \in Visibility!On(loaded) :
       /\ Visibility!MayList(loaded[e])
       /\ asked.search => Visibility!MayRead(loaded[e])
       /\ asked.page = "public" => loaded[e].public
  /\ asked.page = "entry" => Visibility!On(loaded) \subseteq {asked.entry}

RightlyMasked ==
  /\ masked = {e \in Visibility!On(loaded) :
                 loaded[e].friends_only /\ ~Visibility!authed /\ ~Visibility!friend}
  /\ titled => masked = {}

\* What is known of a page on its way.
ViewInv ==
  /\ Visibility!TypeOK
  /\ viewer.staff => viewer.authenticated
  /\ response # "none" => asked.at = "none"
  /\ asked.at \in {"none", "context"} /\ response = "none" =>
       /\ loaded = Visibility!NothingLoaded /\ masked = {} /\ ~titled
       /\ months = Visibility!NothingLoaded
  /\ asked.at = "context" /\ asked.page = "content" => ~asked.search
  /\ asked.at \in {"query", "decorate", "validate", "render"} =>
       RightFilters /\ months = Visibility!NothingLoaded
  /\ asked.at \in {"decorate", "validate", "render"} => RightlyLoaded
  /\ asked.at \in {"validate", "render"} => RightlyMasked
  /\ Visibility!OnlyMayShow

\* A page that was loaded and masked rightly shows what it may.
LEMMA ShowsRightly ==
  ASSUME RightlyLoaded, RightlyMasked
  PROVE  /\ \A e \in Visibility!On(loaded) :
              /\ Visibility!MayList(loaded[e])
              /\ e \notin masked <=> Visibility!MayRead(loaded[e])
              /\ asked.search \/ titled \/ Visibility!entry_link(e) = "titled"
                   => Visibility!MayRead(loaded[e])
              /\ asked.page = "public" => loaded[e].public
         /\ asked.page = "entry" => Visibility!On(loaded) \subseteq {asked.entry}
BY DEF RightlyLoaded, RightlyMasked, Visibility!MayRead, Visibility!entry_link

LEMMA NothingIsShown ==
  ASSUME loaded = Visibility!NothingLoaded
  PROVE  Visibility!On(loaded) = {}
BY DEF Visibility!NothingLoaded, Visibility!On

LEMMA ViewInitInv == ASSUME Visibility!Init PROVE ViewInv
<1>1. Visibility!TypeOK
  <2>1. filters \in Visibility!Filters
    BY DEF Visibility!Init, Visibility!NoFilters, Visibility!Filters
  <2>2. /\ loaded \in [Articles -> Visibility!Article \cup {None}]
        /\ months \in [Articles -> Visibility!Article \cup {None}]
    BY DEF Visibility!Init, Visibility!NothingLoaded
  <2>3. asked \in [at : {"none"}, page : Visibility!Pages, search : BOOLEAN, entry : Articles,
                   path : {"bare"}]
    BY DEF Visibility!Init, Visibility!Pages
  <2> QED
    BY <2>1, <2>2, <2>3 DEF Visibility!Init, Visibility!TypeOK
<1> QED
  BY <1>1 DEF Visibility!Init, ViewInv, Visibility!OnlyMayShow

\* What a query finds is stored, of the kind its filters ask for.
LEMMA FoundIs ==
  ASSUME Visibility!TypeOK, NEW f
  PROVE  /\ Visibility!Found(f) \in [Articles -> Visibility!Article \cup {None}]
         /\ \A e \in Visibility!On(Visibility!Found(f)) :
              /\ Visibility!Found(f)[e] = articles[e] /\ articles[e] \in Visibility!Article
              /\ Visibility!Passes(f, e)
BY DEF Visibility!TypeOK, Visibility!Found, Visibility!On

LEMMA ApplyFiltersStep ==
  ASSUME ViewInv, Visibility!apply_context_filters
  PROVE  ViewInv'
<1>1. /\ asked.at = "context" /\ asked.page # "content" /\ response = "none"
      /\ loaded = Visibility!NothingLoaded /\ masked = {} /\ ~titled
      /\ months = Visibility!NothingLoaded
      /\ UNCHANGED <<sso, articles, favored, listed, viewer, loaded, masked, titled, months>>
  BY DEF Visibility!apply_context_filters, ViewInv
<1>2. CASE /\ response' \in {"start", "error"} /\ Visibility!Moves("none") /\ UNCHANGED filters
  <2>1. /\ asked' = [asked EXCEPT !.at = "none"] /\ asked'.at = "none"
        /\ Visibility!TypeOK'
    BY <1>1, <1>2 DEF ViewInv, Visibility!TypeOK, Visibility!Moves
  <2>2. Visibility!OnlyMayShow'
    BY <1>1 DEF Visibility!OnlyMayShow, Visibility!NothingLoaded, Visibility!On
  <2> QED
    BY <1>1, <1>2, <2>1, <2>2 DEF ViewInv
<1>3. CASE ~(response' \in {"start", "error"} /\ Visibility!Moves("none") /\ UNCHANGED filters)
  <2> DEFINE ids == CASE asked.page = "favorites" -> favored
                      [] asked.page = "list" /\ Visibility!authed -> listed
                      [] asked.page = "entry" -> {asked.entry}
                      [] OTHER -> Articles
             home_only == ~(asked.page = "list" /\ Visibility!authed)
  <2>1. /\ filters' = [Visibility!ByReader EXCEPT !.home = home_only, !.ids = ids]
        /\ Visibility!Moves("query") /\ response' = response
    BY <1>3 DEF Visibility!apply_context_filters
  <2>2. ids \in SUBSET Articles /\ (asked.page = "entry" => ids = {asked.entry})
    BY DEF ViewInv, Visibility!TypeOK
  <2> HIDE DEF ids
  <2>3. /\ filters' \in Visibility!Filters /\ filters'.ids = ids
        /\ filters'.final = ~Visibility!authed
        /\ filters'.public = ((~Visibility!authed \/ asked.page = "public") /\ ~Visibility!DropsPublic)
    BY <2>1, <2>2 DEF Visibility!ByReader, Visibility!NoFilters, Visibility!Filters
  <2>4. /\ asked' = [asked EXCEPT !.at = "query"]
        /\ asked'.at = "query" /\ asked'.page = asked.page /\ asked'.entry = asked.entry
        /\ asked'.search = asked.search
    BY <2>1 DEF Visibility!Moves, ViewInv, Visibility!TypeOK
  <2>5. Visibility!TypeOK'
    BY <1>1, <2>1, <2>3, <2>4 DEF ViewInv, Visibility!TypeOK
  <2>6. RightFilters'
    BY <1>1, <2>2, <2>3, <2>4 DEF RightFilters, Visibility!authed, Visibility!DropsPublic
  <2>7. Visibility!OnlyMayShow'
    BY <1>1, <2>1 DEF Visibility!OnlyMayShow
  <2> QED
    BY <1>1, <2>1, <2>4, <2>5, <2>6, <2>7 DEF ViewInv
<1> QED
  BY <1>2, <1>3

LEMMA QueryStep == ASSUME ViewInv, Visibility!run_index_query PROVE ViewInv'
<1> DEFINE f == IF asked.search THEN Visibility!ForSearch ELSE filters
<1>1. /\ asked.at = "query" /\ response = "none" /\ RightFilters
      /\ loaded' = Visibility!Found(f) /\ asked' = [asked EXCEPT !.at = "decorate"]
      /\ months = Visibility!NothingLoaded /\ titled' \in BOOLEAN
      /\ UNCHANGED <<sso, articles, favored, listed, viewer, filters, masked, months, response>>
  BY DEF Visibility!run_index_query, ViewInv, Visibility!Moves
<1>2. /\ asked'.at = "decorate" /\ asked'.page = asked.page /\ asked'.entry = asked.entry
      /\ asked'.search = asked.search
  BY <1>1 DEF ViewInv, Visibility!TypeOK
<1>3. /\ f.final = filters.final /\ f.public = filters.public /\ f.ids = filters.ids
      /\ asked.search => f.open = (~Visibility!authed /\ ~Visibility!friend)
  BY DEF Visibility!ForSearch, ViewInv, Visibility!TypeOK, Visibility!Filters
<1> HIDE DEF f
<1>4. /\ loaded' \in [Articles -> Visibility!Article \cup {None}]
      /\ \A e \in Visibility!On(loaded') :
           /\ loaded'[e] = articles[e] /\ articles[e] \in Visibility!Article
           /\ Visibility!Passes(f, e)
  BY <1>1, FoundIs DEF ViewInv
<1>5. Visibility!TypeOK'
  BY <1>1, <1>4 DEF ViewInv, Visibility!TypeOK
<1>6. RightFilters'
  BY <1>1, <1>2 DEF RightFilters, Visibility!authed
<1>7. RightlyLoaded'
  <2>1. ASSUME NEW e \in Visibility!On(loaded')
        PROVE  /\ Visibility!MayList(loaded'[e])
               /\ asked.search => Visibility!MayRead(loaded'[e])
               /\ asked.page = "public" => loaded'[e].public
               /\ asked.page = "entry" => e = asked.entry
    BY <1>1, <1>3, <1>4 DEF Visibility!Passes, Visibility!MayList, Visibility!MayRead, RightFilters
  <2>2. UNCHANGED <<viewer, sso>>
    BY <1>1
  <2> QED
    BY <1>2, <2>1, <2>2 DEF RightlyLoaded, Visibility!MayList, Visibility!MayRead,
       Visibility!authed, Visibility!friend, Visibility!magic_friend, Visibility!legacy_friend,
       Visibility!On
<1>8. Visibility!OnlyMayShow'
  BY <1>1 DEF Visibility!OnlyMayShow
<1> QED
  BY <1>1, <1>2, <1>5, <1>6, <1>7, <1>8 DEF ViewInv

LEMMA RequestStep == ASSUME ViewInv, Visibility!Request PROVE ViewInv'
<1>1. /\ asked.at = "none" /\ response = "none"
      /\ loaded = Visibility!NothingLoaded /\ masked = {} /\ ~titled
      /\ months = Visibility!NothingLoaded
      /\ UNCHANGED <<sso, articles, favored, listed, viewer, filters, loaded, masked, titled,
                     months, response>>
  BY DEF Visibility!Request, Visibility!pageVars, ViewInv
<1>2. PICK page_ \in Visibility!Pages, search \in BOOLEAN, e \in Articles,
           path \in {"bare", "titled", "other"} :
        /\ page_ = "content" => ~search
        /\ asked' = [at |-> "context", page |-> page_, search |-> search, entry |-> e,
                     path |-> path]
  BY DEF Visibility!Request
<1>3. /\ asked'.at = "context" /\ (asked'.page = "content" => ~asked'.search)
      /\ Visibility!TypeOK'
  BY <1>1, <1>2 DEF ViewInv, Visibility!TypeOK
<1>4. Visibility!OnlyMayShow'
  BY <1>1 DEF Visibility!OnlyMayShow
<1> QED
  BY <1>1, <1>3, <1>4 DEF ViewInv

LEMMA DecorateStep == ASSUME ViewInv, Visibility!decorate_entries PROVE ViewInv'
<1>1. /\ asked.at = "decorate" /\ response = "none" /\ RightFilters /\ RightlyLoaded
      /\ months = Visibility!NothingLoaded
      /\ masked' = {e \in Visibility!On(loaded) :
                      loaded[e].friends_only /\ ~Visibility!authed /\ ~Visibility!friend}
      /\ titled' = (titled /\ masked' = {})
      /\ asked' = [asked EXCEPT !.at = "validate"]
      /\ UNCHANGED <<sso, articles, favored, listed, viewer, filters, loaded, months, response>>
  BY DEF Visibility!decorate_entries, ViewInv, Visibility!Moves
<1>2. /\ asked'.at = "validate" /\ asked'.page = asked.page /\ asked'.entry = asked.entry
      /\ asked'.search = asked.search
  BY <1>1 DEF ViewInv, Visibility!TypeOK
<1>3. masked' \in SUBSET Articles
  BY <1>1 DEF Visibility!On
<1>4. titled' \in BOOLEAN
  BY <1>1
<1>5. Visibility!TypeOK'
  BY <1>1, <1>3, <1>4 DEF ViewInv, Visibility!TypeOK
<1>6. RightFilters' /\ RightlyLoaded'
  BY <1>1, <1>2 DEF RightFilters, RightlyLoaded, Visibility!authed, Visibility!MayList,
     Visibility!MayRead, Visibility!friend, Visibility!magic_friend, Visibility!legacy_friend,
     Visibility!On
<1>7. RightlyMasked'
  BY <1>1 DEF RightlyMasked, Visibility!authed, Visibility!friend, Visibility!magic_friend,
     Visibility!legacy_friend, Visibility!On
<1>8. Visibility!OnlyMayShow'
  BY <1>1 DEF Visibility!OnlyMayShow
<1> QED
  BY <1>1, <1>2, <1>5, <1>6, <1>7, <1>8 DEF ViewInv

\* An answer that was loaded and masked rightly, with no months.
LEMMA AnswersRightly ==
  ASSUME RightlyLoaded, RightlyMasked,
         \A e \in Visibility!On(months) :
           Visibility!MayList(months[e]) /\ (asked.page = "public" => months[e].public)
  PROVE  Visibility!OnlyMayShow
BY ShowsRightly DEF Visibility!OnlyMayShow

LEMMA ValidateStep == ASSUME ViewInv, Visibility!validate_exact_entry_request PROVE ViewInv'
<1>1. /\ asked.at = "validate" /\ response = "none" /\ RightFilters /\ RightlyLoaded
      /\ RightlyMasked /\ months = Visibility!NothingLoaded
      /\ UNCHANGED <<sso, articles, favored, listed, viewer, filters, loaded, masked, titled,
                     months>>
  BY DEF Visibility!validate_exact_entry_request, ViewInv
<1>2. PICK next \in {"none", "render"} :
        /\ asked' = [asked EXCEPT !.at = next]
        /\ response' \in {"none", "missing", "link"}
        /\ next = "render" => response' = "none"
        /\ next = "none" => response' # "none"
  BY <1>1 DEF Visibility!validate_exact_entry_request, Visibility!Moves
<1>3. /\ asked'.at = next /\ asked'.page = asked.page /\ asked'.entry = asked.entry
      /\ asked'.search = asked.search
  BY <1>2 DEF ViewInv, Visibility!TypeOK
<1>4. Visibility!TypeOK'
  BY <1>1, <1>2 DEF ViewInv, Visibility!TypeOK
<1>5. RightFilters' /\ RightlyLoaded'
  BY <1>1, <1>3 DEF RightFilters, RightlyLoaded, Visibility!authed, Visibility!MayList,
     Visibility!MayRead, Visibility!friend, Visibility!magic_friend, Visibility!legacy_friend,
     Visibility!On
<1>6. RightlyMasked'
  BY <1>1 DEF RightlyMasked, Visibility!authed, Visibility!friend, Visibility!magic_friend,
     Visibility!legacy_friend, Visibility!On
<1>7. Visibility!OnlyMayShow'
  <2>1. Visibility!On(months)' = {}
    BY <1>1 DEF Visibility!On, Visibility!NothingLoaded
  <2>2. \A e \in Visibility!On(loaded) : /\ Visibility!MayList(loaded[e])'
          = Visibility!MayList(loaded[e])
        /\ Visibility!MayRead(loaded[e])' = Visibility!MayRead(loaded[e])
        /\ Visibility!entry_link(e)' = Visibility!entry_link(e)
    BY <1>1 DEF Visibility!MayList, Visibility!MayRead, Visibility!authed, Visibility!friend,
       Visibility!magic_friend, Visibility!legacy_friend, Visibility!entry_link
  <2> QED
    BY <1>1, <1>3, <2>1, <2>2, ShowsRightly DEF Visibility!OnlyMayShow, Visibility!On
<1> QED
  BY <1>1, <1>2, <1>3, <1>4, <1>5, <1>6, <1>7 DEF ViewInv

LEMMA RenderStep == ASSUME ViewInv, Visibility!Render PROVE ViewInv'
<1> DEFINE f == Visibility!ForMonths
<1>1. /\ asked.at = "render" /\ response = "none" /\ RightFilters /\ RightlyLoaded
      /\ RightlyMasked
      /\ months' = Visibility!Found(f) /\ response' = "page"
      /\ asked' = [asked EXCEPT !.at = "none"]
      /\ UNCHANGED <<sso, articles, favored, listed, viewer, filters, loaded, masked, titled>>
  BY DEF Visibility!Render, ViewInv, Visibility!Moves
<1>2. /\ asked'.at = "none" /\ asked'.page = asked.page /\ asked'.entry = asked.entry
      /\ asked'.search = asked.search
  BY <1>1 DEF ViewInv, Visibility!TypeOK
<1>3. f.final = filters.final /\ f.public = filters.public
  BY DEF Visibility!ForMonths, ViewInv, Visibility!TypeOK, Visibility!Filters
<1> HIDE DEF f
<1>4. /\ months' \in [Articles -> Visibility!Article \cup {None}]
      /\ \A e \in Visibility!On(months') :
           /\ months'[e] = articles[e] /\ articles[e] \in Visibility!Article
           /\ Visibility!Passes(f, e)
  BY <1>1, FoundIs DEF ViewInv
<1>5. Visibility!TypeOK'
  BY <1>1, <1>4 DEF ViewInv, Visibility!TypeOK
<1>6. \A e \in Visibility!On(months') :
        Visibility!MayList(months'[e]) /\ (asked.page = "public" => months'[e].public)
  BY <1>1, <1>3, <1>4 DEF Visibility!Passes, Visibility!MayList, RightFilters
<1>7. Visibility!OnlyMayShow'
  <2>1. \A e \in Visibility!On(loaded) : /\ Visibility!MayList(loaded[e])'
          = Visibility!MayList(loaded[e])
        /\ Visibility!MayRead(loaded[e])' = Visibility!MayRead(loaded[e])
        /\ Visibility!entry_link(e)' = Visibility!entry_link(e)
    BY <1>1 DEF Visibility!MayList, Visibility!MayRead, Visibility!authed, Visibility!friend,
       Visibility!magic_friend, Visibility!legacy_friend, Visibility!entry_link
  <2>2. \A e \in Visibility!On(months)' :
          Visibility!MayList(months[e])' /\ (asked'.page = "public" => months'[e].public)
    BY <1>1, <1>2, <1>6 DEF Visibility!MayList, Visibility!authed, Visibility!On
  <2> QED
    BY <1>1, <1>2, <2>1, <2>2, ShowsRightly DEF Visibility!OnlyMayShow, Visibility!On
<1> QED
  BY <1>1, <1>2, <1>5, <1>7 DEF ViewInv

LEMMA GetContentStep == ASSUME ViewInv, Visibility!_cmd_getcontent PROVE ViewInv'
<1> DEFINE f == [Visibility!NoFilters EXCEPT !.home = FALSE, !.public = ~Visibility!authed,
                   !.final = ~Visibility!authed, !.ids = {asked.entry}]
           found == [e \in Articles |->
                       IF Visibility!Passes(f, e) \/ (Visibility!authed /\ e = asked.entry)
                       THEN articles[e] ELSE None]
<1>1. /\ asked.at = "context" /\ asked.page = "content" /\ response = "none" /\ ~titled
      /\ ~asked.search /\ months = Visibility!NothingLoaded
      /\ loaded' = found /\ response' = "content"
      /\ masked' = {e \in Visibility!On(loaded') :
                      loaded'[e].friends_only /\ ~Visibility!authed /\ ~Visibility!friend}
      /\ asked' = [asked EXCEPT !.at = "none"]
      /\ UNCHANGED <<sso, articles, favored, listed, viewer, filters, titled, months>>
  BY DEF Visibility!_cmd_getcontent, ViewInv, Visibility!Moves
<1>2. /\ asked'.at = "none" /\ asked'.page = asked.page /\ asked'.entry = asked.entry
      /\ asked'.search = asked.search
  BY <1>1 DEF ViewInv, Visibility!TypeOK
<1>3. f.public = ~Visibility!authed /\ f.final = ~Visibility!authed
  BY DEF Visibility!NoFilters
<1> HIDE DEF f
<1>4. /\ loaded' \in [Articles -> Visibility!Article \cup {None}]
      /\ \A e \in Visibility!On(loaded') :
           /\ loaded'[e] = articles[e] /\ articles[e] \in Visibility!Article
           /\ Visibility!Passes(f, e) \/ Visibility!authed
  BY <1>1 DEF ViewInv, Visibility!TypeOK, Visibility!On
<1>5. masked' \in SUBSET Articles
  BY <1>1 DEF Visibility!On
<1>6. Visibility!TypeOK'
  BY <1>1, <1>4, <1>5 DEF ViewInv, Visibility!TypeOK
<1>7. \A e \in Visibility!On(loaded') : Visibility!MayList(loaded'[e])
  BY <1>3, <1>4 DEF Visibility!Passes, Visibility!MayList
<1>8. UNCHANGED <<viewer, sso>>
  BY <1>1
<1>9. RightlyLoaded'
  BY <1>1, <1>2, <1>7, <1>8 DEF RightlyLoaded, Visibility!MayList, Visibility!authed,
     Visibility!On
<1>10. RightlyMasked'
  BY <1>1, <1>8 DEF RightlyMasked, Visibility!authed, Visibility!friend,
     Visibility!magic_friend, Visibility!legacy_friend, Visibility!On
<1>11. \A e \in Visibility!On(loaded)' :
          /\ Visibility!MayList(loaded[e])'
          /\ (e \notin masked <=> Visibility!MayRead(loaded[e]))'
          /\ (Visibility!entry_link(e) = "titled" => Visibility!MayRead(loaded[e]))'
  BY <1>1, <1>7, <1>8 DEF Visibility!MayList, Visibility!MayRead, Visibility!entry_link,
     Visibility!authed, Visibility!friend, Visibility!magic_friend, Visibility!legacy_friend,
     Visibility!On
<1>12. Visibility!On(months)' = {}
  BY <1>1 DEF Visibility!On, Visibility!NothingLoaded
<1>13. Visibility!OnlyMayShow'
  BY <1>1, <1>2, <1>11, <1>12 DEF Visibility!OnlyMayShow
<1> QED
  BY <1>1, <1>2, <1>6, <1>13 DEF ViewInv

LEMMA ChangeStep ==
  ASSUME ViewInv, NEW e \in Changing, Visibility!Change(e)
  PROVE  ViewInv'
<1>1. /\ response = "none"
      /\ UNCHANGED <<sso, favored, listed, viewer, asked, filters, loaded, masked, titled,
                     months, response>>
  BY DEF Visibility!Change, Visibility!pageVars
<1>2. PICK field \in {"active", "draft", "friends_only", "public", "home"} :
        articles' = [articles EXCEPT ![e][field] = ~@]
  BY DEF Visibility!Change
<1>3. articles' \in [Articles -> Visibility!Article]
  <2>1. /\ articles \in [Articles -> Visibility!Article]
        /\ \A a \in Articles : articles[a] \in Visibility!Article
    BY DEF ViewInv, Visibility!TypeOK
  <2>2. ASSUME NEW a \in Articles
        PROVE  /\ [articles[a] EXCEPT !["active"] = ~@] \in Visibility!Article
               /\ [articles[a] EXCEPT !["draft"] = ~@] \in Visibility!Article
               /\ [articles[a] EXCEPT !["friends_only"] = ~@] \in Visibility!Article
               /\ [articles[a] EXCEPT !["public"] = ~@] \in Visibility!Article
               /\ [articles[a] EXCEPT !["home"] = ~@] \in Visibility!Article
    BY <2>1 DEF Visibility!Article
  <2>3. ASSUME e \in Articles PROVE [articles[e] EXCEPT ![field] = ~@] \in Visibility!Article
    BY <2>2, <2>3
  <2> QED
    BY <1>2, <2>1, <2>3
<1>4. Visibility!TypeOK'
  BY <1>1, <1>3 DEF ViewInv, Visibility!TypeOK
<1>5. Visibility!OnlyMayShow'
  BY <1>1 DEF Visibility!OnlyMayShow
<1>6. (RightFilters => RightFilters') /\ (RightlyLoaded => RightlyLoaded')
      /\ (RightlyMasked => RightlyMasked')
  BY <1>1 DEF RightFilters, RightlyLoaded, RightlyMasked, Visibility!authed,
     Visibility!MayList, Visibility!MayRead, Visibility!friend, Visibility!magic_friend,
     Visibility!legacy_friend, Visibility!On
<1> QED
  BY <1>1, <1>4, <1>5, <1>6 DEF ViewInv

LEMMA ViewNextInv ==
  ASSUME ViewInv, [Visibility!Next]_(Visibility!vars)
  PROVE  ViewInv'
<1>1. CASE UNCHANGED Visibility!vars
  <2>1. UNCHANGED <<sso, articles, favored, listed, viewer, asked, filters, loaded, masked,
                    titled, months, response>>
    BY <1>1 DEF Visibility!vars, Visibility!pageVars
  <2>2. Visibility!TypeOK'
    BY <2>1 DEF ViewInv, Visibility!TypeOK
  <2>3. (RightFilters => RightFilters') /\ (RightlyLoaded => RightlyLoaded')
        /\ (RightlyMasked => RightlyMasked')
    BY <2>1 DEF RightFilters, RightlyLoaded, RightlyMasked, Visibility!authed,
       Visibility!MayList, Visibility!MayRead, Visibility!friend, Visibility!magic_friend,
       Visibility!legacy_friend, Visibility!On
  <2>4. Visibility!OnlyMayShow'
    BY <2>1 DEF ViewInv, Visibility!OnlyMayShow, Visibility!authed, Visibility!MayList,
       Visibility!MayRead, Visibility!friend, Visibility!magic_friend,
       Visibility!legacy_friend, Visibility!On, Visibility!entry_link
  <2> QED
    BY <2>1, <2>2, <2>3, <2>4 DEF ViewInv
<1>2. CASE Visibility!Next
  BY <1>2, RequestStep, ApplyFiltersStep, QueryStep, DecorateStep, ValidateStep, RenderStep,
     GetContentStep, ChangeStep DEF Visibility!Next
<1> QED
  BY <1>1, <1>2
-----------------------------------------------------------------------------
(* The timelines with reposts (apis/mastodon.py, apis/atproto.py).         *)

\* A post without an entry has none of any date.
TimelineBounded ==
  /\ MaxDate \in Nat /\ FullPage \in Nat /\ ShortPage \in Nat /\ Offsets \subseteq Int
  /\ None \notin Timeline!Row

\* All that is listed or fetched was published, and what a run did is forgotten
\* as it ends.
TimelineInv ==
  /\ Timeline!TypeOK
  /\ timeline \in Seq(published) /\ run.left \in Seq(published)
  /\ run.at # "import" \/ run.forced => handled = {}
  /\ run.at # "import" => written = {}
  /\ Timeline!TimelineIsKept

LEMMA TimelineInitInv == ASSUME TimelineBounded, Timeline!Init PROVE TimelineInv
<1>1. /\ Timeline!Unasked \in [Named -> Timeline!Seen]
      /\ <<>> \in Seq(Timeline!Appearance) /\ <<>> \in Seq(published)
  BY EmptySeq DEF Timeline!Unasked, Timeline!Seen
<1>2. /\ Timeline!Idle \in [at : {"idle", "ask", "save", "feed", "import"}, skips : BOOLEAN,
                            checked : BOOLEAN, forced : BOOLEAN,
                            left : Seq(Timeline!Appearance), cache : [Named -> Timeline!Seen]]
      /\ Timeline!Idle.at = "idle" /\ Timeline!Idle.left = <<>>
  BY <1>1 DEF Timeline!Idle
<1>3. names \in [TimelinePosts -> [reply : Named \cup {None}, quote : Named \cup {None}]]
  BY DEF Timeline!Init
<1>4. imported \in [TimelinePosts -> Timeline!Row \cup {None}]
  BY DEF Timeline!Init
<1>5. Timeline!TypeOK
  BY <1>1, <1>2, <1>3, <1>4 DEF Timeline!Init, Timeline!TypeOK
<1> QED
  BY <1>1, <1>2, <1>5 DEF Timeline!Init, TimelineInv, Timeline!TimelineIsKept,
     Timeline!EntriesAreAppearances, Timeline!NewestStays, Timeline!NamedAlike

\* A page holds what the timeline lists.
LEMMA PageIsListed ==
  ASSUME NEW n \in Nat, timeline \in Seq(published)
  PROVE  Timeline!Page(n) \in Seq(published)
<1> DEFINE last == IF Len(timeline) < n THEN Len(timeline) ELSE n
<1>1. Len(timeline) \in Nat
  BY LenProperties
<1>2. last \in Int /\ \A i \in 1..last : timeline[i] \in published
  BY <1>1, ElementOfSeq
<1>3. SubSeq(timeline, 1, last) \in Seq(published)
  BY <1>2, SubSeqProperties
<1> QED
  BY <1>3 DEF Timeline!Page

\* Only a date ahead of UTC is compared as a later one.
LEMMA ComparedAsNoLater ==
  ASSUME TimelineBounded, NEW a \in Timeline!Appearance
  PROVE  Timeline!mtime(a) \in Int /\ (a.offset <= 0 => Timeline!mtime(a) <= a.date)
<1>1. a.date \in Int /\ a.offset \in Int
  <2>1. a.date \in 1..MaxDate /\ a.offset \in Offsets
    BY DEF Timeline!Appearance, Timeline!Dates
  <2>2. MaxDate \in Nat /\ \A o \in Offsets : o \in Int
    BY DEF TimelineBounded
  <2> QED
    BY <2>1, <2>2
<1>2. PICK local \in Int : local = a.date + a.offset /\ (a.offset <= 0 => local <= a.date)
  BY <1>1
<1>3. \A n \in Int : n % 2 \in 0..1
  OBVIOUS
<1>4. local % 2 \in 0..1
  BY <1>3
<1>5. Timeline!mtime(a) = local - (local % 2)
  BY <1>2 DEF Timeline!mtime
<1> QED
  BY <1>1, <1>2, <1>4, <1>5

\* Whether all appearances of a post, of those in a set, are dated in UTC or behind.
NoneAhead(p, some) == \A b \in some : b.post = p => b.offset <= 0

LEMMA PostingStep ==
  ASSUME TimelineInv, NEW a \in Timeline!Appearance, Timeline!Publish(a)
  PROVE  TimelineInv'
<1>1. /\ timeline' = <<a>> \o timeline /\ published' = published \cup {a}
      /\ UNCHANGED <<provider, home, account, names, skips, checked, imported, run, outcome,
                     handled, written>>
  BY DEF Timeline!Publish, Timeline!serviceVars, Timeline!rowVars, Timeline!history
<1>2. /\ timeline \in Seq(published') /\ run.left \in Seq(published')
      /\ <<a>> \in Seq(published')
  BY <1>1, SeqMonotonic DEF TimelineInv
<1>3. timeline' \in Seq(published')
  BY <1>1, <1>2, ConcatProperties
<1>4. published' \subseteq Timeline!Appearance
  BY <1>1 DEF TimelineInv, Timeline!TypeOK
<1>5. timeline' \in Seq(Timeline!Appearance)
  BY <1>3, <1>4, SeqMonotonic
<1>6. Timeline!TypeOK'
  BY <1>1, <1>4, <1>5 DEF TimelineInv, Timeline!TypeOK
<1>7. Timeline!TimelineIsKept'
  <2>1. Timeline!EntriesAreAppearances' /\ Timeline!NamedAlike'
    BY <1>1 DEF TimelineInv, Timeline!TimelineIsKept, Timeline!EntriesAreAppearances,
       Timeline!NamedAlike, Timeline!MentionedBy
  <2>2. Timeline!NewestStays'
    BY <1>1 DEF TimelineInv, Timeline!TimelineIsKept, Timeline!NewestStays
  <2> QED
    BY <2>1, <2>2 DEF Timeline!TimelineIsKept
<1> QED
  BY <1>1, <1>2, <1>3, <1>6, <1>7 DEF TimelineInv

\* The run ends: the entries stay, what it did is forgotten.
LEMMA EndsStep ==
  ASSUME TimelineInv, NEW e \in Timeline!Errors \cup {"none"}, Timeline!Ends(e)
  PROVE  TimelineInv'
<1>1. /\ run' = Timeline!Idle /\ outcome' = e /\ handled' = {} /\ written' = {}
      /\ UNCHANGED <<provider, home, account, names, timeline, published, skips, checked,
                     imported>>
  BY DEF Timeline!Ends, Timeline!serviceVars, Timeline!remoteVars, Timeline!rowVars
<1>2. /\ Timeline!Idle \in [at : {"idle", "ask", "save", "feed", "import"}, skips : BOOLEAN,
                            checked : BOOLEAN, forced : BOOLEAN,
                            left : Seq(Timeline!Appearance), cache : [Named -> Timeline!Seen]]
      /\ Timeline!Idle.at = "idle" /\ Timeline!Idle.left \in Seq(published)
  BY EmptySeq DEF Timeline!Idle, Timeline!Unasked, Timeline!Seen
<1>3. Timeline!TypeOK'
  BY <1>1, <1>2 DEF TimelineInv, Timeline!TypeOK
<1>4. Timeline!TimelineIsKept'
  BY <1>1, <1>2 DEF TimelineInv, Timeline!TimelineIsKept, Timeline!EntriesAreAppearances,
     Timeline!NewestStays, Timeline!NamedAlike
<1> QED
  BY <1>1, <1>2, <1>3, <1>4 DEF TimelineInv

\* A run goes on to its import, or nears it: nothing is written yet.
LEMMA NearsImport ==
  ASSUME TimelineInv, run.at # "import", run'.left \in Seq(published),
         run' \in [at : {"idle", "ask", "save", "feed", "import"}, skips : BOOLEAN,
                   checked : BOOLEAN, forced : BOOLEAN, left : Seq(Timeline!Appearance),
                   cache : [Named -> Timeline!Seen]],
         skips' \in BOOLEAN, checked' \in BOOLEAN, outcome' \in Timeline!Errors \cup {"none"},
         UNCHANGED <<provider, home, account, names, timeline, published, imported, handled,
                     written>>
  PROVE  TimelineInv'
<1>1. handled = {} /\ written = {}
  BY DEF TimelineInv
<1>2. Timeline!TypeOK'
  BY DEF TimelineInv, Timeline!TypeOK
<1>3. Timeline!TimelineIsKept'
  BY <1>1 DEF TimelineInv, Timeline!TimelineIsKept, Timeline!EntriesAreAppearances,
     Timeline!NewestStays, Timeline!NamedAlike
<1> QED
  BY <1>1, <1>2, <1>3 DEF TimelineInv

LEMMA BeginStep ==
  ASSUME TimelineInv, NEW forced \in BOOLEAN, Timeline!Begin(forced)
  PROVE  TimelineInv'
<1>1. /\ run.at = "idle" /\ outcome' = "none"
      /\ run' = [Timeline!Idle EXCEPT !.at = "ask", !.skips = skips, !.checked = checked,
                                      !.forced = forced]
      /\ UNCHANGED <<provider, home, account, names, timeline, published, skips, checked,
                     imported, handled, written>>
  BY DEF Timeline!Begin, Timeline!serviceVars, Timeline!remoteVars, Timeline!rowVars,
     Timeline!history
<1>2. <<>> \in Seq(Timeline!Appearance) /\ <<>> \in Seq(published)
  BY EmptySeq
<1>3. skips \in BOOLEAN /\ checked \in BOOLEAN
  BY DEF TimelineInv, Timeline!TypeOK
<1>4. run' = [at |-> "ask", skips |-> skips, checked |-> checked, forced |-> forced,
              left |-> <<>>, cache |-> Timeline!Unasked]
  BY <1>1 DEF Timeline!Idle
<1>5. Timeline!Unasked \in [Named -> Timeline!Seen]
  BY DEF Timeline!Unasked, Timeline!Seen
<1>6. run'.left \in Seq(published) /\ outcome' \in Timeline!Errors \cup {"none"}
  <2>1. run'.left = <<>>
    BY <1>4
  <2>2. outcome' \in Timeline!Errors \cup {"none"}
    BY <1>1
  <2> QED
    BY <1>2, <2>1, <2>2, Zenon
<1>7. run' \in [at : {"idle", "ask", "save", "feed", "import"}, skips : BOOLEAN,
                checked : BOOLEAN, forced : BOOLEAN, left : Seq(Timeline!Appearance),
                cache : [Named -> Timeline!Seen]]
  BY <1>2, <1>3, <1>4, <1>5
<1>8. skips' \in BOOLEAN /\ checked' \in BOOLEAN /\ run.at # "import"
  BY <1>1, <1>3
<1> QED
  BY <1>1, <1>6, <1>7, <1>8, NearsImport

\* Of a run, all but its place and its page stay.
LEMMA AskStep ==
  ASSUME TimelineBounded, TimelineInv,
         Timeline!Fetch \/ Timeline!LogIn \/ Timeline!SaveCheck \/ Timeline!GetFeed
  PROVE  TimelineInv'
<1>1. CASE \E e \in Timeline!Errors : Timeline!Ends(e)
  BY <1>1, EndsStep
<1>2. \A e \in Timeline!ClientErrors \cup {"terminal"} : e \in Timeline!Errors
  BY DEF Timeline!ClientErrors, Timeline!_to_fetch_error, Timeline!classify_status_code,
     Timeline!Errors, Timeline!Exceptions
<1>3. CASE ~\E e \in Timeline!Errors : Timeline!Ends(e)
  <2>1. /\ run.at # "import"
        /\ UNCHANGED <<provider, home, account, names, timeline, published, imported, outcome,
                       handled, written>>
        /\ skips' \in BOOLEAN /\ checked' \in BOOLEAN
    BY <1>2, <1>3 DEF Timeline!Fetch, Timeline!LogIn, Timeline!SaveCheck, Timeline!GetFeed,
       Timeline!serviceVars, Timeline!remoteVars, Timeline!rowVars, Timeline!history,
       TimelineInv, Timeline!TypeOK
  <2>2. Timeline!get_urls \in Nat /\ FullPage \in Nat
    BY DEF Timeline!get_urls, TimelineBounded
  <2>3. PICK next \in {"save", "feed", "import"} :
          \/ run' = [run EXCEPT !.at = next]
          \/ \E n \in Nat : run' = [run EXCEPT !.at = next, !.left = Timeline!Page(n)]
    BY <1>2, <1>3, <2>2 DEF Timeline!Fetch, Timeline!LogIn, Timeline!SaveCheck, Timeline!GetFeed
  <2>4. PICK left \in Seq(published) :
          \/ run' = [run EXCEPT !.at = next]
          \/ run' = [run EXCEPT !.at = next, !.left = left]
    BY <2>3, PageIsListed DEF TimelineInv
  <2>5. left \in Seq(Timeline!Appearance)
    BY SeqMonotonic DEF TimelineInv, Timeline!TypeOK
  <2>6. run'.left \in Seq(published)
    BY <2>4 DEF TimelineInv, Timeline!TypeOK
  <2>7. run' \in [at : {"idle", "ask", "save", "feed", "import"}, skips : BOOLEAN,
                  checked : BOOLEAN, forced : BOOLEAN, left : Seq(Timeline!Appearance),
                  cache : [Named -> Timeline!Seen]]
    BY <2>4, <2>5 DEF TimelineInv, Timeline!TypeOK
  <2> QED
    BY <2>1, <2>6, <2>7, NearsImport DEF TimelineInv, Timeline!TypeOK
<1> QED
  BY <1>1, <1>3

\* The appearance a run is at was published, and the rest of its page too.
LEMMA FirstIsPublished ==
  ASSUME TimelineInv, run.left # <<>>
  PROVE  /\ Timeline!First \in published /\ Timeline!First \in Timeline!Appearance
         /\ Tail(run.left) \in Seq(published) /\ Tail(run.left) \in Seq(Timeline!Appearance)
<1>1. Timeline!First \in published /\ Tail(run.left) \in Seq(published)
  BY HeadTailProperties DEF TimelineInv, Timeline!First
<1>2. published \subseteq Timeline!Appearance
  BY DEF TimelineInv, Timeline!TypeOK
<1> QED
  BY <1>1, <1>2, SeqMonotonic

\* An appearance that is left out: the entries stay, and what is dealt with has a
\* newer one.
LEMMA SkipStep ==
  ASSUME TimelineBounded, TimelineInv, run.at = "import", run.left # <<>>,
         Timeline!SkipRepost \/ Timeline!SkipKnown,
         UNCHANGED <<provider, home, account, names, timeline, published, skips, checked,
                     outcome>>
  PROVE  TimelineInv'
<1>1. /\ run' = [run EXCEPT !.left = Tail(@), !.cache = run.cache]
      /\ imported' = imported /\ written' = written
      /\ \/ handled' = handled
         \/ /\ Timeline!Stale /\ ~run.forced
            /\ handled' = handled \cup {Timeline!First}
  BY DEF Timeline!SkipRepost, Timeline!SkipKnown, Timeline!Handles, Timeline!Passes,
     Timeline!history, Timeline!Stale
<1>2. /\ run'.at = run.at /\ run'.forced = run.forced /\ run'.cache = run.cache
      /\ run'.left \in Seq(published')
      /\ run' \in [at : {"idle", "ask", "save", "feed", "import"}, skips : BOOLEAN,
                   checked : BOOLEAN, forced : BOOLEAN, left : Seq(Timeline!Appearance),
                   cache : [Named -> Timeline!Seen]]
  BY <1>1, FirstIsPublished DEF TimelineInv, Timeline!TypeOK
<1>3. handled' \subseteq Timeline!Appearance
  BY <1>1, FirstIsPublished DEF TimelineInv, Timeline!TypeOK
<1>4. Timeline!TypeOK'
  BY <1>1, <1>2, <1>3 DEF TimelineInv, Timeline!TypeOK
<1>5. Timeline!NewestStays'
  BY <1>1 DEF TimelineInv, Timeline!TimelineIsKept, Timeline!NewestStays, Timeline!Stale
<1>6. Timeline!EntriesAreAppearances' /\ Timeline!NamedAlike'
  BY <1>1, <1>2 DEF TimelineInv, Timeline!TimelineIsKept, Timeline!EntriesAreAppearances,
     Timeline!NamedAlike, Timeline!MentionedBy
<1> QED
  BY <1>1, <1>2, <1>4, <1>5, <1>6 DEF TimelineInv, Timeline!TimelineIsKept

\* An appearance whose entry is built, and stored or counted as failed.
LEMMA StoreStep ==
  ASSUME TimelineBounded, TimelineInv, run.at = "import", run.left # <<>>, Timeline!Store,
         UNCHANGED <<provider, home, account, names, timeline, published, skips, checked,
                     outcome>>
  PROVE  TimelineInv'
<1> DEFINE first == Timeline!First
<1>1. PICK cache \in Timeline!Caches :
        /\ run' = [run EXCEPT !.left = Tail(@), !.cache = cache]
        /\ \/ /\ imported' = [imported EXCEPT ![first.post] = Timeline!Normalized(first, cache, @)]
              /\ handled' = IF run.forced THEN handled ELSE handled \cup {first}
              /\ written' = written \cup {first.post}
           \/ imported' = imported /\ handled' = handled /\ written' = written
  BY DEF Timeline!Store, Timeline!Passes, Timeline!Handles, Timeline!history
<1>2. /\ first \in published /\ first \in Timeline!Appearance
      /\ Tail(run.left) \in Seq(published) /\ Tail(run.left) \in Seq(Timeline!Appearance)
  BY FirstIsPublished
<1>3. /\ ~Timeline!Stale
      /\ cache \in [Named -> Timeline!Seen]
      /\ \A n \in Named : IF Timeline!Asks(n) THEN cache[n] # "unasked"
                                              ELSE cache[n] = run.cache[n]
  BY DEF Timeline!Store, Timeline!Caches
<1> HIDE DEF first
<1>4. /\ run'.at = run.at /\ run'.forced = run.forced /\ run'.cache = cache
      /\ run'.left \in Seq(published')
      /\ run' \in [at : {"idle", "ask", "save", "feed", "import"}, skips : BOOLEAN,
                   checked : BOOLEAN, forced : BOOLEAN, left : Seq(Timeline!Appearance),
                   cache : [Named -> Timeline!Seen]]
  BY <1>1, <1>2, <1>3 DEF TimelineInv, Timeline!TypeOK
<1>5. CASE imported' = imported /\ handled' = handled /\ written' = written
  <2>1. Timeline!TypeOK'
    BY <1>4, <1>5 DEF TimelineInv, Timeline!TypeOK
  <2>2. Timeline!EntriesAreAppearances' /\ Timeline!NewestStays'
    BY <1>5 DEF TimelineInv, Timeline!TimelineIsKept, Timeline!EntriesAreAppearances,
       Timeline!NewestStays
  <2>3. \A n \in Named : run.cache[n] # "unasked" => cache[n] = run.cache[n]
    BY <1>3 DEF Timeline!Asks, Timeline!Remembered
  <2>4. ASSUME NEW p \in written, NEW n \in Timeline!MentionedBy(p)
        PROVE  imported[p].shows[n] = cache[n] /\ cache[n] # "unasked"
    <3>1. p \in TimelinePosts
      BY DEF TimelineInv, Timeline!TypeOK
    <3>2. names[p] \in [reply : Named \cup {None}, quote : Named \cup {None}]
      BY <3>1 DEF TimelineInv, Timeline!TypeOK
    <3>3. n \in Named
      BY <3>2 DEF Timeline!MentionedBy
    <3>4. imported[p].shows[n] = run.cache[n] /\ run.cache[n] # "unasked"
      BY DEF TimelineInv, Timeline!TimelineIsKept, Timeline!NamedAlike
    <3> QED
      BY <2>3, <3>3, <3>4
  <2>5. Timeline!NamedAlike'
    BY <1>4, <1>5, <2>4 DEF Timeline!NamedAlike, Timeline!MentionedBy
  <2> QED
    BY <1>4, <1>5, <2>1, <2>2, <2>5 DEF TimelineInv, Timeline!TimelineIsKept
<1>6. CASE /\ imported' = [imported EXCEPT ![first.post] = Timeline!Normalized(first, cache, @)]
           /\ handled' = IF run.forced THEN handled ELSE handled \cup {first}
           /\ written' = written \cup {first.post}
  <2> DEFINE normal == Timeline!Normalized(first, cache, imported[first.post])
  <2>1. first.post \in TimelinePosts /\ first.by \in Reposters \cup {None} /\ first.date \in 1..MaxDate
    BY <1>2 DEF Timeline!Appearance, Timeline!Dates
  <2>2. /\ normal.date = first.date /\ normal.by = first.by
        /\ normal.shows = Timeline!ShownOf(first.post, cache)
    BY DEF Timeline!Normalized, Timeline!set_reblog
  <2>3. normal \in Timeline!Row
    <3>1. Timeline!ShownOf(first.post, cache) \in [Named -> Timeline!Seen]
      BY <1>3 DEF Timeline!ShownOf, Timeline!Seen
    <3>2. imported[first.post] # None => imported[first.post].protected \in BOOLEAN
      BY <2>1 DEF TimelineInv, Timeline!TypeOK, Timeline!Row
    <3>3. (imported[first.post] # None /\ imported[first.post].protected) \in BOOLEAN
      BY <3>2
    <3> QED
      BY <2>1, <3>1, <3>3 DEF Timeline!Normalized, Timeline!set_reblog, Timeline!Row,
         Timeline!Dates
  <2> HIDE DEF normal
  <2>4. imported' = [imported EXCEPT ![first.post] = normal]
    BY <1>6 DEF normal
  <2>5. /\ imported' \in [TimelinePosts -> Timeline!Row \cup {None}]
        /\ imported'[first.post] = normal
        /\ \A p \in TimelinePosts : p # first.post => imported'[p] = imported[p]
    BY <2>1, <2>3, <2>4 DEF TimelineInv, Timeline!TypeOK
  <2>6. handled' \subseteq Timeline!Appearance /\ written' \subseteq TimelinePosts
    BY <1>2, <1>6, <2>1 DEF TimelineInv, Timeline!TypeOK
  <2>7. Timeline!TypeOK'
    BY <1>4, <2>5, <2>6 DEF TimelineInv, Timeline!TypeOK
  <2>8. Timeline!EntriesAreAppearances'
    <3> QED
      BY <1>2, <2>1, <2>2, <2>5 DEF TimelineInv, Timeline!TimelineIsKept,
         Timeline!EntriesAreAppearances
  <2>9. normal # None
    BY <2>3 DEF TimelineBounded
  <2>10. Timeline!NewestStays'
    <3>1. ASSUME NEW a \in handled'
          PROVE  /\ imported'[a.post] # None
                 /\ NoneAhead(a.post, published) => Timeline!mtime(a) <= imported'[a.post].date
      <4>1. a \in Timeline!Appearance /\ a.post \in TimelinePosts
        BY <2>6 DEF Timeline!Appearance
      <4>2. CASE a = first
        <5>1. NoneAhead(a.post, published) => Timeline!mtime(a) <= a.date
          BY <1>2, <4>1, <4>2, ComparedAsNoLater DEF NoneAhead
        <5> QED
          BY <2>1, <2>2, <2>5, <2>9, <4>2, <5>1
      <4>3. CASE a # first /\ a.post # first.post
        <5>1. a \in handled
          BY <1>6, <4>3
        <5> QED
          BY <2>5, <4>1, <4>3, <5>1 DEF TimelineInv, Timeline!TimelineIsKept,
             Timeline!NewestStays, NoneAhead
      <4>4. CASE a # first /\ a.post = first.post
        <5>1. a \in handled
          BY <1>6, <4>4
        <5>2. /\ ~run.forced /\ imported[first.post] # None
              /\ NoneAhead(a.post, published) => Timeline!mtime(a) <= imported[first.post].date
          BY <4>4, <5>1 DEF TimelineInv, Timeline!TimelineIsKept, Timeline!NewestStays, NoneAhead
        <5>3. imported[first.post].date \in Int /\ normal.date \in Int
          BY <2>1, <2>3, <5>2 DEF TimelineInv, Timeline!TypeOK, Timeline!Row, Timeline!Dates
        <5>4. ~(Timeline!mtime(first) <= imported[first.post].date)
          BY <1>3, <5>2 DEF Timeline!Stale, first
        <5>5. /\ Timeline!mtime(a) \in Int /\ Timeline!mtime(first) \in Int
              /\ NoneAhead(a.post, published) => Timeline!mtime(first) <= normal.date
          BY <1>2, <2>2, <4>1, <4>4, ComparedAsNoLater DEF NoneAhead
        <5> QED
          BY <2>5, <2>9, <4>1, <4>4, <5>2, <5>3, <5>4, <5>5
      <4> QED
        BY <4>2, <4>3, <4>4
    <3> QED
      BY <1>1, <3>1 DEF Timeline!NewestStays, NoneAhead
  <2>11. ASSUME NEW p \in written', NEW n \in Timeline!MentionedBy(p)
         PROVE  imported'[p].shows[n] = cache[n] /\ cache[n] # "unasked"
    <3>1. p \in TimelinePosts
      BY <2>6
    <3>2. names[p] \in [reply : Named \cup {None}, quote : Named \cup {None}]
      BY <3>1 DEF TimelineInv, Timeline!TypeOK
    <3>3. n \in Named
      BY <3>2 DEF Timeline!MentionedBy
    <3>4. CASE p = first.post
      <4>1. cache[n] # "unasked"
        BY <1>3, <3>3, <3>4 DEF Timeline!Asks, Timeline!Remembered, first
      <4> QED
        BY <2>2, <2>5, <3>3, <3>4, <4>1 DEF Timeline!ShownOf
    <3>5. CASE p # first.post
      <4>1. imported[p].shows[n] = run.cache[n] /\ run.cache[n] # "unasked"
        BY <1>6, <3>5 DEF TimelineInv, Timeline!TimelineIsKept, Timeline!NamedAlike
      <4>2. cache[n] = run.cache[n]
        BY <1>3, <3>3, <4>1 DEF Timeline!Asks, Timeline!Remembered
      <4> QED
        BY <2>5, <3>1, <3>5, <4>1, <4>2
    <3> QED
      BY <3>4, <3>5
  <2>12. Timeline!NamedAlike'
    BY <1>4, <2>11 DEF Timeline!NamedAlike, Timeline!MentionedBy
  <2>13. run.forced => handled' = {}
    BY <1>6 DEF TimelineInv
  <2> QED
    BY <1>4, <2>7, <2>8, <2>10, <2>12, <2>13 DEF TimelineInv, Timeline!TimelineIsKept
<1> QED
  BY <1>1, <1>5, <1>6

LEMMA ProtectStep ==
  ASSUME TimelineBounded, TimelineInv, NEW p \in TimelinePosts, Timeline!Protect(p)
  PROVE  TimelineInv'
<1>1. /\ imported[p] # None
      /\ imported' = [imported EXCEPT ![p].protected = ~@]
      /\ UNCHANGED <<provider, home, account, names, timeline, published, skips, checked, run,
                     outcome, handled, written>>
  BY DEF Timeline!Protect, Timeline!serviceVars, Timeline!remoteVars, Timeline!rowVars,
     Timeline!history
<1>2. imported[p] \in Timeline!Row
  BY <1>1 DEF TimelineInv, Timeline!TypeOK
<1>3. /\ imported' \in [TimelinePosts -> Timeline!Row \cup {None}]
      /\ \A q \in TimelinePosts : imported[q] # None =>
           /\ imported'[q] # None
           /\ imported'[q].date = imported[q].date /\ imported'[q].by = imported[q].by
           /\ imported'[q].shows = imported[q].shows
      /\ \A q \in TimelinePosts : imported'[q] # None => imported[q] # None
  <2>1. [imported[p] EXCEPT !.protected = ~@] \in Timeline!Row
    BY <1>2 DEF Timeline!Row
  <2>2. [imported[p] EXCEPT !.protected = ~@] # None
    BY <2>1 DEF TimelineBounded
  <2>3. /\ [imported[p] EXCEPT !.protected = ~@].date = imported[p].date
        /\ [imported[p] EXCEPT !.protected = ~@].by = imported[p].by
        /\ [imported[p] EXCEPT !.protected = ~@].shows = imported[p].shows
    BY <1>2 DEF Timeline!Row
  <2> QED
    BY <1>1, <2>1, <2>2, <2>3 DEF TimelineInv, Timeline!TypeOK
<1>4. Timeline!TypeOK'
  BY <1>1, <1>3 DEF TimelineInv, Timeline!TypeOK
<1>5. Timeline!EntriesAreAppearances'
  BY <1>1, <1>3 DEF TimelineInv, Timeline!TimelineIsKept, Timeline!EntriesAreAppearances
<1>6. Timeline!NewestStays'
  <2>1. \A a \in handled : a.post \in TimelinePosts
    BY DEF TimelineInv, Timeline!TypeOK, Timeline!Appearance
  <2> QED
    BY <1>1, <1>3, <2>1 DEF TimelineInv, Timeline!TimelineIsKept, Timeline!NewestStays
<1>7. Timeline!NamedAlike'
  <2>1. \A q \in written : q \in TimelinePosts
    BY DEF TimelineInv, Timeline!TypeOK
  <2>2. ASSUME NEW q \in written, NEW n \in Timeline!MentionedBy(q), run.at = "import"
        PROVE  imported'[q].shows[n] = run.cache[n] /\ run.cache[n] # "unasked"
    <3>1. imported'[q].shows = imported[q].shows
      <4>1. CASE q = p
        BY <1>1, <1>3, <4>1
      <4>2. CASE q # p
        BY <1>1, <2>1, <4>2 DEF TimelineInv, Timeline!TypeOK
      <4> QED
        BY <4>1, <4>2
    <3> QED
      BY <2>2, <3>1 DEF TimelineInv, Timeline!TimelineIsKept, Timeline!NamedAlike
  <2> QED
    BY <1>1, <2>2 DEF Timeline!NamedAlike, Timeline!MentionedBy
<1> QED
  BY <1>1, <1>4, <1>5, <1>6, <1>7 DEF TimelineInv, Timeline!TimelineIsKept

LEMMA TimelineNextInv ==
  ASSUME TimelineBounded, TimelineInv, [Timeline!Next]_(Timeline!vars)
  PROVE  TimelineInv'
<1>1. CASE Timeline!Import
  BY <1>1, SkipStep, StoreStep DEF Timeline!Import, Timeline!serviceVars, Timeline!remoteVars,
     Timeline!rowVars
<1>2. CASE Timeline!Malformed \/ Timeline!Finish
  BY <1>2, EndsStep DEF Timeline!Malformed, Timeline!Finish, Timeline!Errors
<1>3. CASE Timeline!ChooseReposts \/ UNCHANGED Timeline!vars
  <2>1. /\ UNCHANGED <<provider, home, account, names, timeline, published, checked, imported,
                       run, outcome, handled, written>>
        /\ skips' \in BOOLEAN
    BY <1>3 DEF Timeline!ChooseReposts, Timeline!vars, Timeline!serviceVars,
       Timeline!remoteVars, Timeline!rowVars, Timeline!history, TimelineInv, Timeline!TypeOK
  <2>2. Timeline!TypeOK'
    BY <2>1 DEF TimelineInv, Timeline!TypeOK
  <2>3. Timeline!TimelineIsKept'
    BY <2>1 DEF TimelineInv, Timeline!TimelineIsKept, Timeline!EntriesAreAppearances,
       Timeline!NewestStays, Timeline!NamedAlike, Timeline!MentionedBy
  <2> QED
    BY <2>1, <2>2, <2>3 DEF TimelineInv
<1> QED
  BY <1>1, <1>2, <1>3, PostingStep, BeginStep, AskStep, ProtectStep DEF Timeline!Next
-----------------------------------------------------------------------------
(* The upgrades of old entries and the sweep of their thumbnails           *)
(* (upgrades/service.py, worker/maintenance.py).                           *)

\* No entry and no proposal is content, and entries start with contents.
UpgradesBounded ==
  /\ None \notin Upgrades!Content /\ Gone \notin Upgrades!Content
  /\ MaxEdits \in Nat
  /\ \A start \in Starts : \A e \in Upgradables :
       /\ start[e].api \in Upgrades!Providers \cup {"selfposts"}
       /\ start[e].public \in BOOLEAN
       /\ start[e].blocks \in Seq(Upgrades!Block)

\* The files of thumbnails are files.
LEMMA ThumbsAreFiles ==
  ASSUME NEW c \in Upgrades!Content
  PROVE  Upgrades!thumb_rels(c) \subseteq Upgrades!File
<1>1. c.blocks \in Seq(Upgrades!Block)
  BY DEF Upgrades!Content
<1>2. ASSUME NEW b \in Upgrades!Range(c.blocks), b.thumb # "remote"
      PROVE  Upgrades!FileOf(b) \in Upgrades!File
  <2>1. b \in Upgrades!Block
    BY <1>1, LenProperties, ElementOfSeq DEF Upgrades!Range
  <2> QED
    BY <1>2, <2>1 DEF Upgrades!Block, Upgrades!FileOf, Upgrades!File
<1> QED
  BY <1>2 DEF Upgrades!thumb_rels

\* The first player of a provider is one of the blocks.
LEMMA PlayerIsBlock ==
  ASSUME NEW c \in Upgrades!Content, NEW key
  PROVE  Upgrades!find_player(c, key) \in Upgrades!Block \cup {None}
<1> DEFINE of == {i \in Upgrades!find_blocks(c) : Upgrades!ProviderOf(c.blocks[i].video) = key}
<1>1. c.blocks \in Seq(Upgrades!Block)
  BY DEF Upgrades!Content
<1>2. of \subseteq 1..Len(c.blocks) /\ Len(c.blocks) \in Nat
  BY <1>1, LenProperties DEF Upgrades!find_blocks
<1>3. CASE of # {}
  <2>1. of \in SUBSET Nat
    BY <1>2
  <2>2. \E i \in of : \A j \in of : i <= j
    BY <1>3, <2>1, LeastExists
  <2>3. (CHOOSE i \in of : \A j \in of : i <= j) \in of
    BY <2>2
  <2> DEFINE i == CHOOSE i \in of : \A j \in of : i <= j
  <2>4. i \in 1..Len(c.blocks)
    BY <1>2, <2>3
  <2>5. c.blocks[i] \in Upgrades!Block
    BY <1>1, <2>4, ElementOfSeq
  <2> QED
    BY <1>3, <2>5 DEF Upgrades!find_player
<1>4. CASE of = {}
  BY <1>4 DEF Upgrades!find_player
<1> QED
  BY <1>3, <1>4

\* A content whose blocks are replaced is content.
LEMMA ReplacedBlocks ==
  ASSUME NEW c \in Upgrades!Content, NEW b,
         b \in [DOMAIN c.blocks -> Upgrades!Block]
  PROVE  /\ [c EXCEPT !.blocks = b] \in Upgrades!Content
         /\ [c EXCEPT !.blocks = b].blocks = b
<1>1. c.blocks \in Seq(Upgrades!Block)
  BY DEF Upgrades!Content
<1>2. DOMAIN c.blocks = 1..Len(c.blocks) /\ Len(c.blocks) \in Nat
  BY <1>1, LenProperties
<1>3. b \in Seq(Upgrades!Block)
  BY <1>2, SeqDef
<1> QED
  BY <1>3 DEF Upgrades!Content

\* What upgraders propose is content again.
LEMMA OfflineIsContent ==
  ASSUME NEW c \in Upgrades!Content, NEW key \in Upgrades!Keys, NEW shown \in BOOLEAN, NEW disk
  PROVE  Upgrades!propose_offline(key, c, shown, disk) \in Upgrades!Content \cup {None}
<1>1. c.blocks \in Seq(Upgrades!Block)
  BY DEF Upgrades!Content
<1>2. \A i \in DOMAIN c.blocks : c.blocks[i] \in Upgrades!Block
  BY <1>1, LenProperties, ElementOfSeq
<1>3. CASE key \in Upgrades!Providers
  <2> DEFINE player == Upgrades!find_player(c, key)
  <2>1. CASE player \in Upgrades!Block
    <3>1. Upgrades!Player(player.video, player.thumb) \in Upgrades!Block
      BY <2>1 DEF Upgrades!Block, Upgrades!Player
    <3>2. <<Upgrades!Player(player.video, player.thumb)>> \in Seq(Upgrades!Block)
      BY <3>1
    <3>3. Upgrades!build(player.video, player.thumb) \in Upgrades!Content
      BY <3>2 DEF Upgrades!build, Upgrades!Content
    <3> QED
      BY <1>3, <3>3 DEF Upgrades!propose_offline, Upgrades!ImportOffline, Upgrades!Providers
  <2>2. CASE player = None
    BY <1>3, <2>2 DEF Upgrades!propose_offline, Upgrades!ImportOffline, Upgrades!Providers
  <2> QED
    BY <2>1, <2>2, PlayerIsBlock
<1>4. CASE key = "post-videos"
  <2>1. Upgrades!propose_offline(key, c, shown, disk) = Upgrades!canonical(c, shown, disk)
    BY <1>4 DEF Upgrades!propose_offline, Upgrades!Providers
  <2>2. [c EXCEPT !.blocks = [i \in DOMAIN c.blocks |->
            IF i \in Upgrades!find_blocks(c)
            THEN Upgrades!Player(c.blocks[i].video, c.blocks[i].thumb)
            ELSE c.blocks[i]]] \in Upgrades!Content
    BY <1>2, ReplacedBlocks DEF Upgrades!Block, Upgrades!Player
  <2> QED
    BY <2>1, <2>2 DEF Upgrades!canonical, Upgrades!_rewrite
<1>5. CASE key = "music"
  <2>1. Upgrades!propose_offline(key, c, shown, disk) = Upgrades!MusicOffline(c)
    BY <1>5 DEF Upgrades!propose_offline, Upgrades!Providers
  <2>2. Upgrades!_rerender_cards(c) \in Upgrades!Content
    BY <1>2, ReplacedBlocks DEF Upgrades!_rerender_cards, Upgrades!Block
  <2> QED
    BY <2>1, <2>2 DEF Upgrades!MusicOffline
<1> QED
  BY <1>3, <1>4, <1>5 DEF Upgrades!Keys

\* Which files are on disk decides whether there is an offline upgrade, never
\* which one.
LEMMA OfflineIsOne ==
  ASSUME NEW c, NEW key, NEW shown, NEW d1, NEW d2,
         Upgrades!propose_offline(key, c, shown, d1) # None,
         Upgrades!propose_offline(key, c, shown, d2) # None, key \in Upgrades!Keys
  PROVE  Upgrades!propose_offline(key, c, shown, d1) = Upgrades!propose_offline(key, c, shown, d2)
<1>1. CASE key \in Upgrades!Providers
  BY <1>1 DEF Upgrades!propose_offline, Upgrades!ImportOffline, Upgrades!Providers
<1>2. CASE key = "post-videos"
  BY <1>2 DEF Upgrades!propose_offline, Upgrades!canonical, Upgrades!Providers
<1>3. CASE key = "music"
  BY <1>3 DEF Upgrades!propose_offline, Upgrades!Providers
<1> QED
  BY <1>1, <1>2, <1>3 DEF Upgrades!Keys

LEMMA ProposalIsContent ==
  ASSUME NEW c \in Upgrades!Content, NEW key \in Upgrades!Keys, NEW chosen \in Videos,
         NEW shown \in BOOLEAN, NEW disk
  PROVE  Upgrades!propose(key, c, chosen, shown, disk) \in Upgrades!Content \cup {None}
<1>1. c.blocks \in Seq(Upgrades!Block)
  BY DEF Upgrades!Content
<1>2. \A i \in DOMAIN c.blocks : c.blocks[i] \in Upgrades!Block
  BY <1>1, LenProperties, ElementOfSeq
<1>3. Upgrades!localize(shown) \in {"now", "remote"}
  BY DEF Upgrades!localize
<1>4. CASE key \in Upgrades!Providers
  <2>1. Upgrades!propose(key, c, chosen, shown, disk)
          = Upgrades!ImportProposal(c, key, chosen, shown, disk)
    BY <1>4 DEF Upgrades!propose, Upgrades!Providers
  <2>2. Upgrades!ImportOffline(c, key, shown, disk) \in Upgrades!Content \cup {None}
    <3>1. Upgrades!propose_offline(key, c, shown, disk) = Upgrades!ImportOffline(c, key, shown, disk)
      BY <1>4 DEF Upgrades!propose_offline, Upgrades!Providers
    <3> QED
      BY <3>1, OfflineIsContent
  <2>3. Upgrades!build(chosen, Upgrades!localize(shown)) \in Upgrades!Content
    <3>1. Upgrades!Player(chosen, Upgrades!localize(shown)) \in Upgrades!Block
      BY <1>3 DEF Upgrades!Block, Upgrades!Player
    <3>2. <<Upgrades!Player(chosen, Upgrades!localize(shown))>> \in Seq(Upgrades!Block)
      BY <3>1
    <3> QED
      BY <3>2 DEF Upgrades!build, Upgrades!Content
  <2> QED
    BY <2>1, <2>2, <2>3 DEF Upgrades!ImportProposal
<1>5. CASE key = "post-videos"
  <2>1. Upgrades!propose(key, c, chosen, shown, disk) = Upgrades!PostProposal(c, chosen, shown, disk)
    BY <1>5 DEF Upgrades!propose, Upgrades!Providers
  <2> DEFINE video(i) == IF \A j \in Upgrades!find_blocks(c) : i <= j
                         THEN chosen ELSE c.blocks[i].video
             thumb(i) == IF video(i) = c.blocks[i].video
                            /\ Upgrades!thumbnail_is_current(c.blocks[i], shown, disk)
                         THEN c.blocks[i].thumb ELSE Upgrades!localize(shown)
             blocks == [i \in DOMAIN c.blocks |->
                          IF i \in Upgrades!find_blocks(c)
                          THEN Upgrades!Player(video(i), thumb(i)) ELSE c.blocks[i]]
  <2>2. Upgrades!PostProposal(c, chosen, shown, disk) \in {None, [c EXCEPT !.blocks = blocks]}
    BY DEF Upgrades!PostProposal, Upgrades!_rewrite
  <2>3. ASSUME NEW i \in DOMAIN c.blocks PROVE Upgrades!Player(video(i), thumb(i)) \in Upgrades!Block
    <3>1. video(i) \in Videos /\ thumb(i) \in {"old", "now", "remote"}
      BY <1>2, <1>3, <2>3 DEF Upgrades!Block
    <3> HIDE DEF video, thumb
    <3> QED
      BY <3>1 DEF Upgrades!Player, Upgrades!Block
  <2>4. blocks \in [DOMAIN c.blocks -> Upgrades!Block]
    BY <1>2, <2>3
  <2> HIDE DEF blocks
  <2>5. [c EXCEPT !.blocks = blocks] \in Upgrades!Content
    BY <2>4, ReplacedBlocks
  <2> QED
    BY <2>1, <2>2, <2>5
<1>6. CASE key = "music"
  <2>1. Upgrades!propose(key, c, chosen, shown, disk) = Upgrades!MusicProposal(c, chosen)
    BY <1>6 DEF Upgrades!propose, Upgrades!Providers
  <2>2. ASSUME NEW d \in Upgrades!Content PROVE Upgrades!_rerender_cards(d) \in Upgrades!Content
    <3>1. d.blocks \in Seq(Upgrades!Block)
      BY DEF Upgrades!Content
    <3>2. \A i \in DOMAIN d.blocks : d.blocks[i] \in Upgrades!Block
      BY <3>1, LenProperties, ElementOfSeq
    <3> QED
      BY <3>2, ReplacedBlocks DEF Upgrades!_rerender_cards, Upgrades!Block
  <2>3. CASE Upgrades!_find_song(c) = {}
    BY <2>1, <2>2, <2>3 DEF Upgrades!MusicProposal, Upgrades!MusicOffline
  <2>4. CASE Upgrades!_find_song(c) # {}
    <3> DEFINE i == CHOOSE i \in Upgrades!_find_song(c) :
                      \A j \in Upgrades!_find_song(c) : i <= j
    <3>1. Upgrades!build_track(chosen) \in Upgrades!Block
      BY DEF Upgrades!build_track, Upgrades!Card, Upgrades!Player, Upgrades!Block
    <3>2. [c.blocks EXCEPT ![i] = Upgrades!build_track(chosen)] \in [DOMAIN c.blocks -> Upgrades!Block]
      BY <1>1, <1>2, <3>1, LenProperties
    <3>3. [c EXCEPT !.blocks = [c.blocks EXCEPT ![i] = Upgrades!build_track(chosen)]]
            \in Upgrades!Content
      BY <3>2, ReplacedBlocks
    <3>4. [c EXCEPT !.blocks[i] = Upgrades!build_track(chosen)] \in Upgrades!Content
      BY <3>3
    <3> QED
      BY <2>1, <2>2, <2>4, <3>4 DEF Upgrades!MusicProposal
  <2> QED
    BY <2>3, <2>4
<1> QED
  BY <1>4, <1>5, <1>6 DEF Upgrades!Keys

\* Of a list, an upgrade is what the entry's content alone makes of it.
FromOffline(key, a) ==
  \E disk \in SUBSET Upgrades!File :
    a.becomes = Upgrades!propose_offline(key, a.base, public[a.entry], disk)

ListsAreOffline ==
  /\ \A t \in tokens : t.kind = "list" => \A a \in t.approved : FromOffline(t.key, a)
  /\ upgrading.op = "apply" => \A a \in upgrading.todo : FromOffline(upgrading.key, a)

\* A batch is reverted row by row, and rows keep their ids.
BatchHasRows == upgrading.op = "revert" => upgrading.todo \subseteq DOMAIN rows

\* What lasts and is to be deleted is held by an upgrade, which the second query
\* will find.
OrphansAreFree ==
  ~undone =>
    /\ sweep.at = "entries" => lasting \cap sweep.orphans \subseteq Upgrades!ReplacedThumbs
    /\ sweep.at = "ready" => lasting \cap sweep.orphans = {}

RepeatsAreKnown == \A e \in Upgradables : Upgrades!Repeats(e) => e \in again

UpgradeInv ==
  /\ Upgrades!TypeOK
  /\ ListsAreOffline
  /\ BatchHasRows
  /\ OrphansAreFree
  /\ RepeatsAreKnown
  /\ Upgrades!UpgradesChain

LEMMA SameLength == ASSUME NEW m \in Nat, NEW n \in Nat, 1..m = 1..n PROVE m = n
<1>1. ASSUME m < n PROVE FALSE
  <2>1. n \in 1..n
    BY <1>1
  <2> QED
    BY <1>1, <2>1
<1>2. ASSUME n < m PROVE FALSE
  <2>1. m \in 1..m
    BY <1>2
  <2> QED
    BY <1>2, <2>1
<1> QED
  BY <1>1, <1>2

\* The rows by their ids.
LEMMA RowsById ==
  ASSUME Upgrades!TypeOK
  PROVE  /\ Len(rows) \in Nat /\ DOMAIN rows = 1..Len(rows)
         /\ \A id \in DOMAIN rows : rows[id] \in Upgrades!Row
         /\ \A id \in DOMAIN rows : /\ rows[id].entry \in Upgradables /\ rows[id].key \in Upgrades!Keys
                                    /\ rows[id].old \in Upgrades!Content
                                    /\ rows[id].new \in Upgrades!Content /\ rows[id].batch \in Nat
<1>1. rows \in Seq(Upgrades!Row)
  BY DEF Upgrades!TypeOK
<1>2. Len(rows) \in Nat /\ DOMAIN rows = 1..Len(rows)
  BY <1>1, LenProperties
<1>3. \A id \in DOMAIN rows : rows[id] \in Upgrades!Row
  BY <1>1, <1>2, ElementOfSeq
<1> QED
  BY <1>2, <1>3 DEF Upgrades!Row

\* A stored entry is content.
LEMMA StoredIsContent ==
  ASSUME Upgrades!TypeOK, NEW e \in Upgrades!Stored
  PROVE  /\ e \in Upgradables /\ entry[e] \in Upgrades!Content
         /\ public[e] \in BOOLEAN
BY DEF Upgrades!Stored, Upgrades!TypeOK

LEMMA UpgradeInitInv == ASSUME UpgradesBounded, Upgrades!Init PROVE UpgradeInv
<1>1. PICK start \in Starts :
        /\ api = [e \in Upgradables |-> start[e].api]
        /\ public = [e \in Upgradables |-> start[e].public]
        /\ entry = [e \in Upgradables |-> IF start[e].blocks = <<>> THEN Gone
                                         ELSE [blocks |-> start[e].blocks, text |-> "plain"]]
  BY DEF Upgrades!Init
<1>2. /\ api \in [Upgradables -> Upgrades!Providers \cup {"selfposts"}]
      /\ public \in [Upgradables -> BOOLEAN]
  BY <1>1 DEF UpgradesBounded
<1>3. entry \in [Upgradables -> Upgrades!Content \cup {Gone}]
  BY <1>1 DEF UpgradesBounded, Upgrades!Content
<1>4. edits \in [Upgradables -> 0..MaxEdits] /\ rows \in Seq(Upgrades!Row) /\ DOMAIN rows = {}
  BY DEF Upgrades!Init, UpgradesBounded
<1>5. \A e \in Upgrades!Stored : entry[e] \in Upgrades!Content
  BY <1>3 DEF Upgrades!Stored
<1>6. /\ \A e \in Upgrades!Stored : Upgrades!thumb_rels(entry[e]) \subseteq Upgrades!File
      /\ files \subseteq Upgrades!File
  <2>1. \A e \in Upgrades!Stored : Upgrades!thumb_rels(entry[e]) \subseteq Upgrades!File
    BY <1>5, ThumbsAreFiles
  <2>2. files = UNION {Upgrades!thumb_rels(entry[e]) : e \in Upgrades!Stored}
    BY DEF Upgrades!Init
  <2> QED
    BY <2>1, <2>2
<1>7. media \subseteq Upgrades!Stored \X Upgrades!File
  <2>1. media = UNION {{e} \X Upgrades!thumb_rels(entry[e]) : e \in Upgrades!Stored}
    BY DEF Upgrades!Init
  <2> QED
    BY <1>6, <2>1
<1>8. upgrading = [op |-> "none", key |-> "music", batch |-> 0, todo |-> {}] /\ upgrading.op = "none"
  BY DEF Upgrades!Init, Upgrades!NoRequest
<1>9. upgrading \in [op : {"none", "apply"}, key : Upgrades!Keys, batch : Nat,
                     todo : SUBSET Upgrades!Approved]
  BY <1>8 DEF Upgrades!Keys
<1>10. sweep \in [at : {"idle", "listed", "entries", "ready"}, orphans : SUBSET Upgrades!File]
       /\ sweep.at = "idle"
  BY DEF Upgrades!Init, Upgrades!NoSweep
<1>11. Upgrades!TypeOK
  BY <1>2, <1>3, <1>4, <1>6, <1>7, <1>8, <1>9, <1>10 DEF Upgrades!Init, Upgrades!TypeOK
<1>12. \A e \in Upgradables : Upgrades!Standing(e) = {}
  BY <1>4 DEF Upgrades!Standing, Upgrades!Applied
<1>13. RepeatsAreKnown /\ Upgrades!UpgradesChain
  BY <1>12 DEF RepeatsAreKnown, Upgrades!Repeats, Upgrades!UpgradesChain, Upgrades!Stored
<1>14. ListsAreOffline /\ BatchHasRows /\ OrphansAreFree
  BY <1>8, <1>10 DEF Upgrades!Init, ListsAreOffline, BatchHasRows, OrphansAreFree
<1> QED
  BY <1>11, <1>13, <1>14 DEF UpgradeInv

-----------------------------------------------------------------------------
\* An upgrade that is stored, and what it makes of the rows.
Stores(e, key, proposal) ==
  /\ e \in Upgrades!Stored /\ key \in Upgrades!Keys /\ proposal \in Upgrades!Content
  /\ \E batch \in Nat : Upgrades!_store(e, key, proposal, batch)

LEMMA StoresOne ==
  ASSUME Upgrades!TypeOK, NEW e, NEW key, NEW proposal, Stores(e, key, proposal)
  PROVE  /\ rows' \in Seq(Upgrades!Row) /\ Len(rows') = Len(rows) + 1
         /\ DOMAIN rows' = 1..(Len(rows) + 1)
         /\ \A id \in DOMAIN rows : id \in DOMAIN rows' /\ rows'[id] = rows[id]
         /\ rows'[Len(rows) + 1].entry = e /\ rows'[Len(rows) + 1].key = key
         /\ rows'[Len(rows) + 1].old = entry[e] /\ rows'[Len(rows) + 1].new = proposal
         /\ rows'[Len(rows) + 1].status = "applied"
         /\ entry' = [entry EXCEPT ![e] = proposal] /\ edits' = edits
         /\ media' \subseteq media \cup ({e} \X Upgrades!thumb_rels(proposal))
<1>1. PICK batch \in Nat : Upgrades!_store(e, key, proposal, batch)
  BY DEF Stores
<1> DEFINE u == [entry |-> e, key |-> key, old |-> entry[e], new |-> proposal,
                 status |-> "applied", batch |-> batch]
<1>2. rows' = Append(rows, u) /\ entry' = [entry EXCEPT ![e] = proposal] /\ edits' = edits
      /\ media' \subseteq media \cup ({e} \X Upgrades!thumb_rels(proposal))
  BY <1>1 DEF Upgrades!_store
<1>3. u \in Upgrades!Row
  BY StoredIsContent DEF Stores, Upgrades!Row
<1>4. u.entry = e /\ u.key = key /\ u.old = entry[e] /\ u.new = proposal /\ u.status = "applied"
  OBVIOUS
<1> HIDE DEF u
<1>5. rows \in Seq(Upgrades!Row)
  BY DEF Upgrades!TypeOK
<1>6. /\ rows' \in Seq(Upgrades!Row) /\ Len(rows') = Len(rows) + 1
      /\ \A i \in 1..Len(rows) : rows'[i] = rows[i]
      /\ rows'[Len(rows) + 1] = u
  BY <1>2, <1>3, <1>5, AppendProperties
<1>7. DOMAIN rows' = 1..(Len(rows) + 1) /\ DOMAIN rows = 1..Len(rows) /\ Len(rows) \in Nat
  BY <1>5, <1>6, LenProperties
<1> QED
  BY <1>2, <1>4, <1>6, <1>7

\* An upgrade that is reverted.
Reverts(id) == id \in DOMAIN rows /\ Upgrades!Revertible(id) /\ Upgrades!PutBack(id)

LEMMA RevertsOne ==
  ASSUME Upgrades!TypeOK, NEW id, Reverts(id)
  PROVE  /\ rows' \in Seq(Upgrades!Row) /\ Len(rows') = Len(rows)
         /\ DOMAIN rows' = DOMAIN rows
         /\ \A i \in DOMAIN rows : i # id => rows'[i] = rows[i]
         /\ rows'[id].entry = rows[id].entry /\ rows'[id].old = rows[id].old
         /\ rows'[id].new = rows[id].new
         /\ rows[id].status = "applied" /\ rows'[id].status = "reverted"
         /\ entry[rows[id].entry] = rows[id].new
         /\ entry' = [entry EXCEPT ![rows[id].entry] = rows[id].old] /\ edits' = edits
         /\ media' \subseteq media
<1>1. rows' = [rows EXCEPT ![id].status = "reverted"]
      /\ rows[id].status = "applied" /\ entry[rows[id].entry] = rows[id].new
      /\ entry' = [entry EXCEPT ![rows[id].entry] = rows[id].old] /\ edits' = edits
      /\ media' \subseteq media
  BY DEF Reverts, Upgrades!Revertible, Upgrades!PutBack
<1> DEFINE u == [rows[id] EXCEPT !.status = "reverted"]
<1>2. id \in 1..Len(rows) /\ Len(rows) \in Nat /\ rows[id] \in Upgrades!Row
  BY RowsById DEF Reverts
<1>3. u \in Upgrades!Row /\ u.entry = rows[id].entry /\ u.old = rows[id].old
      /\ u.new = rows[id].new /\ u.status = "reverted"
  BY <1>2 DEF Upgrades!Row
<1>4. rows' = [rows EXCEPT ![id] = u]
  BY <1>1
<1> HIDE DEF u
<1>5. rows \in Seq(Upgrades!Row)
  BY DEF Upgrades!TypeOK
<1>6. /\ rows' \in Seq(Upgrades!Row) /\ Len(rows') = Len(rows)
      /\ \A j \in 1..Len(rows) : rows'[j] = IF j = id THEN u ELSE rows[j]
  BY <1>2, <1>3, <1>4, <1>5, ExceptSeq
<1>7. DOMAIN rows' = DOMAIN rows /\ DOMAIN rows = 1..Len(rows)
  BY <1>4, <1>5, LenProperties
<1> QED
  BY <1>1, <1>2, <1>3, <1>6, <1>7

\* An entry that is deleted, and its rows with it.
LEMMA DeletesOne ==
  ASSUME Upgrades!TypeOK, NEW e \in Upgradables, Upgrades!Delete(e)
  PROVE  /\ rows' \in Seq(Upgrades!Row) /\ Len(rows') = Len(rows)
         /\ DOMAIN rows' = DOMAIN rows
         /\ \A i \in DOMAIN rows : rows[i].entry # e => rows'[i] = rows[i]
         /\ \A i \in DOMAIN rows : rows[i].entry = e =>
              rows'[i].entry = e /\ rows'[i].status = "deleted"
         /\ \A i \in DOMAIN rows : rows'[i].old = rows[i].old
         /\ entry' = [entry EXCEPT ![e] = Gone] /\ edits' = edits
<1>1. /\ rows' = [i \in DOMAIN rows |-> IF rows[i].entry = e
                                        THEN [rows[i] EXCEPT !.status = "deleted"] ELSE rows[i]]
      /\ entry' = [entry EXCEPT ![e] = Gone] /\ edits' = edits
  BY DEF Upgrades!Delete
<1>2. /\ Len(rows) \in Nat /\ DOMAIN rows = 1..Len(rows)
      /\ \A i \in DOMAIN rows : rows[i] \in Upgrades!Row
  BY RowsById
<1>3. ASSUME NEW i \in DOMAIN rows
      PROVE  /\ [rows[i] EXCEPT !.status = "deleted"] \in Upgrades!Row
             /\ [rows[i] EXCEPT !.status = "deleted"].entry = rows[i].entry
             /\ [rows[i] EXCEPT !.status = "deleted"].status = "deleted"
             /\ [rows[i] EXCEPT !.status = "deleted"].old = rows[i].old
  BY <1>2 DEF Upgrades!Row
<1>4. rows' \in [1..Len(rows) -> Upgrades!Row] /\ DOMAIN rows' = DOMAIN rows
  BY <1>1, <1>2, <1>3
<1>5. rows' \in Seq(Upgrades!Row)
  BY <1>2, <1>4, SeqDef
<1>6. Len(rows') = Len(rows)
  <2>1. Len(rows') \in Nat /\ DOMAIN rows' = 1..Len(rows')
    BY <1>5, LenProperties
  <2>2. 1..Len(rows') = 1..Len(rows)
    BY <1>2, <1>4, <2>1
  <2> QED
    BY <1>2, <2>1, <2>2, SameLength, Zenon
<1> QED
  BY <1>1, <1>3, <1>4, <1>5, <1>6

\* What is stored was shown, in a tab or in the list that is being applied.
WasShown(e, key, proposal) ==
  \E t \in tokens \cup {[key |-> upgrading.key,
                         approved |-> IF upgrading.op = "apply" THEN upgrading.todo ELSE {}]} :
    \E a \in t.approved :
      t.key = key /\ a.entry = e /\ a.base = entry[e] /\ a.becomes = proposal

LEMMA ApplyStores ==
  ASSUME UpgradesBounded, UpgradeInv, NEW t \in tokens, Upgrades!apply(t)
  PROVE  \E e, key, proposal : Stores(e, key, proposal) /\ WasShown(e, key, proposal)
<1>1. PICK a \in t.approved : entry[a.entry] = a.base
                              /\ Upgrades!_store(a.entry, t.key, a.becomes, 0)
  BY DEF Upgrades!apply, Upgrades!Unchanged
<1>2. t.key \in Upgrades!Keys /\ a \in Upgrades!Approved
  BY DEF UpgradeInv, Upgrades!TypeOK
<1>3. a.entry \in Upgrades!Stored /\ a.becomes \in Upgrades!Content
  BY <1>1, <1>2 DEF Upgrades!Approved, Upgrades!Stored, UpgradesBounded
<1>4. Stores(a.entry, t.key, a.becomes)
  BY <1>1, <1>2, <1>3 DEF Stores
<1>5. WasShown(a.entry, t.key, a.becomes)
  BY <1>1 DEF WasShown
<1> QED
  BY <1>4, <1>5

LEMMA ApplyNextStores ==
  ASSUME UpgradesBounded, UpgradeInv, NEW a \in upgrading.todo, Upgrades!ApplyNext(a)
  PROVE  \/ UNCHANGED <<entry, edits, rows, media>>
         \/ \E e, key, proposal : Stores(e, key, proposal) /\ WasShown(e, key, proposal)
<1> DEFINE e == a.entry
           key == upgrading.key
           proposal == Upgrades!propose_offline(key, entry[e], public[e], files)
<1>1. /\ upgrading.op = "apply"
      /\ \/ UNCHANGED <<entry, edits, rows, media>>
         \/ /\ entry[e] = a.base /\ proposal # None
            /\ Upgrades!_store(e, key, proposal, upgrading.batch)
  BY DEF Upgrades!ApplyNext, Upgrades!Unchanged, Upgrades!offline, Upgrades!rowVars
<1>2. CASE /\ entry[e] = a.base /\ proposal # None
           /\ Upgrades!_store(e, key, proposal, upgrading.batch)
  <2>1. key \in Upgrades!Keys /\ a \in Upgrades!Approved /\ upgrading.batch \in Nat
    BY <1>1 DEF UpgradeInv, Upgrades!TypeOK
  <2>2. e \in Upgrades!Stored /\ a.becomes \in Upgrades!Content
    BY <1>2, <2>1 DEF Upgrades!Approved, Upgrades!Stored, UpgradesBounded
  <2>3. PICK disk \in SUBSET Upgrades!File :
          a.becomes = Upgrades!propose_offline(key, a.base, public[e], disk)
    BY <1>1 DEF UpgradeInv, ListsAreOffline, FromOffline
  <2>4. a.becomes # None
    BY <2>2 DEF UpgradesBounded
  <2>5. a.becomes = proposal
    BY <1>2, <2>1, <2>3, <2>4, OfflineIsOne
  <2>6. Stores(e, key, proposal)
    BY <1>2, <2>1, <2>2, <2>5 DEF Stores
  <2>7. WasShown(e, key, proposal)
    <3> DEFINE t == [key |-> upgrading.key,
                     approved |-> IF upgrading.op = "apply" THEN upgrading.todo ELSE {}]
    <3>1. t.key = key /\ t.approved = upgrading.todo
      BY <1>1
    <3> HIDE DEF proposal
    <3> QED
      BY <1>2, <2>5, <3>1 DEF WasShown
  <2> QED
    BY <2>6, <2>7
<1> QED
  BY <1>1, <1>2

\* The ways in which a step changes entries and their rows.
LEMMA RowEffects ==
  ASSUME UpgradesBounded, UpgradeInv, Upgrades!Pages \/ Upgrades!Sweep
  PROVE  \/ UNCHANGED <<entry, edits, rows, media>>
         \/ \E e, key, proposal : Stores(e, key, proposal) /\ WasShown(e, key, proposal)
         \/ \E id : Reverts(id)
         \/ \E e \in Upgradables : Upgrades!Edit(e) \/ Upgrades!Delete(e)
<1>1. CASE Upgrades!Sweep
  BY <1>1 DEF Upgrades!Sweep, Upgrades!rowVars
<1>2. ASSUME NEW key \in Upgrades!Keys,
             \/ \E e \in Upgradables, v \in Videos : Upgrades!Review(key, e, v)
             \/ Upgrades!ReviewList(key) \/ Upgrades!requeue_skipped(key)
             \/ \E e \in Upgradables : Upgrades!skip(key, e)
      PROVE  UNCHANGED <<entry, edits, rows, media>>
  BY <1>2 DEF Upgrades!Review, Upgrades!ReviewList, Upgrades!requeue_skipped, Upgrades!skip,
     Upgrades!rowVars
<1>3. ASSUME NEW t \in tokens, Upgrades!apply_markup_only(t)
      PROVE  UNCHANGED <<entry, edits, rows, media>>
  BY <1>3 DEF Upgrades!apply_markup_only, Upgrades!rowVars
<1>4. ASSUME NEW id \in DOMAIN rows, Upgrades!revert(id) \/ Upgrades!revert_batch(rows[id].batch)
      PROVE  \/ UNCHANGED <<entry, edits, rows, media>>
             \/ Reverts(id)
  BY <1>4 DEF Upgrades!revert, Upgrades!revert_batch, Upgrades!rowVars, Reverts
<1>5. ASSUME NEW id \in upgrading.todo, Upgrades!RevertNext(id)
      PROVE  \/ UNCHANGED <<entry, edits, rows, media>>
             \/ Reverts(id)
  BY <1>5 DEF Upgrades!RevertNext, Upgrades!rowVars, Reverts, UpgradeInv, BatchHasRows
<1>6. CASE Upgrades!EndBatch \/ Upgrades!DayPasses
  BY <1>6 DEF Upgrades!EndBatch, Upgrades!DayPasses, Upgrades!rowVars
<1> QED
  BY <1>1, <1>2, <1>3, <1>4, <1>5, <1>6, ApplyStores, ApplyNextStores DEF Upgrades!Pages, Reverts

\* One of the ways of RowEffects.
RowsMove ==
  \/ UNCHANGED <<entry, edits, rows, media>>
  \/ \E e, key, proposal : Stores(e, key, proposal) /\ WasShown(e, key, proposal)
  \/ \E id : Reverts(id)
  \/ \E e \in Upgradables : Upgrades!Edit(e) \/ Upgrades!Delete(e)

LEMMA RowTypesStep ==
  ASSUME UpgradesBounded, Upgrades!TypeOK, RowsMove
  PROVE  /\ entry' \in [Upgradables -> Upgrades!Content \cup {Gone}]
         /\ edits' \in [Upgradables -> 0..MaxEdits]
         /\ rows' \in Seq(Upgrades!Row)
         /\ media' \subseteq Upgrades!Stored' \X Upgrades!File
         /\ DOMAIN rows \subseteq DOMAIN rows'
         /\ \A id \in DOMAIN rows : rows'[id].old = rows[id].old
<1>1. CASE UNCHANGED <<entry, edits, rows, media>>
  BY <1>1 DEF Upgrades!TypeOK, Upgrades!Stored
<1>2. ASSUME NEW e, NEW key, NEW proposal, Stores(e, key, proposal)
      PROVE  /\ entry' \in [Upgradables -> Upgrades!Content \cup {Gone}]
             /\ edits' \in [Upgradables -> 0..MaxEdits]
             /\ rows' \in Seq(Upgrades!Row)
             /\ media' \subseteq Upgrades!Stored' \X Upgrades!File
             /\ DOMAIN rows \subseteq DOMAIN rows'
             /\ \A id \in DOMAIN rows : rows'[id].old = rows[id].old
  <2>1. e \in Upgradables /\ proposal \in Upgrades!Content /\ proposal # Gone
    BY <1>2 DEF Stores, Upgrades!Stored, UpgradesBounded
  <2>2. entry' = [entry EXCEPT ![e] = proposal]
        /\ media' \subseteq media \cup ({e} \X Upgrades!thumb_rels(proposal))
    BY <1>2, StoresOne
  <2>3. Upgrades!Stored' = Upgrades!Stored \cup {e}
    BY <2>1, <2>2 DEF Upgrades!Stored, Upgrades!TypeOK
  <2>4. media' \subseteq Upgrades!Stored' \X Upgrades!File
    BY <2>1, <2>2, <2>3, ThumbsAreFiles DEF Upgrades!TypeOK
  <2>5. entry' \in [Upgradables -> Upgrades!Content \cup {Gone}]
    BY <2>1, <2>2 DEF Upgrades!TypeOK
  <2> QED
    BY <1>2, <2>4, <2>5, StoresOne DEF Upgrades!TypeOK
<1>3. ASSUME NEW id, Reverts(id)
      PROVE  /\ entry' \in [Upgradables -> Upgrades!Content \cup {Gone}]
             /\ edits' \in [Upgradables -> 0..MaxEdits]
             /\ rows' \in Seq(Upgrades!Row)
             /\ media' \subseteq Upgrades!Stored' \X Upgrades!File
             /\ DOMAIN rows \subseteq DOMAIN rows'
             /\ \A i \in DOMAIN rows : rows'[i].old = rows[i].old
  <2> DEFINE e == rows[id].entry
             old == rows[id].old
  <2>1. e \in Upgradables /\ old \in Upgrades!Content /\ old # Gone
    BY <1>3, RowsById DEF Reverts, UpgradesBounded
  <2>2. entry' = [entry EXCEPT ![e] = old] /\ media' \subseteq media /\ edits' = edits
    BY <1>3, RevertsOne
  <2> HIDE DEF e, old
  <2>3. Upgrades!Stored' = Upgrades!Stored \cup {e}
    BY <2>1, <2>2 DEF Upgrades!Stored, Upgrades!TypeOK
  <2>4. media' \subseteq Upgrades!Stored' \X Upgrades!File
    BY <2>2, <2>3 DEF Upgrades!TypeOK
  <2>5. entry' \in [Upgradables -> Upgrades!Content \cup {Gone}]
    BY <2>1, <2>2 DEF Upgrades!TypeOK
  <2>6. \A i \in DOMAIN rows : rows'[i].old = rows[i].old
    BY <1>3, RevertsOne
  <2> QED
    BY <1>3, <2>2, <2>4, <2>5, <2>6, RevertsOne DEF Upgrades!TypeOK
<1>4. ASSUME NEW e \in Upgradables, Upgrades!Edit(e)
      PROVE  /\ entry' \in [Upgradables -> Upgrades!Content \cup {Gone}]
             /\ edits' \in [Upgradables -> 0..MaxEdits]
             /\ rows' \in Seq(Upgrades!Row)
             /\ media' \subseteq Upgrades!Stored' \X Upgrades!File
             /\ rows' = rows
  <2>1. PICK text \in {"plain", "edited"} : entry' = [entry EXCEPT ![e].text = text]
    BY <1>4 DEF Upgrades!Edit
  <2>2. /\ e \in Upgrades!Stored /\ edits[e] < MaxEdits /\ edits' = [edits EXCEPT ![e] = @ + 1]
        /\ UNCHANGED <<rows, media>>
    BY <1>4 DEF Upgrades!Edit
  <2>3. [entry[e] EXCEPT !.text = text] \in Upgrades!Content
    BY <2>2, StoredIsContent DEF Upgrades!Content
  <2>4. entry' = [entry EXCEPT ![e] = [entry[e] EXCEPT !.text = text]]
    BY <2>1
  <2>5. entry' \in [Upgradables -> Upgrades!Content \cup {Gone}]
    BY <2>3, <2>4 DEF Upgrades!TypeOK
  <2>6. Upgrades!Stored' = Upgrades!Stored
    BY <2>2, <2>3, <2>4 DEF Upgrades!Stored, Upgrades!TypeOK, UpgradesBounded
  <2>7. edits' \in [Upgradables -> 0..MaxEdits]
    BY <2>2 DEF Upgrades!TypeOK, UpgradesBounded
  <2> QED
    BY <2>2, <2>5, <2>6, <2>7 DEF Upgrades!TypeOK
<1>5. ASSUME NEW e \in Upgradables, Upgrades!Delete(e)
      PROVE  /\ entry' \in [Upgradables -> Upgrades!Content \cup {Gone}]
             /\ edits' \in [Upgradables -> 0..MaxEdits]
             /\ rows' \in Seq(Upgrades!Row)
             /\ media' \subseteq Upgrades!Stored' \X Upgrades!File
             /\ DOMAIN rows \subseteq DOMAIN rows'
             /\ \A id \in DOMAIN rows : rows'[id].old = rows[id].old
  <2>1. entry' = [entry EXCEPT ![e] = Gone]
    BY <1>5, DeletesOne
  <2>2. Upgrades!Stored' = Upgrades!Stored \ {e}
    BY <2>1 DEF Upgrades!Stored, Upgrades!TypeOK
  <2>3. media' = {m \in media : m[1] # e}
    BY <1>5 DEF Upgrades!Delete
  <2>4. media' \subseteq Upgrades!Stored' \X Upgrades!File
    BY <2>2, <2>3 DEF Upgrades!TypeOK
  <2>5. entry' \in [Upgradables -> Upgrades!Content \cup {Gone}]
    BY <2>1 DEF Upgrades!TypeOK
  <2> QED
    BY <1>5, <2>4, <2>5, DeletesOne DEF Upgrades!TypeOK
<1> QED
  BY <1>1, <1>2, <1>3, <1>4, <1>5 DEF RowsMove

\* The files in use are files.
LEMMA InUseAreFiles == ASSUME Upgrades!TypeOK PROVE Upgrades!InUse \subseteq Upgrades!File
<1>1. Upgrades!ShownThumbs \subseteq Upgrades!File
  BY StoredIsContent, ThumbsAreFiles DEF Upgrades!ShownThumbs
<1>2. UNION {Upgrades!thumb_rels(rows[id].old) : id \in Upgrades!Applied} \subseteq Upgrades!File
  BY RowsById, ThumbsAreFiles DEF Upgrades!Applied
<1> QED
  BY <1>1, <1>2 DEF Upgrades!InUse

\* What the pages and the sweep do to the rest.
RestTypes ==
  /\ skipped \subseteq Upgrades!Stored \X Upgrades!Keys
  /\ tokens \subseteq [kind : {"one", "list"}, key : Upgrades!Keys, approved : SUBSET Upgrades!Approved]
  /\ upgrading \in IF upgrading.op = "revert"
                   THEN [op : {"revert"}, key : Upgrades!Keys, batch : Nat, todo : SUBSET Nat]
                   ELSE [op : {"none", "apply"}, key : Upgrades!Keys, batch : Nat,
                         todo : SUBSET Upgrades!Approved]
  /\ young \subseteq files /\ files \subseteq Upgrades!File

LEMMA StoredStays ==
  ASSUME UpgradesBounded, Upgrades!TypeOK, RowsMove, ~\E e \in Upgradables : Upgrades!Delete(e)
  PROVE  Upgrades!Stored \subseteq Upgrades!Stored'
<1>1. CASE UNCHANGED <<entry, edits, rows, media>>
  BY <1>1 DEF Upgrades!Stored
<1>2. ASSUME NEW e, NEW key, NEW proposal, Stores(e, key, proposal)
      PROVE  Upgrades!Stored \subseteq Upgrades!Stored'
  <2>1. proposal # Gone /\ entry' = [entry EXCEPT ![e] = proposal]
    BY <1>2, StoresOne DEF Stores, UpgradesBounded
  <2> QED
    BY <2>1 DEF Upgrades!Stored, Upgrades!TypeOK
<1>3. ASSUME NEW id, Reverts(id)
      PROVE  Upgrades!Stored \subseteq Upgrades!Stored'
  <2>1. rows[id].old # Gone /\ entry' = [entry EXCEPT ![rows[id].entry] = rows[id].old]
    BY <1>3, RevertsOne, RowsById DEF Reverts, UpgradesBounded
  <2> QED
    BY <2>1 DEF Upgrades!Stored, Upgrades!TypeOK
<1>4. ASSUME NEW e \in Upgradables, Upgrades!Edit(e)
      PROVE  Upgrades!Stored \subseteq Upgrades!Stored'
  <2>1. PICK text \in {"plain", "edited"} : entry' = [entry EXCEPT ![e].text = text]
    BY <1>4 DEF Upgrades!Edit
  <2>2. [entry[e] EXCEPT !.text = text] \in Upgrades!Content
    BY <1>4, StoredIsContent DEF Upgrades!Content, Upgrades!Edit
  <2>3. [entry[e] EXCEPT !.text = text] # Gone
    BY <2>2 DEF UpgradesBounded
  <2> QED
    BY <2>1, <2>3 DEF Upgrades!Stored, Upgrades!TypeOK
<1> QED
  BY <1>1, <1>2, <1>3, <1>4 DEF RowsMove

\* What is kept of tabs, batches and files.
RestInv == RestTypes /\ ListsAreOffline /\ BatchHasRows

\* Rows keep their ids, so batches of rows and of entries stay what they are.
LEMMA RestStays ==
  ASSUME UpgradesBounded, UpgradeInv, RowsMove, UNCHANGED <<api, public>>,
         UNCHANGED <<tokens, upgrading>>,
         skipped' \subseteq Upgrades!Stored' \X Upgrades!Keys,
         young' \subseteq files', files' \subseteq Upgrades!File
  PROVE  RestInv'
<1>1. RestTypes'
  BY DEF UpgradeInv, Upgrades!TypeOK, RestTypes
<1>2. ListsAreOffline'
  BY DEF UpgradeInv, ListsAreOffline, FromOffline
<1>3. BatchHasRows'
  BY RowTypesStep DEF UpgradeInv, BatchHasRows
<1> QED
  BY <1>1, <1>2, <1>3 DEF RestInv

LEMMA SkippedStay ==
  ASSUME UpgradesBounded, Upgrades!TypeOK, RowsMove, ~\E e \in Upgradables : Upgrades!Delete(e)
  PROVE  skipped \subseteq Upgrades!Stored' \X Upgrades!Keys
BY StoredStays DEF Upgrades!TypeOK

\* The batch goes on or ends.
LEMMA BatchGoesOn ==
  ASSUME UpgradesBounded, UpgradeInv, RowsMove, UNCHANGED <<api, public, tokens, young, files>>,
         skipped' \subseteq Upgrades!Stored' \X Upgrades!Keys,
         \/ \E a \in upgrading.todo : upgrading' = [upgrading EXCEPT !.todo = @ \ {a}]
         \/ upgrading' = Upgrades!NoRequest
  PROVE  RestInv'
<1>1. CASE \E a \in upgrading.todo : upgrading' = [upgrading EXCEPT !.todo = @ \ {a}]
  <2>1. /\ upgrading'.op = upgrading.op /\ upgrading'.key = upgrading.key
        /\ upgrading'.todo \subseteq upgrading.todo
        /\ upgrading' \in IF upgrading.op = "revert"
                          THEN [op : {"revert"}, key : Upgrades!Keys, batch : Nat, todo : SUBSET Nat]
                          ELSE [op : {"none", "apply"}, key : Upgrades!Keys, batch : Nat,
                                todo : SUBSET Upgrades!Approved]
    BY <1>1 DEF UpgradeInv, Upgrades!TypeOK
  <2>2. RestTypes'
    BY <2>1 DEF UpgradeInv, Upgrades!TypeOK, RestTypes
  <2>3. ListsAreOffline'
    BY <2>1 DEF UpgradeInv, ListsAreOffline, FromOffline
  <2>4. BatchHasRows'
    BY <2>1, RowTypesStep DEF UpgradeInv, BatchHasRows
  <2> QED
    BY <2>2, <2>3, <2>4 DEF RestInv
<1>2. CASE upgrading' = Upgrades!NoRequest
  <2>1. /\ upgrading'.op = "none"
        /\ upgrading' \in [op : {"none", "apply"}, key : Upgrades!Keys, batch : Nat,
                           todo : SUBSET Upgrades!Approved]
    BY <1>2 DEF Upgrades!NoRequest, Upgrades!Keys
  <2>2. RestTypes'
    BY <2>1 DEF UpgradeInv, Upgrades!TypeOK, RestTypes
  <2>3. ListsAreOffline' /\ BatchHasRows'
    BY <2>1 DEF UpgradeInv, ListsAreOffline, FromOffline, BatchHasRows
  <2> QED
    BY <2>2, <2>3 DEF RestInv
<1> QED
  BY <1>1, <1>2

LEMMA ReviewStep ==
  ASSUME UpgradesBounded, UpgradeInv, NEW key \in Upgrades!Keys, NEW e \in Upgradables,
         NEW chosen \in Videos, Upgrades!Review(key, e, chosen), UNCHANGED <<api, public>>
  PROVE  RestInv'
<1> DEFINE proposal == Upgrades!propose(key, entry[e], chosen, public[e], files)
           a == [entry |-> e, base |-> entry[e], becomes |-> proposal]
           t == [kind |-> "one", key |-> key, approved |-> {a}]
<1>1. /\ e \in Upgrades!Stored /\ proposal # None
      /\ files' = files \cup Upgrades!thumb_rels(proposal)
      /\ young' = young \cup (files' \ files)
      /\ tokens' = tokens \cup {t}
      /\ UNCHANGED <<entry, edits, rows, media, skipped, upgrading>>
  BY DEF Upgrades!Review, Upgrades!pending, Upgrades!Approval, Upgrades!rowVars
<1>2. proposal \in Upgrades!Content
  BY <1>1, StoredIsContent, ProposalIsContent DEF UpgradeInv
<1> HIDE DEF proposal
<1>3. a \in Upgrades!Approved
  BY <1>1, <1>2, StoredIsContent DEF Upgrades!Approved, UpgradeInv
<1>4. t \in [kind : {"one", "list"}, key : Upgrades!Keys, approved : SUBSET Upgrades!Approved]
      /\ t.kind = "one"
  BY <1>3
<1> HIDE DEF a, t
<1>5. Upgrades!Stored' = Upgrades!Stored
  BY <1>1 DEF Upgrades!Stored
<1>6. RestTypes'
  BY <1>1, <1>2, <1>4, <1>5, ThumbsAreFiles DEF UpgradeInv, Upgrades!TypeOK, RestTypes
<1>7. ListsAreOffline' /\ BatchHasRows'
  BY <1>1, <1>4 DEF UpgradeInv, ListsAreOffline, FromOffline, BatchHasRows
<1> QED
  BY <1>6, <1>7 DEF RestInv

LEMMA ReviewListStep ==
  ASSUME UpgradesBounded, UpgradeInv, NEW key \in Upgrades!Keys, Upgrades!ReviewList(key),
         UNCHANGED <<api, public>>
  PROVE  RestInv'
<1> DEFINE approved == {Upgrades!Approval(e, Upgrades!offline(key, e)) : e \in Upgrades!markup_only(key)}
           t == [kind |-> "list", key |-> key, approved |-> approved]
<1>1. /\ tokens' = tokens \cup {t}
      /\ UNCHANGED <<entry, edits, rows, media, skipped, upgrading, files, young>>
  BY DEF Upgrades!ReviewList, Upgrades!rowVars, Upgrades!diskVars
<1>2. ASSUME NEW a \in approved
      PROVE  a \in Upgrades!Approved /\ FromOffline(key, a)
  <2>1. PICK e \in Upgrades!markup_only(key) : a = Upgrades!Approval(e, Upgrades!offline(key, e))
    BY <1>2
  <2>2. e \in Upgrades!Stored /\ Upgrades!offline(key, e) # None
    BY DEF Upgrades!markup_only, Upgrades!pending
  <2>3. Upgrades!offline(key, e) = Upgrades!propose_offline(key, entry[e], public[e], files)
    BY DEF Upgrades!offline
  <2>4. Upgrades!offline(key, e) \in Upgrades!Content
    BY <2>2, <2>3, StoredIsContent, OfflineIsContent DEF UpgradeInv
  <2>5. /\ a \in Upgrades!Approved
        /\ a.entry = e /\ a.base = entry[e] /\ a.becomes = Upgrades!offline(key, e)
    BY <2>1, <2>2, <2>4, StoredIsContent DEF Upgrades!Approved, Upgrades!Approval, UpgradeInv
  <2>6. files \in SUBSET Upgrades!File
    BY DEF UpgradeInv, Upgrades!TypeOK
  <2> QED
    BY <2>3, <2>5, <2>6 DEF FromOffline
<1> HIDE DEF approved
<1>3. /\ t \in [kind : {"one", "list"}, key : Upgrades!Keys, approved : SUBSET Upgrades!Approved]
      /\ t.key = key /\ t.approved = approved
  BY <1>2
<1> HIDE DEF t
<1>4. Upgrades!Stored' = Upgrades!Stored
  BY <1>1 DEF Upgrades!Stored
<1>5. RestTypes'
  BY <1>1, <1>3, <1>4 DEF UpgradeInv, Upgrades!TypeOK, RestTypes
<1>6. ListsAreOffline' /\ BatchHasRows'
  BY <1>1, <1>2, <1>3 DEF UpgradeInv, ListsAreOffline, FromOffline, BatchHasRows
<1> QED
  BY <1>5, <1>6 DEF RestInv

LEMMA BatchBegins ==
  ASSUME UpgradesBounded, UpgradeInv, UNCHANGED <<api, public>>,
         \/ \E t \in tokens : Upgrades!apply_markup_only(t)
         \/ \E id \in DOMAIN rows : Upgrades!revert_batch(rows[id].batch)
  PROVE  RestInv'
<1>1. UNCHANGED <<entry, edits, rows, media, skipped, tokens, files, young>>
  BY DEF Upgrades!apply_markup_only, Upgrades!revert_batch, Upgrades!rowVars, Upgrades!diskVars
<1>2. Upgrades!Stored' = Upgrades!Stored
  BY <1>1 DEF Upgrades!Stored
<1>3. ASSUME NEW t \in tokens, Upgrades!apply_markup_only(t)
      PROVE  RestInv'
  <2>1. /\ t.kind = "list" /\ t.key \in Upgrades!Keys /\ t.approved \in SUBSET Upgrades!Approved
        /\ \A a \in t.approved : FromOffline(t.key, a)
    BY <1>3 DEF Upgrades!apply_markup_only, UpgradeInv, Upgrades!TypeOK, ListsAreOffline
  <2>2. upgrading' = [op |-> "apply", key |-> t.key, batch |-> Upgrades!NewBatch, todo |-> t.approved]
    BY <1>3 DEF Upgrades!apply_markup_only
  <2>3. Upgrades!NewBatch \in Nat
    BY RowsById DEF Upgrades!NewBatch, UpgradeInv
  <2>4. /\ upgrading'.op = "apply" /\ upgrading'.key = t.key /\ upgrading'.todo = t.approved
        /\ upgrading' \in [op : {"none", "apply"}, key : Upgrades!Keys, batch : Nat,
                           todo : SUBSET Upgrades!Approved]
    BY <2>1, <2>2, <2>3
  <2>5. RestTypes'
    BY <1>1, <1>2, <2>4 DEF UpgradeInv, Upgrades!TypeOK, RestTypes
  <2>6. ListsAreOffline' /\ BatchHasRows'
    BY <1>1, <2>1, <2>4 DEF UpgradeInv, ListsAreOffline, FromOffline, BatchHasRows
  <2> QED
    BY <2>5, <2>6 DEF RestInv
<1>4. ASSUME NEW id \in DOMAIN rows, Upgrades!revert_batch(rows[id].batch)
      PROVE  RestInv'
  <2>1. PICK standing \in SUBSET DOMAIN rows :
          upgrading' = [Upgrades!NoRequest EXCEPT !.op = "revert", !.batch = rows[id].batch,
                                                  !.todo = standing]
    BY <1>4 DEF Upgrades!revert_batch
  <2>2. upgrading' = [op |-> "revert", key |-> "music", batch |-> rows[id].batch, todo |-> standing]
    BY <2>1 DEF Upgrades!NoRequest
  <2>3. rows[id].batch \in Nat /\ standing \in SUBSET Nat
    BY <1>4, RowsById DEF UpgradeInv
  <2>4. /\ upgrading'.op = "revert" /\ upgrading'.todo = standing
        /\ upgrading' \in [op : {"revert"}, key : Upgrades!Keys, batch : Nat, todo : SUBSET Nat]
    BY <2>2, <2>3 DEF Upgrades!Keys
  <2>5. RestTypes'
    BY <1>1, <1>2, <2>4 DEF UpgradeInv, Upgrades!TypeOK, RestTypes
  <2>6. ListsAreOffline' /\ BatchHasRows'
    BY <1>1, <2>4 DEF UpgradeInv, ListsAreOffline, FromOffline, BatchHasRows
  <2> QED
    BY <2>5, <2>6 DEF RestInv
<1> QED
  BY <1>3, <1>4

\* The other steps of the pages and the sweep leave tabs and batches, or close
\* all tabs.
LEMMA RestStep ==
  ASSUME UpgradesBounded, UpgradeInv, RowsMove, UNCHANGED <<api, public>>,
         Upgrades!Pages \/ Upgrades!Sweep
  PROVE  RestInv'
<1>1. CASE Upgrades!Sweep
  <2>1. /\ UNCHANGED <<entry, edits, rows, media, skipped, tokens, upgrading>>
        /\ files' \subseteq files /\ young' \subseteq files'
    BY <1>1 DEF Upgrades!Sweep, Upgrades!rowVars, Upgrades!list_orphan_thumbs,
       Upgrades!delete_thumb_files, Upgrades!diskVars, UpgradeInv, Upgrades!TypeOK
  <2>2. skipped' \subseteq Upgrades!Stored' \X Upgrades!Keys
    BY <2>1 DEF Upgrades!Stored, UpgradeInv, Upgrades!TypeOK
  <2> QED
    BY <2>1, <2>2, RestStays DEF UpgradeInv, Upgrades!TypeOK
<1>2. ASSUME NEW key \in Upgrades!Keys, Upgrades!requeue_skipped(key)
      PROVE  RestInv'
  <2>1. /\ UNCHANGED <<entry, edits, rows, media, tokens, upgrading, files, young>>
        /\ skipped' \subseteq skipped
    BY <1>2 DEF Upgrades!requeue_skipped, Upgrades!rowVars, Upgrades!diskVars
  <2>2. skipped' \subseteq Upgrades!Stored' \X Upgrades!Keys
    BY <2>1 DEF Upgrades!Stored, UpgradeInv, Upgrades!TypeOK
  <2> QED
    BY <2>1, <2>2, RestStays DEF UpgradeInv, Upgrades!TypeOK
<1>3. ASSUME NEW key \in Upgrades!Keys, NEW e \in Upgradables, Upgrades!skip(key, e)
      PROVE  RestInv'
  <2>1. e \in Upgrades!Stored /\ skipped' = skipped \cup {<<e, key>>}
    BY <1>3 DEF Upgrades!skip
  <2>2. UNCHANGED <<entry, edits, rows, media, tokens, upgrading, files, young>>
    BY <1>3 DEF Upgrades!skip, Upgrades!rowVars, Upgrades!diskVars
  <2>3. skipped' \subseteq Upgrades!Stored' \X Upgrades!Keys
    BY <2>1, <2>2 DEF Upgrades!Stored, UpgradeInv, Upgrades!TypeOK
  <2> QED
    BY <2>2, <2>3, RestStays DEF UpgradeInv, Upgrades!TypeOK
<1>4. ASSUME NEW e \in Upgradables, Upgrades!Delete(e)
      PROVE  RestInv'
  <2>1. /\ skipped' = {s \in skipped : s[1] # e} /\ entry' = [entry EXCEPT ![e] = Gone]
        /\ UNCHANGED <<tokens, upgrading, files, young>>
    BY <1>4 DEF Upgrades!Delete, Upgrades!diskVars
  <2>2. Upgrades!Stored' = Upgrades!Stored \ {e}
    BY <2>1 DEF Upgrades!Stored, UpgradeInv, Upgrades!TypeOK
  <2>3. skipped' \subseteq Upgrades!Stored' \X Upgrades!Keys
    BY <2>1, <2>2 DEF UpgradeInv, Upgrades!TypeOK
  <2> QED
    BY <2>1, <2>3, RestStays DEF UpgradeInv, Upgrades!TypeOK
<1>5. CASE Upgrades!DayPasses
  <2>1. /\ UNCHANGED <<entry, edits, rows, media, skipped, upgrading, files>>
        /\ tokens' = {} /\ young' = {}
    BY <1>5 DEF Upgrades!DayPasses, Upgrades!rowVars
  <2>2. RestTypes'
    BY <2>1 DEF Upgrades!Stored, UpgradeInv, Upgrades!TypeOK, RestTypes
  <2>3. ListsAreOffline' /\ BatchHasRows'
    BY <2>1 DEF UpgradeInv, ListsAreOffline, FromOffline, BatchHasRows
  <2> QED
    BY <2>2, <2>3 DEF RestInv
<1>6. CASE ~\E e \in Upgradables : Upgrades!Delete(e)
  <2>1. skipped \subseteq Upgrades!Stored' \X Upgrades!Keys
    BY <1>6, SkippedStay DEF UpgradeInv
  <2>2. ASSUME UNCHANGED <<skipped, tokens, upgrading, files, young>>
        PROVE  RestInv'
    BY <2>1, <2>2, RestStays DEF UpgradeInv, Upgrades!TypeOK
  <2>3. ASSUME NEW t \in tokens, Upgrades!apply(t)
        PROVE  RestInv'
    BY <2>2, <2>3 DEF Upgrades!apply, Upgrades!diskVars
  <2>4. ASSUME NEW a \in upgrading.todo, Upgrades!ApplyNext(a) \/ Upgrades!RevertNext(a)
        PROVE  RestInv'
    BY <2>1, <2>4, BatchGoesOn DEF Upgrades!ApplyNext, Upgrades!RevertNext, Upgrades!diskVars
  <2>5. ASSUME NEW id \in DOMAIN rows, Upgrades!revert(id)
        PROVE  RestInv'
    BY <2>2, <2>5 DEF Upgrades!revert, Upgrades!diskVars
  <2>6. CASE Upgrades!EndBatch
    BY <2>1, <2>6, BatchGoesOn DEF Upgrades!EndBatch, Upgrades!diskVars
  <2>7. ASSUME NEW e \in Upgradables, Upgrades!Edit(e)
        PROVE  RestInv'
    BY <2>2, <2>7 DEF Upgrades!Edit, Upgrades!diskVars
  <2> QED
    BY <1>1, <1>2, <1>3, <1>5, <1>6, <2>3, <2>4, <2>5, <2>6, <2>7, ReviewStep, ReviewListStep,
       BatchBegins DEF Upgrades!Pages
<1> QED
  BY <1>4, <1>6

-----------------------------------------------------------------------------
\* An upgrade that stands is held by its row until it is undone.
LEMMA HeldWhileStanding ==
  ASSUME UpgradesBounded, UpgradeInv, RowsMove, Upgrades!Remember, ~undone', sweep'.at # "idle"
  PROVE  /\ ~undone /\ Upgrades!ReplacedThumbs \subseteq Upgrades!ReplacedThumbs'
<1>1. ~undone /\ \A id \in Upgrades!Applied : rows'[id].status = "applied"
  BY DEF Upgrades!Remember
<1>2. \A id \in Upgrades!Applied : id \in Upgrades!Applied' /\ rows'[id].old = rows[id].old
  BY <1>1, RowTypesStep DEF Upgrades!Applied, UpgradeInv
<1>3. \A id \in Upgrades!Applied : Upgrades!thumb_rels(rows[id].old) \subseteq Upgrades!ReplacedThumbs'
  BY <1>2 DEF Upgrades!ReplacedThumbs
<1> QED
  BY <1>1, <1>3 DEF Upgrades!ReplacedThumbs

\* What the first query leaves is held by upgrades, what the second leaves is not
\* needed.
LEMMA OrphansStep ==
  ASSUME UpgradesBounded, UpgradeInv, RowsMove, Upgrades!Remember,
         (Upgrades!Pages /\ UNCHANGED sweep) \/ Upgrades!Sweep
  PROVE  /\ OrphansAreFree'
         /\ sweep' \in [at : {"idle", "listed", "entries", "ready"}, orphans : SUBSET Upgrades!File]
         /\ lasting' \subseteq Upgrades!File /\ undone' \in BOOLEAN
<1>1. sweep' \in [at : {"idle", "listed", "entries", "ready"}, orphans : SUBSET Upgrades!File]
  <2>1. CASE UNCHANGED sweep
    BY <2>1 DEF UpgradeInv, Upgrades!TypeOK
  <2>2. CASE Upgrades!Sweep
    BY <2>2 DEF Upgrades!Sweep, Upgrades!list_orphan_thumbs, Upgrades!delete_thumb_files,
       Upgrades!NoSweep, UpgradeInv, Upgrades!TypeOK
  <2> QED
    BY <2>1, <2>2
<1>2. lasting' \subseteq Upgrades!File
  BY InUseAreFiles DEF Upgrades!Remember, UpgradeInv, Upgrades!TypeOK
<1>3. undone' \in BOOLEAN
  BY DEF Upgrades!Remember
<1>4. OrphansAreFree'
  <2> SUFFICES ASSUME ~undone', sweep'.at \in {"entries", "ready"}
               PROVE  /\ sweep'.at = "entries" =>
                           lasting' \cap sweep'.orphans \subseteq Upgrades!ReplacedThumbs'
                      /\ sweep'.at = "ready" => lasting' \cap sweep'.orphans = {}
    BY DEF OrphansAreFree
  <2>1. ~undone /\ Upgrades!ReplacedThumbs \subseteq Upgrades!ReplacedThumbs'
    BY HeldWhileStanding
  <2>2. lasting' \subseteq lasting \cap Upgrades!InUse'
    BY DEF Upgrades!Remember
  <2>3. CASE UNCHANGED sweep
    BY <2>1, <2>2, <2>3 DEF UpgradeInv, OrphansAreFree
  <2>4. CASE Upgrades!Sweep
    <3>1. UNCHANGED <<entry, rows>>
      BY <2>4 DEF Upgrades!Sweep, Upgrades!rowVars
    <3>2. Upgrades!InUse' = Upgrades!ShownThumbs \cup Upgrades!ReplacedThumbs
      BY <3>1 DEF Upgrades!InUse, Upgrades!ShownThumbs, Upgrades!ReplacedThumbs,
         Upgrades!Applied, Upgrades!Stored
    <3>3. \/ sweep.at = "listed" /\ sweep' = [at |-> "entries",
                                              orphans |-> sweep.orphans \ Upgrades!ShownThumbs]
          \/ sweep.at = "entries" /\ sweep' = [at |-> "ready",
                                               orphans |-> sweep.orphans \ Upgrades!ReplacedThumbs]
      BY <2>4 DEF Upgrades!Sweep, Upgrades!list_orphan_thumbs, Upgrades!delete_thumb_files,
         Upgrades!NoSweep
    <3>4. CASE sweep.at = "listed" /\ sweep' = [at |-> "entries",
                                                orphans |-> sweep.orphans \ Upgrades!ShownThumbs]
      BY <2>1, <2>2, <3>2, <3>4
    <3>5. CASE sweep.at = "entries" /\ sweep' = [at |-> "ready",
                                                 orphans |-> sweep.orphans \ Upgrades!ReplacedThumbs]
      BY <2>1, <2>2, <3>5 DEF UpgradeInv, OrphansAreFree
    <3> QED
      BY <3>3, <3>4, <3>5
  <2> QED
    BY <2>3, <2>4
<1> QED
  BY <1>1, <1>2, <1>3, <1>4

-----------------------------------------------------------------------------
\* The chain of the standing upgrades of an entry.
Chained(e) ==
  \A i \in Upgrades!Standing(e) :
    LET later == {j \in Upgrades!Standing(e) : j > i}
    IN  /\ later = {} => rows[i].new = entry[e]
        /\ \A j \in later : (\A k \in later : j <= k) => rows[i].new = rows[j].old

\* An entry whose upgrades and content stay.
LEMMA ChainStays ==
  ASSUME NEW e, Chained(e), entry'[e] = entry[e],
         Upgrades!Standing(e)' = Upgrades!Standing(e),
         \A i \in Upgrades!Standing(e) : rows'[i].old = rows[i].old /\ rows'[i].new = rows[i].new
  PROVE  Chained(e)'
BY DEF Chained

LEMMA StandingIds ==
  ASSUME Upgrades!TypeOK, NEW e
  PROVE  /\ Upgrades!Standing(e) \subseteq 1..Len(rows) /\ Len(rows) \in Nat
         /\ \A i \in Upgrades!Standing(e) : i \in DOMAIN rows
BY RowsById DEF Upgrades!Standing, Upgrades!Applied

\* Of a set of ids, one is the last.
LEMMA GreatestExists ==
  ASSUME NEW n \in Nat, NEW S \in SUBSET (1..n), S # {}
  PROVE  \E m \in S : \A i \in S : i <= m
<1> DEFINE Left == {n - i : i \in S}
<1>1. Left \in SUBSET Nat /\ Left # {}
  <2>1. \A i \in S : n - i \in Nat
    OBVIOUS
  <2>2. PICK i \in S : TRUE
    OBVIOUS
  <2>3. n - i \in Left
    BY <2>2
  <2> QED
    BY <2>1, <2>3
<1>2. PICK l \in Left : \A k \in Left : l <= k
  BY <1>1, LeastExists
<1>3. PICK m \in S : l = n - m
  BY <1>2
<1>4. \A i \in S : n - m <= n - i
  BY <1>2, <1>3
<1>5. \A i \in S : i <= m
  BY <1>4
<1> QED
  BY <1>5

LEMMA StoreChains ==
  ASSUME UpgradesBounded, UpgradeInv, NEW f \in Upgrades!Stored, Chained(f),
         NEW e, NEW key, NEW proposal, Stores(e, key, proposal)
  PROVE  Chained(f)'
<1> DEFINE n == Len(rows) + 1
<1>1. /\ DOMAIN rows' = 1..n /\ DOMAIN rows = 1..Len(rows) /\ Len(rows) \in Nat
      /\ \A id \in DOMAIN rows : rows'[id] = rows[id]
      /\ rows'[n].entry = e /\ rows'[n].old = entry[e] /\ rows'[n].new = proposal
      /\ rows'[n].status = "applied"
      /\ entry' = [entry EXCEPT ![e] = proposal]
  BY StoresOne, RowsById DEF UpgradeInv
<1>2. n \in Nat /\ n \notin DOMAIN rows /\ DOMAIN rows' = DOMAIN rows \cup {n}
  BY <1>1
<1>3. e \in Upgradables /\ entry'[e] = proposal /\ (f # e => entry'[f] = entry[f])
  BY <1>1 DEF Stores, Upgrades!Stored, UpgradeInv, Upgrades!TypeOK
<1> HIDE DEF n
<1>4. CASE f # e \/ proposal = entry[e]
  <2>1. Upgrades!Standing(f)' = Upgrades!Standing(f)
    BY <1>1, <1>2, <1>4 DEF Upgrades!Standing, Upgrades!Applied
  <2> QED
    BY <1>1, <1>3, <1>4, <2>1, ChainStays, StandingIds DEF UpgradeInv
<1>5. CASE f = e /\ proposal # entry[e]
  <2>1. Upgrades!Standing(f)' = Upgrades!Standing(f) \cup {n}
    BY <1>1, <1>2, <1>5 DEF Upgrades!Standing, Upgrades!Applied
  <2>2. /\ Upgrades!Standing(f) \subseteq 1..Len(rows)
        /\ \A i \in Upgrades!Standing(f) : i \in DOMAIN rows /\ rows'[i] = rows[i] /\ i < n
    BY <1>1, StandingIds DEF UpgradeInv, n
  <2>3. ASSUME NEW i \in Upgrades!Standing(f)'
        PROVE  LET later == {j \in Upgrades!Standing(f)' : j > i}
               IN  /\ later = {} => rows'[i].new = entry'[f]
                   /\ \A j \in later : (\A k \in later : j <= k) => rows'[i].new = rows'[j].old
    <3> DEFINE before == {j \in Upgrades!Standing(f) : j > i}
               later == {j \in Upgrades!Standing(f)' : j > i}
    <3>1. CASE i = n
      <4>1. later = {}
        BY <1>2, <2>1, <2>2, <3>1
      <4> QED
        BY <1>1, <1>3, <1>5, <3>1, <4>1
    <3>2. CASE i # n
      <4>1. i \in Upgrades!Standing(f) /\ i < n /\ i \in Nat
        BY <2>1, <2>2, <2>3, <3>2
      <4>2. later = before \cup {n}
        BY <2>1, <4>1
      <4>3. ASSUME NEW j \in later, \A k \in later : j <= k
            PROVE  rows'[i].new = rows'[j].old
        <5>1. CASE j = n
          <6>1. before = {}
            BY <1>1, <1>2, <2>2, <4>2, <4>3, <5>1
          <6>2. rows[i].new = entry[f]
            BY <4>1, <6>1 DEF Chained
          <6> QED
            BY <1>1, <1>5, <2>2, <4>1, <5>1, <6>2
        <5>2. CASE j # n
          <6>1. j \in before /\ \A k \in before : j <= k
            BY <4>2, <4>3, <5>2
          <6>2. rows[i].new = rows[j].old
            BY <4>1, <6>1 DEF Chained
          <6> QED
            BY <2>2, <4>1, <6>1, <6>2
        <5> QED
          BY <5>1, <5>2
      <4> QED
        BY <4>2, <4>3
    <3> QED
      BY <3>1, <3>2
  <2> QED
    BY <2>3 DEF Chained
<1> QED
  BY <1>4, <1>5

\* The upgrade that can be reverted is the last one, unless one led back to what
\* another had made.
LEMMA RevertChains ==
  ASSUME UpgradesBounded, UpgradeInv, NEW f \in Upgrades!Stored, Chained(f),
         ~Upgrades!Repeats(f), NEW id, Reverts(id)
  PROVE  Chained(f)'
<1> DEFINE e == rows[id].entry
<1>1. /\ DOMAIN rows' = DOMAIN rows
      /\ \A i \in DOMAIN rows : i # id => rows'[i] = rows[i]
      /\ rows'[id].old = rows[id].old /\ rows'[id].new = rows[id].new
      /\ rows'[id].entry = e /\ rows[id].status = "applied" /\ rows'[id].status = "reverted"
      /\ entry[e] = rows[id].new /\ entry' = [entry EXCEPT ![e] = rows[id].old]
      /\ id \in DOMAIN rows
  BY RevertsOne DEF UpgradeInv, Reverts
<1>2. e \in Upgradables
  BY <1>1, RowsById DEF UpgradeInv
<1>3. entry'[e] = rows[id].old /\ (f # e => entry'[f] = entry[f])
  BY <1>1, <1>2 DEF UpgradeInv, Upgrades!TypeOK
<1>4. Upgrades!Standing(f)' = Upgrades!Standing(f) \ {id}
  BY <1>1 DEF Upgrades!Standing, Upgrades!Applied
<1>5. CASE id \notin Upgrades!Standing(f)
  <2>1. Upgrades!Standing(f)' = Upgrades!Standing(f)
    BY <1>4, <1>5
  <2>2. f = e => rows[id].old = rows[id].new
    BY <1>1, <1>5 DEF Upgrades!Standing, Upgrades!Applied
  <2> QED
    BY <1>1, <1>3, <2>1, <2>2, ChainStays, StandingIds DEF UpgradeInv
<1>6. CASE id \in Upgrades!Standing(f)
  <2>1. f = e
    BY <1>6 DEF Upgrades!Standing
  <2>2. Upgrades!Standing(f) \subseteq 1..Len(rows) /\ Len(rows) \in Nat
    BY StandingIds DEF UpgradeInv
  <2>3. PICK m \in Upgrades!Standing(f) : \A i \in Upgrades!Standing(f) : i <= m
    BY <1>6, <2>2, GreatestExists
  <2>4. {j \in Upgrades!Standing(f) : j > m} = {}
    BY <2>2, <2>3
  <2>5. rows[m].new = entry[f]
    BY <2>4 DEF Chained
  <2>6. m = id
    BY <1>1, <1>6, <2>1, <2>5 DEF Upgrades!Repeats
  <2>7. ASSUME NEW i \in Upgrades!Standing(f)'
        PROVE  LET later == {j \in Upgrades!Standing(f)' : j > i}
               IN  /\ later = {} => rows'[i].new = entry'[f]
                   /\ \A j \in later : (\A k \in later : j <= k) => rows'[i].new = rows'[j].old
    <3> DEFINE before == {j \in Upgrades!Standing(f) : j > i}
               later == {j \in Upgrades!Standing(f)' : j > i}
    <3>1. i \in Upgrades!Standing(f) /\ i # id /\ i < id /\ i \in Nat /\ id \in Nat
      BY <1>4, <1>6, <2>2, <2>3, <2>6, <2>7
    <3>2. before = later \cup {id}
      BY <1>4, <1>6, <3>1
    <3>3. rows'[i] = rows[i]
      BY <1>1, <3>1, StandingIds DEF UpgradeInv
    <3>4. ASSUME later = {} PROVE rows'[i].new = entry'[f]
      <4>1. \A k \in before : id <= k
        BY <3>1, <3>2, <3>4
      <4>2. rows[i].new = rows[id].old
        BY <3>1, <3>2, <4>1 DEF Chained
      <4> QED
        BY <1>3, <2>1, <3>3, <4>2
    <3>5. ASSUME NEW j \in later, \A k \in later : j <= k
          PROVE  rows'[i].new = rows'[j].old
      <4>1. j \in Upgrades!Standing(f) /\ j # id /\ j <= id
        BY <1>4, <2>3, <2>6
      <4>2. j \in before /\ \A k \in before : j <= k
        BY <3>2, <3>5, <4>1
      <4>3. rows[i].new = rows[j].old
        BY <3>1, <4>2 DEF Chained
      <4>4. rows'[j] = rows[j]
        BY <1>1, <4>1, StandingIds DEF UpgradeInv
      <4> QED
        BY <3>3, <4>3, <4>4
    <3> QED
      BY <3>4, <3>5
  <2> QED
    BY <2>7 DEF Chained
<1> QED
  BY <1>5, <1>6

LEMMA ChainStep ==
  ASSUME UpgradesBounded, UpgradeInv, RowsMove, Upgrades!Remember
  PROVE  Upgrades!UpgradesChain' /\ RepeatsAreKnown'
<1>1. RepeatsAreKnown' /\ again \subseteq again'
  BY DEF RepeatsAreKnown, Upgrades!Remember
<1>2. ASSUME NEW f \in Upgrades!Stored', f \notin again', edits'[f] = 0
      PROVE  Chained(f)'
  <2>1. f \in Upgradables /\ f \notin again /\ ~Upgrades!Repeats(f)
    BY <1>1, <1>2 DEF Upgrades!Stored, UpgradeInv, RepeatsAreKnown
  <2>2. ASSUME f \in Upgrades!Stored, edits[f] = 0 PROVE Chained(f)
    BY <2>1, <2>2 DEF UpgradeInv, Upgrades!UpgradesChain, Chained
  <2>3. CASE UNCHANGED <<entry, edits, rows, media>>
    BY <1>2, <2>2, <2>3 DEF Upgrades!Stored, Chained, Upgrades!Standing, Upgrades!Applied
  <2>4. ASSUME NEW e, NEW key, NEW proposal, Stores(e, key, proposal)
        PROVE  Chained(f)'
    <3>1. edits[f] = 0 /\ entry' = [entry EXCEPT ![e] = proposal] /\ e \in Upgrades!Stored
      BY <1>2, <2>4, StoresOne DEF UpgradeInv, Stores
    <3>2. f \in Upgrades!Stored
      BY <1>2, <2>1, <3>1 DEF Upgrades!Stored, UpgradeInv, Upgrades!TypeOK
    <3> QED
      BY <2>2, <2>4, <3>1, <3>2, StoreChains
  <2>5. ASSUME NEW id, Reverts(id)
        PROVE  Chained(f)'
    <3>1. edits[f] = 0 /\ entry' = [entry EXCEPT ![rows[id].entry] = rows[id].old]
          /\ entry[rows[id].entry] = rows[id].new /\ rows[id].new \in Upgrades!Content
      BY <1>2, <2>5, RevertsOne, RowsById DEF UpgradeInv, Reverts
    <3>2. f \in Upgrades!Stored
      BY <1>2, <2>1, <3>1 DEF Upgrades!Stored, UpgradeInv, Upgrades!TypeOK, UpgradesBounded
    <3> QED
      BY <2>1, <2>2, <2>5, <3>1, <3>2, RevertChains
  <2>6. ASSUME NEW e \in Upgradables, Upgrades!Edit(e)
        PROVE  Chained(f)'
    <3>1. PICK text \in {"plain", "edited"} : entry' = [entry EXCEPT ![e].text = text]
      BY <2>6 DEF Upgrades!Edit
    <3>2. edits' = [edits EXCEPT ![e] = @ + 1] /\ rows' = rows /\ edits[e] \in Nat
      BY <2>6 DEF Upgrades!Edit, UpgradeInv, Upgrades!TypeOK
    <3>3. f # e
      BY <1>2, <3>2 DEF UpgradeInv, Upgrades!TypeOK
    <3>4. entry'[f] = entry[f] /\ edits[f] = 0
      BY <1>2, <2>1, <3>1, <3>2, <3>3 DEF UpgradeInv, Upgrades!TypeOK
    <3>5. f \in Upgrades!Stored
      BY <1>2, <2>1, <3>4 DEF Upgrades!Stored
    <3>6. Upgrades!Standing(f)' = Upgrades!Standing(f)
      BY <3>2 DEF Upgrades!Standing, Upgrades!Applied
    <3> QED
      BY <2>2, <3>2, <3>4, <3>5, <3>6, ChainStays
  <2>7. ASSUME NEW e \in Upgradables, Upgrades!Delete(e)
        PROVE  Chained(f)'
    <3>1. /\ DOMAIN rows' = DOMAIN rows
          /\ \A i \in DOMAIN rows : rows[i].entry # e => rows'[i] = rows[i]
          /\ \A i \in DOMAIN rows : rows[i].entry = e => rows'[i].entry = e
          /\ entry' = [entry EXCEPT ![e] = Gone] /\ edits' = edits
      BY <2>7, DeletesOne DEF UpgradeInv
    <3>2. f # e /\ entry'[f] = entry[f] /\ edits[f] = 0 /\ f \in Upgrades!Stored
      BY <1>2, <2>1, <3>1 DEF Upgrades!Stored, UpgradeInv, Upgrades!TypeOK
    <3>3. Upgrades!Standing(f)' = Upgrades!Standing(f)
      BY <3>1, <3>2 DEF Upgrades!Standing, Upgrades!Applied
    <3>4. \A i \in Upgrades!Standing(f) : rows'[i] = rows[i]
      BY <3>1, <3>2 DEF Upgrades!Standing, Upgrades!Applied
    <3> QED
      BY <2>2, <3>2, <3>3, <3>4, ChainStays
  <2> QED
    BY <2>3, <2>4, <2>5, <2>6, <2>7 DEF RowsMove
<1> QED
  BY <1>1, <1>2 DEF Upgrades!UpgradesChain, Chained

-----------------------------------------------------------------------------
LEMMA UpgradeNextInv ==
  ASSUME UpgradesBounded, UpgradeInv, [Upgrades!Next]_(Upgrades!vars)
  PROVE  UpgradeInv'
<1>1. CASE Upgrades!Next
  <2>1. /\ (Upgrades!Pages /\ UNCHANGED sweep) \/ Upgrades!Sweep
        /\ Upgrades!Pages \/ Upgrades!Sweep
        /\ Upgrades!Remember /\ UNCHANGED <<api, public>>
    BY <1>1 DEF Upgrades!Next, Upgrades!fixed
  <2>2. RowsMove
    BY <2>1, RowEffects DEF RowsMove
  <2>3. /\ entry' \in [Upgradables -> Upgrades!Content \cup {Gone}]
        /\ edits' \in [Upgradables -> 0..MaxEdits]
        /\ rows' \in Seq(Upgrades!Row)
        /\ media' \subseteq Upgrades!Stored' \X Upgrades!File
    BY <2>2, RowTypesStep DEF UpgradeInv
  <2>4. RestTypes' /\ ListsAreOffline' /\ BatchHasRows'
    BY <2>1, <2>2, RestStep DEF RestInv
  <2>5. /\ OrphansAreFree'
        /\ sweep' \in [at : {"idle", "listed", "entries", "ready"}, orphans : SUBSET Upgrades!File]
        /\ lasting' \subseteq Upgrades!File /\ undone' \in BOOLEAN
    BY <2>1, <2>2, OrphansStep
  <2>6. Upgrades!UpgradesChain' /\ RepeatsAreKnown'
    BY <2>1, <2>2, ChainStep
  <2>7. again' \subseteq Upgradables
    BY <2>1 DEF Upgrades!Remember, UpgradeInv, Upgrades!TypeOK
  <2>8. /\ api' \in [Upgradables -> Upgrades!Providers \cup {"selfposts"}]
        /\ public' \in [Upgradables -> BOOLEAN]
    BY <2>1 DEF UpgradeInv, Upgrades!TypeOK
  <2>9. Upgrades!TypeOK'
    BY <2>3, <2>4, <2>5, <2>7, <2>8 DEF Upgrades!TypeOK, RestTypes
  <2> QED
    BY <2>4, <2>5, <2>6, <2>9 DEF UpgradeInv
<1>2. CASE UNCHANGED (Upgrades!vars)
  <2>1. UNCHANGED upgradeVars
    BY <1>2 DEF Upgrades!vars, Upgrades!fixed, Upgrades!rowVars, Upgrades!diskVars,
       Upgrades!sweepVars, upgradeVars
  <2>2. /\ Upgrades!Stored' = Upgrades!Stored /\ Upgrades!Applied' = Upgrades!Applied
        /\ Upgrades!ReplacedThumbs' = Upgrades!ReplacedThumbs
        /\ \A e : Upgrades!Standing(e)' = Upgrades!Standing(e)
    BY <2>1 DEF upgradeVars, Upgrades!Stored, Upgrades!Applied, Upgrades!ReplacedThumbs,
       Upgrades!Standing
  <2>3. Upgrades!TypeOK'
    BY <2>1, <2>2 DEF upgradeVars, UpgradeInv, Upgrades!TypeOK
  <2>4. ListsAreOffline' /\ BatchHasRows' /\ OrphansAreFree'
    BY <2>1, <2>2 DEF upgradeVars, UpgradeInv, ListsAreOffline, FromOffline, BatchHasRows,
       OrphansAreFree
  <2>5. RepeatsAreKnown' /\ Upgrades!UpgradesChain'
    BY <2>1, <2>2 DEF upgradeVars, UpgradeInv, RepeatsAreKnown, Upgrades!Repeats,
       Upgrades!UpgradesChain
  <2> QED
    BY <2>3, <2>4, <2>5 DEF UpgradeInv
<1> QED
  BY <1>1, <1>2
-----------------------------------------------------------------------------
(* Of the whole: a step moves the part that was chosen, by that part's     *)
(* next-state relation, and leaves the other parts as they are.            *)

LEMMA CommandPart ==
  ASSUME [EntriesNext]_allVars
  PROVE  /\ part' = part
         /\ [part = "command" /\ Commands!Next]_(Commands!vars)
<1>1. CASE EntriesNext
  BY <1>1 DEF EntriesNext, workVars, commandVars, Commands!vars
<1>2. CASE UNCHANGED allVars
  BY <1>2 DEF allVars, workVars, commandVars, Commands!vars
<1> QED
  BY <1>1, <1>2

LEMMA ReadPart ==
  ASSUME [EntriesNext]_allVars
  PROVE  /\ part' = part
         /\ [part = "read" /\ Reads!Next]_(Reads!vars)
<1>1. CASE EntriesNext
  BY <1>1 DEF EntriesNext, workVars, readVars, Reads!vars
<1>2. CASE UNCHANGED allVars
  BY <1>2 DEF allVars, workVars, readVars, Reads!vars
<1> QED
  BY <1>1, <1>2

LEMMA ViewPart ==
  ASSUME [EntriesNext]_allVars
  PROVE  /\ part' = part
         /\ [part = "view" /\ Visibility!Next]_(Visibility!vars)
<1>1. CASE EntriesNext
  BY <1>1 DEF EntriesNext, pageVars, viewVars, Visibility!vars, Visibility!pageVars
<1>2. CASE UNCHANGED allVars
  BY <1>2 DEF allVars, pageVars, viewVars, Visibility!vars, Visibility!pageVars
<1> QED
  BY <1>1, <1>2

LEMMA TimelinePart ==
  ASSUME [EntriesNext]_allVars
  PROVE  /\ part' = part
         /\ [part = "timeline" /\ Timeline!Next]_(Timeline!vars)
<1>1. CASE EntriesNext
  BY <1>1 DEF EntriesNext, workVars, timelineVars, Timeline!vars, Timeline!serviceVars,
     Timeline!remoteVars, Timeline!rowVars, Timeline!history
<1>2. CASE UNCHANGED allVars
  BY <1>2 DEF allVars, workVars, timelineVars, Timeline!vars, Timeline!serviceVars,
     Timeline!remoteVars, Timeline!rowVars, Timeline!history
<1> QED
  BY <1>1, <1>2

\* So what a part keeps of its own is kept while it is the one that moves.
LEMMA CommandSpecInv ==
  ASSUME CommandsBounded PROVE EntriesSpec => [](part = "command" => CommandInv)
<1>1. EntriesInit => (part = "command" => CommandInv)
  BY CommandInitInv DEF EntriesInit
<1>2. (part = "command" => CommandInv) /\ [EntriesNext]_allVars
        => (part = "command" => CommandInv)'
  BY CommandPart, CommandNextInv
<1> QED
  BY <1>1, <1>2, PTL DEF EntriesSpec

LEMMA ReadSpecInv ==
  ASSUME ReadsBounded PROVE EntriesSpec => [](part = "read" => ReadInv)
<1>1. EntriesInit => (part = "read" => ReadInv)
  BY ReadInitInv DEF EntriesInit
<1>2. (part = "read" => ReadInv) /\ [EntriesNext]_allVars => (part = "read" => ReadInv)'
  BY ReadPart, ReadNextInv
<1> QED
  BY <1>1, <1>2, PTL DEF EntriesSpec

LEMMA ViewSpecInv == EntriesSpec => [](part = "view" => ViewInv)
<1>1. EntriesInit => (part = "view" => ViewInv)
  BY ViewInitInv DEF EntriesInit
<1>2. (part = "view" => ViewInv) /\ [EntriesNext]_allVars => (part = "view" => ViewInv)'
  BY ViewPart, ViewNextInv
<1> QED
  BY <1>1, <1>2, PTL DEF EntriesSpec

LEMMA TimelineSpecInv ==
  ASSUME TimelineBounded PROVE EntriesSpec => [](part = "timeline" => TimelineInv)
<1>1. EntriesInit => (part = "timeline" => TimelineInv)
  BY TimelineInitInv DEF EntriesInit
<1>2. (part = "timeline" => TimelineInv) /\ [EntriesNext]_allVars
        => (part = "timeline" => TimelineInv)'
  BY TimelinePart, TimelineNextInv
<1> QED
  BY <1>1, <1>2, PTL DEF EntriesSpec

-----------------------------------------------------------------------------
\* No command line deletes an entry its owner wants: only one that asks for old
\* entries deletes, of its service and age, none that is kept (worker/cli.py and
\* run_cleanup in worker/maintenance.py).
THEOREM WantedStay == ASSUME CommandsBounded PROVE EntriesSpec => []WantedEntriesStay
<1>1. (part = "command" => CommandInv) => WantedEntriesStay
  BY DEF CommandInv, WantedEntriesStay
<1> QED
  BY <1>1, CommandSpecInv, PTL

\* A remote cannot make one read longer, more frequent or larger than its limits,
\* whatever it answers, retries it asks for and lengths it claims
\* (utils/httpclient.py).
THEOREM ReadsHaveBounds == ASSUME ReadsBounded PROVE EntriesSpec => []ReadsAreBounded
<1>1. (part = "read" => ReadInv) => ReadsAreBounded
  <2> SUFFICES ASSUME ReadInv PROVE Reads!ReadsAreBounded
    BY DEF ReadsAreBounded
  <2>1. error.after # None => error.after \in Nat
    BY DEF ReadInv, Reads!TypeOK, ReadsBounded
  <2> QED
    BY <2>1 DEF ReadInv, Passing, Reads!ReadsAreBounded
<1> QED
  BY <1>1, ReadSpecInv, PTL

\* Nobody is shown more of an entry than he may see, on any page and in any state
\* of the entries that one query can have read (stream/index_view.py,
\* _cmd_getcontent of stream/api_view.py).
THEOREM ShowsOnlyWhatMayBe == EntriesSpec => []OnlyMayShow
<1>1. (part = "view" => ViewInv) => OnlyMayShow
  BY DEF ViewInv, OnlyMayShow
<1> QED
  BY <1>1, ViewSpecInv, PTL

\* An entry is one published appearance of its post and the newest that a run has
\* dealt with, and all entries of a run show the posts they name alike
\* (_normalize and _process of apis/mastodon.py and apis/atproto.py).
THEOREM TimelinesAreKept == ASSUME TimelineBounded PROVE EntriesSpec => []TimelineIsKept
<1>1. (part = "timeline" => TimelineInv) => TimelineIsKept
  BY DEF TimelineInv, TimelineIsKept
<1> QED
  BY <1>1, TimelineSpecInv, PTL

LEMMA UpgradePart ==
  ASSUME [EntriesNext]_allVars
  PROVE  /\ part' = part
         /\ [Upgrades!Next]_(Upgrades!vars)
<1>1. CASE EntriesNext
  BY <1>1 DEF EntriesNext, entryVars, upgradeVars, Upgrades!vars, Upgrades!fixed,
     Upgrades!rowVars, Upgrades!diskVars, Upgrades!sweepVars
<1>2. CASE UNCHANGED allVars
  BY <1>2 DEF allVars, entryVars, upgradeVars, Upgrades!vars, Upgrades!fixed,
     Upgrades!rowVars, Upgrades!diskVars, Upgrades!sweepVars
<1> QED
  BY <1>1, <1>2

LEMMA UpgradeSpecInv == ASSUME UpgradesBounded PROVE EntriesSpec => []UpgradeInv
<1>1. EntriesInit => UpgradeInv
  BY UpgradeInitInv DEF EntriesInit
<1>2. UpgradeInv /\ [EntriesNext]_allVars => UpgradeInv'
  BY UpgradePart, UpgradeNextInv
<1> QED
  BY <1>1, <1>2, PTL DEF EntriesSpec

\* The standing upgrades of an entry nobody edits are a chain that ends in what the
\* entry is, so each can be reverted, the last one first, whatever tabs, batches,
\* reverts and sweeps did in between, unless one led back to what another had made
\* (apply, apply_markup_only, revert and revert_batch of upgrades/service.py).
THEOREM UpgradesStayChained == ASSUME UpgradesBounded PROVE EntriesSpec => []UpgradesChain
<1>1. UpgradeInv => UpgradesChain
  BY DEF UpgradeInv, UpgradesChain
<1> QED
  BY <1>1, UpgradeSpecInv, PTL

\* What OnlyAsShown says of a step.
ShownStep ==
  Len(rows') > Len(rows) =>
    LET u == rows'[Len(rows')]
    IN  \E t \in tokens \cup {[key |-> upgrading.key,
                               approved |-> IF upgrading.op = "apply" THEN upgrading.todo ELSE {}]} :
          \E a \in t.approved :
            /\ t.key = u.key /\ a.entry = u.entry
            /\ a.base = entry[u.entry] /\ a.becomes = entry'[u.entry]

LEMMA ShowsStep ==
  ASSUME UpgradesBounded, UpgradeInv, [Upgrades!Next]_(Upgrades!vars)
  PROVE  [ShownStep]_(Upgrades!vars)
<1> SUFFICES ASSUME Upgrades!Next PROVE ShownStep
  OBVIOUS
<1>1. Upgrades!Pages \/ Upgrades!Sweep
  BY DEF Upgrades!Next
<1>2. Len(rows) \in Nat
  BY RowsById DEF UpgradeInv
<1>3. CASE UNCHANGED <<entry, edits, rows, media>>
  BY <1>2, <1>3 DEF ShownStep
<1>4. ASSUME NEW e, NEW key, NEW proposal, Stores(e, key, proposal), WasShown(e, key, proposal)
      PROVE  ShownStep
  <2>1. /\ rows'[Len(rows')].entry = e /\ rows'[Len(rows')].key = key
        /\ entry' = [entry EXCEPT ![e] = proposal]
    BY <1>4, StoresOne DEF UpgradeInv
  <2>2. entry'[e] = proposal
    BY <1>4, <2>1, StoredIsContent DEF Stores, UpgradeInv, Upgrades!TypeOK
  <2> QED
    BY <1>4, <2>1, <2>2 DEF ShownStep, WasShown
<1>5. ASSUME NEW id, Reverts(id) PROVE ShownStep
  BY <1>2, <1>5, RevertsOne DEF ShownStep, UpgradeInv
<1>6. ASSUME NEW e \in Upgradables, Upgrades!Edit(e) PROVE ShownStep
  BY <1>2, <1>6 DEF ShownStep, Upgrades!Edit
<1>7. ASSUME NEW e \in Upgradables, Upgrades!Delete(e) PROVE ShownStep
  BY <1>2, <1>7, DeletesOne DEF ShownStep, UpgradeInv
<1> QED
  BY <1>1, <1>3, <1>4, <1>5, <1>6, <1>7, RowEffects

\* An upgrade stores what a preview showed, of the state it showed: also in a
\* batch, which makes the proposal once more from the entry and the disk as they
\* are when its turn comes (apply and apply_markup_only of upgrades/service.py).
THEOREM OnlyShownIsStored == ASSUME UpgradesBounded PROVE EntriesSpec => OnlyAsShown
<1>1. UpgradeInv /\ [EntriesNext]_allVars => [ShownStep]_(Upgrades!vars)
  BY UpgradePart, ShowsStep
<1>2. EntriesSpec => [][ShownStep]_(Upgrades!vars)
  BY <1>1, UpgradeSpecInv, PTL DEF EntriesSpec
<1> QED
  BY <1>2 DEF ShownStep, OnlyAsShown, Upgrades!OnlyAsShown

\* What SweepKeepsUsed says of a step.
KeepsStep == undone \/ sweep.at # "ready" \/ (files \ files') \cap lasting = {}

LEMMA KeepsFiles ==
  ASSUME UpgradesBounded, UpgradeInv, [Upgrades!Next]_(Upgrades!vars)
  PROVE  [KeepsStep]_(Upgrades!vars)
<1> SUFFICES ASSUME Upgrades!Next, ~undone, sweep.at = "ready"
             PROVE  (files \ files') \cap lasting = {}
  BY DEF KeepsStep
<1>1. lasting \cap sweep.orphans = {}
  BY DEF UpgradeInv, OrphansAreFree
<1>2. CASE Upgrades!Sweep
  BY <1>1, <1>2 DEF Upgrades!Sweep, Upgrades!list_orphan_thumbs, Upgrades!delete_thumb_files,
     Upgrades!diskVars
<1>3. CASE Upgrades!Pages
  <2>1. files \subseteq files'
    BY <1>3 DEF Upgrades!Pages, Upgrades!Review, Upgrades!ReviewList, Upgrades!requeue_skipped,
       Upgrades!apply, Upgrades!apply_markup_only, Upgrades!skip, Upgrades!ApplyNext,
       Upgrades!revert, Upgrades!revert_batch, Upgrades!RevertNext, Upgrades!EndBatch,
       Upgrades!Edit, Upgrades!Delete, Upgrades!DayPasses, Upgrades!diskVars
  <2> QED
    BY <2>1
<1> QED
  BY <1>2, <1>3 DEF Upgrades!Next

\* The sweep deletes no thumbnail that some entry or standing upgrade needed all
\* the time, when no upgrade was undone meanwhile: what the query of the entries
\* does not find, that of the upgrades does (list_orphan_thumbs of stream/media.py).
THEOREM SweepIsSafe == ASSUME UpgradesBounded PROVE EntriesSpec => SweepKeepsUsed
<1>1. UpgradeInv /\ [EntriesNext]_allVars => [KeepsStep]_(Upgrades!vars)
  BY UpgradePart, KeepsFiles
<1>2. EntriesSpec => [][KeepsStep]_(Upgrades!vars)
  BY <1>1, UpgradeSpecInv, PTL DEF EntriesSpec
<1> QED
  BY <1>2 DEF KeepsStep, SweepKeepsUsed, Upgrades!SweepKeepsUsed

-----------------------------------------------------------------------------
(* Signing in at a provider (usettings/oauth_settings.py).                 *)

\* Bounds are numbers.
AccessBounded == MaxAuths \in Nat /\ MaxRest \in Nat

VisitSteps == {"closed", "blank", "page", "asking", "away", "redeeming"}
VisitRecord == [at : VisitSteps, auth : (1..MaxAuths) \cup {None}, read : Access!Client]

\* A tab that asks, is away or redeems is on an authorization; a request token is
\* asked for where there was none, so that phase 1 has one.
VisitIsRight(m, v) ==
  /\ v.at \in {"asking", "away", "redeeming"} => v.auth \in 1..MaxAuths
  /\ v.at = "asking" => v.read.phase = 0 /\ m = "oauth"

AccessInv ==
  /\ Access!TypeOK
  /\ \A t \in Tabs : VisitIsRight(method, visit[t])
  /\ method = "oauth" /\ client.phase = 1 => client.token.token \in 1..MaxAuths

LEMMA AccessShape ==
  ASSUME AccessInv
  PROVE  /\ visit \in [Tabs -> VisitRecord]
         /\ \A t \in Tabs : visit[t] \in VisitRecord /\ VisitIsRight(method, visit[t])
BY DEF AccessInv, Access!TypeOK, VisitRecord, VisitSteps

\* A row of the client, and what a closed tab holds.
LEMMA ClientRows ==
  ASSUME NEW n \in 1..MaxAuths
  PROVE  /\ [phase |-> 1, token |-> [token |-> n, final |-> FALSE]] \in Access!Client
         /\ [phase |-> 3, token |-> [token |-> n, final |-> TRUE]] \in Access!Client
BY DEF Access!Client, Access!Tokens

LEMMA ClosedIs ==
  /\ Access!NewClient \in Access!Client
  /\ Access!Closed \in VisitRecord /\ Access!Closed.at = "closed"
  /\ \A step \in VisitSteps :
       [Access!Closed EXCEPT !.at = step] \in VisitRecord /\ [Access!Closed EXCEPT !.at = step].at = step
  /\ \A step \in VisitSteps, n \in (1..MaxAuths) \cup {None} :
       /\ [Access!Closed EXCEPT !.at = step, !.auth = n] \in VisitRecord
       /\ [Access!Closed EXCEPT !.at = step, !.auth = n].at = step
       /\ [Access!Closed EXCEPT !.at = step, !.auth = n].auth = n
<1>1. Access!NewClient \in Access!Client
  BY DEF Access!NewClient, Access!NoToken, Access!Client, Access!Tokens
<1> QED
  BY <1>1 DEF Access!Closed, VisitRecord, VisitSteps

\* One tab moves.
LEMMA VisitMoves ==
  ASSUME AccessInv, NEW t \in Tabs, NEW v \in VisitRecord, VisitIsRight(method, v),
         visit' = [visit EXCEPT ![t] = v], method' = method
  PROVE  visit' \in [Tabs -> VisitRecord] /\ \A u \in Tabs : VisitIsRight(method, visit'[u])
<1>1. visit \in [Tabs -> VisitRecord] /\ \A u \in Tabs : VisitIsRight(method, visit[u])
  BY AccessShape
<1>2. \A u \in Tabs : visit'[u] = IF u = t THEN v ELSE visit[u]
  BY <1>1
<1>3. visit' \in [Tabs -> VisitRecord]
  BY <1>1
<1> QED
  BY <1>1, <1>2, <1>3 DEF VisitIsRight

\* The rows, the form and the fetch, apart from the tabs.
FormRecord == [at : {"new", "open", "sent", "saved", "refused"}, auth : {"none", method},
               popup : Tabs \cup {None}, need_import : BOOLEAN]
FetchRecord == [status : {"idle", "queued", "running", "ended"}, creds : {"none", method}]

LEMMA AccessBack ==
  ASSUME method' = method, method \in {"oauth", "oauth2"},
         saved' \in BOOLEAN, creds' \in {"none", method}, client' \in Access!Client,
         session' \in (1..MaxAuths) \cup {None}, form' \in FormRecord,
         visit' \in [Tabs -> VisitRecord], \A u \in Tabs : VisitIsRight(method, visit'[u]),
         fetch' \in FetchRecord, auths' \in 0..MaxAuths, rest' \in 0..MaxRest,
         unused' \in (1..MaxAuths) \cup {None},
         method = "oauth" /\ client'.phase = 1 => client'.token.token \in 1..MaxAuths
  PROVE  AccessInv'
<1>1. Access!TypeOK'
  BY DEF Access!TypeOK, VisitRecord, VisitSteps, FormRecord, FetchRecord
<1> QED
  BY <1>1 DEF AccessInv

LEMMA AccessIs ==
  ASSUME AccessBounded, AccessInv
  PROVE  /\ method \in {"oauth", "oauth2"} /\ saved \in BOOLEAN /\ creds \in {"none", method}
         /\ client \in Access!Client
         /\ session \in (1..MaxAuths) \cup {None} /\ form \in FormRecord
         /\ visit \in [Tabs -> VisitRecord] /\ \A u \in Tabs : VisitIsRight(method, visit[u])
         /\ fetch \in FetchRecord /\ auths \in 0..MaxAuths /\ rest \in 0..MaxRest
         /\ unused \in (1..MaxAuths) \cup {None}
         /\ method = "oauth" /\ client.phase = 1 => client.token.token \in 1..MaxAuths
         /\ client.token.token \in (1..MaxAuths) \cup {None}
<1>1. client \in Access!Client
  BY DEF AccessInv, Access!TypeOK
<1>2. client.token.token \in (1..MaxAuths) \cup {None}
  BY <1>1 DEF Access!Client, Access!Tokens, Access!NoToken
<1> QED
  BY <1>1, <1>2, AccessShape DEF AccessInv, Access!TypeOK, FormRecord, FetchRecord

LEMMA AccessInitInv == ASSUME AccessBounded, Access!Init PROVE AccessInv
<1>1. /\ method \in {"oauth", "oauth2"} /\ saved \in BOOLEAN /\ creds = "none"
      /\ client = Access!NewClient /\ session = None /\ auths = 0 /\ rest = 0 /\ unused = None
      /\ form = [at |-> IF saved THEN "open" ELSE "new", auth |-> "none", popup |-> None,
                 need_import |-> FALSE]
      /\ visit = [t \in Tabs |-> Access!Closed]
      /\ fetch = [status |-> "idle", creds |-> "none"]
  BY DEF Access!Init
<1>2. visit \in [Tabs -> VisitRecord] /\ \A t \in Tabs : visit[t].at = "closed"
  BY <1>1, ClosedIs
<1>3. \A t \in Tabs : VisitIsRight(method, visit[t])
  BY <1>2 DEF VisitIsRight
<1>4. client \in Access!Client /\ client.phase = 0
  BY <1>1, ClosedIs DEF Access!NewClient
<1>5. 0 \in 0..MaxAuths /\ 0 \in 0..MaxRest
  BY DEF AccessBounded
<1>6. Access!TypeOK
  BY <1>1, <1>2, <1>4, <1>5 DEF Access!TypeOK, VisitRecord, VisitSteps
<1> QED
  BY <1>3, <1>4, <1>6 DEF AccessInv

\* A fetch that is asked for is queued, unless one is waiting or running.
LEMMA EnqueuedIs == ASSUME fetch \in FetchRecord, Access!Enqueued PROVE fetch' \in FetchRecord
BY DEF Access!Enqueued, FetchRecord

LEMMA OneMoreIs == ASSUME AccessBounded, AccessInv, Access!OneMore PROVE rest' \in 0..MaxRest
<1>1. rest \in 0..MaxRest /\ rest < MaxRest /\ rest' = rest + 1 /\ MaxRest \in Nat
  BY AccessIs DEF Access!OneMore, AccessBounded
<1> QED
  BY <1>1

LEMMA FormStep ==
  ASSUME AccessBounded, AccessInv,
         \/ \E auth \in {"none", method} : Access!submit_service_form(auth)
         \/ Access!SaveRefused \/ Access!persist_service_payload
  PROVE  AccessInv'
<1>1. UNCHANGED <<method, client, session, visit, auths, fetch>>
  BY DEF Access!submit_service_form, Access!SaveRefused, Access!persist_service_payload,
     Access!accessVars, Access!serviceVars
<1>2. /\ saved' \in BOOLEAN /\ creds' \in {"none", method} /\ form' \in FormRecord
      /\ rest' \in 0..MaxRest /\ unused' \in (1..MaxAuths) \cup {None}
  <2>1. ASSUME NEW auth \in {"none", method}, Access!submit_service_form(auth)
        PROVE  /\ saved' \in BOOLEAN /\ creds' \in {"none", method} /\ form' \in FormRecord
               /\ rest' \in 0..MaxRest /\ unused' \in (1..MaxAuths) \cup {None}
    <3>1. /\ form' = [form EXCEPT !.at = "sent", !.auth = auth]
          /\ UNCHANGED <<saved, creds, unused>>
      BY <2>1 DEF Access!submit_service_form, Access!accessVars, Access!serviceVars
    <3>2. form' \in FormRecord
      BY <3>1, AccessIs DEF FormRecord
    <3>3. rest' \in 0..MaxRest
      BY <2>1, OneMoreIs DEF Access!submit_service_form
    <3> QED
      BY <3>1, <3>2, <3>3, AccessIs
  <2>2. CASE Access!SaveRefused
    BY <2>2, AccessIs DEF Access!SaveRefused, Access!accessVars, Access!serviceVars, FormRecord
  <2>3. CASE Access!persist_service_payload
    BY <2>3, AccessIs DEF Access!persist_service_payload, FormRecord
  <2> QED
    BY <2>1, <2>2, <2>3
<1> QED
  BY <1>1, <1>2, AccessIs, AccessBack

LEMMA PrepareStep == ASSUME AccessBounded, AccessInv, Access!prepare_service_form PROVE AccessInv'
<1>1. /\ UNCHANGED <<method, client, session, auths, unused, saved, creds, rest>>
      /\ form' = [form EXCEPT !.at = IF saved THEN "open" ELSE "new", !.popup = None,
                              !.need_import = FALSE]
      /\ fetch' = fetch \/ Access!Enqueued
  BY DEF Access!prepare_service_form
<1>2. form' \in FormRecord
  BY <1>1, AccessIs DEF FormRecord
<1>3. fetch' \in FetchRecord
  BY <1>1, AccessIs, EnqueuedIs
<1>4. visit' \in [Tabs -> VisitRecord] /\ \A u \in Tabs : VisitIsRight(method, visit'[u])
  <2>1. CASE form.popup = None
    <3>1. visit' = visit
      BY <2>1 DEF Access!prepare_service_form
    <3> QED
      BY <3>1, AccessIs
  <2>2. CASE form.popup # None
    <3> DEFINE t == form.popup
               v == [visit[t] EXCEPT !.at = IF form.at = "saved" THEN "page" ELSE "closed"]
    <3>1. t \in Tabs
      BY <2>2, AccessIs DEF FormRecord
    <3>2. visit' = [visit EXCEPT ![t] = v]
      BY <2>2 DEF Access!prepare_service_form
    <3>3. v \in VisitRecord /\ v.at \in {"page", "closed"}
      BY <3>1, AccessIs DEF VisitRecord, VisitSteps
    <3> HIDE DEF v, t
    <3>4. VisitIsRight(method, v)
      BY <3>3 DEF VisitIsRight
    <3> QED
      BY <1>1, <3>1, <3>2, <3>3, <3>4, VisitMoves
  <2> QED
    BY <2>1, <2>2
<1> QED
  BY <1>1, <1>2, <1>3, <1>4, AccessIs, AccessBack

LEMMA FetchStep ==
  ASSUME AccessBounded, AccessInv,
         Access!BecomesDue \/ Access!FetchStarts \/ Access!ProviderSaves \/ Access!FetchEnds
  PROVE  AccessInv'
<1>1. UNCHANGED <<method, client, session, visit, auths, saved, form>>
  BY DEF Access!BecomesDue, Access!FetchStarts, Access!ProviderSaves, Access!FetchEnds,
     Access!accessVars
<1>2. /\ creds' \in {"none", method} /\ fetch' \in FetchRecord
      /\ rest' \in 0..MaxRest /\ unused' \in (1..MaxAuths) \cup {None}
  <2>1. CASE Access!BecomesDue
    BY <2>1, AccessIs DEF Access!BecomesDue, Access!OneMore, Access!accessVars, FetchRecord,
       AccessBounded
  <2>2. CASE Access!FetchStarts
    BY <2>2, AccessIs DEF Access!FetchStarts, FetchRecord
  <2>3. CASE Access!ProviderSaves
    BY <2>3, AccessIs DEF Access!ProviderSaves, Access!accessVars, FetchRecord
  <2>4. CASE Access!FetchEnds
    BY <2>4, AccessIs DEF Access!FetchEnds, Access!accessVars, FetchRecord
  <2> QED
    BY <2>1, <2>2, <2>3, <2>4
<1> QED
  BY <1>1, <1>2, AccessIs, AccessBack

\* What a tab does: it moves, and the rows follow.
TabMoves(t, v) ==
  /\ visit' = [visit EXCEPT ![t] = v] /\ v \in VisitRecord /\ VisitIsRight(method, v)
RowsFollow ==
  /\ UNCHANGED <<method, saved>>
  /\ client' \in Access!Client
  /\ method = "oauth" /\ client'.phase = 1 => client'.token.token \in 1..MaxAuths
  /\ creds' \in {"none", method} /\ fetch' \in FetchRecord /\ form' \in FormRecord
  /\ session' \in (1..MaxAuths) \cup {None} /\ unused' \in (1..MaxAuths) \cup {None}
  /\ auths' \in 0..MaxAuths /\ rest' \in 0..MaxRest

LEMMA TabStep ==
  ASSUME AccessBounded, AccessInv, NEW t \in Tabs, NEW v, TabMoves(t, v), RowsFollow
  PROVE  AccessInv'
<1>1. visit' \in [Tabs -> VisitRecord] /\ \A u \in Tabs : VisitIsRight(method, visit'[u])
  BY VisitMoves DEF TabMoves, RowsFollow
<1> QED
  BY <1>1, AccessIs, AccessBack DEF RowsFollow

LEMMA OpenStep ==
  ASSUME AccessBounded, AccessInv, NEW t \in Tabs,
         Access!save_to_configure(t) \/ Access!configure_access(t)
  PROVE  AccessInv'
<1> DEFINE at1 == IF Access!save_to_configure(t) THEN "blank" ELSE "page"
           v == [visit[t] EXCEPT !.at = at1]
<1>1. visit' = [visit EXCEPT ![t] = v] /\ v \in VisitRecord /\ v.at \in {"blank", "page"}
  <2>1. visit' = [visit EXCEPT ![t].at = at1]
    BY DEF Access!save_to_configure, Access!configure_access
  <2>2. visit[t] \in VisitRecord /\ at1 \in {"blank", "page"}
    BY AccessIs
  <2> HIDE DEF at1
  <2> QED
    BY <2>1, <2>2 DEF VisitRecord, VisitSteps
<1> HIDE DEF v
<1>2. TabMoves(t, v)
  BY <1>1 DEF TabMoves, VisitIsRight
<1>3. /\ UNCHANGED <<method, client, session, auths, unused, saved, creds, fetch>>
      /\ form' = form \/ form' = [form EXCEPT !.at = "sent", !.auth = method, !.popup = t]
      /\ rest' = rest \/ Access!OneMore
  BY DEF Access!save_to_configure, Access!configure_access, Access!serviceVars
<1>4. form' \in FormRecord
  BY <1>3, AccessIs DEF FormRecord
<1>5. RowsFollow
  BY <1>3, <1>4, AccessIs, OneMoreIs DEF RowsFollow
<1> QED
  BY <1>2, <1>5, TabStep

\* An authorization is started: with a state, with a request for a token, or with
\* the request token there is.
LEMMA NextAuth ==
  ASSUME AccessBounded, AccessInv, auths < MaxAuths, auths' = auths + 1
  PROVE  auths' \in 1..MaxAuths /\ auths' \in 0..MaxAuths
<1>1. auths \in 0..MaxAuths /\ MaxAuths \in Nat
  BY AccessIs DEF AccessBounded
<1> QED
  BY <1>1

LEMMA AuthorizeStep ==
  ASSUME AccessBounded, AccessInv, NEW t \in Tabs,
         Access!Authorize2(t) \/ Access!AskRequestToken(t) \/ Access!Authorize1(t)
  PROVE  AccessInv'
<1>1. CASE Access!Authorize2(t)
  <2> DEFINE v == [Access!Closed EXCEPT !.at = "away", !.auth = auths']
  <2>1. auths' \in 1..MaxAuths /\ auths' \in 0..MaxAuths
    BY <1>1, NextAuth DEF Access!Authorize2
  <2>2. v \in VisitRecord /\ v.at = "away" /\ v.auth = auths'
    BY <2>1, ClosedIs DEF VisitSteps
  <2>3. visit' = [visit EXCEPT ![t] = v]
    BY <1>1 DEF Access!Authorize2
  <2> HIDE DEF v
  <2>4. TabMoves(t, v)
    BY <2>1, <2>2, <2>3 DEF TabMoves, VisitIsRight
  <2>5. client' = [client EXCEPT !.phase = 1] /\ client' \in Access!Client
    BY <1>1, AccessIs DEF Access!Authorize2, Access!Client
  <2>6. RowsFollow
    BY <1>1, <2>1, <2>5, AccessIs DEF RowsFollow, Access!Authorize2, Access!serviceVars
  <2> QED
    BY <2>4, <2>6, TabStep
<1>2. CASE Access!AskRequestToken(t)
  <2> DEFINE v == [at |-> "asking", auth |-> auths', read |-> client]
  <2>1. auths' \in 1..MaxAuths /\ auths' \in 0..MaxAuths
    BY <1>2, NextAuth DEF Access!AskRequestToken
  <2>2. v \in VisitRecord /\ v.at = "asking" /\ v.auth = auths' /\ v.read.phase = 0
    BY <1>2, <2>1, AccessIs DEF VisitRecord, VisitSteps, Access!AskRequestToken
  <2>3. visit' = [visit EXCEPT ![t] = v] /\ method = "oauth"
    BY <1>2 DEF Access!AskRequestToken
  <2> HIDE DEF v
  <2>4. TabMoves(t, v)
    BY <2>1, <2>2, <2>3 DEF TabMoves, VisitIsRight
  <2>5. RowsFollow
    BY <1>2, <2>1, AccessIs DEF RowsFollow, Access!AskRequestToken, Access!serviceVars
  <2> QED
    BY <2>4, <2>5, TabStep
<1>3. CASE Access!Authorize1(t)
  <2> DEFINE n == client.token.token
             v == [Access!Closed EXCEPT !.at = "away", !.auth = n]
  <2>1. n \in 1..MaxAuths
    BY <1>3, AccessIs DEF Access!Authorize1
  <2>2. visit' = [visit EXCEPT ![t] = v]
    BY <1>3 DEF Access!Authorize1
  <2> HIDE DEF n
  <2>3. v \in VisitRecord /\ v.at = "away" /\ v.auth = n
    BY <2>1, ClosedIs DEF VisitSteps
  <2> HIDE DEF v
  <2>4. TabMoves(t, v)
    BY <2>1, <2>2, <2>3 DEF TabMoves, VisitIsRight
  <2>5. RowsFollow
    BY <1>3, AccessIs DEF RowsFollow, Access!Authorize1, Access!serviceVars
  <2> QED
    BY <2>4, <2>5, TabStep
<1> QED
  BY <1>1, <1>2, <1>3

\* The provider answered, or did not.
LEMMA RequestTokenStep ==
  ASSUME AccessBounded, AccessInv, NEW t \in Tabs,
         Access!get_request_token(t) \/ Access!RequestTokenFails(t)
  PROVE  AccessInv'
<1>1. /\ visit[t].at = "asking" /\ visit[t].auth \in 1..MaxAuths
      /\ visit[t].read.phase = 0 /\ visit[t].read \in Access!Client
  <2>1. visit[t].at = "asking"
    BY DEF Access!get_request_token, Access!RequestTokenFails
  <2>2. visit[t] \in VisitRecord /\ VisitIsRight(method, visit[t])
    BY AccessIs
  <2> QED
    BY <2>1, <2>2 DEF VisitRecord, VisitIsRight
<1>2. CASE Access!get_request_token(t)
  <2> DEFINE n == visit[t].auth
             v == [Access!Closed EXCEPT !.at = "away", !.auth = n]
  <2>1. /\ visit' = [visit EXCEPT ![t] = v]
        /\ client' = [phase |-> 1, token |-> [token |-> n, final |-> FALSE]]
    BY <1>2 DEF Access!get_request_token
  <2>2. n \in 1..MaxAuths
    BY <1>1
  <2> HIDE DEF n
  <2>3. v \in VisitRecord /\ v.at = "away" /\ v.auth = n
    BY <2>2, ClosedIs DEF VisitSteps
  <2> HIDE DEF v
  <2>4. TabMoves(t, v)
    BY <2>1, <2>2, <2>3 DEF TabMoves, VisitIsRight
  <2>5. client' \in Access!Client /\ client'.token.token \in 1..MaxAuths
    BY <2>1, <2>2, ClientRows
  <2>6. RowsFollow
    BY <1>2, <2>5, AccessIs DEF RowsFollow, Access!get_request_token, Access!serviceVars
  <2> QED
    BY <2>4, <2>6, TabStep
<1>3. CASE Access!RequestTokenFails(t)
  <2> DEFINE v == [Access!Closed EXCEPT !.at = "page"]
  <2>1. visit' = [visit EXCEPT ![t] = v] /\ client' = visit[t].read
    BY <1>3 DEF Access!RequestTokenFails
  <2>2. v \in VisitRecord /\ v.at = "page"
    BY ClosedIs DEF VisitSteps
  <2> HIDE DEF v
  <2>3. TabMoves(t, v)
    BY <2>1, <2>2 DEF TabMoves, VisitIsRight
  <2>4. RowsFollow
    BY <1>1, <1>3, <2>1, AccessIs DEF RowsFollow, Access!RequestTokenFails, Access!serviceVars
  <2> QED
    BY <2>3, <2>4, TabStep
<1> QED
  BY <1>2, <1>3

LEMMA SignInIs ==
  ASSUME AccessBounded, AccessInv, NEW n \in 1..MaxAuths, Access!SignIn(n)
  PROVE  /\ client' \in Access!Client /\ client'.phase = 3
         /\ creds' = method /\ unused' = n /\ fetch' \in FetchRecord
BY ClientRows, EnqueuedIs, AccessIs DEF Access!SignIn

\* The tab comes back, redeems what it got, or pastes a token.
LEMMA BackStep ==
  ASSUME AccessBounded, AccessInv, NEW t \in Tabs,
         \/ Access!Callback(t) \/ Access!get_access_token(t) \/ Access!AccessTokenFails(t)
         \/ Access!Paste(t) \/ Access!reset(t)
  PROVE  AccessInv'
<1>1. visit[t] \in VisitRecord /\ VisitIsRight(method, visit[t])
  BY AccessIs
<1> DEFINE page1 == [Access!Closed EXCEPT !.at = "page"]
<1>2. /\ page1 \in VisitRecord /\ page1.at = "page"
      /\ Access!Closed \in VisitRecord /\ Access!Closed.at = "closed"
  BY ClosedIs DEF VisitSteps
<1>3. VisitIsRight(method, page1) /\ VisitIsRight(method, Access!Closed)
  BY <1>2 DEF VisitIsRight
<1>4. CASE Access!Callback(t)
  <2>1. RowsFollow
    BY <1>4, AccessIs DEF RowsFollow, Access!Callback, Access!serviceVars
  <2>2. CASE Access!Answers(visit[t].auth)
    <3> DEFINE v == [visit[t] EXCEPT !.at = "redeeming", !.read = client]
    <3>1. visit' = [visit EXCEPT ![t].at = "redeeming", ![t].read = client]
      BY <1>4, <2>2 DEF Access!Callback
    <3>2. visit' = [visit EXCEPT ![t] = v]
      BY <1>1, <3>1, AccessIs DEF VisitRecord
    <3>3. visit[t].at = "away" /\ visit[t].auth \in 1..MaxAuths
      BY <1>1, <1>4 DEF Access!Callback, VisitIsRight
    <3>4. v \in VisitRecord /\ v.at = "redeeming" /\ v.auth = visit[t].auth
      BY <1>1, AccessIs DEF VisitRecord, VisitSteps
    <3> HIDE DEF v
    <3>5. TabMoves(t, v)
      BY <3>2, <3>3, <3>4 DEF TabMoves, VisitIsRight
    <3> QED
      BY <2>1, <3>5, TabStep
  <2>3. CASE ~Access!Answers(visit[t].auth)
    <3>1. visit' = [visit EXCEPT ![t] = page1]
      BY <1>4, <2>3 DEF Access!Callback
    <3> HIDE DEF page1
    <3>2. TabMoves(t, page1)
      BY <1>2, <1>3, <3>1 DEF TabMoves
    <3> QED
      BY <2>1, <3>2, TabStep
  <2> QED
    BY <2>2, <2>3
<1>5. CASE Access!get_access_token(t)
  <2>1. visit[t].auth \in 1..MaxAuths
    BY <1>1, <1>5 DEF Access!get_access_token, VisitIsRight
  <2>2. /\ client' \in Access!Client /\ client'.phase = 3
        /\ creds' = method /\ unused' \in 1..MaxAuths /\ fetch' \in FetchRecord
    BY <1>5, <2>1, SignInIs DEF Access!get_access_token
  <2>3. RowsFollow
    BY <1>5, <2>2, AccessIs DEF RowsFollow, Access!get_access_token
  <2>4. TabMoves(t, Access!Closed)
    BY <1>2, <1>3, <1>5 DEF TabMoves, Access!get_access_token
  <2> QED
    BY <2>3, <2>4, TabStep
<1>6. CASE Access!AccessTokenFails(t)
  <2>1. visit' = [visit EXCEPT ![t] = page1]
    BY <1>6 DEF Access!AccessTokenFails
  <2> HIDE DEF page1
  <2>2. TabMoves(t, page1)
    BY <1>2, <1>3, <2>1 DEF TabMoves
  <2>3. RowsFollow
    BY <1>6, AccessIs DEF RowsFollow, Access!AccessTokenFails, Access!serviceVars
  <2> QED
    BY <2>2, <2>3, TabStep
<1>7. CASE Access!Paste(t)
  <2>1. auths' \in 1..MaxAuths /\ auths' \in 0..MaxAuths
    BY <1>7, NextAuth DEF Access!Paste
  <2>2. Access!SignIn(auths')
    BY <1>7 DEF Access!Paste
  <2>3. /\ client' \in Access!Client /\ client'.phase = 3
        /\ creds' = method /\ unused' \in 1..MaxAuths /\ fetch' \in FetchRecord
    BY <2>1, <2>2, ClientRows, EnqueuedIs, AccessIs DEF Access!SignIn
  <2>4. RowsFollow
    BY <1>7, <2>1, <2>3, AccessIs DEF RowsFollow, Access!Paste
  <2>5. TabMoves(t, Access!Closed)
    BY <1>2, <1>3, <1>7 DEF TabMoves, Access!Paste
  <2> QED
    BY <2>4, <2>5, TabStep
<1>8. CASE Access!reset(t)
  <2>1. /\ client' = Access!NewClient /\ unused' = None
        /\ UNCHANGED <<method, session, visit, auths, saved, creds, fetch, form, rest>>
    BY <1>8 DEF Access!reset, Access!serviceVars
  <2>2. client' \in Access!Client /\ client'.phase = 0
    BY <2>1, ClosedIs DEF Access!NewClient
  <2> QED
    BY <2>1, <2>2, AccessIs, AccessBack
<1> QED
  BY <1>4, <1>5, <1>6, <1>7, <1>8

LEMMA AccessNextInv ==
  ASSUME AccessBounded, AccessInv, [Access!Next]_(Access!vars) PROVE AccessInv'
<1>1. CASE Access!Next
  BY <1>1, FormStep, PrepareStep, FetchStep, OpenStep, AuthorizeStep, RequestTokenStep, BackStep
     DEF Access!Next
<1>2. CASE UNCHANGED Access!vars
  <2>1. UNCHANGED <<method, saved, creds, client, session, form, visit, fetch, auths, rest, unused>>
    BY <1>2 DEF Access!vars, Access!accessVars, Access!serviceVars
  <2> QED
    BY <2>1, AccessIs, AccessBack
<1> QED
  BY <1>1, <1>2

-----------------------------------------------------------------------------
LEMMA AccessPart ==
  ASSUME [EntriesNext]_allVars
  PROVE  /\ part' = part
         /\ [part = "access" /\ Access!Next]_(Access!vars)
<1>1. CASE EntriesNext
  BY <1>1 DEF EntriesNext, workVars, accessVars, Access!vars, Access!accessVars,
     Access!serviceVars
<1>2. CASE UNCHANGED allVars
  BY <1>2 DEF allVars, workVars, accessVars, Access!vars, Access!accessVars, Access!serviceVars
<1> QED
  BY <1>1, <1>2

LEMMA AccessSpecInv ==
  ASSUME AccessBounded PROVE EntriesSpec => [](part = "access" => AccessInv)
<1>1. EntriesInit => (part = "access" => AccessInv)
  BY AccessInitInv DEF EntriesInit
<1>2. (part = "access" => AccessInv) /\ [EntriesNext]_allVars => (part = "access" => AccessInv)'
  BY AccessPart, AccessNextInv
<1> QED
  BY <1>1, <1>2, PTL DEF EntriesSpec

LEMMA CachePart ==
  ASSUME [EntriesNext]_allVars PROVE part' = part /\ [part = "cache" /\ Next]_vars
<1>1. CASE EntriesNext
  BY <1>1 DEF EntriesNext
<1>2. CASE UNCHANGED allVars
  BY <1>2 DEF allVars
<1> QED
  BY <1>1, <1>2

LEMMA CacheSpecInv == EntriesSpec => [](part = "cache" => IInv)
<1>1. EntriesInit => (part = "cache" => IInv)
  BY InitHolds DEF EntriesInit
<1>2. (part = "cache" => IInv) /\ [EntriesNext]_allVars => (part = "cache" => IInv)'
  BY CachePart, NextHolds
<1> QED
  BY <1>1, <1>2, PTL DEF EntriesSpec

LEMMA PartsStay == EntriesSpec => [](part \in Parts)
<1>1. EntriesInit => part \in Parts
  BY DEF EntriesInit
<1>2. part \in Parts /\ [EntriesNext]_allVars => (part \in Parts)'
  BY CachePart DEF Parts
<1> QED
  BY <1>1, <1>2, PTL DEF EntriesSpec

\* The invariants of a post's rendering are about its types too.
LEMMA ContentTypes == ASSUME ContentBounded, ContentInv PROVE Content!TypeOK
<1>1. /\ rendering \in {"text", "tail", "markup", "mblob", "done"}
      /\ size \in 0..Bytes /\ starts \subseteq 0..Bytes
      /\ facets \in Seq(Content!Facet) /\ given \in Seq(Content!Facet)
      /\ current \in 0..Bytes /\ chunks \in Seq(Content!Chunk)
  BY DEF ContentInv, TextInv, TextShape, ContentBounded
<1>2. /\ attachments \in Seq(Content!Attachment) /\ turn \in 1..(MaxAttachments + 1)
      /\ thumbnails \in Seq(Content!Turns)
  <2>1. Len(attachments) \in Nat
    BY LenProperties DEF ContentInv, MediaInv, MediaShape
  <2> QED
    BY <2>1 DEF ContentInv, MediaInv, MediaShape, ContentBounded
<1>3. /\ markup \in Seq([kind : {"thumbnails", "player"}, of : Seq(Content!Turns)])
      /\ mblob \in Seq([of : Content!Turns, isdefault : BOOLEAN])
  BY DEF ContentInv, MediaInv, MediaShape, MarkupRow, Listing
<1> QED
  BY <1>1, <1>2, <1>3 DEF Content!TypeOK

\* What the bounds of the parts are: numbers, with None and Gone apart.
EntriesBounded ==
  /\ StoreBounded /\ PostsBounded /\ UpgradesBounded /\ StreamBounded /\ AccessBounded
  /\ ReadsBounded /\ CommandsBounded /\ TimelineBounded /\ ContentBounded

\* The variables of every part stay what their modules say they hold: the cache,
\* the table's rows, posts, upgrades, the stream, sign-ins, reads, commands,
\* timelines, a post's content and pages.
THEOREM TypesStay == ASSUME EntriesBounded PROVE EntriesSpec => []TypesOK
<1>1. /\ part \in Parts
      /\ part = "cache" => IInv
      /\ part = "store" => StoreInv
      /\ part = "posts" => PostsInv
      /\ part = "stream" => StreamInv
      /\ part = "access" => AccessInv
      /\ part = "read" => ReadInv
      /\ part = "command" => CommandInv
      /\ part = "timeline" => TimelineInv
      /\ part = "content" => ContentInv
      /\ part = "view" => ViewInv
      /\ UpgradeInv
      => TypesOK
  BY ContentTypes DEF EntriesBounded, Parts, TypesOK, IInv, StoreInv, PostsInv, StreamInv,
     AccessInv, ReadInv, CommandInv, TimelineInv, ViewInv, UpgradeInv
<1>2. EntriesSpec => [](part \in Parts)
  BY PartsStay
<1>3. EntriesSpec => [](part = "cache" => IInv)
  BY CacheSpecInv
<1>4. EntriesSpec => [](part = "store" => StoreInv)
  BY StoreSpecInv DEF EntriesBounded
<1>5. EntriesSpec => [](part = "posts" => PostsInv)
  BY PostsSpecInv DEF EntriesBounded
<1>6. EntriesSpec => [](part = "stream" => StreamInv)
  BY StreamSpecInv DEF EntriesBounded
<1>7. EntriesSpec => [](part = "access" => AccessInv)
  BY AccessSpecInv DEF EntriesBounded
<1>8. EntriesSpec => [](part = "read" => ReadInv)
  BY ReadSpecInv DEF EntriesBounded
<1>9. EntriesSpec => [](part = "command" => CommandInv)
  BY CommandSpecInv DEF EntriesBounded
<1>10. EntriesSpec => [](part = "timeline" => TimelineInv)
  BY TimelineSpecInv DEF EntriesBounded
<1>11. EntriesSpec => [](part = "content" => ContentInv)
  BY ContentSpecInv DEF EntriesBounded
<1>12. EntriesSpec => [](part = "view" => ViewInv)
  BY ViewSpecInv
<1>13. EntriesSpec => []UpgradeInv
  BY UpgradeSpecInv DEF EntriesBounded
<1> QED
  BY <1>1, <1>2, <1>3, <1>4, <1>5, <1>6, <1>7, <1>8, <1>9, <1>10, <1>11, <1>12, <1>13, PTL
=============================================================================
