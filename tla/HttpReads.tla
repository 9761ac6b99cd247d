------------------------------ MODULE HttpReads ------------------------------
(***************************************************************************)
(* One read of utils/httpclient.py: the retries of _request_read, and what *)
(* get_feed and retrieve do with the answer.  The remote may answer        *)
(* anything.  Sizes are in chunks, waits in seconds; the body of an answer *)
(* that is an error is left out.                                           *)
(***************************************************************************)
EXTENDS Naturals, Sequences

CONSTANTS
  Backoff,       \* READ_RETRY_BACKOFF_SEC, a sequence
  MaxRetryAfter, \* MAX_RETRY_AFTER_SEC
  Waits,         \* the waits a remote asks for, as _get_retry_after_sec clamps them
  None,          \* no header
  Feed,          \* FETCH_FEED_MAX_BYTES
  Sniff,         \* FETCH_FEED_HTML_SNIFF_BYTES
  Media,         \* FETCH_MEDIA_MAX_BYTES
  Longest        \* bound: the longest body a remote sends

VARIABLES
  what,      \* what is read: "feed", "media", or "api" for get and read
  at,        \* where the read is
  page,      \* 1 for the address itself, 2 for the feed an HTML page names
  attempt,   \* of _request_read, from 1
  answer,    \* external: the answer being read
  kept,      \* the chunks read of its body
  error,     \* the last failure
  waited     \* history: the seconds slept since that failure

vars == <<what, at, page, attempt, answer, kept, error, waited>>

Types == {"html", "xml", "image", "none", "other"}
Categories == {"timeout", "connection", "blocked_address", "unexpected", "auth",
               "rate_limited", "remote_4xx", "remote_5xx", "invalid_response", "body"}
NoAnswer == [type |-> "none", length |-> None, size |-> 0, alternate |-> FALSE]
NoError == [category |-> "unexpected", retryable |-> FALSE, after |-> None]

TypeOK ==
  /\ what \in {"feed", "media", "api"}
  /\ at \in {"request", "sleep", "type", "html", "body", "done", "failed"}
  /\ page \in 1..2 /\ attempt \in 1..(Len(Backoff) + 1)
  /\ answer \in [type : Types, length : (0..Longest) \cup {None}, size : 0..Longest, alternate : BOOLEAN]
  /\ kept \in 0..Longest
  /\ error \in [category : Categories, retryable : BOOLEAN, after : Waits \cup {None}]
  /\ waited \in {0} \cup Waits \cup {Backoff[i] : i \in 1..Len(Backoff)}

Init ==
  /\ what \in {"feed", "media", "api"}
  /\ at = "request" /\ page = 1 /\ attempt = 1
  /\ answer = NoAnswer /\ kept = 0 /\ error = NoError /\ waited = 0

-----------------------------------------------------------------------------
(* What a request may end with. *)

\* _classify_request_exception; only media downloads refuse addresses.
_classify_request_exception ==
  {[category |-> c, retryable |-> TRUE, after |-> None] : c \in {"timeout", "connection"}}
  \cup {[category |-> c, retryable |-> FALSE, after |-> None] : c \in {"blocked_address", "unexpected"}}

\* classify_status_code, and a 403 of an exhausted rate limit: 408 and 429 and
\* most 5xx are retried.
_classify_response_error ==
  [category : {"auth"}, retryable : {FALSE}, after : Waits \cup {None}]
  \cup [category : {"rate_limited"}, retryable : {TRUE}, after : Waits \cup {None}]
  \cup [category : {"remote_4xx", "remote_5xx"}, retryable : BOOLEAN, after : Waits \cup {None}]

Answers == [type : Types, length : (0..Longest) \cup {None}, size : 0..Longest, alternate : BOOLEAN]

-----------------------------------------------------------------------------
(* _request_read. *)

Fails(e) == at' = "failed" /\ error' = e

\* A media download is refused an address that is not public.
Blocks == what = "media"

WaitsHere(e) == e.retryable /\ (e.after # None => e.after <= MaxRetryAfter)

Attempts == Len(Backoff) + 1

RequestFails ==
  /\ at = "request"
  /\ \E e \in _classify_request_exception \cup _classify_response_error :
       /\ e.category = "blocked_address" => Blocks
       /\ IF WaitsHere(e) /\ attempt < Attempts
          THEN at' = "sleep" /\ error' = e
          ELSE Fails(e)
  /\ waited' = 0
  /\ UNCHANGED <<what, page, attempt, answer, kept>>

\* Mutant: the backoff, whatever the remote asks for.
BackoffOnly == Backoff[attempt]

Pause == IF error.after = None THEN Backoff[attempt] ELSE error.after

Sleep ==
  /\ at = "sleep"
  /\ waited' = Pause
  /\ attempt' = attempt + 1
  /\ at' = "request"
  /\ UNCHANGED <<what, page, answer, kept, error>>

\* An answer below 400: its headers, or of get and read, which do not stream,
\* the whole body too, however long.
RequestSucceeds ==
  /\ at = "request"
  /\ answer' \in Answers
  /\ IF what = "api" THEN at' = "done" /\ kept' = answer'.size
                     ELSE at' = "type" /\ kept' = 0
  /\ UNCHANGED <<what, page, attempt, error, waited>>

-----------------------------------------------------------------------------
(* get_feed and retrieve. *)

Invalid == Fails([category |-> "invalid_response", retryable |-> FALSE, after |-> None])

\* The most that is read of the body of a feed or of media.
Limit ==
  CASE what = "media" -> Media
    [] what = "feed" -> IF answer.type = "html" /\ Sniff < Feed THEN Sniff ELSE Feed

\* The Content-Length is checked first, then the type of a feed; HTML is read
\* for the address of a feed, but only the first time.  Media is stored
\* whatever its type, which its caller checks afterwards.
CheckHeaders ==
  /\ at = "type"
  /\ IF \/ what = "feed" /\ answer.type \in {"image", "other"}
        \/ what = "feed" /\ answer.type = "html" /\ page = 2
        \/ answer.length # None /\ answer.length > Limit
     THEN Invalid
     ELSE at' = "body" /\ UNCHANGED error
  /\ UNCHANGED <<what, page, attempt, answer, kept, waited>>

TooLong == kept + 1 > Limit

ReadChunk ==
  /\ at = "body" /\ kept < answer.size
  /\ IF TooLong THEN Invalid /\ UNCHANGED kept
                ELSE kept' = kept + 1 /\ UNCHANGED <<at, error>>
  /\ UNCHANGED <<what, page, attempt, answer, waited>>

\* The connection breaks within the body: an error that is not classified.
BodyFails ==
  /\ at = "body"
  /\ Fails([NoError EXCEPT !.category = "body"])
  /\ UNCHANGED <<what, page, attempt, answer, kept, waited>>

BodyEnds ==
  /\ at = "body" /\ kept = answer.size
  /\ ~ (what = "feed" /\ answer.type = "html")
  /\ at' = "done"
  /\ UNCHANGED <<what, page, attempt, answer, kept, error, waited>>

\* An HTML page may name the feed it has: that address is read from the start.
FindFeed ==
  /\ at = "body" /\ kept = answer.size
  /\ what = "feed" /\ answer.type = "html"
  /\ IF answer.alternate
     THEN page' = 2 /\ attempt' = 1 /\ at' = "request" /\ error' = NoError
     ELSE Invalid /\ UNCHANGED <<page, attempt>>
  /\ UNCHANGED <<what, answer, kept, waited>>

Next ==
  \/ RequestFails \/ Sleep \/ RequestSucceeds \/ CheckHeaders
  \/ ReadChunk \/ BodyFails \/ BodyEnds \/ FindFeed

Spec == Init /\ [][Next]_vars

-----------------------------------------------------------------------------
\* What one read costs is bounded, whatever the remote does and says.  Of a feed
\* or of media no more is kept than its limit, also when the answer names no length
\* or a wrong one; the body of an API's answer has no limit.  A request is repeated
\* only if its failure may pass, after the wait that the answer asked for, and
\* never after one longer than MAX_RETRY_AFTER_SEC, which is left to the fetch
\* schedule; an address that was refused is asked once.
ReadsAreBounded ==
  /\ what # "api" => kept <= Limit
  /\ at = "request" /\ attempt > 1 =>
       /\ error.retryable /\ error.category # "blocked_address"
       /\ error.after # None => waited >= error.after
       /\ waited <= MaxRetryAfter
=============================================================================
