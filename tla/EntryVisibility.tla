--------------------------- MODULE EntryVisibility ---------------------------
(***************************************************************************)
(* Who is shown what: one request for a page of entries, from the filters  *)
(* its viewer gets to the page (stream/index_view.py), or for the content  *)
(* of one entry (_cmd_getcontent of stream/api_view.py), with the owner    *)
(* changing entries and services meanwhile.                                *)
(*                                                                         *)
(* The viewer is the owner, a friend or a stranger (gauth/request_auth.py).*)
(* An entry is a draft, for friends only, or neither; its service is       *)
(* public or not, and of the home page or not.  The templates show title   *)
(* and content through gls_title and gls_content, whose masking is here.   *)
(* How a page is cut (StreamPages), cached (PageCache) and narrowed by     *)
(* class, author or date is left out.                                      *)
(***************************************************************************)
EXTENDS FiniteSets

CONSTANTS
  Entries,   \* entries of the stream
  Changing,  \* bound: those of them that change while a request is answered
  None       \* no entry; nothing loaded

VARIABLES
  sso,       \* MAGICSSO_ENABLED
  articles,  \* what is stored of each entry and its service
  favored,   \* the owner's favorites
  listed,    \* the entries of the services of a list
  viewer,    \* who asks, as the request's middlewares found
  asked,     \* the request: where it is and what it asks for
  filters,   \* of the query
  loaded,    \* the entries the query read, None for the others
  masked,    \* those of them whose friends_only still stands
  titled,    \* whether the page has the title of its entry
  months,    \* the entries whose months the page lists, as the query read them
  response   \* the kind of answer

pageVars == <<filters, loaded, masked, titled, months, response>>
vars == <<sso, articles, favored, listed, viewer, asked, pageVars>>

Article == [active : BOOLEAN, draft : BOOLEAN, friends_only : BOOLEAN,
            public : BOOLEAN, home : BOOLEAN]
Viewer == [authenticated : BOOLEAN, staff : BOOLEAN, magic : BOOLEAN]
Pages == {"stream", "public", "favorites", "list", "entry", "content"}
Filters == [home : BOOLEAN, public : BOOLEAN, final : BOOLEAN, open : BOOLEAN,
            ids : SUBSET Entries]

TypeOK ==
  /\ sso \in BOOLEAN
  /\ articles \in [Entries -> Article]
  /\ favored \subseteq Entries /\ listed \subseteq Entries
  /\ viewer \in Viewer
  /\ asked \in [at : {"none", "context", "query", "decorate", "validate", "render"},
                page : Pages, search : BOOLEAN, entry : Entries,
                path : {"bare", "titled", "other"}]
  /\ filters \in Filters
  /\ loaded \in [Entries -> Article \cup {None}]
  /\ masked \subseteq Entries /\ titled \in BOOLEAN
  /\ months \in [Entries -> Article \cup {None}]
  /\ response \in {"none", "page", "link", "start", "missing", "error", "content"}

-----------------------------------------------------------------------------
(* get_request_auth_state                                                  *)

authed == viewer.authenticated /\ viewer.staff
magic_friend == sso /\ viewer.magic
legacy_friend == viewer.authenticated /\ ~viewer.staff
friend == ~authed /\ (magic_friend \/ legacy_friend)

NoFilters == [home |-> TRUE, public |-> FALSE, final |-> FALSE, open |-> FALSE, ids |-> Entries]
NothingLoaded == [e \in Entries |-> None]

Init ==
  /\ sso \in BOOLEAN
  /\ articles \in [Entries -> Article]
  /\ favored \in SUBSET Entries /\ listed \in SUBSET Entries
  /\ viewer \in {v \in Viewer : v.staff => v.authenticated}
  /\ asked \in [at : {"none"}, page : {"stream"}, search : {FALSE}, entry : Entries, path : {"bare"}]
  /\ filters = NoFilters /\ loaded = NothingLoaded
  /\ masked = {} /\ titled = FALSE /\ months = NothingLoaded /\ response = "none"

-----------------------------------------------------------------------------
(* render_index, function by function.                                     *)

Moves(step) == asked' = [asked EXCEPT !.at = step]

\* build_index_request_state and build_index_query_state
Request ==
  /\ asked.at = "none" /\ response = "none"
  /\ \E page \in Pages, search \in BOOLEAN, e \in Entries, path \in {"bare", "titled", "other"} :
       /\ page = "content" => ~search
       /\ page # "entry" => path = "bare"
       /\ asked' = [at |-> "context", page |-> page, search |-> search, entry |-> e, path |-> path]
  /\ UNCHANGED <<sso, articles, favored, listed, viewer, pageVars>>

\* Mutant: an entry's own page is not restricted to what is public.
WithoutPublic == asked.page = "entry"
\* For an entry's own page the owner needs no public service.
DropsPublic == asked.page = "entry" /\ authed

ByReader ==
  [NoFilters EXCEPT !.final = ~authed,
                    !.public = (~authed \/ asked.page = "public") /\ ~DropsPublic]

\* A list is looked up by its user: nobody else has it, and a visitor without
\* an account cannot be looked up at all.
apply_context_filters ==
  /\ asked.at = "context" /\ asked.page # "content"
  /\ CASE asked.page = "favorites" /\ ~authed ->
            /\ response' = "start" /\ Moves("none") /\ UNCHANGED filters
       [] asked.page = "list" /\ ~viewer.authenticated ->
            /\ response' = "error" /\ Moves("none") /\ UNCHANGED filters
       [] OTHER ->
            /\ filters' =
                 [ByReader EXCEPT
                    !.home = ~(asked.page = "list" /\ authed),
                    !.ids = CASE asked.page = "favorites" -> favored
                              [] asked.page = "list" /\ authed -> listed
                              [] asked.page = "entry" -> {asked.entry}
                              [] OTHER -> Entries]
            /\ Moves("query") /\ UNCHANGED response
  /\ UNCHANGED <<sso, articles, favored, listed, viewer, loaded, masked, titled, months>>

Passes(f, e) ==
  /\ e \in f.ids /\ articles[e].active
  /\ f.home => articles[e].home
  /\ f.public => articles[e].public
  /\ f.final => ~articles[e].draft
  /\ f.open => ~articles[e].friends_only

Found(f) == [e \in Entries |-> IF Passes(f, e) THEN articles[e] ELSE None]
On(entries) == {e \in Entries : entries[e] # None}

\* Strangers find nothing by its content that they may not read.
ForSearch == [filters EXCEPT !.open = ~authed /\ ~friend]

\* The one query of the page; only a page that is not a search takes its title
\* from the entry.
run_index_query ==
  /\ asked.at = "query"
  /\ loaded' = Found(IF asked.search THEN ForSearch ELSE filters)
  /\ titled' = (asked.page = "entry" /\ ~asked.search /\ On(loaded') # {})
  /\ Moves("decorate")
  /\ UNCHANGED <<sso, articles, favored, listed, viewer, filters, masked, months, response>>

\* friends_only stays set for strangers, and takes the page's title away.
decorate_entries ==
  /\ asked.at = "decorate"
  /\ masked' = {e \in On(loaded) : loaded[e].friends_only /\ ~authed /\ ~friend}
  /\ titled' = (titled /\ masked' = {})
  /\ Moves("validate")
  /\ UNCHANGED <<sso, articles, favored, listed, viewer, filters, loaded, months, response>>

\* The path of an entry's page ends in its title, unless it is masked.
entry_link(e) == IF e \in masked THEN "bare" ELSE "titled"

validate_exact_entry_request ==
  /\ asked.at = "validate"
  /\ IF asked.page = "entry" /\ On(loaded) = {}
     THEN response' = "missing" /\ Moves("none")
     ELSE IF asked.page = "entry" /\ asked.path # entry_link(asked.entry)
          THEN response' = "link" /\ Moves("none")
          ELSE Moves("render") /\ UNCHANGED response
  /\ UNCHANGED <<sso, articles, favored, listed, viewer, filters, loaded, masked, titled, months>>

\* An entry's page lists the months of the stream it belongs to.
ForMonths == [filters EXCEPT !.ids = IF asked.page = "entry" THEN Entries ELSE @]

\* dispatch_index_format: the months come from a query of their own.
Render ==
  /\ asked.at = "render"
  /\ months' = Found(ForMonths)
  /\ response' = "page"
  /\ Moves("none")
  /\ UNCHANGED <<sso, articles, favored, listed, viewer, filters, loaded, masked, titled>>

\* _cmd_getcontent of api_view.py: strangers reach it too, and the owner gets the
\* content of any entry.
_cmd_getcontent ==
  /\ asked.at = "context" /\ asked.page = "content"
  /\ LET f == [NoFilters EXCEPT !.home = FALSE, !.public = ~authed, !.final = ~authed,
                                !.ids = {asked.entry}]
     IN  loaded' = [e \in Entries |-> IF Passes(f, e) \/ (authed /\ e = asked.entry)
                                      THEN articles[e] ELSE None]
  /\ masked' = {e \in On(loaded') : loaded'[e].friends_only /\ ~authed /\ ~friend}
  /\ response' = "content"
  /\ Moves("none")
  /\ UNCHANGED <<sso, articles, favored, listed, viewer, filters, titled, months>>

-----------------------------------------------------------------------------
(* The owner, in another tab: an entry or its service is changed.          *)

Change(e) ==
  /\ response = "none"
  /\ \E field \in {"active", "draft", "friends_only", "public", "home"} :
       articles' = [articles EXCEPT ![e][field] = ~@]
  /\ UNCHANGED <<sso, favored, listed, viewer, asked, pageVars>>

Next ==
  \/ Request \/ apply_context_filters \/ run_index_query \/ decorate_entries
  \/ validate_exact_entry_request \/ Render \/ _cmd_getcontent
  \/ \E e \in Changing : Change(e)

Spec == Init /\ [][Next]_vars

-----------------------------------------------------------------------------
\* What a viewer may see of an entry as it was stored: that it is there, and
\* what it says.
MayList(a) == authed \/ (a.active /\ ~a.draft /\ a.public)
MayRead(a) == MayList(a) /\ (authed \/ friend \/ ~a.friends_only)

\* Every answer shows just what its viewer may see of the entries as one query
\* read them, whatever the owner changes meanwhile: the entries, their contents,
\* and what tells of a content without showing it - a result of a search, the
\* title of the page and the path of an entry.  What may be read is not masked;
\* the months are those of such entries, as their own query read them; and the
\* page named public has nothing else, for the owner too.
OnlyMayShow ==
  response # "none" =>
    /\ \A e \in On(loaded) :
         /\ MayList(loaded[e])
         /\ e \notin masked <=> MayRead(loaded[e])
         /\ asked.search \/ titled \/ entry_link(e) = "titled" => MayRead(loaded[e])
         /\ asked.page = "public" => loaded[e].public
    /\ asked.page = "entry" => On(loaded) \subseteq {asked.entry}
    /\ \A e \in On(months) :
         MayList(months[e]) /\ (asked.page = "public" => months[e].public)
=============================================================================
