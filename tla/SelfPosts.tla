----------------------------- MODULE SelfPosts -----------------------------
(***************************************************************************)
(* The posts the owner shares and reshares (apis/selfposts.py and the      *)
(* commands of stream/api_view.py) in one second, when their guids differ  *)
(* only by a suffix, to services of two classes.  Several browser tabs may *)
(* send at once.                                                           *)
(***************************************************************************)
EXTENDS Naturals, FiniteSets

CONSTANTS
  Posts,         \* the posts sent in one second
  Classes,       \* the posts services, one of each class
  MaxPerSecond,  \* _MAX_POSTS_PER_SECOND
  MaxEdits       \* bound: the edits of posts

VARIABLES
  post,       \* where each post is, its service and its guid's number
  stored,     \* the posts with a committed row
  requests,   \* the posts whose publish request is stored
  edits       \* the edits made

vars == <<post, stored, requests, edits>>

Steps == {"idle", "insert", "register", "uploads", "publish", "shared", "lost"}

\* Numbers beyond MaxPerSecond are tried by nobody.
TypeOK ==
  /\ post \in [Posts -> [at : Steps, service : Classes, held : Classes, n : 1..(MaxPerSecond + 1),
                         draft : BOOLEAN, reshare : BOOLEAN]]
  /\ stored \subseteq Posts /\ requests \subseteq Posts
  /\ edits \in 0..MaxEdits

Init ==
  /\ post \in [Posts -> {[at |-> "idle", service |-> c, held |-> c, n |-> 1, draft |-> d, reshare |-> r] :
                          c \in Classes, d \in BOOLEAN, r \in BOOLEAN}]
  /\ stored = {} /\ requests = {}
  /\ edits = 0

-----------------------------------------------------------------------------

\* The unique constraint is of service and guid.
Guid(p) == <<post[p].service, post[p].n>>
Takers(p) == {q \in Posts \ {p} : Guid(q) = Guid(p)}

\* A row inserted by a transaction that is still open: another insert of that
\* guid waits for its end.
MustWait(p) == \E q \in Takers(p) : post[q].at = "register"
Taken(p) == Takers(p) \cap stored # {}

Moves(p, step) == post' = [post EXCEPT ![p].at = step]

\* build: a post, or reshare, which has no draft.
build(p) ==
  /\ post[p].at = "idle"
  /\ post[p].reshare => ~post[p].draft
  /\ Moves(p, "insert")
  /\ UNCHANGED <<stored, requests, edits>>

\* Mutant: range(2, _MAX_POSTS_PER_SECOND + 1), one try too few.
OneFewer(p) == post[p].n < MaxPerSecond

MayTry(p) == post[p].n <= MaxPerSecond

\* _insert: save under the guid, or take the next number.  share commits its
\* row; reshare is within its own transaction.
_insert(p) ==
  /\ post[p].at = "insert" /\ ~MustWait(p)
  /\ \/ /\ MayTry(p) /\ ~Taken(p)
        /\ IF post[p].reshare
           THEN Moves(p, "register") /\ UNCHANGED stored
           ELSE Moves(p, "uploads") /\ stored' = stored \cup {p}
     \/ /\ MayTry(p) /\ Taken(p)
        /\ post' = [post EXCEPT ![p].n = @ + 1]
        /\ UNCHANGED stored
     \/ /\ ~MayTry(p)
        /\ Moves(p, "lost")
        /\ UNCHANGED stored
  /\ UNCHANGED <<requests, edits>>

\* A service where the guid is free; elsewhere a write raises IntegrityError.
MayMove(p, c) ==
  \A q \in Posts \ {p} : q \in stored \/ post[q].at = "register" => Guid(q) # <<c, post[p].n>>

\* With uploads the row is saved again, with the service the post was made for.
_store_uploads(p) ==
  /\ MayMove(p, post[p].held)
  /\ post' = [post EXCEPT ![p].service = post[p].held, ![p].at = "publish"]

\* share, after its insert: uploads, if there are any, and the media.  An error
\* there leaves the row and answers None, so nothing is published.
StoreUploads(p) ==
  /\ post[p].at = "uploads"
  /\ Moves(p, "publish") \/ Moves(p, "shared") \/ _store_uploads(p)
  /\ UNCHANGED <<stored, requests, edits>>

\* Mutant: a failed reshare keeps its row, as a failed share does.
KeptAnyway(p) == stored \cup {p}

RolledBack(p) == stored

\* reshare: extract_and_register, and the end of the transaction.
Register(p) ==
  /\ post[p].at = "register"
  /\ \/ Moves(p, "publish") /\ stored' = stored \cup {p}
     \/ /\ post' = [post EXCEPT ![p].at = "idle", ![p].n = 1]
        /\ stored' = RolledBack(p)
  /\ UNCHANGED <<requests, edits>>

\* _cmd_share and _cmd_reshare, with the draft flag the post was sent with.
Publish(p) ==
  /\ post[p].at = "publish"
  /\ requests' = IF post[p].draft THEN requests ELSE requests \cup {p}
  /\ Moves(p, "shared")
  /\ UNCHANGED <<stored, edits>>

\* The services of another class, one of which the composer may name.
class_service(p) == Classes \ {post[p].service}

\* putcontent with the class of another service, or with another draft flag.
_cmd_putcontent(p) ==
  /\ p \in stored /\ post[p].at \in {"shared", "uploads"}
  /\ edits < MaxEdits /\ edits' = edits + 1
  /\ \/ \E c \in class_service(p) :
          /\ MayMove(p, c)
          /\ post' = [post EXCEPT ![p].service = c, ![p].held = IF post[p].at = "shared" THEN c ELSE @]
     \/ post[p].at = "shared" /\ post' = [post EXCEPT ![p].draft = ~@]
  /\ UNCHANGED <<stored, requests>>

Next == \E p \in Posts : build(p) \/ _insert(p) \/ StoreUploads(p) \/ Register(p)
                         \/ Publish(p) \/ _cmd_putcontent(p)

Spec == Init /\ [][Next]_vars

-----------------------------------------------------------------------------
\* Posts of one second have guids of their own in each service, also after one
\* was moved to another class; and a post is lost only when its second is full.
OwnGuids ==
  /\ \A p, q \in stored : p # q => Guid(p) # Guid(q)
  /\ \A p \in Posts : post[p].at = "lost" => Cardinality(stored) >= MaxPerSecond

\* Only posts with a row are announced; and a reshare is stored exactly when it
\* was announced or is about to be, so that none that failed is left behind.
AnnouncedPostsAreStored ==
  /\ requests \subseteq stored
  /\ \A p \in stored : post[p].reshare => p \in requests \/ post[p].at = "publish"
=============================================================================
