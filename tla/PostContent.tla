----------------------------- MODULE PostContent -----------------------------
(***************************************************************************)
(* What a timeline's post looks like as an entry: the text of an AT        *)
(* Protocol post with its facets (_render_facet_text of apis/atproto.py),  *)
(* and the attachments of a Mastodon post, as markup and as the list of    *)
(* videos beside it (_render_media_attachments and _build_video_mblob of   *)
(* apis/mastodon.py).                                                      *)
(*                                                                         *)
(* A facet names a range of the text in bytes, as the author's client      *)
(* counted them.  Of the text only its length and the bytes at which a     *)
(* character starts are told apart; a piece of markup is the range it      *)
(* shows.  One action is one turn of a loop.                               *)
(***************************************************************************)
EXTENDS Integers, Sequences

CONSTANTS
  Bytes,          \* bound: the longest text
  Kinds,          \* the kinds of features: targets, and "unsafe" for an unsafe address
  MaxFeatures,    \* bound: the features of a facet
  MaxFacets,      \* bound: the facets of a post
  MaxAttachments  \* bound: its attachments

VARIABLES
  rendering,    \* the loop: "text", "tail", "markup", "mblob" or "done"
  length,       \* of the text, in bytes
  starts,       \* the bytes at which a character starts, and the end
  facets,       \* what is left of the facets, in order of their starts
  current,      \* the byte up to which the text is rendered
  chunks,       \* the pieces rendered
  given,        \* the facets as they came
  attachments,  \* of the post
  turn,         \* the attachment whose turn it is
  thumbnails,   \* images collected and not yet written
  markup,       \* the markup written: rows of thumbnails, and players
  mblob         \* the videos stored beside the entry

textVars == <<length, starts, facets, current, chunks, given>>
mediaVars == <<attachments, turn, thumbnails, markup, mblob>>
vars == <<rendering, textVars, mediaVars>>

Lists(S, n) == UNION {[1..m -> S] : m \in 0..n}

\* A start of -1 is that of a facet without a range.
Facet == [start : -1..Bytes, end : 0..(Bytes + 1), features : Lists(Kinds, MaxFeatures)]
Targets == {"link", "mention", "tag"}
Chunk == [from : 0..Bytes, to : 0..Bytes, target : Targets \cup {"none"}]

Attachment == [type : {"image", "video", "gifv", "audio"}, safe : BOOLEAN]
Turns == 1..MaxAttachments

TypeOK ==
  /\ rendering \in {"text", "tail", "markup", "mblob", "done"}
  /\ length \in 0..Bytes /\ starts \subseteq 0..Bytes
  /\ facets \in Seq(Facet) /\ given \in Seq(Facet)
  /\ current \in 0..Bytes
  /\ chunks \in Seq(Chunk)
  /\ attachments \in Seq(Attachment)
  /\ turn \in 1..(MaxAttachments + 1)
  /\ thumbnails \in Seq(Turns)
  /\ markup \in Seq([kind : {"thumbnails", "player"}, of : Seq(Turns)])
  /\ mblob \in Seq([of : Turns, isdefault : BOOLEAN])

-----------------------------------------------------------------------------
(* The text of a post with facets.                                         *)

\* A stable sort by byte_start.
Sorted(s) ==
  LET IsOrder(p) ==
        /\ \A i, j \in DOMAIN s : i # j => p[i] # p[j]
        /\ \A i, j \in DOMAIN s :
             i < j => \/ s[p[i]].start < s[p[j]].start
                      \/ s[p[i]].start = s[p[j]].start /\ p[i] < p[j]
      order == CHOOSE p \in [DOMAIN s -> DOMAIN s] : IsOrder(p)
  IN  [i \in DOMAIN s |-> s[order[i]]]

Init ==
  /\ \/ rendering = "text" /\ given \in Lists(Facet, MaxFacets) /\ attachments = <<>>
     \/ rendering = "markup" /\ given = <<>> /\ attachments \in Lists(Attachment, MaxAttachments)
  /\ length \in IF rendering = "text" THEN 0..Bytes ELSE {0}
  /\ starts \in {S \cup {0, length} : S \in SUBSET (0..length)}
  /\ facets = Sorted(given)
  /\ current = 0 /\ chunks = <<>>
  /\ turn = 1 /\ thumbnails = <<>> /\ markup = <<>> /\ mblob = <<>>

\* Mutant: a facet may start within the one before it.
IsRange(f) == f.start >= 0 /\ f.start < f.end /\ f.end <= length
InRange(f) == f.start >= current /\ f.start < f.end /\ f.end <= length

\* The first feature that can be linked to; an address has to be safe.
Usable(f) == {i \in DOMAIN f.features : f.features[i] \in Targets}
TargetOf(f) == f.features[CHOOSE i \in Usable(f) : \A j \in Usable(f) : i <= j]

\* Both ranges can be decoded: `current` is where a character starts.
Decodes(f) == f.start \in starts /\ f.end \in starts

Piece(from, to, target) == [from |-> from, to |-> to, target |-> target]

RenderFacet ==
  /\ rendering = "text" /\ facets # <<>>
  /\ facets' = Tail(facets)
  /\ LET f == Head(facets)
     IN  IF InRange(f) /\ Usable(f) # {} /\ Decodes(f)
         THEN /\ chunks' = chunks \o <<Piece(current, f.start, "none"),
                                       Piece(f.start, f.end, TargetOf(f))>>
              /\ current' = f.end
         ELSE UNCHANGED <<chunks, current>>
  /\ UNCHANGED <<rendering, length, starts, given, mediaVars>>

FacetsEnd ==
  /\ rendering = "text" /\ facets = <<>>
  /\ rendering' = "tail"
  /\ UNCHANGED <<textVars, mediaVars>>

\* The rest, or the whole text where the rest cannot be decoded.
RenderTail ==
  /\ rendering = "tail"
  /\ chunks' = Append(chunks, IF current \in starts THEN Piece(current, length, "none")
                                                    ELSE Piece(0, length, "none"))
  /\ current' = length
  /\ rendering' = "done"
  /\ UNCHANGED <<length, starts, facets, given, mediaVars>>

-----------------------------------------------------------------------------
(* The attachments of a post.                                              *)

IsVideo(a) == a.type \in {"video", "gifv"}
Shown(i) == attachments[i].safe /\ attachments[i].type # "audio"

\* The images collected so far are written as one row.
Row == [kind |-> "thumbnails", of |-> thumbnails]
Flushed == IF thumbnails = <<>> THEN markup ELSE Append(markup, Row)

Player(i) == [kind |-> "player", of |-> <<i>>]

\* Mutant: a player is written without the images before it.
PlayerFirst(i) == Append(markup, Player(i))
\* Before a video, whether it can be shown or not, the images are written.
WithPlayer(i) == IF Shown(i) THEN Append(Flushed, Player(i)) ELSE Flushed

RenderAttachment ==
  /\ rendering = "markup" /\ turn <= Len(attachments)
  /\ CASE attachments[turn].type = "image" ->
            /\ thumbnails' = IF Shown(turn) THEN Append(thumbnails, turn) ELSE thumbnails
            /\ UNCHANGED markup
       [] IsVideo(attachments[turn]) ->
            /\ markup' = WithPlayer(turn)
            /\ thumbnails' = <<>>
       [] attachments[turn].type = "audio" -> UNCHANGED <<thumbnails, markup>>
  /\ turn' = turn + 1
  /\ UNCHANGED <<rendering, textVars, attachments, mblob>>

AttachmentsEnd ==
  /\ rendering = "markup" /\ turn > Len(attachments)
  /\ markup' = Flushed /\ thumbnails' = <<>>
  /\ turn' = 1
  /\ rendering' = "mblob"
  /\ UNCHANGED <<textVars, attachments, mblob>>

\* The first video that is listed is the default one.
ListVideo ==
  /\ rendering = "mblob" /\ turn <= Len(attachments)
  /\ mblob' = IF IsVideo(attachments[turn]) /\ Shown(turn)
              THEN Append(mblob, [of |-> turn, isdefault |-> mblob = <<>>])
              ELSE mblob
  /\ turn' = turn + 1
  /\ UNCHANGED <<rendering, textVars, attachments, thumbnails, markup>>

VideosEnd ==
  /\ rendering = "mblob" /\ turn > Len(attachments)
  /\ rendering' = "done"
  /\ UNCHANGED <<textVars, mediaVars>>

Next ==
  \/ RenderFacet \/ FacetsEnd \/ RenderTail
  \/ RenderAttachment \/ AttachmentsEnd \/ ListVideo \/ VideosEnd

Spec == Init /\ [][Next]_vars

-----------------------------------------------------------------------------
\* The text is shown once and whole, whatever ranges the facets name: each
\* piece starts where the one before it ends and where a character starts.
TextIsWhole ==
  rendering = "done" /\ chunks # <<>> =>
    /\ chunks[1].from = 0 /\ chunks[Len(chunks)].to = length
    /\ \A i \in 1..Len(chunks) :
         /\ chunks[i].from <= chunks[i].to
         /\ {chunks[i].from, chunks[i].to} \subseteq starts
         /\ i > 1 => chunks[i - 1].to = chunks[i].from

\* A facet that can be shown, and overlaps no other of these, is a link,
\* whatever the order of the list.
Valid(f) ==
  /\ 0 <= f.start /\ f.start < f.end /\ f.end <= length
  /\ Usable(f) # {} /\ Decodes(f)
Apart(f, g) == f.end <= g.start \/ g.end <= f.start

LinksAreKept ==
  rendering = "done" =>
    \A i \in DOMAIN given :
      /\ Valid(given[i])
      /\ \A j \in DOMAIN given \ {i} : Valid(given[j]) => Apart(given[i], given[j])
      => \E c \in DOMAIN chunks :
           chunks[c] = Piece(given[i].start, given[i].end, TargetOf(given[i]))

\* Every attachment that can be shown is shown once, in the order of the post,
\* and the entry's list has just the videos that have a player.
Before(g, k, h, l) == g < h \/ (g = h /\ k < l)

MediaInOrder ==
  rendering = "done" =>
    /\ \A i \in DOMAIN attachments : Shown(i) =>
         \E g \in DOMAIN markup : \E k \in DOMAIN markup[g].of : markup[g].of[k] = i
    /\ \A g, h \in DOMAIN markup : \A k \in DOMAIN markup[g].of, l \in DOMAIN markup[h].of :
         /\ Shown(markup[g].of[k])
         /\ Before(g, k, h, l) => markup[g].of[k] < markup[h].of[l]
    /\ \A i \in DOMAIN attachments :
         (\E g \in DOMAIN markup : markup[g] = Player(i)) <=> (\E v \in DOMAIN mblob : mblob[v].of = i)
    /\ \A v \in DOMAIN mblob : mblob[v].isdefault <=> v = 1

\* What the author wrote and attached is in the entry, once and in order.
ContentIsKept == TextIsWhole /\ LinksAreKept /\ MediaInOrder
=============================================================================
