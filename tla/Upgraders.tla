----------------------------- MODULE Upgraders -----------------------------
(***************************************************************************)
(* What the upgraders of upgrades/ and the renderers of filters/players.py *)
(* and filters/music.py make of an entry's content.                        *)
(*                                                                         *)
(* Content is a sequence of blocks and the text around them.  A block is a *)
(* video's player, an old player of a song, or a music card; its markup is *)
(* that of an old import or today's.  Its thumbnail is in an old box or    *)
(* format, in today's, or remote.  A local thumbnail is a file, named for  *)
(* its address: one file for each video and size.                          *)
(***************************************************************************)
EXTENDS Naturals, Sequences, FiniteSets, SequencesExt, Functions

CONSTANTS
  Videos,   \* the videos players show
  OnVimeo,  \* those of them Vimeo has; YouTube has the others
  None      \* no proposal

Providers == {"youtube", "vimeo"}
Keys == Providers \cup {"music", "post-videos"}
ProviderOf(video) == IF video \in OnVimeo THEN "vimeo" ELSE "youtube"

Block == [type : {"player", "song", "card"}, markup : {"old", "now"},
          video : Videos, thumb : {"old", "now", "remote"}]
Content == [blocks : Seq(Block), text : {"plain", "edited"}]
File == Videos \X {"old", "now"}

FileOf(block) == <<block.video, block.thumb>>

\* The files of the thumbnails that content shows.
thumb_rels(c) == {FileOf(b) : b \in {b \in Range(c.blocks) : b.thumb # "remote"}}

Player(video, thumb) == [type |-> "player", markup |-> "now", video |-> video, thumb |-> thumb]
Card(video, thumb) == [Player(video, thumb) EXCEPT !.type = "card"]

\* The places of the players of content, those in a card left out.
find_blocks(c) == {i \in DOMAIN c.blocks : c.blocks[i].type = "player"}

\* In today's box, and a local copy that is on disk for a public service.
thumbnail_is_current(block, public, disk) ==
  IF public THEN block.thumb = "now" /\ FileOf(block) \in disk
            ELSE block.thumb = "remote"

\* Where a thumbnail is served from once it is fetched.
localize(public) == IF public THEN "now" ELSE "remote"

-----------------------------------------------------------------------------
(* The video of an imported entry: YoutubeUpgrader and VimeoUpgrader. *)

find_player(c, provider) ==
  LET of == {i \in find_blocks(c) : ProviderOf(c.blocks[i].video) = provider}
  IN  IF of = {} THEN None ELSE c.blocks[CHOOSE i \in of : \A j \in of : i <= j]

\* videos.build: the player takes the place of the whole content.
build(video, thumb) == [blocks |-> <<Player(video, thumb)>>, text |-> "plain"]

ImportOffline(c, provider, public, disk) ==
  LET player == find_player(c, provider)
  IN  IF player = None THEN None
      ELSE IF ~thumbnail_is_current(player, public, disk) THEN None
      ELSE build(player.video, player.thumb)

ImportProposal(c, provider, chosen, public, disk) ==
  LET player == find_player(c, provider)
      offline == ImportOffline(c, provider, public, disk)
  IN  IF player = None THEN None
      ELSE IF chosen = player.video /\ offline # None THEN offline
      ELSE build(chosen, localize(public))

-----------------------------------------------------------------------------
(* The players of a post: PostVideosUpgrader, players.canonical and render. *)

\* _rewrite: every player again in today's markup, with the thumbnail src_of
\* gives for its place.
_rewrite(c, VideoAt(_), ThumbAt(_)) ==
  [c EXCEPT !.blocks = [i \in DOMAIN @ |->
     IF i \in find_blocks(c) THEN Player(VideoAt(i), ThumbAt(i)) ELSE @[i]]]

canonical(c, public, disk) ==
  IF \A i \in find_blocks(c) : thumbnail_is_current(c.blocks[i], public, disk)
  THEN _rewrite(c, LAMBDA i : c.blocks[i].video, LAMBDA i : c.blocks[i].thumb)
  ELSE None

\* The owner may have chosen another video for the first player.
PostProposal(c, chosen, public, disk) ==
  LET first(i) == \A j \in find_blocks(c) : i <= j
      video(i) == IF first(i) THEN chosen ELSE c.blocks[i].video
      thumb(i) == IF video(i) = c.blocks[i].video
                     /\ thumbnail_is_current(c.blocks[i], public, disk)
                  THEN c.blocks[i].thumb
                  ELSE localize(public)
  IN  IF find_blocks(c) = {} THEN None ELSE _rewrite(c, video, thumb)

-----------------------------------------------------------------------------
(* The music of a post: MusicUpgrader and the cards of filters/music.py. *)

_find_song(c) == {i \in DOMAIN c.blocks : c.blocks[i].type = "song"}

\* _offline_content: each card once more by today's renderer.
_rerender_cards(c) ==
  [c EXCEPT !.blocks = [i \in DOMAIN @ |->
     IF @[i].type = "card" THEN [@[i] EXCEPT !.markup = "now"] ELSE @[i]]]

MusicOffline(c) == IF _find_song(c) # {} THEN None ELSE _rerender_cards(c)

\* The track the owner described: the video he found for it, and a cover that
\* is saved locally, whatever the service.
build_track(chosen) == Card(chosen, "now")

\* A card for the first song.
MusicProposal(c, chosen) ==
  LET first == CHOOSE i \in _find_song(c) : \A j \in _find_song(c) : i <= j
  IN  IF _find_song(c) = {} THEN MusicOffline(c)
      ELSE _rerender_cards([c EXCEPT !.blocks[first] = build_track(chosen)])

-----------------------------------------------------------------------------

propose_offline(key, c, public, disk) ==
  CASE key \in Providers    -> ImportOffline(c, key, public, disk)
    [] key = "post-videos"  -> canonical(c, public, disk)
    [] key = "music"        -> MusicOffline(c)

propose(key, c, chosen, public, disk) ==
  CASE key \in Providers    -> ImportProposal(c, key, chosen, public, disk)
    [] key = "post-videos"  -> PostProposal(c, chosen, public, disk)
    [] key = "music"        -> MusicProposal(c, chosen)

\* What the upgrader could bring up to date is there at all.
Shows(key, c) ==
  CASE key \in Providers    -> find_player(c, key) # None
    [] key = "post-videos"  -> find_blocks(c) # {}
    [] key = "music"        -> \E b \in Range(c.blocks) : b.type \in {"song", "card"}

is_legacy(key, c, public, disk) ==
  Shows(key, c) /\ propose_offline(key, c, public, disk) # c

\* A YouTube import never registers its thumbnail, a Vimeo upload and a post do.
registers_media(key) == key # "youtube"
=============================================================================
