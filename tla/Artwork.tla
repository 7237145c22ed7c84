------------------------------- MODULE Artwork -------------------------------
(***************************************************************************)
(* The artwork of one content item and who may see it uncovered: the       *)
(* moderation summary the viewer is shown, the reveal hook that every      *)
(* surface keeps for itself (useModerationArtworkReveal), and the lightbox *)
(* that the gallery and the episodes of a season open on their images.     *)
(*                                                                         *)
(* The page keeps its components while the reader goes from item to item   *)
(* and while the item is read again, so what a surface remembers outlives  *)
(* the picture it was about.  Urls are model values; a zoom of 1 is 2 here *)
(* and a ZOOM_STEP is 1.                                                   *)
(***************************************************************************)
EXTENDS Integers, Sequences, FiniteSets

CONSTANTS Items,      \* what may be opened: [id, type, banner, images, card]
          NoImage,    \* no url
          MaxIndex    \* bound on the index the keys can walk to

VARIABLES page,       \* what is on the page: [view, item, summary]
          viewer,     \* [visibility, allow]: the server's flag, the preference
          reveal,     \* per mounted surface: artworkState, [key, isRevealed]
          lightbox,   \* per gallery: [index, zoom, metadata, direction]
          asked       \* history: what the viewer asked to see, and is still there

vars == <<page, viewer, reveal, lightbox, asked>>

Surfaces == {"card", "banner", "gallery", "episodes"}
Galleries == {"gallery", "episodes"}
Null == 0                                \* activeIndex null; an index counts from 1
NoSummary == [status |-> "none", classification |-> "none"]
Summaries ==
  {NoSummary} \cup [status : {"missing", "pending", "stale", "error"}, classification : {"none"}]
              \cup [status : {"complete"}, classification : {"safe", "explicit", "needs_review"}]

-----------------------------------------------------------------------------
(* Which pictures an item has, and where they are shown. *)

\* Every url once, where it first appears.
Distinct(urls) == SelectSeq([k \in DOMAIN urls |-> [at |-> k, url |-> urls[k]]],
                            LAMBDA x : \A j \in 1..(x.at - 1) : urls[j] # x.url)
ExtractGalleryImages(item) ==
  IF item.type \in {"MOVIE", "TV_SHOW", "GAME"} THEN Distinct(item.images) ELSE <<>>
\* The episodes of a season that have a still.
EpisodeGalleryItems(item) ==
  IF item.type = "SEASON"
    THEN SelectSeq([k \in DOMAIN item.images |-> [at |-> k, url |-> item.images[k]]],
                   LAMBDA x : x.url # NoImage)
    ELSE <<>>
GalleryOf(s, item) == IF s = "gallery" THEN ExtractGalleryImages(item) ELSE EpisodeGalleryItems(item)

GetBannerMedia(item) == IF item.banner # NoImage THEN item.banner ELSE item.card

\* The image a surface's key names.
ImageOf(s, item) ==
  CASE s = "card"   -> item.card
    [] s = "banner" -> GetBannerMedia(item)
    [] OTHER        -> IF GalleryOf(s, item) = <<>> THEN NoImage ELSE GalleryOf(s, item)[1].url

\* The gallery keeps its hook whatever it shows; the episodes are a season's.
Mounted(p) == IF p.view = "cards" THEN {"card"}
              ELSE {"banner", "gallery"} \cup (IF p.item.type = "SEASON" THEN {"episodes"} ELSE {})

-----------------------------------------------------------------------------
(* Moderation, as the viewer is shown it. *)

VisibleModerationSummary(summary, enabled) == IF enabled THEN summary ELSE NoSummary
ShouldBlurModerationArtwork(summary, allow) ==
  ~allow /\ summary.status = "complete" /\ summary.classification = "explicit"

UseVisibleModerationSummary(p, v) == VisibleModerationSummary(p.summary, v.visibility)
RequiresBlur(p, v) == ShouldBlurModerationArtwork(UseVisibleModerationSummary(p, v), v.allow)

ArtworkKey_noImage(s, p, v) ==
  <<p.item.id, UseVisibleModerationSummary(p, v), v.allow>>
ArtworkKey(s, p, v) ==
  <<p.item.id, ImageOf(s, p.item), UseVisibleModerationSummary(p, v), v.allow>>

\* The hook as it renders: another key than the one it holds starts covered.
Hook(s, p, v, before) ==
  IF s \in Mounted(p) /\ before.key = ArtworkKey(s, p, v) THEN before
  ELSE [key |-> IF s \in Mounted(p) THEN ArtworkKey(s, p, v) ELSE <<>>, isRevealed |-> FALSE]

IsRevealed(s) == reveal[s].key = ArtworkKey(s, page, viewer) /\ reveal[s].isRevealed
IsBlurred(s) == RequiresBlur(page, viewer) /\ ~IsRevealed(s)

\* The button is there when the surface has a picture to uncover; a card has it always.
RevealButton(s) ==
  /\ s \in Mounted(page) /\ RequiresBlur(page, viewer)
  /\ s # "card" => ImageOf(s, page.item) # NoImage

\* What is really on a surface, for the history.
Picture(s, p, v) ==
  [on |-> s, id |-> p.item.id, image |-> ImageOf(s, p.item), summary |-> p.summary, viewer |-> v]

-----------------------------------------------------------------------------
(* The lightbox. *)

Closed == [index |-> Null, zoom |-> 2, metadata |-> TRUE, direction |-> 1]
MinZoom == 2
MaxZoom == 5
Count(s) == Len(GalleryOf(s, page.item))
Lit(s) == s \in Mounted(page) /\ lightbox[s].index \in 1..Count(s)
\* Its listener is there as soon as its gallery is, for any index at all.
Listens(s) == s \in Mounted(page) /\ lightbox[s].index # Null /\ Count(s) > 0

GetTransitionDirection(previous, index, count) ==
  IF previous = Null \/ index = Null \/ previous = index \/ count <= 1 THEN 1
  ELSE IF previous = count /\ index = 1 THEN 1
  ELSE IF previous = 1 /\ index = count THEN -1
  ELSE IF index > previous THEN 1 ELSE -1

\* A new index: the picture starts unzoomed with its metadata.
ShowAt(s, index) ==
  lightbox' = [lightbox EXCEPT ![s] =
    [index |-> index, zoom |-> MinZoom, metadata |-> TRUE,
     direction |-> GetTransitionDirection(lightbox[s].index, index, Count(s))]]

Zoomed(z, by) == IF z + by > MaxZoom THEN MaxZoom ELSE IF z + by < MinZoom THEN MinZoom ELSE z + by

-----------------------------------------------------------------------------
(* Every step that changes what is shown renders every hook anew. *)

Render(fresh) ==
  /\ reveal' = [s \in Surfaces |->
       Hook(s, page', viewer', IF fresh THEN [key |-> <<>>, isRevealed |-> FALSE] ELSE reveal[s])]
  /\ asked' = {a \in asked : ~fresh /\ a.on \in Mounted(page') /\ a = Picture(a.on, page', viewer')}
  /\ lightbox' = [s \in Galleries |->
       IF fresh \/ s \notin Mounted(page') THEN Closed
       ELSE IF Len(GalleryOf(s, page'.item)) = 0 THEN [Closed EXCEPT !.index = lightbox[s].index]
       ELSE lightbox[s]]

Init ==
  /\ \E item \in Items : page = [view |-> "cards", item |-> item, summary |-> NoSummary]
  /\ viewer = [visibility |-> FALSE, allow |-> FALSE]
  /\ reveal = [s \in Surfaces |-> Hook(s, page, viewer, [key |-> <<>>, isRevealed |-> FALSE])]
  /\ lightbox = [s \in Galleries |-> Closed]
  /\ asked = {}

\* To a card or a detail page; between items the page stays mounted when the
\* next one is already there.
Open ==
  \E view \in {"cards", "detail"}, item \in Items, summary \in Summaries, kept \in BOOLEAN :
    /\ page' = [view |-> view, item |-> item, summary |-> summary]
    /\ kept => view = page.view
    /\ UNCHANGED viewer
    /\ Render(~kept)

\* The item is read again: its judgment, and with it perhaps its pictures, changed.
Reread ==
  \E item \in Items, summary \in Summaries :
    /\ item.id = page.item.id
    /\ page' = [page EXCEPT !.item = item, !.summary = summary]
    /\ UNCHANGED viewer
    /\ Render(FALSE)

\* The preference or the session changes, and the route gives the provider new values.
ModerationPresentation ==
  \E visibility, allow \in BOOLEAN :
    /\ viewer' = [visibility |-> visibility, allow |-> allow] /\ viewer' # viewer
    /\ UNCHANGED page
    /\ Render(FALSE)

Toggle ==
  \E s \in Surfaces :
    /\ RevealButton(s)
    /\ reveal' = [reveal EXCEPT ![s] =
         [key |-> ArtworkKey(s, page, viewer),
          isRevealed |-> IF @.key = ArtworkKey(s, page, viewer) THEN ~@.isRevealed ELSE TRUE]]
    /\ asked' = IF Picture(s, page, viewer) \in asked THEN asked \ {Picture(s, page, viewer)}
                                                    ELSE asked \cup {Picture(s, page, viewer)}
    /\ UNCHANGED <<page, viewer, lightbox>>

-----------------------------------------------------------------------------
\* A picture of the gallery; the card of an episode that has a still.
OpenAt(s) ==
  /\ s \in Mounted(page) /\ ~Lit("gallery") /\ ~Lit("episodes")
  /\ \E index \in 1..Count(s) : ShowAt(s, index)
  /\ UNCHANGED <<page, viewer, reveal, asked>>
OpenGallery == OpenAt("gallery")
OpenEpisode == OpenAt("episodes")

Left(s, at) == IF at = 1 THEN Count(s) ELSE at - 1
Right(s, at) == IF at = Count(s) THEN 1 ELSE at + 1

\* The arrow keys answer as long as the index is not null, the buttons when it shows.
ArrowKeys ==
  \E s \in Galleries :
    /\ Listens(s) /\ lightbox[s].index < MaxIndex
    /\ \E to \in {Left(s, lightbox[s].index), Right(s, lightbox[s].index)} : ShowAt(s, to)
    /\ UNCHANGED <<page, viewer, reveal, asked>>

PreviousNext ==
  \E s \in Galleries :
    /\ Lit(s)
    /\ \E to \in {Left(s, lightbox[s].index), Right(s, lightbox[s].index)} : ShowAt(s, to)
    /\ UNCHANGED <<page, viewer, reveal, asked>>

\* The keys + and -, the zoom button and the picture itself.
ChangeZoom ==
  \E s \in Galleries, by \in {-1, 1} :
    /\ Listens(s)
    /\ lightbox' = [lightbox EXCEPT ![s].zoom = Zoomed(@, by)]
    /\ UNCHANGED <<page, viewer, reveal, asked>>

ShowMetadata ==
  \E s \in Galleries :
    /\ Lit(s) /\ lightbox' = [lightbox EXCEPT ![s].metadata = ~@]
    /\ UNCHANGED <<page, viewer, reveal, asked>>

CloseLightbox ==
  \E s \in Galleries : Lit(s) /\ ShowAt(s, Null) /\ UNCHANGED <<page, viewer, reveal, asked>>

Next ==
  \/ Open \/ Reread \/ ModerationPresentation \/ Toggle
  \/ OpenGallery \/ OpenEpisode \/ ArrowKeys \/ PreviousNext \/ ChangeZoom \/ ShowMetadata \/ CloseLightbox

Spec == Init /\ [][Next]_vars

-----------------------------------------------------------------------------
(* Artwork that the viewer may not see uncovered is uncovered on a surface  *)
(* exactly when the viewer asked for it there, about the very picture and   *)
(* judgment that is still there: no navigation, new judgment, new image or  *)
(* change of the preference carries a reveal over to another artwork        *)
(* (useModerationArtworkReveal and the five places that call it).           *)
RevealIsAsked ==
  \A s \in Mounted(page) :
    RequiresBlur(page, viewer) => (IsBlurred(s) <=> Picture(s, page, viewer) \notin asked)
=============================================================================
