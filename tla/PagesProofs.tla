----------------------------- MODULE PagesProofs -----------------------------
(* Proofs about the pages of the web client: the dialogs show the record they *)
(* edit, neither a popover nor artwork comes up unasked, search, browse and   *)
(* home show what was asked for, who writes sees it, and a profile is the     *)
(* owner's.  Of the content page and the profile page this module takes the   *)
(* invariants that their own modules prove.                                   *)
EXTENDS MCPages, ContentPageProofs, ProfilePageProofs, TLAPS

-----------------------------------------------------------------------------
(* Forms.  What an untouched dialog shows while nothing is being submitted;  *)
(* only the profile's dialog can be left during a submission, and that one   *)
(* has no error of its own.                                                  *)

FormValues == [of : {"saved", "typed", "invalid", "made"}, n : Nat]
FormRecords ==
    [kind : F!Dialogs \cup F!SignIn, open : BOOLEAN, values : FormValues, base : FormValues,
     error : BOOLEAN]
Shows(f, s, l) ==
    f.open /\ ~F!Changed(f) =>
      /\ f.kind \in {"rating", "editProfile"} => f.values = F!Version(s)
      /\ f.kind = "createList" => f.values = F!Made
      /\ f.kind = "editList" /\ ~l => f.values = F!Version(s)
FormsInv ==
    /\ fForm \in FormRecords /\ fSaved \in Nat /\ fBusy \in BOOLEAN /\ fLeft \in BOOLEAN
    /\ Shows(fForm, fSaved, F!Loading(fJob, fBusy))
    /\ fForm.kind = "editProfile" => ~fForm.error
    /\ fForm.kind \in {"rating", "editList", "createList"} => ~fLeft

LEMMA FormsStart == F!Init => FormsInv
<1> SUFFICES ASSUME F!Init PROVE FormsInv
  OBVIOUS
<1>1. PICK k \in F!Dialogs \cup F!SignIn : fForm = [kind |-> k, open |-> FALSE,
        values |-> F!Version(0), base |-> F!Version(0), error |-> FALSE]
  BY DEF F!Init
<1>2. F!Version(0) \in FormValues
  BY DEF F!Version, FormValues
<1>3. fForm \in FormRecords /\ ~fForm.open /\ ~fForm.error
  BY <1>1, <1>2 DEF FormRecords
<1>4. QED
  BY <1>3 DEF F!Init, FormsInv, Shows

LEMMA FormsImply == FormsInv => F!DialogShowsRecord
  BY DEF FormsInv, FormRecords, F!DialogShowsRecord, Shows, F!IsLoading

\* Rendering a form f shows what it should, if f was just opened or closed or its
\* values are those of the last rendering (Effects).
LEMMA EffectsShow ==
    ASSUME FormsInv, NEW f \in FormRecords, NEW s \in Nat, NEW l \in BOOLEAN,
           f.open /\ fForm.open => f.kind = fForm.kind /\ f.values = fForm.values,
           f.kind = "editProfile" => ~f.error
    PROVE  /\ F!Effects(f, s, l) \in FormRecords
           /\ F!Effects(f, s, l).kind = f.kind
           /\ Shows(F!Effects(f, s, l), s, l)
           /\ f.kind = "editProfile" => ~F!Effects(f, s, l).error
<1> DEFINE e == F!Effects(f, s, l)
<1>1. F!Version(s) \in FormValues /\ F!Made \in FormValues /\ F!Empty \in FormValues
  BY DEF F!Version, F!Made, F!Empty, FormValues
<1>2. ASSUME NEW v \in FormValues
      PROVE  /\ F!Reset(f, v) \in FormRecords
             /\ F!Reset(f, v) = [f EXCEPT !.values = v, !.base = v, !.error = FALSE]
             /\ F!Reset(f, v).kind = f.kind /\ F!Reset(f, v).open = f.open
             /\ F!Reset(f, v).values = v /\ ~F!Reset(f, v).error
  BY DEF F!Reset, FormRecords
<1>3. f.base \in FormValues /\ f.kind \in F!Dialogs \cup F!SignIn
  BY DEF FormRecords
<1>4. F!ResetToBase(f) = F!Reset(f, f.base)
  BY DEF F!ResetToBase
<1>5. ~F!Changed(f) /\ f.open /\ fForm.open =>
        /\ f.kind = fForm.kind /\ f.values = fForm.values
        /\ ~F!Changed(fForm)
  BY DEF F!Changed
<1>6. f.kind \in {"rating", "editProfile"} =>
        e = IF f.open /\ (~fForm.open \/ s # fSaved) THEN F!Reset(f, F!Version(s)) ELSE f
  BY DEF F!Effects, F!RatingModal, F!EditProfileModal, F!SignIn
<1>7. f.kind = "editList" =>
        e = IF f.open /\ ~l THEN F!Reset(f, F!Version(s))
            ELSE IF ~f.open THEN F!Reset(f, f.base) ELSE f
  BY <1>4 DEF F!Effects, F!EditListModal, F!SignIn
<1>8. f.kind = "createList" =>
        e = IF f.open /\ ~fForm.open THEN F!Reset(f, F!Made)
            ELSE IF ~f.open /\ fForm.open THEN F!Reset(f, f.base) ELSE f
  BY <1>4 DEF F!Effects, F!CreateListModal, F!SignIn
<1>9. f.kind \in F!SignIn =>
        e = IF f.open THEN f ELSE [f EXCEPT !.values = F!Empty, !.error = FALSE]
  BY DEF F!Effects, F!LoginForm, F!SignIn
<1>10. f.kind = "confirm" => e = f
  BY DEF F!Effects, F!SignIn
<1>11. [f EXCEPT !.values = F!Empty, !.error = FALSE] \in FormRecords
  BY <1>1 DEF FormRecords
<1>12. f.open /\ fForm.open => Shows(f, fSaved, F!Loading(fJob, fBusy))
  BY <1>5 DEF FormsInv, Shows
<1> HIDE DEF e
<1>13. e \in FormRecords /\ e.kind = f.kind /\ (f.kind = "editProfile" => ~e.error)
  <2>1. CASE f.kind \in F!SignIn
    BY <1>9, <1>11, <2>1 DEF FormRecords, F!SignIn
  <2>2. CASE f.kind \in F!Dialogs
    BY <1>1, <1>2, <1>3, <1>6, <1>7, <1>8, <1>10, <2>2 DEF F!Dialogs
  <2>3. QED
    BY <1>3, <2>1, <2>2
<1>14. Shows(e, s, l)
  <2>1. CASE f.kind \in {"rating", "editProfile"}
    <3>1. CASE f.open /\ (~fForm.open \/ s # fSaved)
      <4>1. e = F!Reset(f, F!Version(s))
        BY <1>6, <2>1, <3>1
      <4>2. e.kind = f.kind /\ e.open = f.open /\ e.values = F!Version(s) /\ ~e.error
        BY <1>1, <1>2, <4>1
      <4>3. QED
        BY <2>1, <4>2 DEF Shows
    <3>2. CASE ~(f.open /\ (~fForm.open \/ s # fSaved))
      <4>1. e = f
        BY <1>6, <2>1, <3>2
      <4>2. QED
        BY <1>12, <2>1, <3>2, <4>1 DEF Shows
    <3>3. QED
      BY <3>1, <3>2
  <2>2. CASE f.kind = "editList"
    <3>1. CASE f.open /\ ~l
      <4>1. e = F!Reset(f, F!Version(s))
        BY <1>7, <2>2, <3>1
      <4>2. e.kind = f.kind /\ e.open = f.open /\ e.values = F!Version(s) /\ ~e.error
        BY <1>1, <1>2, <4>1
      <4>3. QED
        BY <2>2, <4>2 DEF Shows
    <3>2. CASE f.open /\ l
      BY <1>7, <2>2, <3>2 DEF Shows
    <3>3. CASE ~f.open
      <4>1. e = F!Reset(f, f.base)
        BY <1>7, <2>2, <3>3
      <4>2. e.kind = f.kind /\ e.open = f.open
        BY <1>2, <1>3, <4>1
      <4>3. QED
        BY <2>2, <3>3, <4>2 DEF Shows
    <3>4. QED
      BY <3>1, <3>2, <3>3
  <2>3. CASE f.kind = "createList"
    BY <1>1, <1>2, <1>3, <1>8, <1>12, <2>3 DEF Shows
  <2>4. CASE f.kind \notin {"rating", "editProfile", "editList", "createList"}
    BY <1>13, <2>4 DEF Shows
  <2>5. QED
    BY <2>1, <2>2, <2>3, <2>4
<1>15. QED
  BY <1>13, <1>14 DEF e

\* What a step leaves of a form when it renders f (Render).
LEMMA RenderShows ==
    ASSUME FormsInv, NEW f \in FormRecords, NEW s \in Nat, NEW j, NEW b \in BOOLEAN,
           F!Render(f, s, j, b),
           f.open /\ fForm.open => f.kind = fForm.kind /\ f.values = fForm.values,
           f.kind = "editProfile" => ~f.error,
           fLeft' \in BOOLEAN,
           f.kind \in {"rating", "editList", "createList"} => ~fLeft'
    PROVE  FormsInv'
<1>1. F!Loading(j, b) \in BOOLEAN
  BY DEF F!Loading
<1> DEFINE e == F!Effects(f, s, F!Loading(j, b))
<1>2. /\ e \in FormRecords /\ e.kind = f.kind /\ Shows(e, s, F!Loading(j, b))
      /\ f.kind = "editProfile" => ~e.error
  BY <1>1, EffectsShow
<1>3. fForm' = e /\ fSaved' = s /\ fJob' = j /\ fBusy' = b
  BY DEF F!Render
<1> HIDE DEF e
<1>4. Shows(fForm, fSaved, F!Loading(fJob, fBusy))'
  BY <1>2, <1>3 DEF Shows, F!Loading, F!Changed
<1>5. QED
  BY <1>2, <1>3, <1>4 DEF FormsInv

LEMMA FormsNext == FormsInv /\ [F!Next]_formsVars => FormsInv'
<1> SUFFICES ASSUME FormsInv, [F!Next]_formsVars PROVE FormsInv'
  OBVIOUS
<1> USE DEF F!Free, F!Counted
<1>1. /\ fForm \in FormRecords /\ fSaved \in Nat /\ fBusy \in BOOLEAN /\ fLeft \in BOOLEAN
      /\ fForm.kind \in F!Dialogs \cup F!SignIn /\ fForm.open \in BOOLEAN
      /\ fForm.values \in FormValues /\ fForm.base \in FormValues /\ fForm.error \in BOOLEAN
  BY DEF FormsInv, FormRecords
<1>2. F!ResetToBase(fForm) = [fForm EXCEPT !.values = fForm.base, !.base = fForm.base, !.error = FALSE]
  BY DEF F!ResetToBase, F!Reset
<1>3. CASE F!Open
  <2>1. PICK k \in IF fForm.kind \in F!SignIn THEN F!SignIn ELSE {fForm.kind} :
          F!Render([fForm EXCEPT !.kind = k, !.open = TRUE], fSaved, fJob, fBusy)
    BY <1>3 DEF F!Open
  <2> DEFINE f == [fForm EXCEPT !.kind = k, !.open = TRUE]
  <2>2. f \in FormRecords /\ f.kind = k /\ f.error = fForm.error
    BY <1>1, <2>1 DEF FormRecords
  <2>3. k \in {"rating", "editList", "createList", "editProfile"} => k = fForm.kind
    BY <2>1 DEF F!SignIn
  <2>4. ~fForm.open /\ fLeft' = (fLeft /\ fJob # {})
    BY <1>3 DEF F!Open
  <2> HIDE DEF f
  <2>5. F!Render(f, fSaved, fJob, fBusy)
    BY <2>1 DEF f
  <2>6. QED
    BY <1>1, <2>2, <2>3, <2>4, <2>5, RenderShows DEF FormsInv
<1>4. CASE F!HandleClose
  <2> DEFINE f == [IF fForm.kind \in {"rating", "editList", "createList"} THEN F!ResetToBase(fForm)
                   ELSE fForm EXCEPT !.open = FALSE]
  <2>1. /\ f \in FormRecords /\ f.kind = fForm.kind /\ ~f.open
        /\ f.kind = "editProfile" => f.error = fForm.error
    BY <1>1, <1>2 DEF FormRecords
  <2>2. fForm.kind \in {"rating", "editList", "createList"} => fJob = {}
    BY <1>4 DEF F!HandleClose, F!MayClose, F!Controls, F!RatingModalShown, F!EditListModalShown,
         F!CreateListModalShown, F!IsLoading, F!Loading
  <2>3. F!Render(f, fSaved, fJob, fBusy) /\ fLeft' = (fJob # {})
    BY <1>4 DEF F!HandleClose
  <2> HIDE DEF f
  <2>4. QED
    BY <1>1, <2>1, <2>2, <2>3, RenderShows DEF FormsInv
<1>5. CASE F!Type
  <2>1. PICK v \in {F!Typed, F!Invalid} : fForm' = [fForm EXCEPT !.values = v]
    BY <1>5 DEF F!Type
  <2>2. v \in FormValues /\ v.of \in {"typed", "invalid"}
    BY <2>1 DEF F!Typed, F!Invalid, FormValues
  <2>3. /\ fForm' \in FormRecords /\ fForm'.values = v /\ fForm'.kind = fForm.kind
        /\ fForm'.error = fForm.error
    BY <1>1, <2>1, <2>2 DEF FormRecords
  <2>4. Shows(fForm, fSaved, F!Loading(fJob, fBusy))'
    BY <2>2, <2>3 DEF Shows, F!Changed
  <2>5. QED
    BY <1>1, <1>5, <2>3, <2>4 DEF FormsInv, F!Type
<1>6. CASE F!Submit
  <2>1. F!Render(fForm, fSaved, {fForm.values}, fBusy) /\ ~fLeft' /\ fLeft' \in BOOLEAN
    BY <1>6 DEF F!Submit
  <2>2. QED
    BY <1>1, <2>1, RenderShows DEF FormsInv
<1>7. CASE F!Succeed
  <2> DEFINE f == IF fForm.kind \in {"rating", "createList"} THEN F!ResetToBase(fForm)
                  ELSE IF fForm.kind = "editProfile" THEN F!Reset(fForm, F!Version(F!Saved)) ELSE fForm
             g == [f EXCEPT !.open = FALSE]
  <2>1. F!Saved \in Nat /\ F!Version(F!Saved) \in FormValues
    BY <1>1 DEF F!Saved, F!Version, FormValues
  <2>2. F!Reset(fForm, F!Version(F!Saved))
          = [fForm EXCEPT !.values = F!Version(F!Saved), !.base = F!Version(F!Saved), !.error = FALSE]
    BY DEF F!Reset
  <2>3. f \in FormRecords /\ f.kind = fForm.kind /\ (f.kind = "editProfile" => ~f.error)
    BY <1>1, <1>2, <2>1, <2>2 DEF FormRecords
  <2> HIDE DEF f
  <2>4. g \in FormRecords /\ g.kind = fForm.kind /\ ~g.open /\ (g.kind = "editProfile" => ~g.error)
    BY <2>3 DEF FormRecords
  <2>5. F!Render(g, F!Saved, {}, fBusy) /\ ~fLeft' /\ fLeft' \in BOOLEAN
    BY <1>7 DEF F!Succeed, f
  <2> HIDE DEF g
  <2>6. QED
    BY <1>1, <2>1, <2>4, <2>5, RenderShows DEF FormsInv
<1>8. CASE F!Fail
  <2> DEFINE f == F!Effects(fForm, fSaved, fBusy)
  <2>1. fForm' = [f EXCEPT !.error = f.kind \notin {"editProfile", "confirm"}]
        /\ fJob' = {} /\ UNCHANGED <<fSaved, fBusy, fLeft>>
    BY <1>8 DEF F!Fail
  <2>2. /\ f \in FormRecords /\ f.kind = fForm.kind /\ Shows(f, fSaved, fBusy)
        /\ f.kind = "editProfile" => ~f.error
    BY <1>1, EffectsShow DEF FormsInv
  <2> HIDE DEF f
  <2>3. /\ fForm' \in FormRecords /\ fForm'.kind = f.kind /\ fForm'.open = f.open
        /\ fForm'.values = f.values /\ (fForm'.kind = "editProfile" => ~fForm'.error)
    BY <2>1, <2>2 DEF FormRecords
  <2>4. Shows(fForm, fSaved, F!Loading(fJob, fBusy))'
    BY <2>1, <2>2, <2>3 DEF Shows, F!Changed, F!Loading
  <2>5. QED
    BY <1>1, <2>1, <2>2, <2>3, <2>4 DEF FormsInv
<1>9. CASE F!Refresh
  <2>1. F!Render(fForm, fSaved + 1, fJob, fBusy) /\ fSaved + 1 \in Nat /\ fLeft' = fLeft
    BY <1>1, <1>9 DEF F!Refresh
  <2>2. QED
    BY <1>1, <2>1, RenderShows DEF FormsInv
<1>10. CASE F!OtherAction
  <2>1. F!Render(fForm, fSaved, fJob, ~fBusy) /\ fLeft' = fLeft
    BY <1>10 DEF F!OtherAction
  <2>2. QED
    BY <1>1, <2>1, RenderShows DEF FormsInv
<1>11. CASE F!ParentRenders
  <2>1. F!Render(fForm, fSaved, fJob, fBusy) /\ fLeft' = fLeft
    BY <1>11 DEF F!ParentRenders
  <2>2. QED
    BY <1>1, <2>1, RenderShows DEF FormsInv
<1>12. CASE UNCHANGED formsVars
  BY <1>12 DEF formsVars, FormsInv, Shows, F!Loading, F!Changed
<1>13. QED
  BY <1>3, <1>4, <1>5, <1>6, <1>7, <1>8, <1>9, <1>10, <1>11, <1>12 DEF F!Next

-----------------------------------------------------------------------------
(* Artwork.  The hook of a surface is under the key of what is there now, and *)
(* reveals it exactly when the history says that the viewer asked for it;     *)
(* who asked for anything asked for what had to be covered.                   *)

Pic(s) == W!Picture(s, wPage, wViewer)
ArtworkInv ==
    /\ wViewer \in [visibility : BOOLEAN, allow : BOOLEAN]
    /\ wReveal = [s \in W!Surfaces |->
         [key |-> IF s \in W!Mounted(wPage) THEN W!ArtworkKey(s, wPage, wViewer) ELSE <<>>,
          isRevealed |-> s \in W!Mounted(wPage) /\ Pic(s) \in wAsked]]
    /\ \A a \in wAsked : \E s \in W!Mounted(wPage) : a = Pic(s)
    /\ wAsked # {} => W!RequiresBlur(wPage, wViewer)

\* Two pictures are the same when all about them is, and so are two keys; but the key
\* knows only the judgment that the viewer is shown.
LEMMA SamePicture ==
    ASSUME NEW s, NEW t, NEW p, NEW q, NEW v, NEW w
    PROVE  /\ W!Picture(s, p, v).on = s
           /\ W!Picture(s, p, v) = W!Picture(t, q, w) <=>
                /\ s = t /\ p.item.id = q.item.id
                /\ W!ImageOf(s, p.item) = W!ImageOf(t, q.item)
                /\ p.summary = q.summary /\ v = w
  BY DEF W!Picture

LEMMA SameKey ==
    ASSUME NEW s, NEW p, NEW q, NEW v, NEW w
    PROVE  /\ W!ArtworkKey(s, p, v) # <<>>
           /\ W!ArtworkKey(s, p, v) = W!ArtworkKey(s, q, w) <=>
                /\ p.item.id = q.item.id /\ W!ImageOf(s, p.item) = W!ImageOf(s, q.item)
                /\ W!UseVisibleModerationSummary(p, v) = W!UseVisibleModerationSummary(q, w)
                /\ v.allow = w.allow
  BY DEF W!ArtworkKey

\* The judgment that has to be covered is shown only to a viewer who may see judgments.
LEMMA BlurIsVisible ==
    ASSUME NEW p, NEW q, NEW v \in [visibility : BOOLEAN, allow : BOOLEAN],
           NEW w \in [visibility : BOOLEAN, allow : BOOLEAN], W!RequiresBlur(p, v),
           W!UseVisibleModerationSummary(p, v) = W!UseVisibleModerationSummary(q, w), v.allow = w.allow
    PROVE  p.summary = q.summary /\ v = w
<1>1. v.visibility /\ p.summary = W!UseVisibleModerationSummary(p, v)
  BY DEF W!RequiresBlur, W!ShouldBlurModerationArtwork, W!UseVisibleModerationSummary,
         W!VisibleModerationSummary, W!NoSummary
<1>2. W!UseVisibleModerationSummary(p, v) # W!NoSummary
  BY DEF W!RequiresBlur, W!ShouldBlurModerationArtwork, W!NoSummary
<1>3. w.visibility /\ q.summary = W!UseVisibleModerationSummary(q, w)
  BY <1>2 DEF W!UseVisibleModerationSummary, W!VisibleModerationSummary
<1>4. QED
  BY <1>1, <1>3

LEMMA ArtworkStart == W!Init => ArtworkInv
<1> SUFFICES ASSUME W!Init PROVE ArtworkInv
  OBVIOUS
<1>1. \A s \in W!Surfaces : W!Hook(s, wPage, wViewer, [key |-> <<>>, isRevealed |-> FALSE])
        = [key |-> IF s \in W!Mounted(wPage) THEN W!ArtworkKey(s, wPage, wViewer) ELSE <<>>,
           isRevealed |-> FALSE]
  BY SameKey DEF W!Hook
<1>2. wAsked = {} /\ wViewer \in [visibility : BOOLEAN, allow : BOOLEAN]
  BY DEF W!Init
<1>3. wReveal = [s \in W!Surfaces |->
         [key |-> IF s \in W!Mounted(wPage) THEN W!ArtworkKey(s, wPage, wViewer) ELSE <<>>,
          isRevealed |-> s \in W!Mounted(wPage) /\ Pic(s) \in wAsked]]
  BY <1>1, <1>2 DEF W!Init
<1>4. QED
  BY <1>2, <1>3 DEF ArtworkInv

LEMMA ArtworkImply == ArtworkInv => W!RevealIsAsked
<1> SUFFICES ASSUME ArtworkInv, NEW s \in W!Mounted(wPage), W!RequiresBlur(wPage, wViewer)
             PROVE  W!IsBlurred(s) <=> Pic(s) \notin wAsked
  BY DEF W!RevealIsAsked, Pic
<1>1. s \in W!Surfaces
  BY DEF W!Mounted, W!Surfaces
<1>2. wReveal[s].key = W!ArtworkKey(s, wPage, wViewer) /\ wReveal[s].isRevealed = (Pic(s) \in wAsked)
  BY <1>1 DEF ArtworkInv
<1>3. QED
  BY <1>2 DEF W!IsBlurred, W!IsRevealed

\* Every step that changes what is shown, to whom, renders all hooks anew (Render).
LEMMA ArtworkRenders ==
    ASSUME ArtworkInv, wViewer' \in [visibility : BOOLEAN, allow : BOOLEAN],
           NEW fresh \in BOOLEAN, W!Render(fresh)
    PROVE  ArtworkInv'
<1> DEFINE Unrevealed == [key |-> <<>>, isRevealed |-> FALSE]
           NewKey(s) == W!ArtworkKey(s, wPage', wViewer')
           NewPic(s) == W!Picture(s, wPage', wViewer')
<1>1. wViewer \in [visibility : BOOLEAN, allow : BOOLEAN]
  BY DEF ArtworkInv
<1>2. /\ wAsked' = {a \in wAsked : ~fresh /\ a.on \in W!Mounted(wPage')
                                  /\ a = W!Picture(a.on, wPage', wViewer')}
      /\ wReveal' = [s \in W!Surfaces |->
           W!Hook(s, wPage', wViewer', IF fresh THEN Unrevealed ELSE wReveal[s])]
  BY DEF W!Render
<1>3. ASSUME NEW s \in W!Mounted(wPage), W!RequiresBlur(wPage, wViewer),
             W!ArtworkKey(s, wPage, wViewer) = NewKey(s)
      PROVE  Pic(s) = NewPic(s)
  BY <1>1, <1>3, SameKey, SamePicture, BlurIsVisible DEF Pic
<1>4. ASSUME NEW s, Pic(s) = NewPic(s)
      PROVE  /\ W!ArtworkKey(s, wPage, wViewer) = NewKey(s)
             /\ wPage.summary = wPage'.summary /\ wViewer = wViewer'
  BY <1>4, SameKey, SamePicture DEF Pic, W!UseVisibleModerationSummary
<1>5. ASSUME NEW s PROVE NewPic(s).on = s /\ Pic(s).on = s
  BY SamePicture DEF Pic
<1>6. ASSUME NEW a \in wAsked'
      PROVE  /\ a.on \in W!Mounted(wPage) \cap W!Mounted(wPage')
             /\ a = Pic(a.on) /\ a = NewPic(a.on) /\ ~fresh /\ a \in wAsked
  <2>1. PICK s \in W!Mounted(wPage) : a = Pic(s)
    BY <1>2, <1>6 DEF ArtworkInv
  <2>2. QED
    BY <1>2, <1>5, <1>6, <2>1
<1>7. wAsked' # {} => W!RequiresBlur(wPage', wViewer')
  BY <1>4, <1>6 DEF ArtworkInv, W!RequiresBlur, W!UseVisibleModerationSummary
<1>8. ASSUME NEW s \in W!Surfaces
      PROVE  W!Hook(s, wPage', wViewer', IF fresh THEN Unrevealed ELSE wReveal[s])
               = [key |-> IF s \in W!Mounted(wPage') THEN NewKey(s) ELSE <<>>,
                  isRevealed |-> s \in W!Mounted(wPage') /\ NewPic(s) \in wAsked']
  <2> DEFINE before == IF fresh THEN Unrevealed ELSE wReveal[s]
  <2>1. NewPic(s) \in wAsked' => /\ s \in W!Mounted(wPage) \cap W!Mounted(wPage') /\ ~fresh
                                 /\ NewPic(s) = Pic(s) /\ Pic(s) \in wAsked
    BY <1>5, <1>6
  <2>2. wReveal[s] = [key |-> IF s \in W!Mounted(wPage) THEN W!ArtworkKey(s, wPage, wViewer) ELSE <<>>,
                      isRevealed |-> s \in W!Mounted(wPage) /\ Pic(s) \in wAsked]
    BY DEF ArtworkInv
  <2>3. CASE s \in W!Mounted(wPage') /\ before.key = NewKey(s)
    <3>1. ~fresh /\ s \in W!Mounted(wPage) /\ W!ArtworkKey(s, wPage, wViewer) = NewKey(s)
      BY <2>2, <2>3, SameKey
    <3>2. Pic(s) \in wAsked => NewPic(s) \in wAsked'
      <4>1. SUFFICES ASSUME Pic(s) \in wAsked PROVE NewPic(s) \in wAsked'
        OBVIOUS
      <4>2. Pic(s) = NewPic(s)
        BY <1>3, <3>1, <4>1 DEF ArtworkInv
      <4>3. QED
        BY <1>2, <1>5, <2>3, <3>1, <4>1, <4>2
    <3>3. W!Hook(s, wPage', wViewer', before) = wReveal[s]
      BY <2>3, <3>1 DEF W!Hook
    <3>4. (Pic(s) \in wAsked) = (NewPic(s) \in wAsked')
      BY <2>1, <3>2
    <3>5. QED
      BY <2>2, <2>3, <3>1, <3>3, <3>4
  <2>4. CASE ~(s \in W!Mounted(wPage') /\ before.key = NewKey(s))
    <3>1. W!Hook(s, wPage', wViewer', before)
            = [key |-> IF s \in W!Mounted(wPage') THEN NewKey(s) ELSE <<>>, isRevealed |-> FALSE]
      BY <2>4 DEF W!Hook
    <3>2. ~(s \in W!Mounted(wPage') /\ NewPic(s) \in wAsked')
      BY <1>4, <2>1, <2>2, <2>4
    <3>3. QED
      BY <3>1, <3>2
  <2>5. QED
    BY <2>3, <2>4
<1>9. wReveal' = [s \in W!Surfaces |->
         [key |-> IF s \in W!Mounted(wPage') THEN NewKey(s) ELSE <<>>,
          isRevealed |-> s \in W!Mounted(wPage') /\ NewPic(s) \in wAsked']]
  BY <1>2, <1>8
<1>10. QED
  BY <1>6, <1>7, <1>9 DEF ArtworkInv, Pic

LEMMA ArtworkNext == ArtworkInv /\ [W!Next]_artworkVars => ArtworkInv'
<1> SUFFICES ASSUME ArtworkInv, [W!Next]_artworkVars PROVE ArtworkInv'
  OBVIOUS
<1>1. wViewer \in [visibility : BOOLEAN, allow : BOOLEAN]
  BY DEF ArtworkInv
<1>2. CASE W!Open \/ W!Reread \/ W!ModerationPresentation
  <2>1. wViewer' \in [visibility : BOOLEAN, allow : BOOLEAN]
    <3>1. W!ModerationPresentation => wViewer' \in [visibility : BOOLEAN, allow : BOOLEAN]
      BY DEF W!ModerationPresentation
    <3>2. QED
      BY <1>1, <1>2, <3>1 DEF W!Open, W!Reread
  <2>2. \E fresh \in BOOLEAN : W!Render(fresh)
    <3>1. W!Open => \E fresh \in BOOLEAN : W!Render(fresh)
      <4>1. SUFFICES ASSUME W!Open PROVE \E fresh \in BOOLEAN : W!Render(fresh)
        OBVIOUS
      <4>2. PICK kept \in BOOLEAN : W!Render(~kept)
        BY <4>1 DEF W!Open
      <4>3. QED
        BY <4>2
    <3>2. W!Reread \/ W!ModerationPresentation => W!Render(FALSE)
      BY DEF W!Reread, W!ModerationPresentation
    <3>3. QED
      BY <1>2, <3>1, <3>2
  <2>3. QED
    BY <2>1, <2>2, ArtworkRenders
<1>3. CASE W!Toggle
  <2>1. PICK s \in W!Surfaces :
          /\ W!RevealButton(s)
          /\ wReveal' = [wReveal EXCEPT ![s] =
               [key |-> W!ArtworkKey(s, wPage, wViewer),
                isRevealed |-> IF @.key = W!ArtworkKey(s, wPage, wViewer) THEN ~@.isRevealed ELSE TRUE]]
          /\ wAsked' = IF Pic(s) \in wAsked THEN wAsked \ {Pic(s)} ELSE wAsked \cup {Pic(s)}
    BY <1>3 DEF W!Toggle, Pic
  <2>2. wPage' = wPage /\ wViewer' = wViewer
    BY <1>3 DEF W!Toggle
  <2>3. s \in W!Mounted(wPage) /\ W!RequiresBlur(wPage, wViewer)
    BY <2>1 DEF W!RevealButton
  <2>4. \A t \in W!Surfaces : t # s => Pic(t) # Pic(s)
    BY SamePicture DEF Pic
  <2>5. ASSUME NEW t \in W!Surfaces
        PROVE  wReveal'[t] = [key |-> IF t \in W!Mounted(wPage) THEN W!ArtworkKey(t, wPage, wViewer) ELSE <<>>,
                              isRevealed |-> t \in W!Mounted(wPage) /\ Pic(t) \in wAsked']
    BY <2>1, <2>3, <2>4 DEF ArtworkInv
  <2>6. wReveal' = [t \in W!Surfaces |-> wReveal'[t]]
    BY <2>1 DEF ArtworkInv
  <2>7. \A t : Pic(t)' = Pic(t)
    BY <2>2 DEF Pic
  <2>8. QED
    BY <1>1, <2>1, <2>2, <2>3, <2>5, <2>6, <2>7 DEF ArtworkInv
<1>4. CASE UNCHANGED <<wPage, wViewer, wReveal, wAsked>>
  BY <1>4 DEF ArtworkInv, Pic
<1>5. QED
  BY <1>2, <1>3, <1>4 DEF W!Next, W!OpenGallery, W!OpenEpisode, W!OpenAt, W!ArrowKeys, W!PreviousNext,
     W!ChangeZoom, W!ShowMetadata, W!CloseLightbox, artworkVars

-----------------------------------------------------------------------------
(* Hover card.  An opening is pending only while the pointer is on the card; *)
(* a popover has its reason, or its history says how it lost it; and after   *)
(* Escape the suppression lasts as long as the pointer stays.                *)

IsHook(h) ==
    h \in [isHovered : BOOLEAN, open : BOOLEAN, close : BOOLEAN, suppress : BOOLEAN,
           release : {"none", "leaves", "moves"}, releaseTimer : BOOLEAN, frame : BOOLEAN,
           position : {h.position}]
IsLayout(l) == l \in [anchor : {l.anchor}, view : {l.view}, height : {l.height}, capable : BOOLEAN]
Places == {"out", "card", "popover"}
CardInv ==
    /\ IsHook(hHover) /\ IsLayout(hLayout) /\ hPointer \in [at : Places, pressed : BOOLEAN]
    /\ hLeaving \in BOOLEAN /\ hDismissed \in BOOLEAN /\ hStray \in BOOLEAN
    /\ hHover.open => hPointer.at = "card"
    /\ hHover.isHovered /\ ~hStray =>
         hLayout.capable /\ (hPointer.at # "out" \/ hFocus # "none" \/ hHover.close)
    /\ hLeaving => ~(hHover.isHovered /\ hLayout.capable)
    /\ hDismissed => hHover.suppress /\ hHover.release = "leaves" /\ ~hHover.isHovered

LEMMA CardStart == H!Init => CardInv
<1> SUFFICES ASSUME H!Init PROVE CardInv
  OBVIOUS
<1>1. IsHook(hHover) /\ ~hHover.open /\ ~hHover.isHovered
  BY DEF H!Init, IsHook
<1>2. IsLayout(hLayout)
  BY DEF H!Init, IsLayout
<1>3. QED
  BY <1>1, <1>2 DEF H!Init, CardInv, Places

LEMMA CardImply == CardInv => H!PopoverIsRight
  BY DEF CardInv, H!PopoverIsRight, H!PopoverIsWanted, H!DismissedStaysAway, H!Shown, H!ShouldShow

\* What the hook's functions make of its state.
LEMMA HookCloses ==
    ASSUME NEW h, IsHook(h)
    PROVE  /\ \A r \in {H!CloseImmediately(h), H!CloseUntilPointerLeaves(h), H!CloseUntilPointerMoves(h)} :
                IsHook(r) /\ ~r.isHovered /\ ~r.open
           /\ H!CloseImmediately(h).suppress = h.suppress /\ H!CloseImmediately(h).release = h.release
           /\ H!CloseUntilPointerLeaves(h).suppress /\ H!CloseUntilPointerLeaves(h).release = "leaves"
  BY DEF IsHook, H!CloseImmediately, H!CloseUntilPointerLeaves, H!CloseUntilPointerMoves,
         H!CancelPendingOpen, H!CancelPendingClose

LEMMA HookSchedules ==
    ASSUME NEW h, IsHook(h), IsLayout(hLayout)
    PROVE  /\ \A r \in {H!ScheduleOpen(h), H!ScheduleClose(h)} :
                /\ IsHook(r) /\ r.isHovered = h.isHovered
                /\ r.suppress = h.suppress /\ r.release = h.release
           /\ H!ScheduleClose(h).close /\ ~H!ScheduleClose(h).open
<1>1. H!ShouldShow \in BOOLEAN
  BY DEF IsLayout, H!ShouldShow
<1>2. QED
  BY <1>1 DEF IsHook, H!ScheduleOpen, H!ScheduleClose, H!CancelPendingOpen, H!CancelPendingClose

LEMMA HookOpens ==
    ASSUME NEW h, IsHook(h), IsLayout(hLayout), NEW capable \in BOOLEAN
    PROVE  LET r == H!OpenImmediately(h, capable)
           IN  /\ IsHook(r) /\ ~r.open /\ r.suppress = h.suppress /\ r.release = h.release
               /\ r.isHovered => h.isHovered \/ (capable /\ ~h.suppress)
<1> DEFINE quiet == H!CancelPendingClose(H!CancelPendingOpen(h))
           at == H!CalculateCardHoverPosition(hLayout.anchor, hLayout.anchor.height, hLayout.view)
           frame == quiet.frame \/ (H!ShouldShow /\ ~quiet.isHovered)
           opened == [quiet EXCEPT !.isHovered = TRUE, !.position = at, !.frame = frame]
<1>1. /\ IsHook(quiet) /\ ~quiet.open /\ quiet.suppress = h.suppress /\ quiet.release = h.release
      /\ quiet.isHovered = h.isHovered
  BY DEF IsHook, H!CancelPendingOpen, H!CancelPendingClose
<1> HIDE DEF quiet
<1>2. frame \in BOOLEAN
  BY <1>1 DEF IsHook, IsLayout, H!ShouldShow
<1> HIDE DEF at, frame
<1>3. IsHook(opened) /\ ~opened.open /\ opened.suppress = quiet.suppress /\ opened.release = quiet.release
  BY <1>1, <1>2 DEF IsHook
<1> HIDE DEF opened
<1>4. /\ H!OpenImmediately(h, capable) \in {quiet, opened}
      /\ quiet.suppress \/ ~capable => H!OpenImmediately(h, capable) = quiet
  BY DEF H!OpenImmediately, quiet, opened, at, frame
<1>5. QED
  BY <1>1, <1>3, <1>4

\* The pointer crosses from a place to another; before or after it the suppression
\* may end, but not the one of Escape while the pointer is inside.
LEMMA HookCrosses ==
    ASSUME NEW h, IsHook(h), IsLayout(hLayout), NEW from \in Places, NEW to \in Places,
           h.open => from = "card"
    PROVE  LET r == H!Crossed(h, from, to)
           IN  /\ IsHook(r) /\ (r.open => to = "card") /\ r.suppress = h.suppress /\ r.release = h.release
               /\ r.isHovered => h.isHovered \/ (to = "popover" /\ ~h.suppress)
               /\ to = "out" => r.isHovered = h.isHovered /\ (r.close \/ (from = "out" /\ r.close = h.close))
<1> DEFINE left == IF from # "out" THEN H!ScheduleClose(h) ELSE h
<1>1. /\ IsHook(left) /\ left.isHovered = h.isHovered /\ left.suppress = h.suppress
      /\ left.release = h.release /\ (from # "out" => left.close) /\ ~left.open
      /\ (from = "out" => left.close = h.close)
  BY HookSchedules DEF IsHook
<1>2. H!Crossed(h, from, to) = IF to = from THEN h
                               ELSE IF to = "card" THEN H!ScheduleOpen(left)
                               ELSE IF to = "popover" THEN H!OpenImmediately(left, TRUE) ELSE left
  BY DEF H!Crossed, H!HandlePopoverMouseEnter, Places
<1> HIDE DEF left
<1>3. CASE to = from
  BY <1>2, <1>3
<1>4. CASE to = "card" /\ to # from
  BY <1>1, <1>2, <1>4, HookSchedules
<1>5. CASE to = "popover" /\ to # from
  <2> DEFINE r == H!OpenImmediately(left, TRUE)
  <2>1. /\ IsHook(r) /\ ~r.open /\ r.suppress = left.suppress /\ r.release = left.release
        /\ r.isHovered => left.isHovered \/ ~left.suppress
    BY <1>1, HookOpens
  <2>2. H!Crossed(h, from, to) = r
    BY <1>2, <1>5
  <2> HIDE DEF r
  <2>3. QED
    BY <1>1, <1>5, <2>1, <2>2
<1>6. CASE to = "out" /\ to # from
  BY <1>1, <1>2, <1>6
<1>7. QED
  BY <1>3, <1>4, <1>5, <1>6 DEF Places

LEMMA HookReleases ==
    ASSUME NEW h, IsHook(h), NEW inside \in BOOLEAN
    PROVE  LET r == H!ReleaseOnPointerMove(h, inside)
           IN  /\ IsHook(r) /\ r.isHovered = h.isHovered /\ r.open = h.open /\ r.close = h.close
               /\ h.release = "leaves" /\ inside => r = h
  BY DEF IsHook, H!ReleaseOnPointerMove

\* What every handler leaves of the card when it renders h (Render).
LEMMA CardRenders ==
    ASSUME CardInv, NEW h, IsHook(h), H!Render(h), IsLayout(hLayout'),
           hPointer' \in [at : Places, pressed : BOOLEAN], hDismissed' \in BOOLEAN,
           h.open => hPointer'.at = "card",
           h.isHovered => hPointer'.at # "out" \/ hFocus' # "none" \/ h.close \/ hStray,
           h.isHovered /\ hHover.isHovered /\ ~hStray => hLayout'.capable,
           hDismissed' => h.suppress /\ h.release = "leaves" /\ ~h.isHovered
    PROVE  CardInv'
<1>1. /\ hHover' = h /\ hStray' = (h.isHovered /\ (hStray \/ (~hHover.isHovered /\ ~hLayout'.capable)))
      /\ hLeaving' = (~(h.isHovered /\ hLayout'.capable) /\ (H!Shown \/ hLeaving))
  BY DEF H!Render
<1>2. h.isHovered \in BOOLEAN /\ hHover.isHovered \in BOOLEAN /\ hLayout'.capable \in BOOLEAN
      /\ hStray \in BOOLEAN
  BY DEF IsHook, IsLayout, CardInv
<1>3. hStray' \in BOOLEAN /\ hLeaving' \in BOOLEAN
  BY <1>1
<1>4. IsHook(hHover)' /\ IsLayout(hLayout)'
  BY <1>1 DEF IsHook, IsLayout
<1>5. h.isHovered /\ ~hStray' =>
        hLayout'.capable /\ (hPointer'.at # "out" \/ hFocus' # "none" \/ h.close)
  BY <1>1, <1>2
<1>6. QED
  BY <1>1, <1>3, <1>4, <1>5 DEF CardInv

LEMMA CardNext == CardInv /\ [H!Next]_cardVars => CardInv'
<1> SUFFICES ASSUME CardInv, [H!Next]_cardVars PROVE CardInv'
  OBVIOUS
<1>1. /\ IsHook(hHover) /\ IsLayout(hLayout) /\ hPointer \in [at : Places, pressed : BOOLEAN]
      /\ hDismissed \in BOOLEAN
      /\ hHover.open => hPointer.at = "card"
      /\ hHover.isHovered /\ ~hStray =>
           hLayout.capable /\ (hPointer.at # "out" \/ hFocus # "none" \/ hHover.close)
      /\ hDismissed => hHover.suppress /\ hHover.release = "leaves" /\ ~hHover.isHovered
  BY DEF CardInv
<1>2. hPointer.at \in Places /\ H!ShouldShow \in BOOLEAN /\ hHover.isHovered \in BOOLEAN
  BY <1>1 DEF IsHook, IsLayout, H!ShouldShow
<1>3. UNCHANGED hLayout => IsLayout(hLayout')
  BY <1>1 DEF IsLayout
\* Handlers that change hover alone, to h.
<1>4. ASSUME NEW h, IsHook(h), H!Render(h), UNCHANGED <<hPointer, hLayout>>, hDismissed' \in BOOLEAN,
             h.open => hHover.open, ~h.isHovered \/ (h.isHovered = hHover.isHovered
               /\ (h.close \/ (h.close = hHover.close /\ UNCHANGED hFocus))),
             hDismissed' => h.suppress /\ h.release = "leaves" /\ ~h.isHovered
      PROVE  CardInv'
  BY <1>1, <1>3, <1>4, CardRenders
<1>5. CASE H!MovePointer
  <2>1. PICK to \in Places, inside, movesFirst \in BOOLEAN :
          /\ hPointer' = [hPointer EXCEPT !.at = to]
          /\ H!Render(IF movesFirst THEN H!Crossed(H!ReleaseOnPointerMove(hHover, inside), hPointer.at, to)
                      ELSE H!ReleaseOnPointerMove(H!Crossed(hHover, hPointer.at, to), inside))
          /\ hDismissed' = (hDismissed /\ inside)
          /\ UNCHANGED <<hFocus, hLayout>>
    BY <1>5 DEF H!MovePointer, Places
  <2> DEFINE h == IF movesFirst THEN H!Crossed(H!ReleaseOnPointerMove(hHover, inside), hPointer.at, to)
                  ELSE H!ReleaseOnPointerMove(H!Crossed(hHover, hPointer.at, to), inside)
  <2>2. /\ IsHook(h) /\ (h.open => to = "card")
        /\ h.isHovered => hHover.isHovered \/ to = "popover"
        /\ to = "out" => h.isHovered = hHover.isHovered
                         /\ (h.close \/ (hPointer.at = "out" /\ h.close = hHover.close))
        /\ hHover.release = "leaves" /\ inside =>
             /\ h.suppress = hHover.suppress /\ h.release = "leaves"
             /\ h.isHovered => hHover.isHovered \/ ~hHover.suppress
    <3>1. CASE movesFirst
      <4> DEFINE g == H!ReleaseOnPointerMove(hHover, inside)
      <4>1. /\ IsHook(g) /\ g.isHovered = hHover.isHovered /\ g.open = hHover.open /\ g.close = hHover.close
            /\ hHover.release = "leaves" /\ inside => g = hHover
        BY <1>1, HookReleases
      <4>2. h = H!Crossed(g, hPointer.at, to)
        BY <3>1
      <4> HIDE DEF g, h
      <4>3. /\ IsHook(h) /\ (h.open => to = "card") /\ h.suppress = g.suppress /\ h.release = g.release
            /\ h.isHovered => g.isHovered \/ (to = "popover" /\ ~g.suppress)
            /\ to = "out" => h.isHovered = g.isHovered
                             /\ (h.close \/ (hPointer.at = "out" /\ h.close = g.close))
        <5> DEFINE c == H!Crossed(g, hPointer.at, to)
        <5>1. g.open => hPointer.at = "card"
          BY <1>1, <4>1
        <5>2. /\ IsHook(c) /\ (c.open => to = "card") /\ c.suppress = g.suppress /\ c.release = g.release
              /\ c.isHovered => g.isHovered \/ (to = "popover" /\ ~g.suppress)
              /\ to = "out" => c.isHovered = g.isHovered
                               /\ (c.close \/ (hPointer.at = "out" /\ c.close = g.close))
          BY <1>1, <1>2, <4>1, <5>1, HookCrosses
        <5> HIDE DEF c
        <5>3. h = c
          BY <4>2 DEF c
        <5>4. QED
          BY <5>2, <5>3
      <4>4. QED
        BY <4>1, <4>3
    <3>2. CASE ~movesFirst
      <4> DEFINE g == H!Crossed(hHover, hPointer.at, to)
      <4>1. /\ IsHook(g) /\ (g.open => to = "card") /\ g.suppress = hHover.suppress
            /\ g.release = hHover.release
            /\ g.isHovered => hHover.isHovered \/ (to = "popover" /\ ~hHover.suppress)
            /\ to = "out" => g.isHovered = hHover.isHovered
                             /\ (g.close \/ (hPointer.at = "out" /\ g.close = hHover.close))
        BY <1>1, <1>2, HookCrosses
      <4>2. h = H!ReleaseOnPointerMove(g, inside)
        BY <3>2
      <4> HIDE DEF g, h
      <4>3. /\ IsHook(h) /\ h.isHovered = g.isHovered /\ h.open = g.open /\ h.close = g.close
            /\ g.release = "leaves" /\ inside => h = g
        BY <4>1, <4>2, HookReleases
      <4>4. QED
        BY <4>1, <4>3
    <3>3. QED
      BY <3>1, <3>2
  <2>3. H!Render(h)
    BY <2>1
  <2> HIDE DEF h
  <2>4. hPointer' \in [at : Places, pressed : BOOLEAN] /\ hPointer'.at = to
    BY <1>1, <2>1
  <2>5. hDismissed' => h.suppress /\ h.release = "leaves" /\ ~h.isHovered
    BY <1>1, <2>1, <2>2 DEF IsHook
  <2>6. h.isHovered => hPointer'.at # "out" \/ hFocus' # "none" \/ h.close \/ hStray
    BY <1>1, <2>1, <2>2, <2>4 DEF Places
  <2>7. QED
    BY <1>1, <1>3, <2>1, <2>2, <2>3, <2>4, <2>5, <2>6, CardRenders
<1>6. CASE H!Press
  <2> DEFINE h == H!HandleCardPointerDown(hHover)
  <2>1. IsHook(h) /\ ~h.open /\ h.isHovered = hHover.isHovered /\ h.close = hHover.close
    BY <1>1 DEF IsHook, H!HandleCardPointerDown, H!CancelPendingOpen
  <2>2. /\ H!Render(h) /\ ~hDismissed' /\ hDismissed' \in BOOLEAN /\ UNCHANGED <<hFocus, hLayout>>
        /\ hPointer' = [hPointer EXCEPT !.pressed = TRUE]
    BY <1>6 DEF H!Press
  <2> HIDE DEF h
  <2>3. hPointer' \in [at : Places, pressed : BOOLEAN] /\ hPointer'.at = hPointer.at
    BY <1>1, <2>2
  <2>4. QED
    BY <1>1, <1>3, <2>1, <2>2, <2>3, CardRenders
<1>7. CASE H!Release
  <2> DEFINE h == IF hPointer.at = "card" THEN H!ReleasePointerSuppression(hHover) ELSE hHover
  <2>1. /\ IsHook(h) /\ h.open = hHover.open /\ h.isHovered = hHover.isHovered /\ h.close = hHover.close
        /\ h.suppress = hHover.suppress /\ h.release = hHover.release
    BY <1>1 DEF IsHook, H!ReleasePointerSuppression
  <2>2. /\ H!Render(h) /\ UNCHANGED <<hFocus, hLayout, hDismissed>>
        /\ hPointer' = [hPointer EXCEPT !.pressed = FALSE]
    BY <1>7 DEF H!Release
  <2> HIDE DEF h
  <2>3. hPointer' \in [at : Places, pressed : BOOLEAN] /\ hPointer'.at = hPointer.at
    BY <1>1, <2>2
  <2>4. QED
    BY <1>1, <1>3, <2>1, <2>2, <2>3, CardRenders
<1>8. CASE H!Wheel \/ H!Escape
  <2>1. PICK h \in {H!CloseUntilPointerLeaves(hHover), H!CloseUntilPointerMoves(hHover)} :
          /\ H!Render(h) /\ UNCHANGED <<hPointer, hLayout>> /\ hDismissed' \in BOOLEAN
          /\ hDismissed' => h = H!CloseUntilPointerLeaves(hHover)
    <3>1. CASE H!Wheel
      BY <3>1 DEF H!Wheel
    <3>2. CASE H!Escape
      BY <3>2 DEF H!Escape
    <3>3. QED
      BY <1>8, <3>1, <3>2
  <2>2. /\ IsHook(h) /\ ~h.isHovered /\ ~h.open
        /\ hDismissed' => h.suppress /\ h.release = "leaves"
    BY <1>1, <2>1, HookCloses
  <2>3. QED
    BY <1>4, <2>1, <2>2
<1>9. CASE H!Focus
  <2>1. PICK to \in {"none", "card", "popover"} :
          /\ hFocus' = to /\ UNCHANGED <<hPointer, hLayout, hDismissed>>
          /\ H!Render(IF to = "none" THEN H!ScheduleClose(hHover)
                      ELSE H!OpenImmediately(hHover, H!ShouldShow))
    BY <1>9 DEF H!Focus
  <2> DEFINE h == IF to = "none" THEN H!ScheduleClose(hHover) ELSE H!OpenImmediately(hHover, H!ShouldShow)
  <2>2. /\ IsHook(h) /\ ~h.open /\ h.suppress = hHover.suppress /\ h.release = hHover.release
        /\ h.isHovered => hHover.isHovered \/ ~hHover.suppress
        /\ to = "none" => h.close
    <3>1. CASE to = "none"
      BY <1>1, <3>1, HookSchedules
    <3>2. CASE to # "none"
      BY <1>1, <1>2, <3>2, HookOpens
    <3>3. QED
      BY <3>1, <3>2
  <2>3. H!Render(h)
    BY <2>1
  <2> HIDE DEF h
  <2>4. QED
    BY <1>1, <1>3, <2>1, <2>2, <2>3, CardRenders
<1>10. CASE H!OpenTimer
  <2> DEFINE g == [hHover EXCEPT !.open = FALSE]
             h == H!OpenImmediately(g, H!ShouldShow)
  <2>1. IsHook(g) /\ g.isHovered = hHover.isHovered /\ g.suppress = hHover.suppress
        /\ g.release = hHover.release
    BY <1>1 DEF IsHook
  <2>2. H!Render(h) /\ UNCHANGED <<hPointer, hFocus, hLayout, hDismissed>> /\ hHover.open
    BY <1>10 DEF H!OpenTimer
  <2> HIDE DEF g
  <2>3. /\ IsHook(h) /\ ~h.open /\ h.suppress = g.suppress /\ h.release = g.release
        /\ h.isHovered => g.isHovered \/ ~g.suppress
    BY <1>1, <1>2, <2>1, HookOpens
  <2> HIDE DEF h
  <2>4. QED
    BY <1>1, <1>3, <2>1, <2>2, <2>3, CardRenders
<1>11. CASE H!CloseTimer
  <2> DEFINE h == [hHover EXCEPT !.close = FALSE, !.isHovered = FALSE, !.frame = FALSE]
  <2>1. /\ IsHook(h) /\ h.open = hHover.open /\ ~h.isHovered /\ h.suppress = hHover.suppress
        /\ h.release = hHover.release
    BY <1>1 DEF IsHook
  <2>2. H!Render(h) /\ UNCHANGED <<hPointer, hLayout, hDismissed>>
    BY <1>11 DEF H!CloseTimer
  <2> HIDE DEF h
  <2>3. QED
    BY <1>1, <1>4, <2>1, <2>2
<1>12. CASE H!ReleaseTimer
  <2> DEFINE h == [hHover EXCEPT !.releaseTimer = FALSE, !.suppress = FALSE]
  <2>1. IsHook(h) /\ h.open = hHover.open /\ h.isHovered = hHover.isHovered /\ h.close = hHover.close
    BY <1>1 DEF IsHook
  <2>2. /\ H!Render(h) /\ UNCHANGED <<hPointer, hFocus, hLayout>>
        /\ ~hDismissed' /\ hDismissed' \in BOOLEAN
    BY <1>12 DEF H!ReleaseTimer
  <2> HIDE DEF h
  <2>3. QED
    BY <1>1, <1>2, <1>4, <2>1, <2>2
<1>13. CASE H!Frame
  <2> DEFINE at == H!CalculateCardHoverPosition(hLayout.anchor, hLayout.height, hLayout.view)
             g == [hHover EXCEPT !.frame = FALSE, !.position = at]
             h == H!UpdatePosition(hHover)
  <2>1. /\ IsHook(g) /\ g.open = hHover.open /\ g.isHovered = hHover.isHovered /\ g.close = hHover.close
        /\ g.suppress = hHover.suppress /\ g.release = hHover.release
    <3> HIDE DEF at
    <3>1. QED
      BY <1>1 DEF IsHook
  <2>2. h \in {H!CloseImmediately(hHover), g}
    BY DEF H!UpdatePosition
  <2>3. H!Render(h) /\ UNCHANGED <<hPointer, hFocus, hLayout, hDismissed>>
    BY <1>13 DEF H!Frame
  <2> HIDE DEF g, h
  <2>4. CASE h = g
    BY <1>1, <1>2, <1>4, <2>1, <2>3, <2>4
  <2>5. CASE h = H!CloseImmediately(hHover)
    BY <1>1, <1>4, <2>3, <2>5, HookCloses
  <2>6. QED
    BY <2>2, <2>4, <2>5
<1>14. CASE H!ExitDone
  <2>1. PICK to \in {"out", "card"} :
          /\ hLeaving /\ hLeaving' = FALSE
          /\ hPointer' = IF hPointer.at = "popover" THEN [hPointer EXCEPT !.at = to] ELSE hPointer
          /\ hHover' = IF hPointer.at = "popover" /\ to = "card" THEN H!ScheduleOpen(hHover) ELSE hHover
          /\ UNCHANGED <<hLayout, hDismissed, hStray>>
    BY <1>14 DEF H!ExitDone
  <2>2. hHover.isHovered => hStray
    BY <1>1, <2>1 DEF CardInv
  <2>3. hPointer' \in [at : Places, pressed : BOOLEAN]
        /\ (hPointer.at = "popover" => hPointer'.at = to) /\ (hPointer.at # "popover" => hPointer' = hPointer)
    BY <1>1, <2>1 DEF Places
  <2>4. /\ IsHook(hHover') /\ hHover'.isHovered = hHover.isHovered /\ hHover'.suppress = hHover.suppress
        /\ hHover'.release = hHover.release
        /\ hHover'.open => hHover.open \/ (hPointer.at = "popover" /\ to = "card")
    BY <1>1, <2>1, HookSchedules
  <2>5. IsHook(hHover)' /\ IsLayout(hLayout)'
    BY <1>1, <2>1, <2>4 DEF IsHook, IsLayout
  <2>6. QED
    BY <1>1, <2>1, <2>2, <2>3, <2>4, <2>5 DEF CardInv
<1>15. CASE H!Scroll \/ H!Resize
  <2>1. PICK h \in {hHover, H!CloseImmediately(hHover), [hHover EXCEPT !.frame = TRUE]} :
          H!Render(h) /\ UNCHANGED <<hPointer, hFocus, hDismissed>>
          /\ IsLayout(hLayout') /\ hLayout'.capable = hLayout.capable
    <3>1. CASE H!Scroll
      <4>1. PICK a \in HAnchors : hLayout' = [hLayout EXCEPT !.anchor = a]
        BY <3>1 DEF H!Scroll
      <4>2. IsLayout(hLayout') /\ hLayout'.capable = hLayout.capable
        BY <1>1, <4>1 DEF IsLayout
      <4>3. QED
        BY <3>1, <4>2 DEF H!Scroll
    <3>2. CASE H!Resize
      <4>1. PICK a \in HAnchors, v \in HViewports, n \in HHeights :
              hLayout' = [hLayout EXCEPT !.anchor = a, !.view = v, !.height = n]
        BY <3>2 DEF H!Resize
      <4>2. IsLayout(hLayout') /\ hLayout'.capable = hLayout.capable
        BY <1>1, <4>1 DEF IsLayout
      <4>3. QED
        BY <3>2, <4>2 DEF H!Resize
    <3>3. QED
      BY <1>15, <3>1, <3>2
  <2>2. /\ IsHook(h) /\ (h.open => hHover.open) /\ h.suppress = hHover.suppress /\ h.release = hHover.release
        /\ h.isHovered => hHover.isHovered /\ h.close = hHover.close
    <3>1. LET g == [hHover EXCEPT !.frame = TRUE]
          IN  IsHook(g) /\ g.open = hHover.open /\ g.suppress = hHover.suppress
              /\ g.release = hHover.release /\ g.isHovered = hHover.isHovered /\ g.close = hHover.close
      BY <1>1 DEF IsHook
    <3>2. QED
      BY <1>1, <2>1, <3>1, HookCloses
  <2>3. QED
    BY <1>1, <2>1, <2>2, CardRenders
<1>16. CASE H!Shift
  <2>1. PICK a \in HAnchors : hLayout' = [hLayout EXCEPT !.anchor = a]
    BY <1>16 DEF H!Shift
  <2>2. IsLayout(hLayout') /\ hLayout'.capable = hLayout.capable
    BY <1>1, <2>1 DEF IsLayout
  <2>3. QED
    BY <1>16, <2>2 DEF H!Shift, CardInv, IsHook, IsLayout
<1>17. CASE H!Capability
  <2>1. /\ hLayout' = [hLayout EXCEPT !.capable = ~@] /\ UNCHANGED <<hPointer, hFocus, hDismissed>>
        /\ H!Render(IF hLayout.capable THEN H!CloseImmediately(hHover)
                                       ELSE [hHover EXCEPT !.frame = hHover.isHovered])
    BY <1>17 DEF H!Capability
  <2>2. IsLayout(hLayout') /\ hLayout'.capable = ~hLayout.capable
    BY <1>1, <2>1 DEF IsLayout
  <2>3. CASE hLayout.capable
    BY <1>1, <2>1, <2>2, <2>3, HookCloses, CardRenders
  <2>4. CASE ~hLayout.capable
    <3> DEFINE h == [hHover EXCEPT !.frame = hHover.isHovered]
    <3>1. /\ IsHook(h) /\ h.open = hHover.open /\ h.isHovered = hHover.isHovered /\ h.close = hHover.close
          /\ h.suppress = hHover.suppress /\ h.release = hHover.release
      BY <1>1, <1>2 DEF IsHook
    <3>2. H!Render(h)
      BY <2>1, <2>4
    <3> HIDE DEF h
    <3>3. QED
      BY <1>1, <1>2, <2>1, <2>2, <2>4, <3>1, <3>2, CardRenders
  <2>5. QED
    BY <2>3, <2>4
<1>18. CASE H!OpenDialog
  <2>1. H!Render(H!ScheduleClose(hHover)) /\ UNCHANGED <<hPointer, hLayout, hDismissed>>
    BY <1>18 DEF H!OpenDialog
  <2>2. QED
    BY <1>1, <1>2, <1>4, <2>1, HookSchedules
<1>19. CASE H!Remount
  <2> DEFINE g == H!CloseImmediately(hHover)
             h == [g EXCEPT !.suppress = FALSE, !.release = "none", !.releaseTimer = FALSE,
                            !.position = H!INITIAL_POSITION]
  <2>1. IsHook(g) /\ ~g.isHovered /\ ~g.open
    BY <1>1, HookCloses
  <2> HIDE DEF g
  <2>2. IsHook(h) /\ ~h.isHovered /\ ~h.open
    BY <2>1 DEF IsHook
  <2>3. /\ hHover' = h /\ ~hLeaving' /\ ~hDismissed' /\ ~hStray' /\ UNCHANGED hLayout
        /\ hLeaving' \in BOOLEAN /\ hDismissed' \in BOOLEAN /\ hStray' \in BOOLEAN
        /\ hPointer' = [at |-> "out", pressed |-> FALSE]
    BY <1>19 DEF H!Remount, g
  <2> HIDE DEF h
  <2>4. IsHook(hHover)' /\ IsLayout(hLayout)'
    BY <1>1, <2>2, <2>3 DEF IsHook, IsLayout
  <2>5. QED
    BY <2>2, <2>3, <2>4 DEF CardInv, Places
<1>20. CASE UNCHANGED <<hPointer, hFocus, hLayout, hHover, hLeaving, hDismissed, hStray>>
  BY <1>20 DEF CardInv, IsHook, IsLayout
<1>21. QED
  BY <1>5, <1>6, <1>7, <1>8, <1>9, <1>10, <1>11, <1>12, <1>13, <1>14, <1>15, <1>16, <1>17, <1>18, <1>19, <1>20
     DEF H!Next, H!Touch, H!PrefetchTimer, H!HandleNavigation, H!CloseDialog, cardVars

-----------------------------------------------------------------------------
(* Search, browse and home.  An entry of the cache holds answers to its own  *)
(* key, what the page in view is to show has been asked for, and on the      *)
(* search page the settled query is that of the address.                     *)

IsPage(p) ==
    /\ p = D!Page(p.view, p.q, p.n, p.sort, p.adult)
    /\ p.view \in {"home", "search", "browse"}
    /\ p.view = "home" => p.q = ""
    /\ p.view = "search" => p.n = 1 /\ p.sort = "popular"
    /\ p.view = "browse" /\ p.q # "" => p.sort = "popular"
IsRead(e, k) ==
    /\ e = [data |-> e.data, fresh |-> e.fresh, asked |-> e.asked, failed |-> e.failed]
    /\ e.fresh \in BOOLEAN /\ e.asked \in Nat /\ e.failed \in BOOLEAN
    /\ e.fresh => e.data # {}
    /\ \A d \in e.data : d.for = k
IsCache(c) == \A k \in DOMAIN c : IsPage(k) /\ IsRead(c[k], k)
Asked(c, k) == k \in DOMAIN c /\ (c[k].data # {} \/ c[k].asked > 0 \/ c[k].failed)

\* CardsAreRight, of one title of an answer for k.
CardIsRight(t, k, h) ==
    /\ t.dennId # 0 => \E v \in DOMAIN h : \E r \in h[v] :
           r.id = t.id /\ r.type = t.type /\ r.dennId = t.dennId
    /\ k.view = "browse" => t.dennId # 0
    /\ k.view = "home" /\ DModerationVisible => \E v \in DOMAIN h : \E r \in h[v] :
           /\ r.id = t.id /\ r.type = t.type
           /\ r.summary.status = "complete" /\ r.summary.classification = "safe"
Cards(c, h) == \A k \in DOMAIN c : \A d \in c[k].data : \A t \in d.items : CardIsRight(t, k, h)

SettledInAddress == dPage.view = "search" /\ D!Loc.view = "search" => dInput.debounced = D!Loc.q
IsNav(nav) == nav = {} \/ \E to : IsPage(to) /\ nav = {to}
DiscoveryInv ==
    /\ dHist \in Seq(DResolvable) /\ dHist # <<>>
    /\ IsPage(dPage) /\ IsNav(dNav)
    /\ dInput = [value |-> dInput.value, debounced |-> dInput.debounced]
    /\ IsCache(dCache)
    /\ D!Enabled(D!Key(dPage, dInput)) => Asked(dCache, D!Key(dPage, dInput))
    /\ SettledInAddress
    /\ Cards(dCache, dHist)

LEMMA PagesArePages ==
    ASSUME NEW q, NEW n, NEW s, NEW a
    PROVE  IsPage(D!Home(a)) /\ IsPage(D!Search(q, a)) /\ IsPage(D!Browse(q, n, s, a))
  BY DEF IsPage, D!Home, D!Search, D!Browse, D!Page

LEMMA KeysArePages == ASSUME NEW p, NEW i PROVE IsPage(D!Key(p, i))
  BY PagesArePages DEF D!Key

\* What is read for a key of the page is for the page (ShownIsAsked).
LEMMA KeyIsForPage ==
    ASSUME NEW p, IsPage(p), NEW i, p.view # "home", p.view = "search" => p.q = i.debounced
    PROVE  /\ D!Key(p, i).view = p.view /\ D!Key(p, i).q = p.q
           /\ D!Key(p, i).n = p.n /\ D!Key(p, i).sort = p.sort
           /\ p.view = "search" => D!Key(p, i).adult = p.adult
<1>1. CASE p.view = "search"
  BY <1>1 DEF IsPage, D!Key, D!Search, D!Page
<1>2. CASE p.view = "browse"
  BY <1>2 DEF IsPage, D!Key, D!Browse, D!Page
<1>3. QED
  BY <1>1, <1>2 DEF IsPage

LEMMA DiscoveryImply == DiscoveryInv => D!ShownIsAsked /\ D!CardsAreRight
<1> SUFFICES ASSUME DiscoveryInv PROVE D!ShownIsAsked /\ D!CardsAreRight
  OBVIOUS
<1>1. D!CardsAreRight
  BY DEF DiscoveryInv, Cards, CardIsRight, D!CardsAreRight
<1>2. D!ShownIsAsked
  <2> SUFFICES ASSUME D!Quiet
               PROVE  /\ dPage.view = "search" => dPage.q = dInput.debounced
                      /\ \A d \in D!Shown :
                            /\ d.for.view = dPage.view /\ d.for.q = dPage.q
                            /\ d.for.n = dPage.n /\ d.for.sort = dPage.sort
                            /\ dPage.view = "search" => d.for.adult = dPage.adult
    BY DEF D!ShownIsAsked
  <2> DEFINE k == D!Key(dPage, dInput)
  <2>1. dPage.view = "search" => dPage.q = dInput.debounced
    BY DEF D!Quiet, D!Loc, DiscoveryInv, SettledInAddress
  <2>2. dPage.view # "home" /\ IsPage(dPage) /\ IsCache(dCache)
    BY DEF D!Quiet, DiscoveryInv
  <2>3. D!Enabled(k) => Asked(dCache, k)
    BY DEF DiscoveryInv
  <2>4. k \in DOMAIN dCache => dCache[k].asked = 0
    BY DEF D!Quiet, D!Still
  <2>5. ASSUME NEW d \in D!Shown
        PROVE  /\ d.for.view = dPage.view /\ d.for.q = dPage.q
               /\ d.for.n = dPage.n /\ d.for.sort = dPage.sort
               /\ dPage.view = "search" => d.for.adult = dPage.adult
    <3>1. D!Enabled(k) /\ d \in D!Held
      BY DEF D!Shown
    <3> HIDE DEF k
    <3>2. k \in DOMAIN dCache /\ D!Entry(dCache, k) = dCache[k]
      BY <2>3, <3>1 DEF Asked, D!Entry
    <3>3. dCache[k].data # {} \/ dCache[k].failed
      BY <2>3, <2>4, <3>1, <3>2 DEF Asked
    <3>4. dCache[k].data # {} /\ d = D!Data(dCache, k)
      BY <3>1, <3>2, <3>3 DEF D!Held, D!Has, k
    <3>5. d \in dCache[k].data
      BY <3>2, <3>4 DEF D!Data
    <3>6. d.for = k
      BY <2>2, <3>2, <3>5 DEF IsCache, IsRead
    <3>7. QED
      BY <2>1, <2>2, <3>6, KeyIsForPage DEF k
  <2>6. QED
    BY <2>1, <2>5
<1>3. QED
  BY <1>1, <1>2

-----------------------------------------------------------------------------
\* A read that is asked keeps the entries and what they hold (Refetch, Observe, Cancel).
LEMMA CacheRefetches ==
    ASSUME NEW c, IsCache(c), NEW K, \A k \in K : IsPage(k), Len(dHist) \in Nat \ {0}
    PROVE  /\ IsCache(D!Refetch(c, K)) /\ DOMAIN D!Refetch(c, K) = DOMAIN c \cup K
           /\ \A k \in DOMAIN D!Refetch(c, K) :
                 D!Refetch(c, K)[k].data = D!Entry(c, k).data
           /\ \A k \in DOMAIN c \ K : D!Refetch(c, K)[k] = c[k]
           /\ \A k \in K : D!Refetch(c, K)[k].asked > 0
<1> DEFINE r == D!Refetch(c, K)
<1>1. DOMAIN r = DOMAIN c \cup K
  BY DEF D!Refetch
<1>2. ASSUME NEW k \in DOMAIN c \ K PROVE r[k] = c[k] /\ D!Entry(c, k) = c[k]
  BY DEF D!Refetch, D!Entry
<1>3. ASSUME NEW k \in K PROVE IsRead(r[k], k) /\ r[k].data = D!Entry(c, k).data /\ r[k].asked > 0
  <2> DEFINE e == D!Entry(c, k)
  <2>1. IsRead(e, k)
    BY DEF IsCache, IsRead, D!Entry, D!NoEntry
  <2>2. r[k] = D!Fetched(e)
    BY DEF D!Refetch
  <2> HIDE DEF e, r
  <2>3. CASE e.asked > 0 /\ e.data = {}
    <3>1. r[k] = e
      BY <2>2, <2>3 DEF D!Fetched
    <3>2. QED
      BY <2>1, <2>3, <3>1 DEF e
  <2>4. CASE ~(e.asked > 0 /\ e.data = {})
    <3> DEFINE f == e.failed /\ e.data # {}
    <3>1. r[k] = [data |-> e.data, fresh |-> e.fresh, asked |-> Len(dHist), failed |-> f]
      BY <2>1, <2>2, <2>4 DEF D!Fetched, IsRead
    <3>2. f \in BOOLEAN
      OBVIOUS
    <3> HIDE DEF f
    <3>3. IsRead(r[k], k) /\ r[k].data = e.data /\ r[k].asked > 0
      BY <2>1, <3>1, <3>2 DEF IsRead
    <3>4. QED
      BY <3>3 DEF e
  <2>5. QED
    BY <2>3, <2>4
<1> HIDE DEF r
<1>4. IsCache(r)
  BY <1>1, <1>2, <1>3 DEF IsCache
<1>5. QED
  BY <1>1, <1>2, <1>3, <1>4 DEF r

LEMMA CacheObserves ==
    ASSUME NEW c, IsCache(c), NEW k, IsPage(k), NEW old, Len(dHist) \in Nat \ {0}
    PROVE  LET r == D!Observe(c, {k}, old)
           IN  /\ IsCache(r) /\ Asked(r, k) /\ DOMAIN r = DOMAIN c \cup {k}
               /\ \A x \in DOMAIN r : r[x].data = D!Entry(c, x).data
<1> DEFINE due == {x \in {k} : x \notin DOMAIN c
                     \/ (D!Entry(c, x).asked = 0 /\ (old \/ ~D!Entry(c, x).fresh))}
           r == D!Refetch(c, due)
<1>1. D!Observe(c, {k}, old) = r
  BY DEF D!Observe
<1>2. /\ IsCache(r) /\ DOMAIN r = DOMAIN c \cup due
      /\ \A x \in DOMAIN r : r[x].data = D!Entry(c, x).data
      /\ \A x \in DOMAIN c \ due : r[x] = c[x]
      /\ \A x \in due : r[x].asked > 0
  BY CacheRefetches
<1>3. k \notin due => k \in DOMAIN c /\ IsRead(c[k], k) /\ (c[k].asked # 0 \/ c[k].fresh)
  BY DEF IsCache, D!Entry
<1> HIDE DEF due, r
<1>4. DOMAIN r = DOMAIN c \cup {k}
  BY <1>2, <1>3 DEF due
<1>5. Asked(r, k)
  BY <1>2, <1>3, <1>4 DEF Asked, IsRead
<1>6. QED
  BY <1>1, <1>2, <1>4, <1>5

LEMMA CacheCancels ==
    ASSUME NEW c, IsCache(c), NEW K
    PROVE  LET r == D!Cancel(c, K)
           IN  /\ IsCache(r) /\ DOMAIN r = DOMAIN c
               /\ \A x \in DOMAIN r : r[x].data = D!Entry(c, x).data
               /\ \A x \in DOMAIN c \ K : r[x] = c[x]
<1> DEFINE r == D!Cancel(c, K)
<1>1. DOMAIN r = DOMAIN c
  BY DEF D!Cancel
<1>2. ASSUME NEW x \in DOMAIN c
      PROVE  IsPage(x) /\ IsRead(r[x], x) /\ r[x].data = D!Entry(c, x).data /\ (x \notin K => r[x] = c[x])
  <2>1. IsPage(x) /\ IsRead(c[x], x) /\ D!Entry(c, x) = c[x]
    BY DEF IsCache, D!Entry
  <2>2. r[x] = IF x \in K THEN [c[x] EXCEPT !.asked = 0] ELSE c[x]
    BY DEF D!Cancel
  <2> HIDE DEF r
  <2>3. QED
    BY <2>1, <2>2 DEF IsRead
<1> HIDE DEF r
<1>3. QED
  BY <1>1, <1>2 DEF IsCache, r

\* The answer for a key has right cards, whichever version of Core named them
\* (ResolveCatalogContentIds).
LEMMA AnswersAreRight ==
    ASSUME NEW k, IsPage(k), NEW h, NEW v \in DOMAIN h,
           NEW t \in D!ResolveCatalogContentIds(k.view, {x.title : x \in D!Proxied(k)}, h[v])
    PROVE  CardIsRight(t, k, h)
<1> DEFINE titles == {x.title : x \in D!Proxied(k)}
           named == D!ApplyResolvedContentIds(titles, h[v])
<1>1. ASSUME NEW x \in titles
      PROVE  /\ x = [id |-> x.id, type |-> x.type, dennId |-> 0, summary |-> D!NoSummary]
             /\ k.view # "search" => x \in D!CollectContentIdentities(titles)
  <2>1. PICK y \in D!Proxied(k) : x = y.title
    OBVIOUS
  <2>2. y \in DTitles /\ k.q \in y.found /\ (k.view = "browse" => x.type = DFamily)
    BY <2>1 DEF D!Proxied
  <2>3. x = D!Unnamed(x.id, x.type)
    BY <2>1, <2>2, DiscoveryAssumption
  <2>4. k.view # "search" => x.type \notin {"PERSON", "unknown"}
    BY <2>1, <2>2, DiscoveryAssumption DEF IsPage
  <2>5. QED
    BY <2>3, <2>4 DEF D!Unnamed, D!CollectContentIdentities
<1> HIDE DEF titles
<1>2. ASSUME NEW x \in titles, NEW r \in D!Match(h[v], x)
      PROVE  r \in h[v] /\ r.id = x.id /\ r.type = x.type
  BY DEF D!Match, D!IdentityKey
<1>3. ASSUME NEW n \in named
      PROVE  /\ n = [id |-> n.id, type |-> n.type, dennId |-> n.dennId, summary |-> D!NoSummary]
             /\ n.dennId # 0 => \E r \in h[v] : r.id = n.id /\ r.type = n.type /\ r.dennId = n.dennId
  <2>1. PICK x \in titles :
          n = [x EXCEPT !.dennId = IF D!Match(h[v], x) = {} THEN 0
                                   ELSE (CHOOSE r \in D!Match(h[v], x) : TRUE).dennId]
    BY DEF D!ApplyResolvedContentIds
  <2>2. CASE D!Match(h[v], x) = {}
    BY <1>1, <2>1, <2>2
  <2>3. CASE D!Match(h[v], x) # {}
    <3> DEFINE r == CHOOSE r \in D!Match(h[v], x) : TRUE
    <3>1. r \in h[v] /\ r.id = x.id /\ r.type = x.type
      BY <1>2, <2>3
    <3>2. n = [x EXCEPT !.dennId = r.dennId]
      BY <2>1, <2>3
    <3> HIDE DEF r
    <3>3. n = [id |-> x.id, type |-> x.type, dennId |-> r.dennId, summary |-> D!NoSummary]
      BY <1>1, <3>2
    <3>4. QED
      BY <3>1, <3>3
  <2>4. QED
    BY <2>2, <2>3
<1> HIDE DEF named
\* What AttachModerationSummaries makes of a named title.
<1>4. ASSUME NEW j \in D!AttachModerationSummaries(named, h[v])
      PROVE  /\ j.dennId # 0 => \E r \in h[v] : r.id = j.id /\ r.type = j.type /\ r.dennId = j.dennId
             /\ D!IsCurrentSafeModeration(j.summary) => \E r \in h[v] :
                   /\ r.id = j.id /\ r.type = j.type
                   /\ r.summary.status = "complete" /\ r.summary.classification = "safe"
  <2>1. PICK n \in named :
          j = [n EXCEPT !.summary = IF D!Match(h[v], n) = {} THEN D!NoSummary
                                    ELSE (CHOOSE r \in D!Match(h[v], n) : TRUE).summary]
    BY DEF D!AttachModerationSummaries
  <2>2. CASE D!Match(h[v], n) = {}
    <3>1. j = [id |-> n.id, type |-> n.type, dennId |-> n.dennId, summary |-> D!NoSummary]
      BY <1>3, <2>1, <2>2
    <3>2. QED
      BY <1>3, <3>1 DEF D!IsCurrentSafeModeration, D!NoSummary
  <2>3. CASE D!Match(h[v], n) # {}
    <3> DEFINE r == CHOOSE r \in D!Match(h[v], n) : TRUE
    <3>1. r \in h[v] /\ r.id = n.id /\ r.type = n.type
      BY <2>3 DEF D!Match, D!IdentityKey
    <3>2. j = [n EXCEPT !.summary = r.summary]
      BY <2>1, <2>3
    <3> HIDE DEF r
    <3>3. j = [id |-> n.id, type |-> n.type, dennId |-> n.dennId, summary |-> r.summary]
      BY <1>3, <3>2
    <3>4. j.id = n.id /\ j.type = n.type /\ j.dennId = n.dennId /\ j.summary = r.summary
      BY <3>3
    <3>5. QED
      BY <1>3, <3>1, <3>4 DEF D!IsCurrentSafeModeration
  <2>4. QED
    BY <2>2, <2>3
<1>5. t \in D!ResolveCatalogContentIds(k.view, titles, h[v])
  BY DEF titles
<1>6. CASE D!CollectContentIdentities(titles) = {}
  <2>1. t \in titles
    BY <1>5, <1>6 DEF D!ResolveCatalogContentIds
  <2>2. t = [id |-> t.id, type |-> t.type, dennId |-> 0, summary |-> D!NoSummary]
    BY <1>1, <2>1
  <2>3. t.dennId = 0
    BY <2>2
  <2>4. k.view = "search"
    BY <1>1, <1>6, <2>1
  <2>5. QED
    BY <2>3, <2>4 DEF CardIsRight
<1>7. CASE D!CollectContentIdentities(titles) # {}
  <2>1. /\ \/ t \in named
           \/ t \in D!AttachModerationSummaries(named, h[v])
        /\ k.view = "browse" => t.dennId # 0
        /\ k.view = "home" /\ DModerationVisible =>
             t \in D!AttachModerationSummaries(named, h[v]) /\ D!IsCurrentSafeModeration(t.summary)
    BY <1>5, <1>7 DEF D!ResolveCatalogContentIds, D!KeepOnlyCurrentSafeHomepageItems, named
  <2>2. QED
    BY <1>3, <1>4, <2>1 DEF CardIsRight
<1>8. QED
  BY <1>6, <1>7

LEMMA AnswerFits ==
    ASSUME NEW k, IsPage(k), NEW h, NEW v \in DOMAIN h
    PROVE  /\ D!Answer(k, h[v]).for = k
           /\ \A t \in D!Answer(k, h[v]).items : CardIsRight(t, k, h)
<1>1. D!Answer(k, h[v]).items =
        D!ResolveCatalogContentIds(k.view, {x.title : x \in D!Proxied(k)}, h[v])
  BY DEF D!Answer
<1>2. QED
  BY <1>1, AnswersAreRight DEF D!Answer

LEMMA DiscoveryStart == D!Init => DiscoveryInv
<1> SUFFICES ASSUME D!Init PROVE DiscoveryInv
  OBVIOUS
<1>1. dHist \in Seq(DResolvable) /\ dHist # <<>> /\ 1 \in DOMAIN dHist
  BY DEF D!Init
<1>2. IsPage(dPage) /\ dInput = D!Both(dPage.q) /\ dNav = {}
  BY PagesArePages DEF D!Init
<1> DEFINE k == D!Key(dPage, dInput)
<1>3. IsPage(k)
  BY KeysArePages
<1>4. PICK d \in D!Prefetched(k) :
        dCache = IF ~D!Enabled(k) THEN <<>>
                 ELSE [x \in {k} |-> [D!NoEntry EXCEPT
                          !.data = d, !.fresh = d # {}, !.asked = IF d = {} THEN 1 ELSE 0]]
  BY <1>2 DEF D!Init
<1> HIDE DEF k
<1>5. CASE ~D!Enabled(k)
  <2>1. DOMAIN dCache = {}
    BY <1>4, <1>5
  <2>2. QED
    BY <1>1, <1>2, <1>5, <2>1
       DEF DiscoveryInv, IsCache, Cards, SettledInAddress, IsNav, D!Loc, D!Both, k
<1>6. CASE D!Enabled(k)
  <2>1. \A a \in d : a.for = k /\ \A t \in a.items : CardIsRight(t, k, dHist)
    <3>1. d = {} \/ d = {D!Answer(k, dHist[1])} \/ d = {D!DegradedBrowseResponse(k)}
      BY <1>6 DEF D!Prefetched
    <3>2. D!DegradedBrowseResponse(k).for = k /\ D!DegradedBrowseResponse(k).items = {}
      BY DEF D!DegradedBrowseResponse
    <3>3. D!Answer(k, dHist[1]).for = k /\ \A t \in D!Answer(k, dHist[1]).items : CardIsRight(t, k, dHist)
      BY <1>1, <1>3, AnswerFits
    <3>4. QED
      BY <3>1, <3>2, <3>3
  <2>2. DOMAIN dCache = {k}
    BY <1>4, <1>6
  <2>3. dCache[k] = [data |-> d, fresh |-> d # {}, asked |-> IF d = {} THEN 1 ELSE 0, failed |-> FALSE]
    BY <1>4, <1>6 DEF D!NoEntry
  <2>4. IsRead(dCache[k], k) /\ Asked(dCache, k) /\ dCache[k].data = d
    <3> DEFINE f == d # {}
               n == IF d = {} THEN 1 ELSE 0
    <3>1. f \in BOOLEAN /\ n \in Nat /\ (f => d # {}) /\ (d # {} \/ n > 0)
      OBVIOUS
    <3>2. dCache[k] = [data |-> d, fresh |-> f, asked |-> n, failed |-> FALSE]
      BY <2>3
    <3> HIDE DEF f, n
    <3>3. QED
      BY <2>1, <2>2, <3>1, <3>2 DEF IsRead, Asked
  <2>5. QED
    BY <1>1, <1>2, <1>3, <2>1, <2>2, <2>4
       DEF DiscoveryInv, IsCache, Cards, SettledInAddress, IsNav, D!Loc, D!Both, k
<1>7. QED
  BY <1>5, <1>6

\* Page p with input i over the entries c, which hold what the cache holds (Render).
LEMMA DiscoveryRenders ==
    ASSUME DiscoveryInv, NEW p, IsPage(p), NEW i,
           i = [value |-> i.value, debounced |-> i.debounced],
           NEW old, D!Render(p, i, dCache, old),
           UNCHANGED dHist, IsNav(dNav'), SettledInAddress'
    PROVE  DiscoveryInv'
<1> DEFINE k == D!Key(p, i)
           gone == D!Key(dPage, dInput)
           c == IF gone # k /\ gone.view # "home"
                THEN D!Cancel(dCache, {gone} \cap DOMAIN dCache) ELSE dCache
<1>1. dPage' = p /\ dInput' = i
      /\ dCache' = IF D!Enabled(k) THEN D!Observe(c, {k}, old) ELSE c
  BY DEF D!Render
<1>2. IsCache(dCache) /\ Cards(dCache, dHist) /\ Len(dHist) \in Nat \ {0}
  BY DEF DiscoveryInv
<1>3. IsPage(k) /\ k = D!Key(dPage', dInput')
  BY <1>1, KeysArePages
<1>4. IsCache(c) /\ DOMAIN c = DOMAIN dCache /\ \A x \in DOMAIN c : c[x].data = dCache[x].data
  BY <1>2, CacheCancels DEF D!Entry
<1> HIDE DEF k, gone, c
<1>5. IsCache(dCache') /\ (D!Enabled(k) => Asked(dCache', k)) /\ Cards(dCache', dHist)
  <2>1. CASE ~D!Enabled(k)
    BY <1>1, <1>2, <1>4, <2>1 DEF Cards
  <2>2. CASE D!Enabled(k)
    <3>1. /\ IsCache(dCache') /\ Asked(dCache', k) /\ DOMAIN dCache' = DOMAIN c \cup {k}
          /\ \A x \in DOMAIN dCache' : dCache'[x].data = D!Entry(c, x).data
      <4> DEFINE o == D!Observe(c, {k}, old)
      <4>1. /\ IsCache(o) /\ Asked(o, k) /\ DOMAIN o = DOMAIN c \cup {k}
            /\ \A x \in DOMAIN o : o[x].data = D!Entry(c, x).data
        <5>1. IsCache(c) /\ IsPage(k) /\ Len(dHist) \in Nat \ {0}
          BY <1>2, <1>3, <1>4
        <5>2. QED
          BY <5>1, CacheObserves DEF D!Entry, D!NoEntry
      <4> HIDE DEF o
      <4>2. dCache' = o
        BY <1>1, <2>2 DEF o
      <4>3. QED
        BY <4>1, <4>2
    <3>2. \A x \in DOMAIN dCache' : \A d \in dCache'[x].data : x \in DOMAIN dCache /\ d \in dCache[x].data
      BY <1>4, <3>1 DEF D!Entry, D!NoEntry
    <3>3. QED
      BY <1>2, <3>1, <3>2 DEF Cards
  <2>3. QED
    BY <2>1, <2>2
<1>6. IsCache(dCache)' /\ Cards(dCache, dHist)'
  BY <1>5
<1>7. (D!Enabled(D!Key(dPage, dInput)) => Asked(dCache, D!Key(dPage, dInput)))'
  BY <1>3, <1>5 DEF Asked, D!Enabled
<1>8. IsPage(dPage)' /\ IsNav(dNav)'
  BY <1>1 DEF IsPage, D!Page, IsNav
<1>9. QED
  BY <1>1, <1>6, <1>7, <1>8 DEF DiscoveryInv

LEMMA AddressIsNav ==
    ASSUME NEW to
    PROVE  /\ dNav = {to} => D!Loc = to
           /\ dNav' = {to} => D!Loc' = to
           /\ dNav = {} => D!Loc = dPage
           /\ dNav' = {} => D!Loc' = dPage'
  BY DEF D!Loc

\* The timer, the form's button and the cross: the query q settles (Publish).
LEMMA DiscoveryPublishes ==
    ASSUME DiscoveryInv, NEW value, NEW q, D!Publish(value, q)
    PROVE  DiscoveryInv'
<1>1. /\ IsPage(dPage) /\ IsNav(dNav) /\ SettledInAddress
  BY DEF DiscoveryInv
<1>2. PICK v : D!Render(dPage, [value |-> v, debounced |-> q], dCache, FALSE)
  BY DEF D!Publish
<1>3. dNav' = D!OnDebouncedChange(q) /\ UNCHANGED dHist
  BY DEF D!Publish
<1>4. dPage' = dPage /\ dInput' = [value |-> v, debounced |-> q]
  BY <1>2 DEF D!Render
<1>5. \/ dNav' = dNav
      \/ \E to : dNav' = {to} /\ IsPage(to) /\ (dPage.view = "search" => to.q = q)
  <2>1. PICK to : /\ dNav' = dNav \/ dNav' = {to}
                  /\ to \in {D!Search(q, dPage.adult), D!Browse(q, 1, dPage.sort, dPage.adult)}
    BY <1>3 DEF D!OnDebouncedChange, D!UpdateRouteQuery, D!UpdateSearch, D!NavigateToSearch
  <2>2. IsPage(to)
    <3>1. IsPage(D!Search(q, dPage.adult)) /\ IsPage(D!Browse(q, 1, dPage.sort, dPage.adult))
      BY PagesArePages
    <3>2. QED
      BY <2>1, <3>1
  <2>3. to.q = q
    <3>1. D!Search(q, dPage.adult).q = q /\ D!Browse(q, 1, dPage.sort, dPage.adult).q = q
      BY DEF D!Search, D!Browse, D!Page
    <3>2. QED
      BY <2>1, <3>1
  <2>4. QED
    BY <2>1, <2>2, <2>3
<1>6. IsNav(dNav')
  BY <1>1, <1>5 DEF IsNav
<1>7. SettledInAddress'
  <2> SUFFICES ASSUME dPage.view = "search" PROVE q = D!Loc'.q
    BY <1>4 DEF SettledInAddress
  <2>1. CASE dNav' = dNav
    <3>1. D!Loc' = D!Loc
      BY <1>4, <2>1 DEF D!Loc
    <3>2. q = D!Loc.q \/ dNav = {D!Search(q, dPage.adult)}
      BY <1>3, <2>1 DEF D!OnDebouncedChange, D!UpdateRouteQuery
    <3>3. dNav = {D!Search(q, dPage.adult)} => D!Loc = D!Search(q, dPage.adult)
      BY AddressIsNav
    <3>4. D!Search(q, dPage.adult).q = q
      BY DEF D!Search, D!Page
    <3>5. QED
      BY <3>1, <3>2, <3>3, <3>4
  <2>2. CASE dNav' # dNav
    BY <1>5, <2>2, AddressIsNav
  <2>3. QED
    BY <2>1, <2>2
<1>8. QED
  <2> DEFINE i == [value |-> v, debounced |-> q]
  <2>1. i = [value |-> i.value, debounced |-> i.debounced]
    OBVIOUS
  <2>2. D!Render(dPage, i, dCache, FALSE)
    BY <1>2
  <2> HIDE DEF i
  <2>3. QED
    BY <1>1, <1>3, <1>6, <1>7, <2>1, <2>2, DiscoveryRenders

\* A link to another page; none of them leads from the search page to a search.
LEMMA DiscoveryGoes ==
    ASSUME DiscoveryInv, NEW to, IsPage(to), dPage.view = "search" => to.view # "search", D!Go(to)
    PROVE  DiscoveryInv'
<1>1. dNav' = {to} /\ UNCHANGED <<dHist, dCache, dPage, dInput>>
  BY DEF D!Go
<1>2. IsNav(dNav')
  BY <1>1 DEF IsNav
<1>3. SettledInAddress'
  BY <1>1, AddressIsNav DEF SettledInAddress
<1>4. QED
  BY <1>1, <1>2, <1>3 DEF DiscoveryInv

LEMMA DiscoveryLoads == ASSUME DiscoveryInv, D!Loaded PROVE DiscoveryInv'
<1>1. PICK to \in dNav, old \in BOOLEAN :
        LET p == [to EXCEPT !.adult = dAdult]
            i == IF p.view = dPage.view THEN D!InitialValue(p.q, dPage.q) ELSE D!Both(p.q)
        IN  D!Render(p, i, dCache, old)
  BY DEF D!Loaded
<1>2. dNav' = {} /\ UNCHANGED dHist
  BY DEF D!Loaded
<1> DEFINE p == [to EXCEPT !.adult = dAdult]
           i == IF p.view = dPage.view THEN D!InitialValue(p.q, dPage.q) ELSE D!Both(p.q)
<1>3. dNav = {to} /\ IsPage(to) /\ SettledInAddress
      /\ dInput = [value |-> dInput.value, debounced |-> dInput.debounced]
  BY DEF DiscoveryInv, IsNav
<1>4. IsPage(p) /\ p.view = to.view /\ p.q = to.q
  <2> DEFINE v == to.view
             q == to.q
             n == to.n
             s == to.sort
             a == to.adult
  <2>1. p = D!Page(v, q, n, s, dAdult)
    <3>1. to = [view |-> v, q |-> q, n |-> n, sort |-> s, adult |-> a]
      BY <1>3 DEF IsPage, D!Page
    <3> HIDE DEF v, q, n, s, a
    <3>2. QED
      BY <3>1 DEF D!Page
  <2>2. p.view = to.view /\ p.q = to.q /\ p.n = to.n /\ p.sort = to.sort /\ p.adult = dAdult
    BY <2>1 DEF D!Page
  <2> HIDE DEF p
  <2>3. QED
    BY <1>3, <2>1, <2>2 DEF IsPage
<1>5. D!Render(p, i, dCache, old)
  BY <1>1
<1> HIDE DEF p
<1>6. i = [value |-> i.value, debounced |-> i.debounced] /\ (p.view = "search" => i.debounced = p.q)
  <2>1. D!Both(p.q) = [value |-> p.q, debounced |-> p.q]
    BY DEF D!Both
  <2>2. p.view = "search" /\ p.view = dPage.view => dInput.debounced = p.q
    BY <1>3, <1>4, AddressIsNav DEF SettledInAddress
  <2>3. QED
    BY <1>3, <2>1, <2>2 DEF D!InitialValue
<1> HIDE DEF i
<1>7. dPage' = p /\ dInput' = i
  BY <1>5 DEF D!Render
<1>8. IsNav(dNav') /\ SettledInAddress'
  BY <1>2, <1>6, <1>7, AddressIsNav DEF IsNav, SettledInAddress
<1>9. QED
  BY <1>2, <1>4, <1>5, <1>6, <1>8, DiscoveryRenders

\* An answer arrives, or a read is lost.
LEMMA DiscoveryReads ==
    ASSUME DiscoveryInv, NEW k \in DOMAIN dCache, NEW e, IsRead(e, k),
           e.data # {} \/ e.failed,
           \A d \in e.data : d \in dCache[k].data \/ \A t \in d.items : CardIsRight(t, k, dHist),
           dCache' = [dCache EXCEPT ![k] = e],
           UNCHANGED <<dHist, dPage, dNav, dInput>>
    PROVE  DiscoveryInv'
<1>1. DOMAIN dCache' = DOMAIN dCache /\ dCache'[k] = e
      /\ \A x \in DOMAIN dCache : x # k => dCache'[x] = dCache[x]
  OBVIOUS
<1>2. IsCache(dCache) /\ Cards(dCache, dHist)
      /\ (D!Enabled(D!Key(dPage, dInput)) => Asked(dCache, D!Key(dPage, dInput)))
  BY DEF DiscoveryInv
<1>3. IsCache(dCache')
  BY <1>1, <1>2 DEF IsCache
<1>4. Cards(dCache', dHist)
  BY <1>1, <1>2 DEF Cards
<1>5. D!Enabled(D!Key(dPage, dInput)) => Asked(dCache', D!Key(dPage, dInput))
  BY <1>1, <1>2 DEF Asked
<1>6. QED
  BY <1>3, <1>4, <1>5 DEF DiscoveryInv, SettledInAddress, D!Loc

LEMMA DiscoveryNext == DiscoveryInv /\ [D!Next]_discoveryVars => DiscoveryInv'
<1> SUFFICES ASSUME DiscoveryInv, [D!Next]_discoveryVars PROVE DiscoveryInv'
  OBVIOUS
<1>1. /\ dHist \in Seq(DResolvable) /\ dHist # <<>> /\ IsPage(dPage) /\ IsNav(dNav)
      /\ dInput = [value |-> dInput.value, debounced |-> dInput.debounced]
      /\ IsCache(dCache) /\ SettledInAddress /\ Cards(dCache, dHist)
  BY DEF DiscoveryInv
<1>2. CASE \E t \in DTexts : D!OnChange(t)
  <2>1. PICK t \in DTexts : dInput' = [dInput EXCEPT !.value = t]
    BY <1>2 DEF D!OnChange
  <2>2. UNCHANGED <<dHist, dCache, dPage, dNav>>
    BY <1>2 DEF D!OnChange
  <2>3. dInput' = [value |-> t, debounced |-> dInput.debounced]
    BY <1>1, <2>1
  <2>4. D!Key(dPage', dInput') = D!Key(dPage, dInput)
    BY <2>2, <2>3 DEF D!Key
  <2>5. SettledInAddress'
    BY <1>1, <2>2, <2>3 DEF SettledInAddress, D!Loc
  <2>6. QED
    BY <2>2, <2>3, <2>4, <2>5 DEF DiscoveryInv
<1>3. CASE D!TimerFires \/ D!Commit \/ D!Clear
  BY <1>3, DiscoveryPublishes DEF D!TimerFires, D!Commit, D!Clear
<1>4. CASE D!PageLink \/ D!SortLink \/ D!BrowseSectionLink \/ D!HomeLink
  <2>1. ASSUME NEW to, D!Go(to), IsPage(to) /\ to.view # "search" PROVE DiscoveryInv'
    BY <2>1, DiscoveryGoes
  <2>2. ASSUME NEW q, NEW n, NEW s, NEW a
        PROVE  /\ IsPage(D!Browse(q, n, s, a)) /\ D!Browse(q, n, s, a).view # "search"
               /\ IsPage(D!Home(a)) /\ D!Home(a).view # "search"
    BY PagesArePages DEF D!Browse, D!Home, D!Page
  <2>3. CASE D!PageLink
    <3>1. PICK n : D!Go(D!Browse(dPage.q, n, dPage.sort, dPage.adult))
      BY <2>3 DEF D!PageLink
    <3>2. QED
      BY <2>1, <2>2, <3>1
  <2>4. CASE D!SortLink
    <3>1. PICK s : D!Go(D!Browse("", dPage.n, s, dPage.adult))
      BY <2>4 DEF D!SortLink
    <3>2. QED
      BY <2>1, <2>2, <3>1
  <2>5. CASE D!BrowseSectionLink
    <3>1. PICK q : D!Go(D!Browse(q, 1, "popular", dPage.adult))
      BY <2>5 DEF D!BrowseSectionLink
    <3>2. QED
      BY <2>1, <2>2, <3>1
  <2>6. CASE D!HomeLink
    BY <2>1, <2>2, <2>6 DEF D!HomeLink
  <2>7. QED
    BY <1>4, <2>3, <2>4, <2>5, <2>6
<1>5. CASE D!Loaded
  BY <1>5, DiscoveryLoads
<1>6. CASE D!Focus
  <2>1. D!Render(dPage, dInput, dCache, TRUE) /\ UNCHANGED <<dHist, dNav>>
    BY <1>6 DEF D!Focus
  <2>2. dPage' = dPage /\ dInput' = dInput
    BY <2>1 DEF D!Render
  <2>3. SettledInAddress' /\ IsNav(dNav')
    BY <1>1, <2>1, <2>2 DEF SettledInAddress, D!Loc
  <2>4. QED
    BY <1>1, <2>1, <2>3, DiscoveryRenders
<1>7. CASE D!Deliver
  <2>1. PICK k \in DOMAIN dCache, v \in DOMAIN dHist :
          dCache' = D!Arrived(dCache, k, D!Answer(k, dHist[v]))
    BY <1>7 DEF D!Deliver
  <2>2. UNCHANGED <<dHist, dPage, dNav, dInput>>
    BY <1>7 DEF D!Deliver
  <2> DEFINE d == D!Answer(k, dHist[v])
             e == [data |-> {d}, fresh |-> TRUE, asked |-> 0, failed |-> FALSE]
  <2>3. IsPage(k)
    BY <1>1 DEF IsCache
  <2>4. d.for = k /\ \A t \in d.items : CardIsRight(t, k, dHist)
    BY <2>3, AnswerFits
  <2>5. dCache' = [dCache EXCEPT ![k] = e]
    BY <2>1 DEF D!Arrived
  <2> HIDE DEF d
  <2>6. IsRead(e, k) /\ e.data = {d}
    BY <2>4 DEF IsRead
  <2> HIDE DEF e
  <2>7. QED
    BY <2>2, <2>4, <2>5, <2>6, DiscoveryReads
<1>8. CASE D!LoseRead
  <2>1. PICK k \in DOMAIN dCache : dCache' = D!Lost(dCache, k)
    BY <1>8 DEF D!LoseRead
  <2>2. UNCHANGED <<dHist, dPage, dNav, dInput>>
    BY <1>8 DEF D!LoseRead
  <2> DEFINE e == [dCache[k] EXCEPT !.asked = 0, !.failed = TRUE]
  <2>3. IsRead(dCache[k], k)
    BY <1>1 DEF IsCache
  <2>4. ASSUME NEW x, NEW y, IsRead(x, k), y = [x EXCEPT !.asked = 0, !.failed = TRUE]
        PROVE  IsRead(y, k) /\ y.data = x.data /\ y.failed
    <3>1. PICK held, fresh, asked, failed :
            x = [data |-> held, fresh |-> fresh, asked |-> asked, failed |-> failed]
      BY <2>4 DEF IsRead
    <3>2. y = [data |-> held, fresh |-> fresh, asked |-> 0, failed |-> TRUE]
      BY <2>4, <3>1
    <3>3. x.data = held /\ x.fresh = fresh
      BY <3>1
    <3>4. fresh \in BOOLEAN /\ (fresh => held # {}) /\ \A d \in held : d.for = k
      BY <2>4, <3>3 DEF IsRead
    <3>5. y.data = held /\ y.fresh = fresh /\ y.asked = 0 /\ y.failed = TRUE
      BY <3>2
    <3>6. QED
      BY <3>2, <3>3, <3>4, <3>5 DEF IsRead
  <2>5. dCache' = [dCache EXCEPT ![k] = e]
    BY <2>1 DEF D!Lost
  <2>6. IsRead(e, k) /\ e.data = dCache[k].data /\ e.failed
    BY <2>3, <2>4
  <2> HIDE DEF e
  <2>7. QED
    BY <2>2, <2>5, <2>6, DiscoveryReads
<1>9. CASE D!CoreMoves
  <2>1. PICK r \in DResolvable : dHist' = Append(dHist, r)
    BY <1>9 DEF D!CoreMoves
  <2>2. UNCHANGED <<dCache, dPage, dNav, dInput>>
    BY <1>9 DEF D!CoreMoves
  <2>3. dHist' \in Seq(DResolvable) /\ dHist' # <<>>
        /\ \A v \in DOMAIN dHist : v \in DOMAIN dHist' /\ dHist'[v] = dHist[v]
    BY <1>1, <2>1
  <2>4. \A t, k : CardIsRight(t, k, dHist) => CardIsRight(t, k, dHist')
    BY <2>3 DEF CardIsRight
  <2>5. Cards(dCache', dHist')
    BY <1>1, <2>2, <2>4 DEF Cards
  <2>6. QED
    BY <2>2, <2>3, <2>5 DEF DiscoveryInv, SettledInAddress, D!Loc
<1>10. CASE UNCHANGED <<dHist, dCache, dPage, dNav, dInput>>
  BY <1>10 DEF DiscoveryInv, SettledInAddress, D!Loc
<1>11. QED
  BY <1>2, <1>3, <1>4, <1>5, <1>6, <1>7, <1>8, <1>9, <1>10 DEF D!Next, D!ChangeAdult, discoveryVars

-----------------------------------------------------------------------------
(* The add-to-list dialog.  A call that changed a list, or may have, is owed  *)
(* a refresh of the boxes until it settles; when none is, the read that the   *)
(* boxes show or wait for is no older than the last answered call.            *)

IsModal(m) == DOMAIN m = {"open", "item", "phase", "mode", "selected", "error"}
IsTask(t) ==
    /\ DOMAIN t = {"kind", "list", "todo", "added", "failed", "state"}
    /\ t.kind \in {"add", "create", "remove", "seasons"}
    /\ t.added \in BOOLEAN /\ t.failed \in BOOLEAN
    /\ t.state = "created" => t.kind = "create"
IsEntry(e, n) ==
    /\ e = [data |-> e.data, fresh |-> e.fresh, asked |-> e.asked, failed |-> e.failed]
    /\ e.fresh \in BOOLEAN /\ e.asked \in 0..n /\ e.failed \in BOOLEAN
Entries(c, n) == \A k \in DOMAIN c : IsEntry(c[k], n)

Owed(t) == t.state # "refreshing" /\ (t.kind \in {"add", "create"} \/ t.added)
\* Version n of the lists, or a later one, is what e shows or waits for.
Current(e, k, h, n) ==
    /\ e.asked > 0 => e.asked >= n
    /\ e.asked = 0 /\ e.fresh /\ ~e.failed => \A d \in e.data : \E i \in n..Len(h) : d = A!Answer(h[i], k)
UpToDate(c, k, h, n) == k \in DOMAIN c => Current(c[k], k, h, n)
\* Before the seasons are known the dialog has asked for nothing but its item.
KeysKnown(m, c) ==
    /\ m.item = "none" => DOMAIN c = {} /\ ~m.open
    /\ ~A!Has(c, A!ContentKey) => DOMAIN c \subseteq {A!ContentKey, A!MemberKey({m.item})}

AddInv ==
    /\ \E S : aHist \in Seq(S)
    /\ aHist # <<>> /\ aKnown \in 1..Len(aHist) /\ aBlind \in BOOLEAN
    /\ IsModal(aModal) /\ Entries(aCache, Len(aHist)) /\ \A t \in aTasks : IsTask(t)
    /\ KeysKnown(aModal, aCache) /\ (aModal.item = "none" => aTasks = {})
    /\ \/ aBlind
       \/ \E t \in aTasks : Owed(t)
       \/ UpToDate(aCache, A!MyKey, aHist, aKnown)

LEMMA AddStart == A!Init => AddInv
<1> SUFFICES ASSUME A!Init PROVE AddInv
  OBVIOUS
<1>1. aHist \in Seq({aHist[1]}) /\ aHist # <<>> /\ Len(aHist) = 1
  BY DEF A!Init
<1>2. IsModal(aModal) /\ aModal.item = "none" /\ aModal.open = FALSE
  BY DEF A!Init, A!Closed, IsModal
<1>3. DOMAIN aCache = {} /\ aTasks = {} /\ aKnown = 1 /\ aBlind = FALSE
  BY DEF A!Init
<1>4. /\ Entries(aCache, Len(aHist)) /\ KeysKnown(aModal, aCache)
      /\ UpToDate(aCache, A!MyKey, aHist, aKnown)
  BY <1>2, <1>3 DEF Entries, KeysKnown, UpToDate
<1>5. \E S : aHist \in Seq(S)
  BY <1>1
<1>6. aKnown \in 1..Len(aHist) /\ aBlind \in BOOLEAN
  <2>1. 1 \in 1..1
    OBVIOUS
  <2>2. QED
    BY <1>1, <1>3, <2>1
<1>7. (\A t \in aTasks : IsTask(t)) /\ (aModal.item = "none" => aTasks = {})
  BY <1>3
<1>8. QED
  BY <1>1, <1>2, <1>4, <1>5, <1>6, <1>7 DEF AddInv

LEMMA AddImply == AddInv => A!BoxesShowOwnCalls
<1> SUFFICES ASSUME AddInv, aTasks = {}, A!Still, A!Boxes # {}, ~aBlind,
                    aCache[A!MyKey].fresh, ~aCache[A!MyKey].failed
             PROVE  \E n \in aKnown..Len(aHist) : A!Shown = A!Answer(aHist[n], A!MyKey)
  BY DEF A!BoxesShowOwnCalls
<1> DEFINE k == A!MyKey
<1>1. UpToDate(aCache, k, aHist, aKnown)
  BY DEF AddInv
<1>2. DOMAIN A!Shown # {}
  BY DEF A!Boxes
<1>3. A!Has(aCache, k)
  BY <1>2 DEF A!Shown
<1> HIDE DEF k
<1>4. k \in DOMAIN aCache /\ aCache[k].data # {} /\ A!Data(aCache, k) \in aCache[k].data
  BY <1>3 DEF A!Has, A!Entry, A!NoEntry, A!Data
<1>5. aCache[k].asked = 0
  BY <1>4 DEF A!Still
<1>6. A!Shown = A!Data(aCache, k)
  BY <1>3 DEF A!Shown, k
<1>7. aCache[k].fresh /\ ~aCache[k].failed
  BY DEF k
<1>8. QED
  BY <1>1, <1>4, <1>5, <1>6, <1>7 DEF UpToDate, Current, k

-----------------------------------------------------------------------------
(* What the cache's operations keep *)

LEMMA FetchIsCurrent ==
    ASSUME NEW e, NEW k, NEW n \in 1..Len(aHist), Len(aHist) \in Nat, IsEntry(e, Len(aHist))
    PROVE  /\ IsEntry(A!Fetched(e), Len(aHist)) /\ A!Fetched(e).data = e.data
           /\ Current(e, k, aHist, n) \/ e.asked = 0 \/ e.data # {} =>
                 Current(A!Fetched(e), k, aHist, n)
<1>1. CASE e.asked > 0 /\ e.data = {}
  <2>1. A!Fetched(e) = e
    BY <1>1 DEF A!Fetched
  <2>2. QED
    BY <1>1, <2>1 DEF IsEntry
<1>2. CASE ~(e.asked > 0 /\ e.data = {})
  <2> DEFINE f == e.failed /\ e.data # {}
  <2>1. A!Fetched(e) = [data |-> e.data, fresh |-> e.fresh, asked |-> Len(aHist), failed |-> f]
    BY <1>2 DEF A!Fetched, IsEntry
  <2>2. f \in BOOLEAN
    OBVIOUS
  <2> HIDE DEF f
  <2>3. QED
    BY <2>1, <2>2 DEF IsEntry, Current
<1>3. QED
  BY <1>1, <1>2

\* r has what c holds, and more reads of it.
Follows(r, c, K, n) ==
    /\ Entries(r, Len(aHist)) /\ DOMAIN r = DOMAIN c \cup K
    /\ \A k \in DOMAIN r : r[k].data = A!Entry(c, k).data
    /\ \A k : UpToDate(c, k, aHist, n) => UpToDate(r, k, aHist, n)

LEMMA AddRefetches ==
    ASSUME NEW c, NEW K, NEW n \in 1..Len(aHist), Len(aHist) \in Nat, Entries(c, Len(aHist))
    PROVE  /\ Follows(A!Refetch(c, K), c, K, n)
           /\ \A k \in K : (k \in DOMAIN c => c[k].asked = 0 \/ c[k].data # {})
                 => UpToDate(A!Refetch(c, K), k, aHist, n)
<1> DEFINE r == A!Refetch(c, K)
<1>1. DOMAIN r = DOMAIN c \cup K
  BY DEF A!Refetch
<1>2. ASSUME NEW k \in DOMAIN r
      PROVE  /\ IsEntry(r[k], Len(aHist)) /\ r[k].data = A!Entry(c, k).data
             /\ UpToDate(c, k, aHist, n) => Current(r[k], k, aHist, n)
             /\ k \in K /\ (k \in DOMAIN c => c[k].asked = 0 \/ c[k].data # {})
                  => Current(r[k], k, aHist, n)
  <2> DEFINE e == A!Entry(c, k)
  <2>1. IsEntry(e, Len(aHist)) /\ (k \in DOMAIN c => e = c[k]) /\ (k \notin DOMAIN c => e.asked = 0)
    <3>1. CASE k \in DOMAIN c
      BY <3>1 DEF Entries, A!Entry
    <3>2. CASE k \notin DOMAIN c
      BY <3>2 DEF IsEntry, A!Entry, A!NoEntry
    <3>3. QED
      BY <3>1, <3>2
  <2>2. r[k] = IF k \in K THEN A!Fetched(e) ELSE c[k]
    BY DEF A!Refetch
  <2>3. k \notin K => k \in DOMAIN c
    BY <1>1
  <2> HIDE DEF e, r
  <2>4. CASE k \in K
    <3>1. /\ IsEntry(A!Fetched(e), Len(aHist)) /\ A!Fetched(e).data = e.data
          /\ Current(e, k, aHist, n) \/ e.asked = 0 \/ e.data # {} =>
                Current(A!Fetched(e), k, aHist, n)
      BY <2>1, FetchIsCurrent
    <3>2. QED
      BY <2>1, <2>2, <2>4, <3>1 DEF UpToDate, e
  <2>5. CASE k \notin K
    BY <2>1, <2>2, <2>3, <2>5 DEF UpToDate, e
  <2>6. QED
    BY <2>4, <2>5
<1> HIDE DEF r
<1>3. QED
  BY <1>1, <1>2 DEF Follows, Entries, UpToDate, r

LEMMA AddObserves ==
    ASSUME NEW c, NEW K, NEW old, NEW n \in 1..Len(aHist), Len(aHist) \in Nat, Entries(c, Len(aHist))
    PROVE  \E J \in SUBSET K : Follows(A!Observe(c, K, old), c, J, n) /\ K \subseteq DOMAIN c \cup J
<1> DEFINE due == {x \in K : x \notin DOMAIN c
                     \/ (A!Entry(c, x).asked = 0 /\ (old \/ ~A!Entry(c, x).fresh))}
<1>1. A!Observe(c, K, old) = A!Refetch(c, due)
  BY DEF A!Observe
<1>2. Follows(A!Refetch(c, due), c, due, n)
  BY AddRefetches
<1>3. due \in SUBSET K /\ K \subseteq DOMAIN c \cup due
  OBVIOUS
<1> HIDE DEF due
<1>4. QED
  BY <1>1, <1>2, <1>3

\* Follows composes.
LEMMA AddFollows ==
    ASSUME NEW c, NEW r, NEW s, NEW J, NEW K, NEW n, Follows(r, c, J, n), Follows(s, r, K, n)
    PROVE  Follows(s, c, J \cup K, n)
<1>1. \A k \in DOMAIN s : s[k].data = A!Entry(c, k).data
  <2> SUFFICES ASSUME NEW k \in DOMAIN s PROVE s[k].data = A!Entry(c, k).data
    OBVIOUS
  <2>1. s[k].data = A!Entry(r, k).data
    BY DEF Follows
  <2>2. CASE k \in DOMAIN r
    BY <2>1, <2>2 DEF Follows, A!Entry
  <2>3. CASE k \notin DOMAIN r
    BY <2>1, <2>3 DEF Follows, A!Entry
  <2>4. QED
    BY <2>2, <2>3
<1>2. QED
  BY <1>1 DEF Follows

LEMMA AddCancels ==
    ASSUME NEW c, NEW K, Entries(c, Len(aHist)), Len(aHist) \in Nat
    PROVE  /\ Entries(A!Cancel(c, K), Len(aHist)) /\ DOMAIN A!Cancel(c, K) = DOMAIN c
           /\ \A k \in DOMAIN c : A!Cancel(c, K)[k].data = c[k].data
<1> DEFINE r == A!Cancel(c, K)
<1>1. DOMAIN r = DOMAIN c
  BY DEF A!Cancel
<1>2. ASSUME NEW k \in DOMAIN c PROVE IsEntry(r[k], Len(aHist)) /\ r[k].data = c[k].data
  <2>1. IsEntry(c[k], Len(aHist))
    BY DEF Entries
  <2>2. r[k] = IF k \in K THEN [c[k] EXCEPT !.asked = 0] ELSE c[k]
    BY DEF A!Cancel
  <2> HIDE DEF r
  <2>3. QED
    BY <2>1, <2>2 DEF IsEntry
<1> HIDE DEF r
<1>3. QED
  BY <1>1, <1>2 DEF Entries, r

\* Nothing in K is shown as fresh before it is read again; what is in view of it is.
LEMMA AddInvalidates ==
    ASSUME NEW c, NEW K, NEW V, NEW n \in 1..Len(aHist), Len(aHist) \in Nat, Entries(c, Len(aHist))
    PROVE  LET r == A!Invalidate(c, K, V)
           IN  /\ Follows(r, c, {}, n)
               /\ \A k \in K : (k \in DOMAIN c =>
                     c[k].asked = 0 \/ (c[k].data # {} /\ k \in V)) => UpToDate(r, k, aHist, n)
<1> DEFINE s == [k \in DOMAIN c |-> IF k \in K THEN [c[k] EXCEPT !.fresh = FALSE] ELSE c[k]]
           seen == K \cap V \cap DOMAIN c
           r == A!Refetch(s, seen)
<1>1. A!Invalidate(c, K, V) = r
  BY DEF A!Invalidate
<1>2. ASSUME NEW k \in DOMAIN c
      PROVE  /\ IsEntry(s[k], Len(aHist)) /\ s[k].data = c[k].data /\ s[k].asked = c[k].asked
             /\ k \in K => ~s[k].fresh
             /\ Current(c[k], k, aHist, n) => Current(s[k], k, aHist, n)
  <2>1. IsEntry(c[k], Len(aHist))
    BY DEF Entries
  <2>2. s[k] = IF k \in K THEN [c[k] EXCEPT !.fresh = FALSE] ELSE c[k]
    OBVIOUS
  <2> HIDE DEF s
  <2>3. QED
    BY <2>1, <2>2 DEF IsEntry, Current
<1>3. DOMAIN s = DOMAIN c
  OBVIOUS
<1> HIDE DEF s
<1>4. Follows(s, c, {}, n)
  BY <1>2, <1>3 DEF Follows, Entries, UpToDate, A!Entry
<1>5. /\ Follows(r, s, seen, n)
      /\ \A k \in seen : (k \in DOMAIN s => s[k].asked = 0 \/ s[k].data # {}) => UpToDate(r, k, aHist, n)
  BY <1>4, AddRefetches DEF Follows
<1> HIDE DEF r
<1>6. Follows(r, c, {}, n)
  <2>1. Follows(r, c, {} \cup seen, n)
    BY <1>4, <1>5, AddFollows
  <2>2. DOMAIN r = DOMAIN c
    BY <2>1 DEF Follows
  <2>3. QED
    BY <2>1, <2>2 DEF Follows
<1>7. ASSUME NEW k \in K, k \in DOMAIN c => c[k].asked = 0 \/ (c[k].data # {} /\ k \in V)
      PROVE  UpToDate(r, k, aHist, n)
  <2>1. CASE k \in seen
    BY <1>2, <1>3, <1>5, <1>7, <2>1
  <2>2. CASE k \in DOMAIN c /\ k \notin seen
    <3>1. c[k].asked = 0
      BY <1>7, <2>2
    <3>2. UpToDate(s, k, aHist, n)
      BY <1>2, <2>2, <3>1 DEF UpToDate, Current
    <3>3. QED
      BY <1>5, <3>2 DEF Follows
  <2>3. CASE k \notin DOMAIN c
    BY <1>6, <2>3 DEF UpToDate, Follows
  <2>4. QED
    BY <2>1, <2>2, <2>3
<1>8. QED
  BY <1>1, <1>6, <1>7

-----------------------------------------------------------------------------
(* Rendering *)

LEMMA FollowsHas ==
    ASSUME NEW c, NEW r, NEW K, NEW n, NEW k, Follows(r, c, K, n)
    PROVE  A!Entry(r, k).data = A!Entry(c, k).data
<1>1. CASE k \in DOMAIN r
  BY <1>1 DEF Follows, A!Entry
<1>2. CASE k \notin DOMAIN r
  BY <1>2 DEF Follows, A!Entry
<1>3. QED
  BY <1>1, <1>2

LEMMA SameQuery ==
    ASSUME NEW m, NEW c, NEW s, A!Entry(s, A!ContentKey).data = A!Entry(c, A!ContentKey).data
    PROVE  /\ A!IsMultiSeasonShow(m, s) = A!IsMultiSeasonShow(m, c)
           /\ A!BulkListMembershipQuery(m, s) = A!BulkListMembershipQuery(m, c)
<1>1. A!IsMultiSeasonShow(m, s) = A!IsMultiSeasonShow(m, c)
  BY DEF A!IsMultiSeasonShow, A!Has
<1>2. A!MembershipItems(m, s) = A!MembershipItems(m, c)
  BY <1>1 DEF A!MembershipItems
<1>3. QED
  BY <1>1, <1>2 DEF A!BulkListMembershipQuery

LEMMA ResetKeeps ==
    ASSUME NEW m, NEW c, IsModal(m)
    PROVE  LET r == A!ResetEffect(m, c)
           IN  IsModal(r) /\ r.item = m.item /\ r.open = m.open
<1> DEFINE w == [m EXCEPT !.error = FALSE, !.selected = {}]
           b == A!IsMultiSeasonShow(m, c)
           x == A!ResetPhases(w, b)
<1>1. IsModal(w) /\ w.item = m.item /\ w.open = m.open
  BY DEF IsModal
<1>2. A!ResetEffect(m, c) \in {x, m}
  BY DEF A!ResetEffect
<1> HIDE DEF w, b
<1>3. IsModal(x) /\ x.item = w.item /\ x.open = w.open
  BY <1>1 DEF A!ResetPhases, IsModal
<1> HIDE DEF x
<1>4. QED
  BY <1>1, <1>2, <1>3

LEMMA AddRenders ==
    ASSUME NEW m, NEW c, NEW n \in 1..Len(aHist), Len(aHist) \in Nat,
           IsModal(m), Entries(c, Len(aHist)), A!Render(m, c)
    PROVE  /\ IsModal(aModal') /\ aModal'.item = m.item /\ aModal'.open = m.open
           /\ \E K \in SUBSET {A!ContentKey, A!BulkListMembershipQuery(m, c)} :
                 Follows(aCache', c, K, n) /\ (~m.open => K = {})
<1>1. PICK old \in BOOLEAN :
        LET c1 == A!Observe(c, (A!Active(m, c) \cap {A!ContentKey}) \ A!ActiveNow, old)
        IN  /\ aCache' = A!Observe(c1, A!Active(m, c1) \ A!ActiveNow, old)
            /\ aModal' = A!ResetEffect(m, c1)
  BY DEF A!Render
<1> DEFINE K1 == (A!Active(m, c) \cap {A!ContentKey}) \ A!ActiveNow
           c1 == A!Observe(c, K1, old)
           K2 == A!Active(m, c1) \ A!ActiveNow
<1>2. /\ aCache' = A!Observe(c1, K2, old)
      /\ aModal' = A!ResetEffect(m, c1)
  BY <1>1
<1>3. IsModal(aModal') /\ aModal'.item = m.item /\ aModal'.open = m.open
  <2>1. LET r == A!ResetEffect(m, c1)
        IN  IsModal(r) /\ r.item = m.item /\ r.open = m.open
    BY ResetKeeps
  <2>2. QED
    BY <1>2, <2>1
<1>4. K1 \subseteq {A!ContentKey} /\ (~m.open => K1 = {})
  BY DEF A!Active, A!NeedsTvShowContent
<1> HIDE DEF K1, K2
<1>5. PICK J1 \in SUBSET K1 : Follows(c1, c, J1, n)
  BY AddObserves
<1> HIDE DEF c1
<1>6. PICK J2 \in SUBSET K2 : Follows(aCache', c1, J2, n)
  <2>1. Entries(c1, Len(aHist))
    BY <1>5 DEF Follows
  <2>2. QED
    BY <1>2, <2>1, AddObserves
<1>7. K2 \subseteq {A!ContentKey, A!BulkListMembershipQuery(m, c1)} /\ (~m.open => K2 = {})
  <2> DEFINE q == A!BulkListMembershipQuery(m, c1)
  <2>1. A!Active(m, c1) \subseteq {A!ContentKey, q} /\ (~m.open => A!Active(m, c1) = {})
    BY DEF A!Active, A!NeedsTvShowContent
  <2> HIDE DEF q
  <2>2. QED
    BY <2>1 DEF q, K2
<1>8. A!BulkListMembershipQuery(m, c1) = A!BulkListMembershipQuery(m, c)
  <2>1. A!Entry(c1, A!ContentKey).data = A!Entry(c, A!ContentKey).data
    BY <1>5, FollowsHas
  <2>2. QED
    BY <2>1, SameQuery
<1>9. Follows(aCache', c, J1 \cup J2, n)
  BY <1>5, <1>6, AddFollows
<1>10. QED
  BY <1>3, <1>5, <1>4, <1>6, <1>7, <1>8, <1>9

\* A step renders the modal m over the cache c.
LEMMA AddKeeps ==
    ASSUME AddInv, NEW m, NEW c, IsModal(m), Entries(c, Len(aHist)), A!Render(m, c),
           UNCHANGED <<aHist, aKnown>>, aBlind' \in BOOLEAN, \A t \in aTasks' : IsTask(t),
           KeysKnown(m, c), m.item = "none" => aTasks' = {},
           \/ aBlind'
           \/ \E t \in aTasks' : Owed(t)
           \/ UpToDate(c, A!BulkListMembershipQuery(m, c), aHist, aKnown)
    PROVE  AddInv'
<1>1. aKnown \in 1..Len(aHist) /\ Len(aHist) \in Nat /\ aHist # <<>>
  BY DEF AddInv
<1>2. IsModal(aModal') /\ aModal'.item = m.item /\ aModal'.open = m.open
  BY <1>1, AddRenders
<1>3. PICK K \in SUBSET {A!ContentKey, A!BulkListMembershipQuery(m, c)} :
        Follows(aCache', c, K, aKnown) /\ (~m.open => K = {})
  BY <1>1, AddRenders
<1>4. A!Entry(aCache', A!ContentKey).data = A!Entry(c, A!ContentKey).data
  BY <1>3, FollowsHas
<1>5. A!BulkListMembershipQuery(aModal', aCache') = A!BulkListMembershipQuery(m, c)
  <2>1. A!BulkListMembershipQuery(m, aCache') = A!BulkListMembershipQuery(m, c)
    BY <1>4, SameQuery
  <2>2. QED
    BY <1>2, <2>1 DEF A!BulkListMembershipQuery, A!MembershipItems, A!IsMultiSeasonShow
<1>6. KeysKnown(aModal', aCache')
  <2>1. ~A!Has(c, A!ContentKey) => A!BulkListMembershipQuery(m, c) = A!MemberKey({m.item})
    BY DEF A!BulkListMembershipQuery, A!MembershipItems, A!IsMultiSeasonShow
  <2>2. DOMAIN aCache' = DOMAIN c \cup K
    BY <1>3 DEF Follows
  <2>3. QED
    BY <1>2, <1>3, <1>4, <2>1, <2>2 DEF KeysKnown, A!Has
<1>7. \/ aBlind'
      \/ \E t \in aTasks' : Owed(t)
      \/ UpToDate(aCache', A!BulkListMembershipQuery(aModal', aCache'), aHist', aKnown')
  BY <1>3, <1>5 DEF Follows
<1>8. Entries(aCache', Len(aHist'))
  BY <1>3 DEF Follows
<1>9. A!MyKey' = A!BulkListMembershipQuery(aModal', aCache')
  BY DEF A!MyKey
<1>10. (\E S : aHist \in Seq(S))'
  BY DEF AddInv
<1>11. QED
  BY <1>1, <1>2, <1>6, <1>7, <1>8, <1>9, <1>10 DEF AddInv

-----------------------------------------------------------------------------
(* The dialog's steps *)

LEMMA SameItem ==
    ASSUME NEW m, NEW w, NEW c, m.item = w.item
    PROVE  A!BulkListMembershipQuery(m, c) = A!BulkListMembershipQuery(w, c)
  BY DEF A!BulkListMembershipQuery, A!MembershipItems, A!IsMultiSeasonShow

LEMMA AddClicks ==
    ASSUME AddInv, NEW m, IsModal(m), m.item = aModal.item, m.open => aModal.open,
           A!Render(m, aCache), UNCHANGED <<aHist, aTasks, aKnown, aBlind>>
    PROVE  AddInv'
<1>1. A!BulkListMembershipQuery(m, aCache) = A!MyKey
  BY SameItem DEF A!MyKey
<1>2. KeysKnown(m, aCache)
  BY DEF AddInv, KeysKnown
<1>3. Entries(aCache, Len(aHist))
  BY DEF AddInv
<1>4. aBlind' \in BOOLEAN /\ (\A t \in aTasks' : IsTask(t)) /\ (m.item = "none" => aTasks' = {})
  BY DEF AddInv
<1>5. \/ aBlind'
      \/ \E t \in aTasks' : Owed(t)
      \/ UpToDate(aCache, A!BulkListMembershipQuery(m, aCache), aHist, aKnown)
  BY <1>1 DEF AddInv
<1>6. QED
  BY <1>2, <1>3, <1>4, <1>5, AddKeeps

\* A call that starts, over the cache c.
LEMMA AddStarts ==
    ASSUME AddInv, NEW e, NEW c, NEW T, A!Render([aModal EXCEPT !.error = e], c),
           Entries(c, Len(aHist)), DOMAIN c = DOMAIN aCache,
           \A k \in DOMAIN aCache : c[k].data = aCache[k].data,
           aTasks' = aTasks \cup T, \A t \in T : IsTask(t), aModal.open,
           c = aCache \/ \E t \in T : Owed(t),
           UNCHANGED <<aHist, aKnown, aBlind>>
    PROVE  AddInv'
<1> DEFINE m == [aModal EXCEPT !.error = e]
           q == A!BulkListMembershipQuery(m, c)
<1>1. IsModal(m) /\ m.item = aModal.item /\ m.open = aModal.open
  BY DEF AddInv, IsModal
<1> HIDE DEF m
<1>2. A!Has(c, A!ContentKey) = A!Has(aCache, A!ContentKey)
  BY DEF A!Has, A!Entry
<1>3. KeysKnown(m, c)
  BY <1>1, <1>2 DEF AddInv, KeysKnown
<1>4. aBlind' \in BOOLEAN /\ (\A t \in aTasks' : IsTask(t)) /\ m.item # "none"
  BY <1>1 DEF AddInv, KeysKnown
<1>5. aBlind' \/ (\E t \in aTasks' : Owed(t)) \/ UpToDate(c, q, aHist, aKnown)
  <2>1. CASE \E t \in T : Owed(t)
    BY <2>1
  <2>2. CASE c = aCache
    <3>1. q = A!MyKey
      BY <1>1, <2>2, SameItem DEF A!MyKey
    <3>2. QED
      BY <2>2, <3>1 DEF AddInv
  <2>3. QED
    BY <2>1, <2>2
<1> HIDE DEF q
<1>6. A!Render(m, c)
  BY DEF m
<1>7. QED
  BY <1>1, <1>3, <1>4, <1>5, <1>6, AddKeeps DEF q

LEMMA AddTask ==
    ASSUME NEW kind \in {"add", "create", "remove", "seasons"}, NEW l, NEW x
    PROVE  /\ IsTask(A!Task(kind, l, x)) /\ A!Task(kind, l, x).kind = kind
           /\ kind \in {"add", "create"} => Owed(A!Task(kind, l, x))
<1> DEFINE state == IF x = {} THEN "settled" ELSE "sent"
           t == [kind |-> kind, list |-> l, todo |-> x, added |-> FALSE, failed |-> FALSE,
                 state |-> state]
<1>1. A!Task(kind, l, x) = t
  BY DEF A!Task
<1>2. state \notin {"refreshing", "created"}
  OBVIOUS
<1> HIDE DEF state
<1>3. IsTask(t) /\ t.kind = kind /\ t.state = state
  BY <1>2 DEF IsTask
<1> HIDE DEF t
<1>4. QED
  BY <1>1, <1>2, <1>3 DEF Owed

LEMMA AddToggles == AddInv /\ A!HandleToggleList => AddInv'
<1> SUFFICES ASSUME AddInv, A!HandleToggleList PROVE AddInv'
  OBVIOUS
<1>1. PICK l \in A!Boxes :
        LET seasons == aModal.mode = "seasons"
            task == IF A!ListsPhase(l).checked /\ seasons THEN {}
                    ELSE IF A!ListsPhase(l).checked THEN {A!Task("remove", l, {aModal.item})}
                    ELSE IF seasons
                         THEN {A!Task("seasons", l, aModal.selected \ A!GetSeasonsInList(l))}
                    ELSE {A!Task("add", l, {aModal.item})}
        IN  /\ aTasks' = aTasks \cup task
            /\ A!Render([aModal EXCEPT !.error = FALSE],
                        IF \E t \in task : t.kind = "add" THEN A!AddContentToList(aCache) ELSE aCache)
  BY DEF A!HandleToggleList
<1> DEFINE x == aModal.selected \ A!GetSeasonsInList(l)
           T == IF A!ListsPhase(l).checked /\ aModal.mode = "seasons" THEN {}
                ELSE IF A!ListsPhase(l).checked THEN {A!Task("remove", l, {aModal.item})}
                ELSE IF aModal.mode = "seasons" THEN {A!Task("seasons", l, x)}
                ELSE {A!Task("add", l, {aModal.item})}
           c == IF \E t \in T : t.kind = "add" THEN A!AddContentToList(aCache) ELSE aCache
<1>2. aTasks' = aTasks \cup T /\ A!Render([aModal EXCEPT !.error = FALSE], c)
  BY <1>1
<1>3. aModal.open /\ UNCHANGED <<aHist, aKnown, aBlind>>
  BY <1>1 DEF A!HandleToggleList, A!Counted, A!Boxes, A!InLists
<1>4. \E kind \in {"add", "remove", "seasons"} : \E y : T \in {{}, {A!Task(kind, l, y)}}
  OBVIOUS
<1> HIDE DEF T
<1>5. \A t \in T : IsTask(t) /\ (t.kind = "add" => Owed(t))
  BY <1>4, AddTask
<1>6. Entries(aCache, Len(aHist)) /\ Len(aHist) \in Nat
  BY DEF AddInv
<1>7. /\ Entries(c, Len(aHist)) /\ DOMAIN c = DOMAIN aCache
      /\ \A k \in DOMAIN aCache : c[k].data = aCache[k].data
      /\ c = aCache \/ \E t \in T : Owed(t)
  <2>1. CASE \E t \in T : t.kind = "add"
    <3>1. c = A!Cancel(aCache, A!MemberKeys(aCache))
      BY <2>1 DEF A!AddContentToList
    <3> HIDE DEF c
    <3>2. QED
      BY <1>5, <1>6, <2>1, <3>1, AddCancels
  <2>2. CASE ~\E t \in T : t.kind = "add"
    BY <1>6, <2>2
  <2>3. QED
    BY <2>1, <2>2
<1> HIDE DEF c
<1>8. QED
  BY <1>2, <1>3, <1>5, <1>7, AddStarts

LEMMA AddCreates == AddInv /\ A!HandleCreateNewList => AddInv'
<1> SUFFICES ASSUME AddInv, A!HandleCreateNewList PROVE AddInv'
  OBVIOUS
<1> DEFINE t == A!Task("create", "new", {aModal.item})
<1>1. /\ aModal.open /\ UNCHANGED <<aHist, aKnown, aBlind>> /\ aTasks' = aTasks \cup {t}
      /\ A!Render([aModal EXCEPT !.error = FALSE], aCache)
  BY DEF A!HandleCreateNewList, A!Counted, A!InLists
<1>2. IsTask(t) /\ Owed(t) /\ Entries(aCache, Len(aHist))
  BY AddTask DEF AddInv
<1> HIDE DEF t
<1> DEFINE T == {t}
           c == aCache
<1>3. aTasks' = aTasks \cup T /\ (\A x \in T : IsTask(x)) /\ \E x \in T : Owed(x)
  BY <1>1, <1>2
<1>4. DOMAIN c = DOMAIN aCache /\ \A k \in DOMAIN aCache : c[k].data = aCache[k].data
  OBVIOUS
<1>5. A!Render([aModal EXCEPT !.error = FALSE], c) /\ Entries(c, Len(aHist))
  BY <1>1, <1>2
<1> HIDE DEF T, c
<1>6. QED
  BY <1>1, <1>3, <1>4, <1>5, AddStarts

LEMMA AddUserActs == AddInv /\ A!UserActs => AddInv'
<1> SUFFICES ASSUME AddInv, A!UserActs PROVE AddInv'
  OBVIOUS
<1> USE DEF A!Click, A!Counted
<1>0. IsModal(aModal) /\ Entries(aCache, Len(aHist)) /\ Len(aHist) \in Nat
  BY DEF AddInv
<1>1. CASE A!OpenModal
  <2>1. PICK i \in IF aModal.item = "none" THEN {"movie", "show"} ELSE {aModal.item} :
          A!Render([aModal EXCEPT !.open = TRUE, !.item = i], aCache)
    BY <1>1 DEF A!OpenModal
  <2> DEFINE m == [aModal EXCEPT !.open = TRUE, !.item = i]
             q == A!BulkListMembershipQuery(m, aCache)
  <2>2. IsModal(m) /\ m.item = i /\ m.open = TRUE /\ i # "none"
    BY <1>0, <2>1 DEF IsModal
  <2>3. UNCHANGED <<aHist, aTasks, aKnown, aBlind>> /\ A!Render(m, aCache)
    BY <1>1, <2>1 DEF A!OpenModal
  <2> HIDE DEF m
  <2>4. aModal.item # "none" => q = A!MyKey /\ KeysKnown(m, aCache)
    BY <2>1, <2>2, SameItem DEF A!MyKey, AddInv, KeysKnown
  <2>5. aModal.item = "none" => UpToDate(aCache, q, aHist, aKnown) /\ KeysKnown(m, aCache)
    BY <2>2 DEF AddInv, KeysKnown, UpToDate
  <2>6. aBlind' \in BOOLEAN /\ (\A t \in aTasks' : IsTask(t)) /\ (m.item = "none" => aTasks' = {})
    BY <2>2, <2>3 DEF AddInv
  <2>7. KeysKnown(m, aCache)
    BY <2>4, <2>5
  <2>8. aBlind' \/ (\E t \in aTasks' : Owed(t)) \/ UpToDate(aCache, q, aHist, aKnown)
    BY <2>3, <2>4, <2>5 DEF AddInv
  <2>9. QED
    BY <1>0, <2>2, <2>3, <2>6, <2>7, <2>8, AddKeeps
<1>2. CASE A!HandleClose
  <2> DEFINE b == A!IsMultiSeasonShow(aModal, aCache)
             m == [A!ResetPhases(aModal, b) EXCEPT !.open = FALSE, !.error = FALSE]
  <2>1. A!Render(m, aCache) /\ UNCHANGED <<aHist, aTasks, aKnown, aBlind>>
    BY <1>2 DEF A!HandleClose
  <2> HIDE DEF b
  <2>2. IsModal(m) /\ m.item = aModal.item /\ m.open = FALSE
    BY <1>0 DEF A!ResetPhases, IsModal
  <2> HIDE DEF m
  <2>3. QED
    BY <2>1, <2>2, AddClicks
<1>3. CASE A!SetAddMode
  <2>1. PICK mode \in {"show", "seasons"} : A!Render([aModal EXCEPT !.mode = mode], aCache)
    BY <1>3 DEF A!SetAddMode
  <2> DEFINE m == [aModal EXCEPT !.mode = mode]
  <2>2. IsModal(m) /\ m.item = aModal.item /\ m.open = aModal.open
    BY <1>0 DEF IsModal
  <2>3. UNCHANGED <<aHist, aTasks, aKnown, aBlind>>
    BY <1>3 DEF A!SetAddMode
  <2>4. QED
    BY <2>1, <2>2, <2>3, AddClicks
<1>4. CASE A!ToggleSeason
  <2>1. PICK x : A!Render([aModal EXCEPT !.selected = x], aCache)
    BY <1>4 DEF A!ToggleSeason
  <2> DEFINE m == [aModal EXCEPT !.selected = x]
  <2>2. IsModal(m) /\ m.item = aModal.item /\ m.open = aModal.open
    BY <1>0 DEF IsModal
  <2>3. UNCHANGED <<aHist, aTasks, aKnown, aBlind>>
    BY <1>4 DEF A!ToggleSeason
  <2>4. QED
    BY <2>1, <2>2, <2>3, AddClicks
<1>5. CASE A!SelectAllSeasons \/ A!DeselectAllSeasons
  <2>1. PICK x : A!Render([aModal EXCEPT !.selected = x], aCache)
    BY <1>5 DEF A!SelectAllSeasons, A!DeselectAllSeasons
  <2> DEFINE m == [aModal EXCEPT !.selected = x]
  <2>2. IsModal(m) /\ m.item = aModal.item /\ m.open = aModal.open
    BY <1>0 DEF IsModal
  <2>3. UNCHANGED <<aHist, aTasks, aKnown, aBlind>>
    BY <1>5 DEF A!SelectAllSeasons, A!DeselectAllSeasons
  <2>4. QED
    BY <2>1, <2>2, <2>3, AddClicks
<1>6. CASE A!HandleContinueToLists \/ A!HandleBackToSelection
  <2>1. PICK p : A!Render([aModal EXCEPT !.error = FALSE, !.phase = p], aCache)
    BY <1>6 DEF A!HandleContinueToLists, A!HandleBackToSelection
  <2> DEFINE m == [aModal EXCEPT !.error = FALSE, !.phase = p]
  <2>2. IsModal(m) /\ m.item = aModal.item /\ m.open = aModal.open
    BY <1>0 DEF IsModal
  <2>3. UNCHANGED <<aHist, aTasks, aKnown, aBlind>>
    BY <1>6 DEF A!HandleContinueToLists, A!HandleBackToSelection
  <2>4. QED
    BY <2>1, <2>2, <2>3, AddClicks
<1>7. CASE A!HandleToggleList
  BY <1>7, AddToggles
<1>8. CASE A!HandleCreateNewList
  BY <1>8, AddCreates
<1>9. QED
  BY <1>1, <1>2, <1>3, <1>4, <1>5, <1>6, <1>7, <1>8 DEF A!UserActs

LEMMA TaskBecomes ==
    ASSUME NEW t \in aTasks, NEW u, \A x \in aTasks : IsTask(x), A!Become(t, u), IsTask(u)
    PROVE  /\ \A x \in aTasks' : IsTask(x)
           /\ Owed(u) => \E x \in aTasks' : Owed(x)
           /\ (Owed(t) => Owed(u)) /\ (\E x \in aTasks : Owed(x)) => \E x \in aTasks' : Owed(x)
  BY DEF A!Become

\* A new version: no entry is older for it.
LEMMA AddVersions ==
    ASSUME AddInv, NEW v, aHist' = Append(aHist, v), UNCHANGED <<aCache, aModal>>
    PROVE  /\ (\E S : aHist \in Seq(S))' /\ aHist' # <<>> /\ Len(aHist') = Len(aHist) + 1
           /\ Entries(aCache', Len(aHist')) /\ KeysKnown(aModal', aCache') /\ IsModal(aModal')
           /\ A!MyKey' = A!MyKey
           /\ UpToDate(aCache, A!MyKey, aHist, aKnown) =>
                 UpToDate(aCache', A!MyKey, aHist', aKnown)
<1>1. PICK S : aHist \in Seq(S)
  BY DEF AddInv
<1> DEFINE R == S \cup {v}
<1>2. aHist \in Seq(R) /\ v \in R
  BY <1>1
<1> HIDE DEF R
<1>3. /\ aHist' \in Seq(R) /\ aHist' # <<>> /\ Len(aHist') = Len(aHist) + 1
      /\ Len(aHist) \in Nat /\ \A i \in 1..Len(aHist) : aHist'[i] = aHist[i]
  BY <1>2
<1>4. Entries(aCache', Len(aHist'))
  BY <1>3 DEF AddInv, Entries, IsEntry
<1>5. A!MyKey' = A!MyKey
  BY DEF A!MyKey
<1>6. ASSUME UpToDate(aCache, A!MyKey, aHist, aKnown)
      PROVE  UpToDate(aCache', A!MyKey, aHist', aKnown)
  <2> DEFINE k == A!MyKey
             e == aCache[k]
  <2>1. SUFFICES ASSUME k \in DOMAIN aCache PROVE Current(e, k, aHist', aKnown)
    BY DEF UpToDate
  <2>2. Current(e, k, aHist, aKnown)
    BY <1>6, <2>1 DEF UpToDate
  <2>3. aKnown \in 1..Len(aHist)
    BY DEF AddInv
  <2> HIDE DEF k, e
  <2>4. ASSUME NEW d, \E i \in aKnown..Len(aHist) : d = A!Answer(aHist[i], k)
        PROVE  \E i \in aKnown..Len(aHist') : d = A!Answer(aHist'[i], k)
    <3>1. PICK i \in aKnown..Len(aHist) : d = A!Answer(aHist[i], k)
      BY <2>4
    <3>2. i \in aKnown..Len(aHist') /\ aHist'[i] = aHist[i]
      BY <1>3, <2>3, <3>1
    <3>3. QED
      BY <3>1, <3>2
  <2>5. QED
    BY <2>2, <2>4 DEF Current
<1>7. QED
  BY <1>3, <1>4, <1>5, <1>6 DEF AddInv

LEMMA AddElsewhere == AddInv /\ A!Elsewhere => AddInv'
<1> SUFFICES ASSUME AddInv, A!Elsewhere PROVE AddInv'
  OBVIOUS
<1>1. PICK v : aHist' = Append(aHist, v)
  BY DEF A!Elsewhere
<1>2. UNCHANGED <<aCache, aModal, aTasks, aKnown, aBlind>>
  BY DEF A!Elsewhere, A!Quietly, A!Counted
<1>3. /\ (\E S : aHist \in Seq(S))' /\ aHist' # <<>> /\ Len(aHist') = Len(aHist) + 1
      /\ Entries(aCache', Len(aHist')) /\ KeysKnown(aModal', aCache') /\ IsModal(aModal')
      /\ A!MyKey' = A!MyKey
      /\ UpToDate(aCache, A!MyKey, aHist, aKnown) =>
            UpToDate(aCache', A!MyKey, aHist', aKnown)
  BY <1>1, <1>2, AddVersions
<1>4. aKnown' \in 1..Len(aHist') /\ aBlind' \in BOOLEAN
  BY <1>2, <1>3 DEF AddInv
<1>5. (\A t \in aTasks' : IsTask(t)) /\ (aModal'.item = "none" => aTasks' = {})
  BY <1>2 DEF AddInv
<1>6. aBlind' \/ (\E t \in aTasks' : Owed(t)) \/ UpToDate(aCache', A!MyKey', aHist', aKnown')
  BY <1>2, <1>3 DEF AddInv
<1>7. QED
  BY <1>3, <1>4, <1>5, <1>6 DEF AddInv

LEMMA AddCarriesOut ==
    ASSUME AddInv, NEW t \in aTasks, A!CarryOut(t)
    PROVE  AddInv'
<1>1. UNCHANGED <<aCache, aModal, aBlind>> /\ aKnown' = Len(aHist')
  BY DEF A!CarryOut, A!Quietly
<1>2. IsTask(t) /\ aModal.item # "none"
  BY DEF AddInv
<1>3. \E v, u : aHist' = Append(aHist, v) /\ A!Become(t, u) /\ IsTask(u) /\ Owed(u)
  <2>1. CASE t.kind = "create" /\ t.list = "new"
    <3>1. PICK v, l : aHist' = Append(aHist, v) /\ A!Become(t, [t EXCEPT !.list = l, !.state = "created"])
      BY <2>1 DEF A!CarryOut
    <3> DEFINE u == [t EXCEPT !.list = l, !.state = "created"]
    <3>2. IsTask(u) /\ Owed(u)
      BY <1>2, <2>1 DEF IsTask, Owed
    <3>3. QED
      BY <3>1, <3>2
  <2>2. CASE ~(t.kind = "create" /\ t.list = "new")
    <3>1. PICK v, x : /\ aHist' = Append(aHist, v)
                      /\ A!Become(t, [t EXCEPT !.todo = @ \ {x}, !.added = TRUE,
                                        !.state = IF t.todo = {x} THEN "settled" ELSE "sent"])
      BY <2>2 DEF A!CarryOut
    <3> DEFINE s == IF t.todo = {x} THEN "settled" ELSE "sent"
               d == t.todo \ {x}
               u == [t EXCEPT !.todo = d, !.added = TRUE, !.state = s]
    <3>2. A!Become(t, u) /\ s \notin {"refreshing", "created"}
      BY <3>1
    <3> HIDE DEF s, d
    <3>3. IsTask(u) /\ Owed(u)
      BY <1>2, <3>2 DEF IsTask, Owed
    <3>4. QED
      BY <3>1, <3>2, <3>3
  <2>3. QED
    BY <2>1, <2>2
<1>4. PICK v, u : aHist' = Append(aHist, v) /\ A!Become(t, u) /\ IsTask(u) /\ Owed(u)
  BY <1>3
<1>5. (\A x \in aTasks' : IsTask(x)) /\ \E x \in aTasks' : Owed(x)
  BY <1>4, TaskBecomes DEF AddInv
<1>6. /\ (\E S : aHist \in Seq(S))' /\ aHist' # <<>> /\ Len(aHist') = Len(aHist) + 1
      /\ Entries(aCache', Len(aHist')) /\ KeysKnown(aModal', aCache') /\ IsModal(aModal')
  BY <1>1, <1>4, AddVersions
<1>7. aKnown' \in 1..Len(aHist') /\ aBlind' \in BOOLEAN
  BY <1>1, <1>6 DEF AddInv
<1>8. QED
  BY <1>1, <1>2, <1>5, <1>6, <1>7 DEF AddInv

\* A task's change that leaves what the dialog shows.
LEMMA AddAnswers ==
    ASSUME AddInv, NEW t \in aTasks, NEW u, A!Become(t, u), IsTask(u),
           Owed(t) => Owed(u) \/ aBlind', aBlind' \in BOOLEAN, aBlind => aBlind',
           UNCHANGED <<aHist, aCache, aModal, aKnown>>
    PROVE  AddInv'
<1>1. A!MyKey' = A!MyKey
  BY DEF A!MyKey
<1>2. \A x \in aTasks' : IsTask(x)
  BY TaskBecomes DEF AddInv
<1>3. aBlind' \/ ((\E x \in aTasks : Owed(x)) => \E x \in aTasks' : Owed(x))
  BY TaskBecomes DEF AddInv
<1>4. aModal'.item # "none" /\ KeysKnown(aModal', aCache')
  BY DEF AddInv
<1>5. /\ (\E S : aHist \in Seq(S))' /\ aHist' # <<>> /\ aKnown' \in 1..Len(aHist')
      /\ IsModal(aModal') /\ Entries(aCache', Len(aHist'))
  BY DEF AddInv
<1>6. aBlind' \/ (\E x \in aTasks' : Owed(x)) \/ UpToDate(aCache', A!MyKey', aHist', aKnown')
  BY <1>1, <1>3 DEF AddInv
<1>7. QED
  BY <1>2, <1>4, <1>5, <1>6 DEF AddInv

LEMMA AddAnswered ==
    ASSUME AddInv, NEW t \in aTasks, A!Refuse(t) \/ A!LoseCall(t) \/ A!LoseAnswer(t)
    PROVE  AddInv'
<1>1. UNCHANGED <<aHist, aCache, aModal, aKnown>>
  BY DEF A!Refuse, A!LoseCall, A!LoseAnswer, A!Quietly
<1>2. IsTask(t) /\ aBlind \in BOOLEAN
  BY DEF AddInv
<1>3. CASE A!Refuse(t) \/ A!LoseCall(t)
  <2>1. PICK d, s : /\ s \in {"sent", "duplicate", "settled"}
                    /\ A!Become(t, [t EXCEPT !.todo = d, !.failed = TRUE, !.state = s])
    <3>1. CASE A!Refuse(t)
      <4>1. PICK x \in t.todo :
              A!Become(t, [t EXCEPT !.todo = @ \ {x}, !.failed = TRUE,
                             !.state = IF t.todo # {x} THEN "sent"
                                       ELSE IF t.kind = "add" THEN "duplicate"
                                       ELSE "settled"])
        BY <3>1 DEF A!Refuse
      <4> DEFINE d == t.todo \ {x}
                 s == IF t.todo # {x} THEN "sent"
                      ELSE IF t.kind = "add" THEN "duplicate" ELSE "settled"
      <4>2. A!Become(t, [t EXCEPT !.todo = d, !.failed = TRUE, !.state = s])
        BY <4>1
      <4>3. s \in {"sent", "duplicate", "settled"}
        OBVIOUS
      <4> HIDE DEF d, s
      <4>4. QED
        BY <4>2, <4>3
    <3>2. CASE A!LoseCall(t)
      <4>1. PICK x \in t.todo :
              A!Become(t, [t EXCEPT !.todo = @ \ {x}, !.failed = TRUE,
                             !.state = IF t.todo = {x} THEN "settled" ELSE "sent"])
        BY <3>2 DEF A!LoseCall
      <4> DEFINE d == t.todo \ {x}
                 s == IF t.todo = {x} THEN "settled" ELSE "sent"
      <4>2. A!Become(t, [t EXCEPT !.todo = d, !.failed = TRUE, !.state = s])
        BY <4>1
      <4>3. s \in {"sent", "duplicate", "settled"}
        OBVIOUS
      <4> HIDE DEF d, s
      <4>4. QED
        BY <4>2, <4>3
    <3>3. QED
      BY <1>3, <3>1, <3>2
  <2> DEFINE u == [t EXCEPT !.todo = d, !.failed = TRUE, !.state = s]
  <2>2. IsTask(u) /\ (Owed(t) => Owed(u))
    BY <1>2, <2>1 DEF IsTask, Owed
  <2>3. aBlind' = aBlind
    BY <1>3 DEF A!Refuse, A!LoseCall
  <2> HIDE DEF u
  <2>4. A!Become(t, u)
    BY <2>1 DEF u
  <2>5. QED
    BY <1>1, <1>2, <2>2, <2>3, <2>4, AddAnswers
<1>4. CASE A!LoseAnswer(t)
  <2> DEFINE u == [t EXCEPT !.added = FALSE, !.failed = TRUE]
  <2>1. A!Become(t, u) /\ t.state = "settled" /\ aBlind' = (aBlind \/ t.kind \in {"seasons", "remove"})
    BY <1>4 DEF A!LoseAnswer
  <2>2. IsTask(u) /\ u.kind = t.kind /\ u.state = t.state
    BY <1>2 DEF IsTask
  <2>3. t.kind \in {"add", "create"} => Owed(u)
    BY <2>1, <2>2 DEF Owed
  <2>4. t.kind \notin {"add", "create"} => aBlind'
    BY <1>2, <2>1 DEF IsTask
  <2> HIDE DEF u
  <2>5. QED
    BY <1>1, <1>2, <2>1, <2>2, <2>3, <2>4, AddAnswers
<1>5. QED
  BY <1>3, <1>4

-----------------------------------------------------------------------------
(* Refreshes and answers *)

\* A step renders the modal over a cache that holds what it held.
LEMMA AddRefreshes ==
    ASSUME AddInv, NEW m, NEW c, A!Render(m, c), IsModal(m), m.item = aModal.item,
           m.item # "none", Entries(c, Len(aHist)),
           DOMAIN c \subseteq DOMAIN aCache \cup {A!MyKey},
           \A k : A!Entry(c, k).data = A!Entry(aCache, k).data,
           \A t \in aTasks' : IsTask(t), aBlind' \in BOOLEAN, UNCHANGED <<aHist, aKnown>>,
           \/ aBlind'
           \/ \E t \in aTasks' : Owed(t)
           \/ UpToDate(c, A!MyKey, aHist, aKnown)
    PROVE  AddInv'
<1>1. A!Entry(c, A!ContentKey).data = A!Entry(aCache, A!ContentKey).data
  OBVIOUS
<1>2. A!BulkListMembershipQuery(m, c) = A!MyKey
  <2>1. A!BulkListMembershipQuery(m, c) = A!BulkListMembershipQuery(m, aCache)
    BY <1>1, SameQuery
  <2>2. QED
    BY <2>1, SameItem DEF A!MyKey
<1>3. ~A!Has(aCache, A!ContentKey) => A!MyKey = A!MemberKey({m.item})
  BY DEF A!MyKey, A!BulkListMembershipQuery, A!MembershipItems, A!IsMultiSeasonShow
<1>4. KeysKnown(m, c)
  BY <1>1, <1>3 DEF AddInv, KeysKnown, A!Has
<1>5. QED
  BY <1>2, <1>4, AddKeeps

LEMMA SameData ==
    ASSUME NEW c, NEW r, DOMAIN r = DOMAIN c, \A k \in DOMAIN c : r[k].data = c[k].data
    PROVE  \A k : A!Entry(r, k).data = A!Entry(c, k).data
  BY DEF A!Entry

LEMMA AddListCreated ==
    ASSUME AddInv, NEW t \in aTasks, A!Created(t)
    PROVE  AddInv'
<1> DEFINE u == [t EXCEPT !.state = "sent"]
           i == A!Invalidate(aCache, A!MemberKeys(aCache), A!ActiveNow)
           c == A!Cancel(i, A!MemberKeys(i))
<1>1. /\ A!Become(t, u) /\ A!Render(aModal, c) /\ t.state = "created"
      /\ UNCHANGED <<aHist, aKnown, aBlind>>
  BY DEF A!Created, A!AddContentToList, A!InvalidateLists
<1>2. IsTask(t) /\ IsModal(aModal) /\ aModal.item # "none" /\ aBlind \in BOOLEAN
  BY DEF AddInv
<1>3. IsTask(u) /\ Owed(u)
  BY <1>1, <1>2 DEF IsTask, Owed
<1> HIDE DEF u
<1>4. (\A x \in aTasks' : IsTask(x)) /\ \E x \in aTasks' : Owed(x)
  BY <1>1, <1>3, TaskBecomes DEF AddInv
<1>5. aKnown \in 1..Len(aHist) /\ Len(aHist) \in Nat /\ Entries(aCache, Len(aHist))
  BY DEF AddInv
<1>6. Follows(i, aCache, {}, aKnown)
  BY <1>5, AddInvalidates
<1> HIDE DEF i
<1>7. Entries(c, Len(aHist)) /\ DOMAIN c = DOMAIN i /\ \A k \in DOMAIN i : c[k].data = i[k].data
  BY <1>5, <1>6, AddCancels DEF Follows
<1> HIDE DEF c
<1>8. \A k : A!Entry(c, k).data = A!Entry(aCache, k).data
  BY <1>6, <1>7, SameData, FollowsHas
<1>9. DOMAIN c \subseteq DOMAIN aCache \cup {A!MyKey}
  BY <1>6, <1>7 DEF Follows
<1>10. QED
  BY <1>1, <1>2, <1>4, <1>7, <1>8, <1>9, AddRefreshes

LEMMA AddFinishes ==
    ASSUME AddInv, NEW t \in aTasks, A!Finish(t)
    PROVE  AddInv'
<1>1. /\ t.state = "refreshing" /\ aTasks' = aTasks \ {t} /\ A!Render(aModal, aCache)
      /\ UNCHANGED <<aHist, aKnown, aBlind>>
  BY DEF A!Finish
<1>2. ~Owed(t)
  BY <1>1 DEF Owed
<1>3. (\A x \in aTasks' : IsTask(x)) /\ ((\E x \in aTasks : Owed(x)) => \E x \in aTasks' : Owed(x))
  BY <1>1, <1>2 DEF AddInv
<1>4. /\ IsModal(aModal) /\ aModal.item # "none" /\ aBlind \in BOOLEAN
      /\ Entries(aCache, Len(aHist))
  BY DEF AddInv
<1>5. aBlind' \/ (\E x \in aTasks' : Owed(x)) \/ UpToDate(aCache, A!MyKey, aHist, aKnown)
  BY <1>1, <1>3 DEF AddInv
<1>6. QED
  BY <1>1, <1>3, <1>4, <1>5, AddRefreshes

LEMMA AddSettles ==
    ASSUME AddInv, NEW t \in aTasks, A!Settle(t)
    PROVE  AddInv'
<1> DEFINE kept == t.kind \notin {"add", "create"}
           i == A!Invalidate(aCache, A!MemberKeys(aCache), A!ActiveNow)
           c == IF kept THEN aCache ELSE i
           r == IF A!Succeeded(t) THEN A!Refetch(c, {A!MyKey}) ELSE c
           e == aModal.error \/ ~A!Succeeded(t) \/ t.state = "duplicate"
           m == [aModal EXCEPT !.error = e]
           u == [t EXCEPT !.state = "refreshing"]
<1>1. /\ t.state \in {"settled", "duplicate"} /\ A!Render(m, r)
      /\ IF A!Succeeded(t) THEN A!Become(t, u) ELSE aTasks' = aTasks \ {t}
      /\ aBlind' = (aBlind \/ A!Unhealed(A!ActiveNow)) /\ UNCHANGED <<aHist, aKnown>>
  BY DEF A!Settle, A!InvalidateLists, A!Refreshed
<1>2. IsTask(t) /\ IsModal(aModal) /\ aModal.item # "none" /\ aBlind \in BOOLEAN
  BY DEF AddInv
<1>3. IsModal(m) /\ m.item = aModal.item
  BY <1>2 DEF IsModal
<1>4. aKnown \in 1..Len(aHist) /\ Len(aHist) \in Nat /\ Entries(aCache, Len(aHist))
  BY DEF AddInv
<1> DEFINE k == A!MyKey
<1>5. k \in DOMAIN aCache => k \in A!MemberKeys(aCache)
  <2>1. PICK things : k = A!MemberKey(things)
    BY DEF A!MyKey, A!BulkListMembershipQuery
  <2>2. k.of = "members"
    BY <2>1 DEF A!MemberKey
  <2>3. QED
    BY <2>2 DEF A!MemberKeys
<1>6. ~aBlind' /\ k \in DOMAIN aCache =>
        aCache[k].asked = 0 \/ (aCache[k].data # {} /\ k \in A!ActiveNow)
  <2>1. ~aBlind' => ~A!Unhealed(A!ActiveNow)
    BY <1>1
  <2>2. k \in DOMAIN aCache => aCache[k].asked \in Nat
    BY <1>4 DEF Entries, IsEntry
  <2> HIDE DEF k
  <2>3. QED
    BY <2>1, <2>2 DEF A!Unhealed
<1> HIDE DEF k, e, m, u
<1>7. /\ Follows(i, aCache, {}, aKnown)
      /\ ~aBlind' => UpToDate(i, k, aHist, aKnown)
  <2>1. /\ Follows(i, aCache, {}, aKnown)
        /\ \A x \in A!MemberKeys(aCache) : (x \in DOMAIN aCache =>
              aCache[x].asked = 0 \/ (aCache[x].data # {} /\ x \in A!ActiveNow)) =>
                UpToDate(i, x, aHist, aKnown)
    BY <1>4, AddInvalidates
  <2> HIDE DEF i
  <2>2. k \notin DOMAIN aCache => UpToDate(i, k, aHist, aKnown)
    BY <2>1 DEF Follows, UpToDate
  <2>3. QED
    BY <1>5, <1>6, <2>1, <2>2
<1> HIDE DEF i
<1>8. /\ Follows(c, aCache, {}, aKnown)
      /\ ~kept /\ ~aBlind' => UpToDate(c, k, aHist, aKnown)
  <2>1. Follows(aCache, aCache, {}, aKnown)
    BY <1>4 DEF Follows, A!Entry
  <2>2. QED
    BY <1>7, <2>1
<1>9. kept => c = aCache
  OBVIOUS
<1> HIDE DEF c
<1>10. /\ Follows(r, c, {A!MyKey}, aKnown) \/ r = c
       /\ A!Succeeded(t) /\ kept /\ ~aBlind' => UpToDate(r, k, aHist, aKnown)
  <2>1. /\ Follows(A!Refetch(c, {A!MyKey}), c, {A!MyKey}, aKnown)
        /\ \A x \in {A!MyKey} : (x \in DOMAIN c => c[x].asked = 0 \/ c[x].data # {}) =>
              UpToDate(A!Refetch(c, {A!MyKey}), x, aHist, aKnown)
    BY <1>4, <1>8, AddRefetches DEF Follows
  <2>2. QED
    BY <1>6, <1>9, <2>1 DEF k
<1> HIDE DEF r
<1>11. ~kept /\ ~aBlind' => UpToDate(r, k, aHist, aKnown)
  BY <1>8, <1>10 DEF Follows
<1>12. /\ Entries(r, Len(aHist)) /\ DOMAIN r \subseteq DOMAIN aCache \cup {A!MyKey}
       /\ \A x : A!Entry(r, x).data = A!Entry(aCache, x).data
  <2>1. \A x : A!Entry(c, x).data = A!Entry(aCache, x).data
    BY <1>8, FollowsHas
  <2>2. \A x : A!Entry(r, x).data = A!Entry(c, x).data
    BY <1>10, FollowsHas
  <2>3. QED
    BY <1>8, <1>10, <2>1, <2>2 DEF Follows
<1>13. \A x \in aTasks' : IsTask(x)
  <2>1. IsTask(u)
    BY <1>2 DEF IsTask, u
  <2>2. QED
    BY <1>1, <2>1 DEF AddInv, A!Become
<1>14. \/ aBlind'
       \/ \E x \in aTasks' : Owed(x)
       \/ UpToDate(r, k, aHist, aKnown)
  <2>1. CASE ~kept \/ A!Succeeded(t)
    BY <1>10, <1>11, <2>1
  <2>2. CASE kept /\ ~A!Succeeded(t)
    <3>1. ~Owed(t) /\ aTasks' = aTasks \ {t}
      BY <1>1, <1>2, <2>2 DEF Owed, A!Succeeded, IsTask
    <3>2. UpToDate(aCache, k, aHist, aKnown) => UpToDate(r, k, aHist, aKnown)
      BY <1>8, <1>10 DEF Follows
    <3>3. aBlind \/ (\E x \in aTasks : Owed(x)) \/ UpToDate(aCache, k, aHist, aKnown)
      BY DEF AddInv, k
    <3>4. QED
      BY <1>1, <3>1, <3>2, <3>3
  <2>3. QED
    BY <2>1, <2>2
<1>15. aBlind' \in BOOLEAN
  BY <1>1, <1>2 DEF A!Unhealed
<1>16. QED
  BY <1>1, <1>2, <1>3, <1>12, <1>13, <1>14, <1>15, AddRefreshes DEF k

LEMMA AddLosesRead ==
    ASSUME AddInv, NEW k \in DOMAIN aCache, A!LoseRead(k)
    PROVE  AddInv'
<1> DEFINE c == A!Lost(aCache, k)
<1>1. A!Render(aModal, c) /\ UNCHANGED <<aHist, aTasks, aKnown, aBlind>>
  BY DEF A!LoseRead
<1>2. Entries(aCache, Len(aHist)) /\ Len(aHist) \in Nat /\ IsModal(aModal) /\ aBlind \in BOOLEAN
  BY DEF AddInv
<1>3. DOMAIN c = DOMAIN aCache
  BY DEF A!Lost
<1>4. ASSUME NEW x \in DOMAIN aCache
      PROVE  /\ IsEntry(c[x], Len(aHist)) /\ c[x].data = aCache[x].data
             /\ Current(aCache[x], x, aHist, aKnown) => Current(c[x], x, aHist, aKnown)
  <2>1. IsEntry(aCache[x], Len(aHist))
    BY <1>2 DEF Entries
  <2>2. CASE x = k
    <3> DEFINE e == aCache[k]
               b == [e EXCEPT !.asked = 0]
               y == TRUE
               l == [b EXCEPT !.failed = y]
    <3>1. c[x] = l
      BY <2>2 DEF A!Lost
    <3>2. IsEntry(e, Len(aHist))
      BY <2>1, <2>2
    <3> HIDE DEF c, e
    <3>3. IsEntry(b, Len(aHist)) /\ b.data = e.data /\ b.asked = 0
      BY <1>2, <3>2 DEF IsEntry
    <3>4. y \in BOOLEAN
      OBVIOUS
    <3> HIDE DEF b, y
    <3>5. IsEntry(l, Len(aHist)) /\ l.data = b.data /\ l.failed = y /\ l.asked = b.asked
      BY <3>3, <3>4 DEF IsEntry
    <3> HIDE DEF l
    <3>6. QED
      BY <2>2, <3>1, <3>3, <3>5 DEF Current, e, y
  <2>3. CASE x # k
    <3>1. c[x] = aCache[x]
      BY <2>3 DEF A!Lost
    <3>2. QED
      BY <2>1, <3>1
  <2>4. QED
    BY <2>2, <2>3
<1> HIDE DEF c
<1>5. Entries(c, Len(aHist)) /\ \A x : A!Entry(c, x).data = A!Entry(aCache, x).data
  BY <1>3, <1>4, SameData DEF Entries
<1>6. KeysKnown(aModal, c)
  BY <1>3, <1>5 DEF AddInv, KeysKnown, A!Has
<1>7. A!BulkListMembershipQuery(aModal, c) = A!MyKey
  BY <1>5, SameQuery DEF A!MyKey
<1>8. UpToDate(aCache, A!MyKey, aHist, aKnown) => UpToDate(c, A!MyKey, aHist, aKnown)
  BY <1>3, <1>4 DEF UpToDate
<1>9. (\A t \in aTasks' : IsTask(t)) /\ (aModal.item = "none" => aTasks' = {})
  BY <1>1 DEF AddInv
<1>10. aBlind' \/ (\E t \in aTasks' : Owed(t)) \/ UpToDate(c, A!MyKey, aHist, aKnown)
  BY <1>1, <1>8 DEF AddInv
<1>11. QED
  BY <1>1, <1>2, <1>5, <1>6, <1>7, <1>9, <1>10, AddKeeps

LEMMA AddDelivers ==
    ASSUME AddInv, NEW k \in DOMAIN aCache, A!Deliver(k)
    PROVE  AddInv'
<1>1. PICK n \in aCache[k].asked..Len(aHist) :
        A!Render(aModal, A!Arrived(aCache, k, A!Answer(aHist[n], k)))
  BY DEF A!Deliver
<1> DEFINE a == A!Answer(aHist[n], k)
           c == A!Arrived(aCache, k, a)
           e == [data |-> {a}, fresh |-> TRUE, asked |-> 0, failed |-> FALSE]
<1>2. A!Render(aModal, c) /\ aCache[k].asked > 0 /\ UNCHANGED <<aHist, aTasks, aKnown, aBlind>>
  BY <1>1 DEF A!Deliver
<1>3. /\ Entries(aCache, Len(aHist)) /\ Len(aHist) \in Nat /\ IsModal(aModal)
      /\ aBlind \in BOOLEAN /\ aKnown \in 1..Len(aHist)
  BY DEF AddInv
<1>4. /\ DOMAIN c = DOMAIN aCache /\ c[k] = e
      /\ \A x \in DOMAIN aCache \ {k} : c[x] = aCache[x]
  BY DEF A!Arrived
<1>5. IsEntry(e, Len(aHist)) /\ e.data = {a}
  BY <1>3 DEF IsEntry
<1>6. UpToDate(aCache, k, aHist, aKnown) => Current(e, k, aHist, aKnown)
  <2>1. IsEntry(aCache[k], Len(aHist))
    BY <1>3 DEF Entries
  <2>2. CASE aCache[k].asked >= aKnown
    <3>1. n \in aKnown..Len(aHist) /\ a = A!Answer(aHist[n], k)
      BY <1>1, <1>3, <2>1, <2>2 DEF IsEntry
    <3> HIDE DEF a
    <3>2. QED
      BY <3>1 DEF Current
  <2>3. QED
    BY <1>2, <2>2 DEF UpToDate, Current
<1> HIDE DEF c, e
<1>7. Entries(c, Len(aHist))
  BY <1>3, <1>4, <1>5 DEF Entries
<1>8. \A x : UpToDate(aCache, x, aHist, aKnown) => UpToDate(c, x, aHist, aKnown)
  BY <1>4, <1>6 DEF UpToDate
<1>9. \A x : x # k => A!Entry(c, x).data = A!Entry(aCache, x).data
  BY <1>4 DEF A!Entry
<1>10. A!Has(c, k)
  BY <1>4, <1>5 DEF A!Has, A!Entry
<1>11. KeysKnown(aModal, c)
  <2>1. ~A!Has(c, A!ContentKey) => k # A!ContentKey /\ ~A!Has(aCache, A!ContentKey)
    BY <1>9, <1>10 DEF A!Has
  <2>2. QED
    BY <1>4, <2>1 DEF AddInv, KeysKnown
<1> DEFINE q == A!BulkListMembershipQuery(aModal, c)
<1>12. UpToDate(aCache, A!MyKey, aHist, aKnown) => UpToDate(c, q, aHist, aKnown)
  <2>1. CASE k # A!ContentKey \/ A!Has(aCache, A!ContentKey)
    <3>1. A!IsMultiSeasonShow(aModal, c) = A!IsMultiSeasonShow(aModal, aCache)
      <4>1. A!Has(c, A!ContentKey) = A!Has(aCache, A!ContentKey)
        BY <1>9, <1>10, <2>1 DEF A!Has
      <4>2. QED
        BY <4>1 DEF A!IsMultiSeasonShow
    <3>2. q = A!MyKey
      BY <3>1 DEF A!MyKey, A!BulkListMembershipQuery, A!MembershipItems
    <3>3. QED
      BY <1>8, <3>2
  <2>2. CASE k = A!ContentKey /\ ~A!Has(aCache, A!ContentKey)
    <3>1. DOMAIN c \subseteq {A!ContentKey, A!MemberKey({aModal.item})}
      BY <1>4, <2>2 DEF AddInv, KeysKnown
    <3>2. A!MyKey = A!MemberKey({aModal.item})
      BY <2>2 DEF A!MyKey, A!BulkListMembershipQuery, A!MembershipItems, A!IsMultiSeasonShow
    <3>3. q # A!ContentKey
      BY DEF A!BulkListMembershipQuery, A!MemberKey, A!ContentKey
    <3> HIDE DEF q
    <3>4. q = A!MyKey \/ q \notin DOMAIN c
      BY <3>1, <3>2, <3>3
    <3>5. QED
      BY <1>8, <3>4 DEF UpToDate
  <2>3. QED
    BY <2>1, <2>2
<1> HIDE DEF q
<1>13. (\A t \in aTasks' : IsTask(t)) /\ (aModal.item = "none" => aTasks' = {})
  BY <1>2 DEF AddInv
<1>14. aBlind' \/ (\E t \in aTasks' : Owed(t)) \/ UpToDate(c, q, aHist, aKnown)
  BY <1>2, <1>12 DEF AddInv
<1>15. QED
  BY <1>2, <1>3, <1>7, <1>11, <1>13, <1>14, AddKeeps DEF q

LEMMA AddNext == AddInv /\ [A!Next]_addToListVars => AddInv'
<1> SUFFICES ASSUME AddInv, [A!Next]_addToListVars PROVE AddInv'
  OBVIOUS
<1>1. CASE UNCHANGED addToListVars
  <2>1. A!MyKey' = A!MyKey
    BY <1>1 DEF addToListVars, A!MyKey
  <2>2. QED
    BY <1>1, <2>1 DEF addToListVars, AddInv
<1>2. CASE A!UserActs \/ A!Elsewhere
  BY <1>2, AddUserActs, AddElsewhere
<1>3. ASSUME NEW t \in aTasks, A!Tasks(t) PROVE AddInv'
  BY <1>3, AddCarriesOut, AddAnswered, AddListCreated, AddSettles, AddFinishes DEF A!Tasks
<1>4. ASSUME NEW k \in DOMAIN aCache, A!Deliver(k) \/ A!LoseRead(k) PROVE AddInv'
  BY <1>4, AddDelivers, AddLosesRead
<1>5. QED
  BY <1>1, <1>2, <1>3, <1>4 DEF A!Next

-----------------------------------------------------------------------------
(* The pages together: each scene keeps its own invariant. *)

PagesInv ==
    /\ scene = "forms" => FormsInv
    /\ scene = "artwork" => ArtworkInv
    /\ scene = "card" => CardInv
    /\ scene = "discovery" => DiscoveryInv
    /\ scene = "addToList" => AddInv
    /\ scene = "content" => ContentInv
    /\ scene = "profile" => ProfileInv

LEMMA PagesStart == PagesInit => PagesInv
  BY FormsStart, ArtworkStart, CardStart, DiscoveryStart, AddStart, ContentStart, BoundsHold,
     ProfileStart DEF PagesInit, PagesInv

LEMMA PagesSteps == PagesInv /\ [PagesNext]_allVars => PagesInv'
<1> SUFFICES ASSUME PagesInv, [PagesNext]_allVars PROVE PagesInv'
  OBVIOUS
<1>1. scene' = scene
  BY DEF PagesNext, allVars
<1>2. scene = "forms" => [F!Next]_formsVars
  BY DEF PagesNext, allVars
<1>3. scene = "artwork" => [W!Next]_artworkVars
  BY DEF PagesNext, allVars
<1>4. scene = "card" => [H!Next]_cardVars
  BY DEF PagesNext, allVars
<1>5. scene = "discovery" => [D!Next]_discoveryVars
  BY DEF PagesNext, allVars
<1>6. scene = "addToList" => [A!Next]_addToListVars
  BY DEF PagesNext, allVars
<1>7. scene = "content" => [C!Next]_contentVars
  BY DEF PagesNext, allVars
<1>8. scene = "content" => ContentInv'
  BY <1>7, ContentNext, BoundsHold DEF PagesInv
<1>9. scene = "profile" => [P!Next]_profileVars
  BY DEF PagesNext, allVars
<1>10. scene = "profile" => ProfileInv'
  BY <1>9, ProfileNext DEF PagesInv
<1>11. QED
  BY <1>1, <1>2, <1>3, <1>4, <1>5, <1>6, <1>8, <1>10, FormsNext, ArtworkNext, CardNext,
     DiscoveryNext, AddNext DEF PagesInv

\* The inductive invariant holds of every behaviour of the pages.
THEOREM PagesInvariance == PagesSpec => []PagesInv
  BY PagesStart, PagesSteps, PTL DEF PagesSpec

\* RatingModal, EditListModal, CreateListModal and EditProfileModal: an untouched dialog
\* shows the record as the page has it, however often it was opened, closed, submitted
\* and the record changed.
THEOREM DialogsShow == PagesSpec => []DialogsShowRecords
<1>1. PagesInv => DialogsShowRecords
  BY FormsImply DEF PagesInv, DialogsShowRecords
<1>2. QED
  BY PagesInvariance, <1>1, PTL

\* useCardHover and useModerationArtworkReveal: a popover has a reason and stays away once
\* dismissed, for any measures of the browser; artwork is uncovered just where it was
\* asked for, whatever items, pictures and judgments come and go.
THEOREM NothingIsUnasked == PagesSpec => []NothingUnasked
<1>1. PagesInv => NothingUnasked
  BY ArtworkImply, CardImply DEF PagesInv, NothingUnasked
<1>2. QED
  BY PagesInvariance, <1>1, PTL

\* SearchPage, BrowsePage and server/catalog.ts: what is shown was read for the query, page
\* and choice of the address once all is quiet, and cards lead where Core said, whatever
\* was typed, clicked, lost or answered late.
THEOREM DiscoveryTrue == PagesSpec => []DiscoveryIsTrue
<1>1. PagesInv => DiscoveryIsTrue
  BY DiscoveryImply DEF PagesInv, DiscoveryIsTrue
<1>2. QED
  BY PagesInvariance, <1>1, PTL

\* useContentTrackingMutations, useRatingMutations and useListOperations: once every change
\* made on the content page or from the rows of a list has settled, with no read left that it
\* does not restart, what the content page shows as fresh of the viewer's own tracking and
\* rating is what Core keeps: no rollback undoes another change for good.  Once the calls
\* behind the boxes of the add-to-list dialog are through, the boxes show the lists no older
\* than the last of them left them, unless an answer was lost that no refresh follows, or a
\* refresh failed or left an older read under way.  For any items, ratings, states, seasons
\* and lists, and in whatever order calls, refreshes and answers cross.
THEOREM WritesSeen == PagesSpec => []WritesAreSeen
<1>1. PagesInv => WritesAreSeen
  BY ContentImply, AddImply DEF PagesInv, WritesAreSeen
<1>2. QED
  BY PagesInvariance, <1>1, PTL

\* PublicProfilePage and usePublicProfileMutation: a profile's banner is the one chosen or one
\* of the favorites beneath it, through edits, refusals and favorites removed elsewhere; its
\* settled rows are those of the address; and once nothing is in flight its owner sees one
\* Core has had since the last edit, and the session store and settings as Core keeps them.
THEOREM ProfileTrue == PagesSpec => []ProfileIsTrue
<1>1. PagesInv => ProfileIsTrue
  BY ProfileImply DEF PagesInv, ProfileIsTrue
<1>2. QED
  BY PagesInvariance, <1>1, PTL
=============================================================================
