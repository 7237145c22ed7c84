-------------------------------- MODULE Forms --------------------------------
(***************************************************************************)
(* The web client's forms: the dialogs that rate an item, create or edit a  *)
(* list, edit the profile and confirm a deletion, and the two sign-in       *)
(* forms.  A form edits a copy of a record that may change under it; what   *)
(* brings the copy up to date differs from form to form, and is an effect   *)
(* of rendering.  One form of one kind is followed, through any number of   *)
(* openings.                                                                *)
(*                                                                          *)
(* A value is a version of the record, something typed (valid or not), or   *)
(* a made-up name; a version is counted, not spelled out.  Bounds: MaxActs  *)
(* openings and submissions, MaxSaved versions of the record.               *)
(***************************************************************************)
EXTENDS Naturals

CONSTANTS MaxActs, MaxSaved

Dialogs == {"rating", "editList", "createList", "editProfile", "confirm"}
SignIn == {"login", "register"}

VARIABLES form,    \* [kind, open, values, base, error]; base is what reset() goes back to
          saved,   \* the version of the record the page holds
          job,     \* what is being submitted: {} or {value}
          busy,    \* another action of the page holds the same loading flag
          left,    \* the form was left while its submission was under way
          acts

vars == <<form, saved, job, busy, left, acts>>

Version(n) == [of |-> "saved", n |-> n]
Empty == Version(0)
Typed == [of |-> "typed", n |-> 0]
Invalid == [of |-> "invalid", n |-> 0]
Made == [of |-> "made", n |-> 0]
Changed(f) == f.values.of \in {"typed", "invalid"}
Reset(f, v) == [f EXCEPT !.values = v, !.base = v, !.error = FALSE]
ResetToBase(f) == Reset(f, f.base)

Loading(j, b) == j # {} \/ b
IsLoading == Loading(job, busy)

-----------------------------------------------------------------------------
(* What each form lets its user do: the stars and the profile's fields can be used  *)
(* while it is submitting; the profile's dialog and the sign-in pages may be left.   *)

RatingModalShown == [type |-> TRUE, submit |-> ~IsLoading, close |-> ~IsLoading]
EditListModalShown == [type |-> ~IsLoading, submit |-> ~IsLoading, close |-> ~IsLoading]
CreateListModalShown == [type |-> ~IsLoading, submit |-> ~IsLoading, close |-> ~IsLoading]
EditProfileModalShown ==
    [type |-> TRUE, submit |-> ~IsLoading /\ form.values # form.base, close |-> TRUE]
ConfirmDialogShown == [type |-> FALSE, submit |-> ~IsLoading, close |-> ~IsLoading]
LoginFormShown == [type |-> TRUE, submit |-> ~IsLoading, close |-> TRUE]
RegisterFormShown == [type |-> TRUE, submit |-> ~IsLoading, close |-> TRUE]
Controls ==
    CASE form.kind = "rating" -> RatingModalShown
      [] form.kind = "editList" -> EditListModalShown
      [] form.kind = "createList" -> CreateListModalShown
      [] form.kind = "editProfile" -> EditProfileModalShown
      [] form.kind = "confirm" -> ConfirmDialogShown
      [] form.kind = "login" -> LoginFormShown
      [] OTHER -> RegisterFormShown

-----------------------------------------------------------------------------
(* The effects of rendering form f over the record s, the flag l *)

RatingModal(f, s) ==
    IF f.open /\ (~form.open \/ s # saved) THEN Reset(f, Version(s)) ELSE f
\* Every rendering of the page hands over a new record.
EditListModal(f, s, l) ==
    CASE f.open /\ ~l -> Reset(f, Version(s))
      [] ~f.open -> ResetToBase(f)
      [] OTHER -> f
CreateListModal(f) ==
    CASE f.open /\ ~form.open -> Reset(f, Made)
      [] ~f.open /\ form.open -> ResetToBase(f)
      [] OTHER -> f
EditProfileModal(f, s) ==
    IF f.open /\ (~form.open \/ s # saved) THEN Reset(f, Version(s)) ELSE f
LoginForm(f) == IF f.open THEN f ELSE [f EXCEPT !.values = Empty, !.error = FALSE]

\* The page is rendered: the form alone is when nothing but its own fields changed.
Effects(f, s, l) ==
    CASE f.kind = "rating" -> RatingModal(f, s)
      [] f.kind = "editList" -> EditListModal(f, s, l)
      [] f.kind = "createList" -> CreateListModal(f)
      [] f.kind = "editProfile" -> EditProfileModal(f, s)
      [] f.kind \in SignIn -> LoginForm(f)
      [] OTHER -> f
Render(f, s, j, b) == form' = Effects(f, s, Loading(j, b)) /\ saved' = s /\ job' = j /\ busy' = b

Init ==
    /\ \E k \in Dialogs \cup SignIn :
         form = [kind |-> k, open |-> FALSE, values |-> Version(0), base |-> Version(0), error |-> FALSE]
    /\ saved = 0 /\ job = {} /\ busy = FALSE /\ left = FALSE /\ acts = 0
Counted == acts < MaxActs /\ acts' = acts + 1
Free == UNCHANGED acts

\* Of the sign-in forms the one is left for the other.
Open ==
    /\ ~form.open /\ Counted /\ ~(form.kind = "confirm" /\ busy)
    /\ \E k \in IF form.kind \in SignIn THEN SignIn ELSE {form.kind} :
         Render([form EXCEPT !.kind = k, !.open = TRUE], saved, job, busy)
    /\ left' = (left /\ job # {})
MayClose_whileLoading == form.open /\ form.kind # "confirm"
MayClose == form.open /\ Controls.close
HandleClose ==
    /\ MayClose /\ Free
    /\ Render([IF form.kind \in {"rating", "editList", "createList"} THEN ResetToBase(form) ELSE form
                 EXCEPT !.open = FALSE], saved, job, busy)
    /\ left' = (job # {})

Type ==
    /\ form.open /\ Controls.type /\ Free
    /\ \E v \in {Typed, Invalid} : form' = [form EXCEPT !.values = v]
    /\ UNCHANGED <<saved, job, busy, left>>

\* Nothing invalid is submitted: no stars, no name, no password.
IsValid(f) ==
    CASE f.kind = "rating" -> f.values \notin {Invalid, Empty}
      [] f.kind \in SignIn -> f.values = Typed
      [] OTHER -> f.values # Invalid
Submit ==
    /\ form.open /\ Controls.submit /\ IsValid(form) /\ Counted
    /\ Render(form, saved, {form.values}, busy)
    /\ left' = FALSE

\* The record is what was typed; the dialog closes, the sign-in page goes away.
Saved == IF form.kind \in {"rating", "editList", "editProfile"} THEN saved + 1 ELSE saved
Succeed ==
    /\ job # {} /\ saved < MaxSaved /\ Free
    /\ LET f == IF form.kind \in {"rating", "createList"} THEN ResetToBase(form)
                ELSE IF form.kind = "editProfile" THEN Reset(form, Version(Saved)) ELSE form
       IN  Render([f EXCEPT !.open = FALSE], Saved, {}, busy)
    /\ left' = FALSE
\* The profile's error is a toast, a refused deletion leaves the dialog as it is; the
\* others show the error, wherever the submission was made.
Fail ==
    /\ job # {} /\ Free
    /\ LET f == Effects(form, saved, busy)
       IN  form' = [f EXCEPT !.error = f.kind \notin {"editProfile", "confirm"}]
    /\ job' = {} /\ UNCHANGED <<saved, busy, left>>

\* The page's record changes by itself; so do its other actions; it is rendered again.
Refresh == saved < MaxSaved /\ Free /\ UNCHANGED left /\ Render(form, saved + 1, job, busy)
OtherAction ==
    /\ form.kind \in {"rating", "editList", "confirm"} /\ job = {} /\ Free /\ UNCHANGED left
    /\ Render(form, saved, job, ~busy)
ParentRenders == form.kind = "editList" /\ Free /\ UNCHANGED left /\ Render(form, saved, job, busy)

Next ==
    \/ Open \/ HandleClose \/ Type \/ Submit \/ Succeed \/ Fail
    \/ Refresh \/ OtherAction \/ ParentRenders

Spec == Init /\ [][Next]_vars

-----------------------------------------------------------------------------
(* Properties *)

TypeOK ==
    /\ form.kind \in Dialogs \cup SignIn
    /\ form.values.n \in 0..MaxSaved /\ form.base.n \in 0..MaxSaved
    /\ saved \in 0..MaxSaved /\ acts \in 0..MaxActs

\* A dialog that is open and was not typed in shows the record as the page has it, in
\* whatever order it was closed, opened and the record changed; and none shows the
\* error of a submission that was made before it was opened.
DialogShowsRecord ==
    form.open /\ form.kind \in {"rating", "editList", "createList", "editProfile"} =>
      /\ ~Changed(form) /\ ~IsLoading =>
           form.values = IF form.kind = "createList" THEN Made ELSE Version(saved)
      /\ ~(left /\ form.error)
=============================================================================
