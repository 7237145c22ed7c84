----------------------------- MODULE HoverCard -----------------------------
(***************************************************************************)
(* One card of a content or list item with its popover: the hook           *)
(* useCardHover with its three timers, the suppression that Escape, the    *)
(* wheel and a press set, the two effects that follow the popover, and     *)
(* around it the prefetch on hover intent and the navigation latch of      *)
(* ContentCard and ListItemCard.                                           *)
(*                                                                         *)
(* No caller of Card passes disableHover and every caller passes hover     *)
(* content, so the only part of shouldShowHoverContent that varies is the  *)
(* capability of the device.  The browser is the environment: where the    *)
(* pointer is, what has the focus, where layout puts the card.             *)
(***************************************************************************)
EXTENDS Integers, FiniteSets

CONSTANTS Anchors,      \* the rectangles the card may have, as [top, left, width, height]
          Viewports,    \* the sizes the window may have, as [width, height]
          Heights,      \* the heights the popover may measure
          Gap           \* DEFAULT_VIEWPORT_GAP

VARIABLES pointer,      \* where the pointer is: "out", "card" or "popover", and pressed
          focus,        \* where the focus is: "none", "card" or "popover"
          layout,       \* the browser's measures: anchor, view, height; and capable
          hover,        \* the hook's state and refs
          leaving,      \* the popover is playing its exit animation
          visit,        \* the card around it: prefetch, navigating, dialog
          dismissed,    \* history: Escape closed it and the pointer has not left since
          stray         \* history: an exiting popover was entered after it lost its reason

vars == <<pointer, focus, layout, hover, leaving, visit, dismissed, stray>>

Least(a, b) == IF a < b THEN a ELSE b
Most(a, b) == IF a > b THEN a ELSE b

-----------------------------------------------------------------------------
Clamp(value, minimum, maximum) == Least(Most(value, minimum), maximum)

CalculateCardHoverPosition(anchor, popoverHeight, view) ==
  LET availableWidth  == Most(0, view.width - 2 * Gap)
      availableHeight == Most(0, view.height - 2 * Gap)
      width           == Least(anchor.width, availableWidth)
      measured        == IF popoverHeight > 0 THEN popoverHeight ELSE anchor.height
      height          == Least(measured, availableHeight)
      centered        == anchor.left + (anchor.width - width) \div 2
  IN [top       |-> Clamp(anchor.top, Gap, Most(Gap, view.height - Gap - height)),
      left      |-> Clamp(centered, Gap, Most(Gap, view.width - Gap - width)),
      width     |-> width,
      maxHeight |-> availableHeight]

IsCardAnchorVisible(anchor, view) ==
  /\ anchor.width > 0 /\ anchor.height > 0
  /\ anchor.top + anchor.height > 0 /\ anchor.left + anchor.width > 0
  /\ anchor.top < view.height /\ anchor.left < view.width

INITIAL_POSITION == [top |-> 0, left |-> 0, width |-> 0, maxHeight |-> 0]

-----------------------------------------------------------------------------
ShouldShow == layout.capable
Shown == hover.isHovered /\ ShouldShow       \* CardHoverPopover's isOpen

CancelPendingOpen(h) == [h EXCEPT !.open = FALSE]
CancelPendingClose(h) == [h EXCEPT !.close = FALSE]
(* Closing also runs the effect's cleanup: the pending frame is cancelled.  *)
CloseImmediately(h) ==
  [CancelPendingOpen(CancelPendingClose(h)) EXCEPT !.isHovered = FALSE, !.frame = FALSE]

CloseUntilPointerLeaves(h) == [CloseImmediately(h) EXCEPT !.suppress = TRUE, !.release = "leaves"]
CloseUntilPointerMoves(h)  == [CloseImmediately(h) EXCEPT !.suppress = TRUE, !.release = "moves"]

(* openImmediately, with the capability its closure saw.  The effect that   *)
(* follows a popover that opens asks for a frame.                           *)
OpenImmediately(h, capable) ==
  LET quiet == CancelPendingClose(CancelPendingOpen(h))
  IN IF quiet.suppress \/ ~capable \/ ~IsCardAnchorVisible(layout.anchor, layout.view)
       THEN quiet
       ELSE [quiet EXCEPT !.isHovered = TRUE,
               !.position = CalculateCardHoverPosition(layout.anchor, layout.anchor.height, layout.view),
               !.frame = @ \/ (ShouldShow /\ ~quiet.isHovered)]

ScheduleOpen(h) ==
  [CancelPendingClose(CancelPendingOpen(h)) EXCEPT !.open = ~h.suppress /\ ShouldShow]
ScheduleClose_keepsOpen(h) == [CancelPendingClose(h) EXCEPT !.close = TRUE]
ScheduleClose(h) == [CancelPendingClose(CancelPendingOpen(h)) EXCEPT !.close = TRUE]
ReleasePointerSuppression(h) == [h EXCEPT !.releaseTimer = TRUE]
HandleCardPointerDown(h) == [CancelPendingOpen(h) EXCEPT !.suppress = TRUE]

(* The pointermove listener of the two suppressions.                        *)
ReleaseOnPointerMove(h, insideAnchor) ==
  IF h.release = "moves" \/ (h.release = "leaves" /\ ~insideAnchor)
    THEN [h EXCEPT !.suppress = FALSE, !.release = "none"] ELSE h

(* updatePosition, run by the frame.                                        *)
UpdatePosition(h) ==
  IF ~IsCardAnchorVisible(layout.anchor, layout.view) THEN CloseImmediately(h)
  ELSE [h EXCEPT !.frame = FALSE,
          !.position = CalculateCardHoverPosition(layout.anchor, layout.height, layout.view)]

-----------------------------------------------------------------------------
(* useHoverPrefetch: start, stop and startImmediate; once fired, for good.  *)
StartPrefetch(v) == IF v.prefetch = "idle" THEN [v EXCEPT !.prefetch = "waiting"] ELSE v
StopPrefetch(v)  == IF v.prefetch = "waiting" THEN [v EXCEPT !.prefetch = "idle"] ELSE v
PrefetchNow(v)   == [v EXCEPT !.prefetch = "fired"]

(* What the popover's element hears: an exiting one keeps the handlers of   *)
(* the last render in which it was open, when the device was capable.       *)
HandlePopoverMouseEnter(h) == OpenImmediately(h, TRUE)
Present == Shown \/ leaving                     \* the popover's element exists

Init ==
  /\ pointer = [at |-> "out", pressed |-> FALSE] /\ focus = "none"
  /\ layout = [anchor |-> CHOOSE a \in Anchors : TRUE, view |-> CHOOSE v \in Viewports : TRUE,
               height |-> CHOOSE n \in Heights : TRUE, capable |-> TRUE]
  /\ hover = [isHovered |-> FALSE, open |-> FALSE, close |-> FALSE, suppress |-> FALSE,
              release |-> "none", releaseTimer |-> FALSE, frame |-> FALSE,
              position |-> INITIAL_POSITION]
  /\ leaving = FALSE /\ dismissed = FALSE /\ stray = FALSE
  /\ visit = [prefetch |-> "idle", navigating |-> FALSE, dialog |-> FALSE]

(* Every handler ends here: the state it set is rendered, a popover that is *)
(* no longer open starts to leave, one that opens again stops leaving.      *)
Render(h) ==
  /\ hover' = h
  /\ leaving' = (~(h.isHovered /\ layout'.capable) /\ (Shown \/ leaving))
  /\ stray' = (h.isHovered /\ (stray \/ (~hover.isHovered /\ ~layout'.capable)))

-----------------------------------------------------------------------------
(* The pointer moves to a place: the leave and enter handlers of the card   *)
(* and the popover, the wrapper's for the prefetch, and the pointermove of  *)
(* the suppressions, before or after them.                                  *)
Crossed(h, from, to) ==
  LET left == IF from # "out" THEN ScheduleClose(h) ELSE h
  IN IF to = from THEN h
     ELSE CASE to = "card" -> ScheduleOpen(left)
            [] to = "popover" -> HandlePopoverMouseEnter(left)
            [] to = "out" -> left

MovePointer ==
  \E to \in {"out", "card", "popover"}, inside, movesFirst \in BOOLEAN :
    /\ to = "popover" => Present
    /\ to = "card" => inside
    /\ pointer' = [pointer EXCEPT !.at = to]
    /\ UNCHANGED <<focus, layout>>
    /\ Render(IF movesFirst THEN Crossed(ReleaseOnPointerMove(hover, inside), pointer.at, to)
                            ELSE ReleaseOnPointerMove(Crossed(hover, pointer.at, to), inside))
    /\ visit' = CASE pointer.at = "out" /\ to # "out" -> StartPrefetch(visit)
                  [] pointer.at # "out" /\ to = "out" -> StopPrefetch(visit)
                  [] OTHER -> visit
    /\ dismissed' = (dismissed /\ inside)

(* A press in the card, and its release wherever the pointer is by then:    *)
(* only the card listens.                                                   *)
Press ==
  /\ ~pointer.pressed /\ pointer.at = "card"
  /\ pointer' = [pointer EXCEPT !.pressed = TRUE] /\ dismissed' = FALSE
  /\ UNCHANGED <<focus, layout, visit>>
  /\ Render(HandleCardPointerDown(hover))

Release ==
  /\ pointer.pressed /\ pointer' = [pointer EXCEPT !.pressed = FALSE]
  /\ UNCHANGED <<focus, layout, visit, dismissed>>
  /\ Render(IF pointer.at = "card" THEN ReleasePointerSuppression(hover) ELSE hover)

Wheel ==
  /\ Present /\ pointer.at = "popover"
  /\ dismissed' = FALSE
  /\ UNCHANGED <<pointer, focus, layout, visit>>
  /\ Render(CloseUntilPointerMoves(hover))

Touch ==
  /\ visit' = PrefetchNow(visit)
  /\ UNCHANGED <<pointer, focus, layout, hover, leaving, dismissed, stray>>

-----------------------------------------------------------------------------
(* handleBlur keeps the popover when the focus stays within card or popover. *)
Focus ==
  \E to \in {"none", "card", "popover"} :
    /\ to # focus /\ (to = "popover" => Present)
    /\ focus' = to
    /\ UNCHANGED <<pointer, layout, dismissed>>
    /\ Render(IF to = "none" THEN ScheduleClose(hover) ELSE OpenImmediately(hover, ShouldShow))
    /\ visit' = IF to = "none" THEN StopPrefetch(visit) ELSE PrefetchNow(visit)

Escape ==
  /\ Shown
  /\ UNCHANGED <<pointer, focus, layout, visit>>
  /\ dismissed' = (~hover.releaseTimer)
  /\ Render(CloseUntilPointerLeaves(hover))

-----------------------------------------------------------------------------
OpenTimer ==
  /\ hover.open
  /\ UNCHANGED <<pointer, focus, layout, visit, dismissed>>
  /\ Render(OpenImmediately([hover EXCEPT !.open = FALSE], ShouldShow))

CloseTimer ==
  /\ hover.close
  /\ UNCHANGED <<pointer, focus, layout, visit, dismissed>>
  /\ Render([hover EXCEPT !.close = FALSE, !.isHovered = FALSE, !.frame = FALSE])

ReleaseTimer ==
  /\ hover.releaseTimer
  /\ UNCHANGED <<pointer, focus, layout, visit>>
  /\ dismissed' = FALSE
  /\ Render([hover EXCEPT !.releaseTimer = FALSE, !.suppress = FALSE])

Frame ==
  /\ hover.frame
  /\ UNCHANGED <<pointer, focus, layout, visit, dismissed>>
  /\ Render(UpdatePosition(hover))

PrefetchTimer ==
  /\ visit.prefetch = "waiting" /\ visit' = PrefetchNow(visit)
  /\ UNCHANGED <<pointer, focus, layout, hover, leaving, dismissed, stray>>

(* The popover's element is gone: what was in it is in it no more, and the  *)
(* pointer finds itself over the card or beside it.                         *)
ExitDone ==
  \E to \in {"out", "card"} :
    /\ leaving /\ leaving' = FALSE
    /\ pointer' = IF pointer.at = "popover" THEN [pointer EXCEPT !.at = to] ELSE pointer
    /\ pointer.at # "popover" => to = "out"
    /\ focus' = IF focus = "popover" THEN "none" ELSE focus
    /\ hover' = IF pointer.at = "popover" /\ to = "card" THEN ScheduleOpen(hover) ELSE hover
    /\ UNCHANGED <<layout, visit, dismissed, stray>>

-----------------------------------------------------------------------------
(* The page scrolls, the window or the popover changes size, the content    *)
(* above moves the card.  An open popover hears the first as a close, the   *)
(* second as a frame and the third not at all.                              *)
Scroll ==
  \E a \in Anchors :
    /\ layout' = [layout EXCEPT !.anchor = a]
    /\ UNCHANGED <<pointer, focus, visit, dismissed>>
    /\ Render(IF Shown THEN CloseImmediately(hover) ELSE hover)

Resize ==
  \E a \in Anchors, v \in Viewports, n \in Heights :
    /\ layout' = [layout EXCEPT !.anchor = a, !.view = v, !.height = n]
    /\ UNCHANGED <<pointer, focus, visit, dismissed>>
    /\ Render(IF Shown THEN [hover EXCEPT !.frame = TRUE] ELSE hover)

Shift ==
  \E a \in Anchors :
    /\ a.width = layout.anchor.width /\ a.height = layout.anchor.height
    /\ layout' = [layout EXCEPT !.anchor = a]
    /\ UNCHANGED <<pointer, focus, hover, leaving, visit, dismissed, stray>>

(* The media query answers otherwise: losing the capability closes, and     *)
(* gaining it shows what was left open.                                     *)
Capability ==
  /\ layout' = [layout EXCEPT !.capable = ~@]
  /\ UNCHANGED <<pointer, focus, visit, dismissed>>
  /\ Render(IF layout.capable THEN CloseImmediately(hover)
                              ELSE [hover EXCEPT !.frame = hover.isHovered])

-----------------------------------------------------------------------------
(* A plain press of the link navigates once and latches; a modified one     *)
(* opens another tab.                                                       *)
HandleNavigation ==
  /\ (pointer.at # "out" \/ focus # "none") /\ ~visit.navigating
  /\ visit' = [visit EXCEPT !.navigating = TRUE]
  /\ UNCHANGED <<pointer, focus, layout, hover, leaving, dismissed, stray>>

(* "Add to List" opens the dialog over the page, which takes the focus;     *)
(* closing it leaves the focus on no part of the card.                      *)
OpenDialog ==
  /\ Shown /\ ~visit.dialog
  /\ visit' = [StopPrefetch(visit) EXCEPT !.dialog = TRUE]
  /\ focus' = "none"
  /\ UNCHANGED <<pointer, layout, dismissed>>
  /\ Render(ScheduleClose(hover))

CloseDialog ==
  /\ visit.dialog /\ visit' = [visit EXCEPT !.dialog = FALSE]
  /\ UNCHANGED <<pointer, focus, layout, hover, leaving, dismissed, stray>>

(* The page is left: the timers, the frame and the listener go with it, and *)
(* a later visit mounts the card anew.                                      *)
Remount ==
  /\ pointer' = [at |-> "out", pressed |-> FALSE] /\ focus' = "none"
  /\ hover' = [CloseImmediately(hover) EXCEPT !.suppress = FALSE, !.release = "none",
                 !.releaseTimer = FALSE, !.position = INITIAL_POSITION]
  /\ leaving' = FALSE /\ dismissed' = FALSE /\ stray' = FALSE
  /\ visit' = [prefetch |-> "idle", navigating |-> FALSE, dialog |-> FALSE]
  /\ UNCHANGED layout

Next ==
  \/ MovePointer \/ Press \/ Release \/ Wheel \/ Touch \/ Focus \/ Escape
  \/ OpenTimer \/ CloseTimer \/ ReleaseTimer \/ Frame \/ PrefetchTimer \/ ExitDone
  \/ Scroll \/ Resize \/ Shift \/ Capability
  \/ HandleNavigation \/ OpenDialog \/ CloseDialog \/ Remount

Spec == Init /\ [][Next]_vars

-----------------------------------------------------------------------------
(* A popover on the screen has a reason: the pointer is on it or on the     *)
(* card, the focus is within, or its close is already due.  Three timers,   *)
(* two suppressions and seven handlers can each break it, by reviving an    *)
(* opening whose pointer has gone or dropping a close that is due           *)
(* (useCardHover: scheduleOpen, scheduleClose, openImmediately, handleBlur). *)
PopoverIsWanted ==
  Shown /\ ~stray => pointer.at # "out" \/ focus # "none" \/ hover.close

(* After Escape the popover stays away until the pointer has left the card, *)
(* pressed it or turned the wheel on what is still leaving, whatever timer  *)
(* or focus comes (closeUntilPointerLeaves).                                *)
DismissedStaysAway == ~(Shown /\ dismissed)

(* Once its frame has run the popover lies within the window, whichever way *)
(* card, window and popover changed size before (calculateCardHoverPosition *)
(* and the effect that schedules it).                                       *)
PopoverFits ==
  Shown /\ ~hover.frame =>
    LET p == hover.position
        v == layout.view
    IN /\ p.top >= Gap /\ p.left >= Gap
       /\ p.left + p.width <= Most(Gap, v.width - Gap)
       /\ p.top + Least(layout.height, p.maxHeight) <= Most(Gap, v.height - Gap)

(* What a card owes its reader whatever it is opened by.                    *)
PopoverIsRight == PopoverIsWanted /\ DismissedStaysAway
=============================================================================
