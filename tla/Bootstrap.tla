----------------------------- MODULE Bootstrap ------------------------------
(***************************************************************************)
(* The parts of Bootstrap (sea-modules/bootstrap/bootstrap.js) the console *)
(* uses: transition ends, the modal dialog and the collapsible panel.      *)
(*                                                                         *)
(* A method is an operator from the plugin's record to the record after    *)
(* it.  animated is $.support.transition: without it nothing is awaited.   *)
(* Left out: scroll bar and focus, and what the console never does:        *)
(* showing a dialog twice, panels that close each other.                   *)
(***************************************************************************)
EXTENDS Naturals, Sequences

(* An element whose transition is awaited: the handlers bound to the next   *)
(* end event, and emulateTransitionEnd's timers with their "called" flags.  *)
(* natives: events the browser may still fire itself, at any time or never. *)
Waits == {"show", "hide"}
Awaited == [waits : SUBSET Waits, timers : Seq(BOOLEAN), natives : Nat]
Still == [waits |-> {}, timers |-> <<>>, natives |-> 0]

EmulateTransitionEnd(t) == [t EXCEPT !.timers = Append(@, FALSE)]
(* Mutant: no timer stands in for the event.                                *)
AwaitUntimed(t, w, native) ==
  [t EXCEPT !.waits = @ \cup {w}, !.natives = @ + IF native THEN 1 ELSE 0]

Await(t, w, native) ==
  EmulateTransitionEnd([t EXCEPT !.waits = @ \cup {w}, !.natives = @ + IF native THEN 1 ELSE 0])

(* The event runs and unbinds every handler, those of the timers too.       *)
Ended(t) == [t EXCEPT !.waits = {}, !.timers = [i \in DOMAIN @ |-> TRUE]]

(* What makes the event: a timer nobody has called, or the browser.         *)
TimerDue(t) == t.timers # <<>>
TimerRan(t) == [t EXCEPT !.timers = Tail(@)]
Triggers(t) == ~Head(t.timers)
NativeDue(t) == t.natives > 0
NativeRan(t) == [t EXCEPT !.natives = @ - 1]

-----------------------------------------------------------------------------
(* The modal dialog.  display: the element covers the page.  in: its class. *)
(* bodyOpen: the class modal-open of the body, which keeps the page from    *)
(* scrolling.  The backdrop is inside the element, hidden when it is.       *)
Modals == [isShown : BOOLEAN, display : BOOLEAN, in : BOOLEAN, bodyOpen : BOOLEAN,
           backdrop : {"none", "in", "out"},
           element : Awaited, dialog : Awaited, veil : Awaited]
Modal(bodyOpen) ==
  [isShown |-> FALSE, display |-> FALSE, in |-> FALSE, bodyOpen |-> bodyOpen,
   backdrop |-> "none", element |-> Still, dialog |-> Still, veil |-> Still]

(* The callback of show, once the backdrop is there.                        *)
Appear(m, animated) ==
  [m EXCEPT !.display = TRUE, !.in = TRUE, !.dialog = IF animated THEN Await(@, "show", TRUE) ELSE @]

(* Mutant: the backdrop goes and the page still does not scroll.            *)
RemoveBackdropOnly(m) == [m EXCEPT !.backdrop = "none"]

RemoveBackdrop(m) == [m EXCEPT !.backdrop = "none", !.bodyOpen = FALSE]

(* backdrop(callback), when the dialog is shown and when it is not.         *)
BackdropIn(m, animated) ==
  LET laid == [m EXCEPT !.backdrop = "in"] IN
  IF animated THEN [laid EXCEPT !.veil = Await(@, "show", FALSE)] ELSE Appear(laid, animated)
BackdropOut(m, animated) ==
  IF m.backdrop = "none" THEN [m EXCEPT !.bodyOpen = FALSE]
  ELSE IF animated THEN [m EXCEPT !.backdrop = "out", !.veil = Await(@, "hide", FALSE)]
  ELSE RemoveBackdrop(m)

Show(m, animated) ==
  IF m.isShown THEN m ELSE BackdropIn([m EXCEPT !.isShown = TRUE, !.bodyOpen = TRUE], animated)

HideModal(m, animated) == BackdropOut([m EXCEPT !.display = FALSE], animated)

(* The browser animates only an element that is displayed and was in.       *)
Hide(m, animated) ==
  LET off == [m EXCEPT !.isShown = FALSE, !.in = FALSE] IN
  IF ~m.isShown THEN m
  ELSE IF animated THEN [off EXCEPT !.element = Await(@, "hide", m.in /\ m.display)]
  ELSE HideModal(off, animated)

(* The ends of the three transitions.                                       *)
ElementEnds(m) ==
  LET over == [m EXCEPT !.element = Ended(@)] IN
  IF "hide" \in m.element.waits THEN HideModal(over, TRUE) ELSE over
DialogEnds(m) == [m EXCEPT !.dialog = Ended(@)]
VeilEnds(m) ==
  LET over == [m EXCEPT !.veil = Ended(@)]
      up == IF "show" \in m.veil.waits THEN Appear(over, TRUE) ELSE over
  IN IF "hide" \in m.veil.waits THEN RemoveBackdrop(up) ELSE up

(* Mutant: the dialog waits no longer than its backdrop.                    *)
ElementTimerEarly(m) == TimerDue(m.element)

(* The element waits 300 ms and the backdrop 150 ms: the timer of a fade-in *)
(* the dialog was hidden in runs before the timer of its fade-out.          *)
ElementTimerDue(m) == TimerDue(m.element) /\ "show" \notin m.veil.waits
ElementTimer(m) ==
  LET ran == [m EXCEPT !.element = TimerRan(@)] IN IF Triggers(m.element) THEN ElementEnds(ran) ELSE ran
DialogTimer(m) ==
  LET ran == [m EXCEPT !.dialog = TimerRan(@)] IN IF Triggers(m.dialog) THEN DialogEnds(ran) ELSE ran
VeilTimer(m) ==
  LET ran == [m EXCEPT !.veil = TimerRan(@)] IN IF Triggers(m.veil) THEN VeilEnds(ran) ELSE ran

-----------------------------------------------------------------------------
(* The collapsible panel.  in: open; collapsing: the transition's class.    *)
(* marked: what its trigger says (aria-expanded, no class "collapsed").     *)
Panels == [in : BOOLEAN, collapsing : BOOLEAN, transitioning : BOOLEAN, marked : BOOLEAN, fx : Awaited]
Panel == [in |-> FALSE, collapsing |-> FALSE, transitioning |-> FALSE, marked |-> FALSE, fx |-> Still]

(* The two "complete" callbacks.                                            *)
CollapseEnds(c) ==
  [c EXCEPT !.fx = Ended(@), !.collapsing = FALSE, !.transitioning = FALSE, !.in = "show" \in c.fx.waits]

CollapseShow(c, animated) ==
  LET begun == [c EXCEPT !.collapsing = TRUE, !.transitioning = TRUE, !.marked = TRUE,
                         !.fx = Await(@, "show", TRUE)]
  IN IF c.transitioning \/ c.in THEN c
     ELSE IF animated THEN begun ELSE [c EXCEPT !.in = TRUE, !.marked = TRUE]

CollapseHide(c, animated) ==
  LET begun == [c EXCEPT !.collapsing = TRUE, !.transitioning = TRUE, !.marked = FALSE, !.in = FALSE,
                         !.fx = Await(@, "hide", TRUE)]
  IN IF c.transitioning \/ ~c.in THEN c
     ELSE IF animated THEN begun ELSE [c EXCEPT !.in = FALSE, !.marked = FALSE]

(* The first click makes the plugin, which toggles the panel; the others    *)
(* toggle it.                                                               *)
CollapseToggle(c, animated) == IF c.in THEN CollapseHide(c, animated) ELSE CollapseShow(c, animated)

CollapseTimer(c) ==
  LET ran == [c EXCEPT !.fx = TimerRan(@)] IN
  IF Triggers(c.fx) /\ c.fx.waits # {} THEN CollapseEnds(ran) ELSE ran
CollapseNative(c) ==
  LET ran == [c EXCEPT !.fx = NativeRan(@)] IN
  IF c.fx.waits # {} THEN CollapseEnds(ran) ELSE [ran EXCEPT !.fx = Ended(@)]
=============================================================================
