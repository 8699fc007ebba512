------------------------- MODULE ModuleDialogProofs -------------------------
(***************************************************************************)
(* Proofs about ModuleDialog for any modules and addresses and any number  *)
(* of inputs, dialogs, requests and lists: the dialog goes through the     *)
(* phases below and no others, whoever hides it and when, and the answer   *)
(* of a save takes what was saved to the list.                             *)
(***************************************************************************)
EXTENDS ModuleDialog, SequenceTheorems, TLAPS

-----------------------------------------------------------------------------
(* The invariant.                                                           *)

\* Who waits for an end event has a timer that will make one.
Timed(t) == t.waits # {} => \E i \in DOMAIN t.timers : ~t.timers[i]

\* The phases of a dialog.  One hidden while its backdrop still fades in
\* appears nevertheless and leaves after that: the browser has no end event
\* for it, and its own timer runs after the backdrop's.
Closed(m) ==
  /\ ~m.isShown /\ ~m.display /\ ~m.bodyOpen /\ m.backdrop = "none"
  /\ m.veil.waits = {} /\ m.element.waits = {}
FadingIn(m) ==
  /\ m.isShown /\ ~m.display /\ m.bodyOpen /\ m.backdrop = "in"
  /\ m.veil.waits = {"show"} /\ m.element.waits = {} /\ m.element.natives = 0
Standing(m) ==
  /\ m.isShown /\ m.display /\ m.bodyOpen /\ m.backdrop = "in"
  /\ m.veil.waits = {} /\ m.element.waits = {}
HiddenEarly(m) ==
  /\ ~m.isShown /\ ~m.display /\ m.bodyOpen /\ m.backdrop = "in"
  /\ m.veil.waits = {"show"} /\ m.element.waits = {"hide"} /\ m.element.natives = 0
Leaving(m) ==
  /\ ~m.isShown /\ m.display /\ m.bodyOpen /\ m.backdrop = "in"
  /\ m.veil.waits = {} /\ m.element.waits = {"hide"}
FadingOut(m) ==
  /\ ~m.isShown /\ ~m.display /\ m.bodyOpen /\ m.backdrop = "out"
  /\ m.veil.waits = {"hide"} /\ m.element.waits = {}

Phases(m, transitions) ==
  \/ Closed(m) \/ Standing(m)
  \/ transitions /\ (FadingIn(m) \/ HiddenEarly(m) \/ Leaving(m) \/ FadingOut(m))

\* A panel.
PanelOK(c) ==
  /\ Timed(c.fx)
  /\ c.transitioning <=> c.fx.waits # {}
  /\ c.transitioning => ~c.in
  /\ c.marked <=> c.in \/ "show" \in c.fx.waits

\* The dialog of before the first is never shown; the saves are of this
\* dialog or of one before it, and of its form as it was.
Asked ==
  /\ ~Closed(dialog.modal) => dialog.luid \in Luids /\ dialog.gen \in 1..MaxLists
  /\ \A i \in DOMAIN saves :
       /\ saves[i].id <= dialog.id
       /\ saves[i].id = dialog.id => saves[i].edits <= dialog.edits
       /\ saves[i].id = dialog.id /\ saves[i].edits = dialog.edits => saves[i].addr = dialog.form

IInv ==
  /\ TypeOK
  /\ Phases(dialog.modal, animated)
  /\ Timed(dialog.modal.element) /\ Timed(dialog.modal.veil)
  /\ \A l \in Luids : PanelOK(cards[l])
  /\ Asked

-----------------------------------------------------------------------------
(* Transition ends.                                                         *)

\* Waiting begins with a timer.
LEMMA AwaitWaits ==
  ASSUME NEW t \in Awaited, NEW w \in Waits, NEW n \in BOOLEAN
  PROVE  /\ Await(t, w, n) \in Awaited /\ Timed(Await(t, w, n))
         /\ Await(t, w, n).waits = t.waits \cup {w}
         /\ ~n => Await(t, w, n).natives = t.natives
<1> DEFINE k == IF n THEN 1 ELSE 0
           s == Append(t.timers, FALSE)
<1>1. /\ t \in [waits : SUBSET Waits, timers : Seq(BOOLEAN), natives : Nat]
      /\ t.waits \cup {w} \in SUBSET Waits /\ t.timers \in Seq(BOOLEAN) /\ t.natives \in Nat
  BY DEF Awaited
<1>2. k \in Nat /\ (~n => k = 0) OBVIOUS
<1>3. /\ s \in Seq(BOOLEAN) /\ Len(t.timers) + 1 \in DOMAIN s
      /\ s[Len(t.timers) + 1] = FALSE
  <2>1. FALSE \in BOOLEAN OBVIOUS
  <2> QED BY <1>1, <2>1, AppendProperties, LenProperties
<1> DEFINE W == t.waits \cup {w}
           N == t.natives + k
           b == [t EXCEPT !.waits = W, !.natives = N]
<1>4. Await(t, w, n) = [b EXCEPT !.timers = s]
  BY <1>1 DEF Await, EmulateTransitionEnd
<1>5. /\ Await(t, w, n) \in [waits : SUBSET Waits, timers : Seq(BOOLEAN), natives : Nat]
      /\ Await(t, w, n).waits = W /\ Await(t, w, n).timers = s
      /\ Await(t, w, n).natives = N
  <2>1. W \in SUBSET Waits /\ N \in Nat BY <1>1, <1>2
  <2> HIDE DEF k, s, W, N
  <2>2. /\ b \in [waits : SUBSET Waits, timers : Seq(BOOLEAN), natives : Nat]
        /\ b.waits = W /\ b.natives = N
    BY <1>1, <2>1
  <2> HIDE DEF b
  <2> QED BY <2>1, <2>2, <1>3, <1>4
<1> HIDE DEF k, s, b
<1>6. Timed(Await(t, w, n)) BY <1>3, <1>5 DEF Timed
<1> QED BY <1>1, <1>2, <1>5, <1>6 DEF Awaited

\* Nobody waits after an end event.
LEMMA EndedSleeps ==
  ASSUME NEW t \in Awaited
  PROVE  /\ Ended(t) \in Awaited /\ Timed(Ended(t))
         /\ Ended(t).waits = {} /\ Ended(t).natives = t.natives
<1> DEFINE s == [i \in DOMAIN t.timers |-> TRUE]
<1>1. t \in [waits : SUBSET Waits, timers : Seq(BOOLEAN), natives : Nat] BY DEF Awaited
<1>2. s \in Seq(BOOLEAN)
  <2>1. DOMAIN t.timers = 1..Len(t.timers) /\ Len(t.timers) \in Nat BY <1>1, LenProperties
  <2>2. s \in [1..Len(t.timers) -> BOOLEAN] BY <2>1
  <2> QED BY <2>1, <2>2, SeqDef
<1>3. Ended(t) = [t EXCEPT !.waits = {}, !.timers = s] BY DEF Ended
<1> HIDE DEF s
<1>4. /\ Ended(t) \in [waits : SUBSET Waits, timers : Seq(BOOLEAN), natives : Nat]
      /\ Ended(t).waits = {} /\ Ended(t).natives = t.natives
  BY <1>1, <1>2, <1>3
<1> QED BY <1>4 DEF Awaited, Timed

\* A timer that has run; one that others called off leaves a timer behind.
LEMMA TimerHasRun ==
  ASSUME NEW t \in Awaited, TimerDue(t)
  PROVE  /\ TimerRan(t) \in Awaited
         /\ TimerRan(t).waits = t.waits /\ TimerRan(t).natives = t.natives
         /\ Timed(t) /\ ~Triggers(t) => Timed(TimerRan(t))
<1> DEFINE s == Tail(t.timers)
<1>1. t \in [waits : SUBSET Waits, timers : Seq(BOOLEAN), natives : Nat] /\ t.timers # <<>>
  BY DEF Awaited, TimerDue
<1>2. /\ s \in Seq(BOOLEAN) /\ Len(s) = Len(t.timers) - 1
      /\ \A i \in 1..Len(s) : s[i] = t.timers[i + 1]
      /\ DOMAIN s = 1..Len(s)
      /\ DOMAIN t.timers = 1..Len(t.timers) /\ Len(t.timers) \in Nat
  BY <1>1, HeadTailProperties, LenProperties
<1>3. TimerRan(t) = [t EXCEPT !.timers = s] BY DEF TimerRan
<1> HIDE DEF s
<1>4. /\ TimerRan(t) \in [waits : SUBSET Waits, timers : Seq(BOOLEAN), natives : Nat]
      /\ TimerRan(t).timers = s
      /\ TimerRan(t).waits = t.waits /\ TimerRan(t).natives = t.natives
  BY <1>1, <1>2, <1>3
<1>5. ASSUME Timed(t), ~Triggers(t), t.waits # {}
      PROVE  \E i \in DOMAIN s : ~s[i]
  <2>1. PICK i \in DOMAIN t.timers : ~t.timers[i] BY <1>5 DEF Timed
  <2>2. Head(t.timers) = t.timers[1] BY <1>1
  <2>3. i # 1 BY <1>5, <2>1, <2>2, Zenon DEF Triggers
  <2>4. i - 1 \in DOMAIN s /\ s[i - 1] = t.timers[i]
    BY <1>2, <2>1, <2>3
  <2> QED BY <2>1, <2>4
<1> QED BY <1>4, <1>5 DEF Timed, Awaited

\* The browser's event.
LEMMA NativeHasRun ==
  ASSUME NEW t \in Awaited, NativeDue(t)
  PROVE  NativeRan(t) \in Awaited /\ NativeRan(t).waits = t.waits /\ NativeRan(t).timers = t.timers
BY DEF Awaited, NativeDue, NativeRan

\* Nothing is awaited yet.
LEMMA StillSleeps == Still \in Awaited /\ Timed(Still) /\ Still.waits = {} /\ Still.natives = 0
BY DEF Still, Awaited, Waits, Timed

-----------------------------------------------------------------------------
(* The dialog.                                                              *)

ModalOK(m, transitions) ==
  m \in Modals /\ Phases(m, transitions) /\ Timed(m.element) /\ Timed(m.veil)

\* A new dialog is shown.
LEMMA ShowBegins ==
  ASSUME NEW bodyOpen \in BOOLEAN, NEW a \in BOOLEAN
  PROVE  ModalOK(Show(Modal(bodyOpen), a), a)
<1> DEFINE m == Modal(bodyOpen)
           laid == [m EXCEPT !.isShown = TRUE, !.bodyOpen = TRUE, !.backdrop = "in"]
<1>1. m \in Modals /\ m.isShown = FALSE BY StillSleeps DEF Modal, Modals
<1>2. laid \in Modals BY <1>1 DEF Modals
<1>3. /\ laid.isShown /\ laid.bodyOpen /\ laid.backdrop = "in" /\ ~laid.display
      /\ laid.veil = Still /\ laid.element = Still /\ laid.dialog = Still
  BY DEF Modal
<1>4. Show(m, a) = IF a THEN [laid EXCEPT !.veil = Await(@, "show", FALSE)] ELSE Appear(laid, a)
  BY <1>1 DEF Show, BackdropIn, Modals
<1> HIDE DEF m, laid
<1>5. CASE a
  <2> DEFINE v == Await(laid.veil, "show", FALSE)
  <2>1. v \in Awaited /\ Timed(v) /\ v.waits = {"show"}
    BY <1>3, StillSleeps, AwaitWaits DEF Waits
  <2>2. Show(m, a) = [laid EXCEPT !.veil = v] BY <1>4, <1>5
  <2> HIDE DEF v
  <2>3. Show(m, a) \in Modals BY <1>2, <2>1, <2>2 DEF Modals
  <2>4. FadingIn(Show(m, a)) BY <1>2, <1>3, <2>1, <2>2, StillSleeps DEF FadingIn, Modals
  <2>5. Timed(Show(m, a).element) /\ Timed(Show(m, a).veil)
    BY <1>2, <1>3, <2>1, <2>2, StillSleeps DEF Modals
  <2> QED BY <1>5, <2>3, <2>4, <2>5 DEF ModalOK, Phases, m
<1>6. CASE ~a
  <2>1. Show(m, a) = [laid EXCEPT !.display = TRUE, !.in = TRUE, !.dialog = laid.dialog]
    BY <1>4, <1>6 DEF Appear
  <2>2. Show(m, a) \in Modals BY <1>2, <2>1 DEF Modals
  <2>3. Standing(Show(m, a)) BY <1>2, <1>3, <2>1, StillSleeps DEF Standing, Modals
  <2>4. Timed(Show(m, a).element) /\ Timed(Show(m, a).veil)
    BY <1>2, <1>3, <2>1, StillSleeps DEF Modals
  <2> QED BY <2>2, <2>3, <2>4 DEF ModalOK, Phases, m
<1> QED BY <1>5, <1>6

\* hideModal, from a dialog that stands or leaves and awaits nothing more.
LEMMA HideModalEnds ==
  ASSUME NEW m \in Modals, NEW a \in BOOLEAN,
         ~m.isShown, m.bodyOpen, m.backdrop = "in", m.veil.waits = {}, Timed(m.veil),
         m.element.waits = {}
  PROVE  ModalOK(HideModal(m, a), a)
<1> DEFINE off == [m EXCEPT !.display = FALSE]
<1>1. /\ off \in Modals /\ ~off.display /\ ~off.isShown /\ off.bodyOpen /\ off.backdrop = "in"
      /\ off.veil = m.veil /\ off.element = m.element
  BY DEF Modals
<1>2. Timed(m.element) BY DEF Timed
<1>3. HideModal(m, a) = BackdropOut(off, a) BY DEF HideModal
<1> HIDE DEF off
<1>4. CASE a
  <2> DEFINE v == Await(off.veil, "hide", FALSE)
  <2>1. off.veil \in Awaited BY <1>1 DEF Modals
  <2>2. v \in Awaited /\ Timed(v) /\ v.waits = {"hide"}
    BY <1>1, <2>1, AwaitWaits DEF Waits
  <2>3. HideModal(m, a) = [off EXCEPT !.backdrop = "out", !.veil = v]
    BY <1>1, <1>3, <1>4 DEF BackdropOut
  <2> HIDE DEF v
  <2>4. HideModal(m, a) \in Modals BY <1>1, <2>2, <2>3 DEF Modals
  <2>5. FadingOut(HideModal(m, a)) BY <1>1, <2>2, <2>3 DEF FadingOut, Modals
  <2>6. Timed(HideModal(m, a).element) /\ Timed(HideModal(m, a).veil)
    BY <1>1, <1>2, <2>2, <2>3 DEF Modals
  <2> QED BY <1>4, <2>4, <2>5, <2>6 DEF ModalOK, Phases
<1>5. CASE ~a
  <2>1. HideModal(m, a) = [off EXCEPT !.backdrop = "none", !.bodyOpen = FALSE]
    BY <1>1, <1>3, <1>5 DEF BackdropOut, RemoveBackdrop
  <2>2. HideModal(m, a) \in Modals BY <1>1, <2>1 DEF Modals
  <2>3. Closed(HideModal(m, a)) BY <1>1, <2>1 DEF Closed, Modals
  <2>4. Timed(HideModal(m, a).element) /\ Timed(HideModal(m, a).veil)
    BY <1>1, <1>2, <2>1 DEF Modals
  <2> QED BY <2>2, <2>3, <2>4 DEF ModalOK, Phases
<1> QED BY <1>4, <1>5

\* Whoever hides the dialog.
LEMMA HideKeeps ==
  ASSUME NEW m, NEW a \in BOOLEAN, ModalOK(m, a)
  PROVE  /\ ModalOK(Hide(m, a), a)
         /\ ~Closed(Hide(m, a)) => ~Closed(m)
<1>1. m \in Modals BY DEF ModalOK
<1>2. CASE ~m.isShown
  BY <1>2 DEF Hide
<1>3. CASE m.isShown
  <2> DEFINE off == [m EXCEPT !.isShown = FALSE, !.in = FALSE]
  <2>1. /\ off \in Modals /\ ~off.isShown /\ off.display = m.display /\ off.bodyOpen = m.bodyOpen
        /\ off.backdrop = m.backdrop /\ off.veil = m.veil /\ off.element = m.element
    BY <1>1 DEF Modals
  <2>2. Standing(m) \/ (a /\ FadingIn(m))
    BY <1>3 DEF ModalOK, Phases, Closed, HiddenEarly, Leaving, FadingOut
  <2>3. ~Closed(m) BY <1>3 DEF Closed
  <2>4. CASE ~a
    <3>1. Hide(m, a) = HideModal(off, a) BY <1>3, <2>4 DEF Hide
    <3>2. Standing(m) /\ Timed(m.veil) BY <2>2, <2>4 DEF ModalOK
    <3> HIDE DEF off
    <3>3. ModalOK(HideModal(off, a), a) BY <2>1, <3>2, HideModalEnds DEF Standing
    <3> QED BY <3>1, <3>3, <2>3
  <2>5. CASE a
    <3> DEFINE n == m.in /\ m.display
               e == Await(off.element, "hide", n)
    <3>1. Hide(m, a) = [off EXCEPT !.element = e] BY <1>3, <2>5 DEF Hide
    <3>2. off.element \in Awaited /\ n \in BOOLEAN BY <2>1 DEF Modals
    <3>3. m.element.waits = {} BY <2>2 DEF Standing, FadingIn
    <3> HIDE DEF off, n
    <3>4. /\ e \in Awaited /\ Timed(e) /\ e.waits = {"hide"}
          /\ ~n => e.natives = m.element.natives
      BY <2>1, <3>2, <3>3, AwaitWaits DEF Waits
    <3> HIDE DEF e
    <3>5. Hide(m, a) \in Modals BY <2>1, <3>1, <3>4 DEF Modals
    <3>6. Timed(Hide(m, a).element) /\ Timed(Hide(m, a).veil)
      BY <2>1, <3>1, <3>4 DEF Modals, ModalOK
    <3>7. CASE Standing(m)
      <4>1. Leaving(Hide(m, a)) BY <2>1, <3>1, <3>4, <3>7 DEF Leaving, Standing, Modals
      <4> QED BY <2>5, <3>5, <3>6, <4>1, <2>3 DEF ModalOK, Phases
    <3>8. CASE FadingIn(m)
      <4>1. ~n BY <3>8 DEF n, FadingIn
      <4>2. HiddenEarly(Hide(m, a))
        BY <2>1, <3>1, <3>4, <3>8, <4>1 DEF HiddenEarly, FadingIn, Modals
      <4> QED BY <2>5, <3>5, <3>6, <4>2, <2>3 DEF ModalOK, Phases
    <3> QED BY <2>2, <3>7, <3>8
  <2> QED BY <2>4, <2>5
<1> QED BY <1>2, <1>3

\* The dialog's transition is over: the end event of the dialog that fades
\* out hides it, and never while its backdrop still fades in.
LEMMA ElementEndsKeeps ==
  ASSUME NEW m, NEW a \in BOOLEAN, m \in Modals, Phases(m, a), Timed(m.veil),
         "show" \notin m.veil.waits
  PROVE  ModalOK(ElementEnds(m), a) /\ (~Closed(ElementEnds(m)) => ~Closed(m))
<1> DEFINE e == Ended(m.element)
           over == [m EXCEPT !.element = e]
<1>1. e \in Awaited /\ Timed(e) /\ e.waits = {} BY EndedSleeps DEF Modals
<1> HIDE DEF e
<1>2. /\ over \in Modals /\ over.element = e
      /\ over.isShown = m.isShown /\ over.display = m.display /\ over.bodyOpen = m.bodyOpen
      /\ over.backdrop = m.backdrop /\ over.veil = m.veil
  BY <1>1 DEF Modals
<1>3. ElementEnds(m) = IF "hide" \in m.element.waits THEN HideModal(over, TRUE) ELSE over
  BY DEF ElementEnds, e
<1> HIDE DEF over
<1>4. Closed(m) \/ Standing(m) \/ (a /\ Leaving(m)) \/ (a /\ FadingOut(m))
  BY DEF Phases, FadingIn, HiddenEarly
<1>5. CASE a /\ Leaving(m)
  <2>1. ElementEnds(m) = HideModal(over, a) BY <1>3, <1>5 DEF Leaving
  <2>2. ModalOK(HideModal(over, a), a)
    BY <1>1, <1>2, <1>5, HideModalEnds DEF Leaving
  <2> QED BY <2>1, <2>2, <1>5 DEF Leaving, Closed
<1>6. CASE Closed(m) \/ Standing(m) \/ (a /\ FadingOut(m))
  <2>1. ElementEnds(m) = over BY <1>3, <1>6 DEF Closed, Standing, FadingOut
  <2>2. /\ (Closed(m) => Closed(over)) /\ (Standing(m) => Standing(over))
        /\ (FadingOut(m) => FadingOut(over)) /\ (Closed(over) => Closed(m))
    BY <1>1, <1>2, <1>6 DEF Closed, Standing, FadingOut
  <2>3. Timed(over.element) /\ Timed(over.veil) BY <1>1, <1>2
  <2> QED BY <1>2, <1>6, <2>1, <2>2, <2>3 DEF ModalOK, Phases
<1> QED BY <1>4, <1>5, <1>6

\* The backdrop's transition is over.
LEMMA VeilEndsKeeps ==
  ASSUME NEW m, NEW a \in BOOLEAN, m \in Modals, Phases(m, a), Timed(m.element)
  PROVE  ModalOK(VeilEnds(m), a) /\ (~Closed(VeilEnds(m)) => ~Closed(m))
<1> DEFINE v == Ended(m.veil)
           over == [m EXCEPT !.veil = v]
           d == Await(over.dialog, "show", TRUE)
           up == IF "show" \in m.veil.waits THEN Appear(over, TRUE) ELSE over
<1>1. v \in Awaited /\ Timed(v) /\ v.waits = {} BY EndedSleeps DEF Modals
<1>2. VeilEnds(m) = IF "hide" \in m.veil.waits THEN RemoveBackdrop(up) ELSE up
  BY DEF VeilEnds
<1> HIDE DEF v
<1>3. /\ over \in Modals /\ over.veil = v
      /\ over.isShown = m.isShown /\ over.display = m.display /\ over.bodyOpen = m.bodyOpen
      /\ over.backdrop = m.backdrop /\ over.element = m.element
  BY <1>1 DEF Modals
<1>4. Appear(over, TRUE) = [over EXCEPT !.display = TRUE, !.in = TRUE, !.dialog = d]
  BY DEF Appear
<1> HIDE DEF over
<1>5. d \in Awaited
  <2>1. over.dialog \in Awaited BY <1>3 DEF Modals
  <2> QED BY <2>1, AwaitWaits DEF Waits
<1>6. CASE FadingIn(m) \/ HiddenEarly(m)
  <2>1. VeilEnds(m) = [over EXCEPT !.display = TRUE, !.in = TRUE, !.dialog = d]
    BY <1>2, <1>4, <1>6 DEF FadingIn, HiddenEarly
  <2> HIDE DEF d
  <2>2. /\ VeilEnds(m) \in Modals /\ VeilEnds(m).display /\ VeilEnds(m).isShown = over.isShown
        /\ VeilEnds(m).bodyOpen = over.bodyOpen /\ VeilEnds(m).backdrop = over.backdrop
        /\ VeilEnds(m).veil = over.veil /\ VeilEnds(m).element = over.element
    BY <1>3, <1>5, <2>1 DEF Modals
  <2>3. Timed(VeilEnds(m).element) /\ Timed(VeilEnds(m).veil) BY <1>1, <1>3, <2>2
  <2>4. /\ FadingIn(m) => Standing(VeilEnds(m))
        /\ HiddenEarly(m) => Leaving(VeilEnds(m))
    BY <1>1, <1>3, <2>2 DEF FadingIn, Standing, HiddenEarly, Leaving
  <2>5. ~Closed(m) /\ (FadingIn(m) \/ HiddenEarly(m) => a)
    BY <1>6 DEF Phases, FadingIn, HiddenEarly, Closed, Standing, Leaving, FadingOut
  <2> QED BY <1>6, <2>2, <2>3, <2>4, <2>5 DEF ModalOK, Phases
<1>7. CASE FadingOut(m)
  <2>1. VeilEnds(m) = [over EXCEPT !.backdrop = "none", !.bodyOpen = FALSE]
    BY <1>2, <1>7 DEF FadingOut, RemoveBackdrop
  <2>2. /\ VeilEnds(m) \in Modals /\ VeilEnds(m).display = over.display
        /\ VeilEnds(m).isShown = over.isShown
        /\ ~VeilEnds(m).bodyOpen /\ VeilEnds(m).backdrop = "none"
        /\ VeilEnds(m).veil = over.veil /\ VeilEnds(m).element = over.element
    BY <1>3, <2>1 DEF Modals
  <2>3. Timed(VeilEnds(m).element) /\ Timed(VeilEnds(m).veil) BY <1>1, <1>3, <2>2
  <2>4. Closed(VeilEnds(m)) BY <1>1, <1>3, <1>7, <2>2 DEF FadingOut, Closed
  <2> QED BY <2>2, <2>3, <2>4 DEF ModalOK, Phases
<1>8. CASE Closed(m) \/ Standing(m) \/ (a /\ Leaving(m))
  <2>1. VeilEnds(m) = over BY <1>2, <1>8 DEF Closed, Standing, Leaving
  <2>2. /\ (Closed(m) => Closed(over)) /\ (Standing(m) => Standing(over))
        /\ (Leaving(m) => Leaving(over)) /\ (Closed(over) => Closed(m))
    BY <1>1, <1>3, <1>8 DEF Closed, Standing, Leaving
  <2>3. Timed(over.element) /\ Timed(over.veil) BY <1>1, <1>3
  <2> QED BY <1>3, <1>8, <2>1, <2>2, <2>3 DEF ModalOK, Phases
<1> QED BY <1>6, <1>7, <1>8 DEF Phases

\* What changes neither the display nor who waits for the dialog or its
\* backdrop.
LEMMA SamePhase ==
  ASSUME NEW m, NEW n, NEW a \in BOOLEAN, Phases(m, a),
         n.isShown = m.isShown, n.display = m.display, n.bodyOpen = m.bodyOpen,
         n.backdrop = m.backdrop, n.veil.waits = m.veil.waits, n.element.waits = m.element.waits,
         m.element.natives = 0 => n.element.natives = 0
  PROVE  Phases(n, a) /\ (Closed(m) <=> Closed(n))
BY DEF Phases, Closed, FadingIn, Standing, HiddenEarly, Leaving, FadingOut

\* A timer of the dialog.
LEMMA ElementTimerKeeps ==
  ASSUME NEW m, NEW a \in BOOLEAN, ModalOK(m, a), ElementTimerDue(m)
  PROVE  ModalOK(ElementTimer(m), a) /\ (~Closed(ElementTimer(m)) => ~Closed(m))
<1> DEFINE ran == [m EXCEPT !.element = TimerRan(m.element)]
<1>1. m \in Modals /\ m.element \in Awaited /\ TimerDue(m.element) /\ "show" \notin m.veil.waits
  BY DEF ModalOK, Modals, ElementTimerDue
<1>2. /\ TimerRan(m.element) \in Awaited
      /\ TimerRan(m.element).waits = m.element.waits
      /\ TimerRan(m.element).natives = m.element.natives
      /\ ~Triggers(m.element) => Timed(TimerRan(m.element))
  BY <1>1, TimerHasRun DEF ModalOK
<1>3. /\ ran \in Modals /\ ran.element = TimerRan(m.element)
      /\ ran.isShown = m.isShown /\ ran.display = m.display /\ ran.bodyOpen = m.bodyOpen
      /\ ran.backdrop = m.backdrop /\ ran.veil = m.veil
  BY <1>1, <1>2 DEF Modals
<1>4. ElementTimer(m) = IF Triggers(m.element) THEN ElementEnds(ran) ELSE ran
  BY DEF ElementTimer
<1> HIDE DEF ran
<1>5. Phases(ran, a) /\ (Closed(m) <=> Closed(ran)) BY <1>2, <1>3, SamePhase DEF ModalOK
<1>6. Timed(ran.veil) /\ "show" \notin ran.veil.waits BY <1>1, <1>3 DEF ModalOK
<1>7. ModalOK(ElementEnds(ran), a) /\ (~Closed(ElementEnds(ran)) => ~Closed(ran))
  BY <1>3, <1>5, <1>6, ElementEndsKeeps
<1>8. ~Triggers(m.element) => ModalOK(ran, a) BY <1>2, <1>3, <1>5, <1>6 DEF ModalOK
<1> QED BY <1>4, <1>5, <1>7, <1>8

\* A timer of the backdrop.
LEMMA VeilTimerKeeps ==
  ASSUME NEW m, NEW a \in BOOLEAN, ModalOK(m, a), TimerDue(m.veil)
  PROVE  ModalOK(VeilTimer(m), a) /\ (~Closed(VeilTimer(m)) => ~Closed(m))
<1> DEFINE ran == [m EXCEPT !.veil = TimerRan(m.veil)]
<1>1. m \in Modals /\ m.veil \in Awaited BY DEF ModalOK, Modals
<1>2. /\ TimerRan(m.veil) \in Awaited /\ TimerRan(m.veil).waits = m.veil.waits
      /\ ~Triggers(m.veil) => Timed(TimerRan(m.veil))
  BY <1>1, TimerHasRun DEF ModalOK
<1>3. /\ ran \in Modals /\ ran.veil = TimerRan(m.veil)
      /\ ran.isShown = m.isShown /\ ran.display = m.display /\ ran.bodyOpen = m.bodyOpen
      /\ ran.backdrop = m.backdrop /\ ran.element = m.element
  BY <1>1, <1>2 DEF Modals
<1>4. VeilTimer(m) = IF Triggers(m.veil) THEN VeilEnds(ran) ELSE ran
  BY DEF VeilTimer
<1> HIDE DEF ran
<1>5. Phases(ran, a) /\ (Closed(m) <=> Closed(ran)) BY <1>2, <1>3, SamePhase DEF ModalOK
<1>6. Timed(ran.element) BY <1>3 DEF ModalOK
<1>7. ModalOK(VeilEnds(ran), a) /\ (~Closed(VeilEnds(ran)) => ~Closed(ran))
  BY <1>3, <1>5, <1>6, VeilEndsKeeps
<1>8. ~Triggers(m.veil) => ModalOK(ran, a) BY <1>2, <1>3, <1>5, <1>6 DEF ModalOK
<1> QED BY <1>4, <1>5, <1>7, <1>8

\* The browser ends the dialog's transition.
LEMMA ElementNativeKeeps ==
  ASSUME NEW m, NEW a \in BOOLEAN, ModalOK(m, a), NativeDue(m.element)
  PROVE  LET ran == [m EXCEPT !.element = NativeRan(m.element)]
         IN  ModalOK(ElementEnds(ran), a) /\ (~Closed(ElementEnds(ran)) => ~Closed(m))
<1> DEFINE ran == [m EXCEPT !.element = NativeRan(m.element)]
<1>1. m \in Modals /\ m.element \in Awaited BY DEF ModalOK, Modals
<1>2. NativeRan(m.element) \in Awaited /\ NativeRan(m.element).waits = m.element.waits
  BY <1>1, NativeHasRun
<1>3. /\ ran \in Modals /\ ran.element = NativeRan(m.element)
      /\ ran.isShown = m.isShown /\ ran.display = m.display /\ ran.bodyOpen = m.bodyOpen
      /\ ran.backdrop = m.backdrop /\ ran.veil = m.veil
  BY <1>1, <1>2 DEF Modals
<1> HIDE DEF ran
<1>4. m.element.natives # 0 BY <1>1 DEF NativeDue, Awaited
<1>5. Phases(ran, a) /\ (Closed(m) <=> Closed(ran)) BY <1>2, <1>3, <1>4, SamePhase DEF ModalOK
<1>6. "show" \notin ran.veil.waits
  BY <1>3, <1>4 DEF ModalOK, Phases, Closed, Standing, FadingIn, HiddenEarly, Leaving, FadingOut
<1>7. Timed(ran.veil) BY <1>3 DEF ModalOK
<1>8. ModalOK(ElementEnds(ran), a) /\ (~Closed(ElementEnds(ran)) => ~Closed(ran))
  BY <1>3, <1>5, <1>6, <1>7, ElementEndsKeeps
<1> QED BY <1>5, <1>8 DEF ran

\* Nothing depends on the end of the transition that lets the dialog in.
LEMMA DialogChanges ==
  ASSUME NEW m, NEW a \in BOOLEAN, ModalOK(m, a), NEW t \in Awaited
  PROVE  LET n == [m EXCEPT !.dialog = t] IN ModalOK(n, a) /\ (~Closed(n) => ~Closed(m))
<1> DEFINE n == [m EXCEPT !.dialog = t]
<1>1. m \in Modals BY DEF ModalOK
<1>2. /\ n \in Modals /\ n.element = m.element /\ n.veil = m.veil
      /\ n.isShown = m.isShown /\ n.display = m.display /\ n.bodyOpen = m.bodyOpen
      /\ n.backdrop = m.backdrop
  BY <1>1 DEF Modals
<1> HIDE DEF n
<1>3. Phases(n, a) /\ (Closed(m) <=> Closed(n)) BY <1>2, SamePhase DEF ModalOK
<1> QED BY <1>2, <1>3 DEF ModalOK, n
LEMMA DialogEventKeeps ==
  ASSUME NEW m, NEW a \in BOOLEAN, ModalOK(m, a)
  PROVE  /\ TimerDue(m.dialog) =>
              ModalOK(DialogTimer(m), a) /\ (~Closed(DialogTimer(m)) => ~Closed(m))
         /\ NativeDue(m.dialog) =>
              LET n == DialogEnds([m EXCEPT !.dialog = NativeRan(m.dialog)])
              IN  ModalOK(n, a) /\ (~Closed(n) => ~Closed(m))
<1>1. m \in Modals /\ m.dialog \in Awaited BY DEF ModalOK, Modals
<1>2. ASSUME TimerDue(m.dialog)
      PROVE  ModalOK(DialogTimer(m), a) /\ (~Closed(DialogTimer(m)) => ~Closed(m))
  <2> DEFINE t == TimerRan(m.dialog)
  <2>1. t \in Awaited /\ Ended(t) \in Awaited BY <1>1, <1>2, TimerHasRun, EndedSleeps
  <2>2. \/ DialogTimer(m) = [m EXCEPT !.dialog = Ended(t)]
        \/ DialogTimer(m) = [m EXCEPT !.dialog = t]
    BY <1>1 DEF DialogTimer, DialogEnds, Modals
  <2> HIDE DEF t
  <2> QED BY <2>1, <2>2, DialogChanges
<1>3. ASSUME NativeDue(m.dialog)
      PROVE  LET n == DialogEnds([m EXCEPT !.dialog = NativeRan(m.dialog)])
             IN  ModalOK(n, a) /\ (~Closed(n) => ~Closed(m))
  <2> DEFINE t == NativeRan(m.dialog)
  <2>1. t \in Awaited /\ Ended(t) \in Awaited BY <1>1, <1>3, NativeHasRun, EndedSleeps
  <2>2. DialogEnds([m EXCEPT !.dialog = t]) = [m EXCEPT !.dialog = Ended(t)]
    BY <1>1 DEF DialogEnds, Modals
  <2> HIDE DEF t
  <2>3. LET n == [m EXCEPT !.dialog = Ended(t)] IN ModalOK(n, a) /\ (~Closed(n) => ~Closed(m))
    BY <2>1, DialogChanges
  <2> QED BY <2>2, <2>3 DEF t
<1> QED BY <1>2, <1>3

-----------------------------------------------------------------------------
(* The panels.                                                              *)

\* A click.
LEMMA ToggleKeeps ==
  ASSUME NEW c \in Panels, NEW a \in BOOLEAN, PanelOK(c)
  PROVE  CollapseToggle(c, a) \in Panels /\ PanelOK(CollapseToggle(c, a))
<1> DEFINE d == CollapseToggle(c, a)
           up == Await(c.fx, "show", TRUE)
           down == Await(c.fx, "hide", TRUE)
<1>0. c.fx \in Awaited BY DEF Panels
<1>1. CASE c.transitioning
  BY <1>1 DEF CollapseToggle, CollapseHide, CollapseShow
<1>2. CASE ~c.transitioning
  <2>1. c.fx.waits = {} /\ (c.marked <=> c.in) BY <1>2 DEF PanelOK
  <2>2. up \in Awaited /\ Timed(up) /\ up.waits = {"show"} BY <1>0, <2>1, AwaitWaits DEF Waits
  <2>3. down \in Awaited /\ Timed(down) /\ down.waits = {"hide"}
    BY <1>0, <2>1, AwaitWaits DEF Waits
  <2>4. CASE c.in
    <3>1. d = IF a THEN [c EXCEPT !.collapsing = TRUE, !.transitioning = TRUE, !.marked = FALSE,
                                  !.in = FALSE, !.fx = down]
              ELSE [c EXCEPT !.in = FALSE, !.marked = FALSE]
      BY <1>2, <2>4 DEF CollapseToggle, CollapseHide
    <3> HIDE DEF d, down
    <3>2. CASE a
      <4>1. /\ d \in Panels /\ d.fx = down /\ d.transitioning = TRUE /\ d.in = FALSE /\ d.marked = FALSE
        BY <3>1, <3>2, <2>3 DEF Panels
      <4> QED BY <4>1, <2>3 DEF PanelOK, d
    <3>3. CASE ~a BY <3>1, <3>3, <2>1, <1>2 DEF Panels, PanelOK, d
    <3> QED BY <3>2, <3>3
  <2>5. CASE ~c.in
    <3>1. d = IF a THEN [c EXCEPT !.collapsing = TRUE, !.transitioning = TRUE, !.marked = TRUE, !.fx = up]
              ELSE [c EXCEPT !.in = TRUE, !.marked = TRUE]
      BY <1>2, <2>5 DEF CollapseToggle, CollapseShow
    <3> HIDE DEF d, up
    <3>2. CASE a BY <3>1, <3>2, <2>2, <2>5 DEF Panels, PanelOK, d
    <3>3. CASE ~a BY <3>1, <3>3, <2>1, <1>2 DEF Panels, PanelOK, d
    <3> QED BY <3>2, <3>3
  <2> QED BY <2>4, <2>5
<1> QED BY <1>1, <1>2

\* A timer or an event of the browser, of a panel that waits and of one that
\* does not.
LEMMA CollapseEndsKeeps ==
  ASSUME NEW c \in Panels, c.fx.waits # {},
         c.marked <=> c.in \/ "show" \in c.fx.waits, ~c.in
  PROVE  CollapseEnds(c) \in Panels /\ PanelOK(CollapseEnds(c))
<1> DEFINE e == Ended(c.fx)
<1>1. e \in Awaited /\ Timed(e) /\ e.waits = {} BY EndedSleeps DEF Panels
<1>2. CollapseEnds(c) = [c EXCEPT !.fx = e, !.collapsing = FALSE, !.transitioning = FALSE,
                                  !.in = "show" \in c.fx.waits]
  BY DEF CollapseEnds
<1> DEFINE shown == "show" \in c.fx.waits
           d == CollapseEnds(c)
<1> HIDE DEF e
<1>3. shown \in BOOLEAN OBVIOUS
<1>4. d = [c EXCEPT !.fx = e, !.collapsing = FALSE, !.transitioning = FALSE, !.in = shown]
  BY <1>2
<1>5. c.marked <=> shown OBVIOUS
<1> HIDE DEF d, shown
<1>6. /\ d \in Panels /\ d.fx = e /\ d.transitioning = FALSE /\ d.in = shown /\ d.marked = c.marked
  BY <1>1, <1>3, <1>4 DEF Panels
<1>7. PanelOK(d) BY <1>1, <1>5, <1>6 DEF PanelOK
<1> QED BY <1>6, <1>7 DEF d
LEMMA CollapseTimerKeeps ==
  ASSUME NEW c \in Panels, PanelOK(c), TimerDue(c.fx)
  PROVE  CollapseTimer(c) \in Panels /\ PanelOK(CollapseTimer(c))
<1> DEFINE t == TimerRan(c.fx)
           ran == [c EXCEPT !.fx = t]
<1>1. t \in Awaited /\ t.waits = c.fx.waits /\ (~Triggers(c.fx) => Timed(t))
  BY TimerHasRun DEF Panels, PanelOK
<1>2. CollapseTimer(c) = IF Triggers(c.fx) /\ c.fx.waits # {} THEN CollapseEnds(ran) ELSE ran
  BY DEF CollapseTimer
<1> HIDE DEF t
<1>3. /\ ran \in Panels /\ ran.fx = t /\ ran.marked = c.marked /\ ran.in = c.in
      /\ ran.transitioning = c.transitioning
  BY <1>1 DEF Panels
<1> HIDE DEF ran
<1>4. CASE Triggers(c.fx) /\ c.fx.waits # {}
  BY <1>1, <1>2, <1>3, <1>4, CollapseEndsKeeps DEF PanelOK
<1>5. CASE ~(Triggers(c.fx) /\ c.fx.waits # {})
  BY <1>1, <1>2, <1>3, <1>5 DEF PanelOK, Timed
<1> QED BY <1>4, <1>5
LEMMA CollapseNativeKeeps ==
  ASSUME NEW c \in Panels, PanelOK(c), NativeDue(c.fx)
  PROVE  CollapseNative(c) \in Panels /\ PanelOK(CollapseNative(c))
<1> DEFINE t == NativeRan(c.fx)
           e == Ended(t)
           ran == [c EXCEPT !.fx = t]
<1>1. t \in Awaited /\ t.waits = c.fx.waits BY NativeHasRun DEF Panels
<1>2. e \in Awaited /\ Timed(e) /\ e.waits = {} BY <1>1, EndedSleeps
<1>3. CollapseNative(c) = IF c.fx.waits # {} THEN CollapseEnds(ran) ELSE [c EXCEPT !.fx = e]
  BY DEF CollapseNative, Panels
<1> HIDE DEF t, e
<1>4. /\ ran \in Panels /\ ran.fx = t /\ ran.marked = c.marked /\ ran.in = c.in
      /\ ran.transitioning = c.transitioning
  BY <1>1 DEF Panels
<1> HIDE DEF ran
<1>5. CASE c.fx.waits # {}
  BY <1>1, <1>3, <1>4, <1>5, CollapseEndsKeeps DEF PanelOK
<1>6. CASE c.fx.waits = {}
  BY <1>2, <1>3, <1>6 DEF PanelOK, Panels
<1> QED BY <1>5, <1>6

-----------------------------------------------------------------------------
(* The steps.                                                               *)

DialogOK(d, transitions) ==
  /\ d \in Dialogs /\ ModalOK(d.modal, transitions)
  /\ ~Closed(d.modal) => d.luid \in Luids /\ d.gen \in 1..MaxLists

\* A dialog of which only the plugin's state changes.
LEMMA ModalChanges ==
  ASSUME NEW d, NEW a \in BOOLEAN, DialogOK(d, a), NEW n, ModalOK(n, a), ~Closed(n) => ~Closed(d.modal)
  PROVE  /\ DialogOK([d EXCEPT !.modal = n], a)
         /\ [d EXCEPT !.modal = n].id = d.id /\ [d EXCEPT !.modal = n].edits = d.edits
         /\ [d EXCEPT !.modal = n].form = d.form
<1> DEFINE e == [d EXCEPT !.modal = n]
<1>1. d \in Dialogs /\ n \in Modals BY DEF DialogOK, ModalOK
<1>2. /\ e \in Dialogs /\ e.modal = n /\ e.luid = d.luid /\ e.gen = d.gen
      /\ e.id = d.id /\ e.edits = d.edits /\ e.form = d.form
  BY <1>1 DEF Dialogs
<1> HIDE DEF e
<1>3. DialogOK(e, a) BY <1>2 DEF DialogOK
<1> QED BY <1>2, <1>3 DEF e

\* The steps of the dialog that leave all else alone but the saves.
ModalStep == \E n : /\ dialog' = [dialog EXCEPT !.modal = n] /\ ModalOK(n, animated)
                    /\ ~Closed(n) => ~Closed(dialog.modal)

\* The dialog in the page, whoever acts on it.
LEMMA ModalSteps ==
  ASSUME IInv, \/ Dismiss \/ ElementTimerFires \/ DialogTimerFires \/ VeilTimerFires \/ NativeEnd
               \/ \E i \in DOMAIN saves : Answer(i)
  PROVE  ModalStep
<1> DEFINE m == dialog.modal
           a == animated
<1>1. ModalOK(m, a) /\ a \in BOOLEAN BY DEF IInv, TypeOK, ModalOK, Dialogs
<1> USE DEF Becomes
<1>2. CASE Dismiss \/ \E i \in DOMAIN saves : Answer(i)
  <2>1. dialog' = [dialog EXCEPT !.modal = Hide(m, a)] BY <1>2 DEF Dismiss, Answer
  <2> HIDE DEF m, a
  <2>2. ModalOK(Hide(m, a), a) /\ (~Closed(Hide(m, a)) => ~Closed(m)) BY <1>1, HideKeeps
  <2> QED BY <2>1, <2>2 DEF ModalStep, m, a
<1>3. CASE ElementTimerFires
  <2>1. dialog' = [dialog EXCEPT !.modal = ElementTimer(m)] /\ ElementTimerDue(m)
    BY <1>3 DEF ElementTimerFires
  <2> HIDE DEF m, a
  <2>2. ModalOK(ElementTimer(m), a) /\ (~Closed(ElementTimer(m)) => ~Closed(m))
    BY <1>1, <2>1, ElementTimerKeeps
  <2> QED BY <2>1, <2>2 DEF ModalStep, m, a
<1>4. CASE DialogTimerFires
  <2>1. dialog' = [dialog EXCEPT !.modal = DialogTimer(m)] /\ TimerDue(m.dialog)
    BY <1>4 DEF DialogTimerFires
  <2> HIDE DEF m, a
  <2>2. ModalOK(DialogTimer(m), a) /\ (~Closed(DialogTimer(m)) => ~Closed(m))
    BY <1>1, <2>1, DialogEventKeeps
  <2> QED BY <2>1, <2>2 DEF ModalStep, m, a
<1>5. CASE VeilTimerFires
  <2>1. dialog' = [dialog EXCEPT !.modal = VeilTimer(m)] /\ TimerDue(m.veil)
    BY <1>5 DEF VeilTimerFires
  <2> HIDE DEF m, a
  <2>2. ModalOK(VeilTimer(m), a) /\ (~Closed(VeilTimer(m)) => ~Closed(m))
    BY <1>1, <2>1, VeilTimerKeeps
  <2> QED BY <2>1, <2>2 DEF ModalStep, m, a
<1>6. CASE NativeEnd
  <2> DEFINE n1 == ElementEnds([m EXCEPT !.element = NativeRan(m.element)])
             n2 == DialogEnds([m EXCEPT !.dialog = NativeRan(m.dialog)])
  <2>1. \/ dialog' = [dialog EXCEPT !.modal = n1] /\ NativeDue(m.element)
        \/ dialog' = [dialog EXCEPT !.modal = n2] /\ NativeDue(m.dialog)
    BY <1>6 DEF NativeEnd
  <2> HIDE DEF m, a
  <2>2. NativeDue(m.element) => ModalOK(n1, a) /\ (~Closed(n1) => ~Closed(m))
    BY <1>1, ElementNativeKeeps
  <2>3. NativeDue(m.dialog) => ModalOK(n2, a) /\ (~Closed(n2) => ~Closed(m))
    BY <1>1, DialogEventKeeps
  <2> HIDE DEF n1, n2
  <2> QED BY <2>1, <2>2, <2>3 DEF ModalStep, m, a
<1> QED BY <1>2, <1>3, <1>4, <1>5, <1>6

\* The dialog in the page is sound, and of a list and a module once shown.
LEMMA DialogStep ==
  ASSUME IInv, [Next]_vars
  PROVE  animated' = animated /\ DialogOK(dialog', animated)
<1> DEFINE a == animated
<1>0. a \in BOOLEAN /\ DialogOK(dialog, a)
  BY DEF IInv, TypeOK, Asked, ModalOK, Dialogs, DialogOK
<1>1. animated' = animated
  BY DEF Next, User, ToggleCard, Open, Edit, AjaxSubmit, Dismiss, Rebuild, WebServer, Serve, Answer,
         Fail, Timers, ElementTimerFires, DialogTimerFires, VeilTimerFires, CardTimerFires, Natives,
         NativeEnd, CardNativeEnd, Rest, vars
<1>2. CASE \/ Dismiss \/ ElementTimerFires \/ DialogTimerFires \/ VeilTimerFires \/ NativeEnd
           \/ \E i \in DOMAIN saves : Answer(i)
  <2>1. PICK n : /\ dialog' = [dialog EXCEPT !.modal = n] /\ ModalOK(n, a)
                 /\ ~Closed(n) => ~Closed(dialog.modal)
    BY <1>2, ModalSteps DEF ModalStep
  <2> HIDE DEF a
  <2>2. DialogOK([dialog EXCEPT !.modal = n], a) BY <1>0, <2>1, ModalChanges
  <2> QED BY <1>1, <2>1, <2>2 DEF a
<1>3. CASE \E l \in Luids : Open(l)
  <2>1. PICK l \in Luids : Open(l) BY <1>3
  <2> DEFINE n == Show(Modal(dialog.modal.bodyOpen), a)
  <2>2. dialog.modal.bodyOpen \in BOOLEAN BY <1>0 DEF DialogOK, Dialogs, Modals
  <2>3. ModalOK(n, a) BY <1>0, <2>2, ShowBegins
  <2>4. dialog' = [id |-> dialog.id + 1, gen |-> list.gen, luid |-> l, form |-> list.data[l],
                   edits |-> 0, modal |-> n]
    BY <2>1 DEF Open
  <2>5. list.gen \in 1..MaxLists /\ list.data[l] \in Addrs BY DEF IInv, TypeOK, Lists
  <2>6. dialog.id + 1 \in Nat BY <1>0 DEF DialogOK, Dialogs
  <2>7. list.gen \in 0..MaxLists BY <2>5
  <2>8. n \in Modals BY <2>3 DEF ModalOK
  <2> HIDE DEF n, a
  <2>9. dialog' \in Dialogs BY <2>4, <2>5, <2>6, <2>7, <2>8 DEF Dialogs
  <2> QED BY <1>1, <2>3, <2>4, <2>5, <2>9 DEF DialogOK, a
<1>4. CASE \E x \in Addrs : Edit(x)
  <2>1. PICK x \in Addrs : dialog' = [dialog EXCEPT !.form = x, !.edits = @ + 1]
    BY <1>4 DEF Edit
  <2> DEFINE k == dialog.edits + 1
  <2>2. dialog \in Dialogs /\ k \in Nat BY <1>0 DEF DialogOK, Dialogs
  <2>3. dialog' = [dialog EXCEPT !.form = x, !.edits = k] BY <2>1
  <2> HIDE DEF k
  <2>4. /\ dialog' \in Dialogs /\ dialog'.modal = dialog.modal
        /\ dialog'.luid = dialog.luid /\ dialog'.gen = dialog.gen
    BY <2>2, <2>3 DEF Dialogs
  <2> QED BY <1>0, <1>1, <2>4 DEF DialogOK
<1>5. CASE \/ \E l \in Luids : ToggleCard(l) \/ CardTimerFires(l) \/ CardNativeEnd(l)
           \/ AjaxSubmit \/ Rebuild
           \/ \E i \in DOMAIN saves : Fail(i) \/ \E outcome \in {"stored", "refused", "failed"} : Serve(i, outcome)
           \/ UNCHANGED vars
  <2>1. dialog' = dialog
    BY <1>5 DEF ToggleCard, CardTimerFires, CardNativeEnd, AjaxSubmit, Rebuild, Fail, Serve, vars
  <2> QED BY <1>0, <1>1, <2>1
<1> QED BY <1>2, <1>3, <1>4, <1>5 DEF Next, User, WebServer, Timers, Natives

\* The panels.
LEMMA CardsStep ==
  ASSUME IInv, [Next]_vars
  PROVE  cards' \in [Luids -> Panels] /\ \A l \in Luids : PanelOK(cards'[l])
<1>0. cards \in [Luids -> Panels] /\ animated \in BOOLEAN /\ \A l \in Luids : PanelOK(cards[l])
  BY DEF IInv, TypeOK
<1>1. ASSUME NEW l \in Luids, NEW c \in Panels, PanelOK(c), cards' = [cards EXCEPT ![l] = c]
      PROVE  cards' \in [Luids -> Panels] /\ \A k \in Luids : PanelOK(cards'[k])
  BY <1>0, <1>1
<1>2. CASE \E l \in Luids : ToggleCard(l)
  <2>1. PICK l \in Luids : cards' = [cards EXCEPT ![l] = CollapseToggle(cards[l], animated)]
    BY <1>2 DEF ToggleCard
  <2>2. CollapseToggle(cards[l], animated) \in Panels /\ PanelOK(CollapseToggle(cards[l], animated))
    BY <1>0, ToggleKeeps
  <2> QED BY <1>1, <2>1, <2>2
<1>3. CASE \E l \in Luids : CardTimerFires(l)
  <2>1. PICK l \in Luids : /\ TimerDue(cards[l].fx)
                           /\ cards' = [cards EXCEPT ![l] = CollapseTimer(cards[l])]
    BY <1>3 DEF CardTimerFires
  <2>2. CollapseTimer(cards[l]) \in Panels /\ PanelOK(CollapseTimer(cards[l]))
    BY <1>0, <2>1, CollapseTimerKeeps
  <2> QED BY <1>1, <2>1, <2>2
<1>4. CASE \E l \in Luids : CardNativeEnd(l)
  <2>1. PICK l \in Luids : /\ NativeDue(cards[l].fx)
                           /\ cards' = [cards EXCEPT ![l] = CollapseNative(cards[l])]
    BY <1>4 DEF CardNativeEnd
  <2>2. CollapseNative(cards[l]) \in Panels /\ PanelOK(CollapseNative(cards[l]))
    BY <1>0, <2>1, CollapseNativeKeeps
  <2> QED BY <1>1, <2>1, <2>2
<1>5. CASE Rebuild
  <2>1. Panel \in Panels /\ PanelOK(Panel)
    BY StillSleeps DEF Panel, Panels, PanelOK
  <2>2. cards' = [l \in Luids |-> Panel] BY <1>5 DEF Rebuild
  <2> QED BY <2>1, <2>2
<1>6. CASE \/ \E l \in Luids : Open(l)
           \/ \E x \in Addrs : Edit(x)
           \/ AjaxSubmit \/ Dismiss \/ WebServer
           \/ ElementTimerFires \/ DialogTimerFires \/ VeilTimerFires \/ NativeEnd
           \/ UNCHANGED vars
  <2>1. cards' = cards
    BY <1>6 DEF Open, Edit, AjaxSubmit, Dismiss, WebServer, Serve, Answer, Fail, ElementTimerFires,
         DialogTimerFires, VeilTimerFires, NativeEnd, vars
  <2> QED BY <1>0, <2>1
<1> QED BY <1>2, <1>3, <1>4, <1>5, <1>6 DEF Next, User, Timers, Natives

\* What the saves say of the dialog in the page.
AskedOf(s, d) ==
  /\ s.id <= d.id
  /\ s.id = d.id => s.edits <= d.edits
  /\ s.id = d.id /\ s.edits = d.edits => s.addr = d.form
SavesOK(ss, d) == ss \in Seq(Saves) /\ \A i \in DOMAIN ss : AskedOf(ss[i], d)

\* One more save, and one that gets a step further.
LEMMA SavesGrow ==
  ASSUME NEW ss, NEW d, SavesOK(ss, d), NEW s \in Saves, AskedOf(s, d)
  PROVE  SavesOK(Append(ss, s), d)
<1>1. ss \in Seq(Saves) BY DEF SavesOK
<1>2. /\ Append(ss, s) \in Seq(Saves)
      /\ \A i \in DOMAIN Append(ss, s) : \/ i \in DOMAIN ss /\ Append(ss, s)[i] = ss[i]
                                         \/ Append(ss, s)[i] = s
  BY <1>1, AppendProperties, LenProperties
<1> QED BY <1>2 DEF SavesOK
LEMMA SavesAdvance ==
  ASSUME NEW ss, NEW d, SavesOK(ss, d), NEW i \in DOMAIN ss,
         NEW stage \in {"sent", "stored", "refused", "failed", "answered", "given up"}
  PROVE  SavesOK([ss EXCEPT ![i].stage = stage], d)
<1> DEFINE s == [ss[i] EXCEPT !.stage = stage]
<1>1. /\ ss \in Seq(Saves) /\ DOMAIN ss = 1..Len(ss) /\ ss[i] \in Saves /\ AskedOf(ss[i], d)
  BY LenProperties, ElementOfSeq DEF SavesOK
<1>2. s \in Saves /\ s.id = ss[i].id /\ s.edits = ss[i].edits /\ s.addr = ss[i].addr
  BY <1>1 DEF Saves
<1>3. [ss EXCEPT ![i].stage = stage] = [ss EXCEPT ![i] = s] OBVIOUS
<1> HIDE DEF s
<1>4. AskedOf(s, d) BY <1>1, <1>2 DEF AskedOf
<1>5. [ss EXCEPT ![i] = s] \in Seq(Saves) BY <1>1, <1>2, ExceptSeq
<1>6. \A j \in DOMAIN ss : [ss EXCEPT ![i] = s][j] = IF j = i THEN s ELSE ss[j] OBVIOUS
<1>7. DOMAIN [ss EXCEPT ![i] = s] = DOMAIN ss OBVIOUS
<1> QED BY <1>3, <1>4, <1>5, <1>6, <1>7 DEF SavesOK

\* The saves go on from the dialog that has asked.
LEMMA SavesStep ==
  ASSUME IInv, [Next]_vars
  PROVE  SavesOK(saves', dialog')
<1>0. /\ SavesOK(saves, dialog) /\ dialog \in Dialogs /\ dialog.id \in Nat /\ dialog.edits \in Nat
      /\ \A i \in DOMAIN saves : saves[i] \in Saves /\ saves[i].id \in Nat /\ saves[i].edits \in Nat
  <2>1. saves \in Seq(Saves) /\ dialog \in Dialogs BY DEF IInv, TypeOK
  <2>2. \A i \in DOMAIN saves : saves[i] \in Saves BY <2>1, LenProperties, ElementOfSeq
  <2>3. SavesOK(saves, dialog) BY <2>1 DEF IInv, Asked, SavesOK, AskedOf
  <2> QED BY <2>1, <2>2, <2>3 DEF Dialogs, Saves
<1>1. CASE \E l \in Luids : Open(l)
  <2>1. saves' = saves /\ dialog'.id = dialog.id + 1 BY <1>1 DEF Open
  <2>2. \A i \in DOMAIN saves : AskedOf(saves[i], dialog')
    BY <2>1, <1>0 DEF AskedOf, SavesOK
  <2> QED BY <2>1, <2>2, <1>0 DEF SavesOK
<1>2. CASE \E x \in Addrs : Edit(x)
  <2>1. saves' = saves /\ dialog'.id = dialog.id /\ dialog'.edits = dialog.edits + 1
    BY <1>2, <1>0 DEF Edit, Dialogs
  <2>2. \A i \in DOMAIN saves : AskedOf(saves[i], dialog')
    BY <2>1, <1>0 DEF AskedOf, SavesOK
  <2> QED BY <2>1, <2>2, <1>0 DEF SavesOK
<1>3. CASE AjaxSubmit
  <2> DEFINE s == [id |-> dialog.id, gen |-> dialog.gen, luid |-> dialog.luid,
                   addr |-> dialog.form, edits |-> dialog.edits, stage |-> "sent"]
  <2>1. saves' = Append(saves, s) /\ dialog' = dialog /\ Covered BY <1>3 DEF AjaxSubmit
  <2>2. dialog.luid \in Luids /\ dialog.gen \in 1..MaxLists
    BY <2>1 DEF Covered, Closed, IInv, Asked
  <2>3. s \in Saves BY <1>0, <2>2 DEF Saves, Dialogs
  <2>4. AskedOf(s, dialog) BY <1>0 DEF AskedOf
  <2> HIDE DEF s
  <2> QED BY <1>0, <2>1, <2>3, <2>4, SavesGrow
<1>4. CASE \/ Dismiss \/ ElementTimerFires \/ DialogTimerFires \/ VeilTimerFires \/ NativeEnd
  <2>1. saves' = saves
    BY <1>4 DEF Dismiss, ElementTimerFires, DialogTimerFires, VeilTimerFires, NativeEnd, Rest
  <2>2. PICK n : dialog' = [dialog EXCEPT !.modal = n] BY <1>4, ModalSteps DEF ModalStep
  <2>3. dialog'.id = dialog.id /\ dialog'.edits = dialog.edits /\ dialog'.form = dialog.form
    BY <1>0, <2>2 DEF Dialogs
  <2> QED BY <1>0, <2>1, <2>3 DEF SavesOK, AskedOf
<1>5. CASE \E i \in DOMAIN saves : Answer(i)
  <2>1. PICK i \in DOMAIN saves : saves' = [saves EXCEPT ![i].stage = "answered"]
    BY <1>5 DEF Answer, Stage
  <2>2. PICK n : dialog' = [dialog EXCEPT !.modal = n] BY <1>5, ModalSteps DEF ModalStep
  <2>3. dialog'.id = dialog.id /\ dialog'.edits = dialog.edits /\ dialog'.form = dialog.form
    BY <1>0, <2>2 DEF Dialogs
  <2>4. SavesOK(saves', dialog) BY <1>0, <2>1, SavesAdvance
  <2> QED BY <2>3, <2>4 DEF SavesOK, AskedOf
<1>6. CASE \E i \in DOMAIN saves : Fail(i) \/ \E outcome \in {"stored", "refused", "failed"} : Serve(i, outcome)
  <2>1. PICK i \in DOMAIN saves, stage \in {"stored", "refused", "failed", "given up"} :
          saves' = [saves EXCEPT ![i].stage = stage] /\ dialog' = dialog
    BY <1>6 DEF Fail, Serve, Stage
  <2> QED BY <1>0, <2>1, SavesAdvance
<1>7. CASE \/ \E l \in Luids : ToggleCard(l) \/ CardTimerFires(l) \/ CardNativeEnd(l)
           \/ Rebuild \/ UNCHANGED vars
  <2>1. saves' = saves /\ dialog' = dialog
    BY <1>7 DEF ToggleCard, CardTimerFires, CardNativeEnd, Rebuild, Rest, vars
  <2> QED BY <1>0, <2>1
<1> QED BY <1>1, <1>2, <1>3, <1>4, <1>5, <1>6, <1>7 DEF Next, User, WebServer, Timers, Natives

\* The server, the list and the number of inputs.
LEMMA DataStep ==
  ASSUME IInv, [Next]_vars
  PROVE  server' \in [Luids -> Addrs] /\ list' \in Lists /\ inputs' \in 0..MaxInputs
<1>0. /\ server \in [Luids -> Addrs] /\ list \in Lists /\ inputs \in 0..MaxInputs
      /\ dialog.form \in Addrs /\ MaxInputs \in Nat /\ MaxLists \in Nat
      /\ \A i \in DOMAIN saves : saves[i].luid \in Luids /\ saves[i].addr \in Addrs
  <2>1. saves \in Seq(Saves) /\ dialog \in Dialogs BY DEF IInv, TypeOK
  <2>2. \A i \in DOMAIN saves : saves[i] \in Saves BY <2>1, LenProperties, ElementOfSeq
  <2> QED BY <2>1, <2>2, DialogAssumption DEF IInv, TypeOK, Dialogs, Saves
<1>1. Input => inputs' \in 0..MaxInputs BY <1>0 DEF Input
<1>2. inputs' \in 0..MaxInputs
  BY <1>0, <1>1 DEF Next, User, ToggleCard, Open, Edit, AjaxSubmit, Dismiss, Rebuild, WebServer, Serve,
       Answer, Fail, Timers, ElementTimerFires, DialogTimerFires, VeilTimerFires, CardTimerFires, Natives,
       NativeEnd, CardNativeEnd, Rest, vars
<1>3. CASE Rebuild
  <2>1. /\ list.gen < MaxLists /\ list.gen \in 1..MaxLists
        /\ list' = [gen |-> list.gen + 1, data |-> server] /\ server' = server
    BY <1>0, <1>3 DEF Rebuild, Lists
  <2>2. list.gen + 1 \in 1..MaxLists BY <2>1, <1>0
  <2> QED BY <1>0, <1>2, <2>1, <2>2 DEF Lists
<1>4. CASE \E i \in DOMAIN saves : Answer(i)
  <2>1. PICK i \in DOMAIN saves : list' = SyncToData(i) /\ server' = server BY <1>4 DEF Answer
  <2>2. SyncToData(i) \in Lists BY <1>0 DEF SyncToData, Lists
  <2> QED BY <1>0, <1>2, <2>1, <2>2
<1>5. CASE \E i \in DOMAIN saves, outcome \in {"stored", "refused", "failed"} : Serve(i, outcome)
  <2>1. PICK i \in DOMAIN saves :
          /\ list' = list
          /\ server' = [server EXCEPT ![saves[i].luid] = saves[i].addr] \/ server' = server
    BY <1>5 DEF Serve
  <2> QED BY <1>0, <1>2, <2>1
<1>6. CASE \/ \E l \in Luids : ToggleCard(l) \/ Open(l) \/ CardTimerFires(l) \/ CardNativeEnd(l)
           \/ \E x \in Addrs : Edit(x)
           \/ AjaxSubmit \/ Dismiss
           \/ \E i \in DOMAIN saves : Fail(i)
           \/ ElementTimerFires \/ DialogTimerFires \/ VeilTimerFires \/ NativeEnd
           \/ UNCHANGED vars
  <2>1. list' = list /\ server' = server
    BY <1>6 DEF ToggleCard, Open, CardTimerFires, CardNativeEnd, Edit, AjaxSubmit, Dismiss, Fail,
         ElementTimerFires, DialogTimerFires, VeilTimerFires, NativeEnd, Rest, vars
  <2> QED BY <1>0, <1>2, <2>1
<1> QED BY <1>3, <1>4, <1>5, <1>6 DEF Next, User, WebServer, Timers, Natives

-----------------------------------------------------------------------------
(* The theorems.                                                            *)

\* The first state.
LEMMA Start == Init => IInv
<1> SUFFICES ASSUME Init PROVE IInv
  OBVIOUS
<1>1. PICK x \in Addrs :
        /\ server = [l \in Luids |-> x]
        /\ list = [gen |-> 1, data |-> server]
        /\ dialog = [id |-> 0, gen |-> 0, luid |-> "none", form |-> x, edits |-> 0, modal |-> Modal(FALSE)]
  BY DEF Init
<1>2. animated \in BOOLEAN /\ cards = [l \in Luids |-> Panel] /\ saves = <<>> /\ inputs = 0
  BY DEF Init
<1>3. /\ Modal(FALSE) \in Modals /\ Closed(Modal(FALSE))
      /\ Timed(Modal(FALSE).element) /\ Timed(Modal(FALSE).veil)
  BY StillSleeps DEF Modal, Modals, Closed
<1>4. Panel \in Panels /\ PanelOK(Panel)
  BY StillSleeps DEF Panel, Panels, PanelOK
<1>5. dialog \in Dialogs
  <2> DEFINE m == Modal(FALSE)
  <2>1. m \in Modals BY <1>3
  <2>2. dialog = [id |-> 0, gen |-> 0, luid |-> "none", form |-> x, edits |-> 0, modal |-> m] BY <1>1
  <2>3. 0 \in 0..MaxLists /\ 0 \in Nat BY DialogAssumption
  <2> HIDE DEF m
  <2> QED BY <2>1, <2>2, <2>3 DEF Dialogs
<1>6. list \in Lists BY <1>1, DialogAssumption DEF Lists
<1>7. saves \in Seq(Saves) /\ DOMAIN saves = {} BY <1>2, EmptySeq
<1>8. TypeOK BY <1>1, <1>2, <1>4, <1>5, <1>6, <1>7, DialogAssumption DEF TypeOK
<1>9. Asked BY <1>1, <1>3, <1>7 DEF Asked
<1> QED BY <1>1, <1>2, <1>3, <1>4, <1>8, <1>9 DEF IInv, Phases

\* The invariant is inductive.
LEMMA Step ==
  ASSUME IInv, [Next]_vars
  PROVE  IInv'
<1>1. animated' = animated /\ animated \in BOOLEAN /\ DialogOK(dialog', animated)
  BY DialogStep DEF IInv, TypeOK
<1>2. SavesOK(saves', dialog') BY SavesStep
<1>3. TypeOK'
  BY <1>1, <1>2, CardsStep, DataStep DEF TypeOK, DialogOK, SavesOK
<1>4. Asked' BY <1>1, <1>2 DEF Asked, DialogOK, SavesOK, AskedOf
<1> QED BY <1>1, <1>3, <1>4, CardsStep DEF IInv, DialogOK, ModalOK

\* It holds in every state of a behaviour.
LEMMA Invariance == Spec => []IInv
<1> QED BY Start, Step, PTL DEF Spec

(* The types: in particular a request is posted only for a module of the    *)
(* list, never from the element that was there before the first dialog.     *)
THEOREM Types == Spec => []TypeOK
<1>1. IInv => TypeOK BY DEF IInv
<1> QED BY <1>1, Invariance, PTL

(* A dialog whose timers have run covers the page, has its backdrop and     *)
(* keeps the page from scrolling exactly when it is shown, in whatever      *)
(* phase it was hidden or replaced.                                         *)
THEOREM ModalSettles == Spec => []SettledModal
<1>1. IInv => SettledModal
  <2> SUFFICES ASSUME IInv, ~TimerDue(dialog.modal.element), ~TimerDue(dialog.modal.veil)
               PROVE  LET m == dialog.modal IN
                      /\ m.bodyOpen = m.isShown /\ m.display = m.isShown
                      /\ m.backdrop = IF m.isShown THEN "in" ELSE "none"
    BY DEF SettledModal
  <2> DEFINE m == dialog.modal
  <2>1. m \in Modals /\ Phases(m, animated) /\ Timed(m.element) /\ Timed(m.veil)
    BY DEF IInv, TypeOK, Dialogs
  <2>2. \A t \in Awaited : ~TimerDue(t) /\ Timed(t) => t.waits = {} BY DEF TimerDue, Timed
  <2>3. m.element.waits = {} /\ m.veil.waits = {} BY <2>1, <2>2 DEF Modals
  <2>4. Closed(m) \/ Standing(m)
    BY <2>1, <2>3 DEF Phases, FadingIn, HiddenEarly, Leaving, FadingOut
  <2>5. m.isShown \in BOOLEAN /\ m.display \in BOOLEAN /\ m.bodyOpen \in BOOLEAN BY <2>1 DEF Modals
  <2> QED BY <2>4, <2>5 DEF Closed, Standing
<1> QED BY <1>1, Invariance, PTL

(* Who waits for the end of a transition has a timer of its own; a panel    *)
(* refuses to be toggled exactly while it waits, and its trigger says open  *)
(* exactly when it is open or opening.                                      *)
THEOREM EndsAreTimed == Spec => []AwaitedHasTimer
<1>1. IInv => AwaitedHasTimer BY DEF IInv, PanelOK, Timed, AwaitedHasTimer
<1> QED BY <1>1, Invariance, PTL

\* A step that changes the data of a module in the list that is there.
LEMMA SyncStep ==
  ASSUME IInv, [Next]_vars, NEW l \in Luids, list'.data[l] # list.data[l], list'.gen = list.gen
  PROVE  \E i \in DOMAIN saves :
            /\ saves[i].stage # saves'[i].stage /\ saves[i].luid = l
            /\ \/ list'.data[l] = saves[i].addr
               \/ <<saves[i].id, saves[i].edits>> # <<dialog.id, dialog.edits>>
<1>1. list \in Lists BY DEF IInv, TypeOK
<1>2. CASE \E i \in DOMAIN saves : Answer(i)
  <2>1. PICK i \in DOMAIN saves : Answer(i) BY <1>2
  <2>2. list' = SyncToData(i) BY <2>1 DEF Answer
  <2>3. saves[i].luid = l /\ list'.data[l] = dialog.form
    BY <1>1, <2>2 DEF SyncToData, Lists
  <2>4. saves[i].stage \in {"stored", "refused"} /\ saves'[i].stage = "answered"
    <3>1. saves[i] \in Saves BY LenProperties, ElementOfSeq DEF IInv, TypeOK
    <3> QED BY <2>1, <3>1 DEF Answer, Stage, Saves
  <2>5. saves[i].id = dialog.id /\ saves[i].edits = dialog.edits => saves[i].addr = dialog.form
    BY DEF IInv, Asked
  <2> QED BY <2>3, <2>4, <2>5
<1>3. CASE Rebuild
  BY <1>1, <1>3 DEF Rebuild, Lists
<1>4. ASSUME ~Rebuild, ~\E i \in DOMAIN saves : Answer(i)
      PROVE  list' = list
  BY <1>4 DEF Next, User, ToggleCard, Open, Edit, AjaxSubmit, Dismiss, WebServer, Serve, Fail, Timers,
       ElementTimerFires, DialogTimerFires, VeilTimerFires, CardTimerFires, Natives, NativeEnd,
       CardNativeEnd, Rest, vars
<1> QED BY <1>2, <1>3, <1>4

(* The data of a module changes to what was saved, whatever requests and    *)
(* dialogs overtake each other, unless the form was changed or replaced.    *)
THEOREM SyncTakesTheSave == Spec => SyncIsOfTheSave
<1>1. IInv /\ [Next]_vars =>
        [\A l \in Luids : list'.data[l] # list.data[l] /\ list'.gen = list.gen =>
           \E i \in DOMAIN saves :
              /\ saves[i].stage # saves'[i].stage /\ saves[i].luid = l
              /\ \/ list'.data[l] = saves[i].addr
                 \/ <<saves[i].id, saves[i].edits>> # <<dialog.id, dialog.edits>>]_vars
  BY SyncStep
<1> QED BY <1>1, Invariance, PTL DEF Spec, SyncIsOfTheSave
=============================================================================
