---------------------------- MODULE ModuleDialog ----------------------------
(***************************************************************************)
(* The module page of the web console once its list is there: the cards of *)
(* the modules (module-list.js), the dialog in .bs-dialog that sets a      *)
(* module's virtual addresses (module-page.js, bs-dialog.js,               *)
(* virtual-addr-setting.js) and the requests that save them.               *)
(*                                                                         *)
(* .bs-dialog holds one dialog: opening another replaces its elements, and *)
(* with them the handlers and the plugin of the one before, while that     *)
(* one's requests and timers are still under way.  The answer of a save    *)
(* works on whatever dialog is in .bs-dialog by then.                      *)
(***************************************************************************)
EXTENDS Bootstrap

CONSTANTS
  Luids,      \* the modules
  Addrs,      \* what a form may hold: virtual addresses
  MaxInputs,  \* bound: what the user does
  MaxLists    \* bound: how often the list is built

ASSUME DialogAssumption == /\ Luids # {} /\ Addrs # {} /\ "none" \notin Luids
                           /\ MaxInputs \in Nat /\ MaxLists \in Nat \ {0}

VARIABLES
  animated,  \* $.support.transition
  server,    \* the virtual address of each module at the server
  list,      \* the list's data, and which list it is
  cards,     \* the panel of each module
  dialog,    \* what .bs-dialog holds
  saves,     \* the requests made, in order
  inputs     \* the user's actions so far

vars == <<animated, server, list, cards, dialog, saves, inputs>>

Lists == [gen : 1..MaxLists, data : [Luids -> Addrs]]

(* id numbers the dialogs, gen is the list it was opened from, edits counts *)
(* the changes of its form.                                                 *)
Dialogs == [id : Nat, gen : 0..MaxLists, luid : Luids \cup {"none"}, form : Addrs,
            edits : Nat, modal : Modals]

(* refused: answered with a status that says so; failed: no answer comes,   *)
(* and the console gives it up.                                             *)
Saves == [id : Nat, gen : 1..MaxLists, luid : Luids, addr : Addrs, edits : Nat,
          stage : {"sent", "stored", "refused", "failed", "answered", "given up"}]

TypeOK ==
  /\ animated \in BOOLEAN
  /\ server \in [Luids -> Addrs]
  /\ list \in Lists
  /\ cards \in [Luids -> Panels]
  /\ dialog \in Dialogs
  /\ saves \in Seq(Saves)
  /\ inputs \in 0..MaxInputs

Init ==
  /\ animated \in BOOLEAN
  /\ \E x \in Addrs :
       /\ server = [l \in Luids |-> x]
       /\ list = [gen |-> 1, data |-> server]
       /\ dialog = [id |-> 0, gen |-> 0, luid |-> "none", form |-> x, edits |-> 0, modal |-> Modal(FALSE)]
  /\ cards = [l \in Luids |-> Panel]
  /\ saves = <<>>
  /\ inputs = 0

-----------------------------------------------------------------------------
(* The user.  A displayed dialog covers the page.                           *)

Input == inputs < MaxInputs /\ inputs' = inputs + 1
Covered == dialog.modal.display

ToggleCard(l) ==
  /\ Input
  /\ ~Covered
  /\ cards' = [cards EXCEPT ![l] = CollapseToggle(@, animated)]
  /\ UNCHANGED <<animated, server, list, dialog, saves>>

(* The button of the open card: BsDialog, VirtualAddrSetting, modal("show"). *)
Open(l) ==
  /\ Input
  /\ ~Covered /\ cards[l].in
  /\ dialog' = [id |-> dialog.id + 1, gen |-> list.gen, luid |-> l, form |-> list.data[l],
                edits |-> 0, modal |-> Show(Modal(dialog.modal.bodyOpen), animated)]
  /\ UNCHANGED <<animated, server, list, cards, saves>>

Edit(x) ==
  /\ Input
  /\ Covered /\ dialog.form # x
  /\ dialog' = [dialog EXCEPT !.form = x, !.edits = @ + 1]
  /\ UNCHANGED <<animated, server, list, cards, saves>>

(* The OK button: the form is posted, the dialog stays.                     *)
AjaxSubmit ==
  /\ Input
  /\ Covered
  /\ saves' = Append(saves, [id |-> dialog.id, gen |-> dialog.gen, luid |-> dialog.luid,
                             addr |-> dialog.form, edits |-> dialog.edits, stage |-> "sent"])
  /\ UNCHANGED <<animated, server, list, cards, dialog>>

(* The other buttons of the dialog, or Esc.                                 *)
Dismiss ==
  /\ Input
  /\ Covered /\ dialog.modal.isShown
  /\ dialog' = [dialog EXCEPT !.modal = Hide(@, animated)]
  /\ UNCHANGED <<animated, server, list, cards, saves>>

(* The router builds the page again, and the list comes; .bs-dialog is not  *)
(* part of the page.                                                        *)
Rebuild ==
  /\ Input
  /\ list.gen < MaxLists
  /\ list' = [gen |-> list.gen + 1, data |-> server]
  /\ cards' = [l \in Luids |-> Panel]
  /\ UNCHANGED <<animated, server, dialog, saves>>

-----------------------------------------------------------------------------
(* The web server, and its answers in any order.                            *)

Stage(i, s) == saves' = [saves EXCEPT ![i].stage = s]

Serve(i, outcome) ==
  /\ saves[i].stage = "sent"
  /\ Stage(i, outcome)
  /\ \/ outcome # "refused" /\ server' = [server EXCEPT ![saves[i].luid] = saves[i].addr]
     \/ outcome # "stored" /\ UNCHANGED server
  /\ UNCHANGED <<animated, list, cards, dialog, inputs>>

(* Mutant: the module is not looked for by its luid: the first one is taken. *)
SyncToFirst(i) ==
  IF saves[i].gen = list.gen THEN [list EXCEPT !.data[CHOOSE l \in Luids : TRUE] = dialog.form] ELSE list

(* syncToData: from the form in the page to the data of the dialog that     *)
(* asked, unless that data is of a list that is gone.                       *)
SyncToData(i) ==
  IF saves[i].gen = list.gen THEN [list EXCEPT !.data[saves[i].luid] = dialog.form] ELSE list

(* done: whatever the status says.  The dialog in the page is hidden;       *)
(* refreshUI throws before it changes the table.                            *)
Answer(i) ==
  /\ saves[i].stage \in {"stored", "refused"}
  /\ Stage(i, "answered")
  /\ dialog' = [dialog EXCEPT !.modal = Hide(@, animated)]
  /\ list' = SyncToData(i)
  /\ UNCHANGED <<animated, server, cards, inputs>>

(* fail: errormsg finds no .error_msg, which the form has replaced.         *)
Fail(i) ==
  /\ saves[i].stage = "failed"
  /\ Stage(i, "given up")
  /\ UNCHANGED <<animated, server, list, cards, dialog, inputs>>

-----------------------------------------------------------------------------
(* Transitions end.                                                         *)

Becomes(m) == dialog' = [dialog EXCEPT !.modal = m]
Rest == UNCHANGED <<animated, server, list, saves, inputs>>

ElementTimerFires ==
  /\ ElementTimerDue(dialog.modal)
  /\ Becomes(ElementTimer(dialog.modal))
  /\ UNCHANGED cards /\ Rest

DialogTimerFires ==
  /\ TimerDue(dialog.modal.dialog)
  /\ Becomes(DialogTimer(dialog.modal))
  /\ UNCHANGED cards /\ Rest

VeilTimerFires ==
  /\ TimerDue(dialog.modal.veil)
  /\ Becomes(VeilTimer(dialog.modal))
  /\ UNCHANGED cards /\ Rest

NativeEnd ==
  /\ \/ /\ NativeDue(dialog.modal.element)
        /\ Becomes(ElementEnds([dialog.modal EXCEPT !.element = NativeRan(@)]))
     \/ /\ NativeDue(dialog.modal.dialog)
        /\ Becomes(DialogEnds([dialog.modal EXCEPT !.dialog = NativeRan(@)]))
  /\ UNCHANGED cards /\ Rest

CardTimerFires(l) ==
  /\ TimerDue(cards[l].fx)
  /\ cards' = [cards EXCEPT ![l] = CollapseTimer(@)]
  /\ UNCHANGED dialog /\ Rest

CardNativeEnd(l) ==
  /\ NativeDue(cards[l].fx)
  /\ cards' = [cards EXCEPT ![l] = CollapseNative(@)]
  /\ UNCHANGED dialog /\ Rest

-----------------------------------------------------------------------------
User == \/ \E l \in Luids : ToggleCard(l) \/ Open(l)
        \/ \E x \in Addrs : Edit(x)
        \/ AjaxSubmit \/ Dismiss \/ Rebuild
WebServer == \E i \in DOMAIN saves :
               \/ \E outcome \in {"stored", "refused", "failed"} : Serve(i, outcome)
               \/ Answer(i) \/ Fail(i)
Timers == \/ ElementTimerFires \/ DialogTimerFires \/ VeilTimerFires
          \/ \E l \in Luids : CardTimerFires(l)
Natives == NativeEnd \/ \E l \in Luids : CardNativeEnd(l)

Next == User \/ WebServer \/ Timers \/ Natives

Spec == Init /\ [][Next]_vars
(* Timers fire; the browser's own events need not come.                     *)
FairSpec == Spec /\ WF_vars(ElementTimerFires) /\ WF_vars(VeilTimerFires)
                 /\ \A l \in Luids : WF_vars(CardTimerFires(l))

-----------------------------------------------------------------------------
(* Properties.                                                              *)

(* Once its timers have run, a dialog covers the page, has its backdrop and *)
(* keeps the page from scrolling exactly when it is shown, in whatever      *)
(* phase it was hidden by the answer of an earlier save, dismissed or       *)
(* replaced (show, hide, hideModal, backdrop).                              *)
SettledModal ==
  LET m == dialog.modal IN
  (\A t \in {m.element, m.dialog, m.veil} : ~TimerDue(t)) =>
     /\ m.bodyOpen = m.isShown
     /\ m.display = m.isShown
     /\ m.backdrop = IF m.isShown THEN "in" ELSE "none"

(* Who waits for the end of a transition has a timer of its own that no     *)
(* other end event has switched off (emulateTransitionEnd).  A panel waits  *)
(* exactly while it refuses to be toggled, and its trigger says open        *)
(* exactly when it is open or opening.                                      *)
AwaitedHasTimer ==
  /\ \A t \in {dialog.modal.element, dialog.modal.veil} \cup {cards[l].fx : l \in Luids} :
       t.waits # {} => \E i \in DOMAIN t.timers : ~t.timers[i]
  /\ \A l \in Luids :
       /\ cards[l].transitioning <=> cards[l].fx.waits # {}
       /\ cards[l].marked <=> cards[l].in \/ "show" \in cards[l].fx.waits

(* The data of a module changes by a new list or by the answer of a save of *)
(* that module, and then to what was saved, unless the form in the page is  *)
(* by then another dialog's or was changed meanwhile (module-page.js:50-56  *)
(* and syncToData).                                                         *)
SyncIsOfTheSave ==
  [][\A l \in Luids : list'.data[l] # list.data[l] /\ list'.gen = list.gen =>
       \E i \in DOMAIN saves :
          /\ saves[i].stage # saves'[i].stage /\ saves[i].luid = l
          /\ \/ list'.data[l] = saves[i].addr
             \/ <<saves[i].id, saves[i].edits>> # <<dialog.id, dialog.edits>>]_vars

(* What begins a transition ends it, although the browser's own events need *)
(* not come: a hidden dialog leaves the page, which scrolls again, and a    *)
(* panel can be toggled again (emulateTransitionEnd, removeBackdrop).       *)
TransitionsEnd ==
  /\ ~dialog.modal.isShown ~> (dialog.modal.isShown \/ (~Covered /\ ~dialog.modal.bodyOpen))
  /\ \A l \in Luids : cards[l].transitioning ~> ~cards[l].transitioning
=============================================================================
