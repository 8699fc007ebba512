----------------------------- MODULE WebConsole -----------------------------
(***************************************************************************)
(* The web console in one browser tab: the router of html/index.js, which  *)
(* builds a page for the state the tab shows, the three pages, their       *)
(* requests to the web server and the buttons that navigate, on top of     *)
(* History.js.  Every action is one task of the browser.                   *)
(***************************************************************************)
EXTENDS HistoryJs

CONSTANTS
  Apis,       \* the kinds of browser: a subset of {"html5", "html4", "poll"}
  Starts,     \* the addresses the tab may be opened at: a path, and a fragment or None
  MaxInputs   \* bound: what the user does with the tab, by kind of browser

(* No saved address is one that was read with its fragment; a LUID is a     *)
(* number and no word.                                                      *)
ASSUME ConsoleAssumption ==
  /\ Apis \subseteq {"html5", "html4", "poll"}
  /\ Starts \subseteq [url : Urls \ {"hashed"}, hash : (States \ {Bare("hashed")}) \cup {None}]
  /\ MaxInputs \in [Apis -> Nat]
  /\ Luids \cap {"modules", "logon", "empty", "failed"} = {}

VARIABLES
  hist,      \* History.js and the tab
  ui,        \* what .lcxlpage holds, and the handlers bound to it
  requests,  \* requests on their way, by kind
  cookies,   \* which cookies are set
  inputs     \* the user's actions so far

vars == <<hist, ui, requests, cookies, inputs>>

Requests == {"modules", "logon"} \cup Luids
NoRequests == [r \in Requests |-> 0]
Underway == {r \in Requests : requests[r] > 0}

(* kind, luid: the page.  list: what its list shows.  lists: the click      *)
(* handlers on .module-list, TRUE for one of a list that has data.  backs:  *)
(* the handlers of the Back button on .lcxlpage, which outlives its pages.  *)
(* late: the requests that were under way when the page was built.          *)
Pages == {"none", "logon", "module", "server"}
Lists == {"empty", "failed", "modules"} \cup Luids
Ui == [kind : Pages, luid : Luids \cup {None}, list : Lists, lists : Seq(BOOLEAN),
       backs : Nat, late : SUBSET Requests]
Blank == [kind |-> "none", luid |-> None, list |-> "empty", lists |-> <<>>, backs |-> 0, late |-> {}]

TypeOK ==
  /\ hist \in History
  /\ ui \in Ui
  /\ requests \in [Requests -> Nat]
  /\ cookies \in [info : BOOLEAN, logon : BOOLEAN, islogon : BOOLEAN]
  /\ inputs \in 0..MaxInputs[hist.api]

-----------------------------------------------------------------------------
(* The router.                                                              *)

LoggedOn == cookies.info /\ cookies.logon

(* What it asks of History.js; nothing when it builds a page.               *)
RouteCalls(s) ==
  CASE ~LoggedOn /\ s.url # "logon"                    -> <<Call("push", Titled("logon"))>>
    [] LoggedOn /\ s.url = "server" /\ s.luid = None   -> <<Call("back", None)>>
    [] LoggedOn /\ s.url \notin {"index", "server"}    -> <<Call("replace", Titled("index"))>>
    [] OTHER                                           -> <<>>

LogonPage(u, underway) == [Blank EXCEPT !.kind = "logon", !.backs = u.backs, !.late = underway]
ModulePage(u, underway) == [Blank EXCEPT !.kind = "module", !.backs = u.backs, !.late = underway]
ServerPage(u, s, underway) ==
  [Blank EXCEPT !.kind = "server", !.luid = s.luid, !.backs = u.backs + 1, !.late = underway]

(* Mutant: the module page asks twice for its list.                         *)
SentTwice(reqs, s) ==
  CASE s.url = "logon"  -> reqs
    [] s.url = "index"  -> [reqs EXCEPT !["modules"] = @ + 2]
    [] s.url = "server" -> [reqs EXCEPT ![s.luid] = @ + 1]

(* The page for state s, built over u, and the request it sends.            *)
Page(u, s, underway) ==
  CASE s.url = "logon"  -> LogonPage(u, underway)
    [] s.url = "index"  -> ModulePage(u, underway)
    [] s.url = "server" -> ServerPage(u, s, underway)
Sent(reqs, s) ==
  CASE s.url = "logon"  -> reqs
    [] s.url = "index"  -> [reqs EXCEPT !["modules"] = @ + 1]
    [] s.url = "server" -> [reqs EXCEPT ![s.luid] = @ + 1]

(* A popstate of the browser itself, handled from h to g.  The router's     *)
(* call finds the flag as the handler did: when clear, the call is made at  *)
(* once, inside the handler, ahead of those queued, and busy(false) follows *)
(* it, over the step that History.back has just asked for too.  (With a     *)
(* fragment replaceState has set the flag.)                                 *)
Routed(h, g) ==
  LET calls == RouteCalls(GetState(g))
      atOnce == h.api = "html5" /\ ~h.busy /\ Hash(h) = None /\ g.fired
  IN IF atOnce /\ calls # <<>> THEN Busy(Perform([g EXCEPT !.fired = FALSE], calls[1]), FALSE) ELSE g

(* An operation of History.js has ended in h; the listener ran in it if it  *)
(* triggered the event.  The flag was set, or the router called nothing.    *)
Listened(h, u, reqs) ==
  LET s == GetState(h)
      builds == h.fired /\ RouteCalls(s) = <<>>
  IN [hist |-> IF h.fired THEN [h EXCEPT !.fired = FALSE, !.queue = @ \o RouteCalls(s)] ELSE h,
      ui |-> IF builds THEN Page(u, s, {r \in Requests : reqs[r] > 0}) ELSE u,
      requests |-> IF builds THEN Sent(reqs, s) ELSE reqs]

(* index.js on a loaded document: it triggers the event itself, when the    *)
(* library is not busy.                                                     *)
Started(h) ==
  LET loaded == Loaded(h)
      calls == RouteCalls(GetState(loaded))
      first == IF calls = <<>> THEN [loaded EXCEPT !.fired = TRUE] ELSE Ask(loaded, calls[1])
  IN Listened(first, Blank, NoRequests)

(* The quantifiers name a value, for TLC to compute it once.                *)
Become(t) == \E tab \in {t} : hist' = tab.hist /\ ui' = tab.ui /\ requests' = tab.requests
Deliver(g) == \E h \in {g} : Become(Listened(h, ui, requests))
Start(g) == \E h \in {g} : Become(Started(h))

Init ==
  /\ cookies \in {[info |-> i, logon |-> l, islogon |-> FALSE] : i \in BOOLEAN, l \in BOOLEAN}
  /\ inputs = 0
  /\ \E api \in Apis, storage \in BOOLEAN, at \in Starts :
       LET tab == Started(Opened(api, storage, at.url, at.hash))
       IN hist = tab.hist /\ ui = tab.ui /\ requests = tab.requests

-----------------------------------------------------------------------------
(* The browser and the timers.                                              *)

TimerFires ==
  /\ hist.armed
  /\ Deliver(FireNext(hist))
  /\ UNCHANGED <<cookies, inputs>>

(* A step of the session history the script asked for is made.              *)
Travel ==
  /\ hist.going # <<>>
  /\ LET d == Head(hist.going)
         h == [hist EXCEPT !.going = Tail(@)]
     IN IF ~CanTraverse(h, d) THEN hist' = [h EXCEPT !.lost = h.busy] /\ UNCHANGED <<ui, requests>>
        ELSE IF SameDocument(h, d) THEN Deliver(Routed(Moved(h, d), Traverse(h, d)))
        ELSE Start(Moved(h, d))
  /\ UNCHANGED <<cookies, inputs>>

HashChange ==
  /\ hist.hashTasks > 0
  /\ Deliver(OnHashChange([hist EXCEPT !.hashTasks = @ - 1]))
  /\ UNCHANGED <<cookies, inputs>>

HashPoll ==
  /\ PollDue(hist)
  /\ Deliver(Poll(hist))
  /\ UNCHANGED <<cookies, inputs>>

-----------------------------------------------------------------------------
(* The answers of the web server, in any order.  They go to whatever page   *)
(* the tab shows by then.                                                   *)

Answered(r) == requests[r] > 0 /\ requests' = [requests EXCEPT ![r] = @ - 1]

ModuleListAnswer(ok) ==
  /\ Answered("modules")
  /\ ui' = IF ui.kind = "module"
           THEN [ui EXCEPT !.list = IF ok THEN "modules" ELSE "failed", !.lists = Append(@, ok)]
           ELSE ui
  /\ UNCHANGED <<hist, cookies, inputs>>

ServerListAnswer(l, ok) ==
  /\ Answered(l)
  /\ ui' = IF ui.kind = "server" THEN [ui EXCEPT !.list = IF ok THEN l ELSE "failed"] ELSE ui
  /\ UNCHANGED <<hist, cookies, inputs>>

(* The fields are read when the answer comes: without the form, only        *)
(* islogon is written.                                                      *)
LogonAnswer(ok) ==
  /\ Answered("logon")
  /\ IF ok
     THEN /\ cookies' = [cookies EXCEPT !.info = @ \/ ui.kind = "logon", !.islogon = TRUE]
          /\ hist' = Ask(hist, Call("back", None))
     ELSE UNCHANGED <<cookies, hist>>
  /\ UNCHANGED <<ui, inputs>>

-----------------------------------------------------------------------------
(* The user.                                                                *)

Input == inputs < MaxInputs[hist.api] /\ inputs' = inputs + 1

BrowserBack(d) ==
  /\ Input
  /\ CanTraverse(hist, d)
  /\ IF SameDocument(hist, d) THEN Deliver(Routed(Moved(hist, d), Traverse(hist, d)))
     ELSE Start(Moved(hist, d))
  /\ UNCHANGED cookies

Reload ==
  /\ Input
  /\ Start(hist)
  /\ UNCHANGED cookies

(* The navigation bar: index.html loads a document.                         *)
ClickHome ==
  /\ Input
  /\ Start(NewEntry(hist, [url |-> "home", sid |-> None, hash |-> None,
                           doc |-> 1 + Len(hist.entries) + Here(hist).doc, live |-> FALSE]))
  /\ UNCHANGED cookies

(* The navigation bar: a link to "#" only changes the address.              *)
ClickBrand ==
  /\ Input
  /\ LET h == NewEntry(hist, [Here(hist) EXCEPT !.sid = None, !.hash = None, !.live = FALSE]) IN
     IF hist.api = "html5" THEN Deliver(Routed(h, OnPopState(h, None)))
     ELSE /\ Hash(hist) # None
          /\ hist' = [h EXCEPT !.hashTasks = @ + IF hist.api = "html4" THEN 1 ELSE 0]
          /\ UNCHANGED <<ui, requests>>
  /\ UNCHANGED cookies

(* A handler of a list without data throws, and those after it do not run.  *)
Handlers == CHOOSE n \in 0..Len(ui.lists) :
              /\ \A i \in 1..n : ui.lists[i]
              /\ n < Len(ui.lists) => ~ui.lists[n + 1]

Again(h, c, n) ==
  LET after[i \in 0..n] == IF i = 0 THEN h ELSE Ask(after[i - 1], c) IN after[n]

ClickServers(l) ==
  /\ Input
  /\ ui.kind = "module" /\ ui.list = "modules"
  /\ Deliver(Again(hist, Call("push", ServerOf(l)), Handlers))
  /\ UNCHANGED cookies

ClickBack ==
  /\ Input
  /\ ui.kind = "server"
  /\ Deliver(Again(hist, Call("back", None), ui.backs))
  /\ UNCHANGED cookies

ClickLogon ==
  /\ Input
  /\ ui.kind = "logon"
  /\ requests' = [requests EXCEPT !["logon"] = @ + 1]
  /\ UNCHANGED <<hist, ui, cookies>>

-----------------------------------------------------------------------------
Browser == TimerFires \/ Travel \/ HashChange \/ HashPoll
Answer == \E ok \in BOOLEAN : \/ ModuleListAnswer(ok) \/ LogonAnswer(ok)
                              \/ \E l \in Luids : ServerListAnswer(l, ok)
User == \/ \E d \in {-1, 1} : BrowserBack(d)
        \/ Reload \/ ClickHome \/ ClickBrand
        \/ \E l \in Luids : ClickServers(l)
        \/ ClickBack \/ ClickLogon

Next == Browser \/ Answer \/ User

Spec == Init /\ [][Next]_vars
(* The event loop runs what the browser has to run.                         *)
FairSpec == Spec /\ WF_vars(TimerFires) /\ WF_vars(Travel)
                 /\ WF_vars(HashChange) /\ WF_vars(HashPoll)

-----------------------------------------------------------------------------
(* Properties.                                                              *)

Moving == hist.going # <<>> \/ hist.hashTasks > 0 \/ PollDue(hist)

(* The library is busy between two tasks only while the browser owes it an  *)
(* event, or because the step it asked for led out of the tab's history     *)
(* (History.back on the first entry, index.js and logon-page.js): every     *)
(* handler gives the flag back, in whatever order steps, inputs and the     *)
(* router's calls inside a handler come.  (The converse does not hold: a    *)
(* step that the router asked for on the browser's own popstate is under    *)
(* way with the flag clear.)  Not so with the poll: a step between two      *)
(* polls that comes back to the polled fragment is never noticed.           *)
BusyIsOwedAnEvent == hist.api # "poll" /\ hist.busy => Moving \/ hist.lost

(* Once nothing moves, the page on screen is the one the router builds for  *)
(* the state that History.js shows, and its module is that state's module:  *)
(* no change of the state escapes the router, whatever queued, late or      *)
(* doubled navigation there was.  (For the servers of no module, index.js:  *)
(* 41-46, the router only goes back, which may lead nowhere.)               *)
PageAt(url) == CASE url = "index" -> "module" [] url = "server" -> "server" [] url = "logon" -> "logon" [] OTHER -> "none"
Shows(url, luid) == ui.kind = PageAt(url) /\ (ui.kind = "server" => ui.luid = luid)
Quiet == ~hist.busy /\ ~hist.armed /\ ~Moving
PageOfState == Quiet /\ hist.saved # Bare("server") => Shows(hist.saved.url, hist.saved.luid)

(* With the native API, once nothing moves, the state shown is the one kept *)
(* in the entry the tab stands on and the page is the one the address bar   *)
(* names.                                                                   *)
AddressIsState ==
  Quiet /\ hist.api = "html5" /\ hist.saved # Bare("server") =>
     /\ ui.kind = PageAt(Here(hist).url)
     /\ Here(hist).live /\ Here(hist).sid # None => Here(hist).sid = hist.saved

(* A list is shown under a page that did not ask for it only when the       *)
(* answer belongs to a request that was already under way when the page was *)
(* built (the answers go to whatever page is there, server-page.js and      *)
(* module-page.js).  The same goes for a list of modules whose buttons are  *)
(* dead.                                                                    *)
LateAnswersOnly ==
  /\ ui.kind = "server" /\ ui.list \in Luids => ui.list = ui.luid \/ ui.list \in ui.late
  /\ ui.list = "modules" /\ Handlers = 0 => "modules" \in ui.late

(* The library does not stay busy and the calls that wait are made: busy    *)
(* arms fireNext again each time the flag is cleared, in every path that    *)
(* returns early too, unless a step led out of the tab's history or the     *)
(* poll missed one.                                                         *)
Stuck == hist.lost \/ hist.api = "poll"
NavigationProceeds ==
  /\ hist.busy ~> (~hist.busy \/ Stuck)
  /\ (hist.queue # <<>>) ~> (hist.queue = <<>> \/ Stuck)
=============================================================================
