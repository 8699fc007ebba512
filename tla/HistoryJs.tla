----------------------------- MODULE HistoryJs ------------------------------
(***************************************************************************)
(* History.js, the library the web console navigates with                  *)
(* (sea-modules/history/jquery.history.js), over one browser tab: the      *)
(* native history API ("html5"), its emulation by the fragment of the      *)
(* address with the browser's hashchange event ("html4") and with a timer  *)
(* that polls the fragment ("poll").                                       *)
(*                                                                         *)
(* JavaScript runs one task at a time, and an operation of the library     *)
(* calls back synchronously, so an operation is an operator from the       *)
(* library's state h to its state afterwards, and a task of the browser is *)
(* one step of the module that uses them.  At most one statechange event   *)
(* is triggered by an operation; h.fired says that it was.  The library    *)
(* sets h.busy before it triggers the event, so that who listens can only  *)
(* queue calls and running it last gives the same state, but for one case: *)
(* a popstate of the browser itself finds the flag as it is.  Where it is  *)
(* clear, a call the listener makes is made inside the handler, which then *)
(* gives back a flag that the call may have set (Routed of WebConsole).    *)
(*                                                                         *)
(* A state's identifier is a function of its data, title and address       *)
(* (getStateString), so the state stands for its identifier; so does the   *)
(* fragment that carries it.  Titles, relative addresses, the bugs of      *)
(* Safari 5 and the frame and double check for Internet Explorer 7 are     *)
(* left out.                                                               *)
(***************************************************************************)
EXTENDS Integers, Sequences

CONSTANTS
  Luids,  \* the modules' LUIDs, the data a state may carry
  None    \* no state, no data

(* The addresses of the console; "hashed" is any address read together with *)
(* its fragment, which no page has.                                         *)
Urls == {"home", "index", "server", "logon", "hashed"}
State(url, luid, titled) == [url |-> url, luid |-> luid, titled |-> titled]

(* createStateObject(null, null, url): a state known by its address only.   *)
Bare(url) == State(url, None, FALSE)
Plain(s) == s = Bare(s.url)
Titled(url) == State(url, None, TRUE)
ServerOf(l) == State("server", l, TRUE)
States == {Bare(u) : u \in Urls} \cup {Titled("index"), Titled("logon")} \cup {ServerOf(l) : l \in Luids}

ASSUME NoneAssumption == None \notin Luids \cup States

(* A call of the API, as it waits in the queue.                             *)
Call(op, s) == [op |-> op, state |-> s]
Calls == {Call(op, s) : op \in {"push", "replace"}, s \in States} \cup {Call("back", None)}

(* An entry of the tab's session history: the document and the state object *)
(* (native) or the fragment (emulated) it shows.  live: made by this run of *)
(* the script, not by one before a reload.                                  *)
Entries == [url : Urls, sid : States \cup {None}, hash : States \cup {None}, doc : Nat, live : BOOLEAN]
Here(h) == h.entries[h.pos]
NewEntry(h, e) == [h EXCEPT !.entries = Append(SubSeq(@, 1, h.pos), e), !.pos = @ + 1]

History == [api : {"html5", "html4", "poll"}, storage : BOOLEAN,
            entries : Seq(Entries), pos : Nat \ {0},
            going : Seq({-1, 1}), hashTasks : Nat, polledHash : States \cup {None},
            busy : BOOLEAN, armed : BOOLEAN, queue : Seq(Calls), lost : BOOLEAN,
            saved : States, expected : States \cup {None}, fired : BOOLEAN,
            known : SUBSET States, urlToId : [Urls -> States \cup {None}],
            hashes : Seq(States \cup {None}), discarded : [States -> States \cup {None}]]

-----------------------------------------------------------------------------
(* The stores.                                                              *)

GetStateById(h, s) == IF Plain(s) \/ s \in h.known THEN s ELSE Bare(s.url)
GetIdByUrl(h, url) == h.urlToId[url]
ExtractUrl(h, url) == IF GetIdByUrl(h, url) # None THEN GetIdByUrl(h, url) ELSE Bare(url)

(* extractState of a fragment: by the identifier it carries or, when it     *)
(* carries none, by its address.                                            *)
ExtractHash(h, s) == IF Plain(s) THEN ExtractUrl(h, s.url) ELSE GetStateById(h, s)

HasUrlDuplicate(h, s) == GetIdByUrl(h, s.url) \notin {None, s}

(* normalizeState gives a second state of an address an address of its own, *)
(* but only where the fragment has to carry it.                             *)
KeepsUrl(h, s) == h.api = "html5" \/ Plain(s) \/ ~HasUrlDuplicate(h, s)
StoreState(h, s) ==
  [h EXCEPT !.known = @ \cup {s}, !.urlToId[s.url] = IF KeepsUrl(h, s) THEN s ELSE @]

GetState(h) == h.saved
IsLastSavedState(h, s) == s = h.saved

-----------------------------------------------------------------------------
(* The busy flag.  Every call of busy that finds or leaves the flag clear   *)
(* arms the timer of fireNext.  lost: since the flag was last clear, a step *)
(* of the session history went past its end and changed nothing.            *)

Busy(h, on) == [h EXCEPT !.busy = on, !.armed = @ \/ ~on, !.lost = @ /\ on]
PushQueue(h, c) == [h EXCEPT !.queue = Append(@, c)]

Go(h, d) == [Busy(h, TRUE) EXCEPT !.going = Append(@, d)]
Back(h) == Go(h, -1)
Forward(h) == Go(h, 1)

-----------------------------------------------------------------------------
(* The native API.                                                          *)

(* Mutant: nothing new to show, and the flag is not given back.             *)
PopStateHeld(h, sid) ==
  LET s == IF sid # None THEN GetStateById(h, sid)
           ELSE IF h.expected # None THEN h.expected
           ELSE ExtractUrl(h, Here(h).url)
      clean == [h EXCEPT !.expected = None]
  IN IF IsLastSavedState(h, s) THEN clean
     ELSE Busy([StoreState(clean, s) EXCEPT !.saved = s, !.fired = TRUE], FALSE)

(* Mutant: what is expected is still expected afterwards.                   *)
PopStateExpecting(h, sid) ==
  LET s == IF sid # None THEN GetStateById(h, sid)
           ELSE IF h.expected # None THEN h.expected
           ELSE ExtractUrl(h, Here(h).url)
  IN IF IsLastSavedState(h, s) THEN Busy(h, FALSE)
     ELSE Busy([StoreState(h, s) EXCEPT !.saved = s, !.fired = TRUE], FALSE)

(* onPopState for an address without a fragment.                            *)
PopState(h, sid) ==
  LET s == IF sid # None THEN GetStateById(h, sid)
           ELSE IF h.expected # None THEN h.expected
           ELSE ExtractUrl(h, Here(h).url)
      clean == [h EXCEPT !.expected = None]
  IN IF IsLastSavedState(h, s) THEN Busy(clean, FALSE)
     ELSE Busy([StoreState(clean, s) EXCEPT !.saved = s, !.fired = TRUE], FALSE)

PageEntry(h, s) == [url |-> s.url, sid |-> s, hash |-> None, doc |-> Here(h).doc, live |-> TRUE]

PushState5(h, s) ==
  IF IsLastSavedState(h, s) THEN Busy(h, FALSE)
  ELSE PopState([NewEntry(StoreState(Busy(h, TRUE), s), PageEntry(h, s)) EXCEPT !.expected = s], None)

ReplaceState5(h, s) ==
  IF IsLastSavedState(h, s) THEN Busy(h, FALSE)
  ELSE PopState([StoreState(Busy(h, TRUE), s) EXCEPT !.entries[h.pos] = PageEntry(h, s), !.expected = s], None)

OnPopState(h, sid) ==
  IF Here(h).hash # None
  THEN [ReplaceState5(h, ExtractHash(h, Here(h).hash)) EXCEPT !.expected = None]
  ELSE PopState(h, sid)

-----------------------------------------------------------------------------
(* The emulated API.                                                        *)

Hash(h) == Here(h).hash
HashEntry(h, s) == [Here(h) EXCEPT !.hash = s, !.live = TRUE]

(* Location.hash = s makes an entry, and an event unless the hash is polled. *)
SetHash(h, s) ==
  LET set == NewEntry(h, HashEntry(h, s)) IN
  IF Hash(h) = s THEN h ELSE [set EXCEPT !.hashTasks = @ + IF h.api = "html4" THEN 1 ELSE 0]

(* The document's own address already says s.                               *)
IsShortUrl(h, s) == Hash(h) = None /\ s = Bare(Here(h).url)

IsLastHash(h, s) == h.hashes # <<>> /\ h.hashes[Len(h.hashes)] = s
SaveHash(h, s) == [h EXCEPT !.hashes = Append(IF @ = <<>> THEN @ ELSE <<@[Len(@)]>>, s)]  \* the last two

DiscardState(h, old, new) == [h EXCEPT !.discarded[old] = new]
RecycleState(h, s) == [h EXCEPT !.discarded[s] = None]

(* Mutant: expected is compared after it is set, so no event is triggered.  *)
PushState4Silent(h, s) ==
  LET stored == [RecycleState(StoreState(Busy(h, TRUE), s), s) EXCEPT !.expected = s]
      shown == [stored EXCEPT !.saved = s]
  IN IF IsLastSavedState(h, s) THEN Busy(stored, FALSE)
     ELSE Busy(IF IsShortUrl(h, s) THEN shown ELSE SetHash(shown, s), FALSE)

PushState4(h, s) ==
  LET stored == [RecycleState(StoreState(Busy(h, TRUE), s), s) EXCEPT !.expected = s]
      shown == [stored EXCEPT !.saved = s, !.fired = @ \/ h.expected # s]
  IN IF IsLastSavedState(h, s) THEN Busy(stored, FALSE)
     ELSE Busy(IF IsShortUrl(h, s) THEN shown ELSE SetHash(shown, s), FALSE)

ReplaceState4(h, s) ==
  LET left == DiscardState(Busy(h, TRUE), h.saved, s) IN
  IF IsLastSavedState(h, s)
  THEN Busy([RecycleState(StoreState(left, s), s) EXCEPT !.expected = s, !.fired = TRUE], FALSE)
  ELSE PushState4(left, s)

(* The state the address now shows; a discarded one is passed by, in the    *)
(* direction the tab was moving.                                            *)
OnHashChange(h) ==
  LET saved == SaveHash(h, Hash(h))
      s == IF Hash(h) # None THEN ExtractHash(h, Hash(h)) ELSE ExtractUrl(h, Here(h).url)
      next == saved.discarded[s]
  IN IF IsLastHash(h, Hash(h)) THEN Busy(h, FALSE)
     ELSE IF IsLastSavedState(h, s) THEN Busy(saved, FALSE)
     ELSE IF next = None THEN PushState4(saved, s)
     ELSE IF Len(saved.hashes) > 1 /\ saved.hashes[1] = next THEN Back(saved) ELSE Forward(saved)

-----------------------------------------------------------------------------
(* The interface: a call is made now or, when busy, waits for the timer.    *)

PushState(h, s) == IF h.api = "html5" THEN PushState5(h, s) ELSE PushState4(h, s)
ReplaceState(h, s) == IF h.api = "html5" THEN ReplaceState5(h, s) ELSE ReplaceState4(h, s)

Perform(h, c) ==
  CASE c.op = "push"    -> PushState(h, c.state)
    [] c.op = "replace" -> ReplaceState(h, c.state)
    [] c.op = "back"    -> Back([h EXCEPT !.armed = TRUE])

Ask(h, c) == IF h.busy THEN PushQueue(h, c) ELSE Perform(h, c)

(* Mutant: one call per timer, and no timer for the rest.                   *)
FireNextOnce(h) ==
  IF h.busy \/ h.queue = <<>> THEN [h EXCEPT !.armed = FALSE]
  ELSE [Perform([h EXCEPT !.queue = Tail(@)], Head(h.queue)) EXCEPT !.armed = FALSE]

FireNext(h) ==
  IF h.busy \/ h.queue = <<>> THEN [h EXCEPT !.armed = FALSE]
  ELSE [Perform([h EXCEPT !.queue = Tail(@)], Head(h.queue)) EXCEPT !.armed = TRUE]

-----------------------------------------------------------------------------
(* The tab.                                                                 *)

(* A step of the session history inside one document.                       *)
CanTraverse(h, d) == h.pos + d \in 1..Len(h.entries)
SameDocument(h, d) == h.entries[h.pos + d].doc = Here(h).doc
Moved(h, d) == [h EXCEPT !.pos = @ + d]
Traverse(h, d) ==
  IF h.api = "html5" THEN OnPopState(Moved(h, d), Here(Moved(h, d)).sid)
  ELSE [Moved(h, d) EXCEPT !.hashTasks = @ + IF h.api = "html4" /\ Hash(Moved(h, d)) # Hash(h) THEN 1 ELSE 0]

(* checkerFunction: the poll notices that the fragment differs.             *)
PollDue(h) == h.api = "poll" /\ Hash(h) # h.polledHash
Poll(h) == OnHashChange([h EXCEPT !.polledHash = Hash(h)])

(* What a document leaves to the next: onUnload writes the stores to        *)
(* sessionStorage, where the browser has one.                               *)
Unloaded(h) ==
  [h EXCEPT !.known = IF h.storage THEN @ ELSE {},
            !.urlToId = IF h.storage THEN @ ELSE [u \in Urls |-> None]]

(* The entries made by a run of the script that is over.  SubSeq makes a    *)
(* sequence of the function: TLC loses an EXCEPT of the function itself.    *)
Aged(es) == SubSeq([i \in DOMAIN es |-> [es[i] EXCEPT !.live = FALSE]], 1, Len(es))

(* Loading the document: the stores come back from sessionStorage, the      *)
(* state from the address, and a fragment is handled at once where it is    *)
(* not polled.                                                              *)
Loaded(h) ==
  LET first == IF Hash(h) # None THEN Bare("hashed")
               ELSE IF h.storage THEN ExtractUrl(h, Here(h).url) ELSE Bare(Here(h).url)
      fresh == [Unloaded(h) EXCEPT
                !.entries = Aged(@),
                !.going = <<>>, !.hashTasks = 0, !.polledHash = None,
                !.busy = FALSE, !.armed = FALSE, !.queue = <<>>, !.lost = FALSE,
                !.saved = first, !.expected = None, !.fired = FALSE,
                !.hashes = <<>>, !.discarded = [s \in States |-> None]]
      ready == StoreState(fresh, first)
  IN IF Hash(h) = None \/ h.api = "poll" THEN ready
     ELSE [(IF h.api = "html5" THEN OnPopState(ready, None) ELSE OnHashChange(ready)) EXCEPT !.fired = FALSE]

(* A tab that has not loaded the console yet.                               *)
Opened(api, storage, url, hash) ==
  [api |-> api, storage |-> storage,
   entries |-> <<[url |-> url, sid |-> None, hash |-> hash, doc |-> 1, live |-> FALSE]>>, pos |-> 1,
   going |-> <<>>, hashTasks |-> 0, polledHash |-> None,
   busy |-> FALSE, armed |-> FALSE, queue |-> <<>>, lost |-> FALSE,
   saved |-> Bare(url), expected |-> None, fired |-> FALSE,
   known |-> {}, urlToId |-> [u \in Urls |-> None],
   hashes |-> <<>>, discarded |-> [s \in States |-> None]]
=============================================================================
