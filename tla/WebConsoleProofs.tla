-------------------------- MODULE WebConsoleProofs --------------------------
(***************************************************************************)
(* Proofs about WebConsole for any modules, any number of inputs and tabs  *)
(* of every kind: who is owed an event, which page is on screen once       *)
(* nothing moves, and whose answers a page shows.                          *)
(***************************************************************************)
EXTENDS WebConsole, SequenceTheorems, WellFoundedInduction, TLAPS

-----------------------------------------------------------------------------
(* The invariant.                                                           *)

\* The library waits only for an event the browser owes it.
Owed(h) == h.api # "poll" /\ h.busy => h.going # <<>> \/ h.hashTasks > 0 \/ h.lost

\* The calls that wait will be made.
Awake(h) == h.queue # <<>> => h.armed \/ h.busy

\* An address is saved with a state of its own.
UrlsAgree(h) == \A u \in Urls : h.urlToId[u] # None => h.urlToId[u].url = u

\* With the native API: what the entries keep, and where the tab stands.
EntriesKept(h) ==
  \A i \in DOMAIN h.entries :
    LET e == h.entries[i] IN
    e.hash = None /\ (e.sid # None => e.sid.url = e.url /\ (e.live => e.sid \in h.known))
AtState(h) ==
  /\ Here(h).url = h.saved.url
  /\ Here(h).live /\ Here(h).sid # None => Here(h).sid = h.saved

\* Without it: a step inside a document always changes the fragment.
Apart(h) ==
  \A i \in 1..(Len(h.entries) - 1) :
    h.entries[i].doc = h.entries[i + 1].doc => h.entries[i].hash # h.entries[i + 1].hash

Tab(h) ==
  /\ h \in History /\ h.pos \in 1..Len(h.entries)
  /\ UrlsAgree(h)
  /\ h.api = "html5" => EntriesKept(h) /\ h.expected = None /\ h.hashTasks = 0
  /\ h.api # "html5" => Apart(h) /\ h.expected \in {None, h.saved}

Settled(h) == Tab(h) /\ Owed(h) /\ Awake(h) /\ ~h.fired /\ (h.api = "html5" => AtState(h))

\* The router's redirections, and that one that leads elsewhere still waits.
Redirections == {Call("push", Titled("logon")), Call("replace", Titled("index"))}
Redirected(h) == \E i \in DOMAIN h.queue : h.queue[i] \in Redirections /\ h.queue[i].state # h.saved
Fits(h, u) ==
  \/ h.saved = Bare("server") \/ Redirected(h)
  \/ u.kind = PageAt(h.saved.url) /\ (u.kind = "server" => u.luid = h.saved.luid)

\* Whose answers a page can get.
Fed(u, reqs) ==
  /\ u.kind = "server" =>
       /\ \A l \in Luids : reqs[l] > 0 => l = u.luid \/ l \in u.late
       /\ u.list \in Luids => u.list = u.luid \/ u.list \in u.late
  /\ u.list = "modules" => u.kind = "module"
  /\ u.kind = "module" /\ "modules" \notin u.late =>
       /\ reqs["modules"] + Len(u.lists) <= 1
       /\ u.list = "modules" => u.lists = <<TRUE>>

IInv == TypeOK /\ hist.api \in Apis /\ Settled(hist) /\ Fits(hist, ui) /\ Fed(ui, requests)

\* The same without the cookies and the count of inputs.
Kept ==
  /\ ui \in Ui /\ requests \in [Requests -> Nat]
  /\ Settled(hist) /\ Fits(hist, ui) /\ Fed(ui, requests)

-----------------------------------------------------------------------------
(* States and calls.                                                        *)

LEMMA StateFacts ==
  /\ \A u \in Urls : Bare(u) \in States
  /\ Titled("index") \in States /\ Titled("logon") \in States
  /\ \A l \in Luids : ServerOf(l) \in States
  /\ \A s \in States : s.url \in Urls /\ s.luid \in Luids \cup {None}
  /\ \A s \in States : s.url = "hashed" => s = Bare("hashed")
  /\ \A s \in States : s.url = "server" /\ s.luid = None => s = Bare("server")
  /\ None \notin States /\ None \notin Luids
<1>1. \A u \in Urls : Bare(u) \in States /\ Bare(u).url = u /\ Bare(u).luid = None
  BY DEF States, Bare, State
<1>2. /\ Titled("index") \in States /\ Titled("index").url = "index" /\ Titled("index").luid = None
      /\ Titled("logon") \in States /\ Titled("logon").url = "logon" /\ Titled("logon").luid = None
  BY DEF States, Titled, State
<1>3. \A l \in Luids : ServerOf(l) \in States /\ ServerOf(l).url = "server" /\ ServerOf(l).luid = l
  BY DEF States, ServerOf, State
<1>4. \A s \in States : \/ \E u \in Urls : s = Bare(u)
                        \/ s = Titled("index") \/ s = Titled("logon")
                        \/ \E l \in Luids : s = ServerOf(l)
  BY DEF States
<1>5. None \notin States /\ None \notin Luids
  BY NoneAssumption
<1> QED
  BY <1>1, <1>2, <1>3, <1>4, <1>5 DEF Urls

-----------------------------------------------------------------------------
(* What the small steps leave alone.                                        *)

SamePlace(h, g) == g.api = h.api /\ g.entries = h.entries /\ g.pos = h.pos
SameTab(h, g) == /\ g.api = h.api /\ g.storage = h.storage /\ g.hashTasks = h.hashTasks
                 /\ g.entries = h.entries /\ g.pos = h.pos
SameEvents(h, g) == g.going = h.going /\ g.hashTasks = h.hashTasks /\ g.polledHash = h.polledHash
SameFlags(h, g) == g.busy = h.busy /\ g.armed = h.armed /\ g.lost = h.lost
SameStores(h, g) == g.known = h.known /\ g.urlToId = h.urlToId
SameSaved(h, g) == g.saved = h.saved /\ g.fired = h.fired
SameFragments(h, g) == g.hashes = h.hashes /\ g.discarded = h.discarded

LEMMA BusyFacts ==
  ASSUME NEW h \in History, NEW on \in BOOLEAN
  PROVE  LET g == Busy(h, on) IN
         /\ g \in History
         /\ g.busy = on /\ g.armed = (h.armed \/ ~on) /\ g.lost = (h.lost /\ on)
         /\ SameTab(h, g) /\ SameEvents(h, g) /\ SameStores(h, g) /\ SameSaved(h, g)
         /\ SameFragments(h, g) /\ g.queue = h.queue /\ g.expected = h.expected
<1> DEFINE A == h.armed \/ ~on
           L == h.lost /\ on
           g == [h EXCEPT !.busy = on, !.armed = A, !.lost = L]
<1>1. Busy(h, on) = g
  BY DEF Busy, History
<1>2. A \in BOOLEAN /\ L \in BOOLEAN
  OBVIOUS
<1> HIDE DEF A, L
<1>3. /\ g \in History /\ g.busy = on /\ g.armed = A /\ g.lost = L
      /\ SameTab(h, g) /\ SameEvents(h, g) /\ SameStores(h, g) /\ SameSaved(h, g)
      /\ SameFragments(h, g) /\ g.queue = h.queue /\ g.expected = h.expected
  BY <1>2 DEF History, SameTab, SameEvents, SameStores, SameSaved, SameFragments
<1> QED
  BY <1>1, <1>3 DEF A, L

LEMMA HeldFacts ==
  ASSUME NEW h \in History
  PROVE  LET g == Busy(h, TRUE) IN
         /\ g \in History /\ g.busy /\ g.armed = h.armed /\ g.lost = h.lost
         /\ SameTab(h, g) /\ SameEvents(h, g) /\ SameStores(h, g) /\ SameSaved(h, g)
         /\ SameFragments(h, g) /\ g.queue = h.queue /\ g.expected = h.expected
<1>1. h.armed \in BOOLEAN /\ h.lost \in BOOLEAN
  BY DEF History
<1>2. (h.armed \/ ~TRUE) = h.armed /\ (h.lost /\ TRUE) = h.lost
  BY <1>1
<1> QED
  BY <1>2, BusyFacts

LEMMA StoreFacts ==
  ASSUME NEW h \in History, NEW s \in States, UrlsAgree(h)
  PROVE  LET g == StoreState(h, s) IN
         /\ g \in History
         /\ g.known = h.known \cup {s}
         /\ h.api = "html5" => g.urlToId[s.url] = s
         /\ UrlsAgree(g)
         /\ SameTab(h, g) /\ SameEvents(h, g) /\ SameFlags(h, g) /\ SameSaved(h, g)
         /\ SameFragments(h, g) /\ g.queue = h.queue /\ g.expected = h.expected
<1> DEFINE W == [h.urlToId EXCEPT ![s.url] = IF KeepsUrl(h, s) THEN s ELSE @]
           g == [h EXCEPT !.known = @ \cup {s}, !.urlToId = W]
<1>1. StoreState(h, s) = g
  BY DEF StoreState, History
<1>2. s.url \in Urls /\ h.urlToId \in [Urls -> States \cup {None}]
  BY StateFacts DEF History
<1>3. W \in [Urls -> States \cup {None}] /\ (h.api = "html5" => W[s.url] = s)
  BY <1>2 DEF KeepsUrl
<1>4. \A u \in Urls : W[u] # None => W[u].url = u
  BY <1>2 DEF UrlsAgree
<1> HIDE DEF W
<1>5. /\ g \in History /\ g.known = h.known \cup {s} /\ g.urlToId = W
      /\ SameTab(h, g) /\ SameEvents(h, g) /\ SameFlags(h, g) /\ SameSaved(h, g)
      /\ SameFragments(h, g) /\ g.queue = h.queue /\ g.expected = h.expected
  BY <1>3 DEF History, SameTab, SameEvents, SameFlags, SameSaved, SameFragments
<1> QED
  BY <1>1, <1>3, <1>4, <1>5 DEF UrlsAgree

LEMMA EntryFacts ==
  ASSUME NEW h \in History, h.pos \in 1..Len(h.entries), NEW e \in Entries
  PROVE  LET g == NewEntry(h, e) IN
         /\ g \in History /\ g.pos = h.pos + 1 /\ Len(g.entries) = g.pos
         /\ \A i \in 1..h.pos : g.entries[i] = h.entries[i]
         /\ Here(g) = e
         /\ g.api = h.api /\ g.storage = h.storage
         /\ SameEvents(h, g) /\ SameFlags(h, g) /\ SameStores(h, g) /\ SameSaved(h, g)
         /\ SameFragments(h, g) /\ g.queue = h.queue /\ g.expected = h.expected
<1> DEFINE E == Append(SubSeq(h.entries, 1, h.pos), e)
           n == h.pos + 1
           g == [h EXCEPT !.entries = E, !.pos = n]
<1>1. NewEntry(h, e) = g
  BY DEF NewEntry, History
<1>2. h.entries \in Seq(Entries) /\ h.pos \in Nat \ {0} /\ n \in Nat \ {0}
  BY DEF History
<1>3. E \in Seq(Entries) /\ Len(E) = n /\ E[n] = e /\ \A i \in 1..h.pos : E[i] = h.entries[i]
  BY <1>2, SubSeqProperties, AppendProperties
<1> HIDE DEF E, n
<1>4. /\ g \in History /\ g.entries = E /\ g.pos = n /\ g.api = h.api /\ g.storage = h.storage
      /\ SameEvents(h, g) /\ SameFlags(h, g) /\ SameStores(h, g) /\ SameSaved(h, g)
      /\ SameFragments(h, g) /\ g.queue = h.queue /\ g.expected = h.expected
  BY <1>2, <1>3 DEF History, SameEvents, SameFlags, SameStores, SameSaved, SameFragments
<1> QED
  BY <1>1, <1>3, <1>4 DEF Here, n

-----------------------------------------------------------------------------
(* Operations.                                                              *)

\* Started from h, an operation has ended in g.
Done(h, g) ==
  /\ Tab(g) /\ Owed(g) /\ (g.api = "html5" => AtState(g))
  /\ g.api = h.api /\ g.queue = h.queue
  /\ (g.busy \/ g.armed) /\ (h.armed => g.armed)
  /\ (g.saved # h.saved => g.fired) /\ (h.fired => g.fired)
  /\ (g.fired => h.fired \/ g.armed)

\* The state object the native API reports and what the library expects.
Incoming(h, sid) ==
  /\ sid \in {None, Here(h).sid}
  /\ sid = None /\ h.expected = None => Here(h).sid = None
  /\ sid = None /\ h.expected # None => h.expected = Here(h).sid

LEMMA TabKept ==
  ASSUME NEW h, Tab(h), NEW g \in History, SameTab(h, g), SameStores(h, g),
         g.saved = h.saved, g.expected = h.expected
  PROVE  Tab(g) /\ (AtState(h) => AtState(g))
<1>1. g.pos \in 1..Len(g.entries) /\ UrlsAgree(g)
  BY DEF Tab, UrlsAgree, SameTab, SameStores
<1>2. g.api = "html5" => EntriesKept(g) /\ g.expected = None /\ g.hashTasks = 0
  BY DEF Tab, EntriesKept, SameTab, SameStores
<1>3. g.api # "html5" => Apart(g) /\ g.expected \in {None, g.saved}
  BY DEF Tab, Apart, SameTab
<1>4. AtState(h) => AtState(g)
  BY DEF AtState, Here, SameTab
<1> QED
  BY <1>1, <1>2, <1>3, <1>4 DEF Tab

LEMMA FreedDone ==
  ASSUME NEW h, Tab(h), h.api = "html5" => AtState(h)
  PROVE  Done(h, Busy(h, FALSE))
<1> DEFINE g == Busy(h, FALSE)
<1>1. /\ g \in History /\ ~g.busy /\ g.armed /\ SameTab(h, g) /\ SameStores(h, g)
      /\ SameSaved(h, g) /\ g.queue = h.queue /\ g.expected = h.expected
  BY BusyFacts DEF Tab
<1> HIDE DEF g
<1>2. Tab(g) /\ Owed(g) /\ (g.api = "html5" => AtState(g))
  BY <1>1, TabKept DEF Owed, SameTab, SameSaved
<1>3. Done(h, g)
  BY <1>1, <1>2 DEF Done, SameTab, SameSaved
<1> QED
  BY <1>3 DEF g

LEMMA HereTyped ==
  ASSUME NEW h \in History, h.pos \in 1..Len(h.entries)
  PROVE  /\ Here(h) \in Entries /\ h.entries \in Seq(Entries)
         /\ h.pos \in DOMAIN h.entries /\ DOMAIN h.entries = 1..Len(h.entries)
<1>1. h.entries \in Seq(Entries)
  BY DEF History
<1> QED
  BY <1>1, ElementOfSeq, LenProperties DEF Here

LEMMA EntryTyped ==
  ASSUME NEW e \in Entries
  PROVE  /\ e.url \in Urls /\ e.sid \in States \cup {None} /\ e.hash \in States \cup {None}
         /\ e.doc \in Nat /\ e.live \in BOOLEAN
BY DEF Entries

LEMMA BareUrl == ASSUME NEW u PROVE Bare(u).url = u /\ Bare(u).luid = None
BY DEF Bare, State

LEMMA PopStateDone ==
  ASSUME NEW h \in History, h.pos \in 1..Len(h.entries), UrlsAgree(h),
         h.api = "html5", h.hashTasks = 0, EntriesKept(h), NEW sid, Incoming(h, sid)
  PROVE  /\ Done(h, PopState(h, sid))
         /\ sid = None /\ h.expected # None => PopState(h, sid).saved = h.expected
<1> DEFINE s == IF sid # None THEN GetStateById(h, sid)
                ELSE IF h.expected # None THEN h.expected
                ELSE ExtractUrl(h, Here(h).url)
           clean == [h EXCEPT !.expected = None]
           stored == StoreState(clean, s)
           shown == [stored EXCEPT !.saved = s, !.fired = TRUE]
<1> DEFINE e == Here(h)
<1>1. /\ e \in Entries
      /\ e.sid # None => e.sid.url = e.url
      /\ e.live /\ e.sid # None => e.sid \in h.known
  BY HereTyped DEF EntriesKept, Here
<1>2. e.url \in Urls /\ e.sid \in States \cup {None}
  BY <1>1, EntryTyped
<1>3. h.urlToId \in [Urls -> States \cup {None}] /\ h.expected \in States \cup {None}
  BY DEF History
<1>a. /\ sid \in {None, e.sid}
      /\ sid = None /\ h.expected = None => e.sid = None
      /\ sid = None /\ h.expected # None => h.expected = e.sid
  BY DEF Incoming
<1>b. s = IF sid # None THEN GetStateById(h, sid)
          ELSE IF h.expected # None THEN h.expected
          ELSE ExtractUrl(h, e.url)
  OBVIOUS
<1>7. PopState(h, sid) = IF s = h.saved THEN Busy(clean, FALSE) ELSE Busy(shown, FALSE)
  BY DEF PopState, IsLastSavedState
<1> HIDE DEF e, s
<1>4. s \in States /\ s.url = e.url
  <2>1. CASE sid # None
    <3>1. sid \in States /\ sid.url = e.url
      BY <2>1, <1>1, <1>2, <1>a
    <3>2. Bare(sid.url) \in States /\ Bare(sid.url).url = sid.url
      BY <3>1, <1>2, StateFacts, BareUrl
    <3> QED
      BY <2>1, <3>1, <3>2, <1>b DEF GetStateById
  <2>2. CASE sid = None /\ h.expected # None
    BY <2>2, <1>1, <1>2, <1>3, <1>a, <1>b
  <2>3. CASE sid = None /\ h.expected = None
    BY <2>3, <1>2, <1>3, <1>b, StateFacts, BareUrl DEF ExtractUrl, GetIdByUrl, UrlsAgree
  <2> QED
    BY <2>1, <2>2, <2>3
<1>5. e.live /\ e.sid # None => s = e.sid
  BY <1>1, <1>2, <1>a, <1>b DEF GetStateById
<1>6. sid = None /\ h.expected # None => s = h.expected
  BY <1>b
<1>8. /\ clean \in History /\ clean.expected = None
      /\ SameTab(h, clean) /\ SameEvents(h, clean) /\ SameFlags(h, clean) /\ SameStores(h, clean)
      /\ SameSaved(h, clean) /\ SameFragments(h, clean) /\ clean.queue = h.queue
  BY DEF History, SameTab, SameEvents, SameFlags, SameStores, SameSaved, SameFragments
<1> HIDE DEF clean
<1>9. CASE s = h.saved
  <2> DEFINE g == Busy(clean, FALSE)
  <2>1. /\ g \in History /\ ~g.busy /\ g.armed /\ SameTab(clean, g) /\ SameStores(clean, g)
        /\ SameSaved(clean, g) /\ g.queue = clean.queue /\ g.expected = clean.expected
    BY <1>8, BusyFacts
  <2> HIDE DEF g
  <2>2. Tab(g) /\ Owed(g) /\ AtState(g)
    BY <2>1, <1>4, <1>5, <1>8, <1>9
       DEF Tab, Owed, AtState, UrlsAgree, EntriesKept, Here, e, SameTab, SameStores, SameSaved
  <2>3. Done(h, g) /\ g.saved = s
    BY <2>1, <2>2, <1>8, <1>9 DEF Done, SameTab, SameSaved
  <2> QED
    BY <2>3, <1>6, <1>7, <1>9 DEF g
<1>10. CASE s # h.saved
  <2> DEFINE g == Busy(shown, FALSE)
  <2>1. UrlsAgree(clean)
    BY <1>8 DEF UrlsAgree, SameStores
  <2>2. /\ stored \in History /\ stored.known = clean.known \cup {s} /\ UrlsAgree(stored)
        /\ SameTab(clean, stored) /\ stored.queue = clean.queue /\ stored.expected = clean.expected
    BY <1>4, <1>8, <2>1, StoreFacts
  <2> HIDE DEF stored
  <2>3. /\ shown \in History /\ shown.saved = s /\ shown.fired = TRUE
        /\ SameTab(stored, shown) /\ SameStores(stored, shown)
        /\ shown.queue = stored.queue /\ shown.expected = stored.expected
    BY <1>4, <2>2 DEF History, SameTab, SameStores
  <2> HIDE DEF shown
  <2>4. /\ g \in History /\ ~g.busy /\ g.armed /\ SameTab(shown, g) /\ SameStores(shown, g)
        /\ SameSaved(shown, g) /\ g.queue = shown.queue /\ g.expected = shown.expected
    BY <2>3, BusyFacts
  <2> HIDE DEF g
  <2>5. /\ g.entries = h.entries /\ g.pos = h.pos /\ g.api = h.api /\ g.saved = s /\ g.expected = None
        /\ g.hashTasks = h.hashTasks
    BY <2>2, <2>3, <2>4, <1>8 DEF SameTab, SameSaved
  <2>6. UrlsAgree(g) /\ h.known \subseteq g.known
    BY <2>2, <2>3, <2>4, <1>8 DEF UrlsAgree, SameStores
  <2>7. EntriesKept(g) /\ AtState(g)
    BY <2>5, <2>6, <1>4, <1>5 DEF EntriesKept, AtState, Here, e
  <2>8. Tab(g) /\ Owed(g)
    BY <2>4, <2>5, <2>6, <2>7 DEF Tab, Owed
  <2>9. g.fired /\ g.queue = h.queue
    BY <2>2, <2>3, <2>4, <1>8 DEF SameSaved
  <2>10. Done(h, g)
    BY <2>4, <2>5, <2>7, <2>8, <2>9 DEF Done
  <2> QED
    BY <2>10, <2>5, <1>6, <1>7, <1>10 DEF g
<1> QED
  BY <1>9, <1>10

\* The entry a call of the native API makes.
LEMMA PageEntryFacts ==
  ASSUME NEW h \in History, h.pos \in 1..Len(h.entries), NEW s \in States
  PROVE  LET e == PageEntry(h, s) IN
         /\ e \in Entries /\ e.url = s.url /\ e.sid = s /\ e.hash = None
  BY HereTyped, EntryTyped, StateFacts DEF PageEntry, Entries

LEMMA PushState5Done ==
  ASSUME NEW h, Tab(h), h.api = "html5", AtState(h), NEW s \in States
  PROVE  Done(h, PushState5(h, s)) /\ PushState5(h, s).saved = s
<1>1. CASE s = h.saved
  <2>1. Done(h, Busy(h, FALSE)) /\ Busy(h, FALSE).saved = h.saved
    BY FreedDone, BusyFacts DEF Tab, SameSaved
  <2> QED
    BY <1>1, <2>1 DEF PushState5, IsLastSavedState
<1>2. CASE s # h.saved
  <2> DEFINE held == Busy(h, TRUE)
             stored == StoreState(held, s)
             e == PageEntry(h, s)
             longer == NewEntry(stored, e)
             g == [longer EXCEPT !.expected = s]
  <2>1. PushState5(h, s) = PopState(g, None)
    BY <1>2 DEF PushState5, IsLastSavedState
  <2>2. /\ held \in History /\ held.armed = h.armed /\ held.queue = h.queue
        /\ SameTab(h, held) /\ SameStores(h, held) /\ SameSaved(h, held)
    BY HeldFacts DEF Tab
  <2>3. e \in Entries /\ e.url = s.url /\ e.sid = s /\ e.hash = None
    BY PageEntryFacts DEF Tab
  <2> HIDE DEF held, e
  <2>4. UrlsAgree(held)
    BY <2>2 DEF Tab, UrlsAgree, SameStores
  <2>5. /\ stored \in History /\ stored.known = held.known \cup {s} /\ UrlsAgree(stored)
        /\ SameTab(held, stored) /\ SameFlags(held, stored) /\ SameSaved(held, stored)
        /\ stored.queue = held.queue
    BY <2>2, <2>4, StoreFacts
  <2> HIDE DEF stored
  <2>6. stored.pos \in 1..Len(stored.entries)
    BY <2>2, <2>5 DEF Tab, SameTab
  <2>7. /\ longer \in History /\ longer.pos = stored.pos + 1 /\ Len(longer.entries) = longer.pos
        /\ \A i \in 1..stored.pos : longer.entries[i] = stored.entries[i]
        /\ Here(longer) = e /\ longer.api = stored.api /\ longer.hashTasks = stored.hashTasks
        /\ SameFlags(stored, longer) /\ SameStores(stored, longer) /\ SameSaved(stored, longer)
        /\ longer.queue = stored.queue
    BY <2>3, <2>5, <2>6, EntryFacts DEF SameEvents
  <2> HIDE DEF longer
  <2>8. /\ g \in History /\ g.expected = s /\ SameTab(longer, g) /\ SameFlags(longer, g)
        /\ SameStores(longer, g) /\ SameSaved(longer, g) /\ g.queue = longer.queue
    BY <2>7 DEF History, SameTab, SameFlags, SameStores, SameSaved
  <2> HIDE DEF g
  <2>9. /\ g.api = "html5" /\ g.armed = h.armed /\ g.queue = h.queue /\ g.saved = h.saved /\ g.fired = h.fired
        /\ g.pos = h.pos + 1 /\ Len(g.entries) = g.pos /\ Here(g) = e
        /\ \A i \in 1..h.pos : g.entries[i] = h.entries[i]
        /\ g.known = h.known \cup {s} /\ g.hashTasks = h.hashTasks
    BY <2>2, <2>5, <2>7, <2>8 DEF Here, SameTab, SameFlags, SameStores, SameSaved
  <2>10. UrlsAgree(g)
    BY <2>5, <2>7, <2>8 DEF UrlsAgree, SameStores
  <2>11. g.pos \in 1..Len(g.entries) /\ h.pos \in 1..Len(h.entries) /\ EntriesKept(h)
         /\ DOMAIN g.entries = 1..g.pos /\ DOMAIN h.entries = 1..Len(h.entries)
    BY <2>8, <2>9, HereTyped DEF Tab
  <2>12. EntriesKept(g)
    <3> SUFFICES ASSUME NEW i \in DOMAIN g.entries
                 PROVE  /\ g.entries[i].hash = None
                        /\ g.entries[i].sid # None =>
                             /\ g.entries[i].sid.url = g.entries[i].url
                             /\ g.entries[i].live => g.entries[i].sid \in g.known
      BY DEF EntriesKept
    <3>1. CASE i = g.pos
      <4>1. g.entries[i] = e
        BY <3>1, <2>9 DEF Here
      <4> QED
        BY <4>1, <2>3, <2>9
    <3>2. CASE i # g.pos
      <4>1. h.pos \in Nat /\ Len(h.entries) \in Nat /\ i \in 1..(h.pos + 1) /\ i # h.pos + 1
        BY <3>2, <2>9, <2>11, LenProperties DEF Tab, History
      <4>2. i \in 1..h.pos /\ i \in 1..Len(h.entries)
        BY <4>1, <2>11
      <4>3. i \in DOMAIN h.entries /\ g.entries[i] = h.entries[i]
        BY <4>2, <2>9, <2>11
      <4> QED
        BY <4>3, <2>9, <2>11 DEF EntriesKept
    <3> QED
      BY <3>1, <3>2
  <2>13. Incoming(g, None)
    BY <2>3, <2>8, <2>9, StateFacts DEF Incoming
  <2>14. Done(g, PopState(g, None)) /\ PopState(g, None).saved = s
    <3>1. g.hashTasks = 0
      BY <2>9 DEF Tab
    <3> QED
      BY <3>1, <2>8, <2>9, <2>10, <2>11, <2>12, <2>13, PopStateDone, StateFacts
  <2>15. Done(h, PopState(g, None))
    BY <2>9, <2>14 DEF Done, Tab
  <2> QED
    BY <2>1, <2>14, <2>15
<1> QED
  BY <1>1, <1>2

\* What replaces an entry need not know what the entry kept.
LEMMA ReplaceState5Done ==
  ASSUME NEW h \in History, h.pos \in 1..Len(h.entries), UrlsAgree(h), h.api = "html5", h.hashTasks = 0,
         \A i \in DOMAIN h.entries \ {h.pos} :
            /\ h.entries[i].hash = None
            /\ h.entries[i].sid # None =>
                 /\ h.entries[i].sid.url = h.entries[i].url
                 /\ h.entries[i].live => h.entries[i].sid \in h.known,
         NEW s \in States, s = h.saved => Tab(h) /\ AtState(h)
  PROVE  Done(h, ReplaceState5(h, s)) /\ ReplaceState5(h, s).saved = s
<1>1. CASE s = h.saved
  <2>1. Done(h, Busy(h, FALSE)) /\ Busy(h, FALSE).saved = h.saved
    BY <1>1, FreedDone, BusyFacts DEF Tab, SameSaved
  <2> QED
    BY <1>1, <2>1 DEF ReplaceState5, IsLastSavedState
<1>2. CASE s # h.saved
  <2> DEFINE held == Busy(h, TRUE)
             stored == StoreState(held, s)
             e == PageEntry(h, s)
             E == [h.entries EXCEPT ![h.pos] = e]
             g == [stored EXCEPT !.entries = E, !.expected = s]
  <2>1. /\ held \in History /\ held.armed = h.armed /\ held.queue = h.queue
        /\ SameTab(h, held) /\ SameStores(h, held) /\ SameSaved(h, held)
    BY HeldFacts
  <2>2. e \in Entries /\ e.url = s.url /\ e.sid = s /\ e.hash = None
    BY PageEntryFacts
  <2>3. UrlsAgree(held)
    BY <2>1 DEF UrlsAgree, SameStores
  <2>4. /\ stored \in History /\ stored.known = held.known \cup {s} /\ UrlsAgree(stored)
        /\ SameTab(held, stored) /\ SameFlags(held, stored) /\ SameSaved(held, stored)
        /\ stored.queue = held.queue
    BY <2>1, <2>3, StoreFacts
  <2>5. ReplaceState5(h, s) = PopState(g, None)
    <3>1. ReplaceState5(h, s) = PopState([stored EXCEPT !.entries[h.pos] = e, !.expected = s], None)
      BY <1>2 DEF ReplaceState5, IsLastSavedState
    <3>2. stored.entries = h.entries
      BY <2>1, <2>4 DEF SameTab
    <3>3. [stored EXCEPT !.entries[h.pos] = e, !.expected = s] = g
      BY <3>2, <2>4 DEF History
    <3> QED
      BY <3>1, <3>3
  <2> HIDE DEF held, stored, e
  <2>6. /\ E \in Seq(Entries) /\ Len(E) = Len(h.entries) /\ E[h.pos] = e
        /\ \A i \in DOMAIN h.entries \ {h.pos} : E[i] = h.entries[i]
        /\ DOMAIN E = DOMAIN h.entries
    BY <2>2, HereTyped, ExceptSeq
  <2> HIDE DEF E
  <2>7. /\ g \in History /\ g.expected = s /\ g.entries = E
        /\ g.pos = stored.pos /\ g.api = stored.api /\ g.hashTasks = stored.hashTasks /\ SameFlags(stored, g)
        /\ SameStores(stored, g) /\ SameSaved(stored, g) /\ g.queue = stored.queue
    BY <2>4, <2>6 DEF History, SameFlags, SameStores, SameSaved
  <2> HIDE DEF g
  <2>8. /\ g.api = "html5" /\ g.armed = h.armed /\ g.queue = h.queue /\ g.saved = h.saved /\ g.fired = h.fired
        /\ g.pos = h.pos /\ Here(g) = e /\ g.known = h.known \cup {s} /\ g.hashTasks = 0
    BY <2>1, <2>4, <2>6, <2>7 DEF Here, SameTab, SameFlags, SameStores, SameSaved
  <2>9. UrlsAgree(g) /\ g.pos \in 1..Len(g.entries)
    BY <2>4, <2>6, <2>7, <2>8 DEF UrlsAgree, SameStores
  <2>10. EntriesKept(g)
    <3> SUFFICES ASSUME NEW i \in DOMAIN g.entries
                 PROVE  /\ g.entries[i].hash = None
                        /\ g.entries[i].sid # None =>
                             /\ g.entries[i].sid.url = g.entries[i].url
                             /\ g.entries[i].live => g.entries[i].sid \in g.known
      BY DEF EntriesKept
    <3>1. CASE i = g.pos
      <4>1. g.entries[i] = e
        BY <3>1, <2>8 DEF Here
      <4> QED
        BY <4>1, <2>2, <2>8
    <3>2. CASE i # g.pos
      <4>1. i \in DOMAIN h.entries \ {h.pos} /\ g.entries[i] = h.entries[i]
        BY <3>2, <2>6, <2>7, <2>8
      <4> QED
        BY <4>1, <2>8
    <3> QED
      BY <3>1, <3>2
  <2>11. Incoming(g, None)
    BY <2>2, <2>7, <2>8, StateFacts DEF Incoming
  <2>12. Done(g, PopState(g, None)) /\ PopState(g, None).saved = s
    BY <2>7, <2>8, <2>9, <2>10, <2>11, PopStateDone, StateFacts
  <2>13. Done(h, PopState(g, None))
    BY <2>8, <2>12 DEF Done
  <2> QED
    BY <2>5, <2>12, <2>13
<1> QED
  BY <1>1, <1>2

\* The library turns to the tab's history and waits.
LEMMA GoDone ==
  ASSUME NEW h, Tab(h), h.api = "html5" => AtState(h), NEW d \in {-1, 1}
  PROVE  LET g == Go(h, d) IN
         Done(h, g) /\ g.saved = h.saved /\ g.fired = h.fired /\ g.armed = h.armed
<1> DEFINE held == Busy(h, TRUE)
           G == Append(h.going, d)
           g == [held EXCEPT !.going = G]
<1>1. /\ held \in History /\ held.busy /\ held.armed = h.armed
      /\ SameTab(h, held) /\ SameEvents(h, held) /\ SameStores(h, held)
      /\ SameSaved(h, held) /\ held.queue = h.queue /\ held.expected = h.expected
  BY HeldFacts DEF Tab
<1>2. Go(h, d) = g
  BY <1>1 DEF Go, History, SameEvents
<1>3. G \in Seq({-1, 1}) /\ G # <<>>
  <2>1. h.going \in Seq({-1, 1})
    BY DEF Tab, History
  <2> QED
    BY <2>1, AppendProperties, EmptySeq
<1> HIDE DEF held, G
<1>4. /\ g \in History /\ g.going = G /\ g.busy = held.busy /\ g.armed = held.armed /\ SameTab(held, g)
      /\ SameStores(held, g) /\ SameSaved(held, g) /\ g.queue = held.queue /\ g.expected = held.expected
  BY <1>1, <1>3 DEF History, SameTab, SameStores, SameSaved
<1> HIDE DEF g
<1>5. Tab(g) /\ (g.api = "html5" => AtState(g))
  <2>1. SameTab(h, g) /\ SameStores(h, g) /\ g.saved = h.saved /\ g.expected = h.expected
    BY <1>1, <1>4 DEF SameTab, SameStores, SameSaved
  <2> QED
    BY <2>1, <1>4, TabKept DEF SameTab
<1>6. Owed(g)
  BY <1>3, <1>4 DEF Owed
<1>7. Done(h, g)
  BY <1>1, <1>4, <1>5, <1>6 DEF Done, SameTab, SameSaved
<1> QED
  BY <1>1, <1>2, <1>4, <1>7 DEF SameSaved

-----------------------------------------------------------------------------
(* The emulated API.                                                        *)

\* The next entry of a document has another fragment.
LEMMA StillApart ==
  ASSUME NEW h \in History, h.pos \in 1..Len(h.entries), Apart(h), NEW e \in Entries,
         e.doc = Here(h).doc => e.hash # Here(h).hash
  PROVE  Apart(NewEntry(h, e))
<1> DEFINE g == NewEntry(h, e)
<1>1. /\ g.pos = h.pos + 1 /\ Len(g.entries) = g.pos
      /\ \A i \in 1..h.pos : g.entries[i] = h.entries[i]
      /\ Here(g) = e
  BY EntryFacts
<1> HIDE DEF g
<1> SUFFICES ASSUME NEW i \in 1..(Len(g.entries) - 1), g.entries[i].doc = g.entries[i + 1].doc
             PROVE  g.entries[i].hash # g.entries[i + 1].hash
  BY DEF Apart, g
<1>2. h.pos \in Nat /\ Len(h.entries) \in Nat /\ i \in 1..h.pos /\ g.entries[i] = h.entries[i]
  BY <1>1, HereTyped DEF History
<1>3. CASE i = h.pos
  BY <1>1, <1>2, <1>3 DEF Here
<1>4. CASE i # h.pos
  <2>1. i + 1 \in 1..h.pos /\ i \in 1..(Len(h.entries) - 1)
    BY <1>2, <1>4
  <2>2. g.entries[i + 1] = h.entries[i + 1]
    BY <2>1, <1>1
  <2> QED
    BY <2>1, <2>2, <1>2 DEF Apart
<1> QED
  BY <1>3, <1>4

LEMMA SetHashFacts ==
  ASSUME NEW h \in History, h.pos \in 1..Len(h.entries), Apart(h), NEW s \in States
  PROVE  LET g == SetHash(h, s) IN
         /\ g \in History /\ g.pos \in 1..Len(g.entries) /\ Apart(g) /\ g.api = h.api
         /\ SameFlags(h, g) /\ SameStores(h, g) /\ SameSaved(h, g)
         /\ SameFragments(h, g) /\ g.queue = h.queue /\ g.expected = h.expected
<1>1. CASE Hash(h) = s
  BY <1>1 DEF SetHash, SameFlags, SameStores, SameSaved, SameFragments
<1>2. CASE Hash(h) # s
  <2> DEFINE e == HashEntry(h, s)
             new == NewEntry(h, e)
             n == new.hashTasks + IF h.api = "html4" THEN 1 ELSE 0
             g == [new EXCEPT !.hashTasks = n]
  <2>1. e \in Entries /\ e.hash = s /\ e.doc = Here(h).doc
    BY HereTyped DEF HashEntry, Entries
  <2> HIDE DEF e
  <2>2. Apart(new)
    BY <2>1, <1>2, StillApart DEF Hash
  <2>3. /\ new \in History /\ new.pos = h.pos + 1 /\ Len(new.entries) = new.pos /\ new.api = h.api
        /\ SameEvents(h, new) /\ SameFlags(h, new) /\ SameStores(h, new) /\ SameSaved(h, new)
        /\ SameFragments(h, new) /\ new.queue = h.queue /\ new.expected = h.expected
    BY <2>1, EntryFacts
  <2>4. SetHash(h, s) = g
    BY <1>2, <2>3 DEF SetHash, History, e
  <2> HIDE DEF new
  <2>5. n \in Nat
    BY <2>3 DEF History
  <2> HIDE DEF n
  <2>6. /\ g \in History /\ SamePlace(new, g) /\ SameFlags(new, g) /\ SameStores(new, g) /\ SameSaved(new, g)
        /\ SameFragments(new, g) /\ g.queue = new.queue /\ g.expected = new.expected
    BY <2>3, <2>5 DEF History, SamePlace, SameFlags, SameStores, SameSaved, SameFragments
  <2> HIDE DEF g
  <2>7. h.pos \in Nat
    BY DEF History
  <2>8. g.pos \in 1..Len(g.entries) /\ Apart(g) /\ g.api = h.api
    BY <2>2, <2>3, <2>6, <2>7 DEF Apart, SamePlace
  <2> QED
    BY <2>3, <2>4, <2>6, <2>8 DEF SameFlags, SameStores, SameSaved, SameFragments
<1> QED
  BY <1>1, <1>2

LEMMA DiscardFacts ==
  ASSUME NEW h \in History, NEW old \in States, NEW new \in States \cup {None}
  PROVE  LET g == [h EXCEPT !.discarded[old] = new] IN
         /\ g \in History
         /\ SameTab(h, g) /\ SameEvents(h, g) /\ SameFlags(h, g) /\ SameStores(h, g) /\ SameSaved(h, g)
         /\ g.queue = h.queue /\ g.expected = h.expected
<1> DEFINE D == [h.discarded EXCEPT ![old] = new]
           g == [h EXCEPT !.discarded = D]
<1>1. [h EXCEPT !.discarded[old] = new] = g
  BY DEF History
<1>2. D \in [States -> States \cup {None}]
  BY DEF History
<1> HIDE DEF D
<1>3. /\ g \in History
      /\ SameTab(h, g) /\ SameEvents(h, g) /\ SameFlags(h, g) /\ SameStores(h, g) /\ SameSaved(h, g)
      /\ g.queue = h.queue /\ g.expected = h.expected
  BY <1>2 DEF History, SameTab, SameEvents, SameFlags, SameStores, SameSaved
<1> QED
  BY <1>1, <1>3

LEMMA PushState4Done ==
  ASSUME NEW h, Tab(h), h.api # "html5", NEW s \in States
  PROVE  Done(h, PushState4(h, s)) /\ PushState4(h, s).saved = s
<1> DEFINE held == Busy(h, TRUE)
           kept == StoreState(held, s)
           back == RecycleState(kept, s)
           stored == [back EXCEPT !.expected = s]
           F == stored.fired \/ h.expected # s
           shown == [stored EXCEPT !.saved = s, !.fired = F]
<1>1. /\ held \in History /\ held.busy /\ held.armed = h.armed
      /\ SameTab(h, held) /\ SameStores(h, held)
      /\ SameSaved(h, held) /\ held.queue = h.queue
  BY HeldFacts DEF Tab
<1>2. UrlsAgree(held)
  BY <1>1 DEF Tab, UrlsAgree, SameStores
<1>3. PushState4(h, s) =
        IF s = h.saved THEN Busy(stored, FALSE)
        ELSE Busy(IF IsShortUrl(h, s) THEN shown ELSE SetHash(shown, s), FALSE)
  BY DEF PushState4, IsLastSavedState
<1> HIDE DEF held
<1>4. /\ kept \in History /\ UrlsAgree(kept)
      /\ SameTab(held, kept) /\ SameFlags(held, kept) /\ SameSaved(held, kept)
      /\ kept.queue = held.queue
  BY <1>1, <1>2, StoreFacts
<1> HIDE DEF kept
<1>5. /\ back \in History /\ SameTab(kept, back) /\ SameFlags(kept, back) /\ SameStores(kept, back)
      /\ SameSaved(kept, back) /\ back.queue = kept.queue
  BY <1>4, DiscardFacts DEF RecycleState
<1> HIDE DEF back
<1>6. /\ stored \in History /\ SameTab(back, stored) /\ SameFlags(back, stored) /\ SameStores(back, stored)
      /\ SameSaved(back, stored) /\ stored.queue = back.queue /\ stored.expected = s
  BY <1>5 DEF History, SameTab, SameFlags, SameStores, SameSaved
<1> HIDE DEF stored
<1>7. /\ stored.entries = h.entries /\ stored.pos = h.pos /\ stored.api = h.api
      /\ stored.armed = h.armed /\ stored.saved = h.saved /\ stored.fired = h.fired /\ stored.queue = h.queue
  BY <1>1, <1>4, <1>5, <1>6 DEF SameTab, SameFlags, SameSaved
<1>8. UrlsAgree(stored) /\ stored.pos \in 1..Len(stored.entries) /\ Apart(stored)
  BY <1>4, <1>5, <1>6, <1>7 DEF Tab, Apart, UrlsAgree, SameStores
<1>9. CASE s = h.saved
  <2>1. Tab(stored)
    BY <1>6, <1>7, <1>8, <1>9 DEF Tab
  <2>2. Done(stored, Busy(stored, FALSE)) /\ Busy(stored, FALSE).saved = stored.saved
    BY <2>1, <1>6, <1>7, FreedDone, BusyFacts DEF SameSaved
  <2>3. Done(h, Busy(stored, FALSE))
    BY <2>2, <1>7 DEF Done
  <2> QED
    BY <2>2, <2>3, <1>3, <1>7, <1>9
<1>10. CASE s # h.saved
  <2> DEFINE g == IF IsShortUrl(h, s) THEN shown ELSE SetHash(shown, s)
  <2>1. F \in BOOLEAN /\ F = TRUE
    BY <1>10, StateFacts DEF Tab
  <2> HIDE DEF F
  <2>2. /\ shown \in History /\ SameTab(stored, shown) /\ SameFlags(stored, shown) /\ SameStores(stored, shown)
        /\ shown.saved = s /\ shown.fired = TRUE /\ shown.queue = stored.queue /\ shown.expected = s
    BY <2>1, <1>6 DEF History, SameTab, SameFlags, SameStores
  <2> HIDE DEF shown
  <2>3. shown.pos \in 1..Len(shown.entries) /\ Apart(shown)
    BY <2>2, <1>8 DEF Apart, SameTab
  <2>4. /\ g \in History /\ g.pos \in 1..Len(g.entries) /\ Apart(g) /\ g.api = shown.api
        /\ SameFlags(shown, g) /\ SameStores(shown, g) /\ SameSaved(shown, g)
        /\ g.queue = shown.queue /\ g.expected = shown.expected
    BY <2>2, <2>3, SetHashFacts DEF SameFlags, SameStores, SameSaved
  <2>5. PushState4(h, s) = Busy(g, FALSE)
    BY <1>3, <1>10
  <2> HIDE DEF g
  <2>6. /\ g.api = h.api /\ g.saved = s /\ g.fired /\ g.queue = h.queue /\ g.armed = h.armed
        /\ UrlsAgree(g)
    BY <2>2, <2>4, <1>7, <1>8 DEF UrlsAgree, SameTab, SameFlags, SameStores, SameSaved
  <2>7. Tab(g)
    BY <2>2, <2>4, <2>6 DEF Tab
  <2>8. /\ Done(g, Busy(g, FALSE)) /\ Busy(g, FALSE).saved = g.saved
        /\ Busy(g, FALSE).armed
    BY <2>6, <2>7, FreedDone, BusyFacts DEF SameSaved, Tab
  <2>9. Done(h, Busy(g, FALSE))
    BY <2>6, <2>8 DEF Done
  <2> QED
    BY <2>5, <2>6, <2>8, <2>9
<1> QED
  BY <1>9, <1>10

LEMMA ReplaceState4Done ==
  ASSUME NEW h, Tab(h), h.api # "html5", NEW s \in States
  PROVE  Done(h, ReplaceState4(h, s)) /\ ReplaceState4(h, s).saved = s
<1> DEFINE held == Busy(h, TRUE)
           left == DiscardState(held, h.saved, s)
<1>1. /\ held \in History /\ held.busy /\ held.armed = h.armed
      /\ SameTab(h, held) /\ SameStores(h, held)
      /\ SameSaved(h, held) /\ held.queue = h.queue /\ held.expected = h.expected
  BY HeldFacts DEF Tab
<1>2. h.saved \in States
  BY DEF Tab, History
<1> HIDE DEF held
<1>3. /\ left \in History /\ SameTab(held, left) /\ SameFlags(held, left) /\ SameStores(held, left)
      /\ SameSaved(held, left) /\ left.queue = held.queue /\ left.expected = held.expected
  BY <1>1, <1>2, DiscardFacts DEF DiscardState
<1>4. ReplaceState4(h, s) =
        IF s = h.saved
        THEN Busy([RecycleState(StoreState(left, s), s) EXCEPT !.expected = s, !.fired = TRUE], FALSE)
        ELSE PushState4(left, s)
  BY DEF ReplaceState4, IsLastSavedState, held
<1> HIDE DEF left
<1>5. /\ left.entries = h.entries /\ left.pos = h.pos /\ left.api = h.api /\ left.armed = h.armed
      /\ left.saved = h.saved /\ left.fired = h.fired /\ left.queue = h.queue /\ left.expected = h.expected
      /\ left.urlToId = h.urlToId
  BY <1>1, <1>3 DEF SameTab, SameFlags, SameStores, SameSaved
<1>6. Tab(left)
  BY <1>3, <1>5 DEF Tab, UrlsAgree, Apart
<1>7. CASE s # h.saved
  <2>1. Done(left, PushState4(left, s)) /\ PushState4(left, s).saved = s
    BY <1>5, <1>6, PushState4Done
  <2>2. Done(h, PushState4(left, s))
    BY <2>1, <1>5 DEF Done
  <2> QED
    BY <2>1, <2>2, <1>4, <1>7
<1>8. CASE s = h.saved
  <2> DEFINE kept == StoreState(left, s)
             back == RecycleState(kept, s)
             g == [back EXCEPT !.expected = s, !.fired = TRUE]
  <2>1. /\ kept \in History /\ UrlsAgree(kept)
        /\ SameTab(left, kept) /\ SameFlags(left, kept) /\ SameSaved(left, kept)
        /\ kept.queue = left.queue
    BY <1>3, <1>6, StoreFacts DEF Tab
  <2>2. ReplaceState4(h, s) = Busy(g, FALSE)
    BY <1>4, <1>8
  <2> HIDE DEF kept
  <2>3. /\ back \in History /\ SameTab(kept, back) /\ SameFlags(kept, back) /\ SameStores(kept, back)
        /\ SameSaved(kept, back) /\ back.queue = kept.queue
    BY <2>1, DiscardFacts DEF RecycleState
  <2> HIDE DEF back
  <2>4. /\ g \in History /\ SameTab(back, g) /\ SameFlags(back, g) /\ SameStores(back, g)
        /\ g.saved = back.saved /\ g.fired = TRUE /\ g.queue = back.queue /\ g.expected = s
    BY <2>3 DEF History, SameTab, SameFlags, SameStores
  <2> HIDE DEF g
  <2>5. /\ g.entries = h.entries /\ g.pos = h.pos /\ g.api = h.api /\ g.armed = h.armed
        /\ g.saved = h.saved /\ g.fired /\ g.queue = h.queue
    BY <2>1, <2>3, <2>4, <1>5 DEF SameTab, SameFlags, SameSaved
  <2>6. UrlsAgree(g)
    BY <2>1, <2>3, <2>4 DEF UrlsAgree, SameStores
  <2>7. Tab(g)
    BY <2>4, <2>5, <2>6, <1>8 DEF Tab, Apart
  <2>8. /\ Done(g, Busy(g, FALSE)) /\ Busy(g, FALSE).saved = g.saved /\ Busy(g, FALSE).armed
    BY <2>5, <2>7, FreedDone, BusyFacts DEF SameSaved, Tab
  <2>9. Done(h, Busy(g, FALSE))
    BY <2>5, <2>8 DEF Done
  <2> QED
    BY <2>2, <2>5, <2>8, <2>9, <1>8
<1> QED
  BY <1>7, <1>8

LEMMA ExtractFacts ==
  ASSUME NEW h \in History, UrlsAgree(h)
  PROVE  /\ \A u \in Urls : ExtractUrl(h, u) \in States /\ ExtractUrl(h, u).url = u
         /\ \A s \in States : ExtractHash(h, s) \in States /\ ExtractHash(h, s).url = s.url
<1>1. \A u \in Urls : ExtractUrl(h, u) \in States /\ ExtractUrl(h, u).url = u
  BY StateFacts, BareUrl DEF ExtractUrl, GetIdByUrl, UrlsAgree, History
<1>2. ASSUME NEW s \in States
      PROVE  ExtractHash(h, s) \in States /\ ExtractHash(h, s).url = s.url
  <2>1. s.url \in Urls /\ Bare(s.url) \in States /\ Bare(s.url).url = s.url
    BY StateFacts, BareUrl
  <2> QED
    BY <1>1, <2>1 DEF ExtractHash, GetStateById
<1> QED
  BY <1>1, <1>2

LEMMA SaveHashFacts ==
  ASSUME NEW h \in History, NEW s \in States \cup {None}
  PROVE  LET g == SaveHash(h, s) IN
         /\ g \in History
         /\ SameTab(h, g) /\ SameEvents(h, g) /\ SameFlags(h, g) /\ SameStores(h, g) /\ SameSaved(h, g)
         /\ g.queue = h.queue /\ g.expected = h.expected
<1> DEFINE last == IF h.hashes = <<>> THEN h.hashes ELSE <<h.hashes[Len(h.hashes)]>>
           H == Append(last, s)
           g == [h EXCEPT !.hashes = H]
<1>1. SaveHash(h, s) = g
  BY DEF SaveHash, History
<1>2. h.hashes \in Seq(States \cup {None})
  BY DEF History
<1>3. last \in Seq(States \cup {None})
  <2>1. CASE h.hashes = <<>>
    BY <2>1, <1>2
  <2>2. CASE h.hashes # <<>>
    <3>1. Len(h.hashes) \in 1..Len(h.hashes)
      BY <2>2, <1>2, LenProperties, EmptySeq
    <3>2. h.hashes[Len(h.hashes)] \in States \cup {None}
      BY <3>1, <1>2, ElementOfSeq
    <3> QED
      BY <2>2, <3>2
  <2> QED
    BY <2>1, <2>2
<1> HIDE DEF last
<1>4. H \in Seq(States \cup {None})
  BY <1>3, AppendProperties
<1> HIDE DEF H
<1>5. /\ g \in History
      /\ SameTab(h, g) /\ SameEvents(h, g) /\ SameFlags(h, g) /\ SameStores(h, g) /\ SameSaved(h, g)
      /\ g.queue = h.queue /\ g.expected = h.expected
  BY <1>4 DEF History, SameTab, SameEvents, SameFlags, SameStores, SameSaved
<1> QED
  BY <1>1, <1>5

LEMMA OnHashChangeDone ==
  ASSUME NEW h, Tab(h), h.api # "html5"
  PROVE  Done(h, OnHashChange(h))
<1> DEFINE saved == SaveHash(h, Hash(h))
           s == IF Hash(h) # None THEN ExtractHash(h, Hash(h)) ELSE ExtractUrl(h, Here(h).url)
           next == saved.discarded[s]
<1>1. Here(h).url \in Urls /\ Hash(h) \in States \cup {None}
  BY HereTyped, EntryTyped DEF Tab, Hash
<1>2. s \in States
  BY <1>1, ExtractFacts DEF Tab
<1>3. /\ saved \in History /\ SameTab(h, saved) /\ SameFlags(h, saved) /\ SameStores(h, saved)
      /\ SameSaved(h, saved) /\ saved.queue = h.queue /\ saved.expected = h.expected
  BY <1>1, SaveHashFacts DEF Tab
<1>4. OnHashChange(h) =
        IF IsLastHash(h, Hash(h)) THEN Busy(h, FALSE)
        ELSE IF s = h.saved THEN Busy(saved, FALSE)
        ELSE IF next = None THEN PushState4(saved, s)
        ELSE IF Len(saved.hashes) > 1 /\ saved.hashes[1] = next THEN Go(saved, -1) ELSE Go(saved, 1)
  BY DEF OnHashChange, IsLastSavedState, Back, Forward
<1> HIDE DEF saved, s, next
<1>5. /\ saved.entries = h.entries /\ saved.pos = h.pos /\ saved.api = h.api /\ saved.armed = h.armed
      /\ saved.saved = h.saved /\ saved.fired = h.fired /\ saved.urlToId = h.urlToId
  BY <1>3 DEF SameTab, SameFlags, SameStores, SameSaved
<1>6. Tab(saved)
  BY <1>3, <1>5 DEF Tab, UrlsAgree, Apart
<1>7. \A g : Done(saved, g) => Done(h, g)
  BY <1>3, <1>5 DEF Done
<1>8. Done(saved, Busy(saved, FALSE)) /\ Done(h, Busy(h, FALSE))
  BY <1>5, <1>6, FreedDone
<1>9. Done(saved, PushState4(saved, s))
  BY <1>2, <1>5, <1>6, PushState4Done
<1>10. Done(saved, Go(saved, -1)) /\ Done(saved, Go(saved, 1))
  BY <1>5, <1>6, GoDone
<1> QED
  BY <1>4, <1>7, <1>8, <1>9, <1>10

-----------------------------------------------------------------------------
(* Calls.                                                                   *)

\* Where the library may stand between two operations of one task.
Standing(h) == Tab(h) /\ Owed(h) /\ Awake(h) /\ (h.api = "html5" => AtState(h))

\* One operation or several have led from h to g.
Reached(h, g) ==
  /\ Standing(g) /\ g.api = h.api
  /\ \A i \in DOMAIN h.queue : \E j \in DOMAIN g.queue : g.queue[j] = h.queue[i]
  /\ (h.armed => g.armed)
  /\ (g.saved # h.saved => g.fired) /\ (h.fired => g.fired)
  /\ (g.fired => h.fired \/ g.armed)

LEMMA DoneReached ==
  ASSUME NEW h, NEW g, Done(h, g)
  PROVE  Reached(h, g)
BY DEF Done, Reached, Standing, Awake

LEMMA ReachedTransitive ==
  ASSUME NEW f, NEW g, NEW h, Reached(f, g), Reached(g, h)
  PROVE  Reached(f, h)
<1>1. \A i \in DOMAIN f.queue : \E j \in DOMAIN h.queue : h.queue[j] = f.queue[i]
  BY DEF Reached
<1>2. h.saved # f.saved => h.fired
  BY DEF Reached
<1> QED
  BY <1>1, <1>2 DEF Reached

LEMMA CallFacts ==
  ASSUME NEW c \in Calls
  PROVE  \/ c.op \in {"push", "replace"} /\ c.state \in States
         \/ c.op = "back"
BY DEF Calls, Call

LEMMA PerformDone ==
  ASSUME NEW h, Tab(h), h.api = "html5" => AtState(h), NEW c \in Calls
  PROVE  LET g == Perform(h, c) IN
         /\ Done(h, g)
         /\ c.op # "back" => g.saved = c.state
         /\ c.op = "back" => g.saved = h.saved /\ g.fired = h.fired
<1>1. CASE c.op = "push"
  <2>1. c.state \in States /\ Perform(h, c) = PushState(h, c.state)
    BY <1>1, CallFacts DEF Perform
  <2>2. Done(h, PushState(h, c.state)) /\ PushState(h, c.state).saved = c.state
    BY <2>1, PushState5Done, PushState4Done DEF PushState
  <2> QED
    BY <1>1, <2>1, <2>2
<1>2. CASE c.op = "replace"
  <2>1. c.state \in States /\ Perform(h, c) = ReplaceState(h, c.state)
    BY <1>2, CallFacts DEF Perform
  <2>2. CASE h.api = "html5"
    <3>1. Done(h, ReplaceState5(h, c.state)) /\ ReplaceState5(h, c.state).saved = c.state
      BY <2>1, <2>2, ReplaceState5Done DEF Tab, EntriesKept
    <3> QED
      BY <1>2, <2>1, <2>2, <3>1 DEF ReplaceState
  <2>3. CASE h.api # "html5"
    <3>1. Done(h, ReplaceState4(h, c.state)) /\ ReplaceState4(h, c.state).saved = c.state
      BY <2>1, <2>3, ReplaceState4Done
    <3> QED
      BY <1>2, <2>1, <2>3, <3>1 DEF ReplaceState
  <2> QED
    BY <2>2, <2>3
<1>3. CASE c.op = "back"
  <2> DEFINE f == [h EXCEPT !.armed = TRUE]
  <2>1. Perform(h, c) = Go(f, -1)
    BY <1>3 DEF Perform, Back
  <2>2. /\ f \in History /\ f.armed /\ SameTab(h, f) /\ SameStores(h, f) /\ SameSaved(h, f)
        /\ f.queue = h.queue /\ f.expected = h.expected
    BY DEF Tab, History, SameTab, SameStores, SameSaved
  <2> HIDE DEF f
  <2>3. Tab(f) /\ (f.api = "html5" => AtState(f))
    BY <2>2, TabKept DEF SameTab, SameSaved
  <2>4. Done(f, Go(f, -1)) /\ Go(f, -1).saved = f.saved /\ Go(f, -1).fired = f.fired
    BY <2>3, GoDone
  <2>5. Done(h, Go(f, -1))
    BY <2>2, <2>4 DEF Done, SameTab, SameSaved
  <2> QED
    BY <1>3, <2>1, <2>2, <2>4, <2>5 DEF SameSaved
<1> QED
  BY <1>1, <1>2, <1>3, CallFacts

LEMMA AskReached ==
  ASSUME NEW h, Standing(h), NEW c \in Calls
  PROVE  LET g == Ask(h, c) IN
         /\ Reached(h, g)
         /\ c.op = "back" => g.saved = h.saved /\ g.fired = h.fired
         /\ h.busy => g.saved = h.saved /\ g.fired = h.fired /\ \E i \in DOMAIN g.queue : g.queue[i] = c
         /\ ~h.busy /\ c.op # "back" => g.saved = c.state
<1>1. CASE ~h.busy
  BY <1>1, PerformDone, DoneReached DEF Ask, Standing
<1>2. CASE h.busy
  <2> DEFINE Q == Append(h.queue, c)
             g == [h EXCEPT !.queue = Q]
  <2>1. h \in History /\ h.queue \in Seq(Calls)
    BY DEF Standing, Tab, History
  <2>2. Ask(h, c) = g
    BY <1>2, <2>1 DEF Ask, PushQueue, History
  <2>3. /\ Q \in Seq(Calls) /\ Len(Q) = Len(h.queue) + 1 /\ Q[Len(Q)] = c
        /\ \A i \in 1..Len(h.queue) : Q[i] = h.queue[i]
    BY <2>1, AppendProperties
  <2>4. /\ DOMAIN Q = 1..Len(Q) /\ DOMAIN h.queue = 1..Len(h.queue)
        /\ Len(h.queue) \in Nat
    BY <2>1, <2>3, LenProperties
  <2> HIDE DEF Q
  <2>5. /\ \A i \in DOMAIN h.queue : \E j \in DOMAIN Q : Q[j] = h.queue[i]
        /\ \E i \in DOMAIN Q : Q[i] = c
    BY <2>3, <2>4
  <2>6. /\ g \in History /\ g.queue = Q /\ SameTab(h, g) /\ SameEvents(h, g) /\ SameFlags(h, g)
        /\ SameStores(h, g) /\ SameSaved(h, g) /\ g.expected = h.expected
    BY <2>1, <2>3 DEF History, SameTab, SameEvents, SameFlags, SameStores, SameSaved
  <2> HIDE DEF g
  <2>7. Tab(g) /\ (g.api = "html5" => AtState(g))
    BY <2>6, TabKept DEF Standing, SameTab, SameSaved
  <2>8. Owed(g) /\ Awake(g)
    BY <1>2, <2>6 DEF Standing, Owed, Awake, SameTab, SameEvents, SameFlags
  <2>9. Reached(h, g)
    BY <2>5, <2>6, <2>7, <2>8 DEF Reached, Standing, SameTab, SameFlags, SameSaved
  <2> QED
    BY <1>2, <2>2, <2>5, <2>6, <2>9 DEF SameSaved
<1> QED
  BY <1>1, <1>2

\* A set of numbers that has 0 and, with a number, the next one has them all.
LEMMA NumberInduction ==
  ASSUME NEW T, 0 \in T, \A n \in Nat : n \in T => n + 1 \in T
  PROVE  \A n \in Nat : n \in T
<1> SUFFICES ASSUME Nat \ T # {} PROVE FALSE
  OBVIOUS
<1> DEFINE Less == OpToRel(<, Nat)
<1>1. IsWellFoundedOn(Less, Nat)
  BY NatLessThanWellFounded
<1>2. \A x, y \in Nat : <<y, x>> \in Less <=> y < x
  BY DEF OpToRel
<1> HIDE DEF Less
<1>3. PICK x \in Nat \ T : \A y \in Nat \ T : ~ (<<y, x>> \in Less)
  BY <1>1, WFMin
<1>4. x # 0 /\ x - 1 \in Nat /\ x - 1 < x
  OBVIOUS
<1>5. x - 1 \in T
  BY <1>2, <1>3, <1>4
<1>6. (x - 1) + 1 = x
  OBVIOUS
<1> QED
  BY <1>3, <1>4, <1>5, <1>6

\* The states between the calls of one handler after the other.
Calling(h, c, n, f) == f = [i \in 0..n |-> IF i = 0 THEN h ELSE Ask(f[i - 1], c)]

LEMMA CallingSteps ==
  ASSUME NEW h, NEW c, NEW n \in Nat, NEW f, Calling(h, c, n, f)
  PROVE  f[0] = h /\ \A i \in 1..n : f[i] = Ask(f[i - 1], c)
<1> DEFINE g == [i \in 0..n |-> IF i = 0 THEN h ELSE Ask(f[i - 1], c)]
<1>1. f = g
  BY DEF Calling
<1>2. g[0] = h
  OBVIOUS
<1>3. ASSUME NEW i \in 1..n
      PROVE  g[i] = Ask(f[i - 1], c)
  <2>1. i \in 0..n /\ i # 0
    OBVIOUS
  <2> QED
    BY <2>1
<1> HIDE DEF g
<1> QED
  BY <1>1, <1>2, <1>3

LEMMA CallingExists ==
  ASSUME NEW h, NEW c
  PROVE  \A n \in Nat : \E f : Calling(h, c, n, f)
<1> DEFINE T == {n \in Nat : \E f : Calling(h, c, n, f)}
<1>1. 0 \in T
  <2> DEFINE f == [i \in 0..0 |-> h]
  <2>1. Calling(h, c, 0, f)
    BY DEF Calling
  <2> QED
    BY <2>1
<1>2. ASSUME NEW n \in Nat, n \in T
      PROVE  n + 1 \in T
  <2>1. PICK f : Calling(h, c, n, f)
    BY <1>2
  <2>2. f[0] = h /\ \A i \in 1..n : f[i] = Ask(f[i - 1], c)
    BY <2>1, CallingSteps
  <2> DEFINE last == Ask(f[n], c)
             g == [i \in 0..(n + 1) |-> IF i = n + 1 THEN last ELSE f[i]]
             k == [i \in 0..(n + 1) |-> IF i = 0 THEN h ELSE Ask(g[i - 1], c)]
  <2>3. ASSUME NEW i \in 0..(n + 1)
        PROVE  g[i] = k[i]
    <3>1. CASE i = 0
      BY <3>1, <2>2
    <3>2. CASE i = n + 1
      <4>1. g[n] = f[n] /\ i - 1 = n /\ i # 0
        BY <3>2
      <4> QED
        BY <3>2, <4>1
    <3>3. CASE i # 0 /\ i # n + 1
      <4>1. i \in 1..n /\ i - 1 \in 0..n /\ i - 1 # n + 1
        BY <3>3
      <4>2. g[i - 1] = f[i - 1] /\ g[i] = f[i]
        BY <4>1, <3>3
      <4> QED
        BY <2>2, <4>1, <4>2, <3>3
    <3> QED
      BY <3>1, <3>2, <3>3
  <2>4. g = k
    BY <2>3
  <2>5. Calling(h, c, n + 1, g)
    BY <2>4 DEF Calling
  <2> QED
    BY <2>5
<1> HIDE DEF T
<1>3. \A n \in Nat : n \in T
  BY <1>1, <1>2, NumberInduction
<1> QED
  BY <1>3 DEF T

\* What every call preserves, the same call made several times preserves.
LEMMA AgainStays ==
  ASSUME NEW S, NEW h \in S, NEW c, NEW n \in Nat, \A g \in S : Ask(g, c) \in S
  PROVE  Again(h, c, n) \in S
<1> DEFINE after == CHOOSE f : Calling(h, c, n, f)
<1>1. Again(h, c, n) = after[n]
  BY DEF Again, Calling
<1>2. \E f : Calling(h, c, n, f)
  BY CallingExists
<1>3. Calling(h, c, n, after)
  BY <1>2
<1> HIDE DEF after
<1>4. after[0] = h /\ \A i \in 1..n : after[i] = Ask(after[i - 1], c)
  BY <1>3, CallingSteps
<1> DEFINE T == {i \in Nat : i <= n => after[i] \in S}
<1>5. 0 \in T
  BY <1>4
<1>6. ASSUME NEW i \in Nat, i \in T
      PROVE  i + 1 \in T
  <2> SUFFICES ASSUME i + 1 <= n
               PROVE  after[i + 1] \in S
    OBVIOUS
  <2>1. after[i] \in S /\ i + 1 \in 1..n /\ (i + 1) - 1 = i
    BY <1>6
  <2> QED
    BY <2>1, <1>4
<1> HIDE DEF T
<1>7. n \in T
  BY <1>5, <1>6, NumberInduction
<1> QED
  BY <1>1, <1>7 DEF T

LEMMA AgainReached ==
  ASSUME NEW h, Standing(h), NEW c \in Calls, NEW n \in Nat
  PROVE  Reached(h, Again(h, c, n))
<1> DEFINE S == {g \in History : Reached(h, g)}
<1>1. h \in S
  BY DEF Reached, Standing, Tab
<1>2. ASSUME NEW g \in S
      PROVE  Ask(g, c) \in S
  <2>1. Standing(g)
    BY DEF Reached
  <2>2. Reached(g, Ask(g, c))
    BY <2>1, AskReached
  <2>3. Reached(h, Ask(g, c))
    BY <2>2, ReachedTransitive
  <2>4. Ask(g, c) \in History
    BY <2>2 DEF Reached, Standing, Tab
  <2> QED
    BY <2>3, <2>4
<1> HIDE DEF S
<1>3. Again(h, c, n) \in S
  BY <1>1, <1>2, AgainStays
<1> QED
  BY <1>3 DEF S

-----------------------------------------------------------------------------
(* The tab.                                                                 *)

LEMMA TraverseReached ==
  ASSUME NEW h, Tab(h), Awake(h), NEW d \in {-1, 1}, CanTraverse(h, d), SameDocument(h, d)
  PROVE  Reached(h, Traverse(h, d))
<1> DEFINE n == h.pos + d
           m == [h EXCEPT !.pos = n]
<1>1. h \in History /\ n \in 1..Len(h.entries) /\ Len(h.entries) \in Nat /\ h.pos \in Nat \ {0}
  BY HereTyped DEF Tab, CanTraverse, History
<1>2. Moved(h, d) = m
  BY <1>1 DEF Moved, History
<1>3. n \in Nat \ {0} /\ (n = h.pos + 1 \/ n + 1 = h.pos)
  BY <1>1
<1> HIDE DEF n
<1>4. /\ m \in History /\ m.entries = h.entries /\ m.pos = n /\ m.api = h.api
      /\ SameEvents(h, m) /\ SameFlags(h, m) /\ SameStores(h, m) /\ SameSaved(h, m)
      /\ m.queue = h.queue /\ m.expected = h.expected
  BY <1>1, <1>3 DEF History, SameEvents, SameFlags, SameStores, SameSaved
<1> HIDE DEF m
<1>5. m.pos \in 1..Len(m.entries) /\ UrlsAgree(m) /\ Here(m) = h.entries[n]
  BY <1>1, <1>4 DEF Tab, UrlsAgree, SameStores, Here
<1>6. CASE h.api = "html5"
  <2>1. EntriesKept(m) /\ m.expected = None /\ m.api = "html5" /\ m.hashTasks = 0
    BY <1>4, <1>6 DEF Tab, EntriesKept, SameStores, SameEvents
  <2>2. Here(m).hash = None
    BY <2>1, <1>4, <1>5, HereTyped DEF EntriesKept, Here
  <2>3. Traverse(h, d) = PopState(m, Here(m).sid)
    BY <2>2, <1>2, <1>6 DEF Traverse, OnPopState
  <2>4. Incoming(m, Here(m).sid)
    BY <2>1 DEF Incoming
  <2>5. Done(m, PopState(m, Here(m).sid))
    BY <2>1, <2>4, <1>4, <1>5, PopStateDone
  <2>6. Done(h, PopState(m, Here(m).sid))
    BY <2>5, <1>4 DEF Done, SameFlags, SameSaved
  <2> QED
    BY <2>3, <2>6, DoneReached
<1>7. CASE h.api # "html5"
  <2> DEFINE k == m.hashTasks + IF h.api = "html4" /\ Hash(m) # Hash(h) THEN 1 ELSE 0
             g == [m EXCEPT !.hashTasks = k]
  <2>1. Traverse(h, d) = g
    BY <1>2, <1>4, <1>7 DEF Traverse, History
  <2>2. h.entries[n].doc = h.entries[h.pos].doc
    BY DEF SameDocument, Here, n
  <2>3. Hash(m) # Hash(h)
    <3>1. CASE n = h.pos + 1
      <4>1. h.pos \in 1..(Len(h.entries) - 1)
        BY <3>1, <1>1, <1>3
      <4> QED
        BY <4>1, <3>1, <2>2, <1>5, <1>7 DEF Tab, Apart, Hash, Here
    <3>2. CASE n + 1 = h.pos
      <4>1. n \in 1..(Len(h.entries) - 1)
        BY <3>2, <1>1, <1>3, HereTyped DEF Tab
      <4> QED
        BY <4>1, <3>2, <2>2, <1>5, <1>7 DEF Tab, Apart, Hash, Here
    <3> QED
      BY <1>3, <3>1, <3>2
  <2>4. k \in Nat /\ (h.api = "html4" => k > 0)
    BY <2>3, <1>4 DEF History
  <2> HIDE DEF k
  <2>5. /\ g \in History /\ g.hashTasks = k /\ SamePlace(m, g) /\ SameFlags(m, g) /\ SameStores(m, g)
        /\ SameSaved(m, g) /\ g.queue = m.queue /\ g.expected = m.expected
    BY <2>4, <1>4 DEF History, SamePlace, SameFlags, SameStores, SameSaved
  <2> HIDE DEF g
  <2>6. g.api = h.api /\ g.entries = h.entries /\ g.pos = n /\ g.saved = h.saved /\ g.fired = h.fired
        /\ g.queue = h.queue /\ g.expected = h.expected /\ g.armed = h.armed /\ g.busy = h.busy
        /\ g.urlToId = h.urlToId
    BY <2>5, <1>4 DEF SamePlace, SameFlags, SameStores, SameSaved
  <2>7. Tab(g)
    BY <2>5, <2>6, <1>1, <1>7 DEF Tab, UrlsAgree, Apart
  <2>8. g.api \in {"html4", "poll"}
    BY <2>6, <1>1, <1>7 DEF History
  <2>9. Owed(g) /\ Awake(g)
    BY <2>4, <2>5, <2>6, <2>8 DEF Owed, Awake
  <2>10. Reached(h, g)
    BY <2>6, <2>7, <2>8, <2>9 DEF Reached, Standing
  <2> QED
    BY <2>1, <2>10
<1> QED
  BY <1>6, <1>7

\* A tab that may load the document: what the entry it shows has in its
\* fragment is a state of the console.
Loadable(h) ==
  /\ h \in History /\ h.pos \in 1..Len(h.entries) /\ UrlsAgree(h)
  /\ h.api # "html5" => Apart(h)
  /\ h.api = "html5" =>
       /\ \A i \in DOMAIN h.entries :
            (i = h.pos /\ Here(h).hash # None) \/
            (/\ h.entries[i].hash = None
             /\ h.entries[i].sid # None => h.entries[i].sid.url = h.entries[i].url)
       /\ Here(h).hash # Bare("hashed")

LEMMA AgedFacts ==
  ASSUME NEW es \in Seq(Entries)
  PROVE  /\ Aged(es) \in Seq(Entries) /\ Len(Aged(es)) = Len(es) /\ DOMAIN Aged(es) = DOMAIN es
         /\ \A i \in DOMAIN es :
              LET e == Aged(es)[i] IN
              /\ e.url = es[i].url /\ e.sid = es[i].sid /\ e.hash = es[i].hash /\ e.doc = es[i].doc
              /\ ~e.live
<1> DEFINE n == Len(es)
           old == [i \in DOMAIN es |-> [es[i] EXCEPT !.live = FALSE]]
<1>1. n \in Nat /\ DOMAIN es = 1..n
  BY LenProperties
<1>2. ASSUME NEW e \in Entries
      PROVE  LET f == [e EXCEPT !.live = FALSE] IN
             f \in Entries /\ f.url = e.url /\ f.sid = e.sid /\ f.hash = e.hash /\ f.doc = e.doc /\ f.live = FALSE
  BY DEF Entries
<1>3. \A i \in 1..n : es[i] \in Entries
  BY ElementOfSeq
<1>4. old \in [1..n -> Entries]
  BY <1>1, <1>2, <1>3
<1>5. old \in Seq(Entries) /\ Len(old) = n
  BY <1>1, <1>4, SeqDef, LenProperties
<1>6. \A i \in 1..n : old[i] = [es[i] EXCEPT !.live = FALSE]
  BY <1>1
<1>7. Aged(es) = SubSeq(old, 1, n)
  BY DEF Aged
<1> HIDE DEF old, n
<1>8. /\ Aged(es) \in Seq(Entries) /\ Len(Aged(es)) = n
      /\ \A i \in 1..n : Aged(es)[i] = old[i]
  BY <1>1, <1>5, <1>7, SubSeqProperties
<1>9. DOMAIN Aged(es) = 1..n
  BY <1>8, LenProperties
<1>10. \A i \in 1..n : Aged(es)[i] = [es[i] EXCEPT !.live = FALSE]
  BY <1>6, <1>8
<1>11. ASSUME NEW i \in 1..n
       PROVE  LET e == Aged(es)[i] IN
              /\ e.url = es[i].url /\ e.sid = es[i].sid /\ e.hash = es[i].hash /\ e.doc = es[i].doc
              /\ ~e.live
  <2> DEFINE f == es[i]
             e == [f EXCEPT !.live = FALSE]
  <2>1. f \in Entries /\ Aged(es)[i] = e
    BY <1>3, <1>10
  <2> HIDE DEF f
  <2>2. e.url = f.url /\ e.sid = f.sid /\ e.hash = f.hash /\ e.doc = f.doc /\ e.live = FALSE
    BY <2>1, <1>2
  <2> QED
    BY <2>1, <2>2 DEF f
<1> QED
  BY <1>1, <1>8, <1>9, <1>11 DEF n

LEMMA UnloadedFacts ==
  ASSUME NEW h \in History, UrlsAgree(h)
  PROVE  LET g == Unloaded(h) IN g \in History /\ UrlsAgree(g) /\ SameTab(h, g)
<1> DEFINE K == IF h.storage THEN h.known ELSE {}
           U == IF h.storage THEN h.urlToId ELSE [u \in Urls |-> None]
           g == [h EXCEPT !.known = K, !.urlToId = U]
<1>1. Unloaded(h) = g
  BY DEF Unloaded, History
<1>2. /\ K \subseteq States /\ U \in [Urls -> States \cup {None}]
      /\ \A u \in Urls : U[u] # None => U[u].url = u
  BY DEF History, UrlsAgree
<1> HIDE DEF K, U
<1>3. g \in History /\ g.urlToId = U /\ SameTab(h, g)
  BY <1>2 DEF History, SameTab
<1> QED
  BY <1>1, <1>2, <1>3 DEF UrlsAgree

LEMMA LoadedStands ==
  ASSUME NEW h, Loadable(h)
  PROVE  LET g == Loaded(h) IN Standing(g) /\ ~g.fired /\ g.queue = <<>> /\ g.api = h.api
<1> DEFINE first == IF Hash(h) # None THEN Bare("hashed")
                    ELSE IF h.storage THEN ExtractUrl(h, Here(h).url) ELSE Bare(Here(h).url)
           u == Unloaded(h)
           E == Aged(u.entries)
           D == [s \in States |-> None]
           fresh == [u EXCEPT !.entries = E,
                     !.going = <<>>, !.hashTasks = 0, !.polledHash = None,
                     !.busy = FALSE, !.armed = FALSE, !.queue = <<>>, !.lost = FALSE,
                     !.saved = first, !.expected = None, !.fired = FALSE,
                     !.hashes = <<>>, !.discarded = D]
           ready == StoreState(fresh, first)
           next == IF h.api = "html5" THEN OnPopState(ready, None) ELSE OnHashChange(ready)
<1>1. /\ Loaded(h) = IF Hash(h) = None \/ h.api = "poll" THEN ready ELSE [next EXCEPT !.fired = FALSE]
      /\ Here(h) \in Entries /\ Here(h).url \in Urls /\ Hash(h) \in States \cup {None}
      /\ h \in History
  <2>1. u \in History
    BY UnloadedFacts DEF Loadable
  <2>2. fresh = [u EXCEPT !.entries = Aged(@),
                  !.going = <<>>, !.hashTasks = 0, !.polledHash = None,
                  !.busy = FALSE, !.armed = FALSE, !.queue = <<>>, !.lost = FALSE,
                  !.saved = first, !.expected = None, !.fired = FALSE,
                  !.hashes = <<>>, !.discarded = D]
    BY <2>1 DEF History
  <2>3. Here(h) \in Entries /\ h \in History
    BY HereTyped DEF Loadable
  <2>4. Here(h).url \in Urls /\ Hash(h) \in States \cup {None}
    BY <2>3, EntryTyped DEF Hash
  <2> QED
    BY <2>2, <2>3, <2>4 DEF Loaded
<1>2. /\ first \in States /\ (Hash(h) = None => first.url = Here(h).url)
      /\ (Hash(h) # None => first = Bare("hashed"))
  BY <1>1, StateFacts, BareUrl, ExtractFacts DEF Loadable, Urls
<1>3. u \in History /\ UrlsAgree(u) /\ SameTab(h, u)
  BY UnloadedFacts DEF Loadable
<1> HIDE DEF u, first
<1>4. /\ E \in Seq(Entries) /\ Len(E) = Len(h.entries) /\ DOMAIN E = DOMAIN h.entries
      /\ \A i \in DOMAIN h.entries :
           /\ E[i].url = h.entries[i].url /\ E[i].sid = h.entries[i].sid
           /\ E[i].hash = h.entries[i].hash /\ E[i].doc = h.entries[i].doc
           /\ ~E[i].live
  <2>1. u.entries = h.entries /\ h.entries \in Seq(Entries)
    BY <1>1, <1>3, HereTyped DEF SameTab, Loadable
  <2> HIDE DEF E
  <2>2. LET es == h.entries IN E = Aged(es)
    BY <2>1 DEF E
  <2> QED
    BY <2>1, <2>2, AgedFacts
<1>5. D \in [States -> States \cup {None}] /\ <<>> \in Seq({-1, 1}) /\ <<>> \in Seq(Calls)
      /\ <<>> \in Seq(States \cup {None})
  OBVIOUS
<1> HIDE DEF E, D
<1>6. /\ fresh \in History /\ fresh.entries = E /\ fresh.pos = u.pos /\ fresh.api = u.api
      /\ fresh.urlToId = u.urlToId /\ ~fresh.busy /\ fresh.queue = <<>> /\ fresh.saved = first
      /\ fresh.expected = None /\ ~fresh.fired /\ fresh.hashTasks = 0
  BY <1>2, <1>3, <1>4, <1>5 DEF History
<1> HIDE DEF fresh
<1>7. UrlsAgree(fresh)
  BY <1>3, <1>6 DEF UrlsAgree
<1>8. /\ ready \in History /\ UrlsAgree(ready)
      /\ SameTab(fresh, ready) /\ SameFlags(fresh, ready) /\ SameSaved(fresh, ready)
      /\ ready.queue = fresh.queue /\ ready.expected = fresh.expected
  BY <1>2, <1>6, <1>7, StoreFacts
<1> HIDE DEF ready
<1>9. /\ ready.entries = E /\ ready.pos = h.pos /\ ready.api = h.api /\ ready.saved = first
      /\ ~ready.busy /\ ready.queue = <<>> /\ ready.expected = None /\ ~ready.fired
      /\ ready.hashTasks = 0
  BY <1>3, <1>6, <1>8 DEF SameTab, SameFlags, SameSaved
<1>10. /\ ready.pos \in 1..Len(ready.entries) /\ ready.pos \in DOMAIN ready.entries
       /\ h.pos \in DOMAIN h.entries /\ DOMAIN h.entries = 1..Len(h.entries)
  BY <1>4, <1>8, <1>9, <1>1, HereTyped DEF Loadable
<1>11. /\ Here(ready).url = Here(h).url /\ Hash(ready) = Hash(h) /\ Here(ready).sid = Here(h).sid
       /\ ~Here(ready).live
  BY <1>4, <1>9, <1>10 DEF Here, Hash
<1>12. ready.api # "html5" => Tab(ready)
  <2> SUFFICES ASSUME ready.api # "html5"
               PROVE  Apart(ready)
    BY <1>8, <1>9, <1>10 DEF Tab
  <2> SUFFICES ASSUME NEW i \in 1..(Len(ready.entries) - 1), ready.entries[i].doc = ready.entries[i + 1].doc
               PROVE  ready.entries[i].hash # ready.entries[i + 1].hash
    BY DEF Apart
  <2>1. Len(h.entries) \in Nat
    BY <1>1, HereTyped, LenProperties DEF Loadable
  <2>2. i \in DOMAIN h.entries /\ i + 1 \in DOMAIN h.entries /\ i \in 1..(Len(h.entries) - 1)
    BY <2>1, <1>4, <1>9, <1>10
  <2> QED
    BY <2>2, <1>4, <1>9 DEF Loadable, Apart
<1>13. ready.api = "html5" =>
         \A i \in DOMAIN ready.entries :
            (i = ready.pos /\ Hash(ready) # None) \/
            (/\ ready.entries[i].hash = None
             /\ ready.entries[i].sid # None => ready.entries[i].sid.url = ready.entries[i].url
             /\ ~ready.entries[i].live)
  BY <1>4, <1>9, <1>10, <1>11 DEF Loadable, Hash
<1>14. CASE Hash(h) = None \/ h.api = "poll"
  <2>1. Tab(ready) /\ (ready.api = "html5" => AtState(ready))
    <3>1. CASE h.api = "html5"
      <4>1. EntriesKept(ready)
        BY <3>1, <1>9, <1>11, <1>13, <1>14 DEF EntriesKept
      <4>2. AtState(ready)
        BY <3>1, <1>2, <1>9, <1>11, <1>14 DEF AtState
      <4> QED
        BY <4>1, <4>2, <3>1, <1>8, <1>9, <1>10 DEF Tab
    <3>2. CASE h.api # "html5"
      BY <3>2, <1>9, <1>12
    <3> QED
      BY <3>1, <3>2
  <2>2. Standing(ready)
    BY <2>1, <1>9 DEF Standing, Owed, Awake
  <2> QED
    BY <2>2, <1>1, <1>9, <1>14
<1>15. CASE Hash(h) # None /\ h.api # "poll"
  <2>1. Done(ready, next)
    <3>1. CASE h.api = "html5"
      <4> DEFINE s == ExtractHash(ready, Hash(ready))
      <4>1. Hash(h) \in States /\ Hash(h) # Bare("hashed")
        BY <1>1, <1>15, <3>1 DEF Loadable, Hash
      <4>2. s \in States /\ s.url = Hash(h).url
        BY <4>1, <1>8, <1>11, ExtractFacts
      <4>3. s # first
        BY <4>1, <4>2, <1>2, <1>15, BareUrl, StateFacts
      <4>4. next = [ReplaceState5(ready, s) EXCEPT !.expected = None]
        BY <1>11, <1>15, <3>1 DEF OnPopState, Hash
      <4> HIDE DEF s
      <4>5. Done(ready, ReplaceState5(ready, s))
        BY <4>2, <4>3, <3>1, <1>8, <1>9, <1>10, <1>13, ReplaceState5Done
      <4> DEFINE f == ReplaceState5(ready, s)
                 g == [f EXCEPT !.expected = None]
      <4> HIDE DEF f
      <4>6. f \in History /\ f.expected = None
        BY <4>5, <3>1, <1>9 DEF Done, Tab, f
      <4>7. g = f
        BY <4>6 DEF History
      <4> QED
        BY <4>4, <4>5, <4>7 DEF f
    <3>2. CASE h.api # "html5"
      BY <3>2, <1>9, <1>12, OnHashChangeDone
    <3> QED
      BY <3>1, <3>2
  <2>2. Standing(next) /\ next.queue = <<>> /\ next.api = h.api /\ next \in History
    BY <2>1, <1>9, DoneReached DEF Reached, Done, Tab
  <2> DEFINE g == [next EXCEPT !.fired = FALSE]
  <2> HIDE DEF next
  <2>3. /\ g \in History /\ SameTab(next, g) /\ SameEvents(next, g) /\ SameFlags(next, g) /\ SameStores(next, g)
        /\ g.saved = next.saved /\ g.fired = FALSE /\ g.queue = next.queue /\ g.expected = next.expected
    BY <2>2 DEF History, SameTab, SameEvents, SameFlags, SameStores
  <2> HIDE DEF g
  <2>4. Tab(g) /\ (AtState(next) => AtState(g))
    BY <2>2, <2>3, TabKept DEF Standing
  <2>5. Owed(g) /\ Awake(g)
    BY <2>2, <2>3 DEF Standing, Owed, Awake, SameTab, SameEvents, SameFlags
  <2>6. Standing(g) /\ ~g.fired /\ g.queue = <<>> /\ g.api = h.api
    BY <2>2, <2>3, <2>4, <2>5 DEF Standing, SameTab
  <2> QED
    BY <2>6, <1>1, <1>15 DEF g
<1> QED
  BY <1>14, <1>15

-----------------------------------------------------------------------------
(* The router.                                                              *)

\* RouteCalls for a user who is logged on, or is not.
RouteFor(on, s) ==
  CASE ~on /\ s.url # "logon"                    -> <<Call("push", Titled("logon"))>>
    [] on /\ s.url = "server" /\ s.luid = None   -> <<Call("back", None)>>
    [] on /\ s.url \notin {"index", "server"}    -> <<Call("replace", Titled("index"))>>
    [] OTHER                                     -> <<>>

\* And Listened.
ListenedBy(on, h, u, reqs) ==
  LET s == GetState(h)
      builds == h.fired /\ RouteFor(on, s) = <<>>
  IN [hist |-> IF h.fired THEN [h EXCEPT !.fired = FALSE, !.queue = @ \o RouteFor(on, s)] ELSE h,
      ui |-> IF builds THEN Page(u, s, {r \in Requests : reqs[r] > 0}) ELSE u,
      requests |-> IF builds THEN Sent(reqs, s) ELSE reqs]

\* And Routed.
RoutedBy(on, h, g) ==
  LET calls == RouteFor(on, GetState(g))
      atOnce == h.api = "html5" /\ ~h.busy /\ Hash(h) = None /\ g.fired
  IN IF atOnce /\ calls # <<>> THEN Busy(Perform([g EXCEPT !.fired = FALSE], calls[1]), FALSE) ELSE g

\* It redirects to another page than the one the state names, goes back from
\* the servers of no module, or builds the page of the state.
LEMMA RouteFacts ==
  ASSUME NEW on, NEW s \in States
  PROVE  \/ \E c \in Redirections : RouteFor(on, s) = <<c>> /\ c.state # s
         \/ \E c \in Calls : RouteFor(on, s) = <<c>> /\ c.op = "back" /\ s = Bare("server")
         \/ RouteFor(on, s) = <<>> /\ s.url \in {"logon", "index"}
         \/ RouteFor(on, s) = <<>> /\ s.url = "server" /\ s.luid \in Luids
<1>1. /\ Call("push", Titled("logon")).state.url = "logon"
      /\ Call("replace", Titled("index")).state.url = "index"
      /\ Call("back", None).op = "back" /\ Call("back", None) \in Calls
  BY DEF Call, Titled, State, Calls
<1>2. s.luid \in Luids \cup {None} /\ (s.url = "server" /\ s.luid = None => s = Bare("server"))
  BY StateFacts
<1>3. CASE ~on /\ s.url # "logon"
  <2>1. RouteFor(on, s) = <<Call("push", Titled("logon"))>>
    BY <1>3 DEF RouteFor
  <2> QED
    BY <2>1, <1>1, <1>3 DEF Redirections
<1>4. CASE on /\ s.url = "server" /\ s.luid = None
  <2>1. RouteFor(on, s) = <<Call("back", None)>>
    BY <1>4 DEF RouteFor
  <2> QED
    BY <2>1, <1>1, <1>2, <1>4
<1>5. CASE on /\ s.url \notin {"index", "server"}
  <2>1. RouteFor(on, s) = <<Call("replace", Titled("index"))>>
    BY <1>5 DEF RouteFor
  <2> QED
    BY <2>1, <1>1, <1>5 DEF Redirections
<1>6. CASE /\ ~(~on /\ s.url # "logon") /\ ~(on /\ s.url = "server" /\ s.luid = None)
           /\ ~(on /\ s.url \notin {"index", "server"})
  <2>1. RouteFor(on, s) = <<>>
    BY <1>6 DEF RouteFor
  <2> QED
    BY <2>1, <1>2, <1>6
<1> QED
  BY <1>3, <1>4, <1>5, <1>6

LEMMA RedirectionFacts ==
  /\ Redirections \subseteq Calls
  /\ \A c \in Redirections : c.op # "back" /\ c.state \in States
BY StateFacts DEF Redirections, Calls, Call

\* The page built for a state is the page of that state.
LEMMA PageFacts ==
  ASSUME NEW u \in Ui, NEW s \in States, NEW late \in SUBSET Requests,
         s.url \in {"logon", "index"} \/ (s.url = "server" /\ s.luid \in Luids)
  PROVE  LET p == Page(u, s, late) IN
         /\ p \in Ui /\ p.kind = PageAt(s.url) /\ (p.kind = "server" => p.luid = s.luid)
         /\ p.list = "empty" /\ p.lists = <<>> /\ p.late = late
<1>1. u.backs \in Nat /\ <<>> \in Seq(BOOLEAN) /\ "empty" \in Lists
  BY DEF Ui, Lists
<1>2. CASE s.url = "logon"
  <2> DEFINE p == [kind |-> "logon", luid |-> None, list |-> "empty", lists |-> <<>>, backs |-> u.backs, late |-> late]
  <2>1. Page(u, s, late) = p
    BY <1>2 DEF Page, LogonPage, Blank
  <2>2. p \in Ui
    BY <1>1, <1>2 DEF Ui, Pages
  <2>3. p.kind = "logon" /\ p.luid = None /\ p.list = "empty" /\ p.lists = <<>> /\ p.late = late
    OBVIOUS
  <2>4. PageAt(s.url) = "logon"
    BY <1>2 DEF PageAt
  <2> HIDE DEF p
  <2> QED
    BY <2>1, <2>2, <2>3, <2>4
<1>3. CASE s.url = "index"
  <2> DEFINE p == [kind |-> "module", luid |-> None, list |-> "empty", lists |-> <<>>, backs |-> u.backs, late |-> late]
  <2>1. Page(u, s, late) = p
    BY <1>3 DEF Page, ModulePage, Blank
  <2>2. p \in Ui
    BY <1>1, <1>3 DEF Ui, Pages
  <2>3. p.kind = "module" /\ p.luid = None /\ p.list = "empty" /\ p.lists = <<>> /\ p.late = late
    OBVIOUS
  <2>4. PageAt(s.url) = "module"
    BY <1>3 DEF PageAt
  <2> HIDE DEF p
  <2> QED
    BY <2>1, <2>2, <2>3, <2>4
<1>4. CASE s.url = "server" /\ s.luid \in Luids
  <2> DEFINE p == [kind |-> "server", luid |-> s.luid, list |-> "empty", lists |-> <<>>, backs |-> u.backs + 1, late |-> late]
  <2>1. Page(u, s, late) = p
    BY <1>4 DEF Page, ServerPage, Blank
  <2>2. p \in Ui
    BY <1>1, <1>4 DEF Ui, Pages
  <2>3. p.kind = "server" /\ p.luid = s.luid /\ p.list = "empty" /\ p.lists = <<>> /\ p.late = late
    OBVIOUS
  <2>4. PageAt(s.url) = "server"
    BY <1>4 DEF PageAt
  <2> HIDE DEF p
  <2> QED
    BY <2>1, <2>2, <2>3, <2>4
<1> QED
  BY <1>2, <1>3, <1>4

LEMMA SentFacts ==
  ASSUME NEW reqs \in [Requests -> Nat], NEW s \in States,
         s.url \in {"logon", "index"} \/ (s.url = "server" /\ s.luid \in Luids)
  PROVE  LET sent == Sent(reqs, s) IN
         /\ sent \in [Requests -> Nat]
         /\ s.url = "index" => sent["modules"] = reqs["modules"] + 1
         /\ s.url = "server" => \A r \in Requests : r # s.luid => sent[r] = reqs[r]
<1>1. CASE s.url = "logon"
  BY <1>1 DEF Sent
<1>2. CASE s.url = "index"
  BY <1>2 DEF Sent, Requests
<1>3. CASE s.url = "server" /\ s.luid \in Luids
  BY <1>3 DEF Sent, Requests
<1> QED
  BY <1>1, <1>2, <1>3

\* A page just built shows what it was fed: nothing.
LEMMA FreshFed ==
  ASSUME NEW u \in Ui, NEW reqs \in [Requests -> Nat], NEW s \in States,
         s.url \in {"logon", "index"} \/ (s.url = "server" /\ s.luid \in Luids)
  PROVE  Fed(Page(u, s, {r \in Requests : reqs[r] > 0}), Sent(reqs, s))
<1> DEFINE late == {r \in Requests : reqs[r] > 0}
           p == Page(u, s, late)
           sent == Sent(reqs, s)
<1>1. late \in SUBSET Requests
  OBVIOUS
<1>2. /\ p.kind = PageAt(s.url) /\ (p.kind = "server" => p.luid = s.luid)
      /\ p.list = "empty" /\ p.lists = <<>> /\ p.late = late
  <2> HIDE DEF late
  <2> QED
    BY <1>1, PageFacts
<1>3. /\ sent \in [Requests -> Nat]
      /\ s.url = "index" => sent["modules"] = reqs["modules"] + 1
      /\ s.url = "server" => \A r \in Requests : r # s.luid => sent[r] = reqs[r]
  BY SentFacts
<1>4. p.kind = PageAt(s.url) /\ "modules" \in Requests /\ Luids \subseteq Requests /\ "empty" \notin Luids
      /\ s.url \in {"logon", "index", "server"}
  BY <1>2, ConsoleAssumption DEF Requests
<1> HIDE DEF p, sent
<1>5. p.kind = "server" => s.url = "server" /\ p.luid = s.luid
  BY <1>2, <1>4 DEF PageAt
<1>6. p.kind = "module" => s.url = "index"
  BY <1>4 DEF PageAt
<1>7. ASSUME NEW l \in Luids, p.kind = "server", sent[l] > 0
      PROVE  l = p.luid \/ l \in p.late
  <2>1. CASE l # s.luid
    <3>1. sent[l] = reqs[l] /\ l \in Requests
      BY <2>1, <1>3, <1>4, <1>5, <1>7
    <3> QED
      BY <3>1, <1>2, <1>7
  <2> QED
    BY <2>1, <1>5, <1>7
<1>8. ASSUME p.kind = "module", "modules" \notin p.late
      PROVE  sent["modules"] + Len(p.lists) <= 1
  <2>1. ~(reqs["modules"] > 0) /\ reqs["modules"] \in Nat
    BY <1>2, <1>4, <1>8
  <2>2. sent["modules"] = 1
    BY <2>1, <1>3, <1>6, <1>8
  <2>3. Len(p.lists) = 0
    BY <1>2
  <2> QED
    BY <2>2, <2>3
<1>9. Fed(p, sent)
  BY <1>2, <1>4, <1>7, <1>8 DEF Fed
<1> QED
  BY <1>9 DEF p, sent

LEMMA ListenedSettles ==
  ASSUME NEW on, NEW h, Standing(h), NEW u \in Ui, NEW reqs \in [Requests -> Nat],
         h.fired /\ RouteFor(on, h.saved) # <<>> => h.armed,
         ~h.fired => Fits(h, u),
         Fed(u, reqs)
  PROVE  LET t == ListenedBy(on, h, u, reqs) IN
         /\ Settled(t.hist) /\ t.hist.api = h.api
         /\ t.ui \in Ui /\ t.requests \in [Requests -> Nat]
         /\ Fits(t.hist, t.ui) /\ Fed(t.ui, t.requests)
<1> DEFINE s == h.saved
           calls == RouteFor(on, s)
           Q == h.queue \o calls
           g == [h EXCEPT !.fired = FALSE, !.queue = Q]
           late == {r \in Requests : reqs[r] > 0}
           page == Page(u, s, late)
           sent == Sent(reqs, s)
           t == ListenedBy(on, h, u, reqs)
<1>1. h \in History /\ s \in States /\ h.fired \in BOOLEAN /\ h.queue \in Seq(Calls)
  BY DEF Standing, Tab, History
<1>2. t = [hist |-> IF h.fired THEN g ELSE h,
           ui |-> IF h.fired /\ calls = <<>> THEN page ELSE u,
           requests |-> IF h.fired /\ calls = <<>> THEN sent ELSE reqs]
  BY <1>1 DEF ListenedBy, GetState, History
<1>3. CASE ~h.fired
  <2>1. t.hist = h /\ t.ui = u /\ t.requests = reqs
    BY <1>2, <1>3
  <2> HIDE DEF t
  <2>2. Settled(h) /\ Fits(h, u)
    BY <1>3 DEF Settled, Standing
  <2> QED
    BY <2>1, <2>2 DEF t
<1>4. CASE h.fired
  <2>1. calls \in Seq(Calls)
    <3>0. \/ \E c \in Redirections : calls = <<c>>
          \/ \E c \in Calls : calls = <<c>>
          \/ calls = <<>>
      <4> HIDE DEF s
      <4>1. s \in States
        BY <1>1
      <4> QED
        BY <4>1, RouteFacts, Zenon
    <3>1. calls = <<>> \/ \E c \in Calls : calls = <<c>>
      BY <3>0, RedirectionFacts
    <3> HIDE DEF calls
    <3>2. CASE calls = <<>>
      <4>1. <<>> \in Seq(Calls)
        OBVIOUS
      <4> QED
        BY <3>2, <4>1
    <3>3. CASE \E c \in Calls : calls = <<c>>
      <4>1. PICK c \in Calls : calls = <<c>>
        BY <3>3
      <4>2. <<c>> \in Seq(Calls)
        OBVIOUS
      <4> QED
        BY <4>1, <4>2
    <3> QED
      BY <3>1, <3>2, <3>3
  <2> HIDE DEF calls, s
  <2>2. /\ Q \in Seq(Calls) /\ Len(Q) = Len(h.queue) + Len(calls) /\ DOMAIN Q = 1..Len(Q)
        /\ Len(h.queue) \in Nat
        /\ \A i \in 1..Len(calls) : Q[Len(h.queue) + i] = calls[i]
    <3>1. Q \in Seq(Calls) /\ Len(Q) = Len(h.queue) + Len(calls)
      BY <1>1, <2>1, ConcatProperties
    <3>2. Len(h.queue) \in Nat /\ Len(calls) \in Nat /\ DOMAIN Q = 1..Len(Q)
      BY <1>1, <2>1, <3>1, LenProperties
    <3>3. \A i \in 1..Len(calls) : Q[Len(h.queue) + i] = calls[i]
      BY <1>1, <2>1, <3>1, <3>2, ConcatProperties
    <3> QED
      BY <3>1, <3>2, <3>3
  <2>3. calls = <<>> => Q = h.queue
    BY <1>1
  <2> HIDE DEF Q
  <2>4. /\ g \in History /\ ~g.fired /\ g.queue = Q /\ SameTab(h, g) /\ SameEvents(h, g) /\ SameFlags(h, g)
        /\ SameStores(h, g) /\ g.saved = s /\ g.expected = h.expected
    BY <1>1, <2>2 DEF History, SameTab, SameEvents, SameFlags, SameStores, s
  <2> HIDE DEF g
  <2>5. Tab(g) /\ (AtState(h) => AtState(g))
    BY <2>4, TabKept DEF Standing, s
  <2>6. Owed(g)
    BY <2>4 DEF Standing, Owed, SameTab, SameEvents, SameFlags
  <2>7. Awake(g)
    <3>1. CASE calls = <<>>
      BY <3>1, <2>3, <2>4 DEF Standing, Awake, SameFlags
    <3>2. CASE calls # <<>>
      BY <3>2, <2>4, <1>4 DEF Awake, SameFlags, calls, s
    <3> QED
      BY <3>1, <3>2
  <2>8. Settled(g) /\ g.api = h.api
    BY <2>4, <2>5, <2>6, <2>7 DEF Settled, Standing, SameTab
  <2>9. CASE calls = <<>>
    <3>1. s.url \in {"logon", "index"} \/ (s.url = "server" /\ s.luid \in Luids)
      <4>1. \A c : <<c>> # <<>>
        OBVIOUS
      <4>2. s \in States /\ RouteFor(on, s) = <<>>
        BY <2>9, <1>1 DEF calls, s
      <4> QED
        BY <4>1, <4>2, RouteFacts, Zenon
    <3>2. t.hist = g /\ t.ui = page /\ t.requests = sent
      BY <1>2, <1>4, <2>9
    <3>3. late \in SUBSET Requests /\ s \in States
      BY <1>1 DEF s
    <3>4. Fed(page, sent)
      BY <3>1, <3>3, FreshFed
    <3> HIDE DEF late
    <3>5. page \in Ui /\ page.kind = PageAt(s.url) /\ (page.kind = "server" => page.luid = s.luid)
      BY <3>1, <3>3, PageFacts
    <3>6. sent \in [Requests -> Nat]
      BY <3>1, <3>3, SentFacts
    <3> HIDE DEF page, sent, t
    <3>7. Fits(g, page)
      BY <3>5, <2>4 DEF Fits
    <3> QED
      BY <3>2, <3>4, <3>5, <3>6, <3>7, <2>8 DEF t
  <2>10. CASE calls # <<>>
    <3>1. t.hist = g /\ t.ui = u /\ t.requests = reqs
      BY <1>2, <1>4, <2>10
    <3> HIDE DEF t
    <3>2. Fits(g, u)
      <4>1. CASE s = Bare("server")
        BY <4>1, <2>4 DEF Fits
      <4>2. CASE s # Bare("server")
        <5>1. PICK c \in Redirections : calls = <<c>> /\ c.state # s
          BY <4>2, <2>10, <1>1, RouteFacts DEF calls, s
        <5>2. Len(calls) = 1 /\ calls[1] = c
          BY <5>1
        <5>3. Len(Q) \in DOMAIN Q /\ Q[Len(Q)] = c
          BY <5>2, <2>2
        <5>4. Redirected(g)
          BY <5>1, <5>3, <2>4 DEF Redirected
        <5> QED
          BY <5>4 DEF Fits
      <4> QED
        BY <4>1, <4>2
    <3> QED
      BY <3>1, <3>2, <2>8 DEF t
  <2> QED
    BY <2>9, <2>10
<1> QED
  BY <1>1, <1>3, <1>4

LEMMA BlankFacts ==
  /\ Blank \in Ui /\ NoRequests \in [Requests -> Nat] /\ Fed(Blank, NoRequests)
<1>1. Blank.kind = "none" /\ Blank.list = "empty"
  BY DEF Blank
<1>2. Blank \in Ui
  <2>1. <<>> \in Seq(BOOLEAN)
    OBVIOUS
  <2> QED
    BY <2>1 DEF Blank, Ui, Pages, Lists
<1> QED
  BY <1>1, <1>2 DEF NoRequests, Fed

\* And Started.
StartedBy(on, h) ==
  LET loaded == Loaded(h)
      calls == RouteFor(on, GetState(loaded))
      first == IF calls = <<>> THEN [loaded EXCEPT !.fired = TRUE] ELSE Ask(loaded, calls[1])
  IN ListenedBy(on, first, Blank, NoRequests)

\* Nothing is on screen yet: either the event is triggered now or a
\* redirection will trigger it.
LEMMA StartedSettles ==
  ASSUME NEW on, NEW h, Loadable(h)
  PROVE  LET t == StartedBy(on, h) IN
         /\ Settled(t.hist) /\ t.hist.api = h.api
         /\ t.ui \in Ui /\ t.requests \in [Requests -> Nat]
         /\ Fits(t.hist, t.ui) /\ Fed(t.ui, t.requests)
<1> DEFINE g == Loaded(h)
           s == g.saved
           calls == RouteFor(on, s)
           first == IF calls = <<>> THEN [g EXCEPT !.fired = TRUE] ELSE Ask(g, calls[1])
<1>1. StartedBy(on, h) = ListenedBy(on, first, Blank, NoRequests)
  BY DEF StartedBy, GetState
<1>2. Standing(g) /\ ~g.fired /\ g.queue = <<>> /\ g.api = h.api
  BY LoadedStands
<1> HIDE DEF g
<1>3. s \in States /\ g \in History
  BY <1>2 DEF Standing, Tab, History
<1>4. /\ Standing(first) /\ first.api = g.api
      /\ (first.fired /\ RouteFor(on, first.saved) # <<>> => first.armed)
      /\ (~first.fired => Fits(first, Blank))
  <2>1. CASE calls = <<>>
    <3> DEFINE f == [g EXCEPT !.fired = TRUE]
    <3>1. /\ f \in History /\ SameTab(g, f) /\ SameEvents(g, f) /\ SameFlags(g, f) /\ SameStores(g, f)
          /\ f.saved = g.saved /\ f.fired = TRUE /\ f.queue = g.queue /\ f.expected = g.expected
      BY <1>3 DEF History, SameTab, SameEvents, SameFlags, SameStores
    <3>2. first = f
      BY <2>1
    <3> HIDE DEF f, first
    <3>3. Tab(f) /\ (AtState(g) => AtState(f))
      BY <3>1, <1>2, TabKept DEF Standing
    <3>4. Owed(f) /\ Awake(f)
      BY <3>1, <1>2 DEF Standing, Owed, Awake, SameTab, SameEvents, SameFlags
    <3>5. Standing(f) /\ f.api = g.api
      BY <3>1, <3>3, <3>4, <1>2 DEF Standing, SameTab
    <3> QED
      BY <3>1, <3>2, <3>5, <2>1
  <2>2. CASE calls # <<>>
    <3>1. \/ \E c \in Redirections : calls = <<c>> /\ c.state # s
          \/ \E c \in Calls : calls = <<c>> /\ c.op = "back" /\ s = Bare("server")
      <4>1. s \in States /\ RouteFor(on, s) # <<>>
        BY <1>3, <2>2
      <4> HIDE DEF s
      <4> QED
        BY <4>1, RouteFacts, Zenon
    <3>2. PICK c \in Calls : /\ calls = <<c>>
                            /\ \/ c \in Redirections /\ c.state # s
                               \/ c.op = "back" /\ s = Bare("server")
      BY <3>1, RedirectionFacts
    <3> DEFINE f == Ask(g, c)
    <3>3. first = f
      <4>1. calls[1] = c
        BY <3>2
      <4> HIDE DEF calls
      <4> QED
        BY <4>1, <2>2
    <3> HIDE DEF first
    <3>4. /\ Reached(g, f)
          /\ c.op = "back" => f.saved = g.saved
          /\ g.busy => f.saved = g.saved /\ \E i \in DOMAIN f.queue : f.queue[i] = c
          /\ ~g.busy /\ c.op # "back" => f.saved = c.state
      BY <1>2, AskReached
    <3> HIDE DEF f
    <3>5. f.fired => f.armed
      BY <3>4, <1>2 DEF Reached
    <3>6. ~f.fired => Fits(f, Blank)
      <4> SUFFICES ASSUME ~f.fired PROVE Fits(f, Blank)
        OBVIOUS
      <4>1. f.saved = s
        BY <3>4 DEF Reached
      <4>2. CASE s = Bare("server")
        BY <4>1, <4>2 DEF Fits
      <4>3. CASE c \in Redirections /\ c.state # s
        <5>1. c.op # "back" /\ g.busy
          BY <4>1, <4>3, <3>4, RedirectionFacts
        <5>2. Redirected(f)
          BY <5>1, <4>1, <4>3, <3>4 DEF Redirected
        <5> QED
          BY <5>2 DEF Fits
      <4> QED
        BY <4>2, <4>3, <3>2
    <3> QED
      BY <3>3, <3>4, <3>5, <3>6 DEF Reached
  <2> QED
    BY <2>1, <2>2
<1> HIDE DEF first
<1> QED
  BY <1>1, <1>2, <1>4, BlankFacts, ListenedSettles

\* What was on screen before an operation that triggers no event still fits.
LEMMA ReachedFits ==
  ASSUME NEW h, NEW g, Reached(h, g), ~h.fired, NEW u, Fits(h, u)
  PROVE  ~g.fired => Fits(g, u)
<1> SUFFICES ASSUME ~g.fired PROVE Fits(g, u)
  OBVIOUS
<1>1. g.saved = h.saved
  BY DEF Reached
<1>2. Redirected(h) => Redirected(g)
  BY <1>1 DEF Redirected, Reached
<1> QED
  BY <1>1, <1>2 DEF Fits

\* The call that is taken from the queue changes the state, or it was not the
\* redirection that was waited for.
LEMMA FireNextFits ==
  ASSUME NEW h, Settled(h), h.armed, NEW u, Fits(h, u)
  PROVE  LET g == FireNext(h) IN
         /\ Standing(g) /\ g.api = h.api
         /\ (g.fired => g.armed)
         /\ (~g.fired => Fits(g, u))
<1>1. h \in History /\ h.queue \in Seq(Calls) /\ Tab(h)
  BY DEF Settled, Tab, History
<1>2. CASE h.busy \/ h.queue = <<>>
  <2> DEFINE g == [h EXCEPT !.armed = FALSE]
  <2>1. FireNext(h) = g
    BY <1>2 DEF FireNext
  <2>2. /\ g \in History /\ SameTab(h, g) /\ SameEvents(h, g) /\ SameStores(h, g) /\ SameSaved(h, g)
        /\ g.queue = h.queue /\ g.expected = h.expected /\ g.busy = h.busy /\ g.lost = h.lost
    BY <1>1 DEF History, SameTab, SameEvents, SameStores, SameSaved
  <2> HIDE DEF g
  <2>3. Tab(g) /\ (AtState(h) => AtState(g))
    BY <2>2, <1>1, TabKept DEF SameSaved
  <2>4. Owed(g) /\ Awake(g)
    BY <2>2, <1>2 DEF Settled, Owed, Awake, SameTab, SameEvents
  <2>5. Standing(g) /\ g.api = h.api
    BY <2>2, <2>3, <2>4 DEF Standing, Settled, SameTab
  <2>6. ~g.fired /\ Fits(g, u)
    BY <2>2 DEF Settled, SameSaved, Fits, Redirected
  <2> QED
    BY <2>1, <2>5, <2>6
<1>3. CASE ~h.busy /\ h.queue # <<>>
  <2> DEFINE c == Head(h.queue)
             Q == Tail(h.queue)
             m == [h EXCEPT !.queue = Q]
             p == Perform(m, c)
             g == [p EXCEPT !.armed = TRUE]
  <2>1. FireNext(h) = g
    BY <1>1, <1>3 DEF FireNext, History
  <2>2. /\ c \in Calls /\ Q \in Seq(Calls) /\ Len(Q) = Len(h.queue) - 1 /\ c = h.queue[1]
        /\ Len(h.queue) \in Nat /\ DOMAIN Q = 1..Len(Q) /\ DOMAIN h.queue = 1..Len(h.queue)
        /\ \A i \in 1..Len(Q) : Q[i] = h.queue[i + 1]
    BY <1>1, <1>3, HeadTailProperties, LenProperties
  <2> HIDE DEF c, Q
  <2>3. /\ m \in History /\ m.queue = Q /\ SameTab(h, m) /\ SameStores(h, m) /\ SameSaved(h, m)
        /\ m.expected = h.expected
    BY <2>2, <1>1 DEF History, SameTab, SameStores, SameSaved
  <2> HIDE DEF m
  <2>4. Tab(m) /\ (m.api = "html5" => AtState(m))
    BY <2>3, TabKept DEF Settled, SameTab, SameSaved
  <2>5. /\ Done(m, p)
        /\ c.op # "back" => p.saved = c.state
    BY <2>2, <2>4, PerformDone
  <2>6. Standing(p) /\ p \in History
    BY <2>5, DoneReached DEF Reached, Done, Tab
  <2> HIDE DEF p
  <2>7. /\ g \in History /\ SameTab(p, g) /\ SameEvents(p, g) /\ SameStores(p, g) /\ SameSaved(p, g)
        /\ g.queue = p.queue /\ g.expected = p.expected /\ g.busy = p.busy /\ g.lost = p.lost /\ g.armed = TRUE
    BY <2>6 DEF History, SameTab, SameEvents, SameStores, SameSaved
  <2> HIDE DEF g
  <2>8. Tab(g) /\ (AtState(p) => AtState(g))
    BY <2>6, <2>7, TabKept DEF Standing, SameSaved
  <2>9. Owed(g) /\ Awake(g)
    BY <2>6, <2>7 DEF Standing, Owed, Awake, SameTab, SameEvents
  <2>10. Standing(g) /\ g.api = h.api
    BY <2>3, <2>5, <2>6, <2>7, <2>8, <2>9 DEF Standing, Done, SameTab
  <2>11. ~g.fired => Fits(g, u)
    <3> SUFFICES ASSUME ~g.fired PROVE Fits(g, u)
      OBVIOUS
    <3>1. g.saved = h.saved /\ g.queue = Q /\ (c.op # "back" => c.state = h.saved)
      BY <2>3, <2>5, <2>7 DEF Done, SameSaved
    <3>2. CASE Redirected(h)
      <4>1. PICK i \in DOMAIN h.queue : h.queue[i] \in Redirections /\ h.queue[i].state # h.saved
        BY <3>2 DEF Redirected
      <4>2. i # 1
        BY <4>1, <3>1, <2>2, RedirectionFacts
      <4>3. i - 1 \in DOMAIN Q /\ i \in Nat /\ (i - 1) + 1 = i
        BY <4>1, <4>2, <2>2
      <4>4. Q[i - 1] = h.queue[i]
        BY <4>3, <2>2
      <4>5. Redirected(g)
        BY <4>1, <4>3, <4>4, <3>1 DEF Redirected
      <4> QED
        BY <4>5 DEF Fits
    <3>3. CASE ~Redirected(h)
      BY <3>1, <3>3 DEF Fits
    <3> QED
      BY <3>2, <3>3
  <2> QED
    BY <2>1, <2>7, <2>10, <2>11
<1> QED
  BY <1>2, <1>3

\* A call made inside the handler of the browser's own popstate: the library
\* stands as after any operation, and either the state has changed, and the
\* event was triggered again, or it is that of the servers of no module.
LEMMA RoutedStands ==
  ASSUME NEW on, NEW h, NEW g, Standing(g), g.fired => g.armed, NEW u, ~g.fired => Fits(g, u)
  PROVE  LET r == RoutedBy(on, h, g) IN
         /\ Standing(r) /\ r.api = g.api
         /\ (r.fired => r.armed)
         /\ (~r.fired => Fits(r, u))
<1> DEFINE s == g.saved
           calls == RouteFor(on, s)
           f == [g EXCEPT !.fired = FALSE]
           r == RoutedBy(on, h, g)
<1>1. r = g \/ (calls # <<>> /\ r = Busy(Perform(f, calls[1]), FALSE))
  BY DEF RoutedBy, GetState
<1>2. CASE r = g
  <2> HIDE DEF r
  <2>1. Standing(r) /\ r.api = g.api /\ (r.fired => r.armed) /\ (~r.fired => Fits(r, u))
    BY <1>2
  <2> QED
    BY <2>1 DEF r
<1>3. CASE calls # <<>> /\ r = Busy(Perform(f, calls[1]), FALSE)
  <2>1. g \in History /\ s \in States
    BY DEF Standing, Tab, History
  <2>2. \/ \E c \in Redirections : calls = <<c>> /\ c.state # s
        \/ \E c \in Calls : calls = <<c>> /\ c.op = "back" /\ s = Bare("server")
    <3>1. s \in States /\ RouteFor(on, s) # <<>>
      BY <1>3, <2>1
    <3> HIDE DEF s
    <3> QED
      BY <3>1, RouteFacts, Zenon
  <2>3. PICK c \in Calls : /\ calls = <<c>>
                          /\ \/ c.op # "back" /\ c.state # s
                             \/ c.op = "back" /\ s = Bare("server")
    BY <2>2, RedirectionFacts
  <2>4. calls[1] = c
    BY <2>3
  <2> DEFINE p == Perform(f, c)
             b == Busy(p, FALSE)
  <2>5. r = b
    <3> HIDE DEF calls
    <3> QED
      BY <1>3, <2>4
  <2>6. /\ f \in History /\ SameTab(g, f) /\ SameEvents(g, f) /\ SameFlags(g, f) /\ SameStores(g, f)
        /\ f.saved = s /\ f.fired = FALSE /\ f.queue = g.queue /\ f.expected = g.expected
    BY <2>1 DEF History, SameTab, SameEvents, SameFlags, SameStores
  <2> HIDE DEF f, r
  <2>7. Tab(f) /\ (f.api = "html5" => AtState(f)) /\ f.api = g.api
    BY <2>6, TabKept DEF Standing, SameTab
  <2>8. /\ Done(f, p)
        /\ c.op # "back" => p.saved = c.state
    BY <2>3, <2>7, PerformDone
  <2> HIDE DEF p
  <2>9. Done(p, b)
    BY <2>8, FreedDone DEF Done
  <2> HIDE DEF b
  <2>10. Standing(b) /\ b.api = g.api
    BY <2>7, <2>8, <2>9, DoneReached DEF Reached, Done
  <2>11. b.fired => b.armed
    BY <2>6, <2>8, <2>9 DEF Done
  <2>12. ~b.fired => Fits(b, u)
    <3> SUFFICES ASSUME ~b.fired PROVE Fits(b, u)
      OBVIOUS
    <3>1. ~p.fired /\ b.saved = p.saved /\ p.saved = f.saved
      BY <2>8, <2>9 DEF Done
    <3>2. s = Bare("server") /\ b.saved = s
      BY <2>3, <2>6, <2>8, <3>1
    <3> QED
      BY <3>2 DEF Fits
  <2> QED
    BY <2>5, <2>10, <2>11, <2>12 DEF r
<1> QED
  BY <1>1, <1>2, <1>3

-----------------------------------------------------------------------------
(* Tasks.                                                                   *)

LEMMA BecomeKeeps ==
  ASSUME NEW t, Settled(t.hist), t.hist.api = hist.api,
         t.ui \in Ui, t.requests \in [Requests -> Nat],
         Fits(t.hist, t.ui), Fed(t.ui, t.requests),
         hist' = t.hist, ui' = t.ui, requests' = t.requests
  PROVE  Kept' /\ hist'.api = hist.api
BY DEF Kept

LEMMA DeliverKeeps ==
  ASSUME Kept, NEW h, Standing(h), h.api = hist.api, h.fired => h.armed,
         ~h.fired => Fits(h, ui), Become(Listened(h, ui, requests))
  PROVE  Kept' /\ hist'.api = hist.api
<1>1. PICK t : t = Listened(h, ui, requests) /\ hist' = t.hist /\ ui' = t.ui /\ requests' = t.requests
  BY DEF Become
<1>2. PICK on : t = ListenedBy(on, h, ui, requests)
  <2>1. CASE LoggedOn
    <3>1. t = ListenedBy(TRUE, h, ui, requests)
      BY <2>1, <1>1 DEF Listened, ListenedBy, RouteCalls, RouteFor
    <3> QED
      BY <3>1
  <2>2. CASE ~LoggedOn
    <3>1. t = ListenedBy(FALSE, h, ui, requests)
      BY <2>2, <1>1 DEF Listened, ListenedBy, RouteCalls, RouteFor
    <3> QED
      BY <3>1
  <2> QED
    BY <2>1, <2>2
<1>3. /\ Settled(t.hist) /\ t.hist.api = h.api
      /\ t.ui \in Ui /\ t.requests \in [Requests -> Nat]
      /\ Fits(t.hist, t.ui) /\ Fed(t.ui, t.requests)
  <2>1. PICK u, reqs : u = ui /\ reqs = requests
    OBVIOUS
  <2>2. Fed(u, reqs) /\ u \in Ui /\ reqs \in [Requests -> Nat] /\ (~h.fired => Fits(h, u))
    BY <2>1 DEF Kept
  <2>3. t = ListenedBy(on, h, u, reqs)
    BY <2>1, <1>2
  <2>4. h.fired /\ RouteFor(on, h.saved) # <<>> => h.armed
    OBVIOUS
  <2>5. LET b == ListenedBy(on, h, u, reqs) IN
        /\ Settled(b.hist) /\ b.hist.api = h.api
        /\ b.ui \in Ui /\ b.requests \in [Requests -> Nat]
        /\ Fits(b.hist, b.ui) /\ Fed(b.ui, b.requests)
    BY <2>2, <2>4, ListenedSettles
  <2> QED
    BY <2>3, <2>5
<1> QED
  BY <1>1, <1>3, BecomeKeeps

\* The handler of a popstate of the browser itself.
LEMMA RoutedKeeps ==
  ASSUME Kept, NEW h, NEW g, Standing(g), g.api = hist.api, g.fired => g.armed,
         ~g.fired => Fits(g, ui), Deliver(Routed(h, g))
  PROVE  Kept' /\ hist'.api = hist.api
<1>1. PICK r : r = Routed(h, g) /\ Become(Listened(r, ui, requests))
  BY DEF Deliver
<1>2. PICK on : r = RoutedBy(on, h, g)
  <2>1. CASE LoggedOn
    <3>1. r = RoutedBy(TRUE, h, g)
      BY <2>1, <1>1 DEF Routed, RoutedBy, RouteCalls, RouteFor
    <3> QED
      BY <3>1
  <2>2. CASE ~LoggedOn
    <3>1. r = RoutedBy(FALSE, h, g)
      BY <2>2, <1>1 DEF Routed, RoutedBy, RouteCalls, RouteFor
    <3> QED
      BY <3>1
  <2> QED
    BY <2>1, <2>2
<1>3. PICK u : u = ui
  OBVIOUS
<1>4. LET b == RoutedBy(on, h, g) IN
      /\ Standing(b) /\ b.api = g.api
      /\ (b.fired => b.armed)
      /\ (~b.fired => Fits(b, u))
  BY <1>3, RoutedStands
<1>5. Standing(r) /\ r.api = hist.api /\ (r.fired => r.armed) /\ (~r.fired => Fits(r, ui))
  BY <1>2, <1>3, <1>4
<1> QED
  BY <1>1, <1>5, DeliverKeeps

LEMMA StartedIs ==
  ASSUME NEW h
  PROVE  \E on : Started(h) = StartedBy(on, h)
<1>1. CASE LoggedOn
  <2>1. RouteCalls(Loaded(h).saved) = RouteFor(TRUE, Loaded(h).saved)
    BY <1>1 DEF RouteCalls, RouteFor
  <2> DEFINE calls == RouteFor(TRUE, Loaded(h).saved)
             first == IF calls = <<>> THEN [Loaded(h) EXCEPT !.fired = TRUE] ELSE Ask(Loaded(h), calls[1])
  <2>2. Started(h) = Listened(first, Blank, NoRequests) /\ StartedBy(TRUE, h) = ListenedBy(TRUE, first, Blank, NoRequests)
    BY <2>1 DEF Started, StartedBy, GetState
  <2> HIDE DEF first
  <2>3. Listened(first, Blank, NoRequests) = ListenedBy(TRUE, first, Blank, NoRequests)
    BY <1>1 DEF Listened, ListenedBy, RouteCalls, RouteFor
  <2> QED
    BY <2>2, <2>3
<1>2. CASE ~LoggedOn
  <2>1. RouteCalls(Loaded(h).saved) = RouteFor(FALSE, Loaded(h).saved)
    BY <1>2 DEF RouteCalls, RouteFor
  <2> DEFINE calls == RouteFor(FALSE, Loaded(h).saved)
             first == IF calls = <<>> THEN [Loaded(h) EXCEPT !.fired = TRUE] ELSE Ask(Loaded(h), calls[1])
  <2>2. Started(h) = Listened(first, Blank, NoRequests) /\ StartedBy(FALSE, h) = ListenedBy(FALSE, first, Blank, NoRequests)
    BY <2>1 DEF Started, StartedBy, GetState
  <2> HIDE DEF first
  <2>3. Listened(first, Blank, NoRequests) = ListenedBy(FALSE, first, Blank, NoRequests)
    BY <1>2 DEF Listened, ListenedBy, RouteCalls, RouteFor
  <2> QED
    BY <2>2, <2>3
<1> QED
  BY <1>1, <1>2

LEMMA StartKeeps ==
  ASSUME Kept, NEW h, Loadable(h), h.api = hist.api, Become(Started(h))
  PROVE  Kept' /\ hist'.api = hist.api
<1>1. PICK t : t = Started(h) /\ hist' = t.hist /\ ui' = t.ui /\ requests' = t.requests
  BY DEF Become
<1>2. PICK on : t = StartedBy(on, h)
  BY <1>1, StartedIs
<1>3. /\ Settled(t.hist) /\ t.hist.api = h.api
      /\ t.ui \in Ui /\ t.requests \in [Requests -> Nat]
      /\ Fits(t.hist, t.ui) /\ Fed(t.ui, t.requests)
  BY <1>2, StartedSettles
<1> QED
  BY <1>1, <1>3, BecomeKeeps

\* A tab the console was loaded in may load it again, wherever it stands.
LEMMA TabLoadable ==
  ASSUME NEW h, Tab(h), NEW g \in History, g.api = h.api, g.entries = h.entries,
         g.pos \in 1..Len(g.entries), SameStores(h, g)
  PROVE  Loadable(g)
<1>1. UrlsAgree(g)
  BY DEF Tab, UrlsAgree, SameStores
<1>2. g.api # "html5" => Apart(g)
  BY DEF Tab, Apart
<1>3. ASSUME g.api = "html5"
      PROVE  /\ \A i \in DOMAIN g.entries :
                  /\ g.entries[i].hash = None
                  /\ g.entries[i].sid # None => g.entries[i].sid.url = g.entries[i].url
             /\ Here(g).hash # Bare("hashed")
  <2>1. EntriesKept(h)
    BY <1>3 DEF Tab
  <2>2. \A i \in DOMAIN g.entries :
          /\ g.entries[i].hash = None
          /\ g.entries[i].sid # None => g.entries[i].sid.url = g.entries[i].url
    BY <2>1 DEF EntriesKept
  <2>3. Here(g).hash = None
    BY <2>2, HereTyped DEF Here
  <2> QED
    BY <2>2, <2>3, StateFacts DEF Urls
<1> QED
  BY <1>1, <1>2, <1>3 DEF Loadable

LEMMA TimerKeeps ==
  ASSUME Kept, TimerFires
  PROVE  Kept' /\ hist'.api = hist.api
<1>1. PICK h : h = FireNext(hist) /\ Become(Listened(h, ui, requests))
  BY DEF TimerFires, Deliver
<1>2. /\ Standing(h) /\ h.api = hist.api /\ (h.fired => h.armed) /\ (~h.fired => Fits(h, ui))
  <2>1. Settled(hist) /\ hist.armed /\ Fits(hist, ui)
    BY DEF Kept, TimerFires
  <2> QED
    BY <2>1, <1>1, FireNextFits
<1> QED
  BY <1>1, <1>2, DeliverKeeps

\* Moving the tab inside what it has.
LEMMA MovedFacts ==
  ASSUME NEW h, Tab(h), NEW d \in {-1, 1}, CanTraverse(h, d)
  PROVE  LET g == Moved(h, d) IN Loadable(g) /\ g.api = h.api
<1> DEFINE n == h.pos + d
           g == [h EXCEPT !.pos = n]
<1>1. h \in History /\ n \in 1..Len(h.entries) /\ Len(h.entries) \in Nat
  BY HereTyped, LenProperties DEF Tab, CanTraverse
<1>2. Moved(h, d) = g
  BY <1>1 DEF Moved, History
<1>3. n \in Nat \ {0}
  BY <1>1
<1> HIDE DEF n
<1>4. /\ g \in History /\ g.entries = h.entries /\ g.pos = n /\ g.api = h.api /\ SameStores(h, g)
  BY <1>1, <1>3 DEF History, SameStores
<1> HIDE DEF g
<1>5. Loadable(g)
  BY <1>1, <1>4, TabLoadable DEF n
<1> QED
  BY <1>2, <1>4, <1>5

\* A step of the session history, asked for by the script or by the user.
LEMMA StepKeeps ==
  ASSUME Kept, NEW h, Tab(h), Awake(h), ~h.fired, Fits(h, ui), h.api = hist.api,
         NEW d \in {-1, 1}, CanTraverse(h, d),
         IF SameDocument(h, d) THEN Deliver(Routed(Moved(h, d), Traverse(h, d)))
         ELSE Start(Moved(h, d))
  PROVE  Kept' /\ hist'.api = hist.api
<1>1. CASE SameDocument(h, d)
  <2>1. PICK m, g : m = Moved(h, d) /\ g = Traverse(h, d) /\ Deliver(Routed(m, g))
    BY <1>1
  <2>2. Reached(h, g)
    BY <2>1, <1>1, TraverseReached
  <2>3. ~g.fired => Fits(g, ui)
    BY <2>2, ReachedFits
  <2>4. Standing(g) /\ g.api = hist.api /\ (g.fired => g.armed)
    BY <2>2 DEF Reached
  <2> QED
    BY <2>1, <2>3, <2>4, RoutedKeeps
<1>2. CASE ~SameDocument(h, d)
  <2>1. PICK g : g = Moved(h, d) /\ Become(Started(g))
    BY <1>2 DEF Start
  <2>2. Loadable(g) /\ g.api = hist.api
    BY <2>1, MovedFacts
  <2> QED
    BY <2>1, <2>2, StartKeeps
<1> QED
  BY <1>1, <1>2

LEMMA TravelKeeps ==
  ASSUME Kept, Travel
  PROVE  Kept' /\ hist'.api = hist.api
<1>1. PICK h0 : h0 = hist
  OBVIOUS
<1> DEFINE d == Head(h0.going)
           G == Tail(h0.going)
           h == [h0 EXCEPT !.going = G]
           l == [h EXCEPT !.lost = h.busy]
<1>2. Settled(h0) /\ Fits(h0, ui) /\ h0 \in History /\ h0.going # <<>>
  BY <1>1 DEF Kept, Settled, Tab, Travel
<1>3. /\ CanTraverse(h, d) => IF SameDocument(h, d) THEN Deliver(Routed(Moved(h, d), Traverse(h, d)))
                             ELSE Start(Moved(h, d))
      /\ ~CanTraverse(h, d) => hist' = l /\ UNCHANGED <<ui, requests>>
  BY <1>1, <1>2 DEF Travel, History
<1>4. G \in Seq({-1, 1}) /\ d \in {-1, 1}
  BY <1>2, HeadTailProperties DEF History
<1> HIDE DEF d, G
<1>5. /\ h \in History /\ SameTab(h0, h) /\ SameFlags(h0, h) /\ SameStores(h0, h) /\ SameSaved(h0, h)
      /\ h.queue = h0.queue /\ h.expected = h0.expected
  BY <1>2, <1>4 DEF History, SameTab, SameFlags, SameStores, SameSaved
<1> HIDE DEF h
<1>6. Tab(h) /\ (AtState(h0) => AtState(h)) /\ Awake(h) /\ ~h.fired /\ h.api = hist.api
  BY <1>1, <1>2, <1>5, TabKept DEF Settled, Awake, SameTab, SameFlags, SameSaved
<1>7. Fits(h, ui)
  BY <1>2, <1>5 DEF Fits, Redirected, SameSaved
<1>8. CASE CanTraverse(h, d)
  BY <1>3, <1>4, <1>6, <1>7, <1>8, StepKeeps
<1>9. CASE ~CanTraverse(h, d)
  <2>1. /\ l \in History /\ l.lost = h.busy /\ l.busy = h.busy /\ l.armed = h.armed
        /\ SameTab(h, l) /\ SameStores(h, l) /\ SameSaved(h, l)
        /\ l.queue = h.queue /\ l.expected = h.expected
    BY <1>5 DEF History, SameTab, SameStores, SameSaved
  <2>2. hist' = l /\ ui' = ui /\ requests' = requests
    BY <1>3, <1>9
  <2> HIDE DEF l
  <2>3. Tab(l) /\ (AtState(h) => AtState(l))
    BY <2>1, <1>6, TabKept DEF SameSaved
  <2>4. Owed(l) /\ Awake(l)
    BY <2>1, <1>6 DEF Owed, Awake
  <2>5. Settled(l) /\ l.api = hist.api
    BY <2>1, <2>3, <2>4, <1>2, <1>5, <1>6 DEF Settled, SameTab, SameSaved
  <2>6. Fits(l, ui)
    BY <2>1, <1>7 DEF Fits, Redirected, SameSaved
  <2> QED
    BY <2>2, <2>5, <2>6 DEF Kept
<1> QED
  BY <1>8, <1>9

LEMMA HashKeeps ==
  ASSUME Kept, HashChange \/ HashPoll
  PROVE  Kept' /\ hist'.api = hist.api
<1>1. PICK h0 : h0 = hist
  OBVIOUS
<1>2. Settled(h0) /\ Tab(h0) /\ Fits(h0, ui) /\ h0 \in History /\ ~h0.fired
  BY <1>1 DEF Kept, Settled, Tab
<1>3. \E k \in Nat, p \in States \cup {None} :
         /\ h0.api # "html5"
         /\ Deliver(OnHashChange([h0 EXCEPT !.hashTasks = k, !.polledHash = p]))
  <2>1. CASE HashChange
    <3> DEFINE k == h0.hashTasks - 1
    <3>1. h0.hashTasks > 0 /\ Deliver(OnHashChange([h0 EXCEPT !.hashTasks = @ - 1]))
      BY <2>1, <1>1 DEF HashChange
    <3>2. k \in Nat /\ h0.polledHash \in States \cup {None} /\ h0.api # "html5"
      BY <3>1, <1>2 DEF Tab, History
    <3>3. [h0 EXCEPT !.hashTasks = @ - 1] = [h0 EXCEPT !.hashTasks = k, !.polledHash = h0.polledHash]
      BY <1>2 DEF History
    <3> HIDE DEF k
    <3> QED
      BY <3>1, <3>2, <3>3
  <2>2. CASE HashPoll
    <3>1. h0.api = "poll" /\ Deliver(OnHashChange([h0 EXCEPT !.polledHash = Hash(h0)]))
      BY <2>2, <1>1 DEF HashPoll, PollDue, Poll
    <3>2. Hash(h0) \in States \cup {None} /\ h0.hashTasks \in Nat
      BY <1>2, HereTyped, EntryTyped DEF Tab, Hash, History
    <3>3. [h0 EXCEPT !.polledHash = Hash(h0)] = [h0 EXCEPT !.hashTasks = h0.hashTasks, !.polledHash = Hash(h0)]
      BY <1>2 DEF History
    <3> QED
      BY <3>1, <3>2, <3>3
  <2> QED
    BY <2>1, <2>2
<1>4. PICK k \in Nat, p \in States \cup {None} :
         /\ h0.api # "html5"
         /\ Deliver(OnHashChange([h0 EXCEPT !.hashTasks = k, !.polledHash = p]))
  BY <1>3
<1> DEFINE h == [h0 EXCEPT !.hashTasks = k, !.polledHash = p]
<1>5. PICK g : g = OnHashChange(h) /\ Become(Listened(g, ui, requests))
  BY <1>4 DEF Deliver
<1>6. /\ h \in History /\ SamePlace(h0, h) /\ SameFlags(h0, h) /\ SameStores(h0, h) /\ SameSaved(h0, h)
      /\ h.queue = h0.queue /\ h.expected = h0.expected
  BY <1>2 DEF History, SamePlace, SameFlags, SameStores, SameSaved
<1> HIDE DEF h
<1>7. Tab(h) /\ h.api # "html5" /\ ~h.fired
  BY <1>2, <1>4, <1>6 DEF Tab, UrlsAgree, Apart, SamePlace, SameStores, SameSaved
<1>8. Fits(h, ui)
  BY <1>2, <1>6 DEF Fits, Redirected, SameSaved
<1>9. Reached(h, g)
  BY <1>5, <1>7, OnHashChangeDone, DoneReached
<1>10. ~g.fired => Fits(g, ui)
  BY <1>7, <1>8, <1>9, ReachedFits
<1>11. Standing(g) /\ g.api = hist.api /\ (g.fired => g.armed)
  BY <1>1, <1>6, <1>7, <1>9 DEF Reached, SamePlace
<1> QED
  BY <1>5, <1>10, <1>11, DeliverKeeps

LEMMA BrowserBackKeeps ==
  ASSUME Kept, NEW d \in {-1, 1}, BrowserBack(d)
  PROVE  Kept' /\ hist'.api = hist.api
<1>1. PICK h : h = hist
  OBVIOUS
<1>2. /\ CanTraverse(h, d)
      /\ IF SameDocument(h, d) THEN Deliver(Routed(Moved(h, d), Traverse(h, d)))
         ELSE Start(Moved(h, d))
  BY <1>1 DEF BrowserBack
<1>3. Tab(h) /\ Awake(h) /\ ~h.fired /\ Fits(h, ui) /\ h.api = hist.api
  BY <1>1 DEF Kept, Settled
<1> QED
  BY <1>2, <1>3, StepKeeps

LEMMA ReloadKeeps ==
  ASSUME Kept, Reload
  PROVE  Kept' /\ hist'.api = hist.api
<1>1. PICK h : h = hist /\ Become(Started(h))
  BY DEF Reload, Start
<1>2. Loadable(h) /\ h.api = hist.api
  BY <1>1, TabLoadable DEF Kept, Settled, Tab, SameStores
<1> QED
  BY <1>1, <1>2, StartKeeps

LEMMA ClickHomeKeeps ==
  ASSUME Kept, ClickHome
  PROVE  Kept' /\ hist'.api = hist.api
<1>1. PICK h : h = hist
  OBVIOUS
<1> DEFINE n == 1 + Len(h.entries) + Here(h).doc
           e == [url |-> "home", sid |-> None, hash |-> None, doc |-> n, live |-> FALSE]
<1>2. PICK g : g = NewEntry(h, e) /\ Become(Started(g))
  BY <1>1 DEF ClickHome, Start
<1>3. Tab(h) /\ h \in History
  BY <1>1 DEF Kept, Settled, Tab
<1>4. n \in Nat /\ n # Here(h).doc
  <2>1. Len(h.entries) \in Nat /\ Here(h).doc \in Nat
    BY <1>3, HereTyped, EntryTyped, LenProperties DEF Tab
  <2> QED
    BY <2>1
<1> HIDE DEF n
<1>5. e \in Entries /\ e.doc = n /\ e.sid = None /\ e.hash = None
  BY <1>4 DEF Entries, Urls
<1> HIDE DEF e
<1>6. /\ g \in History /\ g.pos = h.pos + 1 /\ Len(g.entries) = g.pos
      /\ \A i \in 1..h.pos : g.entries[i] = h.entries[i]
      /\ Here(g) = e /\ g.api = h.api /\ SameStores(h, g)
  BY <1>2, <1>3, <1>5, EntryFacts DEF Tab
<1>7. g.api # "html5" => Apart(g)
  BY <1>2, <1>3, <1>4, <1>5, <1>6, StillApart DEF Tab
<1>8. UrlsAgree(g)
  BY <1>3, <1>6 DEF Tab, UrlsAgree, SameStores
<1>9. g.pos \in 1..Len(g.entries) /\ h.pos \in Nat /\ Len(h.entries) \in Nat /\ h.pos <= Len(h.entries)
      /\ DOMAIN g.entries = 1..g.pos /\ DOMAIN h.entries = 1..Len(h.entries)
  BY <1>3, <1>6, HereTyped, LenProperties DEF Tab, History
<1>10. ASSUME g.api = "html5", NEW i \in DOMAIN g.entries
       PROVE  /\ g.entries[i].hash = None
              /\ g.entries[i].sid # None => g.entries[i].sid.url = g.entries[i].url
  <2>1. CASE i = g.pos
    <3>1. g.entries[i] = e
      BY <2>1, <1>6 DEF Here
    <3> QED
      BY <3>1, <1>5
  <2>2. CASE i # g.pos
    <3>1. i \in 1..h.pos /\ i \in 1..Len(h.entries)
      BY <2>2, <1>6, <1>9
    <3>2. g.entries[i] = h.entries[i] /\ i \in DOMAIN h.entries
      BY <3>1, <1>6, <1>9
    <3> QED
      BY <3>2, <1>3, <1>6, <1>10 DEF Tab, EntriesKept
  <2> QED
    BY <2>1, <2>2
<1>11. Here(g).hash # Bare("hashed")
  BY <1>5, <1>6, StateFacts DEF Urls
<1>12. Loadable(g)
  BY <1>6, <1>7, <1>8, <1>9, <1>10, <1>11 DEF Loadable
<1> QED
  BY <1>1, <1>2, <1>6, <1>12, StartKeeps

LEMMA ClickBrandKeeps ==
  ASSUME Kept, ClickBrand
  PROVE  Kept' /\ hist'.api = hist.api
<1>1. PICK h : h = hist
  OBVIOUS
<1> DEFINE here == Here(h)
           e == [here EXCEPT !.sid = None, !.hash = None, !.live = FALSE]
           m == NewEntry(h, e)
<1>2. Tab(h) /\ h \in History /\ Settled(h) /\ Fits(h, ui)
  BY <1>1 DEF Kept, Settled, Tab
<1>3. /\ h.api = "html5" => Deliver(Routed(m, OnPopState(m, None)))
      /\ h.api # "html5" =>
           /\ Hash(h) # None
           /\ hist' = [m EXCEPT !.hashTasks = @ + IF h.api = "html4" THEN 1 ELSE 0]
           /\ ui' = ui /\ requests' = requests
  BY <1>1 DEF ClickBrand
<1>4. here \in Entries
  BY <1>2, HereTyped DEF Tab
<1> HIDE DEF here
<1>5. e \in Entries /\ e.doc = here.doc /\ e.sid = None /\ e.hash = None /\ e.live = FALSE
  BY <1>4 DEF Entries
<1> HIDE DEF e
<1>6. /\ m \in History /\ m.pos = h.pos + 1 /\ Len(m.entries) = m.pos
      /\ \A i \in 1..h.pos : m.entries[i] = h.entries[i]
      /\ Here(m) = e /\ m.api = h.api
      /\ SameEvents(h, m) /\ SameFlags(h, m) /\ SameStores(h, m) /\ SameSaved(h, m)
      /\ m.queue = h.queue /\ m.expected = h.expected
  BY <1>2, <1>5, EntryFacts DEF Tab
<1>7. h.api # "html5" => Apart(m)
  BY <1>2, <1>3, <1>5, StillApart DEF Tab, Hash
<1> HIDE DEF m
<1>8. m.pos \in 1..Len(m.entries) /\ h.pos \in Nat /\ Len(h.entries) \in Nat /\ h.pos <= Len(h.entries)
      /\ DOMAIN m.entries = 1..m.pos /\ DOMAIN h.entries = 1..Len(h.entries)
  BY <1>2, <1>6, HereTyped, LenProperties DEF Tab, History
<1>9. UrlsAgree(m)
  BY <1>2, <1>6 DEF Tab, UrlsAgree, SameStores
<1>10. Fits(m, ui) /\ ~m.fired
  BY <1>2, <1>6 DEF Fits, Redirected, Settled, SameSaved
<1>11. CASE h.api = "html5"
  <2>1. PICK g : g = OnPopState(m, None) /\ Deliver(Routed(m, g))
    BY <1>3, <1>11
  <2>2. m.api = "html5" /\ m.hashTasks = 0 /\ m.expected = None
    BY <1>2, <1>6, <1>11 DEF Tab, SameEvents
  <2>3. EntriesKept(m)
    <3> SUFFICES ASSUME NEW i \in DOMAIN m.entries
                 PROVE  /\ m.entries[i].hash = None
                        /\ m.entries[i].sid # None =>
                             /\ m.entries[i].sid.url = m.entries[i].url
                             /\ m.entries[i].live => m.entries[i].sid \in m.known
      BY DEF EntriesKept
    <3>1. CASE i = m.pos
      <4>1. m.entries[i] = e
        BY <3>1, <1>6 DEF Here
      <4> QED
        BY <4>1, <1>5
    <3>2. CASE i # m.pos
      <4>1. i \in 1..h.pos /\ i \in 1..Len(h.entries)
        BY <3>2, <1>6, <1>8
      <4>2. m.entries[i] = h.entries[i] /\ i \in DOMAIN h.entries /\ m.known = h.known
        BY <4>1, <1>6, <1>8 DEF SameStores
      <4> QED
        BY <4>2, <1>2, <1>11 DEF Tab, EntriesKept
    <3> QED
      BY <3>1, <3>2
  <2>4. g = PopState(m, None)
    BY <2>1, <1>5, <1>6 DEF OnPopState
  <2>5. Incoming(m, None)
    BY <2>2, <1>5, <1>6 DEF Incoming
  <2>6. Reached(m, g)
    BY <2>2, <2>3, <2>4, <2>5, <1>6, <1>8, <1>9, PopStateDone, DoneReached
  <2>7. ~g.fired => Fits(g, ui)
    BY <2>6, <1>10, ReachedFits
  <2>8. Standing(g) /\ g.api = hist.api /\ (g.fired => g.armed)
    BY <2>6, <1>1, <1>6, <1>10 DEF Reached
  <2> QED
    BY <2>1, <2>7, <2>8, RoutedKeeps
<1>12. CASE h.api # "html5"
  <2> DEFINE n == m.hashTasks + IF h.api = "html4" THEN 1 ELSE 0
             g == [m EXCEPT !.hashTasks = n]
  <2>1. hist' = g /\ ui' = ui /\ requests' = requests
    BY <1>3, <1>6, <1>12 DEF History
  <2>2. n \in Nat /\ (h.api = "html4" => n > 0)
    BY <1>6 DEF History
  <2> HIDE DEF n
  <2>3. /\ g \in History /\ g.hashTasks = n /\ SamePlace(m, g) /\ SameFlags(m, g) /\ SameStores(m, g)
        /\ SameSaved(m, g) /\ g.queue = m.queue /\ g.expected = m.expected
    BY <2>2, <1>6 DEF History, SamePlace, SameFlags, SameStores, SameSaved
  <2> HIDE DEF g
  <2>4. Apart(g) /\ UrlsAgree(g) /\ g.pos \in 1..Len(g.entries)
    BY <2>3, <1>7, <1>8, <1>9, <1>12 DEF Apart, UrlsAgree, SamePlace, SameStores
  <2>5. g.expected \in {None, g.saved} /\ g.api = h.api /\ g.api \in {"html4", "poll"}
    BY <2>3, <1>2, <1>6, <1>12 DEF Tab, SamePlace, SameSaved, History
  <2>6. Tab(g)
    BY <2>3, <2>4, <2>5 DEF Tab
  <2>7. Owed(g) /\ Awake(g) /\ ~g.fired
    BY <2>2, <2>3, <2>5, <1>2, <1>6, <1>10 DEF Owed, Awake, Settled, SameFlags, SameSaved
  <2>8. Settled(g) /\ Fits(g, ui)
    BY <2>3, <2>5, <2>6, <2>7, <1>10 DEF Settled, Fits, Redirected, SameSaved
  <2> QED
    BY <2>1, <2>5, <2>8, <1>1 DEF Kept
<1> QED
  BY <1>11, <1>12

\* The handlers of a list with data, up to the first without.
HandlersOf(lists) == CHOOSE n \in 0..Len(lists) :
                       /\ \A i \in 1..n : lists[i]
                       /\ n < Len(lists) => ~lists[n + 1]

LEMMA HandlersFacts ==
  ASSUME NEW lists \in Seq(BOOLEAN)
  PROVE  LET n == HandlersOf(lists) IN
         /\ n \in 0..Len(lists)
         /\ n < Len(lists) => ~lists[n + 1]
<1> DEFINE Good(n) == (\A i \in 1..n : lists[i]) /\ (n < Len(lists) => ~lists[n + 1])
           T == {n \in Nat : n <= Len(lists) => \A i \in 1..n : lists[i]}
<1>1. Len(lists) \in Nat
  BY LenProperties
<1>2. \E n \in 0..Len(lists) : Good(n)
  <2> SUFFICES ASSUME \A n \in 0..Len(lists) : ~Good(n) PROVE FALSE
    OBVIOUS
  <2>1. 0 \in T
    OBVIOUS
  <2>2. ASSUME NEW n \in Nat, n \in T
        PROVE  n + 1 \in T
    <3> SUFFICES ASSUME n + 1 <= Len(lists), NEW i \in 1..(n + 1)
                 PROVE  lists[i]
      OBVIOUS
    <3>1. n \in 0..Len(lists) /\ n < Len(lists) /\ \A k \in 1..n : lists[k]
      BY <2>2, <1>1
    <3>2. lists[n + 1]
      BY <3>1
    <3>3. CASE i = n + 1
      BY <3>2, <3>3
    <3>4. CASE i # n + 1
      <4>1. i \in 1..n
        BY <3>4
      <4> QED
        BY <4>1, <3>1
    <3> QED
      BY <3>3, <3>4
  <2> HIDE DEF T
  <2>3. Len(lists) \in T
    BY <2>1, <2>2, <1>1, NumberInduction
  <2>4. \A i \in 1..Len(lists) : lists[i]
    BY <2>3, <1>1 DEF T
  <2>5. Good(Len(lists)) /\ Len(lists) \in 0..Len(lists)
    BY <2>4, <1>1
  <2> QED
    BY <2>5
<1>3. HandlersOf(lists) = CHOOSE n \in 0..Len(lists) : Good(n)
  BY DEF HandlersOf
<1> HIDE DEF Good
<1>4. HandlersOf(lists) \in 0..Len(lists) /\ Good(HandlersOf(lists))
  BY <1>2, <1>3
<1> QED
  BY <1>4 DEF Good

\* A button whose handlers all make the same call.
LEMMA AgainKeeps ==
  ASSUME Kept, NEW c \in Calls, NEW n \in Nat, Deliver(Again(hist, c, n))
  PROVE  Kept' /\ hist'.api = hist.api
<1>1. PICK h : h = hist
  OBVIOUS
<1>2. PICK g : g = Again(h, c, n) /\ Become(Listened(g, ui, requests))
  BY <1>1 DEF Deliver
<1>3. Standing(h) /\ ~h.fired /\ Fits(h, ui)
  BY <1>1 DEF Kept, Settled, Standing
<1>4. Reached(h, g)
  BY <1>2, <1>3, AgainReached
<1>5. ~g.fired => Fits(g, ui)
  BY <1>3, <1>4, ReachedFits
<1>6. Standing(g) /\ g.api = hist.api /\ (g.fired => g.armed)
  BY <1>1, <1>3, <1>4 DEF Reached
<1> QED
  BY <1>2, <1>5, <1>6, DeliverKeeps

LEMMA ClickServersKeeps ==
  ASSUME Kept, NEW l \in Luids, ClickServers(l)
  PROVE  Kept' /\ hist'.api = hist.api
<1> DEFINE c == Call("push", ServerOf(l))
<1>1. PICK lists \in Seq(BOOLEAN) : lists = ui.lists
  BY DEF Kept, Ui
<1>2. PICK n : n = HandlersOf(lists)
  OBVIOUS
<1>3. n \in Nat
  <2>1. n \in 0..Len(lists) /\ Len(lists) \in Nat
    BY <1>2, HandlersFacts, LenProperties
  <2> QED
    BY <2>1
<1>4. Handlers = n
  BY <1>1, <1>2 DEF Handlers, HandlersOf
<1>5. Deliver(Again(hist, c, n))
  BY <1>4 DEF ClickServers
<1>6. c \in Calls
  BY StateFacts DEF Calls
<1> HIDE DEF c
<1> QED
  BY <1>3, <1>5, <1>6, AgainKeeps

LEMMA ClickBackKeeps ==
  ASSUME Kept, ClickBack
  PROVE  Kept' /\ hist'.api = hist.api
<1> DEFINE c == Call("back", None)
<1>1. PICK n \in Nat : n = ui.backs
  BY DEF Kept, Ui
<1>2. Deliver(Again(hist, c, n))
  BY <1>1 DEF ClickBack
<1>3. c \in Calls
  BY DEF Calls
<1> HIDE DEF c
<1> QED
  BY <1>2, <1>3, AgainKeeps

\* More or fewer of the requests a page did not make.
LEMMA RequestsKeep ==
  ASSUME Kept, requests' \in [Requests -> Nat],
         \A r \in Requests : requests'[r] <= requests[r] \/ r = "logon",
         UNCHANGED ui, NEW g, hist' = g, Settled(g), Fits(g, ui), g.api = hist.api
  PROVE  Kept' /\ hist'.api = hist.api
<1>1. "logon" \notin Luids /\ "logon" # "modules" /\ Luids \subseteq Requests /\ "modules" \in Requests
  BY ConsoleAssumption DEF Requests
<1>2. \A l \in Luids : requests'[l] > 0 => requests[l] > 0
  <2> SUFFICES ASSUME NEW l \in Luids, requests'[l] > 0
               PROVE  requests[l] > 0
    OBVIOUS
  <2>1. requests'[l] \in Nat /\ requests[l] \in Nat /\ requests'[l] <= requests[l]
    BY <1>1 DEF Kept
  <2> QED
    BY <2>1
<1>3. requests'["modules"] \in Nat /\ requests["modules"] \in Nat /\ requests'["modules"] <= requests["modules"]
  BY <1>1 DEF Kept
<1>4. ui.lists \in Seq(BOOLEAN) /\ Len(ui.lists) \in Nat
  BY LenProperties DEF Kept, Ui
<1>5. requests["modules"] + Len(ui.lists) <= 1 => requests'["modules"] + Len(ui.lists) <= 1
  BY <1>3, <1>4
<1>6. Fed(ui, requests')
  BY <1>2, <1>5 DEF Kept, Fed
<1>7. Fed(ui', requests') /\ ui' \in Ui /\ Fits(hist', ui') /\ Settled(hist')
  BY <1>6 DEF Kept
<1> QED
  BY <1>7 DEF Kept

LEMMA ClickLogonKeeps ==
  ASSUME Kept, ClickLogon
  PROVE  Kept' /\ hist'.api = hist.api
<1>1. requests \in [Requests -> Nat] /\ requests' = [requests EXCEPT !["logon"] = @ + 1]
      /\ hist' = hist /\ ui' = ui
  BY DEF Kept, ClickLogon
<1>2. requests' \in [Requests -> Nat] /\ \A r \in Requests : requests'[r] <= requests[r] \/ r = "logon"
  <2>1. PICK k : k = requests["logon"] + 1
    OBVIOUS
  <2>2. requests["logon"] \in Nat
    BY <1>1 DEF Requests
  <2>3. k \in Nat /\ requests' = [requests EXCEPT !["logon"] = k]
    BY <1>1, <2>1, <2>2
  <2>4. requests' \in [Requests -> Nat] /\ \A r \in Requests : r # "logon" => requests'[r] = requests[r]
    BY <1>1, <2>3
  <2>5. \A r \in Requests : requests[r] \in Nat
    BY <1>1
  <2> QED
    BY <2>4, <2>5
<1>3. Settled(hist) /\ Fits(hist, ui)
  BY DEF Kept
<1> QED
  BY <1>1, <1>2, <1>3, RequestsKeep

LEMMA AnsweredFacts ==
  ASSUME requests \in [Requests -> Nat], NEW r \in Requests, Answered(r)
  PROVE  /\ requests' \in [Requests -> Nat]
         /\ requests[r] > 0 /\ requests'[r] = requests[r] - 1
         /\ \A q \in Requests : requests'[q] <= requests[q]
<1>1. requests[r] \in Nat /\ requests[r] > 0 /\ requests' = [requests EXCEPT ![r] = @ - 1]
  BY DEF Answered
<1>2. requests[r] - 1 \in Nat
  BY <1>1
<1> QED
  BY <1>1, <1>2

LEMMA LogonAnswerKeeps ==
  ASSUME Kept, NEW ok, LogonAnswer(ok)
  PROVE  Kept' /\ hist'.api = hist.api
<1>1. requests \in [Requests -> Nat] /\ "logon" \in Requests
  BY DEF Kept, Requests
<1>2. requests' \in [Requests -> Nat] /\ \A r \in Requests : requests'[r] <= requests[r]
  BY <1>1, AnsweredFacts DEF LogonAnswer
<1>3. PICK h : h = hist
  OBVIOUS
<1>4. Settled(h) /\ Fits(h, ui) /\ Standing(h) /\ ~h.fired
  BY <1>3 DEF Kept, Settled, Standing
<1>5. PICK g : hist' = g
  OBVIOUS
<1>6. Settled(g) /\ Fits(g, ui) /\ g.api = h.api
  <2>1. CASE ok
    <3> DEFINE c == Call("back", None)
    <3>1. g = Ask(h, c)
      BY <2>1, <1>3, <1>5 DEF LogonAnswer
    <3>2. c \in Calls /\ c.op = "back"
      BY DEF Calls, Call
    <3> HIDE DEF c
    <3>3. Reached(h, g) /\ g.fired = h.fired
      BY <3>1, <3>2, <1>4, AskReached
    <3>4. Fits(g, ui)
      BY <3>3, <1>4, ReachedFits
    <3> QED
      BY <3>3, <3>4, <1>4 DEF Reached, Standing, Settled
  <2>2. CASE ~ok
    <3>1. g = h
      BY <2>2, <1>3, <1>5 DEF LogonAnswer
    <3> QED
      BY <3>1, <1>4
  <2> QED
    BY <2>1, <2>2
<1>7. UNCHANGED ui
  BY DEF LogonAnswer
<1> QED
  BY <1>2, <1>3, <1>5, <1>6, <1>7, RequestsKeep

LEMMA ModuleListAnswerKeeps ==
  ASSUME Kept, NEW ok \in BOOLEAN, ModuleListAnswer(ok)
  PROVE  Kept' /\ hist'.api = hist.api
<1>1. requests \in [Requests -> Nat] /\ "modules" \in Requests /\ ui \in Ui
  BY DEF Kept, Requests
<1>2. /\ requests' \in [Requests -> Nat] /\ \A r \in Requests : requests'[r] <= requests[r]
      /\ requests["modules"] > 0 /\ requests'["modules"] = requests["modules"] - 1
  BY <1>1, AnsweredFacts DEF ModuleListAnswer
<1>3. hist' = hist /\ Settled(hist) /\ Fits(hist, ui) /\ Fed(ui, requests)
  BY DEF ModuleListAnswer, Kept
<1>4. CASE ui.kind = "module"
  <2>1. PICK u, lists, list : u = ui /\ lists = Append(ui.lists, ok)
                              /\ list = IF ok THEN "modules" ELSE "failed"
    OBVIOUS
  <2> DEFINE v == [u EXCEPT !.list = list, !.lists = lists]
  <2>2. ui' = v
    BY <2>1, <1>1, <1>4 DEF ModuleListAnswer, Ui
  <2>3. u.lists \in Seq(BOOLEAN) /\ Len(u.lists) \in Nat
    BY <2>1, <1>1, LenProperties DEF Ui
  <2>4. lists \in Seq(BOOLEAN) /\ Len(lists) = Len(u.lists) + 1 /\ list \in Lists
    BY <2>1, <2>3, AppendProperties DEF Lists
  <2>5. v \in Ui /\ v.kind = "module" /\ v.luid = u.luid /\ v.late = u.late
        /\ v.list = list /\ v.lists = lists
    BY <2>1, <2>4, <1>1, <1>4 DEF Ui
  <2> HIDE DEF v
  <2>6. ASSUME "modules" \notin u.late
        PROVE  requests'["modules"] + Len(lists) <= 1 /\ (list = "modules" => lists = <<TRUE>>)
    <3>1. requests["modules"] + Len(u.lists) <= 1
      BY <2>1, <2>6, <1>3, <1>4 DEF Fed
    <3>2. requests["modules"] \in Nat
      BY <1>1
    <3>3. Len(u.lists) = 0 /\ requests'["modules"] + Len(lists) <= 1
      BY <3>1, <3>2, <2>3, <2>4, <1>2
    <3>4. u.lists = <<>>
      BY <3>3, <2>3, EmptySeq
    <3>5. list = "modules" => ok = TRUE
      BY <2>1
    <3>6. lists = Append(<<>>, ok)
      BY <3>4, <2>1
    <3>7. Append(<<>>, TRUE) = <<TRUE>>
      OBVIOUS
    <3>8. list = "modules" => lists = <<TRUE>>
      BY <3>5, <3>6, <3>7
    <3> QED
      BY <3>3, <3>8
  <2>7. Fed(v, requests')
    BY <2>5, <2>6 DEF Fed
  <2>8. Fits(hist, v)
    BY <2>1, <2>5, <1>3, <1>4 DEF Fits
  <2> QED
    BY <2>2, <2>5, <2>7, <2>8, <1>2, <1>3 DEF Kept
<1>5. CASE ui.kind # "module"
  BY <1>2, <1>3, <1>5, RequestsKeep DEF ModuleListAnswer
<1> QED
  BY <1>4, <1>5

LEMMA ServerListAnswerKeeps ==
  ASSUME Kept, NEW l \in Luids, NEW ok \in BOOLEAN, ServerListAnswer(l, ok)
  PROVE  Kept' /\ hist'.api = hist.api
<1>1. requests \in [Requests -> Nat] /\ l \in Requests /\ Luids \subseteq Requests /\ ui \in Ui
  BY DEF Kept, Requests
<1>2. /\ requests' \in [Requests -> Nat] /\ \A r \in Requests : requests'[r] <= requests[r]
      /\ requests[l] > 0
  BY <1>1, AnsweredFacts DEF ServerListAnswer
<1>3. hist' = hist /\ Settled(hist) /\ Fits(hist, ui) /\ Fed(ui, requests)
  BY DEF ServerListAnswer, Kept
<1>4. CASE ui.kind = "server"
  <2>1. PICK u, list : u = ui /\ list = IF ok THEN l ELSE "failed"
    OBVIOUS
  <2> DEFINE v == [u EXCEPT !.list = list]
  <2>2. ui' = v
    BY <2>1, <1>1, <1>4 DEF ServerListAnswer, Ui
  <2>3. list \in Lists /\ list # "modules" /\ (list \in Luids => list = l)
    BY <2>1, ConsoleAssumption DEF Lists
  <2>4. v \in Ui /\ v.kind = "server" /\ v.luid = u.luid /\ v.late = u.late /\ v.list = list
    BY <2>1, <2>3, <1>1, <1>4 DEF Ui
  <2> HIDE DEF v
  <2>5. \A r \in Luids : requests'[r] > 0 => requests[r] > 0
    <3> SUFFICES ASSUME NEW r \in Luids, requests'[r] > 0
                 PROVE  requests[r] > 0
      OBVIOUS
    <3>1. requests'[r] \in Nat /\ requests[r] \in Nat /\ requests'[r] <= requests[r]
      BY <1>1, <1>2
    <3> QED
      BY <3>1
  <2>6. \A r \in Luids : requests[r] > 0 => r = u.luid \/ r \in u.late
    BY <2>1, <1>3, <1>4 DEF Fed
  <2>7. Fed(v, requests')
    BY <2>3, <2>4, <2>5, <2>6, <1>2 DEF Fed
  <2>8. Fits(hist, v)
    BY <2>1, <2>4, <1>3, <1>4 DEF Fits
  <2> QED
    BY <2>2, <2>4, <2>7, <2>8, <1>2, <1>3 DEF Kept
<1>5. CASE ui.kind # "server"
  BY <1>2, <1>3, <1>5, RequestsKeep DEF ServerListAnswer
<1> QED
  BY <1>4, <1>5

-----------------------------------------------------------------------------
(* The specification.                                                       *)

\* A tab that opens the console at one of the start addresses.
LEMMA OpenedLoadable ==
  ASSUME NEW api \in Apis, NEW storage \in BOOLEAN, NEW at \in Starts
  PROVE  LET h == Opened(api, storage, at.url, at.hash) IN Loadable(h) /\ h.api = api
<1> DEFINE e == [url |-> at.url, sid |-> None, hash |-> at.hash, doc |-> 1, live |-> FALSE]
           E == <<e>>
           U == [u \in Urls |-> None]
           D == [s \in States |-> None]
           B == Bare(at.url)
           h == [api |-> api, storage |-> storage, entries |-> E, pos |-> 1,
                 going |-> <<>>, hashTasks |-> 0, polledHash |-> None,
                 busy |-> FALSE, armed |-> FALSE, queue |-> <<>>, lost |-> FALSE,
                 saved |-> B, expected |-> None, fired |-> FALSE,
                 known |-> {}, urlToId |-> U, hashes |-> <<>>, discarded |-> D]
<1>1. Opened(api, storage, at.url, at.hash) = h
  BY DEF Opened
<1>2. at.url \in Urls /\ at.hash \in States \cup {None} /\ at.hash # Bare("hashed")
      /\ api \in {"html5", "html4", "poll"}
  BY ConsoleAssumption, StateFacts DEF Urls
<1>3. e \in Entries /\ e.hash = at.hash /\ e.sid = None
  BY <1>2 DEF Entries
<1> HIDE DEF e
<1>4. E \in Seq(Entries) /\ Len(E) = 1 /\ E[1] = e
  BY <1>3
<1>5. DOMAIN E = {1}
  BY <1>4, LenProperties
<1> HIDE DEF E
<1>6. /\ U \in [Urls -> States \cup {None}] /\ \A u \in Urls : U[u] = None
      /\ D \in [States -> States \cup {None}] /\ B \in States
  BY <1>2, StateFacts
<1> HIDE DEF U, D, B
<1>7. <<>> \in Seq({-1, 1}) /\ <<>> \in Seq(Calls) /\ <<>> \in Seq(States \cup {None})
  BY EmptySeq
<1>8. /\ h \in History /\ h.api = api /\ h.entries = E /\ h.pos = 1 /\ h.urlToId = U
  BY <1>2, <1>4, <1>6, <1>7 DEF History
<1> HIDE DEF h
<1>9. h.pos \in 1..Len(h.entries) /\ UrlsAgree(h) /\ Apart(h) /\ Here(h) = e
  <2>1. UrlsAgree(h)
    BY <1>6, <1>8 DEF UrlsAgree
  <2>2. Len(h.entries) = 1 /\ h.entries[h.pos] = e /\ h.pos = 1
    <3>1. Len(E) = 1 /\ E[1] = e
      BY <1>4
    <3> QED
      BY <3>1, <1>8, Zenon
  <2>3. 1..(1 - 1) = {}
    OBVIOUS
  <2>4. Apart(h)
    BY <2>2, <2>3 DEF Apart
  <2>5. h.pos \in 1..Len(h.entries)
    BY <2>2
  <2> QED
    BY <2>1, <2>2, <2>4, <2>5 DEF Here
<1>10. \A i \in DOMAIN h.entries :
         \/ i = h.pos /\ Here(h).hash # None
         \/ /\ h.entries[i].hash = None
            /\ h.entries[i].sid # None => h.entries[i].sid.url = h.entries[i].url
  BY <1>3, <1>4, <1>5, <1>8, <1>9
<1>11. Here(h).hash # Bare("hashed")
  BY <1>2, <1>3, <1>9
<1> QED
  BY <1>1, <1>8, <1>9, <1>10, <1>11 DEF Loadable

LEMMA InitInvariant == Init => IInv
<1> SUFFICES ASSUME Init PROVE IInv
  OBVIOUS
<1>1. PICK api \in Apis, storage \in BOOLEAN, at \in Starts :
         LET tab == Started(Opened(api, storage, at.url, at.hash))
         IN hist = tab.hist /\ ui = tab.ui /\ requests = tab.requests
  BY DEF Init
<1>2. PICK h : h = Opened(api, storage, at.url, at.hash)
  OBVIOUS
<1>3. PICK on : Started(h) = StartedBy(on, h)
  BY StartedIs
<1>4. PICK t : t = StartedBy(on, h)
  OBVIOUS
<1>5. Loadable(h) /\ h.api = api
  BY <1>2, OpenedLoadable
<1>6. /\ Settled(t.hist) /\ t.hist.api = h.api
      /\ t.ui \in Ui /\ t.requests \in [Requests -> Nat]
      /\ Fits(t.hist, t.ui) /\ Fed(t.ui, t.requests)
  BY <1>4, <1>5, StartedSettles
<1>7. hist = t.hist /\ ui = t.ui /\ requests = t.requests
  BY <1>1, <1>2, <1>3, <1>4
<1>8. inputs \in 0..MaxInputs[hist.api] /\ hist.api \in Apis
  <2>1. MaxInputs[api] \in Nat /\ inputs = 0
    BY ConsoleAssumption DEF Init
  <2>2. inputs \in 0..MaxInputs[api]
    BY <2>1
  <2> QED
    BY <2>2, <1>5, <1>6, <1>7
<1>9. cookies \in [info : BOOLEAN, logon : BOOLEAN, islogon : BOOLEAN]
  <2>1. PICK i \in BOOLEAN, l \in BOOLEAN : cookies = [info |-> i, logon |-> l, islogon |-> FALSE]
    BY DEF Init
  <2> QED
    BY <2>1
<1>10. hist \in History
  BY <1>6, <1>7 DEF Settled, Tab
<1> QED
  BY <1>6, <1>7, <1>8, <1>9, <1>10 DEF IInv, TypeOK

\* Every action, for what the page and the library keep.
LEMMA NextKeeps ==
  ASSUME Kept, Next
  PROVE  Kept' /\ hist'.api = hist.api
<1>1. CASE Browser
  BY <1>1, TimerKeeps, TravelKeeps, HashKeeps DEF Browser
<1>2. CASE Answer
  BY <1>2, ModuleListAnswerKeeps, ServerListAnswerKeeps, LogonAnswerKeeps DEF Answer
<1>3. CASE User
  BY <1>3, BrowserBackKeeps, ReloadKeeps, ClickHomeKeeps, ClickBrandKeeps,
     ClickServersKeeps, ClickBackKeeps, ClickLogonKeeps DEF User
<1> QED
  BY <1>1, <1>2, <1>3 DEF Next

\* And for the cookies and the count.
LEMMA NextCounts ==
  ASSUME Next, cookies \in [info : BOOLEAN, logon : BOOLEAN, islogon : BOOLEAN],
         hist.api \in Apis, inputs \in 0..MaxInputs[hist.api]
  PROVE  /\ cookies' \in [info : BOOLEAN, logon : BOOLEAN, islogon : BOOLEAN]
         /\ inputs' \in 0..MaxInputs[hist.api]
<1>1. PICK most \in Nat : most = MaxInputs[hist.api]
  BY ConsoleAssumption
<1>2. CASE Browser
  BY <1>2 DEF Browser, TimerFires, Travel, HashChange, HashPoll
<1>3. CASE Answer
  <2>1. inputs' = inputs
    BY <1>3 DEF Answer, ModuleListAnswer, ServerListAnswer, LogonAnswer
  <2>2. \/ cookies' = cookies
        \/ cookies' = [cookies EXCEPT !.info = @ \/ ui.kind = "logon", !.islogon = TRUE]
    BY <1>3 DEF Answer, ModuleListAnswer, ServerListAnswer, LogonAnswer
  <2>3. [cookies EXCEPT !.info = @ \/ ui.kind = "logon", !.islogon = TRUE]
          \in [info : BOOLEAN, logon : BOOLEAN, islogon : BOOLEAN]
    OBVIOUS
  <2> QED
    BY <2>1, <2>2, <2>3
<1>4. CASE User
  <2>1. cookies' = cookies /\ Input
    BY <1>4 DEF User, BrowserBack, Reload, ClickHome, ClickBrand, ClickServers, ClickBack, ClickLogon
  <2>2. inputs < most /\ inputs' = inputs + 1 /\ inputs \in 0..most
    BY <2>1, <1>1 DEF Input
  <2>3. inputs' \in 0..most
    BY <2>2
  <2> QED
    BY <2>1, <2>3, <1>1
<1> QED
  BY <1>2, <1>3, <1>4 DEF Next

LEMMA NextInvariant == IInv /\ [Next]_vars => IInv'
<1> SUFFICES ASSUME IInv, [Next]_vars PROVE IInv'
  OBVIOUS
<1>1. CASE Next
  <2>1. Kept' /\ hist'.api = hist.api
    <3>1. Kept
      BY DEF IInv, TypeOK, Kept
    <3> QED
      BY <3>1, <1>1, NextKeeps
  <2>2. /\ cookies' \in [info : BOOLEAN, logon : BOOLEAN, islogon : BOOLEAN]
        /\ inputs' \in 0..MaxInputs[hist'.api]
    BY <2>1, <1>1, NextCounts DEF IInv, TypeOK
  <2>3. hist' \in History
    BY <2>1 DEF Kept, Settled, Tab
  <2> QED
    BY <2>1, <2>2, <2>3 DEF IInv, TypeOK, Kept
<1>2. CASE UNCHANGED vars
  BY <1>2 DEF IInv, TypeOK, vars
<1> QED
  BY <1>1, <1>2

LEMMA InvariantHolds == Spec => []IInv
BY InitInvariant, NextInvariant, PTL DEF Spec

\* The tab, the page, the requests and the cookies are of their types.
THEOREM Types == Spec => []TypeOK
<1>1. IInv => TypeOK
  BY DEF IInv
<1> QED
  BY <1>1, InvariantHolds, PTL

\* With either event that the browser raises, every handler of History.js gives
\* the busy flag back or leaves the browser an event to raise.
THEOREM BusyIsOwed == Spec => []BusyIsOwedAnEvent
<1>1. IInv => BusyIsOwedAnEvent
  BY DEF IInv, Settled, Owed, BusyIsOwedAnEvent, Moving
<1> QED
  BY <1>1, InvariantHolds, PTL

LEMMA QuietFits ==
  ASSUME NEW h, Tab(h), Awake(h), ~h.busy, ~h.armed, NEW u, Fits(h, u), h.saved # Bare("server")
  PROVE  u.kind = PageAt(h.saved.url) /\ (u.kind = "server" => u.luid = h.saved.luid)
<1>1. h.queue = <<>>
  BY DEF Awake
<1>2. ~Redirected(h)
  BY <1>1 DEF Redirected
<1> QED
  BY <1>2 DEF Fits

\* Once nothing moves, the page is the one the router builds for the state.
THEOREM PageIsOfState == Spec => []PageOfState
<1>1. IInv => PageOfState
  BY QuietFits DEF IInv, Settled, PageOfState, Quiet, Shows
<1> QED
  BY <1>1, InvariantHolds, PTL

\* With the native API, the page and the state are also the address bar's.
THEOREM AddressIsOfState == Spec => []AddressIsState
<1>1. IInv => AddressIsState
  BY QuietFits DEF IInv, Settled, AtState, AddressIsState, Quiet
<1> QED
  BY <1>1, InvariantHolds, PTL

\* A page shows the answer to another page's request only when that request was
\* under way as the page was built; nor do the buttons of its list die otherwise.
THEOREM OnlyLateAnswersAreForeign == Spec => []LateAnswersOnly
<1>1. ASSUME IInv PROVE LateAnswersOnly
  <2>1. ui \in Ui /\ Fed(ui, requests)
    BY <1>1 DEF IInv, TypeOK
  <2>2. ui.kind = "server" /\ ui.list \in Luids => ui.list = ui.luid \/ ui.list \in ui.late
    BY <2>1 DEF Fed
  <2>3. ASSUME ui.list = "modules", "modules" \notin ui.late
        PROVE  Handlers # 0
    <3>1. PICK lists \in Seq(BOOLEAN) : lists = ui.lists
      BY <2>1 DEF Ui
    <3>2. PICK n : n = HandlersOf(lists)
      OBVIOUS
    <3>3. Handlers = n
      BY <3>1, <3>2 DEF Handlers, HandlersOf
    <3>4. lists = <<TRUE>>
      BY <3>1, <2>1, <2>3 DEF Fed
    <3>5. n \in 0..Len(lists) /\ (n < Len(lists) => ~lists[n + 1])
      BY <3>2, HandlersFacts
    <3>6. Len(lists) = 1 /\ lists[1] = TRUE
      BY <3>4
    <3>7. n # 0
      <4> SUFFICES ASSUME n = 0 PROVE FALSE
        OBVIOUS
      <4>1. ~lists[0 + 1] /\ 0 + 1 = 1
        BY <3>5, <3>6
      <4> QED
        BY <4>1, <3>6
    <3> QED
      BY <3>3, <3>7
  <2> QED
    BY <2>2, <2>3 DEF LateAnswersOnly
<1> QED
  BY <1>1, InvariantHolds, PTL
=============================================================================
