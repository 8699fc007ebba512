# LCXL Net Loader: formal models

LCXL Net Loader is a layer-4 load balancer for Windows. An NDIS filter driver on the *router* machine
takes TCP connections to a virtual IP address, chooses a back-end server for each and forwards its
frames by rewriting the destination MAC address; the same driver on the *server* machines accepts the
forwarded frames and answers health checks. A Windows service configures the driver, and a web console
configures the service.

These modules model two ends of it: the parts of the driver that decide which server a connection goes
to, the data structures they stand on and the frames that pass through it; and the web console in its
browser tab, with the libraries its pages are built on. They are written from the source under `src/`;
`PROJECT.json` names for every definition the lines it stands for.

## Inventory

| Component | State | Operations | Interacts with | Hard behaviour | Correct when |
|---|---|---|---|---|---|
| LCXL list (`common/driver/lcxl_lock_list.h`), reference-counted entries (`ref_lock_list.h`) | links, `list_count`, the add and delete queues, `lock_count` (8 bits), spin lock; `ref_count` per entry | Init, Lock, Unlock, Add, Remove, GetHead, GetCount; IncRef, DecRef | embedded in the server list, the filter list, `g_filter_list`; calls `del_func`, which frees | *Lock* is not a mutex: readers overlap, writers queue, the last reader applies the queues | readers see a frozen list; nothing is used after it is freed, unlinked twice, or forgotten in a queue; counts exact |
| Server pool (`driver/lcxl_server.c`, the ADD/DEL_SERVER IOCTLs in `device.c`) | `server_list`; per server: MAC, IP flags, status flags, `ref_count`, spin lock | add, replace, delete, find, select (four algorithms) | LCXL list; routes hold references | IOCTL threads, the receive path and the worker meet in one list; deleted servers are drained, not dropped | references balanced, a deleted server only drains, locks are released |
| Routes (`driver/lcxl_route.c`, `lcxl_setting.c`, `RouteTCPNBL`) | `route_list`: (source, ports) → server, status, time | look up (expiring others on the way), insert, delete, follow FIN/RST | holds server references; driven by received frames | repeated SYNs, half-closed connections, expiry in the middle of another connection's walk | one route per connection, affinity, one reference per route |
| Health check (`CheckServerStatus`, `ProcessCheckingNBL`, the worker thread in `filter.c`) | per server: ONLINE/CHECKING/DELETED, `timestamp`, `current_retry_number` | one round per second; an answer | sends and receives checking frames; changes what selection sees | lost, late frames; an answer racing the last retry; IOCTLs changing the status in between | a silent server goes offline in bounded time and not earlier; a working one comes back |
| Filter module lifecycle (`FilterAttach` … `FilterDetach`, `DriverUnload`) | `g_filter_list`, per filter: NDIS state, module settings, worker thread | attach, pause, restart, detach, OID, unload | IOCTLs walk `g_filter_list`; detach frees servers and routes | a pause in the middle of a send or receive call; several servers at detach | frames are accounted for through every pause; everything is given back |
| NBL paths (`FilterSend…`, `FilterReceive…`, `…Complete`, `FilterReturn…`) | the chains and lists of one call, `outstanding_sends`, `outstanding_rcvs` | split chains, drop, copy, forward, advertise, complete, return | NDIS above and below; the worker sends on its own | own frames and foreign frames mixed in one completion; frames that cannot pend; returns before the call that indicated them ends | every foreign frame goes home once, every own frame is freed once; the counters are explained |
| Packet classification (`ProcessARP`, `ProcessICMPv6`, `ProcessTCP`, `ProcessUDP`, `ProcessNBL`) | none | a decision per frame | NBL paths | role and address family combinations | matches the role's intent |
| Device IOCTLs (`device.c`) | none of its own | list modules, set role, address, servers, check times, algorithm | all of the above | buffer sizes, brackets left open | each handler leaves lists as it found them |
| DLL (`dll/interface.c`) | none | one `DeviceIoControl` per function | service | – | – |
| Service (`LCXLNetLoaderService.cpp`, `lcxl_config.cpp`, `common/service/`) | configuration, VIP threads, sockets | start, stop, JSON requests, virtual address up and down | driver through the DLL, other routers through the network | shutdown waits for threads that want the lock it holds; two routers and one address | configuration mirrors the driver; one active router |
| Web server (`web/netloader-web/src/main/java`) | HTTP session | forward a request to the service, answer | service over one socket per request | – | – |
| Console navigation (`sea-modules/history`) | the state shown and the one expected, the busy flag, the queue, the stores; the tab's session history | push, replace, back, forward; popstate, hashchange, poll; load and unload | the router; the browser | calls made while busy, events of the user's own steps in between, reloads, three kinds of browser | no call is forgotten; address, state and page agree once nothing moves |
| Console router and pages (`html/index.js`, `user-modules/*-page.js`) | what `.lcxlpage` holds, the handlers bound to it, the requests under way, cookies | build the page of a state; list, log on, navigate | History.js; the web server | answers in any order, for pages that are gone; handlers that pile up | the page is the state's; what is shown was asked for |
| Module dialog and widgets (`sea-modules/bootstrap`, `bs-dialog.js`, `virtual-addr-setting.js`) | a dialog, its backdrop and body class; panels; transitions awaited | open, edit, save, dismiss; show, hide, toggle | web server; the module list's data | late answers hide or copy another dialog; end events lost or late | the dialog settles; data is what was saved |
| Templates (`sea-modules/handlebars`, `handlebars-helper.js`) | the compiled functions, cached | compile, render | every page | shared programs, contexts passed by position | renders what the template says |
| Kalman filter (`common/kalman.c`) | – | not called by the driver yet | – | – | – |

jsoncpp, jQuery, sea.js, the installer and the web demo are left aside.

## Modules

```
LcxlListOps ──┬── DeferredList      what an LCXL list promises; ServerPool's server_list is one
              ├── LcxlList ──── MCLcxlList        how the code does it; implements DeferredList
              │       └──────── LcxlListProofs    machine-checked theorems
              ├── LcxlListOpsProofs               lemmas on the list effects, for both proofs
LoadBalancer ─┴── ServerPool ── MCServerPool      servers, selection, routes, IOCTLs, worker; implements both
   │                  └──────── ServerPoolProofs ── ServerRefsProofs    machine-checked theorems
   └── what the pool promises its clients
HealthCheck ┬── MCHealthCheck                     one server, its checks, the network
            └── HealthCheckProofs                 machine-checked theorems
FilterPath ─┬── MCFilterPath                      the frames between NDIS above and below
            └── FilterPathProofs                  machine-checked theorems
HistoryJs ── WebConsole ─┬── MCWebConsole         the tab: History.js, router, pages, requests
                         └── WebConsoleProofs     machine-checked theorems
Bootstrap ── ModuleDialog ─┬── MCModuleDialog     the virtual address dialog on its widgets
                           └── ModuleDialogProofs machine-checked theorems
Handlebars ── ConsoleTemplates ── MCConsoleTemplates    the template engine against a template's meaning
```

**LcxlList** follows the two headers. `lock_count` and the spin lock are separate variables as in the code;
a *caller* is one Lock..Unlock bracket, with the link it stands on (`cursor`) and the references it has
taken (`refs`). `LockLcxlList`, `AddEntrytoLcxlList` and `RemoveEntryfromLcxlList` are one spin-lock
section each. `UnlockLcxlList` is the decrement; when it reaches 0 the caller keeps the spin lock and
`ApplyDelete`, `ApplyAdd` are the iterations of the two loops, `FinishUnlock` the release.
`DecRefListEntry` ends in *remove* mode when it reaches zero: the decrement and the removal are two
steps, as they are in the code. How callers use the list is taken from the driver: references are taken
only on entries not marked deleted (`ServerIsAvaliable` under the entry's lock), the first reference is
given back once by whoever marks the entry (`IOCTL_ROUTER_DEL_SERVER`). Where the driver breaks these
rules is the subject of ServerPool's violations, not of this module.

**DeferredList** is the abstract specification: a list that changes at once when nobody reads it and
otherwise in one step when the last reader leaves, removals first. **LcxlListOps** holds the values both
sides share, and the list effects ServerPool uses: there each Lock, Unlock, Add and Remove is one step,
which `ImplementsDeferredList` justifies.

**LoadBalancer** is the abstract specification of the pool: servers in service, leaving or gone, connections
each with its server, and one connection being opened. A server that is withdrawn gets no new connection, keeps
those it has, and is gone in the step in which the last of them, or the choice of it, ends. It has no lists, locks,
counts or threads.

**ServerPool** has the threads of the driver: `rx` (received frames), `wk` (`FilterWorkThread`), `Ctl`
(IOCTLs). A step is one critical section or one piece of code between two of them, so any other thread may
run between looking a server up and using it, between two servers of a selection, and between selecting
and binding a route. Parts:
- `AddServer`/`DelServer`/`ReceiveChecking` (lock and look up), `AddNew`, `AddExisting`, `DelApply`,
  `CheckedApply`, `Unlock`; `SetRoutingAlgorithm`;
- `WorkerStart`, `WorkerCheck`, `WorkerEnd`: the timers are open here, HealthCheck has them;
- `Receive`, `WalkRoute`, `WalkEnd` (`GetRouteListEntry`); `SelectNone`, `SelectLeast`, `VisitServer`,
  `VisitEnd`, `SelectFrom`, `PollEnter`, `PollServer`, `PollFallback`, `PollLeave` (`SelectBestServer` and
  `FindAvaliableServerFormCurrentServer`); `Bind` and `Forward` (`RouteTCPNBL`, and the forwarding in
  `FilterReceiveNetBufferLists`).

A segment is its connection and its flags (`Segments`, the combinations `RouteTCPNBL` tells apart); a
route's age is the flag `stale`; the IP hash is taken of the virtual address, as in the code, so it is a
constant. `RA_FAST_RESPONSE` falls through to `RA_LEAST_CONNECTION`. `drops` and `dels` are history and
bound. Its last section maps it to the two abstract specifications. A server is withdrawn when its first reference
is given back (`drops`) and gone when it is handed to the list's removal (`Standing`); a connection is being opened
while `rx` is selecting for it. The readers of the deferred list are the brackets in progress (`Brackets`): those the
handlers will close, the nested one of a poll, and one for each `DEL_SERVER`, which nobody closes.

**HealthCheck** counts in seconds, the period of the worker. `Checked` is `CheckServerStatus`; `Answer` is
the server machine, `Lose` and `Turn` the environment; `silence` and `unasked` are history variables
saturated at `Horizon`.

**FilterPath** has one filter between the layers above and below. A frame is an element of `Up`, `Down` or
`Own` by whose it is, a list of NBLs a set; the places a frame can be are variables (`homeAbove`,
`homeBelow`, `pool`, `above`, `below`, `completing`, and the lists of the two handlers). `SendCall` to
`SendOwn` are `FilterSendNetBufferLists`, `ReceiveCall` to `ReceiveUncount`
`FilterReceiveNetBufferLists`, one step for each call of NDIS and each frame of the walk; `Complete`,
`Completed` and `DropOwnerNBL` the completion, `Return` and `ReturnCount` the return,
`CheckServerStatus` the worker's sends, `FilterPause`, `Paused`, `FilterRestart` the states. The verdict on
a frame (`ProcessNBL`) is any verdict. One send call and one receive call run at a time, interleaved with
everything else; `Modulus` stands for 2^32.

**HistoryJs** is History.js as operators from the library's state to the state after: JavaScript runs one
task at a time and the library calls back synchronously. A state stands for its identifier and for the
fragment that carries it, because `getStateString` makes the identifier a function of the state. **WebConsole**
has one action per task of the browser: the timer of `busy`, a step of the session history, `hashchange`, the
poll, an answer of the web server, and what the user does. A browser is one of three: native API, emulated
with `hashchange`, emulated with the poll; each with or without `sessionStorage`. The router listens inside
the library's operations: while the flag is set its calls go to the queue (`Listened`); on a popstate of the
browser itself, which may find the flag clear, its call is made inside the handler (`Routed`).

**Bootstrap** gives the modal dialog and the collapsible panel as records and their methods as operators; an
awaited transition has its handlers, the timers of `emulateTransitionEnd` with their `called` flags, and
the events the browser may still fire. **ModuleDialog** puts the module list, its panels and the dialog of a
virtual address on them, with saves answered in any order (stored, refused, or no answer) and the list loaded
again in between.

**Handlebars** has the syntax tree, the compiler (one operator for each of its methods), the numbering of
programs, and one operator for each opcode, on a stack of values where the JavaScript compiler has a stack
of expressions. **ConsoleTemplates** uses it as `Handlebars.compile` does (compiled on the first call, then
kept) and defines independently what a template means.

## What is checked

| Run | Shows | Bounds |
|---|---|---|
| `list` | readers see a frozen list; no use after free; unlinked once; nothing left queued; counts exact; an unreferenced entry is freed; refinement of DeferredList | 3 brackets, 2 entries: two brackets overlap while a third ends last, both queues fill in either order. The theorems below cover every size |
| `pool_routes` | one route per connection, affinity, exact reference counts, deleted servers only drain and are removed unused; refinement of LoadBalancer | 2 connections, 2 servers, 1 deletion, least connections, one IOCTL at a time; deleted servers are not added again (`pool_readd` shows why). The theorems cover every number of each |
| `pool_poll` | counts exact, frozen list, under round robin and IP hash with their nested brackets | 1 connection, 2 servers, 1 deletion |
| `health` | offline at the exact bound and not earlier, asked again, back again | interval 3, time-out 2, 2 retries; a frame may take longer than a time-out; 2 losses between answers, 1 addition. The theorems cover every interval, time-out and retry number |
| `filter` | every frame in one place, none lost but advertisements, the two counters explained | 2 frames of each kind, chains of 2, counters modulo 2, frames interchangeable. Two frames of a kind are enough for a list to hold both or split them. The same properties hold with modulus 3 (4.7 million states), and with one frame above and modulus 4. The theorems cover every set of frames |
| `console` | calls served, busy given back, page, state and address agree, only late answers under the wrong page | 2 modules, every kind of browser, with and without sessionStorage, opened at three addresses, with each combination of the cookies the router reads; 3 actions of the user with the native API, 2 with the emulated ones: enough for a step back during a call, twice, and for each of the router's three calls to be made inside the handler of a popstate. The theorems cover any number of actions and modules |
| `dialog` | the dialog settles, panels settle, data is what was saved | 2 modules, 2 addresses, 5 actions of the user, the list loaded twice: two dialogs with a save of the first under way, one of them being replaced or hidden. The theorems cover any number of each |
| `templates` | the compiled functions render what the template means; no context missing; stack balanced | the console's five templates; every nesting of three blocks of five kinds around each of four contexts, pairs with an else, pairs side by side that differ in the innermost program; four inputs |

Bounds that end a behaviour (`MaxDel`, `MaxQueue`, `Slot`, `MaxAdd`, `MaxDown`, `MaxLoss`, `MaxDelay`, `MaxChain`,
`MaxInputs`, `MaxLists`) are guards, each commented where it is declared. `TypeOK` of LcxlList, ServerPool,
WebConsole and ModuleDialog and the inductive invariants `LcxlList!IInv`, `HealthCheck!HInv`, the `IInv` of the
proofs of the pool, the filter, the console and the dialog, `RefInv` and `DrainInv` hold in the same configurations, and
`ServerListIsDeferred` in that of `pool_routes`, where it takes TLC as long again as the rest; the runs do not
repeat them. `LockMod` is 256 everywhere, the real width. Deadlock is checked except in the polling
runs, where the receive path does stop (see `pool_spin`), and in `console` and `dialog`, where the user may stop.

### Where the code disagrees with itself

| Run | What the code says | What it does |
|---|---|---|
| `pool_leak` | comments at `lcxl_lock_list.h:122` and `ref_lock_list.h:37`: queued changes are made at unlock, an entry at 0 is deleted | `IOCTL_ROUTER_DEL_SERVER` never unlocks `server_list`: after one deletion nothing queued is ever applied |
| `pool_readd` | `ASSERT(ref_count == 0)`, `ref_lock_list.h:46` | adding a server that is being deleted overwrites `SS_DELETED`; the next deletion takes the count to -1. It needs no application that adds what it deleted: with two IOCTLs at once, an `ADD_SERVER` that has found the server and is overtaken by a `DEL_SERVER` does the same |
| `pool_spin` | "unlock the server", `lcxl_server.c:60` | the polling loop is left by `break` with the chosen server's lock held |
| `pool_race` | `ASSERT(...ref_count == 0)` on a removed server, `lcxl_server.c:9` | the fallback server of a poll gets its reference after its lock is released; a deletion in between queues the removal of a server that is then used, and later a second removal |

With `pool_leak` in place the removals of `pool_race` are queued and never applied; the assertion would
fail as soon as they were. Two further consequences follow from the model without a run of their own: the
leaked brackets of 256 deletions bring the 8-bit `lock_count` back to 0 under a reader, and a server added
twice while another bracket is open is allocated twice, because `FindServer` does not see queued additions.

### What the code does that a reader may not expect

These are not disagreements with a document, so they have no run; the properties state them as exceptions.

- Of several neighbour advertisements of one receive call only the last is indicated, as 0 frames; the
  others are lost (`LostAdvertisements`, `filter.c:1934`).
- `outstanding_sends` counts dropped frames up and own frames down: `SendsLedger` needs the drift of both.
  `outstanding_rcvs` may pass below 0 while a call runs (`ReceivesLedger`). The driver only logs them.
- A pause completes at once and the worker goes on sending (`filter.c:463`, `:2465`); the frames are
  accounted for all the same, which is all the properties say about it.
- `History.back` on the first entry, and two steps within one poll, leave History.js busy:
  `NavigationProceeds` excepts them.
- When the browser's own popstate finds the busy flag clear, the router's push, replace or back is made inside
  the handler, before the calls that wait, and the handler's `busy(false)` (`jquery.history.js:3008`) clears the
  flag that back has set: the step is under way with the flag clear, and other calls may be made before it.
  The page, state and address agree all the same once nothing moves (`PageOfState`, `AddressIsState`).
- The logon page sets the cookie `islogon`, the router reads `logon`: after a logon the router asks again.
- A late answer shows its list under whatever page is there (`LateAnswersOnly`), and a late save hides and
  copies whatever dialog is there (`SyncIsOfTheSave`). A refused save is shown as done until the list is
  loaded again. `refreshUI` throws (`SA_ENABLE_IPV4` is not defined in `module-list.js`), after the data
  was changed.

### Fairness

`LcxlList!FairSpec` assumes strong fairness of the code inside a function of the header: it waits only
for the list's spin lock, which Windows grants in turn and nobody holds across a wait. It assumes nothing of
callers: `UnreferencedIsFreed` therefore has the condition that the list is unlocked again and again, and
fails without it. `HealthCheck!FairSpec` assumes the worker's rounds go on (a timed wait of one second)
and that a frame that is not lost arrives. ServerPool has no liveness property.
`WebConsole!FairSpec` assumes the event loop: a timer that is armed, a step of the session history asked
for, a `hashchange` event and the poll come in the end. Answers and the user need not. `ModuleDialog!FairSpec`
assumes only that timers fire; the browser's own transition events may never come, which is what the timers
of `emulateTransitionEnd` are for.

## What is proved

### The list

`LcxlListProofs`, for every finite set of callers smaller than `LockMod`, every set of entries:

- `Inductive`, `InvariantHolds`: `IInv` is inductive and holds of `Spec`;
- `TypeCorrect`, `MemorySafe`, `RemovalsAreUnique`, `NothingForgotten`, `CountCorrect`,
  `ReferencesCounted`: `TypeOK` and the invariants `list` checks;
- `ReadersUndisturbed`: the action property `FrozenWhileLocked`;
- `DeferredListImplemented`: `ImplementsDeferredList`, the refinement, from `StepRefines` (every step of the code
  is a step of DeferredList or a stutter);
- `StepsHaveEffects`: Lock, Unlock, Add and Remove change the list as `Locked`, `Unlocked`, `WithEntry` and
  `WithoutEntry` of LcxlListOps say, and no other step does. These are the one-step operations of ServerPool.

The assumptions are those `LcxlList` declares: `CallerAssumption`, `EntryAssumption` and
`WidthAssumption` (fewer brackets than the counter's range).

None of the invariants is inductive alone. `NoUseAfterFree` needs to know that whatever a caller can reach
is linked (`ReachInv`) and linked entries are allocated (`ListInv`); that is preserved when an entry is
freed only because no bracket is then open (`LockInv`: the counter is the number of brackets, and the
spin lock's holder applies the queues while there is none) and because an entry at zero has no users
(`RefCountExact`). A queued or pending removal keeps zero references because references are taken only on
entries not marked deleted, whose count includes the list's own (`RefCountExact` again), and is unique
because it is made by the one caller that saw zero (`RemovedOnce`). `IInv` is the conjunction.
The proof has lemmas about sequences without repetitions (`AppendAdds`, `TailDrops`, `UnlinkRemoves`),
about the counter (`NoWrap`, `HeldCount`) and the users of an entry (`UserCount`), then one lemma per
action, and two shared by the actions that give a reference back (`DecRefKeeps`) and that free an entry
(`FreeingKeeps`).

In the refinement the abstract list takes the queues when `lock_count` reaches 0, while the code still works
through them under the spin lock: what the code has linked, with the rest of the two queues applied, is the
abstract list throughout (`Flushed` of LcxlListOps). So the decrement is the abstract Unlock and the iterations of
the loops stutter. That rests on two facts about `Without`, by induction on sets of numbers: removing the entries
one at a time, from the front of the queue, gives what removing their set at once does (`WithoutUnlinked`), and
appending is associative (`FlushedAfterAdd`).

### The servers and the routes

`ServerPoolProofs` and `ServerRefsProofs`, for every finite set of control threads, every set of servers,
MAC addresses and connections, route lists of any length, all four algorithms, with and without the re-adding
of deleted servers:

- `Inductive`: `IInv` holds of `Spec`; `PoolTyped`: `TypeOK`;
- `ListFrozen`: `FrozenWhileBracketed`; `RouteUnique`: `OneRoutePerConnection`;
  `ConnectionStays`: `Affinity`;
- `ReferencesAccounted`: `RefAccounting`.

`WidthAssumption` is the one that limits them: one bracket for each thread, a second one for `rx` (the nested
lock of a poll) and one for every `DEL_SERVER`, which never closes its own (`pool_leak`), must be fewer than
`lock_count` can count. After about 250 deletions the counter of the code wraps and nothing here holds any more.

What is proved of the list rests on `lock_count`. `LockInv` says what it counts: the brackets that will be
closed, the nested one, the deletions so far. Whoever closes the last bracket is therefore alone (`LeaveStep`), and
while any handler is in its bracket additions and removals are queued (`RereferEffect`, `WithEntryAdds`), so the
list stays. That keeps every pointer a handler holds linked (`Pointers`, `RxPointers`, `PointersStay`), and a
linked server's successor is linked or the list's head (`Links`): the walk of the worker, the least-connection
loop and the circle of a poll never leave the list. One lemma per action, with three shared ones for the steps
that open a bracket (`EnterStep`), close one or do neither (`QuietStep`).

`RouteInv` is what the walk knows: the entries before `pos` belong to other connections, and it ends on the
connection's own entry or, with a SYN, after the last. That is what makes a new route the connection's only one.
`RefInv` adds the count: a server that has not been allocated has no route and no reference, of a live one the
equation holds. Routes are counted as a set of places in the list, so a deletion or an insertion renames them
(`AtDrop`, `AtHead`, by a bijection) and a replacement moves one (`AtChange`). `LcxlListOpsProofs` has the
recursive function behind `UnlockLcxlList`, by the least counterexample instead of the library's induction.

What becomes of a deleted server depends on more than counting, and five theorems of `ServerRefsProofs` have a
hypothesis, `DeletionIsFinal`: IOCTLs come one at a time, no application adds a server it has deleted, and servers
are chosen by least connection.

- `RemovedStayUnused`: `RemovedAreUnused`; `DeletedServersDrain`: `DrainsOnly`;
- `CountsStayPositive`: `RefCountNotNegative`, which `pool_readd` violates;
- `LoadBalancerImplemented`: `ImplementsLoadBalancer`, and `ServerListDeferred`: `ServerListIsDeferred`, the two
  refinements.

Each part of the hypothesis is needed, and a run or a counterexample of TLC shows it: with re-adding the first
reference is given back twice (`pool_readd`); with two IOCTLs at once an addition can be overtaken by a deletion, to
the same effect; the fallback of a poll gives a removed server a user (`pool_race`). The invariant is `DrainInv`: a
server that was given back is marked, once, and stays linked (`Marked`); those queued for removal are different,
and are exactly the deleted servers that nothing uses any more (`Queued`); an addition that has found a server has
found one that is not marked (`Replacing`). A selection takes available servers only, so a marked server gets no
new use, and its count says when the last is gone (`UsedCount`); a removal is then queued and never carried out, because the deletion's own bracket stays open
(`LeftOpen`, `NeverLast`), which is also why it is not queued twice. `DrainsOnly` follows from the two sides of
`RefInv`: of a marked server uses and references change alike.

`LoadBalancerImplemented` has to show that a server is queued for removal in the very step in which its last use
ends, not in a later one, whichever thread takes that step. `StandingByUse` turns the mapping into a statement
about uses: of a deleted server the references are its uses, so it is queued exactly when it has none. With that each
action is one abstract step or a stutter: linking a new server is `Register`, the deletion's last step is `Withdraw`,
the end of a SYN's walk is `Open`, a server taken in the least-connection loop is `Consider`, and `Bind` is `Accept` or
`Refuse`. A step of the walk and a forwarded frame close a route, `Close`, or change none. The mapping makes one
thing visible that the code's names hide: a server under consideration counts as a use, so a deletion that meets a
selection lets the connection through to the deleted server, once.

`ServerListDeferred` shows the other side of the same list: that what the pool asks of it is what LcxlList assumes
of its callers (`Insert` of a server that is in neither list nor queue, `Delete` of a linked one that is not queued),
and that the effects of LcxlListOps used here in one step are DeferredList's. The counter `lock_count` becomes the
set of brackets (`CountsBrackets`: 0 exactly when there is none, by `WidthAssumption`), and nothing waits while there
is none (`Waiting`). With `DeferredListImplemented` this closes the gap between the two levels: the list the
code runs implements the list the pool was checked on. Removal is queued and, after the leaked bracket of the
deletion, never carried out; the theorem says what is promised then too, and `pool_leak` that the code's comments
promise more.

### The health check

`HealthCheckProofs`, for every interval, retry number and non-zero time-out (`CheckAssumption`) and every
bound of the environment (`BoundAssumption`): `HealthInductive`, `HealthInvariant` (`HInv`), `HealthTypes`,
`SilenceIsDetected` (`DetectedInTime`), `OfflineIsAsked` (`AskedInTime`), `NotOfflineEarly`
(`OfflineOnlyAfterSilence`).

The bounds speak of silence, the code of the age of `timestamp`, which a check resets and an answer resets
too. `HInv` relates the two in the three states of a server that is not deleted: idle and online (`UpInv`:
silence is at most the age, which is at most the interval), under check (`CheckInv`: silence is the age plus
the interval that came before, and the retries used so far bound the age), offline (`DownInv`: the retry
number follows the age, so the next request is at most one time-out away). `RoundCases` states
`CheckServerStatus` case by case; `OneMore` and `Longer` are the arithmetic of the time-out that grows
with the retries.

`AskedInTime` is limited to servers that no application has touched: ADD_SERVER can set a server offline
with the retry number of an earlier outage, and the next request then waits for all those time-outs.

### The frames

`FilterPathProofs`, for all disjoint finite sets of frames, every chain length and modulus: `Types` (`TypeOK`),
`SentFrames`, `ReceivedFrames`, `OwnFrames` (`SentFramesOnce`, `ReceivedFramesOnce`, `OwnFramesOnce`),
`OnlyAdvertisementsAreLost` (`LostAdvertisements`), `SendsAreCounted` (`SendsLedger`) and `ReceivesAreCounted`
(`ReceivesLedger`).

The three invariants say where a frame is; what they miss is which lists a handler can still have at a
given step: that a call which is refused has its whole chain, and that the lists of an idle handler are
empty. `Control` says so for each step of the two handlers, and `IInv` is its conjunction with the three
and the types. One lemma per conjunct takes the actions one by one (`TypeStep`, `ControlStep`, `SentStep`,
`ReceivedStep`, `OwnStep`); `LostStep` follows a step's effect on the frames that are nowhere.

The ledgers equate a counter that wraps with a number of frames that does not. The proofs follow the difference:
a step that moves n frames and adds n to the counter keeps the two alike, whatever the modulus (`Alike`), so a
ledger is one lemma per step about how many frames it moves. `ReceivesLedger` speaks of the call that runs, and is
not inductive: a refused call keeps its frames on the handler's lists without being counted, so the invariant
counts what is held (`HeldLedger`).

### The dialog

`ModuleDialogProofs`, for all modules and addresses and any number of inputs, dialogs, saves and lists: `Types`
(`TypeOK`), `ModalSettles` (`SettledModal`), `EndsAreTimed` (`AwaitedHasTimer`) and `SyncTakesTheSave`
(`SyncIsOfTheSave`).

`SettledModal` says nothing of a dialog in motion, so it is not inductive. The invariant names the phases: closed,
fading in, standing, leaving, fading out, and one that the code does not mean, hidden while the backdrop still fades
in (`HiddenEarly`): that dialog appears nevertheless and leaves after it. In each, who waits for what is fixed
(`Phases`), and whoever waits has a timer (`Timed`); so when no timer is left, the phase is closed or standing.
Each method of Bootstrap has a lemma on the phases it leads to. `Asked` relates the saves to the dialogs: a save
is of this dialog or of an earlier one, and one of this dialog whose form has not been edited since has the form's
address. With it `SyncIsOfTheSave` is a matter of the one action that answers a save.

### The console

`WebConsoleProofs`, for any modules, any number of inputs, any length of the session history and of the queue, and
each kind of browser: `Types` (`TypeOK`), `BusyIsOwed` (`BusyIsOwedAnEvent`), `PageIsOfState` (`PageOfState`),
`AddressIsOfState` (`AddressIsState`) and `OnlyLateAnswersAreForeign` (`LateAnswersOnly`).

The properties hold once nothing moves; the invariant says what holds while something does. The library waits only
for an event the browser still owes it (`Owed`), and calls that wait have a timer or a busy library to run them
(`Awake`). With the native API, what the entries of the session history keep agrees with their addresses
(`EntriesKept`) and the tab stands on the state that is shown (`AtState`). With the emulated ones, neighbouring
entries of one document differ in their fragment (`Apart`), so a step inside a document always raises an event. The
page is the state's, unless a redirection of the router is still in the queue (`Fits`): when nothing moves the queue
is empty. `Fed` says which requests can be under way for the page on screen and which lists it can then have.

History.js calls the router back, which calls History.js: one lemma per operation of the library says what it
preserves for any state it is called in, one per page what building it does, and the several calls of one
click, whose handlers pile up, are followed by induction on their number (`AgainStays`). `RoutedStands` is about the
call made inside the handler of a popstate: it either changes the state, and so triggers the event again, or is
the step back from the servers of no module, which no page has to fit. Then there is one lemma per action. The
assumptions are those of the modules: the value for "nothing" is none of the data (`NoneAssumption`), and
modules' identifiers are not names the pages use, nor does the console start at the fragment that stands for
any other (`ConsoleAssumption`).

### Only model-checked

- Liveness: out of the prover's reach. `UnreferencedIsFreed`, `ComesBack`, `NavigationProceeds`, `TransitionsEnd`.
- The templates: `CompiledRenders`, `DepthsBound` and `StackBalanced` are about recursive functions over the syntax
  tree, and the engine is written with RECURSIVE operators, as is the meaning it is compared with.

## Not modelled

- **Attach, detach, unload** and `g_filter_list`: NDIS calls them one at a time with the data path stopped,
  and the list is the one LcxlList models. `FilterDetach` gives back one server only (`filter.c:695`).
- **Several receive queues** on `route_list`, and allocation failures: an unlocked linked list and a null
  pointer written through have no behaviour the source defines.
- **The server's half of a TCP connection**: the driver does not see it.
- **Packet classification**: functions of bytes, with no second definition of what they should return.
- **The Windows service**: its threads and handlers rest on the service manager, sockets and a second router.
- **The Java web server**: one request, one socket, one answer; ModuleDialog has its outcomes.
- **Kalman filter**: floating point, not called. Installer, DLL, jsoncpp, sea.js, jQuery, the other plugins of
  Bootstrap, the parser of Handlebars.

`PROJECT.json` lists the hazards that have no property, each with the reason. Frame formats, checksums, logging
and the performance record are left out.
