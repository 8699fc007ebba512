----------------------------- MODULE ServerPool -----------------------------
(***************************************************************************)
(* The load balancer's servers and routes (driver/lcxl_server.c,           *)
(* driver/lcxl_route.c, the IOCTLs of driver/device.c, RouteTCPNBL,        *)
(* CheckServerStatus and ProcessCheckingNBL of driver/filter.c): how back- *)
(* end servers come and go while connections are routed to them.           *)
(*                                                                         *)
(* Threads: rx receives frames of the network card (TCP segments of        *)
(* clients and checking frames of servers), wk is FilterWorkThread, and    *)
(* the Ctl threads run IOCTL_ROUTER_ADD_SERVER / DEL_SERVER.  They meet in *)
(* server_list (an LCXL list, see LcxlList), in the servers' spin locks    *)
(* and reference counts.  A step is one critical section, or one piece of  *)
(* code between two of them; route_list belongs to rx alone (one receive   *)
(* queue).                                                                 *)
(***************************************************************************)
EXTENDS LcxlListOps, FiniteSets

CONSTANTS
  Mac,         \* MAC addresses of back-end servers
  Slot,        \* server allocations: bounds how often AllocServer is called
  Conn,        \* client connections: (source address, source port, dest port)
  Ctl, rx, wk, \* threads
  AddInfo,     \* [status, ip_enabled]: what an application passes to ADD_SERVER
  Algorithms,  \* the algorithms an application passes to SET_ROUTING_ALGORITHM
  VipHash,     \* the virtual IPv4 address as a number
  ReAdd,       \* do applications add servers they have deleted?
  LockMod,     \* range of LCXL_LIST.lock_count (256)
  MaxDel,      \* bound on DEL_SERVER calls
  MaxQueue,    \* no new connections once so many removals are queued
  None

Thread == Ctl \cup {rx, wk}

ASSUME ThreadAssumption == rx # wk /\ {rx, wk} \cap Ctl = {} /\ None \notin Slot \cup Thread
ASSUME InfoAssumption == AddInfo \subseteq [status : SUBSET {"ONLINE", "CHECKING", "DELETED"},
                                           ip_enabled : BOOLEAN]
\* The brackets open at once, one for each thread and a second one of rx, and
\* those that DEL_SERVER never closes, are fewer than lock_count can count.
ASSUME WidthAssumption ==
  /\ IsFiniteSet(Ctl) /\ MaxDel \in Nat /\ LockMod \in Nat \ {0}
  /\ Cardinality(Ctl) + 3 + MaxDel < LockMod
ASSUME AlgorithmAssumption ==
  Algorithms \subseteq {"RA_LEAST_CONNECTION", "RA_FAST_RESPONSE", "RA_POLL", "RA_IP_HASH"}
ASSUME InputAssumption == VipHash \in Nat /\ ReAdd \in BOOLEAN

\* The SS_ flags of LCXL_SERVER.status.
Flags == {"ONLINE", "CHECKING", "DELETED"}

\* th_flags of the client segments that RouteTCPNBL tells apart.
Segments == {{"SYN"}, {"ACK"}, {"FIN", "ACK"}, {"RST"}}

VARIABLES
  server_list,  \* module.server_list, an LcxlListOps value over Slot
  info,         \* SERVER_INFO_LIST_ENTRY.info: [mac, status, ip_enabled]
  ref_count,    \* SERVER_INFO_LIST_ENTRY.list_entry.ref_count
  memory,       \* "unused", "live" or "freed"
  spin,         \* holder of a server's spin lock, when held across steps
  route_list,   \* LCXL_FILTER.route_list, head first
  routing_algorithm, current_server_index,
  pc,           \* where each thread is
  req,          \* the request a thread is serving: [op, mac, info]
  found,        \* the server pointer a thread holds (FindServer, Link)
  pkt,          \* the segment rx is routing: [conn, flags]
  pos,          \* rx's place in route_list
  best,         \* best_server / online_server of the selection, once referenced
  start,        \* the server a poll began with
  checking,     \* checking_server of a poll
  drops,        \* history: DEL_SERVER calls that gave the first reference back
  dels          \* number of DEL_SERVER calls so far

poolVars == <<server_list, info, ref_count, memory, spin>>
routeVars == <<route_list, routing_algorithm, current_server_index>>
rxVars == <<pkt, pos, best, start, checking>>
vars == <<poolVars, routeVars, pc, req, found, rxVars, drops, dels>>

NoReq == [op |-> "none"]
Infos == [mac : Mac \cup {None}, status : SUBSET Flags, ip_enabled : BOOLEAN]
Routes == [conn : Conn, status : {"NORMAL", "LAST_ACK", "CLOSED"}, server : Slot, stale : BOOLEAN]

TypeOK ==
  /\ server_list.list \in Seq(Slot) /\ server_list.to_be_add \in Seq(Slot)
  /\ server_list.to_be_del \in Seq(Slot)
  /\ server_list.lock_count \in 0..(LockMod - 1)
  /\ info \in [Slot -> Infos] /\ ref_count \in [Slot -> Int]
  /\ memory \in [Slot -> {"unused", "live", "freed"}]
  /\ spin \in [Slot -> Thread \cup {None}]
  /\ route_list \in Seq(Routes)
  /\ routing_algorithm \in Algorithms \cup {"RA_LEAST_CONNECTION"}
  /\ current_server_index \in Nat
  /\ found \in [Thread -> Slot \cup {None}]
  /\ {best, start, checking} \subseteq Slot \cup {None}

-----------------------------------------------------------------------------
Init ==
  /\ server_list = EmptyList
  /\ info = [s \in Slot |-> [mac |-> None, status |-> {}, ip_enabled |-> FALSE]]
  /\ ref_count = [s \in Slot |-> 0]
  /\ memory = [s \in Slot |-> "unused"]
  /\ spin = [s \in Slot |-> None]
  /\ route_list = <<>>
  /\ routing_algorithm = "RA_LEAST_CONNECTION" /\ current_server_index = 0
  /\ pc = [t \in Thread |-> "idle"]
  /\ req = [t \in Thread |-> NoReq]
  /\ found = [t \in Thread |-> None]
  /\ pkt = NoReq /\ pos = 0 /\ best = None
  /\ start = None /\ checking = None
  /\ drops = [s \in Slot |-> 0] /\ dels = 0

Goto(t, l) == pc' = [pc EXCEPT ![t] = l]

(* Mutant: a deleted server is still chosen.                                *)
AvailableThoughDeleted(s) == info[s].ip_enabled /\ "ONLINE" \in info[s].status

(* ServerIsAvaliable *)
ServerIsAvaliable(s) ==
  info[s].ip_enabled /\ "ONLINE" \in info[s].status /\ "DELETED" \notin info[s].status

Checking(s) == "CHECKING" \in info[s].status

(* FindServer: the first linked server with this MAC address, deleted ones  *)
(* included, queued additions not.                                          *)
FindServer(m) ==
  LET hits == {i \in DOMAIN server_list.list : info[server_list.list[i]].mac = m}
  IN  IF hits = {} THEN None ELSE server_list.list[Min(hits)]

(* Link->Flink in server_list, None being the list head.                    *)
First == IF server_list.list = <<>> THEN None ELSE Head(server_list.list)
Index(s) == CHOOSE i \in DOMAIN server_list.list : server_list.list[i] = s
NextOf(s) == IF Index(s) = Len(server_list.list) THEN None ELSE server_list.list[Index(s) + 1]

(* A sequence of IncRefListEntry (up) and DecRefListEntry (down) calls on   *)
(* at most one server each; down at zero removes the server from the list.  *)
Rerefer(down, up) ==
  LET r == [s \in Slot |-> ref_count[s] - (IF s = down THEN 1 ELSE 0)]
      removed == down # None /\ r[down] <= 0
      lost == IF removed THEN FreedByRemove(server_list, down) ELSE {}
  IN  /\ ref_count' = [s \in Slot |-> r[s] + (IF s = up THEN 1 ELSE 0)]
      /\ server_list' = IF removed THEN WithoutEntry(server_list, down) ELSE server_list
      /\ memory' = [s \in Slot |-> IF s \in lost THEN "freed" ELSE memory[s]]

UnlockServerList(l) ==
  /\ server_list' = Unlocked(l, LockMod)
  /\ memory' = [s \in Slot |-> IF s \in FreedByUnlock(l, LockMod) THEN "freed" ELSE memory[s]]

-----------------------------------------------------------------------------
(* IOCTL_ROUTER_ADD_SERVER, IOCTL_ROUTER_DEL_SERVER and, in rx, a checking  *)
(* frame of a server: lock server_list, look the MAC address up, act on     *)
(* what was found.                                                          *)

Lookup(t, r) ==
  /\ pc[t] = "idle"
  /\ server_list' = Locked(server_list, LockMod)
  /\ found' = [found EXCEPT ![t] = FindServer(r.mac)]
  /\ req' = [req EXCEPT ![t] = r]
  /\ Goto(t, "apply")
  /\ UNCHANGED <<info, ref_count, memory, spin, routeVars, rxVars, drops>>

AddServer(t, m, i) ==
  /\ ReAdd \/ \A s \in Slot : info[s].mac = m => "DELETED" \notin info[s].status
  /\ FindServer(m) = None =>
       Cardinality({s \in Slot : memory[s] = "unused"})
         > Cardinality({c \in Ctl : req[c].op = "add" /\ found[c] = None})
  /\ Lookup(t, [op |-> "add", mac |-> m, info |-> i])
  /\ UNCHANGED dels

DelServer(t, m) ==
  /\ dels < MaxDel
  /\ dels' = dels + 1
  /\ Lookup(t, [op |-> "del", mac |-> m])

ReceiveChecking(m) ==
  /\ Lookup(rx, [op |-> "checked", mac |-> m])
  /\ UNCHANGED dels

(* The MAC address is unknown: a new server, its first reference the list's. *)
AddNew(t) ==
  /\ pc[t] = "apply" /\ req[t].op = "add" /\ found[t] = None
  /\ \E s \in Slot :
       /\ memory[s] = "unused"
       /\ memory' = [memory EXCEPT ![s] = "live"]
       /\ ref_count' = [ref_count EXCEPT ![s] = 1]
       /\ info' = [info EXCEPT ![s] = [mac |-> req[t].mac, status |-> req[t].info.status,
                                       ip_enabled |-> req[t].info.ip_enabled]]
       /\ server_list' = WithEntry(server_list, s)
  /\ Goto(t, "unlock")
  /\ UNCHANGED <<spin, routeVars, req, found, rxVars, drops, dels>>

(* The MAC address is known: its settings are replaced, status included.    *)
AddExisting(t) ==
  LET s == found[t] IN
  /\ pc[t] = "apply" /\ req[t].op = "add" /\ s # None
  /\ spin[s] = None
  /\ info' = [info EXCEPT ![s] = [mac |-> req[t].mac, status |-> req[t].info.status,
                                  ip_enabled |-> req[t].info.ip_enabled]]
  /\ Goto(t, "unlock")
  /\ UNCHANGED <<server_list, ref_count, memory, spin, routeVars, req, found, rxVars, drops, dels>>

(* Mark the server deleted and give the list's reference back, once.  The   *)
(* handler returns without UnlockLcxlList(&server_list).                    *)
DelApply(t) ==
  LET s == found[t] IN
  /\ pc[t] = "apply" /\ req[t].op = "del"
  /\ \/ /\ s # None /\ spin[s] = None
        /\ "DELETED" \notin info[s].status
        /\ info' = [info EXCEPT ![s].status = @ \cup {"DELETED"}]
        /\ drops' = [drops EXCEPT ![s] = @ + 1]
        /\ Rerefer(s, None)
     \/ /\ s # None /\ spin[s] = None
        /\ "DELETED" \in info[s].status
        /\ UNCHANGED <<info, drops, ref_count, server_list, memory>>
     \/ /\ s = None
        /\ UNCHANGED <<info, drops, ref_count, server_list, memory>>
  /\ Goto(t, "idle")
  /\ req' = [req EXCEPT ![t] = NoReq]
  /\ found' = [found EXCEPT ![t] = None]
  /\ UNCHANGED <<spin, routeVars, rxVars, dels>>

(* ProcessCheckingNBL: the server that answered is online.                  *)
CheckedApply ==
  LET s == found[rx] IN
  /\ pc[rx] = "apply" /\ req[rx].op = "checked"
  /\ \/ /\ s # None /\ spin[s] = None
        /\ info' = [info EXCEPT ![s].status = (@ \cup {"ONLINE"}) \ {"CHECKING"}]
     \/ /\ s = None
        /\ UNCHANGED info
  /\ Goto(rx, "unlock")
  /\ UNCHANGED <<server_list, ref_count, memory, spin, routeVars, req, found, rxVars, drops, dels>>

(* UnlockLcxlList(&server_list) and return, for every bracket but DEL's.    *)
Unlock(t) ==
  /\ pc[t] = "unlock"
  /\ UnlockServerList(server_list)
  /\ found' = [found EXCEPT ![t] = None]
  /\ req' = [req EXCEPT ![t] = NoReq]
  /\ Goto(t, "idle")
  /\ UNCHANGED <<info, ref_count, spin, routeVars, rxVars, drops, dels>>

(* IOCTL_ROUTER_SET_ROUTING_ALGORITHM *)
SetRoutingAlgorithm(t, a) ==
  /\ pc[t] = "idle" /\ routing_algorithm # a
  /\ routing_algorithm' = a
  /\ UNCHANGED <<poolVars, route_list, current_server_index, pc, req, found, rxVars, drops,
                 dels>>

-----------------------------------------------------------------------------
(* CheckServerStatus, run by the work thread every second: server by        *)
(* server, under the server's lock.  Its timers are left open here.         *)

WorkerStart ==
  /\ pc[wk] = "idle"
  /\ server_list' = Locked(server_list, LockMod)
  /\ found' = [found EXCEPT ![wk] = First]
  /\ Goto(wk, "check")
  /\ UNCHANGED <<info, ref_count, memory, spin, routeVars, req, rxVars, drops, dels>>

WorkerCheck ==
  LET s == found[wk] IN
  /\ pc[wk] = "check" /\ s # None /\ spin[s] = None
  /\ \/ UNCHANGED info                          \* deleted, or no timer has run out
     \/ /\ {"DELETED", "CHECKING"} \cap info[s].status = {} /\ "ONLINE" \in info[s].status
        /\ info' = [info EXCEPT ![s].status = @ \cup {"CHECKING"}]
     \/ /\ "DELETED" \notin info[s].status /\ {"ONLINE", "CHECKING"} \subseteq info[s].status
        /\ info' = [info EXCEPT ![s].status = @ \ {"ONLINE"}]
  /\ found' = [found EXCEPT ![wk] = NextOf(s)]
  /\ UNCHANGED <<server_list, ref_count, memory, spin, routeVars, pc, req, rxVars, drops, dels>>

WorkerEnd ==
  /\ pc[wk] = "check" /\ found[wk] = None
  /\ UnlockServerList(server_list)
  /\ Goto(wk, "idle")
  /\ UNCHANGED <<info, ref_count, spin, routeVars, req, found, rxVars, drops, dels>>

-----------------------------------------------------------------------------
(* The receive path: RouteTCPNBL for a client segment to the virtual        *)
(* address, then the forwarding in FilterReceiveNetBufferLists.             *)

Receive(c, f) ==
  /\ pc[rx] = "idle"
  /\ f = {"SYN"} => Len(server_list.to_be_del) < MaxQueue
  /\ pkt' = [conn |-> c, flags |-> f] /\ pos' = 1
  /\ Goto(rx, "walk")
  /\ UNCHANGED <<poolVars, routeVars, req, found, best, start, checking, drops, dels>>

(* Time passes: a route's last segment is more than route_timeout old.      *)
RouteTimeout(i) ==
  /\ pc[rx] = "idle" /\ ~route_list[i].stale
  /\ route_list' = [route_list EXCEPT ![i].stale = TRUE]
  /\ UNCHANGED <<poolVars, routing_algorithm, current_server_index, pc, req, found,
                 rxVars, drops, dels>>

(* DeleteRouteListEntry *)
DeleteRouteListEntry(i) ==
  /\ route_list' = RemoveAt(route_list, i)
  /\ Rerefer(route_list[i].server, None)

Matched == pos <= Len(route_list) /\ route_list[pos].conn = pkt.conn
IsSyn == pkt.flags = {"SYN"}

(* Mutant: a half-closed connection is given a new server by any segment.   *)
WalkReselect ==
  /\ pc[rx] = "walk" /\ pos <= Len(route_list)
  /\ \/ /\ Matched
        /\ route_list' = [route_list EXCEPT ![pos].stale = FALSE]
        /\ Goto(rx, IF IsSyn \/ route_list[pos].status = "LAST_ACK" THEN "select" ELSE "forward")
        /\ UNCHANGED <<server_list, ref_count, memory, pos>>
     \/ /\ ~Matched /\ route_list[pos].stale
        /\ DeleteRouteListEntry(pos)
        /\ UNCHANGED <<pc, pos>>
     \/ /\ ~Matched /\ ~route_list[pos].stale
        /\ pos' = pos + 1
        /\ UNCHANGED <<server_list, ref_count, memory, route_list, pc>>
  /\ UNCHANGED <<info, spin, routing_algorithm, current_server_index, req, found,
                 pkt, best, start, checking, drops, dels>>

(* GetRouteListEntry, one entry of the walk: stop at the connection's entry, *)
(* whatever its age; delete an expired one on the way.                      *)
WalkRoute ==
  /\ pc[rx] = "walk" /\ pos <= Len(route_list)
  /\ \/ /\ Matched
        /\ route_list' = [route_list EXCEPT ![pos].stale = FALSE]
        /\ Goto(rx, IF IsSyn THEN "select" ELSE "forward")
        /\ UNCHANGED <<server_list, ref_count, memory, pos>>
     \/ /\ ~Matched /\ route_list[pos].stale
        /\ DeleteRouteListEntry(pos)
        /\ UNCHANGED <<pc, pos>>
     \/ /\ ~Matched /\ ~route_list[pos].stale
        /\ pos' = pos + 1
        /\ UNCHANGED <<server_list, ref_count, memory, route_list, pc>>
  /\ UNCHANGED <<info, spin, routing_algorithm, current_server_index, req, found,
                 pkt, best, start, checking, drops, dels>>

(* No entry: a SYN goes on to the selection, any other segment is not ours. *)
WalkEnd ==
  /\ pc[rx] = "walk" /\ pos > Len(route_list)
  /\ IF IsSyn THEN Goto(rx, "select") /\ UNCHANGED <<pkt, pos>>
              ELSE Goto(rx, "idle") /\ pkt' = NoReq /\ pos' = 0
  /\ UNCHANGED <<poolVars, routeVars, req, found, best, start, checking, drops, dels>>

(* SelectBestServer when there is nothing to choose from: no server, or an  *)
(* address that hashes to 0.                                                *)
Hash == VipHash % Len(server_list.list)
SelectNone ==
  /\ pc[rx] = "select"
  /\ \/ server_list.list = <<>>
     \/ server_list.list # <<>> /\ routing_algorithm = "RA_IP_HASH" /\ Hash = 0
  /\ UnlockServerList(Locked(server_list, LockMod))
  /\ Goto(rx, "bind")
  /\ UNCHANGED <<info, ref_count, spin, routeVars, req, found, rxVars, drops, dels>>

SelectLeast ==
  /\ pc[rx] = "select" /\ server_list.list # <<>>
  /\ routing_algorithm \in {"RA_LEAST_CONNECTION", "RA_FAST_RESPONSE"}
  /\ server_list' = Locked(server_list, LockMod)
  /\ found' = [found EXCEPT ![rx] = First]
  /\ Goto(rx, "visit")
  /\ UNCHANGED <<info, ref_count, memory, spin, routeVars, req, rxVars, drops, dels>>

(* One server of the least-connection loop, under its lock: it replaces the *)
(* best one so far, whose reference count already includes the selection's  *)
(* own reference.                                                           *)
Better(s) ==
  best # None => ref_count[best] > ref_count[s] \/ (Checking(best) /\ ~Checking(s))
VisitServer ==
  LET s == found[rx] IN
  /\ pc[rx] = "visit" /\ s # None /\ spin[s] = None
  /\ \/ /\ ServerIsAvaliable(s) /\ Better(s)
        /\ Rerefer(best, s)
        /\ best' = s
     \/ /\ ~(ServerIsAvaliable(s) /\ Better(s))
        /\ UNCHANGED <<server_list, ref_count, memory, best>>
  /\ found' = [found EXCEPT ![rx] = NextOf(s)]
  /\ UNCHANGED <<info, spin, routeVars, pc, req, pkt, pos, start, checking, drops, dels>>

VisitEnd ==
  /\ pc[rx] = "visit" /\ found[rx] = None
  /\ UnlockServerList(server_list)
  /\ Goto(rx, "bind")
  /\ UNCHANGED <<info, ref_count, spin, routeVars, req, found, rxVars, drops, dels>>

(* RA_POLL and RA_IP_HASH: FindAvaliableServerFormCurrentServer locks the   *)
(* list again and looks round the circle, from the server at                *)
(* current_server_index, for the first available one that is not being      *)
(* checked.                                                                 *)
SelectFrom ==
  LET n == Len(server_list.list)
      index == IF current_server_index >= n THEN 0 ELSE current_server_index
      first == server_list.list[1 + IF routing_algorithm = "RA_POLL" THEN index
                                    ELSE current_server_index % n]
  IN
  /\ pc[rx] = "select" /\ n > 0
  /\ \/ /\ routing_algorithm = "RA_POLL"
        /\ current_server_index' = index
     \/ /\ routing_algorithm = "RA_IP_HASH" /\ Hash > 0
        /\ UNCHANGED current_server_index
  /\ server_list' = Locked(server_list, LockMod)
  /\ req' = [req EXCEPT ![rx] = [op |-> routing_algorithm]]
  /\ start' = first /\ found' = [found EXCEPT ![rx] = first]
  /\ Goto(rx, "nested")
  /\ UNCHANGED <<info, ref_count, memory, spin, route_list, routing_algorithm, pkt, pos,
                 best, checking, drops, dels>>

PollEnter ==
  /\ pc[rx] = "nested"
  /\ server_list' = Locked(server_list, LockMod)
  /\ Goto(rx, "poll")
  /\ UNCHANGED <<info, ref_count, memory, spin, routeVars, req, found, rxVars, drops, dels>>

(* One server of the circle, under its lock.  The loop is left from inside  *)
(* the lock when the server will do: UnLockServer is not called.            *)
PollServer ==
  LET s == found[rx]
      next == IF NextOf(s) = None THEN First ELSE NextOf(s)
  IN
  /\ pc[rx] = "poll" /\ spin[s] = None
  /\ \/ /\ ServerIsAvaliable(s) /\ ~Checking(s)
        /\ best' = s
        /\ Rerefer(None, s)
        /\ spin' = [spin EXCEPT ![s] = rx]
        /\ Goto(rx, "polled")
        /\ UNCHANGED <<found, checking>>
     \/ /\ ~(ServerIsAvaliable(s) /\ ~Checking(s))
        /\ checking' = IF ServerIsAvaliable(s) THEN s ELSE checking
        /\ found' = [found EXCEPT ![rx] = next]
        /\ Goto(rx, IF next = start THEN "fallback" ELSE "poll")
        /\ UNCHANGED <<server_list, ref_count, memory, spin, best>>
  /\ UNCHANGED <<info, routeVars, req, pkt, pos, start, drops, dels>>

(* Mutant: no reference is taken on the fallback server.                    *)
PollFallbackUncounted ==
  /\ pc[rx] = "fallback"
  /\ best' = checking /\ checking' = None
  /\ Goto(rx, "polled")
  /\ UNCHANGED <<poolVars, routeVars, req, found, pkt, pos, start, drops, dels>>

(* Once round: the last server seen being checked, if any, and no lock held *)
(* on it while its reference is taken.                                      *)
PollFallback ==
  /\ pc[rx] = "fallback"
  /\ best' = checking /\ checking' = None
  /\ Rerefer(None, checking)
  /\ Goto(rx, "polled")
  /\ UNCHANGED <<info, spin, routeVars, req, found, pkt, pos, start, drops, dels>>

(* Mutant: the inner function also undoes its caller's lock.                *)
PollLeaveTwice ==
  /\ pc[rx] = "polled"
  /\ UnlockServerList(Unlocked(server_list, LockMod))
  /\ current_server_index' = IF req[rx].op = "RA_POLL" /\ best # None THEN Index(best)
                             ELSE current_server_index
  /\ req' = [req EXCEPT ![rx] = NoReq]
  /\ found' = [found EXCEPT ![rx] = None]
  /\ start' = None /\ checking' = None
  /\ Goto(rx, "visit")
  /\ UNCHANGED <<info, ref_count, spin, route_list, routing_algorithm, pkt, pos, best,
                 drops, dels>>

(* The inner unlock and, for RA_POLL, where the next poll begins.           *)
PollLeave ==
  /\ pc[rx] = "polled"
  /\ UnlockServerList(server_list)
  /\ current_server_index' = IF req[rx].op = "RA_POLL" /\ best # None THEN Index(best)
                             ELSE current_server_index
  /\ req' = [req EXCEPT ![rx] = NoReq]
  /\ found' = [found EXCEPT ![rx] = None]
  /\ start' = None /\ checking' = None
  /\ Goto(rx, "visit")
  /\ UNCHANGED <<info, ref_count, spin, route_list, routing_algorithm, pkt, pos, best,
                 drops, dels>>

(* Mutants of Bind: always a new route; the old server's reference is kept. *)
BindAnew ==
  /\ pc[rx] = "bind"
  /\ \/ /\ best = None
        /\ UNCHANGED route_list
     \/ /\ best # None
        /\ route_list' = <<[conn |-> pkt.conn, status |-> "NORMAL", server |-> best,
                            stale |-> FALSE]>> \o route_list
  /\ best' = None /\ pkt' = NoReq /\ pos' = 0
  /\ Goto(rx, "idle")
  /\ UNCHANGED <<poolVars, routing_algorithm, current_server_index, req, found, start, checking,
                 drops, dels>>
BindKeepingOld ==
  /\ pc[rx] = "bind"
  /\ \/ /\ best = None
        /\ UNCHANGED route_list
     \/ /\ best # None /\ ~Matched
        /\ route_list' = <<[conn |-> pkt.conn, status |-> "NORMAL", server |-> best,
                            stale |-> FALSE]>> \o route_list
     \/ /\ best # None /\ Matched
        /\ route_list' = [route_list EXCEPT ![pos].server = best, ![pos].status = "NORMAL"]
  /\ best' = None /\ pkt' = NoReq /\ pos' = 0
  /\ Goto(rx, "idle")
  /\ UNCHANGED <<poolVars, routing_algorithm, current_server_index, req, found, start, checking,
                 drops, dels>>

(* RouteTCPNBL after the selection: no server, no route; else a new route   *)
(* at the head of the list, or the connection's old one pointed to the new  *)
(* server.  InitRouteListEntry sets the rest, and the SYN is forwarded.     *)
Bind ==
  /\ pc[rx] = "bind"
  /\ \/ /\ best = None
        /\ UNCHANGED <<route_list, server_list, ref_count, memory>>
     \/ /\ best # None /\ ~Matched
        /\ route_list' = <<[conn |-> pkt.conn, status |-> "NORMAL", server |-> best,
                            stale |-> FALSE]>> \o route_list
        /\ UNCHANGED <<server_list, ref_count, memory>>
     \/ /\ best # None /\ Matched
        /\ Rerefer(route_list[pos].server, None)
        /\ route_list' = [route_list EXCEPT ![pos].server = best, ![pos].status = "NORMAL"]
  /\ best' = None /\ pkt' = NoReq /\ pos' = 0
  /\ Goto(rx, "idle")
  /\ UNCHANGED <<info, spin, routing_algorithm, current_server_index, req, found, start, checking,
                 drops, dels>>

(* A later segment of a known connection: the route's state follows the     *)
(* client's FIN, ACK and RST, the segment is forwarded, a closed route is   *)
(* deleted.                                                                 *)
NextStatus(st) ==
  IF "ACK" \in pkt.flags /\ st = "LAST_ACK" THEN "CLOSED"
  ELSE IF "FIN" \in pkt.flags THEN "LAST_ACK"
  ELSE IF "RST" \in pkt.flags THEN "CLOSED" ELSE st
Forward ==
  LET st == NextStatus(route_list[pos].status) IN
  /\ pc[rx] = "forward"
  /\ \/ /\ st = "CLOSED"
        /\ DeleteRouteListEntry(pos)
     \/ /\ st # "CLOSED"
        /\ route_list' = [route_list EXCEPT ![pos].status = st]
        /\ UNCHANGED <<server_list, ref_count, memory>>
  /\ pkt' = NoReq /\ pos' = 0
  /\ Goto(rx, "idle")
  /\ UNCHANGED <<info, spin, routing_algorithm, current_server_index, req, found, best, start, checking,
                 drops, dels>>

-----------------------------------------------------------------------------
Next ==
  \/ \E t \in Ctl : \/ \E m \in Mac, i \in AddInfo : AddServer(t, m, i)
                    \/ \E m \in Mac : DelServer(t, m)
                    \/ \E a \in Algorithms : SetRoutingAlgorithm(t, a)
                    \/ AddNew(t) \/ AddExisting(t) \/ DelApply(t)
  \/ \E t \in Ctl \cup {rx} : Unlock(t)
  \/ \E m \in Mac : ReceiveChecking(m)
  \/ CheckedApply
  \/ WorkerStart \/ WorkerCheck \/ WorkerEnd
  \/ \E c \in Conn, f \in Segments : Receive(c, f)
  \/ \E i \in DOMAIN route_list : RouteTimeout(i)
  \/ WalkRoute \/ WalkEnd
  \/ SelectNone \/ SelectLeast \/ VisitServer \/ VisitEnd
  \/ SelectFrom \/ PollEnter \/ PollServer \/ PollFallback \/ PollLeave
  \/ Bind \/ Forward

Spec == Init /\ [][Next]_vars

-----------------------------------------------------------------------------
RoutesTo(s) == {i \in DOMAIN route_list : route_list[i].server = s}
Idle == \A t \in Thread : pc[t] = "idle"

(* The thread is between LockLcxlList and UnlockLcxlList of server_list, as *)
(* its handler means to be.                                                 *)
InBracket(t) ==
  pc[t] \in {"apply", "unlock", "check", "visit", "nested", "poll", "fallback", "polled"}

\* The uses of a server the driver counts: its routes and the selection that
\* has settled on it but not yet made the route.
Uses(s) == Cardinality(RoutesTo(s)) + (IF best = s THEN 1 ELSE 0)

\* Every reference is accounted for across all threads: a server's count is
\* its uses and the list's own reference, less each DEL_SERVER that gave that
\* one back.  A re-selection on a repeated SYN, an expired or closed route, a
\* replaced best_server must each give back exactly what was taken.
RefAccounting ==
  \A s \in Slot : memory[s] = "live" => ref_count[s] = Uses(s) + 1 - drops[s]

\* A connection has at most one route: GetRouteListEntry stops at the first
\* match, so a second one would never be used or closed.
OneRoutePerConnection ==
  \A i, j \in DOMAIN route_list : route_list[i].conn = route_list[j].conn => i = j

\* A connection stays with its server, through checks, deletions and the
\* routes of other connections, until its own client starts anew with a SYN.
Affinity ==
  [][\A i \in DOMAIN route_list, j \in DOMAIN route_list' :
       route_list[i].conn = route_list'[j].conn /\ route_list[i].server # route_list'[j].server
         => pkt # NoReq /\ pkt.conn = route_list[i].conn /\ IsSyn]_vars

\* "After locking, the number of list entries does not change" (comment on
\* LockLcxlList): server_list stays as it is while a handler walks it.
FrozenWhileBracketed ==
  [][(\E t \in Thread : InBracket(t) /\ InBracket(t)') => server_list'.list = server_list.list]_vars

\* DecRefListEntry asserts that a count that is no longer positive is 0.
RefCountNotNegative == \A s \in Slot : ref_count[s] >= 0

\* A server handed to RemoveEntryfromLcxlList has no user left and gets none
\* while its removal is queued, so it is handed over only once:
\* DelServerCallBack asserts that the count of a server it frees is 0.
RemovedAreUnused ==
  /\ IsInjective(server_list.to_be_del)
  /\ \A s \in ToSet(server_list.to_be_del) : ref_count[s] = 0

\* Deleting a server drains it: its uses may only become fewer.
DrainsOnly ==
  [][\A s \in Slot : drops[s] > 0 => Uses(s)' <= Uses(s)]_vars

\* With no handler in progress nothing is left in the queues of server_list:
\* additions and removals asked for while the list is locked are carried out
\* when it is unlocked (comments on AddEntrytoLcxlList, RemoveEntryfromLcxlList
\* and UnlockLcxlList).
QueuesDrained == Idle => server_list.to_be_add = <<>> /\ server_list.to_be_del = <<>>

\* A thread that has returned from its handler holds no server's spin lock:
\* every LockServer of the selection is followed by "unlock the server".
ServerLocksReleased == \A s \in Slot : spin[s] # None => pc[spin[s]] # "idle"

-----------------------------------------------------------------------------
(* The pool as its users see it.                                            *)

\* rx is looking for a server.
Selecting == {"select", "visit", "nested", "poll", "fallback", "polled", "bind"}

\* A server is withdrawn when DEL_SERVER gives its first reference back, and
\* has left when it is handed to the list's removal.
Standing(s) ==
  CASE memory[s] = "unused" -> "unknown"
    [] memory[s] # "unused" /\ drops[s] = 0 -> "serving"
    [] memory[s] # "unused" /\ drops[s] # 0 ->
         IF memory[s] = "freed" \/ s \in ToSet(server_list.to_be_del) THEN "left" ELSE "leaving"

Standings == [s \in Slot |-> Standing(s)]
Routed == {<<route_list[i].conn, route_list[i].server>> : i \in DOMAIN route_list}
Opening == IF pc[rx] \in Selecting THEN {pkt.conn} ELSE {}
Chosen == {best} \ {None}

Balancer == INSTANCE LoadBalancer WITH
  Server <- Slot, Connection <- Conn,
  standing <- Standings, routes <- Routed, opening <- Opening, chosen <- Chosen

\* Where a deletion is final, the reference counts, the walk over the routes
\* and the selection are a load balancer: whatever the threads do in between, a
\* withdrawn server gets no new connection, keeps those it has, and is handed to
\* removal in the very step in which its last use ends.
ImplementsLoadBalancer == Balancer!Spec

\* The brackets of server_list in progress: a handler's own, the inner one of a
\* poll, and that of each DEL_SERVER, which nobody closes.
Leaks(t) == pc[t] = "apply" /\ req[t].op = "del"
Brackets ==
  {<<t, 0>> : t \in {u \in Thread : InBracket(u) /\ ~Leaks(u)}}
  \cup (IF pc[rx] \in {"poll", "fallback", "polled"} THEN {<<rx, 1>>} ELSE {})
  \cup {<<None, i>> : i \in 1..dels}

Deferred == INSTANCE DeferredList WITH
  Entry <- Slot,
  Caller <- (Thread \X {0, 1}) \cup ({None} \X (1..MaxDel)),
  list <- server_list.list, adds <- server_list.to_be_add, dels <- server_list.to_be_del,
  gone <- {s \in Slot : memory[s] = "freed"},
  readers <- Brackets

\* The handlers use server_list as an LCXL list is to be used, and so it is one:
\* a server is added once, removed only while it is linked and not yet queued,
\* and every change waits for the last of the brackets, counted by lock_count.
ServerListIsDeferred == Deferred!Spec

=============================================================================
