-------------------------- MODULE ServerPoolProofs --------------------------
(***************************************************************************)
(* Proofs about ServerPool for any threads, servers and connections whose  *)
(* brackets lock_count can count: the list is frozen while a handler is in *)
(* its bracket, so that the pointers a handler holds stay in the list.     *)
(***************************************************************************)
EXTENDS ServerPool, LcxlListOpsProofs, FiniteSetTheorems

-----------------------------------------------------------------------------
(* The invariant.                                                           *)

Labels == {"idle", "apply", "unlock", "check", "walk", "forward", "select", "visit", "nested",
           "poll", "fallback", "polled", "bind"}
Reqs == [op : {"none", "RA_LEAST_CONNECTION", "RA_FAST_RESPONSE", "RA_POLL", "RA_IP_HASH"}]
        \cup [op : {"del", "checked"}, mac : Mac]
        \cup [op : {"add"}, mac : Mac, info : AddInfo]
Pkts == [conn : Conn, flags : Segments]

PoolTypes ==
  /\ server_list \in Lists(Slot)
  /\ info \in [Slot -> Infos]
  /\ ref_count \in [Slot -> Int]
  /\ memory \in [Slot -> {"unused", "live", "freed"}]
  /\ spin \in [Slot -> Thread \cup {None}]
ThreadTypes ==
  /\ pc \in [Thread -> Labels]
  /\ req \in [Thread -> Reqs]
  /\ found \in [Thread -> Slot \cup {None}]
  /\ drops \in [Slot -> Nat] /\ dels \in 0..MaxDel
RouteTypes ==
  /\ route_list \in Seq(Routes)
  /\ routing_algorithm \in Algorithms \cup {"RA_LEAST_CONNECTION"}
  /\ current_server_index \in Nat
  /\ pkt \in Pkts \cup {NoReq} /\ pos \in Nat
  /\ best \in Slot \cup {None} /\ start \in Slot \cup {None} /\ checking \in Slot \cup {None}
Types == PoolTypes /\ ThreadTypes /\ RouteTypes

Open == {t \in Thread : InBracket(t) /\ ~Leaks(t)}
Nested == IF pc[rx] \in {"poll", "fallback", "polled"} THEN 1 ELSE 0

\* lock_count is the brackets that will be closed, the nested one of a poll
\* and one for every DEL_SERVER there has been.
LockInv ==
  /\ server_list.lock_count = Cardinality(Open) + Nested + dels
  /\ (\E t \in Thread : Leaks(t)) => dels > 0

Linked == ToSet(server_list.list)
OrNone(S) == S \cup {None}

\* Pointers a handler will follow are linked.
Pointers ==
  \A t \in Thread : pc[t] \in {"apply", "check", "visit", "nested", "poll"} =>
                      found[t] \in OrNone(Linked)
RxPointers ==
  /\ pc[rx] \in {"nested", "poll"} => found[rx] \in Linked /\ start \in Linked
  /\ checking # None => pc[rx] \in {"poll", "fallback", "polled"} /\ checking \in Linked
  /\ best # None => pc[rx] \in {"visit", "polled", "bind"}
  /\ pc[rx] = "polled" => best \in OrNone(Linked)

PoolInv == Types /\ LockInv /\ Pointers /\ RxPointers

\* What rx knows about the routes while it handles a segment: those it has
\* walked past are of other connections, and it stands on the connection's
\* own route or, for a SYN, after the last one.
RouteInv ==
  /\ OneRoutePerConnection
  /\ pc[rx] \in {"walk", "forward"} \cup Selecting =>
       /\ pkt \in Pkts
       /\ pos \in 1..(Len(route_list) + 1)
       /\ \A j \in 1..(pos - 1) : route_list[j].conn # pkt.conn
  /\ pc[rx] = "forward" => Matched
  /\ pc[rx] \in Selecting => IsSyn /\ (Matched \/ pos = Len(route_list) + 1)

IInv == PoolInv /\ RouteInv

-----------------------------------------------------------------------------
(* Threads, brackets and lock_count.                                        *)

\* The threads are finitely many.
LEMMA ThreadCount ==
  /\ IsFiniteSet(Thread)
  /\ Cardinality(Thread) \in Nat
  /\ Cardinality(Thread) + 1 + MaxDel < LockMod
  /\ rx \in Thread /\ wk \in Thread /\ Ctl \subseteq Thread /\ rx # wk /\ rx \notin Ctl /\ wk \notin Ctl
<1>1. IsFiniteSet(Ctl) /\ Cardinality(Ctl) \in Nat BY WidthAssumption, FS_CardinalityType
<1>2. rx # wk /\ rx \notin Ctl /\ wk \notin Ctl BY ThreadAssumption
<1>3. IsFiniteSet(Ctl \cup {rx}) /\ Cardinality(Ctl \cup {rx}) = Cardinality(Ctl) + 1
  BY <1>1, <1>2, FS_AddElement
<1>4. Thread = (Ctl \cup {rx}) \cup {wk} BY DEF Thread
<1>5. IsFiniteSet(Thread) /\ Cardinality(Thread) = Cardinality(Ctl) + 2
  <2>1. wk \notin Ctl \cup {rx} BY <1>2
  <2>2. /\ IsFiniteSet((Ctl \cup {rx}) \cup {wk})
        /\ Cardinality((Ctl \cup {rx}) \cup {wk}) = Cardinality(Ctl \cup {rx}) + 1
    BY <1>3, <2>1, FS_AddElement
  <2> QED BY <1>1, <1>3, <1>4, <2>2
<1> QED BY <1>1, <1>2, <1>5, WidthAssumption DEF Thread

\* Brackets are counted one by one, and there is room for one more.
LEMMA OpenCount ==
  ASSUME NEW H \in SUBSET Thread
  PROVE  /\ Cardinality(H) \in Nat /\ Cardinality(H) <= Cardinality(Thread)
         /\ H # {} => Cardinality(H) > 0
         /\ \A t \in Thread \ H : Cardinality(H \cup {t}) = Cardinality(H) + 1
         /\ \A t \in Thread \ H : Cardinality(H) + 1 <= Cardinality(Thread)
         /\ \A t \in H : Cardinality(H \ {t}) = Cardinality(H) - 1
         /\ \A t \in H : Cardinality(H) = 1 => H = {t}
<1>1. IsFiniteSet(H) /\ Cardinality(H) <= Cardinality(Thread) BY ThreadCount, FS_Subset
<1>2. Cardinality(H) \in Nat /\ (Cardinality(H) = 0 <=> H = {})
  BY <1>1, FS_CardinalityType, FS_EmptySet
<1>3. ASSUME NEW t \in Thread \ H
      PROVE  Cardinality(H \cup {t}) = Cardinality(H) + 1 /\ Cardinality(H) + 1 <= Cardinality(Thread)
  <2>1. Cardinality(H \cup {t}) = Cardinality(H) + 1 BY <1>1, FS_AddElement
  <2>2. Cardinality(H \cup {t}) <= Cardinality(Thread)
    <3>1. H \cup {t} \in SUBSET Thread OBVIOUS
    <3> QED BY <3>1, ThreadCount, FS_Subset
  <2> QED BY <2>1, <2>2
<1>4. \A t \in H : Cardinality(H \ {t}) = Cardinality(H) - 1 BY <1>1, FS_RemoveElement
<1>5. ASSUME NEW t \in H, Cardinality(H) = 1 PROVE H = {t}
  <2>1. \E x : H = {x} BY <1>1, <1>5, FS_Singleton
  <2> QED BY <2>1
<1>6. H # {} => Cardinality(H) > 0
  <2> DEFINE n == Cardinality(H)
  <2>1. n \in Nat /\ (n = 0 <=> H = {}) BY <1>2
  <2> HIDE DEF n
  <2>2. H # {} => n > 0 BY <2>1
  <2> QED BY <2>2 DEF n
<1> HIDE DEF Thread
<1> QED BY <1>1, <1>2, <1>3, <1>4, <1>5, <1>6, Zenon

\* lock_count does not wrap; while it is zero no handler is in its bracket.
LEMMA CountBounds ==
  ASSUME Types, LockInv
  PROVE  /\ Open \in SUBSET Thread /\ Cardinality(Open) \in Nat /\ Nested \in {0, 1} /\ dels \in Nat
         /\ server_list.lock_count \in 0..(LockMod - 1)
         /\ \A t \in Thread : t \notin Open => server_list.lock_count + 1 < LockMod
         /\ \A t \in Thread : InBracket(t) => server_list.lock_count > 0
<1>1. Open \in SUBSET Thread BY DEF Open
<1>2. /\ Cardinality(Open) \in Nat /\ Cardinality(Open) <= Cardinality(Thread)
      /\ Open # {} => Cardinality(Open) > 0
      /\ \A t \in Thread \ Open : Cardinality(Open) + 1 <= Cardinality(Thread)
  BY <1>1, OpenCount
<1>3. Nested \in {0, 1} BY DEF Nested
<1>4. dels \in 0..MaxDel /\ MaxDel \in Nat /\ LockMod \in Nat
  BY WidthAssumption DEF Types, ThreadTypes
<1>5. server_list.lock_count = Cardinality(Open) + Nested + dels BY DEF LockInv
<1>6. Cardinality(Thread) \in Nat /\ Cardinality(Thread) + 1 + MaxDel < LockMod BY ThreadCount
<1>7. server_list.lock_count \in 0..(LockMod - 1) BY <1>2, <1>3, <1>4, <1>5, <1>6
<1>8. ASSUME NEW t \in Thread, t \notin Open PROVE server_list.lock_count + 1 < LockMod
  <2>1. Cardinality(Open) + 1 <= Cardinality(Thread) BY <1>2, <1>8
  <2> QED BY <2>1, <1>2, <1>3, <1>4, <1>5, <1>6
<1>9. ASSUME NEW t \in Thread, InBracket(t) PROVE server_list.lock_count > 0
  <2>1. CASE Leaks(t) BY <2>1, <1>2, <1>3, <1>4, <1>5 DEF LockInv
  <2>2. CASE ~Leaks(t)
    <3>1. t \in Open BY <1>9, <2>2 DEF Open
    <3> QED BY <3>1, <1>2, <1>3, <1>4, <1>5
  <2> QED BY <2>1, <2>2
<1> QED BY <1>1, <1>2, <1>3, <1>4, <1>7, <1>8, <1>9

-----------------------------------------------------------------------------
(* The list.                                                                *)

\* Memory is only freed.
OnlyFreed ==
  /\ memory' \in [Slot -> {"unused", "live", "freed"}]
  /\ \A s \in Slot : memory'[s] = memory[s] \/ memory'[s] = "freed"

\* DecRefListEntry and IncRefListEntry: what they do to the counts and the list.
LEMMA RereferEffect ==
  ASSUME Types, NEW down \in OrNone(Slot), NEW up \in OrNone(Slot), Rerefer(down, up)
  PROVE  /\ server_list' \in Lists(Slot)
         /\ server_list'.lock_count = server_list.lock_count
         /\ server_list.lock_count > 0 => server_list'.list = server_list.list
         /\ Members(server_list') \subseteq Members(server_list)
         /\ ref_count' \in [Slot -> Int]
         /\ \A s \in Slot : ref_count'[s] = (ref_count[s] - (IF s = down THEN 1 ELSE 0))
                                            + (IF s = up THEN 1 ELSE 0)
         /\ OnlyFreed
<1> DEFINE r == [s \in Slot |-> ref_count[s] - (IF s = down THEN 1 ELSE 0)]
           removed == down # None /\ r[down] <= 0
           lost == IF removed THEN FreedByRemove(server_list, down) ELSE {}
<1>1. /\ ref_count' = [s \in Slot |-> r[s] + (IF s = up THEN 1 ELSE 0)]
      /\ server_list' = IF removed THEN WithoutEntry(server_list, down) ELSE server_list
      /\ memory' = [s \in Slot |-> IF s \in lost THEN "freed" ELSE memory[s]]
  BY DEF Rerefer
<1>2. server_list \in Lists(Slot) BY DEF Types, PoolTypes
<1>3. OnlyFreed
  <2> HIDE DEF lost
  <2>1. memory \in [Slot -> {"unused", "live", "freed"}] BY DEF Types, PoolTypes
  <2> QED BY <1>1, <2>1 DEF OnlyFreed
<1>4. /\ ref_count' \in [Slot -> Int]
      /\ \A s \in Slot : ref_count'[s] = (ref_count[s] - (IF s = down THEN 1 ELSE 0))
                                         + (IF s = up THEN 1 ELSE 0)
  <2>1. ref_count \in [Slot -> Int] BY DEF Types, PoolTypes
  <2>2. r \in [Slot -> Int] BY <2>1
  <2> QED BY <1>1, <2>1, <2>2
<1> HIDE DEF r, lost
<1>5. CASE removed
  <2>1. down \in Slot BY <1>5 DEF OrNone
  <2>2. server_list' = WithoutEntry(server_list, down) BY <1>1, <1>5
  <2> QED BY <1>2, <1>3, <1>4, <2>1, <2>2, WithoutEntryDrops
<1>6. CASE ~removed
  <2>1. server_list' = server_list BY <1>1, <1>6
  <2> QED BY <1>2, <1>3, <1>4, <2>1
<1> QED BY <1>5, <1>6

\* UnlockLcxlList.
LEMMA UnlockEffect ==
  ASSUME Types, server_list.lock_count > 0, server_list.lock_count < LockMod,
         UnlockServerList(server_list)
  PROVE  /\ server_list' \in Lists(Slot)
         /\ server_list'.lock_count = server_list.lock_count - 1
         /\ server_list.lock_count # 1 => server_list'.list = server_list.list
         /\ Members(server_list') \subseteq Members(server_list)
         /\ OnlyFreed
<1>1. server_list \in Lists(Slot) /\ memory \in [Slot -> {"unused", "live", "freed"}]
  BY DEF Types, PoolTypes
<1>2. LockMod \in Nat BY WidthAssumption
<1>3. server_list' = Unlocked(server_list, LockMod) BY DEF UnlockServerList
<1>4. OnlyFreed BY <1>1 DEF UnlockServerList, OnlyFreed
<1> QED BY <1>1, <1>2, <1>3, <1>4, UnlockedCounts

\* LockLcxlList.
LEMMA LockEffect ==
  ASSUME Types, server_list.lock_count + 1 < LockMod,
         server_list' = Locked(server_list, LockMod)
  PROVE  /\ server_list' \in Lists(Slot)
         /\ server_list'.lock_count = server_list.lock_count + 1
         /\ server_list'.list = server_list.list
         /\ Members(server_list') = Members(server_list)
<1>1. server_list \in Lists(Slot) /\ server_list.lock_count \in Nat
  BY DEF Types, PoolTypes, Lists
<1>2. LockMod \in Nat BY WidthAssumption
<1>3. server_list' = [server_list EXCEPT !.lock_count = server_list.lock_count + 1]
  BY <1>1, <1>2, LockedCounts
<1>4. server_list'.lock_count = server_list.lock_count + 1 /\ server_list'.list = server_list.list
  BY <1>1, <1>3 DEF Lists
<1> QED BY <1>1, <1>2, <1>4, LockedCounts

\* LockLcxlList and UnlockLcxlList in one step.
LEMMA PassEffect ==
  ASSUME Types, server_list.lock_count + 1 < LockMod,
         UnlockServerList(Locked(server_list, LockMod))
  PROVE  /\ server_list' \in Lists(Slot)
         /\ server_list'.lock_count = server_list.lock_count
         /\ server_list.lock_count > 0 => server_list'.list = server_list.list
         /\ Members(server_list') \subseteq Members(server_list)
         /\ OnlyFreed
<1> DEFINE l == Locked(server_list, LockMod)
<1>1. /\ server_list \in Lists(Slot) /\ memory \in [Slot -> {"unused", "live", "freed"}]
      /\ server_list.lock_count \in Nat
  BY DEF Types, PoolTypes, Lists
<1>2. LockMod \in Nat BY WidthAssumption
<1>3. /\ l \in Lists(Slot) /\ Members(l) = Members(server_list)
      /\ l = [server_list EXCEPT !.lock_count = server_list.lock_count + 1]
  BY <1>1, <1>2, LockedCounts
<1>4. l.lock_count = server_list.lock_count + 1 /\ l.list = server_list.list
  BY <1>1, <1>3 DEF Lists
<1>5. server_list' = Unlocked(l, LockMod) /\ OnlyFreed
  BY <1>1 DEF UnlockServerList, OnlyFreed
<1> HIDE DEF l
<1>6. l.lock_count > 0 /\ l.lock_count < LockMod BY <1>1, <1>4
<1>7. /\ Unlocked(l, LockMod) \in Lists(Slot)
      /\ Unlocked(l, LockMod).lock_count = l.lock_count - 1
      /\ l.lock_count # 1 => Unlocked(l, LockMod).list = l.list
      /\ Members(Unlocked(l, LockMod)) \subseteq Members(l)
  BY <1>2, <1>3, <1>6, UnlockedCounts
<1> QED BY <1>1, <1>3, <1>4, <1>5, <1>7

\* Following the links of server_list from a linked server leads to one, or to
\* the list head.
LEMMA Links ==
  ASSUME Types
  PROVE  /\ Linked \subseteq Slot
         /\ First \in OrNone(Linked)
         /\ server_list.list # <<>> => First \in Linked /\ Len(server_list.list) > 0
         /\ \A m : FindServer(m) \in OrNone(Linked)
         /\ \A s \in Linked : Index(s) \in Nat /\ NextOf(s) \in OrNone(Linked)
         /\ \A i \in 1..Len(server_list.list) : server_list.list[i] \in Linked
<1> DEFINE l == server_list.list
<1>1. l \in Seq(Slot) BY DEF Types, PoolTypes, Lists
<1>2. /\ Linked \subseteq Slot /\ Len(l) \in Nat /\ DOMAIN l = 1..Len(l)
      /\ \A i \in 1..Len(l) : l[i] \in Linked
      /\ \A x \in Linked : \E i \in 1..Len(l) : l[i] = x
  BY <1>1, SetIsAtPositions DEF Linked
<1>3. l # <<>> => First \in Linked /\ Len(l) > 0
  <2> SUFFICES ASSUME l # <<>> PROVE First \in Linked /\ Len(l) > 0 OBVIOUS
  <2>1. Len(l) > 0 /\ Head(l) = l[1] BY <1>1, EmptySeq, HeadTailProperties
  <2>2. 1 \in 1..Len(l) BY <2>1, <1>2
  <2> QED BY <2>1, <2>2, <1>2 DEF First
<1>4. ASSUME NEW m PROVE FindServer(m) \in OrNone(Linked)
  <2> DEFINE hits == {i \in DOMAIN l : info[l[i]].mac = m}
  <2>1. FindServer(m) = IF hits = {} THEN None ELSE l[Min(hits)] BY DEF FindServer
  <2>2. hits \subseteq 1..Len(l) BY <1>2
  <2> HIDE DEF hits
  <2>3. CASE hits = {} BY <2>1, <2>3 DEF OrNone
  <2>4. CASE hits # {}
    <3>1. \E x \in hits : \A y \in hits : x <= y
      <4>1. hits \subseteq Nat BY <2>2
      <4> QED BY <4>1, <2>4, LeastNumber
    <3>2. Min(hits) \in hits BY <3>1 DEF Min
    <3> QED BY <2>1, <2>2, <2>4, <3>2, <1>2 DEF OrNone
  <2> QED BY <2>3, <2>4
<1>5. ASSUME NEW s \in Linked PROVE Index(s) \in Nat /\ NextOf(s) \in OrNone(Linked)
  <2>1. Index(s) \in 1..Len(l) BY <1>2 DEF Index
  <2>2. CASE Index(s) = Len(l) BY <2>1, <2>2 DEF NextOf, OrNone
  <2>3. CASE Index(s) # Len(l)
    <3>1. Index(s) + 1 \in 1..Len(l) BY <2>1, <2>3, <1>2
    <3> QED BY <2>1, <2>3, <3>1, <1>2 DEF NextOf, OrNone
  <2> QED BY <2>2, <2>3
<1>6. First \in OrNone(Linked) BY <1>3 DEF First, OrNone
<1> QED BY <1>2, <1>3, <1>4, <1>5, <1>6

-----------------------------------------------------------------------------
(* What a step of one thread does to the brackets and the pointers.         *)

\* A handler that is in its bracket before and after a step sees the same list.
Frozen ==
  \A t \in Thread : InBracket(t) /\ InBracket(t)' => server_list'.list = server_list.list

\* Only u moves.
Moves(u) == \A t \in Thread \ {u} : pc'[t] = pc[t] /\ req'[t] = req[t] /\ found'[t] = found[t]

Counted(t) == InBracket(t) /\ ~Leaks(t)

\* The steps of the others change neither their brackets nor the nested one.
LEMMA OthersStay ==
  ASSUME NEW u \in Thread, Moves(u)
  PROVE  /\ Open' = (Open \ {u}) \cup {t \in {u} : Counted(t)'}
         /\ \A t \in Thread \ {u} : (InBracket(t)' <=> InBracket(t)) /\ (Leaks(t)' <=> Leaks(t))
         /\ u # rx => Nested' = Nested
<1>1. \A t \in Thread \ {u} : (InBracket(t)' <=> InBracket(t)) /\ (Leaks(t)' <=> Leaks(t))
  BY DEF Moves, InBracket, Leaks
<1>2. Open' = {t \in Thread : Counted(t)'} BY DEF Open, Counted
<1>3. Open = {t \in Thread : Counted(t)} BY DEF Open, Counted
<1>4. \A t \in Thread \ {u} : Counted(t)' <=> Counted(t) BY <1>1 DEF Counted
<1>5. u # rx => Nested' = Nested BY ThreadCount DEF Moves, Nested
<1>6. Open' = (Open \ {u}) \cup {t \in {u} : Counted(t)'}
  <2> DEFINE A == {t \in Thread : Counted(t)'}
             B == {t \in Thread : Counted(t)}
             C == {t \in {u} : Counted(t)'}
  <2>1. \A t : t \in A <=> t \in (B \ {u}) \cup C BY <1>4
  <2> HIDE DEF A, B, C
  <2>2. A = (B \ {u}) \cup C BY <2>1
  <2> QED BY <1>2, <1>3, <2>2 DEF A, B, C
<1> QED BY <1>1, <1>5, <1>6

\* A step of u that leaves its brackets as they are.
LEMMA QuietStep ==
  ASSUME Types, LockInv, NEW u \in Thread, Moves(u),
         Counted(u)' <=> Counted(u), Leaks(u)' => Leaks(u), u = rx => Nested' = Nested,
         dels' = dels, server_list'.lock_count = server_list.lock_count,
         server_list.lock_count > 0 => server_list'.list = server_list.list
  PROVE  LockInv' /\ Frozen
<1>1. Open' = Open
  <2>1. u \in Open <=> Counted(u) BY DEF Open, Counted
  <2>2. Open' = (Open \ {u}) \cup {t \in {u} : Counted(t)'} BY OthersStay
  <2>3. CASE Counted(u)
    <3>1. {t \in {u} : Counted(t)'} = {u} BY <2>3
    <3> QED BY <2>1, <2>2, <2>3, <3>1
  <2>4. CASE ~Counted(u)
    <3>1. {t \in {u} : Counted(t)'} = {} BY <2>4
    <3> QED BY <2>1, <2>2, <2>4, <3>1
  <2> QED BY <2>3, <2>4
<1>2. Nested' = Nested BY OthersStay
<1>3. \A t \in Thread : Leaks(t)' => Leaks(t) BY OthersStay
<1>4. LockInv' BY <1>1, <1>2, <1>3 DEF LockInv
<1>5. Frozen BY CountBounds DEF Frozen
<1> QED BY <1>4, <1>5

\* A step in which u opens a bracket.
LEMMA EnterStep ==
  ASSUME Types, LockInv, NEW u \in Thread, Moves(u),
         ~InBracket(u), Counted(u)', u = rx => Nested' = Nested,
         dels' = dels, server_list'.lock_count = server_list.lock_count + 1,
         server_list'.list = server_list.list
  PROVE  LockInv' /\ Frozen
<1>1. u \notin Open BY DEF Open
<1>2. Open' = Open \cup {u}
  <2>1. Open' = (Open \ {u}) \cup {t \in {u} : Counted(t)'} BY OthersStay
  <2>2. {t \in {u} : Counted(t)'} = {u} OBVIOUS
  <2> QED BY <1>1, <2>1, <2>2
<1>3. Nested' = Nested BY OthersStay
<1>4. \A t \in Thread : Leaks(t)' => Leaks(t) BY OthersStay DEF Counted
<1>5. Cardinality(Open') = Cardinality(Open) + 1 BY <1>1, <1>2, OpenCount, CountBounds
<1>6. Cardinality(Open) \in Nat /\ Nested \in {0, 1} /\ dels \in Nat BY CountBounds
<1>7. LockInv' BY <1>3, <1>4, <1>5, <1>6 DEF LockInv
<1>8. Frozen BY DEF Frozen
<1> QED BY <1>7, <1>8

\* A step in which u closes its bracket: if it was the last one, nobody else
\* was in a bracket, not even one that will never be closed.
LEMMA LeaveStep ==
  ASSUME Types, LockInv, NEW u \in Thread, Moves(u),
         Counted(u), ~InBracket(u)', u = rx => Nested' = Nested,
         dels' = dels, server_list'.lock_count = server_list.lock_count - 1,
         server_list.lock_count # 1 => server_list'.list = server_list.list
  PROVE  LockInv' /\ Frozen
<1>1. u \in Open BY DEF Open, Counted
<1>2. Open' = Open \ {u}
  <2>1. Open' = (Open \ {u}) \cup {t \in {u} : Counted(t)'} BY OthersStay
  <2>2. {t \in {u} : Counted(t)'} = {} BY DEF Counted
  <2> QED BY <1>1, <2>1, <2>2
<1>3. Nested' = Nested BY OthersStay
<1>4. \A t \in Thread : Leaks(t)' => Leaks(t)
  <2>1. ~Leaks(u)' BY DEF Leaks, InBracket
  <2> QED BY <2>1, OthersStay
<1>5. Cardinality(Open') = Cardinality(Open) - 1 /\ (Cardinality(Open) = 1 => Open = {u})
      /\ Cardinality(Open) > 0
  BY <1>1, <1>2, OpenCount, CountBounds
<1>6. Cardinality(Open) \in Nat /\ Nested \in {0, 1} /\ dels \in Nat BY CountBounds
<1>7. LockInv' BY <1>3, <1>4, <1>5, <1>6 DEF LockInv
<1>8. Frozen
  <2> SUFFICES ASSUME NEW t \in Thread, InBracket(t), InBracket(t)', server_list.lock_count = 1
               PROVE  FALSE
    BY DEF Frozen
  <2>1. Cardinality(Open) = 1 /\ dels = 0 BY <1>5, <1>6 DEF LockInv
  <2>2. ~Leaks(t) BY <2>1 DEF LockInv
  <2>3. t \in Open BY <2>2 DEF Open
  <2> QED BY <1>5, <2>1, <2>3
<1> QED BY <1>7, <1>8

\* Pointers stay linked while their holder is in its bracket.
LEMMA PointersStay ==
  ASSUME PoolInv, Frozen, NEW u \in Thread, Moves(u),
         pc'[u] \in {"apply", "check", "visit", "nested", "poll"} => found'[u] \in OrNone(Linked'),
         u # rx => UNCHANGED <<best, start, checking>>,
         u = rx => RxPointers'
  PROVE  Pointers' /\ RxPointers'
<1>1. ASSUME NEW t \in Thread \ {u}, InBracket(t) PROVE Linked' = Linked
  <2>1. InBracket(t)' BY <1>1, OthersStay
  <2> QED BY <1>1, <2>1 DEF Frozen, Linked
<1>2. Pointers'
  <2> SUFFICES ASSUME NEW t \in Thread, t # u,
                      pc'[t] \in {"apply", "check", "visit", "nested", "poll"}
               PROVE  found'[t] \in OrNone(Linked')
    BY DEF Pointers, OrNone
  <2>1. pc'[t] = pc[t] /\ found'[t] = found[t] BY DEF Moves
  <2>2. InBracket(t) BY <2>1 DEF InBracket
  <2>3. found[t] \in OrNone(Linked) BY <2>1 DEF PoolInv, Pointers
  <2> QED BY <2>1, <2>2, <2>3, <1>1
<1>3. CASE u # rx
  <2>1. pc'[rx] = pc[rx] /\ found'[rx] = found[rx] BY <1>3, ThreadCount DEF Moves
  <2>2. InBracket(rx) => Linked' = Linked BY <1>1, <1>3, ThreadCount
  <2>3. RxPointers BY DEF PoolInv
  <2>4. best' = best /\ start' = start /\ checking' = checking BY <1>3
  <2> QED BY <1>2, <2>1, <2>2, <2>3, <2>4 DEF RxPointers, InBracket, OrNone
<1> QED BY <1>2, <1>3

-----------------------------------------------------------------------------
(* The steps, one by one.                                                   *)

\* A server's flags are changed to flags.
LEMMA StatusTyped ==
  ASSUME Types, NEW s \in Slot
  PROVE  /\ info[s].status \in SUBSET Flags
         /\ \A x \in SUBSET Flags : [info EXCEPT ![s].status = x] \in [Slot -> Infos]
<1>1. info \in [Slot -> Infos] BY DEF Types, PoolTypes
<1>2. info[s] \in Infos BY <1>1
<1>3. ASSUME NEW x \in SUBSET Flags PROVE [info EXCEPT ![s].status = x] \in [Slot -> Infos]
  <2>1. [info[s] EXCEPT !.status = x] \in Infos BY <1>2 DEF Infos
  <2> QED BY <1>1, <2>1
<1> QED BY <1>2, <1>3 DEF Infos

\* Locking the list and looking a server up.
LEMMA LookupKeeps ==
  ASSUME PoolInv, NEW t \in Thread, NEW r \in Reqs, Lookup(t, r),
         \/ r.op # "del" /\ dels' = dels
         \/ r.op = "del" /\ dels < MaxDel /\ dels' = dels + 1
  PROVE  PoolInv' /\ Frozen
<1> USE DEF PoolInv, routeVars, rxVars
<1>1. /\ pc[t] = "idle" /\ server_list' = Locked(server_list, LockMod)
      /\ found' = [found EXCEPT ![t] = FindServer(r.mac)] /\ req' = [req EXCEPT ![t] = r]
      /\ pc' = [pc EXCEPT ![t] = "apply"]
  BY DEF Lookup, Goto
<1>2. /\ ~InBracket(t) /\ t \notin Open /\ server_list.lock_count + 1 < LockMod
  <2>1. ~InBracket(t) BY <1>1 DEF InBracket
  <2>2. t \notin Open BY <2>1 DEF Open
  <2> QED BY <2>1, <2>2, CountBounds
<1>3. /\ server_list' \in Lists(Slot) /\ server_list'.lock_count = server_list.lock_count + 1
      /\ server_list'.list = server_list.list
  BY <1>1, <1>2, LockEffect
<1>4. FindServer(r.mac) \in OrNone(Linked) /\ Linked \subseteq Slot BY Links
<1>5. ThreadTypes
  BY DEF Types
<1>6. /\ pc'[t] = "apply" /\ req'[t] = r /\ found'[t] = FindServer(r.mac) /\ Moves(t)
  BY <1>1, <1>5 DEF ThreadTypes, Moves
<1>7. Types'
  <2>1. PoolTypes' BY <1>3 DEF Lookup, Types, PoolTypes
  <2>2. ThreadTypes'
    <3>1. dels' \in 0..MaxDel BY <1>5, WidthAssumption DEF ThreadTypes
    <3>2. pc' \in [Thread -> Labels] /\ req' \in [Thread -> Reqs] BY <1>1, <1>5 DEF ThreadTypes, Labels
    <3>3. found' \in [Thread -> Slot \cup {None}] BY <1>1, <1>4, <1>5 DEF ThreadTypes, OrNone
    <3>4. drops' \in [Slot -> Nat] BY <1>5 DEF Lookup, ThreadTypes
    <3> QED BY <3>1, <3>2, <3>3, <3>4 DEF ThreadTypes
  <2>3. RouteTypes' BY DEF Lookup, Types, RouteTypes
  <2> QED BY <2>1, <2>2, <2>3 DEF Types
<1>8. LockInv' /\ Frozen
  <2>1. t = rx => Nested' = Nested BY <1>1, <1>6 DEF Nested
  <2>2. CASE r.op # "del"
    <3>1. Counted(t)' BY <1>6, <2>2 DEF Counted, InBracket, Leaks
    <3> QED BY <1>2, <1>3, <1>6, <2>1, <2>2, <3>1, EnterStep
  <2>3. CASE r.op = "del"
    <3>1. ~Counted(t)' /\ ~Counted(t) BY <1>2, <1>6, <2>3 DEF Counted, InBracket, Leaks
    <3>2. Open' = Open
      <4>1. Open' = (Open \ {t}) \cup {u \in {t} : Counted(u)'} BY <1>6, OthersStay
      <4>2. {u \in {t} : Counted(u)'} = {} BY <3>1
      <4> QED BY <1>2, <4>1, <4>2
    <3>3. Nested' = Nested BY <1>6, <2>1, OthersStay
    <3>4. Cardinality(Open) \in Nat /\ Nested \in {0, 1} /\ dels \in Nat BY CountBounds
    <3>5. LockInv' BY <1>3, <2>3, <3>2, <3>3, <3>4 DEF LockInv
    <3>6. Frozen BY <1>3 DEF Frozen
    <3> QED BY <3>5, <3>6
  <2> QED BY <2>2, <2>3
<1>9. Pointers' /\ RxPointers'
  <2>1. Linked' = Linked BY <1>3 DEF Linked
  <2>2. found'[t] \in OrNone(Linked') BY <1>4, <1>6, <2>1
  <2>3. UNCHANGED <<best, start, checking>> BY DEF Lookup
  <2>4. t = rx => RxPointers' BY <1>1, <1>6, <2>3 DEF RxPointers
  <2> QED BY <1>6, <1>8, <2>2, <2>3, <2>4, PointersStay
<1> QED BY <1>7, <1>8, <1>9

\* A new server.
LEMMA AddNewKeeps ==
  ASSUME PoolInv, NEW t \in Ctl, AddNew(t)
  PROVE  PoolInv' /\ Frozen
<1> USE DEF PoolInv, routeVars, rxVars
<1>1. PICK s \in Slot :
        /\ memory' = [memory EXCEPT ![s] = "live"]
        /\ ref_count' = [ref_count EXCEPT ![s] = 1]
        /\ info' = [info EXCEPT ![s] = [mac |-> req[t].mac, status |-> req[t].info.status,
                                        ip_enabled |-> req[t].info.ip_enabled]]
        /\ server_list' = WithEntry(server_list, s)
  BY DEF AddNew
<1>2. pc[t] = "apply" /\ req[t].op = "add" /\ pc' = [pc EXCEPT ![t] = "unlock"] /\ req' = req
      /\ found' = found /\ dels' = dels
  BY DEF AddNew, Goto
<1>3. t \in Thread /\ t # rx BY ThreadCount
<1>4. ThreadTypes /\ PoolTypes /\ RouteTypes BY DEF Types
<1>5. /\ server_list' \in Lists(Slot) /\ server_list'.lock_count = server_list.lock_count
      /\ server_list.lock_count > 0 => server_list'.list = server_list.list
  BY <1>1, <1>4, WithEntryAdds DEF PoolTypes
<1>6. pc'[t] = "unlock" /\ Moves(t) BY <1>2, <1>3, <1>4 DEF ThreadTypes, Moves
<1>7. Types'
  <2>1. [mac |-> req[t].mac, status |-> req[t].info.status, ip_enabled |-> req[t].info.ip_enabled] \in Infos
    <3>1. req[t] \in [op : {"add"}, mac : Mac, info : AddInfo]
      BY <1>2, <1>3, <1>4 DEF ThreadTypes, Reqs
    <3>2. req[t].info \in [status : SUBSET {"ONLINE", "CHECKING", "DELETED"}, ip_enabled : BOOLEAN]
      BY <3>1, InfoAssumption
    <3> QED BY <3>1, <3>2 DEF Infos, Flags
  <2>2. PoolTypes' BY <1>1, <1>4, <1>5, <2>1 DEF AddNew, PoolTypes
  <2>3. ThreadTypes' BY <1>2, <1>4 DEF AddNew, ThreadTypes, Labels
  <2>4. RouteTypes' BY <1>4 DEF AddNew, RouteTypes
  <2> QED BY <2>2, <2>3, <2>4 DEF Types
<1>8. LockInv' /\ Frozen
  <2>1. Counted(t)' /\ Counted(t) /\ ~Leaks(t)'
    BY <1>2, <1>6 DEF Counted, InBracket, Leaks
  <2> QED BY <1>2, <1>3, <1>5, <1>6, <2>1, QuietStep
<1>9. Pointers' /\ RxPointers'
  <2>1. UNCHANGED <<best, start, checking>> BY DEF AddNew
  <2> QED BY <1>3, <1>6, <1>8, <2>1, PointersStay
<1> QED BY <1>7, <1>8, <1>9

\* New settings of a known server, by an application or by its answer.
LEMMA SettingKeeps ==
  ASSUME PoolInv, NEW t \in Ctl \cup {rx}, \/ t \in Ctl /\ AddExisting(t)
                                           \/ t = rx /\ CheckedApply
  PROVE  PoolInv' /\ Frozen
<1> USE DEF PoolInv, routeVars, rxVars
<1>1. t \in Thread BY ThreadCount
<1>2. /\ pc[t] = "apply" /\ req[t].op # "del" /\ pc' = [pc EXCEPT ![t] = "unlock"]
      /\ UNCHANGED <<server_list, ref_count, memory, spin, route_list, routing_algorithm,
                     current_server_index, req, found, pkt, pos, best, start, checking, drops, dels>>
  BY DEF AddExisting, CheckedApply, Goto
<1>3. ThreadTypes /\ PoolTypes /\ RouteTypes BY DEF Types
<1>4. pc'[t] = "unlock" /\ Moves(t) BY <1>1, <1>2, <1>3 DEF ThreadTypes, Moves
<1>5. info' \in [Slot -> Infos]
  <2>1. CASE AddExisting(t)
    <3>1. /\ info' = [info EXCEPT ![found[t]] = [mac |-> req[t].mac, status |-> req[t].info.status,
                                        ip_enabled |-> req[t].info.ip_enabled]]
          /\ req[t].op = "add"
      BY <2>1 DEF AddExisting
    <3>2. req[t] \in [op : {"add"}, mac : Mac, info : AddInfo]
      BY <1>1, <1>3, <3>1 DEF ThreadTypes, Reqs
    <3>3. req[t].info \in [status : SUBSET {"ONLINE", "CHECKING", "DELETED"}, ip_enabled : BOOLEAN]
      BY <3>2, InfoAssumption
    <3>4. [mac |-> req[t].mac, status |-> req[t].info.status, ip_enabled |-> req[t].info.ip_enabled] \in Infos
      BY <3>2, <3>3 DEF Infos, Flags
    <3> QED BY <1>3, <3>1, <3>4 DEF PoolTypes
  <2>2. CASE CheckedApply
    <3>1. CASE found[rx] = None BY <1>3, <2>2, <3>1 DEF CheckedApply, PoolTypes
    <3>2. CASE found[rx] # None
      <4>1. found[rx] \in Slot BY <1>3, <3>2, ThreadCount DEF ThreadTypes
      <4>2. info' = [info EXCEPT ![found[rx]].status =
                       (info[found[rx]].status \cup {"ONLINE"}) \ {"CHECKING"}]
        BY <2>2, <3>2 DEF CheckedApply
      <4>3. (info[found[rx]].status \cup {"ONLINE"}) \ {"CHECKING"} \in SUBSET Flags
        BY <4>1, StatusTyped DEF Flags
      <4> QED BY <4>1, <4>2, <4>3, StatusTyped
    <3> QED BY <3>1, <3>2
  <2> QED BY <2>1, <2>2
<1>6. Types'
  <2>1. PoolTypes' BY <1>2, <1>3, <1>5 DEF PoolTypes
  <2>2. ThreadTypes' BY <1>2, <1>3 DEF ThreadTypes, Labels
  <2>3. RouteTypes' BY <1>2, <1>3 DEF RouteTypes
  <2> QED BY <2>1, <2>2, <2>3 DEF Types
<1>7. LockInv' /\ Frozen
  <2>1. Counted(t)' /\ Counted(t) /\ ~Leaks(t)'
    BY <1>2, <1>4 DEF Counted, InBracket, Leaks
  <2>2. t = rx => Nested' = Nested BY <1>2, <1>4 DEF Nested
  <2> QED BY <1>1, <1>2, <1>4, <2>1, <2>2, QuietStep
<1>8. Pointers' /\ RxPointers'
  <2>1. UNCHANGED <<best, start, checking>> BY <1>2
  <2>2. t = rx => RxPointers' BY <1>2, <1>4, <2>1 DEF RxPointers
  <2> QED BY <1>1, <1>4, <1>7, <2>1, <2>2, PointersStay
<1> QED BY <1>6, <1>7, <1>8

\* A deletion, whose bracket stays open.
LEMMA DelApplyKeeps ==
  ASSUME PoolInv, NEW t \in Ctl, DelApply(t)
  PROVE  PoolInv' /\ Frozen
<1> USE DEF PoolInv, routeVars, rxVars
<1>1. t \in Thread /\ t # rx BY ThreadCount
<1>2. /\ pc[t] = "apply" /\ req[t].op = "del" /\ pc' = [pc EXCEPT ![t] = "idle"]
      /\ req' = [req EXCEPT ![t] = NoReq] /\ found' = [found EXCEPT ![t] = None]
      /\ UNCHANGED <<spin, route_list, routing_algorithm, current_server_index, pkt, pos, best,
                     start, checking, dels>>
  BY DEF DelApply, Goto
<1>3. ThreadTypes /\ PoolTypes /\ RouteTypes BY DEF Types
<1>4. pc'[t] = "idle" /\ req'[t] = NoReq /\ Moves(t) BY <1>1, <1>2, <1>3 DEF ThreadTypes, Moves
<1>5. /\ server_list' \in Lists(Slot) /\ server_list'.lock_count = server_list.lock_count
      /\ server_list.lock_count > 0 => server_list'.list = server_list.list
      /\ ref_count' \in [Slot -> Int] /\ memory' \in [Slot -> {"unused", "live", "freed"}]
      /\ info' \in [Slot -> Infos] /\ drops' \in [Slot -> Nat]
  <2>1. CASE UNCHANGED <<info, drops, ref_count, server_list, memory>>
    BY <1>3, <2>1 DEF PoolTypes, ThreadTypes
  <2>2. CASE /\ found[t] # None
             /\ info' = [info EXCEPT ![found[t]].status = info[found[t]].status \cup {"DELETED"}]
             /\ drops' = [drops EXCEPT ![found[t]] = drops[found[t]] + 1]
             /\ Rerefer(found[t], None)
    <3>1. found[t] \in Slot BY <1>1, <1>3, <2>2 DEF ThreadTypes
    <3>2. found[t] \in OrNone(Slot) /\ None \in OrNone(Slot) BY <3>1 DEF OrNone
    <3>3. info' \in [Slot -> Infos]
      <4>1. info[found[t]].status \cup {"DELETED"} \in SUBSET Flags BY <3>1, StatusTyped DEF Flags
      <4> QED BY <2>2, <3>1, <4>1, StatusTyped
    <3>4. drops' \in [Slot -> Nat] BY <1>3, <2>2, <3>1 DEF ThreadTypes
    <3> QED BY <2>2, <3>2, <3>3, <3>4, RereferEffect DEF OnlyFreed
  <2> QED BY <2>1, <2>2 DEF DelApply
<1>6. Types'
  <2>1. PoolTypes' BY <1>2, <1>3, <1>5 DEF PoolTypes
  <2>2. ThreadTypes' BY <1>2, <1>3, <1>5 DEF ThreadTypes, Labels, Reqs, NoReq
  <2>3. RouteTypes' BY <1>2, <1>3 DEF RouteTypes
  <2> QED BY <2>1, <2>2, <2>3 DEF Types
<1>7. LockInv' /\ Frozen
  <2>1. ~Counted(t)' /\ ~Counted(t) /\ ~Leaks(t)'
    BY <1>2, <1>4 DEF Counted, InBracket, Leaks
  <2> QED BY <1>1, <1>2, <1>4, <1>5, <2>1, QuietStep
<1>8. Pointers' /\ RxPointers'
  BY <1>1, <1>2, <1>4, <1>7, PointersStay
<1> QED BY <1>6, <1>7, <1>8

\* The end of a bracket: the three unlocks that end a handler's use of the list.
LEMMA UnlockKeeps ==
  ASSUME PoolInv, NEW t \in Thread, NEW l \in {"idle", "bind"},
         pc[t] \in {"unlock", "check", "visit"}, UnlockServerList(server_list), Goto(t, l),
         l = "bind" <=> pc[t] = "visit",
         pc[t] = "visit" => t = rx,
         UNCHANGED <<info, ref_count, spin, routeVars, rxVars, drops, dels>>,
         \/ UNCHANGED <<found, req>>
         \/ found' = [found EXCEPT ![t] = None] /\ req' = [req EXCEPT ![t] = NoReq]
  PROVE  PoolInv' /\ Frozen
<1> USE DEF PoolInv, routeVars, rxVars
<1>1. ThreadTypes /\ PoolTypes /\ RouteTypes BY DEF Types
<1>2. pc' = [pc EXCEPT ![t] = l] BY DEF Goto
<1>3. pc'[t] = l /\ Moves(t) BY <1>1, <1>2 DEF ThreadTypes, Moves
<1>4. Counted(t) /\ InBracket(t) /\ ~InBracket(t)'
  BY <1>3 DEF Counted, InBracket, Leaks
<1>5. server_list.lock_count > 0 /\ server_list.lock_count < LockMod
  BY <1>4, CountBounds, WidthAssumption
<1>6. /\ server_list' \in Lists(Slot) /\ server_list'.lock_count = server_list.lock_count - 1
      /\ server_list.lock_count # 1 => server_list'.list = server_list.list
      /\ memory' \in [Slot -> {"unused", "live", "freed"}]
  BY <1>5, UnlockEffect DEF OnlyFreed
<1>7. Types'
  <2>1. PoolTypes' BY <1>1, <1>6 DEF PoolTypes
  <2>2. ThreadTypes' BY <1>1, <1>2 DEF ThreadTypes, Labels, Reqs, NoReq
  <2>3. RouteTypes' BY <1>1 DEF RouteTypes
  <2> QED BY <2>1, <2>2, <2>3 DEF Types
<1>8. LockInv' /\ Frozen
  <2>1. t = rx => Nested' = Nested BY <1>3 DEF Nested
  <2> QED BY <1>3, <1>4, <1>6, <2>1, LeaveStep
<1>9. Pointers' /\ RxPointers'
  <2>1. t = rx => RxPointers' BY <1>3 DEF RxPointers
  <2> QED BY <1>3, <1>8, <2>1, PointersStay
<1> QED BY <1>7, <1>8, <1>9

\* Steps that only set where rx is, what it routes or how it selects.
LEMMA RxOutsideKeeps ==
  ASSUME PoolInv, Types', NEW l \in {"idle", "walk", "select", "forward", "bind"},
         pc[rx] \in {"idle", "walk", "select", "forward", "bind"}, Goto(rx, l),
         UNCHANGED <<req, found, start, checking, dels>>,
         best' # None => l = "bind",
         server_list'.lock_count = server_list.lock_count,
         server_list.lock_count > 0 => server_list'.list = server_list.list
  PROVE  PoolInv' /\ Frozen
<1> USE DEF PoolInv
<1>1. pc' = [pc EXCEPT ![rx] = l] /\ ThreadTypes /\ rx \in Thread
  BY ThreadCount DEF Goto, Types
<1>2. pc'[rx] = l /\ Moves(rx) BY <1>1 DEF ThreadTypes, Moves
<1>3. LockInv' /\ Frozen
  <2>1. ~Counted(rx) /\ ~Counted(rx)' /\ ~Leaks(rx)' /\ Nested' = Nested
    BY <1>2 DEF Counted, InBracket, Leaks, Nested
  <2> QED BY <1>1, <1>2, <2>1, QuietStep
<1>4. RxPointers' BY <1>2 DEF RxPointers
<1>5. Pointers' BY <1>1, <1>2, <1>3, <1>4, PointersStay
<1> QED BY <1>3, <1>4, <1>5

-----------------------------------------------------------------------------
(* The route list.                                                          *)

\* RemoveEntryList of the route at p.
LEMMA RemoveAtDrops ==
  ASSUME NEW S, NEW s \in Seq(S), NEW p \in 1..Len(s)
  PROVE  /\ RemoveAt(s, p) \in Seq(S)
         /\ Len(RemoveAt(s, p)) = Len(s) - 1
         /\ \A i \in 1..(Len(s) - 1) : RemoveAt(s, p)[i] = IF i < p THEN s[i] ELSE s[i + 1]
<1> DEFINE a == SubSeq(s, 1, p - 1)
           b == SubSeq(s, p + 1, Len(s))
<1>0. Len(s) \in Nat /\ p \in Nat BY LenProperties
<1>1. /\ a \in Seq(S) /\ Len(a) = p - 1
      /\ \A i \in 1..(p - 1) : a[i] = s[i]
  <2>1. 1 \in 1..(Len(s) + 1) /\ p - 1 \in 0..Len(s) BY <1>0
  <2>2. \A i \in 1..(p - 1) : s[i] \in S BY <1>0, ElementOfSeq
  <2> QED BY <1>0, <2>1, <2>2, SubSeqProperties
<1>2. /\ b \in Seq(S) /\ Len(b) = Len(s) - p
      /\ \A i \in 1..(Len(s) - p) : b[i] = s[p + i]
  <2>1. \A i \in (p + 1)..Len(s) : s[i] \in S BY <1>0, ElementOfSeq
  <2> QED BY <1>0, <2>1, SubSeqProperties
<1>3. RemoveAt(s, p) = a \o b BY DEF RemoveAt
<1> HIDE DEF a, b
<1>4. /\ a \o b \in Seq(S) /\ Len(a \o b) = Len(s) - 1
      /\ \A i \in 1..(Len(s) - 1) : (a \o b)[i] = IF i <= p - 1 THEN a[i] ELSE b[i - (p - 1)]
  <2> DEFINE c == a \o b
  <2>1. /\ c \in Seq(S) /\ Len(c) = Len(a) + Len(b)
        /\ \A i \in 1..(Len(a) + Len(b)) : c[i] = IF i <= Len(a) THEN a[i] ELSE b[i - Len(a)]
    BY <1>1, <1>2, ConcatProperties
  <2> HIDE DEF c
  <2>2. Len(a) + Len(b) = Len(s) - 1 /\ Len(a) = p - 1 BY <1>0, <1>1, <1>2
  <2>3. /\ c \in Seq(S) /\ Len(c) = Len(s) - 1
        /\ \A i \in 1..(Len(s) - 1) : c[i] = IF i <= p - 1 THEN a[i] ELSE b[i - (p - 1)]
    BY <2>1, <2>2
  <2> QED BY <2>3 DEF c
<1>5. ASSUME NEW i \in 1..(Len(s) - 1) PROVE (a \o b)[i] = IF i < p THEN s[i] ELSE s[i + 1]
  <2>1. CASE i <= p - 1
    <3>1. i < p /\ i \in 1..(p - 1) BY <1>0, <2>1
    <3> QED BY <3>1, <1>1, <1>4, <2>1
  <2>2. CASE ~(i <= p - 1)
    <3> DEFINE k == i - (p - 1)
    <3>1. k \in 1..(Len(s) - p) /\ p + k = i + 1 /\ ~(i < p) BY <1>0, <2>2
    <3> HIDE DEF k
    <3>2. b[k] = s[i + 1] BY <3>1, <1>2
    <3>3. (a \o b)[i] = b[k] BY <1>4, <2>2 DEF k
    <3> QED BY <3>1, <3>2, <3>3
  <2> QED BY <2>1, <2>2
<1> QED BY <1>3, <1>4, <1>5

\* InsertHeadList of a new route.
LEMMA HeadAdds ==
  ASSUME NEW S, NEW s \in Seq(S), NEW e \in S
  PROVE  /\ <<e>> \o s \in Seq(S)
         /\ Len(<<e>> \o s) = Len(s) + 1
         /\ (<<e>> \o s)[1] = e
         /\ \A i \in 1..Len(s) : (<<e>> \o s)[i + 1] = s[i]
<1>1. <<e>> \in Seq(S) /\ Len(<<e>>) = 1 /\ <<e>>[1] = e OBVIOUS
<1>2. /\ <<e>> \o s \in Seq(S) /\ Len(<<e>> \o s) = 1 + Len(s)
      /\ \A i \in 1..(1 + Len(s)) : (<<e>> \o s)[i] = IF i <= 1 THEN <<e>>[i] ELSE s[i - 1]
  BY <1>1, ConcatProperties
<1>3. Len(s) \in Nat BY LenProperties
<1>4. (<<e>> \o s)[1] = e BY <1>1, <1>2, <1>3
<1>5. ASSUME NEW i \in 1..Len(s) PROVE (<<e>> \o s)[i + 1] = s[i]
  <2>1. i + 1 \in 1..(1 + Len(s)) /\ ~(i + 1 <= 1) /\ (i + 1) - 1 = i BY <1>3
  <2> QED BY <2>1, <1>2
<1> QED BY <1>2, <1>3, <1>4, <1>5

\* A route is changed in place.
LEMMA RouteChanges ==
  ASSUME NEW r \in Seq(Routes), NEW p \in 1..Len(r), NEW x \in Routes
  PROVE  /\ [r EXCEPT ![p] = x] \in Seq(Routes)
         /\ Len([r EXCEPT ![p] = x]) = Len(r)
         /\ \A i \in 1..Len(r) : [r EXCEPT ![p] = x][i] = IF i = p THEN x ELSE r[i]
BY LenProperties, ExceptSeq, ElementOfSeq

-----------------------------------------------------------------------------
(* The steps of the other threads, and of the selection.                    *)

\* IOCTL_ROUTER_SET_ROUTING_ALGORITHM
LEMMA AlgorithmKeeps ==
  ASSUME PoolInv, NEW t \in Ctl, NEW a \in Algorithms, SetRoutingAlgorithm(t, a)
  PROVE  PoolInv' /\ Frozen
<1> USE DEF PoolInv, poolVars
<1>1. UNCHANGED <<server_list, info, ref_count, memory, spin, route_list, current_server_index, pc,
                  req, found, pkt, pos, best, start, checking, drops, dels>>
  BY DEF SetRoutingAlgorithm, rxVars
<1>2. Types'
  <2>1. PoolTypes' BY <1>1 DEF Types, PoolTypes
  <2>2. ThreadTypes' BY <1>1 DEF Types, ThreadTypes
  <2>3. RouteTypes' BY <1>1 DEF Types, RouteTypes, SetRoutingAlgorithm
  <2> QED BY <2>1, <2>2, <2>3 DEF Types
<1>3. Open' = Open /\ Nested' = Nested /\ Linked' = Linked
  BY <1>1 DEF Open, InBracket, Leaks, Nested, Linked
<1>4. LockInv' BY <1>1, <1>3 DEF LockInv, Leaks
<1>5. Pointers' /\ RxPointers' BY <1>1, <1>3 DEF Pointers, RxPointers
<1> QED BY <1>1, <1>2, <1>4, <1>5 DEF Frozen

\* The work thread begins its round.
LEMMA WorkerStartKeeps ==
  ASSUME PoolInv, WorkerStart
  PROVE  PoolInv' /\ Frozen
<1> USE DEF PoolInv, routeVars, rxVars
<1>1. wk \in Thread /\ wk # rx /\ ThreadTypes BY ThreadCount DEF Types
<1>2. /\ pc[wk] = "idle" /\ server_list' = Locked(server_list, LockMod)
      /\ found' = [found EXCEPT ![wk] = First] /\ pc' = [pc EXCEPT ![wk] = "check"]
      /\ UNCHANGED <<info, ref_count, memory, spin, route_list, routing_algorithm,
                     current_server_index, req, pkt, pos, best, start, checking, drops, dels>>
  BY DEF WorkerStart, Goto
<1>3. pc'[wk] = "check" /\ found'[wk] = First /\ Moves(wk)
  BY <1>1, <1>2 DEF ThreadTypes, Moves
<1>4. ~InBracket(wk) /\ Counted(wk)' BY <1>2, <1>3 DEF InBracket, Counted, Leaks
<1>5. server_list.lock_count + 1 < LockMod BY <1>1, <1>4, CountBounds DEF Open
<1>6. /\ server_list' \in Lists(Slot) /\ server_list'.lock_count = server_list.lock_count + 1
      /\ server_list'.list = server_list.list
  BY <1>2, <1>5, LockEffect
<1>7. First \in OrNone(Linked) /\ Linked \subseteq Slot BY Links
<1>8. Types'
  <2>1. PoolTypes' BY <1>2, <1>6 DEF Types, PoolTypes
  <2>2. ThreadTypes' BY <1>1, <1>2, <1>7 DEF ThreadTypes, Labels, OrNone
  <2>3. RouteTypes' BY <1>2 DEF Types, RouteTypes
  <2> QED BY <2>1, <2>2, <2>3 DEF Types
<1>9. LockInv' /\ Frozen BY <1>1, <1>2, <1>3, <1>4, <1>6, EnterStep
<1>10. Pointers' /\ RxPointers'
  <2>1. found'[wk] \in OrNone(Linked') BY <1>3, <1>6, <1>7 DEF Linked
  <2> QED BY <1>1, <1>2, <1>3, <1>9, <2>1, PointersStay
<1> QED BY <1>8, <1>9, <1>10

\* The check of one server.
LEMMA WorkerCheckKeeps ==
  ASSUME PoolInv, WorkerCheck
  PROVE  PoolInv' /\ Frozen
<1> USE DEF PoolInv, routeVars, rxVars
<1>1. wk \in Thread /\ wk # rx /\ ThreadTypes BY ThreadCount DEF Types
<1>2. /\ pc[wk] = "check" /\ found[wk] # None
      /\ found' = [found EXCEPT ![wk] = NextOf(found[wk])]
      /\ UNCHANGED <<server_list, ref_count, memory, spin, route_list, routing_algorithm,
                     current_server_index, pc, req, pkt, pos, best, start, checking, drops, dels>>
  BY DEF WorkerCheck
<1>3. found[wk] \in Linked BY <1>1, <1>2 DEF Pointers, OrNone
<1>4. found[wk] \in Slot /\ NextOf(found[wk]) \in OrNone(Linked) /\ Linked \subseteq Slot
  BY <1>3, Links
<1>5. Moves(wk) /\ found'[wk] = NextOf(found[wk]) BY <1>1, <1>2 DEF ThreadTypes, Moves
<1>6. info' \in [Slot -> Infos]
  <2> DEFINE st == info[found[wk]].status
  <2>1. st \in SUBSET Flags BY <1>4, StatusTyped
  <2>2. st \cup {"CHECKING"} \in SUBSET Flags /\ st \ {"ONLINE"} \in SUBSET Flags
    BY <2>1 DEF Flags
  <2>3. \/ info' = info
        \/ info' = [info EXCEPT ![found[wk]].status = st \cup {"CHECKING"}]
        \/ info' = [info EXCEPT ![found[wk]].status = st \ {"ONLINE"}]
    BY DEF WorkerCheck
  <2> HIDE DEF st
  <2>4. info \in [Slot -> Infos] BY DEF Types, PoolTypes
  <2>5. \A x \in SUBSET Flags : [info EXCEPT ![found[wk]].status = x] \in [Slot -> Infos]
    BY <1>4, StatusTyped
  <2>6. /\ [info EXCEPT ![found[wk]].status = st \cup {"CHECKING"}] \in [Slot -> Infos]
        /\ [info EXCEPT ![found[wk]].status = st \ {"ONLINE"}] \in [Slot -> Infos]
    BY <2>2, <2>5, Zenon
  <2> QED BY <2>3, <2>4, <2>6
<1>7. Types'
  <2>1. PoolTypes' BY <1>2, <1>6 DEF Types, PoolTypes
  <2>2. ThreadTypes' BY <1>1, <1>2, <1>4 DEF ThreadTypes, OrNone
  <2>3. RouteTypes' BY <1>2 DEF Types, RouteTypes
  <2> QED BY <2>1, <2>2, <2>3 DEF Types
<1>8. LockInv' /\ Frozen
  <2>1. (Counted(wk)' <=> Counted(wk)) /\ (Leaks(wk)' => Leaks(wk))
    BY <1>2 DEF Counted, InBracket, Leaks
  <2> QED BY <1>1, <1>2, <1>5, <2>1, QuietStep
<1>9. Pointers' /\ RxPointers'
  <2>1. found'[wk] \in OrNone(Linked') BY <1>2, <1>4, <1>5 DEF Linked
  <2> QED BY <1>1, <1>2, <1>5, <1>8, <2>1, PointersStay
<1> QED BY <1>7, <1>8, <1>9

\* A remainder is below its divisor.
LEMMA Remainder == ASSUME NEW a \in Nat, NEW n \in Nat \ {0} PROVE a % n \in 0..(n - 1)
OBVIOUS

\* The least-connection loop begins, or the nested bracket of a poll.
LEMMA SelectKeeps ==
  ASSUME PoolInv, SelectLeast \/ SelectFrom
  PROVE  PoolInv' /\ Frozen
<1> USE DEF PoolInv, routeVars, rxVars
<1>1. rx \in Thread /\ ThreadTypes /\ RouteTypes BY ThreadCount DEF Types
<1>2. /\ pc[rx] = "select" /\ server_list' = Locked(server_list, LockMod)
      /\ UNCHANGED <<info, ref_count, memory, spin, route_list, routing_algorithm,
                     pkt, pos, best, checking, drops, dels>>
  BY DEF SelectLeast, SelectFrom
<1>3. ~InBracket(rx) /\ rx \notin Open BY <1>2 DEF InBracket, Open
<1>4. server_list.lock_count + 1 < LockMod BY <1>1, <1>3, CountBounds
<1>5. /\ server_list' \in Lists(Slot) /\ server_list'.lock_count = server_list.lock_count + 1
      /\ server_list'.list = server_list.list
  BY <1>2, <1>4, LockEffect
<1>6. Linked' = Linked /\ Linked \subseteq Slot BY <1>5, Links DEF Linked
<1>7. checking = None /\ best = None BY <1>2 DEF RxPointers
<1>8. CASE SelectLeast
  <2>1. /\ found' = [found EXCEPT ![rx] = First] /\ pc' = [pc EXCEPT ![rx] = "visit"] /\ req' = req
        /\ UNCHANGED <<current_server_index, start>>
    BY <1>8 DEF SelectLeast, Goto
  <2>2. First \in OrNone(Linked) BY Links
  <2>3. pc'[rx] = "visit" /\ found'[rx] = First /\ Moves(rx)
    BY <1>1, <2>1 DEF ThreadTypes, Moves
  <2>4. Types'
    <3>1. PoolTypes' BY <1>2, <1>5 DEF Types, PoolTypes
    <3>2. ThreadTypes' BY <1>1, <1>2, <1>6, <2>1, <2>2 DEF ThreadTypes, Labels, OrNone
    <3>3. RouteTypes' BY <1>1, <1>2, <2>1 DEF RouteTypes
    <3> QED BY <3>1, <3>2, <3>3 DEF Types
  <2>5. LockInv' /\ Frozen
    <3>1. Counted(rx)' /\ Nested' = Nested
      BY <1>2, <2>3 DEF Counted, InBracket, Leaks, Nested
    <3> QED BY <1>1, <1>2, <1>3, <1>5, <2>3, <3>1, EnterStep
  <2>6. RxPointers' BY <1>2, <1>7, <2>3 DEF RxPointers
  <2>7. Pointers' BY <1>1, <1>6, <2>2, <2>3, <2>5, <2>6, PointersStay
  <2> QED BY <2>4, <2>5, <2>6, <2>7
<1>9. CASE SelectFrom
  <2> DEFINE n == Len(server_list.list)
             index == IF current_server_index >= n THEN 0 ELSE current_server_index
             first == server_list.list[1 + IF routing_algorithm = "RA_POLL" THEN index
                                           ELSE current_server_index % n]
  <2>1. /\ found' = [found EXCEPT ![rx] = first] /\ start' = first
        /\ pc' = [pc EXCEPT ![rx] = "nested"] /\ req' = [req EXCEPT ![rx] = [op |-> routing_algorithm]]
        /\ n > 0 /\ (current_server_index' = index \/ current_server_index' = current_server_index)
    BY <1>9 DEF SelectFrom, Goto
  <2>2. n \in Nat /\ current_server_index \in Nat
    <3>1. server_list.list \in Seq(Slot) BY DEF Types, PoolTypes, Lists
    <3> QED BY <1>1, <3>1, LenProperties DEF RouteTypes
  <2>3. first \in Linked /\ index \in Nat
    <3>0. n > 0 BY <2>1
    <3> DEFINE q == current_server_index % n
               k == 1 + IF routing_algorithm = "RA_POLL" THEN index ELSE q
    <3> HIDE DEF n
    <3>1. index \in 0..(n - 1) BY <3>0, <2>2
    <3>2. q \in 0..(n - 1)
      <4>1. n \in Nat \ {0} BY <3>0, <2>2
      <4> QED BY <4>1, <2>2, Remainder
    <3> HIDE DEF index, q
    <3>3. k \in 1..n
      <4>1. \A x \in 0..(n - 1) : 1 + x \in 1..n BY <2>2
      <4> QED BY <4>1, <3>1, <3>2
    <3> HIDE DEF k
    <3>4. server_list.list[k] \in Linked BY <3>3, Links DEF n
    <3> QED BY <3>1, <3>4, <2>2 DEF k, q, n
  <2> HIDE DEF first, index, n
  <2>4. pc'[rx] = "nested" /\ found'[rx] = first /\ Moves(rx)
    BY <1>1, <2>1 DEF ThreadTypes, Moves
  <2>5. req'[rx].op # "del" /\ [op |-> routing_algorithm] \in Reqs
    <3>1. routing_algorithm \in {"RA_LEAST_CONNECTION", "RA_FAST_RESPONSE", "RA_POLL", "RA_IP_HASH"}
      BY <1>1, AlgorithmAssumption DEF RouteTypes
    <3>2. req'[rx] = [op |-> routing_algorithm] BY <1>1, <2>1 DEF ThreadTypes
    <3> QED BY <3>1, <3>2 DEF Reqs
  <2>6. Types'
    <3>1. PoolTypes' BY <1>2, <1>5 DEF Types, PoolTypes
    <3>2. ThreadTypes' BY <1>1, <1>2, <1>6, <2>1, <2>3, <2>5 DEF ThreadTypes, Labels
    <3>3. RouteTypes' BY <1>1, <1>2, <1>6, <2>1, <2>3 DEF RouteTypes
    <3> QED BY <3>1, <3>2, <3>3 DEF Types
  <2>7. LockInv' /\ Frozen
    <3>1. Counted(rx)' /\ Nested' = Nested
      BY <1>2, <2>4, <2>5 DEF Counted, InBracket, Leaks, Nested
    <3> QED BY <1>1, <1>2, <1>3, <1>5, <2>4, <3>1, EnterStep
  <2>8. RxPointers' BY <1>2, <1>6, <1>7, <2>1, <2>3, <2>4 DEF RxPointers
  <2>9. found'[rx] \in OrNone(Linked') BY <1>6, <2>3, <2>4 DEF OrNone
  <2>10. Pointers' BY <1>1, <2>4, <2>7, <2>8, <2>9, PointersStay
  <2> QED BY <2>6, <2>7, <2>8, <2>10
<1> QED BY <1>8, <1>9

\* The nested LockLcxlList and its UnlockLcxlList.
LEMMA PollEnterKeeps ==
  ASSUME PoolInv, PollEnter
  PROVE  PoolInv' /\ Frozen
<1> USE DEF PoolInv, routeVars, rxVars
<1>1. rx \in Thread /\ ThreadTypes BY ThreadCount DEF Types
<1>2. /\ pc[rx] = "nested" /\ server_list' = Locked(server_list, LockMod)
      /\ pc' = [pc EXCEPT ![rx] = "poll"]
      /\ UNCHANGED <<info, ref_count, memory, spin, route_list, routing_algorithm,
                     current_server_index, req, found, pkt, pos, best, start, checking, drops, dels>>
  BY DEF PollEnter, Goto
<1>3. pc'[rx] = "poll" /\ Moves(rx) BY <1>1, <1>2 DEF ThreadTypes, Moves
<1>4. /\ Cardinality(Open) \in Nat /\ Cardinality(Open) <= Cardinality(Thread)
      /\ Cardinality(Thread) \in Nat
      /\ Cardinality(Thread) + 1 + MaxDel < LockMod /\ dels \in 0..MaxDel /\ MaxDel \in Nat
      /\ server_list.lock_count = Cardinality(Open) + dels
      /\ LockMod \in Nat
  BY <1>1, <1>2, ThreadCount, OpenCount, CountBounds, WidthAssumption
     DEF Open, LockInv, Nested, ThreadTypes
<1>5. server_list.lock_count + 1 < LockMod BY <1>4
<1>6. /\ server_list' \in Lists(Slot) /\ server_list'.lock_count = server_list.lock_count + 1
      /\ server_list'.list = server_list.list
  BY <1>2, <1>5, LockEffect
<1>7. Types'
  <2>1. PoolTypes' BY <1>2, <1>6 DEF Types, PoolTypes
  <2>2. ThreadTypes' BY <1>1, <1>2 DEF ThreadTypes, Labels
  <2>3. RouteTypes' BY <1>2 DEF Types, RouteTypes
  <2> QED BY <2>1, <2>2, <2>3 DEF Types
<1>8. LockInv' /\ Frozen
  <2>1. \A t \in Thread : (Counted(t)' <=> Counted(t)) /\ (Leaks(t)' <=> Leaks(t))
    <3>1. Counted(rx)' /\ Counted(rx) /\ ~Leaks(rx)' /\ ~Leaks(rx)
      BY <1>2, <1>3 DEF Counted, InBracket, Leaks
    <3> QED BY <1>1, <1>3, <3>1, OthersStay DEF Counted
  <2>2. Open' = Open BY <2>1 DEF Open, Counted
  <2>3. Nested' = 1 /\ Nested = 0 BY <1>2, <1>3 DEF Nested
  <2>4. LockInv' BY <1>2, <1>4, <1>6, <2>1, <2>2, <2>3 DEF LockInv
  <2> QED BY <1>6, <2>4 DEF Frozen
<1>9. Pointers' /\ RxPointers'
  <2>1. Linked' = Linked BY <1>6 DEF Linked
  <2>2. RxPointers' BY <1>2, <1>3, <2>1 DEF RxPointers
  <2>3. found'[rx] \in OrNone(Linked') BY <1>1, <1>2, <2>1 DEF Pointers
  <2> QED BY <1>1, <1>3, <1>8, <2>2, <2>3, PointersStay
<1> QED BY <1>7, <1>8, <1>9

\* Steps of rx within its bracket.
LEMMA RxInsideKeeps ==
  ASSUME PoolInv, Types', NEW l \in {"visit", "poll", "fallback", "polled"},
         pc[rx] \in {"visit", "poll", "fallback"}, l = "visit" <=> pc[rx] = "visit",
         Moves(rx), pc'[rx] = l, dels' = dels,
         server_list'.lock_count = server_list.lock_count,
         server_list.lock_count > 0 => server_list'.list = server_list.list,
         l \in {"visit", "poll"} => found'[rx] \in OrNone(Linked),
         l = "poll" => found'[rx] \in Linked /\ start' \in Linked,
         checking' # None => l # "visit" /\ checking' \in Linked,
         best' # None => l \in {"visit", "polled"},
         l = "polled" => best' \in OrNone(Linked)
  PROVE  PoolInv' /\ Frozen
<1> USE DEF PoolInv
<1>1. rx \in Thread BY ThreadCount
<1>2. LockInv' /\ Frozen
  <2>1. Counted(rx)' /\ Counted(rx) /\ ~Leaks(rx)' /\ Nested' = Nested
    BY DEF Counted, InBracket, Leaks, Nested
  <2> QED BY <1>1, <2>1, QuietStep
<1>3. Linked' = Linked
  <2>1. InBracket(rx) BY DEF InBracket
  <2>2. server_list.lock_count > 0 BY <1>1, <2>1, CountBounds
  <2> QED BY <2>2 DEF Linked
<1>4. RxPointers' BY <1>3 DEF RxPointers
<1>5. pc'[rx] \in {"apply", "check", "visit", "nested", "poll"} => found'[rx] \in OrNone(Linked')
  BY <1>3
<1>6. Pointers' BY <1>1, <1>2, <1>4, <1>5, PointersStay
<1> QED BY <1>2, <1>4, <1>6

\* The least-connection loop looks at one server.
LEMMA VisitServerKeeps ==
  ASSUME PoolInv, VisitServer
  PROVE  PoolInv' /\ Frozen
<1> USE DEF PoolInv, routeVars
<1>1. rx \in Thread /\ ThreadTypes /\ RouteTypes /\ PoolTypes BY ThreadCount DEF Types
<1>2. /\ pc[rx] = "visit" /\ found[rx] # None
      /\ found' = [found EXCEPT ![rx] = NextOf(found[rx])]
      /\ UNCHANGED <<info, spin, route_list, routing_algorithm, current_server_index, pc, req,
                     pkt, pos, start, checking, drops, dels>>
  BY DEF VisitServer
<1>3. found[rx] \in Linked BY <1>1, <1>2 DEF Pointers, OrNone
<1>4. found[rx] \in Slot /\ NextOf(found[rx]) \in OrNone(Linked) /\ Linked \subseteq Slot
  BY <1>3, Links
<1>5. Moves(rx) /\ found'[rx] = NextOf(found[rx]) /\ pc'[rx] = "visit"
  BY <1>1, <1>2 DEF ThreadTypes, Moves
<1>6. /\ server_list' \in Lists(Slot) /\ server_list'.lock_count = server_list.lock_count
      /\ server_list.lock_count > 0 => server_list'.list = server_list.list
      /\ ref_count' \in [Slot -> Int] /\ memory' \in [Slot -> {"unused", "live", "freed"}]
      /\ best' \in Slot \cup {None}
  <2>1. CASE UNCHANGED <<server_list, ref_count, memory, best>>
    BY <1>1, <2>1 DEF PoolTypes, RouteTypes
  <2>2. CASE Rerefer(best, found[rx]) /\ best' = found[rx]
    <3>1. best \in OrNone(Slot) /\ found[rx] \in OrNone(Slot) BY <1>1, <1>4 DEF RouteTypes, OrNone
    <3> QED BY <1>4, <2>2, <3>1, RereferEffect DEF OnlyFreed
  <2> QED BY <2>1, <2>2 DEF VisitServer
<1>7. Types'
  <2>1. PoolTypes' BY <1>1, <1>2, <1>6 DEF PoolTypes
  <2>2. ThreadTypes' BY <1>1, <1>2, <1>4 DEF ThreadTypes, OrNone
  <2>3. RouteTypes' BY <1>1, <1>2, <1>6 DEF RouteTypes
  <2> QED BY <2>1, <2>2, <2>3 DEF Types
<1>8. checking' = None BY <1>2 DEF RxPointers
<1> QED BY <1>2, <1>4, <1>5, <1>6, <1>7, <1>8, RxInsideKeeps

\* A poll looks at one server.
LEMMA PollServerKeeps ==
  ASSUME PoolInv, PollServer
  PROVE  PoolInv' /\ Frozen
<1> USE DEF PoolInv, routeVars
<1>1. rx \in Thread /\ ThreadTypes /\ RouteTypes /\ PoolTypes BY ThreadCount DEF Types
<1> DEFINE next == IF NextOf(found[rx]) = None THEN First ELSE NextOf(found[rx])
<1>2. /\ pc[rx] = "poll"
      /\ UNCHANGED <<info, route_list, routing_algorithm, current_server_index, req, pkt, pos,
                     start, drops, dels>>
  BY DEF PollServer
<1>3. found[rx] \in Linked /\ start \in Linked /\ Linked \subseteq Slot
  BY <1>2, Links DEF RxPointers
<1>4. found[rx] \in Slot /\ next \in Linked
  <2>1. server_list.list # <<>>
    <3>1. server_list.list \in Seq(Slot) BY <1>1 DEF PoolTypes, Lists
    <3>2. \E i \in 1..Len(server_list.list) : server_list.list[i] = found[rx]
      BY <1>3, <3>1, SetIsAtPositions DEF Linked
    <3> QED BY <3>1, <3>2, EmptySeq
  <2> QED BY <1>3, <2>1, Links DEF OrNone
<1>5. checking # None => checking \in Linked BY DEF RxPointers
<1>6. best = None BY <1>2 DEF RxPointers
<1> HIDE DEF next
<1>7. CASE /\ best' = found[rx] /\ Rerefer(None, found[rx])
           /\ spin' = [spin EXCEPT ![found[rx]] = rx]
           /\ Goto(rx, "polled")
           /\ UNCHANGED <<found, checking>>
  <2>1. pc' = [pc EXCEPT ![rx] = "polled"] /\ Moves(rx) /\ pc'[rx] = "polled"
    BY <1>1, <1>2, <1>7 DEF Goto, ThreadTypes, Moves
  <2>2. /\ server_list' \in Lists(Slot) /\ server_list'.lock_count = server_list.lock_count
        /\ server_list.lock_count > 0 => server_list'.list = server_list.list
        /\ ref_count' \in [Slot -> Int] /\ memory' \in [Slot -> {"unused", "live", "freed"}]
    <3>1. None \in OrNone(Slot) /\ found[rx] \in OrNone(Slot) BY <1>4 DEF OrNone
    <3> QED BY <1>7, <3>1, RereferEffect DEF OnlyFreed
  <2>3. Types'
    <3>1. PoolTypes' BY <1>1, <1>2, <1>4, <1>7, <2>2 DEF PoolTypes
    <3>2. ThreadTypes' BY <1>1, <1>2, <1>7, <2>1 DEF ThreadTypes, Labels
    <3>3. RouteTypes' BY <1>1, <1>2, <1>4, <1>7 DEF RouteTypes
    <3> QED BY <3>1, <3>2, <3>3 DEF Types
  <2>4. checking' # None => checking' \in Linked BY <1>5, <1>7
  <2> QED BY <1>2, <1>3, <1>7, <2>1, <2>2, <2>3, <2>4, RxInsideKeeps DEF OrNone
<1>8. CASE /\ checking' \in {found[rx], checking}
           /\ found' = [found EXCEPT ![rx] = next]
           /\ Goto(rx, IF next = start THEN "fallback" ELSE "poll")
           /\ UNCHANGED <<server_list, ref_count, memory, spin, best>>
  <2> DEFINE l == IF next = start THEN "fallback" ELSE "poll"
  <2>1. l \in {"fallback", "poll"} OBVIOUS
  <2>2. Goto(rx, l) BY <1>8
  <2> HIDE DEF l
  <2>3. pc' = [pc EXCEPT ![rx] = l] /\ Moves(rx) /\ pc'[rx] = l /\ found'[rx] = next
    BY <1>1, <1>2, <1>8, <2>2 DEF Goto, ThreadTypes, Moves
  <2>4. Types'
    <3>1. PoolTypes' BY <1>1, <1>2, <1>8 DEF PoolTypes
    <3>2. ThreadTypes' BY <1>1, <1>2, <1>3, <1>4, <1>8, <2>1, <2>3 DEF ThreadTypes, Labels
    <3>3. RouteTypes' BY <1>1, <1>2, <1>4, <1>8 DEF RouteTypes
    <3> QED BY <3>1, <3>2, <3>3 DEF Types
  <2>5. checking' # None => checking' \in Linked BY <1>3, <1>5, <1>8
  <2> QED BY <1>2, <1>3, <1>4, <1>6, <1>8, <2>1, <2>3, <2>4, <2>5, RxInsideKeeps DEF OrNone
<1>9. \/ /\ best' = found[rx] /\ Rerefer(None, found[rx])
         /\ spin' = [spin EXCEPT ![found[rx]] = rx]
         /\ Goto(rx, "polled")
         /\ UNCHANGED <<found, checking>>
      \/ /\ checking' \in {found[rx], checking}
         /\ found' = [found EXCEPT ![rx] = next]
         /\ Goto(rx, IF next = start THEN "fallback" ELSE "poll")
         /\ UNCHANGED <<server_list, ref_count, memory, spin, best>>
  BY DEF PollServer, next
<1> QED BY <1>7, <1>8, <1>9

\* The last server seen being checked, if any.
LEMMA PollFallbackKeeps ==
  ASSUME PoolInv, PollFallback
  PROVE  PoolInv' /\ Frozen
<1> USE DEF PoolInv, routeVars
<1>1. rx \in Thread /\ ThreadTypes /\ RouteTypes /\ PoolTypes BY ThreadCount DEF Types
<1>2. /\ pc[rx] = "fallback" /\ best' = checking /\ checking' = None /\ Rerefer(None, checking)
      /\ pc' = [pc EXCEPT ![rx] = "polled"]
      /\ UNCHANGED <<info, spin, route_list, routing_algorithm, current_server_index, req, found,
                     pkt, pos, start, drops, dels>>
  BY DEF PollFallback, Goto
<1>3. pc'[rx] = "polled" /\ Moves(rx) BY <1>1, <1>2 DEF ThreadTypes, Moves
<1>4. /\ server_list' \in Lists(Slot) /\ server_list'.lock_count = server_list.lock_count
      /\ server_list.lock_count > 0 => server_list'.list = server_list.list
      /\ ref_count' \in [Slot -> Int] /\ memory' \in [Slot -> {"unused", "live", "freed"}]
  <2>1. None \in OrNone(Slot) /\ checking \in OrNone(Slot) BY <1>1 DEF OrNone, RouteTypes
  <2> QED BY <1>2, <2>1, RereferEffect DEF OnlyFreed
<1>5. Types'
  <2>1. PoolTypes' BY <1>1, <1>2, <1>4 DEF PoolTypes
  <2>2. ThreadTypes' BY <1>1, <1>2 DEF ThreadTypes, Labels
  <2>3. RouteTypes' BY <1>1, <1>2 DEF RouteTypes
  <2> QED BY <2>1, <2>2, <2>3 DEF Types
<1>6. best' \in OrNone(Linked) BY <1>2 DEF RxPointers, OrNone
<1> QED BY <1>2, <1>3, <1>4, <1>5, <1>6, RxInsideKeeps

\* The nested bracket is closed: the list stays locked by the outer one.
LEMMA PollLeaveKeeps ==
  ASSUME PoolInv, PollLeave
  PROVE  PoolInv' /\ Frozen
<1> USE DEF PoolInv
<1>1. rx \in Thread /\ ThreadTypes /\ RouteTypes /\ PoolTypes BY ThreadCount DEF Types
<1>2. /\ pc[rx] = "polled" /\ UnlockServerList(server_list)
      /\ \/ current_server_index' = current_server_index
         \/ best # None /\ current_server_index' = Index(best)
      /\ req' = [req EXCEPT ![rx] = NoReq] /\ found' = [found EXCEPT ![rx] = None]
      /\ start' = None /\ checking' = None /\ pc' = [pc EXCEPT ![rx] = "visit"]
      /\ UNCHANGED <<info, ref_count, spin, route_list, routing_algorithm, pkt, pos, best, drops,
                     dels>>
  BY DEF PollLeave, Goto
<1>3. pc'[rx] = "visit" /\ found'[rx] = None /\ req'[rx] = NoReq /\ Moves(rx)
  BY <1>1, <1>2 DEF ThreadTypes, Moves
<1>4. Counted(rx) /\ Counted(rx)' /\ ~Leaks(rx)' /\ Nested = 1 /\ Nested' = 0
  BY <1>2, <1>3 DEF Counted, InBracket, Leaks, Nested
<1>5. /\ Cardinality(Open) \in Nat /\ Cardinality(Open) > 0 /\ dels \in Nat
      /\ server_list.lock_count = Cardinality(Open) + 1 + dels
      /\ server_list.lock_count \in 0..(LockMod - 1)
  <2>1. rx \in Open BY <1>1, <1>4 DEF Open, Counted
  <2>2. Open \in SUBSET Thread /\ Open # {} BY <2>1 DEF Open
  <2> QED BY <1>4, <2>2, OpenCount, CountBounds DEF LockInv
<1>6. /\ server_list' \in Lists(Slot) /\ server_list'.lock_count = server_list.lock_count - 1
      /\ server_list'.list = server_list.list
      /\ memory' \in [Slot -> {"unused", "live", "freed"}]
  <2>1. server_list.lock_count > 0 /\ server_list.lock_count < LockMod /\ server_list.lock_count # 1
    BY <1>5, WidthAssumption
  <2> QED BY <1>2, <2>1, UnlockEffect DEF OnlyFreed
<1>7. Linked' = Linked BY <1>6 DEF Linked
<1>8. Types'
  <2>1. PoolTypes' BY <1>1, <1>2, <1>6 DEF PoolTypes
  <2>2. ThreadTypes' BY <1>1, <1>2 DEF ThreadTypes, Labels, Reqs, NoReq
  <2>3. current_server_index' \in Nat
    <3>1. best # None => best \in Linked BY <1>2 DEF RxPointers, OrNone
    <3> QED BY <1>1, <1>2, <3>1, Links DEF RouteTypes
  <2>4. RouteTypes' BY <1>1, <1>2, <2>3 DEF RouteTypes
  <2> QED BY <2>1, <2>2, <2>4 DEF Types
<1>9. LockInv'
  <2>1. \A t \in Thread : (Counted(t)' <=> Counted(t)) /\ (Leaks(t)' => Leaks(t))
    BY <1>1, <1>3, <1>4, OthersStay DEF Counted
  <2>2. Open' = Open BY <2>1 DEF Open, Counted
  <2> QED BY <1>2, <1>4, <1>5, <1>6, <2>1, <2>2 DEF LockInv
<1>10. Frozen BY <1>6 DEF Frozen
<1>11. RxPointers' BY <1>2, <1>3 DEF RxPointers
<1>12. Pointers' BY <1>1, <1>3, <1>10, <1>11, PointersStay DEF OrNone
<1> QED BY <1>8, <1>9, <1>10, <1>11, <1>12

\* Nothing to select from.
LEMMA SelectNoneKeeps ==
  ASSUME PoolInv, SelectNone
  PROVE  PoolInv' /\ Frozen
<1> USE DEF PoolInv, routeVars, rxVars
<1>1. rx \in Thread /\ ThreadTypes /\ RouteTypes /\ PoolTypes BY ThreadCount DEF Types
<1>2. /\ pc[rx] = "select" /\ UnlockServerList(Locked(server_list, LockMod))
      /\ Goto(rx, "bind")
      /\ UNCHANGED <<info, ref_count, spin, route_list, routing_algorithm, current_server_index,
                     req, found, pkt, pos, best, start, checking, drops, dels>>
  BY DEF SelectNone
<1>3. server_list.lock_count + 1 < LockMod
  <2>1. rx \notin Open BY <1>2 DEF Open, InBracket
  <2> QED BY <1>1, <2>1, CountBounds
<1>4. /\ server_list' \in Lists(Slot) /\ server_list'.lock_count = server_list.lock_count
      /\ server_list.lock_count > 0 => server_list'.list = server_list.list
      /\ memory' \in [Slot -> {"unused", "live", "freed"}]
  BY <1>2, <1>3, PassEffect DEF OnlyFreed
<1>5. Types'
  <2>1. PoolTypes' BY <1>1, <1>2, <1>4 DEF PoolTypes
  <2>2. ThreadTypes' BY <1>1, <1>2 DEF ThreadTypes, Labels, Goto
  <2>3. RouteTypes' BY <1>1, <1>2 DEF RouteTypes
  <2> QED BY <2>1, <2>2, <2>3 DEF Types
<1> QED BY <1>2, <1>4, <1>5, RxOutsideKeeps

-----------------------------------------------------------------------------
(* The routes.                                                              *)

\* A connection keeps its server, but for the one whose SYN is being handled.
Stays ==
  \A i \in DOMAIN route_list, j \in DOMAIN route_list' :
    route_list[i].conn = route_list'[j].conn /\ route_list[i].server # route_list'[j].server
      => pkt # NoReq /\ pkt.conn = route_list[i].conn /\ IsSyn

\* The routes and what rx knows of them are left alone.
LEMMA RoutesFrame ==
  ASSUME Types, RouteInv, UNCHANGED <<route_list, pkt, pos>>,
         pc'[rx] = pc[rx] \/ pc'[rx] = "idle" \/ (pc[rx] \in Selecting /\ pc'[rx] \in Selecting)
  PROVE  RouteInv' /\ Stays
<1>1. OneRoutePerConnection' /\ Stays BY DEF RouteInv, OneRoutePerConnection, Stays
<1>2. Matched' = Matched /\ IsSyn' = IsSyn BY DEF Matched, IsSyn
<1>3. CASE pc'[rx] = pc[rx] BY <1>1, <1>2, <1>3 DEF RouteInv
<1>4. CASE pc'[rx] = "idle" BY <1>1, <1>4 DEF RouteInv, Selecting
<1>5. CASE pc[rx] \in Selecting /\ pc'[rx] \in Selecting
  BY <1>1, <1>2, <1>5 DEF RouteInv, Selecting
<1> QED BY <1>3, <1>4, <1>5

\* A route is changed in place, its connection staying the same.
LEMMA ChangeKeeps ==
  ASSUME route_list \in Seq(Routes), OneRoutePerConnection, NEW p \in 1..Len(route_list),
         NEW x \in Routes, x.conn = route_list[p].conn, route_list' = [route_list EXCEPT ![p] = x]
  PROVE  /\ route_list' \in Seq(Routes) /\ Len(route_list') = Len(route_list)
         /\ DOMAIN route_list = 1..Len(route_list) /\ DOMAIN route_list' = 1..Len(route_list)
         /\ \A i \in 1..Len(route_list) : route_list'[i].conn = route_list[i].conn
         /\ OneRoutePerConnection'
         /\ x.server = route_list[p].server => Stays
         /\ pkt # NoReq /\ pkt.conn = route_list[p].conn /\ IsSyn => Stays
<1>1. /\ route_list' \in Seq(Routes) /\ Len(route_list') = Len(route_list)
      /\ \A i \in 1..Len(route_list) : route_list'[i] = IF i = p THEN x ELSE route_list[i]
  BY RouteChanges
<1>2. DOMAIN route_list = 1..Len(route_list) /\ DOMAIN route_list' = 1..Len(route_list)
  BY <1>1, LenProperties
<1>3. \A i \in 1..Len(route_list) : route_list'[i].conn = route_list[i].conn BY <1>1
<1>4. OneRoutePerConnection' BY <1>2, <1>3 DEF OneRoutePerConnection
<1>5. ASSUME NEW i \in DOMAIN route_list, NEW j \in DOMAIN route_list',
             route_list[i].conn = route_list'[j].conn, route_list[i].server # route_list'[j].server
      PROVE  i = p /\ x.server # route_list[p].server
  <2>1. i = j BY <1>2, <1>3, <1>5 DEF OneRoutePerConnection
  <2> QED BY <1>1, <1>2, <1>5, <2>1
<1> QED BY <1>1, <1>2, <1>3, <1>4, <1>5 DEF Stays

\* A route is deleted.
LEMMA DropKeeps ==
  ASSUME route_list \in Seq(Routes), OneRoutePerConnection, NEW p \in 1..Len(route_list),
         route_list' = RemoveAt(route_list, p)
  PROVE  /\ route_list' \in Seq(Routes) /\ Len(route_list') = Len(route_list) - 1
         /\ \A i \in 1..(p - 1) : route_list'[i] = route_list[i]
         /\ OneRoutePerConnection'
         /\ Stays
<1> DEFINE o(i) == IF i < p THEN i ELSE i + 1
           n == Len(route_list)
<1>0. n \in Nat /\ p \in 1..n BY LenProperties
<1>1. /\ route_list' \in Seq(Routes) /\ Len(route_list') = n - 1
      /\ \A i \in 1..(n - 1) : route_list'[i] = route_list[o(i)]
  BY RemoveAtDrops
<1>2. DOMAIN route_list = 1..n /\ DOMAIN route_list' = 1..(n - 1)
  BY <1>1, LenProperties
<1> HIDE DEF n
<1>3. \A i \in 1..(n - 1) : o(i) \in 1..n BY <1>0
<1>4. \A i, j \in 1..(n - 1) : o(i) = o(j) => i = j BY <1>0
<1>5. \A i \in 1..(p - 1) : i \in 1..(n - 1) /\ o(i) = i BY <1>0
<1> HIDE DEF o
<1>6. OneRoutePerConnection' BY <1>1, <1>2, <1>3, <1>4 DEF OneRoutePerConnection
<1>7. Stays BY <1>1, <1>2, <1>3 DEF Stays, OneRoutePerConnection
<1> QED BY <1>1, <1>5, <1>6, <1>7 DEF n

\* A route to a connection that has none is put in front.
LEMMA NewKeeps ==
  ASSUME route_list \in Seq(Routes), OneRoutePerConnection, NEW x \in Routes,
         \A i \in 1..Len(route_list) : route_list[i].conn # x.conn,
         route_list' = <<x>> \o route_list
  PROVE  route_list' \in Seq(Routes) /\ OneRoutePerConnection' /\ Stays
<1> DEFINE n == Len(route_list)
<1>0. n \in Nat BY LenProperties
<1>1. /\ route_list' \in Seq(Routes) /\ Len(route_list') = n + 1 /\ route_list'[1] = x
      /\ \A i \in 1..n : route_list'[i + 1] = route_list[i]
  BY HeadAdds
<1>2. DOMAIN route_list = 1..n /\ DOMAIN route_list' = 1..(n + 1)
  BY <1>1, LenProperties
<1> HIDE DEF n
<1>3. ASSUME NEW j \in 1..(n + 1), j # 1
      PROVE  j - 1 \in 1..n /\ route_list'[j] = route_list[j - 1]
  <2>1. j - 1 \in 1..n /\ (j - 1) + 1 = j BY <1>0, <1>3
  <2> QED BY <1>1, <2>1
<1>4. \A i \in 1..n : route_list[i].conn # x.conn BY DEF n
<1>5. OneRoutePerConnection'
  <2> SUFFICES ASSUME NEW i \in 1..(n + 1), NEW j \in 1..(n + 1),
                      route_list'[i].conn = route_list'[j].conn
               PROVE  i = j
    BY <1>2 DEF OneRoutePerConnection
  <2>1. CASE i = 1 /\ j # 1 BY <2>1, <1>1, <1>3, <1>4
  <2>2. CASE i # 1 /\ j = 1 BY <2>2, <1>1, <1>3, <1>4
  <2>3. CASE i # 1 /\ j # 1
    <3>0. /\ i - 1 \in 1..n /\ route_list'[i] = route_list[i - 1]
          /\ j - 1 \in 1..n /\ route_list'[j] = route_list[j - 1]
      BY <2>3, <1>3
    <3>1. i - 1 = j - 1 BY <3>0, <1>2 DEF OneRoutePerConnection
    <3> QED BY <3>1, <1>0
  <2> QED BY <2>1, <2>2, <2>3
<1>6. Stays
  <2>1. ASSUME NEW i \in DOMAIN route_list, NEW j \in DOMAIN route_list',
               route_list[i].conn = route_list'[j].conn
        PROVE  route_list[i].server = route_list'[j].server
    <3>1. i \in 1..n /\ j \in 1..(n + 1) BY <1>2
    <3>2. j # 1 BY <1>1, <1>4, <2>1, <3>1
    <3>3. j - 1 \in 1..n /\ route_list'[j] = route_list[j - 1] BY <1>3, <3>1, <3>2
    <3>4. i = j - 1 BY <1>2, <2>1, <3>1, <3>3 DEF OneRoutePerConnection
    <3> QED BY <3>3, <3>4
  <2> QED BY <2>1 DEF Stays
<1> QED BY <1>1, <1>5, <1>6

\* A segment arrives, or time passes.
LEMMA ArrivalKeeps ==
  ASSUME IInv, \/ \E c \in Conn, f \in Segments : Receive(c, f)
               \/ \E i \in DOMAIN route_list : RouteTimeout(i)
  PROVE  IInv' /\ Frozen /\ Stays
<1> USE DEF IInv, routeVars, poolVars, rxVars
<1>1. rx \in Thread /\ ThreadTypes /\ RouteTypes /\ PoolTypes BY ThreadCount DEF PoolInv, Types
<1>2. ASSUME NEW c \in Conn, NEW f \in Segments, Receive(c, f) PROVE IInv' /\ Frozen /\ Stays
  <2>1. /\ pc[rx] = "idle" /\ pkt' = [conn |-> c, flags |-> f] /\ pos' = 1 /\ Goto(rx, "walk")
        /\ UNCHANGED <<server_list, info, ref_count, memory, spin, route_list, routing_algorithm,
                       current_server_index, req, found, best, start, checking, drops, dels>>
    BY <1>2 DEF Receive
  <2>2. pkt' \in Pkts BY <2>1 DEF Pkts
  <2>3. pc'[rx] = "walk" /\ pc' \in [Thread -> Labels] BY <1>1, <2>1 DEF ThreadTypes, Goto, Labels
  <2>4. Types'
    <3>1. PoolTypes' BY <1>1, <2>1 DEF PoolTypes
    <3>2. ThreadTypes' BY <1>1, <2>1, <2>3 DEF ThreadTypes
    <3>3. RouteTypes' BY <1>1, <2>1, <2>2 DEF RouteTypes
    <3> QED BY <3>1, <3>2, <3>3 DEF Types
  <2>5. best' = None BY <2>1 DEF PoolInv, RxPointers
  <2>6. PoolInv' /\ Frozen BY <2>1, <2>4, <2>5, RxOutsideKeeps
  <2>7. Stays /\ OneRoutePerConnection' BY <2>1 DEF Stays, RouteInv, OneRoutePerConnection
  <2>8. Len(route_list) \in Nat BY <1>1, LenProperties DEF RouteTypes
  <2>9. RouteInv' BY <2>1, <2>2, <2>3, <2>7, <2>8 DEF RouteInv, Selecting
  <2> QED BY <2>6, <2>7, <2>9
<1>3. ASSUME NEW i \in DOMAIN route_list, RouteTimeout(i) PROVE IInv' /\ Frozen /\ Stays
  <2> DEFINE x == [route_list[i] EXCEPT !.stale = TRUE]
  <2>1. /\ pc[rx] = "idle" /\ route_list' = [route_list EXCEPT ![i] = x]
        /\ UNCHANGED <<server_list, info, ref_count, memory, spin, routing_algorithm, pc,
                       current_server_index, req, found, pkt, pos, best, start, checking, drops, dels>>
    BY <1>3 DEF RouteTimeout
  <2>2. /\ i \in 1..Len(route_list) /\ x \in Routes /\ x.conn = route_list[i].conn
        /\ x.server = route_list[i].server
    <3>1. route_list \in Seq(Routes) /\ i \in 1..Len(route_list)
      BY <1>1, LenProperties DEF RouteTypes
    <3>2. route_list[i] \in Routes BY <3>1, ElementOfSeq
    <3> QED BY <3>1, <3>2 DEF Routes
  <2> HIDE DEF x
  <2>3. route_list' \in Seq(Routes) /\ OneRoutePerConnection' /\ Stays
    BY <1>1, <2>1, <2>2, ChangeKeeps DEF RouteTypes, RouteInv
  <2>4. Types'
    <3>1. PoolTypes' BY <1>1, <2>1 DEF PoolTypes
    <3>2. ThreadTypes' BY <1>1, <2>1 DEF ThreadTypes
    <3>3. RouteTypes' BY <1>1, <2>1, <2>3 DEF RouteTypes
    <3> QED BY <3>1, <3>2, <3>3 DEF Types
  <2>5. Goto(rx, "idle") BY <1>1, <2>1 DEF Goto, ThreadTypes
  <2>6. best' = None BY <2>1 DEF PoolInv, RxPointers
  <2>7. PoolInv' /\ Frozen BY <2>1, <2>4, <2>5, <2>6, RxOutsideKeeps
  <2>8. RouteInv' BY <2>1, <2>3 DEF RouteInv, Selecting
  <2> QED BY <2>3, <2>7, <2>8
<1> QED BY <1>2, <1>3

\* DeleteRouteListEntry: the reference of the route goes with it.
LEMMA DeleteKeeps ==
  ASSUME IInv, NEW p \in 1..Len(route_list), DeleteRouteListEntry(p)
  PROVE  /\ server_list' \in Lists(Slot) /\ server_list'.lock_count = server_list.lock_count
         /\ server_list.lock_count > 0 => server_list'.list = server_list.list
         /\ ref_count' \in [Slot -> Int] /\ memory' \in [Slot -> {"unused", "live", "freed"}]
         /\ route_list' \in Seq(Routes) /\ Len(route_list') = Len(route_list) - 1
         /\ \A i \in 1..(p - 1) : route_list'[i] = route_list[i]
         /\ OneRoutePerConnection' /\ Stays
<1>1. Types /\ RouteTypes /\ OneRoutePerConnection BY DEF IInv, PoolInv, Types, RouteInv
<1>2. route_list[p].server \in OrNone(Slot) /\ None \in OrNone(Slot)
  <2>1. route_list[p] \in Routes BY <1>1, ElementOfSeq DEF RouteTypes
  <2> QED BY <2>1 DEF Routes, OrNone
<1>3. Rerefer(route_list[p].server, None) /\ route_list' = RemoveAt(route_list, p)
  BY DEF DeleteRouteListEntry
<1>4. /\ server_list' \in Lists(Slot) /\ server_list'.lock_count = server_list.lock_count
      /\ server_list.lock_count > 0 => server_list'.list = server_list.list
      /\ ref_count' \in [Slot -> Int] /\ memory' \in [Slot -> {"unused", "live", "freed"}]
  BY <1>1, <1>2, <1>3, RereferEffect DEF OnlyFreed
<1>5. /\ route_list' \in Seq(Routes) /\ Len(route_list') = Len(route_list) - 1
      /\ \A i \in 1..(p - 1) : route_list'[i] = route_list[i]
      /\ OneRoutePerConnection' /\ Stays
  BY <1>1, <1>3, DropKeeps DEF RouteTypes
<1> QED BY <1>4, <1>5

\* One entry of the walk.
LEMMA WalkRouteKeeps ==
  ASSUME IInv, WalkRoute
  PROVE  IInv' /\ Frozen /\ Stays
<1> USE DEF IInv
<1>1. rx \in Thread /\ ThreadTypes /\ RouteTypes /\ PoolTypes BY ThreadCount DEF PoolInv, Types
<1>2. /\ pc[rx] = "walk" /\ pos <= Len(route_list)
      /\ UNCHANGED <<info, spin, routing_algorithm, current_server_index, req, found,
                     pkt, best, start, checking, drops, dels>>
  BY DEF WalkRoute
<1>3. /\ pkt \in Pkts /\ pos \in 1..Len(route_list) /\ Len(route_list) \in Nat
      /\ \A j \in 1..(pos - 1) : route_list[j].conn # pkt.conn
      /\ OneRoutePerConnection
  BY <1>1, <1>2, LenProperties DEF RouteInv, RouteTypes
<1>4. best' = None BY <1>2 DEF PoolInv, RxPointers
<1>5. CASE /\ Matched /\ route_list' = [route_list EXCEPT ![pos].stale = FALSE]
           /\ Goto(rx, IF IsSyn THEN "select" ELSE "forward")
           /\ UNCHANGED <<server_list, ref_count, memory, pos>>
  <2> DEFINE x == [route_list[pos] EXCEPT !.stale = FALSE]
             l == IF IsSyn THEN "select" ELSE "forward"
  <2>1. x \in Routes /\ x.conn = route_list[pos].conn /\ x.server = route_list[pos].server
    <3>1. route_list[pos] \in Routes BY <1>1, <1>3, ElementOfSeq DEF RouteTypes
    <3> QED BY <3>1 DEF Routes
  <2>2. route_list' = [route_list EXCEPT ![pos] = x] BY <1>5
  <2>3. l \in {"select", "forward"} /\ Goto(rx, l) /\ (l = "select" <=> IsSyn) BY <1>5
  <2> HIDE DEF x, l
  <2>4. /\ route_list' \in Seq(Routes) /\ OneRoutePerConnection' /\ Stays
        /\ Len(route_list') = Len(route_list)
        /\ \A i \in 1..Len(route_list) : route_list'[i].conn = route_list[i].conn
    BY <1>1, <1>3, <2>1, <2>2, ChangeKeeps DEF RouteTypes
  <2>5. pc'[rx] = l /\ pc' \in [Thread -> Labels] BY <1>1, <2>3 DEF ThreadTypes, Goto, Labels
  <2>6. Types'
    <3>1. PoolTypes' BY <1>1, <1>2, <1>5 DEF PoolTypes
    <3>2. ThreadTypes' BY <1>1, <1>2, <2>5 DEF ThreadTypes
    <3>3. RouteTypes' BY <1>1, <1>2, <1>5, <2>4 DEF RouteTypes
    <3> QED BY <3>1, <3>2, <3>3 DEF Types
  <2>7. PoolInv' /\ Frozen BY <1>2, <1>4, <1>5, <2>3, <2>6, RxOutsideKeeps
  <2>8. Matched' /\ (IsSyn' <=> IsSyn) BY <1>2, <1>3, <1>5, <2>4 DEF Matched, IsSyn
  <2>9. /\ pkt' \in Pkts /\ pos' \in 1..(Len(route_list') + 1)
        /\ \A j \in 1..(pos' - 1) : route_list'[j].conn # pkt'.conn
    <3>1. pos \in Nat /\ \A j \in 1..(pos - 1) : j \in 1..Len(route_list) BY <1>3
    <3> QED BY <1>2, <1>3, <1>5, <2>4, <3>1
  <2>10. RouteInv' BY <2>3, <2>4, <2>5, <2>8, <2>9 DEF RouteInv, Selecting
  <2> QED BY <2>4, <2>7, <2>10
<1>6. CASE DeleteRouteListEntry(pos) /\ UNCHANGED <<pc, pos>>
  <2>1. /\ server_list' \in Lists(Slot) /\ server_list'.lock_count = server_list.lock_count
        /\ server_list.lock_count > 0 => server_list'.list = server_list.list
        /\ ref_count' \in [Slot -> Int] /\ memory' \in [Slot -> {"unused", "live", "freed"}]
        /\ route_list' \in Seq(Routes) /\ Len(route_list') = Len(route_list) - 1
        /\ \A i \in 1..(pos - 1) : route_list'[i] = route_list[i]
        /\ OneRoutePerConnection' /\ Stays
    BY <1>3, <1>6, DeleteKeeps
  <2>2. Goto(rx, "walk") BY <1>1, <1>2, <1>6 DEF Goto, ThreadTypes
  <2>3. Types'
    <3>1. PoolTypes' BY <1>1, <1>2, <2>1 DEF PoolTypes
    <3>2. ThreadTypes' BY <1>1, <1>2, <1>6 DEF ThreadTypes
    <3>3. RouteTypes' BY <1>1, <1>2, <1>6, <2>1 DEF RouteTypes
    <3> QED BY <3>1, <3>2, <3>3 DEF Types
  <2>4. PoolInv' /\ Frozen BY <1>2, <1>4, <2>1, <2>2, <2>3, RxOutsideKeeps
  <2>5. pos' \in 1..(Len(route_list') + 1) BY <1>3, <1>6, <2>1
  <2>6. RouteInv' BY <1>2, <1>3, <1>6, <2>1, <2>5 DEF RouteInv, Selecting
  <2> QED BY <2>1, <2>4, <2>6
<1>7. CASE /\ ~Matched /\ pos' = pos + 1
           /\ UNCHANGED <<server_list, ref_count, memory, route_list, pc>>
  <2>1. Types'
    <3>1. PoolTypes' BY <1>1, <1>2, <1>7 DEF PoolTypes
    <3>2. ThreadTypes' BY <1>1, <1>2, <1>7 DEF ThreadTypes
    <3>3. RouteTypes' BY <1>1, <1>2, <1>7 DEF RouteTypes
    <3> QED BY <3>1, <3>2, <3>3 DEF Types
  <2>2. Goto(rx, "walk") BY <1>1, <1>2, <1>7 DEF Goto, ThreadTypes
  <2>3. PoolInv' /\ Frozen BY <1>2, <1>4, <1>7, <2>1, <2>2, RxOutsideKeeps
  <2>4. Stays /\ OneRoutePerConnection' BY <1>3, <1>7 DEF Stays, OneRoutePerConnection
  <2>5. route_list[pos].conn # pkt.conn BY <1>2, <1>7 DEF Matched
  <2>6. pos' \in 1..(Len(route_list) + 1) /\ pos' - 1 = pos /\ \A j \in 1..pos : j = pos \/ j \in 1..(pos - 1)
    BY <1>3, <1>7
  <2>7. \A j \in 1..(pos' - 1) : route_list'[j].conn # pkt'.conn
    BY <1>2, <1>3, <1>7, <2>5, <2>6
  <2>8. RouteInv' BY <1>2, <1>3, <1>7, <2>4, <2>6, <2>7 DEF RouteInv, Selecting
  <2> QED BY <2>3, <2>4, <2>8
<1> QED BY <1>5, <1>6, <1>7 DEF WalkRoute

\* The end of the walk.
LEMMA WalkEndKeeps ==
  ASSUME IInv, WalkEnd
  PROVE  IInv' /\ Frozen /\ Stays
<1> USE DEF IInv, routeVars, poolVars
<1>1. rx \in Thread /\ ThreadTypes /\ RouteTypes /\ PoolTypes BY ThreadCount DEF PoolInv, Types
<1>2. /\ pc[rx] = "walk" /\ pos > Len(route_list)
      /\ \/ IsSyn /\ Goto(rx, "select") /\ UNCHANGED <<pkt, pos>>
         \/ Goto(rx, "idle") /\ pkt' = NoReq /\ pos' = 0
      /\ UNCHANGED <<server_list, info, ref_count, memory, spin, route_list, routing_algorithm,
                     current_server_index, req, found, best, start, checking, drops, dels>>
  BY DEF WalkEnd
<1>3. /\ pkt \in Pkts /\ pos = Len(route_list) + 1 /\ Len(route_list) \in Nat
      /\ \A j \in 1..(pos - 1) : route_list[j].conn # pkt.conn
  BY <1>1, <1>2, LenProperties DEF RouteInv, RouteTypes
<1>4. best' = None BY <1>2 DEF PoolInv, RxPointers
<1>5. Stays /\ OneRoutePerConnection' BY <1>2 DEF Stays, OneRoutePerConnection, RouteInv
<1>6. Types'
  <2>1. PoolTypes' BY <1>1, <1>2 DEF PoolTypes
  <2>2. ThreadTypes' BY <1>1, <1>2 DEF ThreadTypes, Goto, Labels
  <2>3. RouteTypes' BY <1>1, <1>2 DEF RouteTypes
  <2> QED BY <2>1, <2>2, <2>3 DEF Types
<1>7. PoolInv' /\ Frozen BY <1>2, <1>4, <1>6, RxOutsideKeeps
<1>8. RouteInv'
  <2>1. CASE IsSyn /\ Goto(rx, "select") /\ UNCHANGED <<pkt, pos>>
    <3>1. pc'[rx] = "select" BY <1>1, <2>1 DEF Goto, ThreadTypes
    <3>2. IsSyn' BY <2>1 DEF IsSyn
    <3> QED BY <1>2, <1>3, <1>5, <2>1, <3>1, <3>2 DEF RouteInv, Selecting
  <2>2. CASE Goto(rx, "idle")
    <3>1. pc'[rx] = "idle" BY <1>1, <2>2 DEF Goto, ThreadTypes
    <3> QED BY <1>5, <3>1 DEF RouteInv, Selecting
  <2> QED BY <1>2, <2>1, <2>2
<1> QED BY <1>5, <1>7, <1>8

\* A packet is not the absence of one.
LEMMA PacketIs == ASSUME NEW x \in Pkts PROVE x # NoReq
<1>1. DOMAIN x = {"conn", "flags"} BY DEF Pkts
<1>2. DOMAIN NoReq = {"op"} BY DEF NoReq
<1> QED BY <1>1, <1>2

\* The new connection gets its route.
LEMMA BindKeeps ==
  ASSUME IInv, Bind
  PROVE  IInv' /\ Frozen /\ Stays
<1> USE DEF IInv
<1>1. rx \in Thread /\ ThreadTypes /\ RouteTypes /\ PoolTypes /\ Types BY ThreadCount DEF PoolInv, Types
<1>2. /\ pc[rx] = "bind" /\ best' = None /\ pkt' = NoReq /\ pos' = 0 /\ Goto(rx, "idle")
      /\ UNCHANGED <<info, spin, routing_algorithm, current_server_index, req, found, start, checking,
                     drops, dels>>
  BY DEF Bind
<1>3. /\ pkt \in Pkts /\ pos \in 1..(Len(route_list) + 1) /\ Len(route_list) \in Nat
      /\ \A j \in 1..(pos - 1) : route_list[j].conn # pkt.conn
      /\ OneRoutePerConnection /\ IsSyn
      /\ Matched \/ pos = Len(route_list) + 1
  BY <1>1, <1>2, LenProperties DEF RouteInv, RouteTypes, Selecting
<1>4. /\ server_list' \in Lists(Slot) /\ server_list'.lock_count = server_list.lock_count
      /\ server_list.lock_count > 0 => server_list'.list = server_list.list
      /\ ref_count' \in [Slot -> Int] /\ memory' \in [Slot -> {"unused", "live", "freed"}]
      /\ route_list' \in Seq(Routes) /\ OneRoutePerConnection' /\ Stays
  <2>1. CASE UNCHANGED <<route_list, server_list, ref_count, memory>>
    <3>1. Stays /\ OneRoutePerConnection' BY <1>3, <2>1 DEF Stays, OneRoutePerConnection
    <3> QED BY <1>1, <2>1, <3>1 DEF PoolTypes, RouteTypes
  <2>2. CASE /\ best # None /\ ~Matched
             /\ route_list' = <<[conn |-> pkt.conn, status |-> "NORMAL", server |-> best,
                                 stale |-> FALSE]>> \o route_list
             /\ UNCHANGED <<server_list, ref_count, memory>>
    <3> DEFINE x == [conn |-> pkt.conn, status |-> "NORMAL", server |-> best, stale |-> FALSE]
    <3>1. x \in Routes /\ x.conn = pkt.conn BY <1>1, <1>3, <2>2 DEF Routes, RouteTypes, Pkts
    <3>2. route_list' = <<x>> \o route_list BY <2>2
    <3> HIDE DEF x
    <3>3. pos - 1 = Len(route_list) BY <1>3, <2>2
    <3>4. \A i \in 1..Len(route_list) : route_list[i].conn # x.conn BY <1>3, <3>1, <3>3
    <3>5. route_list' \in Seq(Routes) /\ OneRoutePerConnection' /\ Stays
      BY <1>1, <1>3, <3>1, <3>2, <3>4, NewKeeps DEF RouteTypes
    <3> QED BY <1>1, <2>2, <3>5 DEF PoolTypes
  <2>3. CASE /\ best # None /\ Matched
             /\ Rerefer(route_list[pos].server, None)
             /\ route_list' = [route_list EXCEPT ![pos].server = best, ![pos].status = "NORMAL"]
    <3> DEFINE x == [route_list[pos] EXCEPT !.server = best, !.status = "NORMAL"]
    <3>1. pos \in 1..Len(route_list) /\ route_list[pos].conn = pkt.conn BY <1>3, <2>3 DEF Matched
    <3>2. route_list[pos] \in Routes BY <1>1, <3>1, ElementOfSeq DEF RouteTypes
    <3>3. route_list[pos].server \in OrNone(Slot) /\ None \in OrNone(Slot) BY <3>2 DEF Routes, OrNone
    <3>4. x \in Routes /\ x.conn = route_list[pos].conn BY <1>1, <2>3, <3>2 DEF Routes, RouteTypes
    <3>5. route_list' = [route_list EXCEPT ![pos] = x] BY <1>1, <2>3, <3>1 DEF RouteTypes
    <3> HIDE DEF x
    <3>6. pkt # NoReq /\ pkt.conn = route_list[pos].conn /\ IsSyn BY <1>3, <3>1, PacketIs
    <3>7. route_list' \in Seq(Routes) /\ OneRoutePerConnection' /\ Stays
      BY <1>1, <1>3, <3>1, <3>4, <3>5, <3>6, ChangeKeeps DEF RouteTypes
    <3> QED BY <1>1, <2>3, <3>3, <3>7, RereferEffect DEF OnlyFreed
  <2> QED BY <2>1, <2>2, <2>3 DEF Bind
<1>5. Types'
  <2>1. PoolTypes' BY <1>1, <1>2, <1>4 DEF PoolTypes
  <2>2. ThreadTypes' BY <1>1, <1>2 DEF ThreadTypes, Goto, Labels
  <2>3. RouteTypes' BY <1>1, <1>2, <1>4 DEF RouteTypes
  <2> QED BY <2>1, <2>2, <2>3 DEF Types
<1>6. PoolInv' /\ Frozen BY <1>2, <1>4, <1>5, RxOutsideKeeps
<1>7. pc'[rx] = "idle" BY <1>1, <1>2 DEF Goto, ThreadTypes
<1> QED BY <1>4, <1>6, <1>7 DEF RouteInv, Selecting

\* A later segment of a known connection.
LEMMA ForwardKeeps ==
  ASSUME IInv, Forward
  PROVE  IInv' /\ Frozen /\ Stays
<1> USE DEF IInv
<1> DEFINE st == NextStatus(route_list[pos].status)
<1>1. rx \in Thread /\ ThreadTypes /\ RouteTypes /\ PoolTypes BY ThreadCount DEF PoolInv, Types
<1>2. /\ pc[rx] = "forward" /\ pkt' = NoReq /\ pos' = 0 /\ Goto(rx, "idle")
      /\ UNCHANGED <<info, spin, routing_algorithm, current_server_index, req, found, best, start,
                     checking, drops, dels>>
  BY DEF Forward
<1>3. pos \in 1..Len(route_list) /\ OneRoutePerConnection
  BY <1>1, <1>2, LenProperties DEF RouteInv, RouteTypes, Matched
<1>4. best' = None BY <1>2 DEF PoolInv, RxPointers
<1>5. /\ server_list' \in Lists(Slot) /\ server_list'.lock_count = server_list.lock_count
      /\ server_list.lock_count > 0 => server_list'.list = server_list.list
      /\ ref_count' \in [Slot -> Int] /\ memory' \in [Slot -> {"unused", "live", "freed"}]
      /\ route_list' \in Seq(Routes) /\ OneRoutePerConnection' /\ Stays
  <2>1. CASE DeleteRouteListEntry(pos) BY <1>3, <2>1, DeleteKeeps
  <2>2. CASE /\ route_list' = [route_list EXCEPT ![pos].status = st]
             /\ UNCHANGED <<server_list, ref_count, memory>>
    <3> DEFINE x == [route_list[pos] EXCEPT !.status = st]
    <3>1. route_list[pos] \in Routes BY <1>1, <1>3, ElementOfSeq DEF RouteTypes
    <3>2. st \in {"NORMAL", "LAST_ACK", "CLOSED"} BY <3>1 DEF Routes, NextStatus
    <3>3. route_list' = [route_list EXCEPT ![pos] = x] BY <2>2
    <3> HIDE DEF st
    <3>4. x \in Routes /\ x.conn = route_list[pos].conn /\ x.server = route_list[pos].server
      BY <3>1, <3>2 DEF Routes
    <3> HIDE DEF x
    <3>5. route_list' \in Seq(Routes) /\ OneRoutePerConnection' /\ Stays
      BY <1>1, <1>3, <3>3, <3>4, ChangeKeeps DEF RouteTypes
    <3> QED BY <1>1, <2>2, <3>5 DEF PoolTypes
  <2> QED BY <2>1, <2>2 DEF Forward
<1>6. Types'
  <2>1. PoolTypes' BY <1>1, <1>2, <1>5 DEF PoolTypes
  <2>2. ThreadTypes' BY <1>1, <1>2 DEF ThreadTypes, Goto, Labels
  <2>3. RouteTypes' BY <1>1, <1>2, <1>5 DEF RouteTypes
  <2> QED BY <2>1, <2>2, <2>3 DEF Types
<1>7. PoolInv' /\ Frozen BY <1>2, <1>4, <1>5, <1>6, RxOutsideKeeps
<1>8. pc'[rx] = "idle" BY <1>1, <1>2 DEF Goto, ThreadTypes
<1> QED BY <1>5, <1>7, <1>8 DEF RouteInv, Selecting

-----------------------------------------------------------------------------
(* The theorems.                                                            *)

\* The initial states satisfy the invariant.
LEMMA Initially == Init => IInv
<1> SUFFICES ASSUME Init PROVE IInv OBVIOUS
<1> USE DEF Init
<1>1. /\ EmptyList \in Lists(Slot) /\ EmptyList.lock_count = 0 /\ <<>> \in Seq(Routes)
  <2>1. 0 \in Nat /\ <<>> \in Seq(Slot) /\ <<>> \in Seq(Routes) BY EmptySeq
  <2> QED BY <2>1 DEF EmptyList, Lists
<1>2. Types
  <2>1. PoolTypes BY <1>1 DEF PoolTypes, Infos
  <2>2. ThreadTypes BY WidthAssumption DEF ThreadTypes, Labels, Reqs, NoReq
  <2>3. RouteTypes BY <1>1 DEF RouteTypes
  <2> QED BY <2>1, <2>2, <2>3 DEF Types
<1>3. \A t \in Thread : pc[t] = "idle" /\ ~InBracket(t) /\ ~Leaks(t)
  BY DEF InBracket, Leaks
<1>4. Open = {} /\ Nested = 0 BY <1>3, ThreadCount DEF Open, Nested
<1>5. LockInv BY <1>1, <1>3, <1>4, FS_EmptySet DEF LockInv
<1>6. Pointers /\ RxPointers BY <1>3, ThreadCount DEF Pointers, RxPointers
<1>7. RouteInv
  <2>1. OneRoutePerConnection BY EmptySeq DEF OneRoutePerConnection
  <2> QED BY <1>3, <2>1, ThreadCount DEF RouteInv, Selecting
<1> QED BY <1>2, <1>5, <1>6, <1>7 DEF IInv, PoolInv

\* Every step keeps the invariant, leaves the list alone under whoever has it
\* locked, and leaves every connection at its server.
LEMMA Step == ASSUME IInv, [Next]_vars PROVE IInv' /\ Frozen /\ Stays
<1>0. Types /\ PoolInv /\ RouteInv /\ ThreadTypes /\ rx \in Thread BY ThreadCount DEF IInv, PoolInv, Types
<1>1. ASSUME PoolInv' /\ Frozen, UNCHANGED <<route_list, pkt, pos>>,
             \/ pc'[rx] = pc[rx] \/ pc'[rx] = "idle"
             \/ pc[rx] \in Selecting /\ pc'[rx] \in Selecting
      PROVE  IInv' /\ Frozen /\ Stays
  BY <1>0, <1>1, RoutesFrame DEF IInv
<1> USE DEF routeVars, rxVars, poolVars
<1>2. ASSUME NEW t \in Ctl, NEW m \in Mac, NEW i \in AddInfo, AddServer(t, m, i)
      PROVE  IInv' /\ Frozen /\ Stays
  <2> DEFINE r == [op |-> "add", mac |-> m, info |-> i]
  <2>1. t \in Thread /\ t # rx /\ r \in Reqs /\ r.op # "del" BY ThreadCount DEF Reqs
  <2>2. Lookup(t, r) /\ dels' = dels BY <1>2 DEF AddServer
  <2> HIDE DEF r
  <2>3. PoolInv' /\ Frozen BY <1>0, <2>1, <2>2, LookupKeeps
  <2>4. UNCHANGED <<route_list, pkt, pos>> /\ pc'[rx] = pc[rx]
    BY <1>0, <2>1, <2>2 DEF Lookup, Goto, ThreadTypes
  <2> QED BY <1>1, <2>3, <2>4
<1>3. ASSUME NEW t \in Ctl, NEW m \in Mac, DelServer(t, m)
      PROVE  IInv' /\ Frozen /\ Stays
  <2> DEFINE r == [op |-> "del", mac |-> m]
  <2>1. t \in Thread /\ t # rx /\ r \in Reqs /\ r.op = "del" BY ThreadCount DEF Reqs
  <2>2. Lookup(t, r) /\ dels < MaxDel /\ dels' = dels + 1 BY <1>3 DEF DelServer
  <2> HIDE DEF r
  <2>3. PoolInv' /\ Frozen BY <1>0, <2>1, <2>2, LookupKeeps
  <2>4. UNCHANGED <<route_list, pkt, pos>> /\ pc'[rx] = pc[rx]
    BY <1>0, <2>1, <2>2 DEF Lookup, Goto, ThreadTypes
  <2> QED BY <1>1, <2>3, <2>4
<1>4. ASSUME NEW m \in Mac, ReceiveChecking(m) PROVE IInv' /\ Frozen /\ Stays
  <2> DEFINE r == [op |-> "checked", mac |-> m]
  <2>1. r \in Reqs /\ r.op # "del" BY DEF Reqs
  <2>2. Lookup(rx, r) /\ dels' = dels BY <1>4 DEF ReceiveChecking
  <2> HIDE DEF r
  <2>3. PoolInv' /\ Frozen BY <1>0, <2>1, <2>2, LookupKeeps
  <2>4. OneRoutePerConnection' /\ Stays
    BY <1>0, <2>2 DEF Lookup, OneRoutePerConnection, RouteInv, Stays
  <2>5. pc'[rx] = "apply" BY <1>0, <2>2 DEF Lookup, Goto, ThreadTypes
  <2>6. RouteInv' BY <2>4, <2>5 DEF RouteInv, Selecting
  <2> QED BY <2>3, <2>4, <2>6 DEF IInv
<1>5. ASSUME NEW t \in Ctl, NEW a \in Algorithms, SetRoutingAlgorithm(t, a)
      PROVE  IInv' /\ Frozen /\ Stays
  BY <1>0, <1>1, <1>5, AlgorithmKeeps DEF SetRoutingAlgorithm
<1>6. ASSUME NEW t \in Ctl, AddNew(t) \/ AddExisting(t) \/ DelApply(t)
      PROVE  IInv' /\ Frozen /\ Stays
  <2>1. PoolInv' /\ Frozen BY <1>0, <1>6, AddNewKeeps, SettingKeeps, DelApplyKeeps
  <2>2. t # rx BY ThreadCount
  <2>3. UNCHANGED <<route_list, pkt, pos>> /\ pc'[rx] = pc[rx]
    BY <1>0, <1>6, <2>2 DEF AddNew, AddExisting, DelApply, Goto, ThreadTypes
  <2> QED BY <1>1, <2>1, <2>3
<1>7. ASSUME NEW t \in Ctl \cup {rx}, Unlock(t) PROVE IInv' /\ Frozen /\ Stays
  <2>1. t \in Thread BY ThreadCount
  <2>2. /\ pc[t] = "unlock" /\ UnlockServerList(server_list) /\ Goto(t, "idle")
        /\ found' = [found EXCEPT ![t] = None] /\ req' = [req EXCEPT ![t] = NoReq]
        /\ UNCHANGED <<info, ref_count, spin, routeVars, rxVars, drops, dels>>
    BY <1>7 DEF Unlock
  <2>3. PoolInv' /\ Frozen BY <1>0, <2>1, <2>2, UnlockKeeps
  <2>4. UNCHANGED <<route_list, pkt, pos>> /\ (pc'[rx] = pc[rx] \/ pc'[rx] = "idle")
    BY <1>0, <2>1, <2>2 DEF Goto, ThreadTypes
  <2> QED BY <1>1, <2>3, <2>4
<1>8. CASE CheckedApply
  <2>1. PoolInv' /\ Frozen BY <1>0, <1>8, SettingKeeps
  <2>2. OneRoutePerConnection' /\ Stays
    BY <1>0, <1>8 DEF CheckedApply, OneRoutePerConnection, RouteInv, Stays
  <2>3. pc'[rx] = "unlock" BY <1>0, <1>8 DEF CheckedApply, Goto, ThreadTypes
  <2>4. RouteInv' BY <2>2, <2>3 DEF RouteInv, Selecting
  <2> QED BY <2>1, <2>2, <2>4 DEF IInv
<1>9. CASE WorkerStart \/ WorkerCheck
  <2>1. PoolInv' /\ Frozen BY <1>0, <1>9, WorkerStartKeeps, WorkerCheckKeeps
  <2>2. UNCHANGED <<route_list, pkt, pos>> /\ pc'[rx] = pc[rx]
    BY <1>0, <1>9, ThreadCount DEF WorkerStart, WorkerCheck, Goto, ThreadTypes
  <2> QED BY <1>1, <2>1, <2>2
<1>10. CASE WorkerEnd
  <2>1. /\ pc[wk] = "check" /\ UnlockServerList(server_list) /\ Goto(wk, "idle")
        /\ UNCHANGED <<info, ref_count, spin, routeVars, req, found, rxVars, drops, dels>>
    BY <1>10 DEF WorkerEnd
  <2>2. PoolInv' /\ Frozen BY <1>0, <2>1, ThreadCount, UnlockKeeps
  <2>3. UNCHANGED <<route_list, pkt, pos>> /\ pc'[rx] = pc[rx]
    BY <1>0, <2>1, ThreadCount DEF Goto, ThreadTypes
  <2> QED BY <1>1, <2>2, <2>3
<1>11. CASE VisitEnd
  <2>1. /\ pc[rx] = "visit" /\ UnlockServerList(server_list) /\ Goto(rx, "bind")
        /\ UNCHANGED <<info, ref_count, spin, routeVars, req, found, rxVars, drops, dels>>
    BY <1>11 DEF VisitEnd
  <2>2. PoolInv' /\ Frozen BY <1>0, <2>1, UnlockKeeps
  <2>3. UNCHANGED <<route_list, pkt, pos>> /\ pc[rx] \in Selecting /\ pc'[rx] \in Selecting
    BY <1>0, <2>1 DEF Goto, ThreadTypes, Selecting
  <2> QED BY <1>1, <2>2, <2>3
<1>12. CASE \/ SelectNone \/ SelectLeast \/ VisitServer
            \/ SelectFrom \/ PollEnter \/ PollServer \/ PollFallback \/ PollLeave
  <2>1. PoolInv' /\ Frozen
    BY <1>0, <1>12, SelectNoneKeeps, SelectKeeps, VisitServerKeeps, PollEnterKeeps, PollServerKeeps,
       PollFallbackKeeps, PollLeaveKeeps
  <2>2. UNCHANGED <<route_list, pkt, pos>>
    BY <1>12 DEF SelectNone, SelectLeast, VisitServer, SelectFrom, PollEnter, PollServer,
                 PollFallback, PollLeave
  <2>3. pc[rx] \in Selecting /\ pc'[rx] \in Selecting
    BY <1>0, <1>12 DEF SelectNone, SelectLeast, VisitServer, SelectFrom, PollEnter, PollServer,
                       PollFallback, PollLeave, Goto, ThreadTypes, Selecting
  <2> QED BY <1>1, <2>1, <2>2, <2>3
<1>13. CASE \/ \E c \in Conn, f \in Segments : Receive(c, f)
            \/ \E i \in DOMAIN route_list : RouteTimeout(i)
  BY <1>13, ArrivalKeeps
<1>14. CASE WalkRoute BY <1>14, WalkRouteKeeps
<1>15. CASE WalkEnd BY <1>15, WalkEndKeeps
<1>16. CASE Bind BY <1>16, BindKeeps
<1>17. CASE Forward BY <1>17, ForwardKeeps
<1>18. CASE UNCHANGED vars
  <2>1. UNCHANGED <<server_list, info, ref_count, memory, spin, route_list, routing_algorithm,
                   current_server_index, pc, req, found, pkt, pos, best, start, checking, drops, dels>>
    BY <1>18 DEF vars
  <2>2. PoolInv' /\ Frozen
    <3>1. Types' BY <1>0, <2>1 DEF Types, PoolTypes, ThreadTypes, RouteTypes
    <3>2. Open' = Open /\ Nested' = Nested /\ Linked' = Linked
      BY <2>1 DEF Open, InBracket, Leaks, Nested, Linked
    <3>3. LockInv' BY <1>0, <2>1, <3>2 DEF PoolInv, LockInv, Leaks
    <3>4. Pointers' /\ RxPointers' BY <1>0, <2>1, <3>2 DEF PoolInv, Pointers, RxPointers
    <3>5. Frozen BY <2>1 DEF Frozen
    <3> QED BY <3>1, <3>3, <3>4, <3>5 DEF PoolInv
  <2> QED BY <1>1, <2>1, <2>2
<1> QED BY <1>2, <1>3, <1>4, <1>5, <1>6, <1>7, <1>8, <1>9, <1>10, <1>11, <1>12, <1>13, <1>14, <1>15,
           <1>16, <1>17, <1>18 DEF Next

\* The invariant holds of every state of every behaviour: lock_count is the
\* brackets that will be closed and the deletions, pointers are linked, and a
\* segment's place in the route list is right.
THEOREM Inductive == Spec => []IInv
<1>1. IInv /\ [Next]_vars => IInv' BY Step
<1> QED BY <1>1, Initially, PTL DEF Spec

\* Every variable has its type.
THEOREM PoolTyped == Spec => []TypeOK
<1>1. IInv => TypeOK
  BY CountBounds DEF IInv, PoolInv, Types, PoolTypes, ThreadTypes, RouteTypes, TypeOK, Lists
<1> QED BY <1>1, Inductive, PTL

\* "After locking, the number of list entries does not change": no server is
\* linked or unlinked while some handler is between its lock and its unlock.
THEOREM ListFrozen == Spec => FrozenWhileBracketed
<1>1. IInv /\ [Next]_vars =>
        [(\E t \in Thread : InBracket(t) /\ InBracket(t)') => server_list'.list = server_list.list]_vars
  BY Step DEF Frozen
<1> QED BY <1>1, Inductive, PTL DEF Spec, FrozenWhileBracketed

\* A connection never has two routes.
THEOREM RouteUnique == Spec => []OneRoutePerConnection
<1>1. IInv => OneRoutePerConnection BY DEF IInv, RouteInv
<1> QED BY <1>1, Inductive, PTL

\* A connection stays with its server until its client starts anew.
THEOREM ConnectionStays == Spec => Affinity
<1>1. IInv /\ [Next]_vars =>
        [\A i \in DOMAIN route_list, j \in DOMAIN route_list' :
           route_list[i].conn = route_list'[j].conn /\ route_list[i].server # route_list'[j].server
             => pkt # NoReq /\ pkt.conn = route_list[i].conn /\ IsSyn]_vars
  BY Step DEF Stays
<1> QED BY <1>1, Inductive, PTL DEF Spec, Affinity
=============================================================================
