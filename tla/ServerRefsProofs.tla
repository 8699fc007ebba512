-------------------------- MODULE ServerRefsProofs --------------------------
(***************************************************************************)
(* A proof that every reference of a server is accounted for: its count is *)
(* its routes, the selection that has settled on it and the list's own     *)
(* reference, less what DEL_SERVER has given back.  And what follows of a  *)
(* deleted server where deletions are final: it only loses uses, and is    *)
(* handed to the list's removal once, when it has none.                    *)
(***************************************************************************)
EXTENDS ServerPoolProofs, FunctionTheorems

-----------------------------------------------------------------------------
(* Counting routes.                                                         *)

Same(a, b) == IF a = b THEN 1 ELSE 0

\* The places of r that hold a route to s.
At(r, s) == {i \in DOMAIN r : r[i].server = s}

\* A one-to-one renaming of a finite set keeps its size.
LEMMA SameCount ==
  ASSUME NEW S, NEW T, NEW f \in [S -> T], IsFiniteSet(S),
         \A a, b \in S : f[a] = f[b] => a = b,
         \A t \in T : \E a \in S : f[a] = t
  PROVE  Cardinality(T) = Cardinality(S)
<1>1. f \in Bijection(S, T) BY Fun_IsBij
<1>2. ExistsBijection(S, T) BY <1>1 DEF ExistsBijection
<1> QED BY <1>2, FS_Bijection

\* A list has finitely many routes to a server, and each counts.
LEMMA AtFinite ==
  ASSUME NEW r \in Seq(Routes), NEW s
  PROVE  /\ IsFiniteSet(At(r, s)) /\ Cardinality(At(r, s)) \in Nat
         /\ DOMAIN r = 1..Len(r) /\ Len(r) \in Nat
         /\ \A i \in At(r, s) : Cardinality(At(r, s)) > 0
<1>1. DOMAIN r = 1..Len(r) /\ Len(r) \in Nat BY LenProperties
<1>2. IsFiniteSet(1..Len(r)) BY <1>1, FS_Interval
<1>3. IsFiniteSet(At(r, s)) BY <1>1, <1>2, FS_Subset DEF At
<1>4. Cardinality(At(r, s)) \in Nat /\ (Cardinality(At(r, s)) = 0 <=> At(r, s) = {})
  BY <1>3, FS_CardinalityType, FS_EmptySet
<1> DEFINE n == Cardinality(At(r, s))
<1>5. n \in Nat /\ (n = 0 <=> At(r, s) = {}) BY <1>4
<1> HIDE DEF n
<1>6. \A i \in At(r, s) : n > 0 BY <1>5
<1> QED BY <1>1, <1>3, <1>4, <1>6 DEF n

\* A route changed in place moves from its old server to its new one.
LEMMA AtChange ==
  ASSUME NEW r \in Seq(Routes), NEW p \in 1..Len(r), NEW x \in Routes, NEW s,
         NEW q, q = [r EXCEPT ![p] = x]
  PROVE  Cardinality(At(q, s)) = (Cardinality(At(r, s)) - Same(r[p].server, s)) + Same(x.server, s)
<1> DEFINE A == At(r, s)
           B == At(q, s)
<1>1. /\ DOMAIN q = DOMAIN r /\ \A i \in DOMAIN r : q[i] = IF i = p THEN x ELSE r[i]
      /\ p \in DOMAIN r
  BY AtFinite, ElementOfSeq
<1>2. IsFiniteSet(A) /\ Cardinality(A) \in Nat BY AtFinite
<1>3. p \in A <=> r[p].server = s BY <1>1 DEF At
<1>4. x.server = s => B = A \cup {p} BY <1>1 DEF At
<1>5. x.server # s => B = A \ {p} BY <1>1 DEF At
<1>6. /\ Cardinality(A \cup {p}) = IF p \in A THEN Cardinality(A) ELSE Cardinality(A) + 1
      /\ Cardinality(A \ {p}) = IF p \in A THEN Cardinality(A) - 1 ELSE Cardinality(A)
  BY <1>2, FS_AddElement, FS_RemoveElement
<1> DEFINE c == Cardinality(A)
<1>7. Cardinality(B) = (c - Same(r[p].server, s)) + Same(x.server, s)
  <2>1. c \in Nat BY <1>2
  <2>2. Cardinality(B) = IF x.server = s THEN IF p \in A THEN c ELSE c + 1
                                         ELSE IF p \in A THEN c - 1 ELSE c
    BY <1>4, <1>5, <1>6
  <2> HIDE DEF A, B, c
  <2>3. CASE p \in A BY <1>3, <2>1, <2>2, <2>3 DEF Same
  <2>4. CASE p \notin A BY <1>3, <2>1, <2>2, <2>4 DEF Same
  <2> QED BY <2>3, <2>4
<1> QED BY <1>7 DEF A, B, c

\* A deleted route counts no more.
LEMMA AtDrop ==
  ASSUME NEW r \in Seq(Routes), NEW p \in 1..Len(r), NEW s
  PROVE  Cardinality(At(RemoveAt(r, p), s)) = Cardinality(At(r, s)) - Same(r[p].server, s)
<1> DEFINE q == RemoveAt(r, p)
           n == Len(r)
           A == At(r, s)
           B == At(q, s)
           o(i) == IF i < p THEN i ELSE i + 1
           f == [i \in B |-> o(i)]
<1>1. /\ q \in Seq(Routes) /\ Len(q) = n - 1
      /\ \A i \in 1..(n - 1) : q[i] = r[o(i)]
  BY RemoveAtDrops
<1>2. /\ DOMAIN r = 1..n /\ n \in Nat /\ DOMAIN q = 1..(n - 1) /\ p \in 1..n
      /\ IsFiniteSet(A) /\ Cardinality(A) \in Nat /\ IsFiniteSet(B) /\ Cardinality(B) \in Nat
  BY <1>1, AtFinite
<1> HIDE DEF q, n
<1>3. /\ \A i \in 1..(n - 1) : o(i) \in 1..n /\ o(i) # p
      /\ \A i, j \in 1..(n - 1) : o(i) = o(j) => i = j
  BY <1>2
<1>4. \A k \in (1..n) \ {p} : \E i \in 1..(n - 1) : o(i) = k
  <2> SUFFICES ASSUME NEW k \in 1..n, k # p PROVE \E i \in 1..(n - 1) : o(i) = k OBVIOUS
  <2>1. CASE k < p
    <3>1. k \in 1..(n - 1) /\ o(k) = k BY <1>2, <2>1
    <3> QED BY <3>1
  <2>2. CASE ~(k < p)
    <3>1. k - 1 \in 1..(n - 1) /\ o(k - 1) = k BY <1>2, <2>2
    <3> QED BY <3>1
  <2> QED BY <2>1, <2>2
<1> HIDE DEF o
<1>5. f \in [B -> A \ {p}] BY <1>1, <1>2, <1>3 DEF At
<1>6. \A a, b \in B : f[a] = f[b] => a = b BY <1>2, <1>3 DEF At
<1>7. ASSUME NEW k \in A \ {p} PROVE \E a \in B : f[a] = k
  <2>1. PICK i \in 1..(n - 1) : o(i) = k BY <1>2, <1>4 DEF At
  <2>2. i \in B BY <1>1, <1>2, <2>1 DEF At
  <2> QED BY <2>1, <2>2
<1> HIDE DEF f
<1>8. Cardinality(A \ {p}) = Cardinality(B)
  <2> HIDE DEF A, B
  <2> QED BY <1>2, <1>5, <1>6, <1>7, SameCount
<1>9. p \in A <=> r[p].server = s BY <1>2 DEF At
<1>10. Cardinality(A \ {p}) = IF p \in A THEN Cardinality(A) - 1 ELSE Cardinality(A)
  BY <1>2, FS_RemoveElement
<1> HIDE DEF A, B
<1>11. Cardinality(B) = Cardinality(A) - Same(r[p].server, s) BY <1>2, <1>8, <1>9, <1>10 DEF Same
<1> QED BY <1>11 DEF A, B, q

\* A new route at the head counts for its server.
LEMMA AtHead ==
  ASSUME NEW r \in Seq(Routes), NEW x \in Routes, NEW s
  PROVE  Cardinality(At(<<x>> \o r, s)) = Cardinality(At(r, s)) + Same(x.server, s)
<1> DEFINE q == <<x>> \o r
           n == Len(r)
           A == At(r, s)
           B == At(q, s)
           f == [i \in A |-> i + 1]
<1>1. /\ q \in Seq(Routes) /\ Len(q) = n + 1 /\ q[1] = x
      /\ \A i \in 1..n : q[i + 1] = r[i]
  BY HeadAdds
<1>2. /\ DOMAIN r = 1..n /\ n \in Nat /\ DOMAIN q = 1..(n + 1)
      /\ IsFiniteSet(A) /\ Cardinality(A) \in Nat /\ IsFiniteSet(B) /\ Cardinality(B) \in Nat
  BY <1>1, AtFinite
<1> HIDE DEF q, n
<1>3. f \in [A -> B \ {1}]
  <2> SUFFICES ASSUME NEW i \in A PROVE i + 1 \in B \ {1} OBVIOUS
  <2>1. i \in 1..n /\ r[i].server = s BY <1>2 DEF At
  <2>2. i + 1 \in 1..(n + 1) /\ i + 1 # 1 BY <1>2, <2>1
  <2>3. q[i + 1].server = s BY <1>1, <2>1
  <2> QED BY <1>2, <2>2, <2>3 DEF At
<1>4. \A a, b \in A : f[a] = f[b] => a = b BY <1>2 DEF At
<1>5. ASSUME NEW k \in B \ {1} PROVE \E a \in A : f[a] = k
  <2>1. k \in 1..(n + 1) /\ k # 1 /\ q[k].server = s BY <1>2 DEF At
  <2>2. k - 1 \in 1..n /\ (k - 1) + 1 = k BY <1>2, <2>1
  <2>3. q[k] = r[k - 1] BY <1>1, <2>2
  <2>4. k - 1 \in A BY <1>2, <2>1, <2>2, <2>3 DEF At
  <2> QED BY <2>2, <2>4
<1> HIDE DEF f
<1>6. Cardinality(B \ {1}) = Cardinality(A)
  <2> HIDE DEF A, B
  <2> QED BY <1>2, <1>3, <1>4, <1>5, SameCount
<1>7. 1 \in B <=> x.server = s BY <1>1, <1>2 DEF At
<1>8. Cardinality(B \ {1}) = IF 1 \in B THEN Cardinality(B) - 1 ELSE Cardinality(B)
  BY <1>2, FS_RemoveElement
<1> HIDE DEF A, B
<1>9. Cardinality(B) = Cardinality(A) + Same(x.server, s) BY <1>2, <1>6, <1>7, <1>8 DEF Same
<1> QED BY <1>9 DEF A, B, q

-----------------------------------------------------------------------------
(* The invariant.                                                           *)

\* A server that has not been allocated is nowhere; of a live one the
\* references are accounted for.
RefInv ==
  \A s \in Slot :
    /\ memory[s] = "unused" => /\ Uses(s) = 0 /\ drops[s] = 0 /\ ref_count[s] = 0
                               /\ s \notin Members(server_list)
    /\ memory[s] = "live" => ref_count[s] = (Uses(s) + 1) - drops[s]

\* Uses in terms of the places of the routes.
LEMMA UsesAt ==
  ASSUME NEW s
  PROVE  /\ Uses(s) = Cardinality(At(route_list, s)) + Same(best, s)
         /\ Uses(s)' = Cardinality(At(route_list', s)) + Same(best', s)
BY DEF Uses, RoutesTo, At, Same

\* Uses are counted.
LEMMA UsesTyped ==
  /\ Types => \A s \in Slot : Uses(s) \in Nat /\ ref_count[s] \in Int /\ drops[s] \in Nat
  /\ Types' => \A s \in Slot : Uses(s)' \in Nat /\ ref_count'[s] \in Int /\ drops'[s] \in Nat
<1>1. ASSUME Types, NEW s \in Slot
      PROVE  Uses(s) \in Nat /\ ref_count[s] \in Int /\ drops[s] \in Nat
  <2>1. Cardinality(At(route_list, s)) \in Nat BY <1>1, AtFinite DEF Types, RouteTypes
  <2>2. Same(best, s) \in Nat BY DEF Same
  <2> QED BY <1>1, <2>1, <2>2, UsesAt DEF Types, PoolTypes, ThreadTypes
<1>2. ASSUME Types', NEW s \in Slot
      PROVE  Uses(s)' \in Nat /\ ref_count'[s] \in Int /\ drops'[s] \in Nat
  <2>1. Cardinality(At(route_list', s)) \in Nat BY <1>2, AtFinite DEF Types, RouteTypes
  <2>2. Same(best', s) \in Nat BY DEF Same
  <2> QED BY <1>2, <2>1, <2>2, UsesAt DEF Types, PoolTypes, ThreadTypes
<1> QED BY <1>1, <1>2

\* What is selected, routed to or linked has been allocated.
LEMMA InUse ==
  ASSUME IInv, RefInv
  PROVE  /\ best # None => best \in Slot /\ memory[best] # "unused" /\ Uses(best) > 0
         /\ \A p \in 1..Len(route_list) :
              /\ route_list[p].server \in Slot /\ memory[route_list[p].server] # "unused"
              /\ Uses(route_list[p].server) > 0
         /\ \A s \in Linked : s \in Slot /\ memory[s] # "unused"
<1>1. Types /\ RouteTypes /\ PoolTypes BY DEF IInv, PoolInv, Types
<1>2. ASSUME best # None PROVE best \in Slot /\ memory[best] # "unused" /\ Uses(best) > 0
  <2>1. best \in Slot BY <1>1, <1>2 DEF RouteTypes
  <2>2. Cardinality(At(route_list, best)) \in Nat BY <1>1, AtFinite DEF RouteTypes
  <2>3. Uses(best) > 0 BY <2>2, UsesAt DEF Same
  <2> QED BY <2>1, <2>3 DEF RefInv
<1>3. ASSUME NEW p \in 1..Len(route_list)
      PROVE  /\ route_list[p].server \in Slot /\ memory[route_list[p].server] # "unused"
             /\ Uses(route_list[p].server) > 0
  <2> DEFINE s == route_list[p].server
             n == Cardinality(At(route_list, s))
  <2>1. s \in Slot
    <3>1. route_list[p] \in Routes BY <1>1, ElementOfSeq DEF RouteTypes
    <3> QED BY <3>1 DEF Routes
  <2>2. n \in Nat /\ n > 0
    <3>1. p \in At(route_list, s) BY <1>1, AtFinite DEF RouteTypes, At
    <3> QED BY <1>1, <3>1, AtFinite DEF RouteTypes
  <2>3. Uses(s) = n + Same(best, s) BY UsesAt
  <2> HIDE DEF s, n
  <2>4. Uses(s) > 0 BY <2>2, <2>3 DEF Same
  <2> QED BY <2>1, <2>4 DEF RefInv, s
<1>4. \A s \in Linked : s \in Slot /\ memory[s] # "unused"
  <2>1. Linked \subseteq Slot /\ Linked \subseteq Members(server_list)
    BY <1>1, Links DEF Linked, Members
  <2> QED BY <2>1 DEF RefInv
<1> QED BY <1>2, <1>3, <1>4

\* A step that takes and gives back no reference.
LEMMA QuietRefs ==
  ASSUME RefInv, IInv, OnlyFreed, Members(server_list') \subseteq Members(server_list),
         UNCHANGED <<ref_count, drops>>, \A s \in Slot : Uses(s)' = Uses(s)
  PROVE  RefInv'
<1> SUFFICES ASSUME NEW s \in Slot
             PROVE  /\ memory'[s] = "unused" =>
                         /\ Uses(s)' = 0 /\ drops'[s] = 0 /\ ref_count'[s] = 0
                         /\ s \notin Members(server_list')
                    /\ memory'[s] = "live" => ref_count'[s] = (Uses(s)' + 1) - drops'[s]
  BY DEF RefInv
<1>1. memory'[s] = memory[s] \/ memory'[s] = "freed" BY DEF OnlyFreed
<1> QED BY <1>1 DEF RefInv

\* A step that takes and gives back references as its uses change.
LEMMA RereferredRefs ==
  ASSUME RefInv, IInv, Types', NEW down \in OrNone(Slot), NEW up \in OrNone(Slot), Rerefer(down, up),
         down # None => memory[down] # "unused", up # None => memory[up] # "unused",
         \A s \in Slot : Uses(s)' - drops'[s] = ((Uses(s) - drops[s]) - Same(s, down)) + Same(s, up),
         \A s \in Slot : s # down /\ s # up => Uses(s)' = Uses(s) /\ drops'[s] = drops[s]
  PROVE  RefInv'
<1> SUFFICES ASSUME NEW s \in Slot
             PROVE  /\ memory'[s] = "unused" =>
                         /\ Uses(s)' = 0 /\ drops'[s] = 0 /\ ref_count'[s] = 0
                         /\ s \notin Members(server_list')
                    /\ memory'[s] = "live" => ref_count'[s] = (Uses(s)' + 1) - drops'[s]
  BY DEF RefInv
<1>0. Types BY DEF IInv, PoolInv
<1>1. /\ Members(server_list') \subseteq Members(server_list)
      /\ ref_count'[s] = (ref_count[s] - Same(s, down)) + Same(s, up)
      /\ memory'[s] = memory[s] \/ memory'[s] = "freed"
  BY <1>0, RereferEffect DEF Same, OnlyFreed
<1>2. None \notin Slot BY ThreadAssumption
<1>3. /\ Uses(s) \in Nat /\ Uses(s)' \in Nat /\ ref_count[s] \in Int
      /\ drops[s] \in Nat /\ drops'[s] \in Nat
  BY <1>0, UsesTyped
<1>4. ASSUME memory'[s] = "unused"
      PROVE  /\ Uses(s)' = 0 /\ drops'[s] = 0 /\ ref_count'[s] = 0
             /\ s \notin Members(server_list')
  <2>1. memory[s] = "unused" BY <1>1, <1>4
  <2>2. s # down /\ s # up BY <1>2, <2>1
  <2> QED BY <1>1, <2>1, <2>2 DEF RefInv
<1>5. ASSUME memory'[s] = "live" PROVE ref_count'[s] = (Uses(s)' + 1) - drops'[s]
  <2>1. memory[s] = "live" BY <1>1, <1>5
  <2>2. ref_count[s] = (Uses(s) + 1) - drops[s] BY <2>1 DEF RefInv
  <2>3. Uses(s)' - drops'[s] = ((Uses(s) - drops[s]) - Same(s, down)) + Same(s, up) OBVIOUS
  <2>4. Same(s, down) \in Nat /\ Same(s, up) \in Nat BY DEF Same
  <2> DEFINE u == Uses(s)
             v == Uses(s)'
  <2>5. u \in Nat /\ v \in Nat BY <1>3
  <2> HIDE DEF u, v
  <2>6. ref_count'[s] = (v + 1) - drops'[s] BY <1>1, <1>3, <2>2, <2>3, <2>4, <2>5 DEF u, v
  <2> QED BY <2>6 DEF v
<1> QED BY <1>4, <1>5

-----------------------------------------------------------------------------
(* The steps.                                                               *)

\* Locking, unlocking or leaving alone the list hands out nothing new.
LEMMA ListRefs ==
  ASSUME IInv, \/ UNCHANGED <<server_list, memory>>
               \/ server_list' = Locked(server_list, LockMod) /\ memory' = memory
               \/ (\E t \in Thread : InBracket(t)) /\ UnlockServerList(server_list)
               \/ SelectNone
  PROVE  OnlyFreed /\ Members(server_list') \subseteq Members(server_list)
<1>0. Types /\ PoolTypes /\ LockInv BY DEF IInv, PoolInv, Types
<1>1. CASE UNCHANGED <<server_list, memory>> BY <1>0, <1>1 DEF OnlyFreed, PoolTypes
<1>2. CASE server_list' = Locked(server_list, LockMod) /\ memory' = memory
  <2>1. server_list'.list = server_list.list /\ server_list'.to_be_add = server_list.to_be_add
    BY <1>0, <1>2 DEF Locked, PoolTypes, Lists
  <2> QED BY <1>0, <1>2, <2>1 DEF OnlyFreed, PoolTypes, Members
<1>3. CASE (\E t \in Thread : InBracket(t)) /\ UnlockServerList(server_list)
  <2>1. server_list.lock_count > 0 /\ server_list.lock_count < LockMod
    BY <1>0, <1>3, CountBounds, WidthAssumption
  <2> QED BY <1>0, <1>3, <2>1, UnlockEffect
<1>4. CASE SelectNone
  <2>1. pc[rx] = "select" /\ UnlockServerList(Locked(server_list, LockMod)) BY <1>4 DEF SelectNone
  <2>2. rx \notin Open BY <2>1 DEF Open, InBracket
  <2>3. server_list.lock_count + 1 < LockMod BY <1>0, <2>2, CountBounds, ThreadCount
  <2> QED BY <1>0, <2>1, <2>3, PassEffect
<1> QED BY <1>1, <1>2, <1>3, <1>4

\* No route and no selection changes.
LEMMA SameUses ==
  ASSUME UNCHANGED <<route_list, best>> PROVE \A s \in Slot : Uses(s)' = Uses(s)
BY DEF Uses, RoutesTo

\* A new server: its only reference is the list's.
LEMMA AddNewRefs ==
  ASSUME IInv, RefInv, NEW t \in Ctl, AddNew(t)
  PROVE  RefInv'
<1>1. PICK n \in Slot :
        /\ memory[n] = "unused" /\ memory' = [memory EXCEPT ![n] = "live"]
        /\ ref_count' = [ref_count EXCEPT ![n] = 1]
        /\ server_list' = WithEntry(server_list, n)
  BY DEF AddNew
<1>2. PoolTypes BY DEF IInv, PoolInv, Types
<1>3. Members(server_list') = Members(server_list) \cup {n} BY <1>1, <1>2, WithEntryAdds DEF PoolTypes
<1>4. UNCHANGED <<route_list, best, drops>> BY DEF AddNew, routeVars, rxVars
<1>5. \A s \in Slot : Uses(s)' = Uses(s) BY <1>4, SameUses
<1> SUFFICES ASSUME NEW s \in Slot
             PROVE  /\ memory'[s] = "unused" =>
                         /\ Uses(s)' = 0 /\ drops'[s] = 0 /\ ref_count'[s] = 0
                         /\ s \notin Members(server_list')
                    /\ memory'[s] = "live" => ref_count'[s] = (Uses(s)' + 1) - drops'[s]
  BY DEF RefInv
<1>6. CASE s = n
  <2>1. Uses(s) = 0 /\ drops[s] = 0 BY <1>1, <1>6 DEF RefInv
  <2>2. memory'[s] = "live" /\ ref_count'[s] = 1 BY <1>1, <1>2, <1>6 DEF PoolTypes
  <2> QED BY <1>4, <1>5, <2>1, <2>2
<1>7. CASE s # n
  <2>1. memory'[s] = memory[s] /\ ref_count'[s] = ref_count[s] BY <1>1, <1>2, <1>7 DEF PoolTypes
  <2> QED BY <1>3, <1>4, <1>5, <1>7, <2>1 DEF RefInv
<1> QED BY <1>6, <1>7

\* DEL_SERVER gives the list's reference back.
LEMMA DelApplyRefs ==
  ASSUME IInv, RefInv, Types', NEW t \in Ctl, DelApply(t)
  PROVE  RefInv'
<1> DEFINE x == found[t]
<1>0. t \in Thread /\ ThreadTypes BY ThreadCount DEF IInv, PoolInv, Types
<1>1. UNCHANGED <<route_list, best>> BY DEF DelApply, routeVars, rxVars
<1>2. \A s \in Slot : Uses(s)' = Uses(s) BY <1>1, SameUses
<1>3. CASE UNCHANGED <<info, drops, ref_count, server_list, memory>>
  BY <1>2, <1>3, ListRefs, QuietRefs
<1>4. CASE x # None /\ drops' = [drops EXCEPT ![x] = drops[x] + 1] /\ Rerefer(x, None)
  <2>1. x \in Linked BY <1>0, <1>4 DEF DelApply, IInv, PoolInv, Pointers, OrNone
  <2>2. x \in Slot /\ memory[x] # "unused" BY <2>1, InUse
  <2>3. x \in OrNone(Slot) /\ None \in OrNone(Slot) /\ None \notin Slot
    BY <2>2, ThreadAssumption DEF OrNone
  <2>4. ASSUME NEW s \in Slot
        PROVE  /\ Uses(s)' - drops'[s] = ((Uses(s) - drops[s]) - Same(s, x)) + Same(s, None)
               /\ s # x /\ s # None => Uses(s)' = Uses(s) /\ drops'[s] = drops[s]
    <3> DEFINE u == Uses(s)
    <3>1. u \in Nat /\ drops[s] \in Nat
      <4>1. Types BY DEF IInv, PoolInv
      <4> QED BY <4>1, UsesTyped
    <3>2. drops'[s] = drops[s] + Same(s, x) /\ Same(s, None) = 0 /\ Same(s, x) \in Nat
          /\ (s # x => drops'[s] = drops[s])
      BY <1>0, <1>4, <2>2, <2>3 DEF ThreadTypes, Same
    <3>3. Uses(s)' = u BY <1>2
    <3> HIDE DEF u, x
    <3>4. u - drops'[s] = ((u - drops[s]) - Same(s, x)) + Same(s, None) BY <3>1, <3>2
    <3> QED BY <3>2, <3>3, <3>4 DEF u
  <2> HIDE DEF x
  <2> QED BY <1>4, <2>2, <2>3, <2>4, RereferredRefs
<1> QED BY <1>3, <1>4 DEF DelApply

\* A selection settles on a server: the reference of the one before is given back.
LEMMA SettleRefs ==
  ASSUME IInv, RefInv, Types', UNCHANGED <<route_list, drops>>, NEW x \in OrNone(Linked),
         Rerefer(best, x), best' = x
  PROVE  RefInv'
<1>1. best # None => best \in Slot /\ memory[best] # "unused" BY InUse
<1>2. x # None => x \in Slot /\ memory[x] # "unused" BY InUse DEF OrNone
<1>3. best \in OrNone(Slot) /\ x \in OrNone(Slot) BY <1>1, <1>2 DEF OrNone
<1>4. ASSUME NEW s \in Slot
      PROVE  /\ Uses(s)' - drops'[s] = ((Uses(s) - drops[s]) - Same(s, best)) + Same(s, x)
             /\ s # best /\ s # x => Uses(s)' = Uses(s) /\ drops'[s] = drops[s]
  <2> DEFINE c == Cardinality(At(route_list, s))
  <2>1. Types BY DEF IInv, PoolInv
  <2>2. c \in Nat /\ drops[s] \in Nat
    BY <2>1, AtFinite, UsesTyped DEF Types, RouteTypes
  <2>3. Uses(s) = c + Same(s, best) /\ Uses(s)' = c + Same(s, x) BY UsesAt DEF Same
  <2>4. Same(s, best) \in Nat /\ Same(s, x) \in Nat BY DEF Same
  <2> HIDE DEF c
  <2>5. (c + Same(s, x)) - drops[s] = (((c + Same(s, best)) - drops[s]) - Same(s, best)) + Same(s, x)
    BY <2>2, <2>4
  <2>6. s # best /\ s # x => Same(s, best) = Same(s, x) BY DEF Same
  <2> QED BY <2>3, <2>5, <2>6
<1> QED BY <1>1, <1>2, <1>3, <1>4, RereferredRefs

\* A route is deleted and its reference given back.
LEMMA DeleteRefs ==
  ASSUME IInv, RefInv, Types', UNCHANGED <<best, drops>>, NEW p \in 1..Len(route_list),
         DeleteRouteListEntry(p)
  PROVE  RefInv'
<1> DEFINE x == route_list[p].server
<1>1. Rerefer(x, None) /\ route_list' = RemoveAt(route_list, p) BY DEF DeleteRouteListEntry
<1>2. x \in Slot /\ memory[x] # "unused" BY InUse
<1>3. x \in OrNone(Slot) /\ None \in OrNone(Slot) /\ None \notin Slot
  BY <1>2, ThreadAssumption DEF OrNone
<1>4. ASSUME NEW s \in Slot
      PROVE  /\ Uses(s)' - drops'[s] = ((Uses(s) - drops[s]) - Same(s, x)) + Same(s, None)
             /\ s # x /\ s # None => Uses(s)' = Uses(s) /\ drops'[s] = drops[s]
  <2> DEFINE c == Cardinality(At(route_list, s))
             d == Cardinality(At(route_list', s))
             b == Same(best, s)
             e == Same(s, x)
  <2>1. Types BY DEF IInv, PoolInv
  <2>2. c \in Nat /\ drops[s] \in Nat BY <2>1, AtFinite, UsesTyped DEF Types, RouteTypes
  <2>3. Uses(s) = c + b /\ Uses(s)' = d + b BY UsesAt
  <2>4. d = c - e
    <3>1. d = c - Same(x, s) BY <1>1, <2>1, AtDrop DEF Types, RouteTypes
    <3> QED BY <3>1 DEF Same
  <2>5. b \in Nat /\ e \in Nat /\ (s # x => e = 0) /\ Same(s, None) = 0 BY <1>3 DEF Same
  <2> HIDE DEF c, d, b, e
  <2>6. (d + b) - drops[s] = ((c + b) - drops[s]) - e /\ (s # x => d = c) BY <2>2, <2>4, <2>5
  <2>7. ((c + b) - drops[s]) - e \in Int BY <2>2, <2>5
  <2>8. (((c + b) - drops[s]) - e) + 0 = ((c + b) - drops[s]) - e BY <2>7
  <2> QED BY <2>3, <2>5, <2>6, <2>8 DEF e
<1> HIDE DEF x
<1> QED BY <1>1, <1>2, <1>3, <1>4, RereferredRefs

\* A route is changed in place, its server staying the same.
LEMMA SameServerRefs ==
  ASSUME IInv, RefInv, NEW p \in 1..Len(route_list), NEW x \in Routes,
         x.server = route_list[p].server, route_list' = [route_list EXCEPT ![p] = x],
         UNCHANGED <<server_list, memory, ref_count, best, drops>>
  PROVE  RefInv'
<1>1. ASSUME NEW s \in Slot PROVE Uses(s)' = Uses(s)
  <2> DEFINE c == Cardinality(At(route_list, s))
             d == Cardinality(At(route_list', s))
             e == Same(x.server, s)
  <2>1. route_list \in Seq(Routes) BY DEF IInv, PoolInv, Types, RouteTypes
  <2>2. c \in Nat /\ e \in Nat BY <2>1, AtFinite DEF Same
  <2>3. d = (c - e) + e
    <3>1. Cardinality(At(route_list', s)) =
            (Cardinality(At(route_list, s)) - Same(route_list[p].server, s)) + Same(x.server, s)
      <4> HIDE DEF c, d, e
      <4>1. \A q : q = [route_list EXCEPT ![p] = x] =>
              Cardinality(At(q, s)) =
                (Cardinality(At(route_list, s)) - Same(route_list[p].server, s)) + Same(x.server, s)
        BY <2>1, AtChange, Zenon
      <4> QED BY <4>1, Zenon
    <3> QED BY <3>1
  <2>4. Uses(s) = c + Same(best, s) /\ Uses(s)' = d + Same(best, s) BY UsesAt
  <2> HIDE DEF c, d, e
  <2>5. d = c BY <2>2, <2>3
  <2> QED BY <2>4, <2>5
<1> QED BY <1>1, ListRefs, QuietRefs

\* The selection's reference becomes the route's, and a replaced one is given back.
LEMMA BindRefs ==
  ASSUME IInv, RefInv, Types', Bind
  PROVE  RefInv'
<1>0. Types /\ RouteTypes BY DEF IInv, PoolInv, Types
<1>1. UNCHANGED drops /\ best' = None BY DEF Bind
<1>2. None \notin Slot /\ None \in OrNone(Slot) BY ThreadAssumption DEF OrNone
<1>3. \A s \in Slot : Same(best', s) = 0 BY <1>1, <1>2 DEF Same
<1>4. CASE best = None /\ UNCHANGED <<route_list, server_list, ref_count, memory>>
  <2>1. \A s \in Slot : Uses(s)' = Uses(s) BY <1>1, <1>4, SameUses
  <2> QED BY <1>1, <1>4, <2>1, ListRefs, QuietRefs
<1>5. CASE /\ best # None /\ ~Matched
           /\ route_list' = <<[conn |-> pkt.conn, status |-> "NORMAL", server |-> best,
                               stale |-> FALSE]>> \o route_list
           /\ UNCHANGED <<server_list, ref_count, memory>>
  <2> DEFINE x == [conn |-> pkt.conn, status |-> "NORMAL", server |-> best, stale |-> FALSE]
  <2>1. x \in Routes /\ x.server = best
    <3>1. pkt \in Pkts BY DEF Bind, IInv, RouteInv, Selecting
    <3> QED BY <1>0, <1>5, <3>1 DEF Routes, RouteTypes, Pkts
  <2>2. route_list' = <<x>> \o route_list BY <1>5
  <2> HIDE DEF x
  <2>3. ASSUME NEW s \in Slot PROVE Uses(s)' = Uses(s)
    <3> DEFINE c == Cardinality(At(route_list, s))
               d == Cardinality(At(route_list', s))
               b == Same(best, s)
    <3>1. c \in Nat /\ b \in Nat BY <1>0, AtFinite DEF RouteTypes, Same
    <3>2. d = c + b BY <1>0, <2>1, <2>2, AtHead DEF RouteTypes
    <3>3. Uses(s) = c + b /\ Uses(s)' = d + 0 BY <1>3, UsesAt
    <3> HIDE DEF c, d, b
    <3> QED BY <3>1, <3>2, <3>3
  <2> QED BY <1>1, <1>5, <2>3, ListRefs, QuietRefs
<1>6. CASE /\ best # None /\ Matched
           /\ Rerefer(route_list[pos].server, None)
           /\ route_list' = [route_list EXCEPT ![pos].server = best, ![pos].status = "NORMAL"]
  <2> DEFINE old == route_list[pos].server
             x == [route_list[pos] EXCEPT !.server = best, !.status = "NORMAL"]
  <2>1. pos \in 1..Len(route_list)
    <3>1. pos \in 1..(Len(route_list) + 1) BY DEF Bind, IInv, RouteInv, Selecting
    <3> QED BY <1>0, <1>6, <3>1, LenProperties DEF Matched, RouteTypes
  <2>2. x \in Routes /\ x.server = best /\ route_list' = [route_list EXCEPT ![pos] = x]
    <3>1. route_list[pos] \in Routes BY <1>0, <2>1, ElementOfSeq DEF RouteTypes
    <3> QED BY <1>0, <1>6, <2>1, <3>1 DEF Routes, RouteTypes
  <2>3. old \in Slot /\ memory[old] # "unused" /\ old \in OrNone(Slot) BY <2>1, InUse DEF OrNone
  <2> HIDE DEF x
  <2>4. ASSUME NEW s \in Slot
        PROVE  /\ Uses(s)' - drops'[s] = ((Uses(s) - drops[s]) - Same(s, old)) + Same(s, None)
               /\ s # old /\ s # None => Uses(s)' = Uses(s) /\ drops'[s] = drops[s]
    <3> DEFINE c == Cardinality(At(route_list, s))
               d == Cardinality(At(route_list', s))
               b == Same(best, s)
               e == Same(s, old)
    <3>1. c \in Nat /\ b \in Nat /\ e \in Nat /\ drops[s] \in Nat /\ Same(s, None) = 0
          /\ (s # old => e = 0)
      BY <1>0, <1>2, AtFinite, UsesTyped DEF RouteTypes, Same
    <3>2. d = (c - e) + b
      <4>1. Cardinality(At(route_list', s)) =
              (Cardinality(At(route_list, s)) - Same(route_list[pos].server, s)) + Same(x.server, s)
        BY <1>0, <2>1, <2>2, AtChange DEF RouteTypes
      <4>2. d = (c - Same(old, s)) + b BY <2>2, <4>1
      <4> QED BY <4>2 DEF Same
    <3>3. Uses(s) = c + b /\ Uses(s)' = d + 0 BY <1>3, UsesAt
    <3> HIDE DEF c, d, b, e
    <3>4. (d + 0) - drops[s] = (((c + b) - drops[s]) - e) + 0 /\ (s # old => d + 0 = c + b)
      BY <3>1, <3>2
    <3> QED BY <1>1, <3>1, <3>3, <3>4 DEF e
  <2>5. Rerefer(old, None) BY <1>6
  <2> HIDE DEF old
  <2> QED BY <1>2, <2>3, <2>4, <2>5, RereferredRefs
<1> QED BY <1>4, <1>5, <1>6 DEF Bind

\* Every step keeps the account.
LEMMA RefStep == ASSUME IInv, RefInv, [Next]_vars, IInv' PROVE RefInv'
<1>0. Types /\ Types' /\ ThreadTypes /\ RouteTypes /\ rx \in Thread /\ wk \in Thread /\ Ctl \subseteq Thread
  BY ThreadCount DEF IInv, PoolInv, Types
<1>1. ASSUME UNCHANGED <<route_list, best, ref_count, drops>>,
             \/ UNCHANGED <<server_list, memory>>
             \/ server_list' = Locked(server_list, LockMod) /\ memory' = memory
             \/ (\E t \in Thread : InBracket(t)) /\ UnlockServerList(server_list)
             \/ SelectNone
      PROVE  RefInv'
  <2>1. OnlyFreed /\ Members(server_list') \subseteq Members(server_list) BY <1>1, ListRefs
  <2>2. \A s \in Slot : Uses(s)' = Uses(s) BY <1>1, SameUses
  <2> QED BY <1>1, <2>1, <2>2, QuietRefs
<1> USE DEF routeVars, rxVars, poolVars
<1>2. ASSUME NEW t \in Thread, NEW r, Lookup(t, r) PROVE RefInv'
  BY <1>1, <1>2 DEF Lookup
<1>3. ASSUME NEW t \in Ctl, \/ \E m \in Mac, i \in AddInfo : AddServer(t, m, i)
                           \/ \E m \in Mac : DelServer(t, m)
      PROVE  RefInv'
  BY <1>0, <1>2, <1>3 DEF AddServer, DelServer
<1>4. CASE \E m \in Mac : ReceiveChecking(m) BY <1>0, <1>2, <1>4 DEF ReceiveChecking
<1>5. ASSUME NEW t \in Ctl, (\E a \in Algorithms : SetRoutingAlgorithm(t, a)) \/ AddExisting(t)
      PROVE  RefInv'
  BY <1>1, <1>5 DEF SetRoutingAlgorithm, AddExisting
<1>6. ASSUME NEW t \in Ctl, AddNew(t) \/ DelApply(t) PROVE RefInv'
  BY <1>0, <1>6, AddNewRefs, DelApplyRefs
<1>7. ASSUME NEW t \in Ctl \cup {rx}, Unlock(t) PROVE RefInv'
  <2>1. t \in Thread /\ InBracket(t) BY <1>0, <1>7 DEF Unlock, InBracket
  <2> QED BY <1>1, <1>7, <2>1 DEF Unlock
<1>8. CASE CheckedApply \/ WorkerCheck BY <1>1, <1>8 DEF CheckedApply, WorkerCheck
<1>9. CASE WorkerStart \/ SelectLeast \/ SelectFrom \/ PollEnter
  BY <1>1, <1>9 DEF WorkerStart, SelectLeast, SelectFrom, PollEnter
<1>10. CASE WorkerEnd
  <2>1. InBracket(wk) BY <1>10 DEF WorkerEnd, InBracket
  <2> QED BY <1>0, <1>1, <1>10, <2>1 DEF WorkerEnd
<1>11. CASE VisitEnd \/ PollLeave
  <2>1. InBracket(rx) BY <1>11 DEF VisitEnd, PollLeave, InBracket
  <2> QED BY <1>0, <1>1, <1>11, <2>1 DEF VisitEnd, PollLeave
<1>12. CASE SelectNone BY <1>1, <1>12 DEF SelectNone
<1>13. CASE (\E c \in Conn, f \in Segments : Receive(c, f)) \/ WalkEnd
  BY <1>1, <1>13 DEF Receive, WalkEnd
<1>14. ASSUME NEW p \in 1..Len(route_list), NEW x \in Routes, x.server = route_list[p].server,
              route_list' = [route_list EXCEPT ![p] = x],
              UNCHANGED <<server_list, memory, ref_count, best, drops>>
       PROVE  RefInv'
  BY <1>14, SameServerRefs
<1>15. ASSUME NEW i \in DOMAIN route_list, RouteTimeout(i) PROVE RefInv'
  <2> DEFINE x == [route_list[i] EXCEPT !.stale = TRUE]
  <2>1. i \in 1..Len(route_list) BY <1>0, LenProperties DEF RouteTypes
  <2>2. route_list[i] \in Routes BY <1>0, <2>1, ElementOfSeq DEF RouteTypes
  <2>3. x \in Routes /\ x.server = route_list[i].server BY <2>2 DEF Routes
  <2>4. /\ route_list' = [route_list EXCEPT ![i] = x]
        /\ UNCHANGED <<server_list, memory, ref_count, best, drops>>
    BY <1>15 DEF RouteTimeout
  <2> HIDE DEF x
  <2> QED BY <1>14, <2>1, <2>3, <2>4
<1>16. CASE WalkRoute
  <2>0. UNCHANGED <<best, drops>> /\ pos \in 1..Len(route_list)
    <3>1. pos \in 1..(Len(route_list) + 1) /\ pos <= Len(route_list)
      BY <1>16 DEF WalkRoute, IInv, RouteInv
    <3> QED BY <1>0, <1>16, <3>1, LenProperties DEF WalkRoute, RouteTypes
  <2>1. CASE /\ route_list' = [route_list EXCEPT ![pos].stale = FALSE]
             /\ UNCHANGED <<server_list, ref_count, memory>>
    <3> DEFINE x == [route_list[pos] EXCEPT !.stale = FALSE]
    <3>1. route_list[pos] \in Routes BY <1>0, <2>0, ElementOfSeq DEF RouteTypes
    <3>2. x \in Routes /\ x.server = route_list[pos].server BY <3>1 DEF Routes
    <3>3. route_list' = [route_list EXCEPT ![pos] = x] BY <2>1
    <3> HIDE DEF x
    <3> QED BY <1>14, <2>0, <2>1, <3>2, <3>3
  <2>2. CASE DeleteRouteListEntry(pos) BY <1>0, <2>0, <2>2, DeleteRefs
  <2>3. CASE UNCHANGED <<server_list, ref_count, memory, route_list>> BY <1>1, <2>0, <2>3
  <2> QED BY <1>16, <2>1, <2>2, <2>3 DEF WalkRoute
<1>17. CASE VisitServer
  <2>1. CASE Rerefer(best, found[rx]) /\ best' = found[rx]
    <3>1. found[rx] \in OrNone(Linked) BY <1>0, <1>17 DEF VisitServer, IInv, PoolInv, Pointers
    <3> QED BY <1>0, <1>17, <2>1, <3>1, SettleRefs DEF VisitServer
  <2>2. CASE UNCHANGED <<server_list, ref_count, memory, best>>
    BY <1>1, <1>17, <2>2 DEF VisitServer
  <2> QED BY <1>17, <2>1, <2>2 DEF VisitServer
<1>18. CASE PollServer
  <2>1. best = None /\ found[rx] \in OrNone(Linked) BY <1>18 DEF PollServer, IInv, PoolInv, RxPointers, OrNone
  <2>2. CASE Rerefer(None, found[rx]) /\ best' = found[rx]
    <3>1. Rerefer(best, found[rx]) BY <2>1, <2>2
    <3> QED BY <1>0, <1>18, <2>1, <2>2, <3>1, SettleRefs DEF PollServer
  <2>3. CASE UNCHANGED <<server_list, ref_count, memory, best>>
    BY <1>1, <1>18, <2>3 DEF PollServer
  <2> QED BY <1>18, <2>2, <2>3 DEF PollServer
<1>19. CASE PollFallback
  <2>1. /\ best = None /\ checking \in OrNone(Linked)
        /\ Rerefer(None, checking) /\ best' = checking /\ UNCHANGED <<route_list, drops>>
    BY <1>19 DEF PollFallback, IInv, PoolInv, RxPointers, OrNone
  <2>2. Rerefer(best, checking) BY <2>1
  <2> QED BY <1>0, <2>1, <2>2, SettleRefs
<1>20. CASE Bind BY <1>0, <1>20, BindRefs
<1>21. CASE Forward
  <2> DEFINE st == NextStatus(route_list[pos].status)
  <2>0. UNCHANGED <<best, drops>> /\ pos \in 1..Len(route_list)
    <3>1. pos \in 1..(Len(route_list) + 1) /\ pos <= Len(route_list)
      BY <1>21 DEF Forward, IInv, RouteInv, Matched
    <3> QED BY <1>0, <1>21, <3>1, LenProperties DEF Forward, RouteTypes
  <2>1. CASE /\ route_list' = [route_list EXCEPT ![pos].status = st] /\ st # "CLOSED"
             /\ UNCHANGED <<server_list, ref_count, memory>>
    <3> DEFINE x == [route_list[pos] EXCEPT !.status = st]
    <3>1. route_list[pos] \in Routes BY <1>0, <2>0, ElementOfSeq DEF RouteTypes
    <3>2. st \in {"NORMAL", "LAST_ACK", "CLOSED"} BY <3>1 DEF Routes, NextStatus
    <3>3. route_list' = [route_list EXCEPT ![pos] = x] BY <2>1
    <3> HIDE DEF st
    <3>4. x \in Routes /\ x.server = route_list[pos].server BY <3>1, <3>2 DEF Routes
    <3> HIDE DEF x
    <3> QED BY <1>14, <2>0, <2>1, <3>3, <3>4
  <2>2. CASE DeleteRouteListEntry(pos) BY <1>0, <2>0, <2>2, DeleteRefs
  <2> QED BY <1>21, <2>1, <2>2 DEF Forward
<1>22. CASE UNCHANGED vars BY <1>1, <1>22 DEF vars
<1> QED BY <1>3, <1>4, <1>5, <1>6, <1>7, <1>8, <1>9, <1>10, <1>11, <1>12, <1>13, <1>15, <1>16,
           <1>17, <1>18, <1>19, <1>20, <1>21, <1>22 DEF Next

\* At the start no server has been allocated.
LEMMA RefBegins == ASSUME Init PROVE RefInv
<1> SUFFICES ASSUME NEW s \in Slot
             PROVE  /\ memory[s] = "unused" /\ Uses(s) = 0 /\ drops[s] = 0
                    /\ ref_count[s] = 0 /\ s \notin Members(server_list)
  BY DEF RefInv
<1>1. At(route_list, s) = {} BY EmptySeq DEF Init, At
<1>2. Same(best, s) = 0 BY ThreadAssumption DEF Init, Same
<1>3. Uses(s) = 0 BY <1>1, <1>2, UsesAt, FS_EmptySet
<1>4. s \notin Members(server_list) BY DEF Init, EmptyList, Members, ToSet
<1> QED BY <1>3, <1>4 DEF Init

\* The references of every live server are accounted for, in every state:
\* re-selections, expired and closed routes, replaced candidates and the
\* nested poll give back exactly what they took.
THEOREM ReferencesAccounted == Spec => []RefAccounting
<1>1. Init => RefInv BY RefBegins
<1>2. IInv /\ RefInv /\ [Next]_vars /\ IInv' => RefInv' BY RefStep
<1>3. IInv /\ RefInv => RefAccounting
  <2> SUFFICES ASSUME IInv, RefInv, NEW s \in Slot, memory[s] = "live"
               PROVE  ref_count[s] = Uses(s) + 1 - drops[s]
    BY DEF RefAccounting
  <2>1. Uses(s) \in Nat /\ drops[s] \in Nat BY UsesTyped DEF IInv, PoolInv
  <2> QED BY <2>1 DEF RefInv
<1> QED BY <1>1, <1>2, <1>3, Inductive, PTL DEF Spec

-----------------------------------------------------------------------------
(* A deleted server only drains.                                            *)

\* The instances in which a deletion is final: IOCTLs come one at a time, no
\* application adds a server it has deleted, and servers are chosen by least
\* connection.  Each of the three is needed.
DeletionIsFinal ==
  /\ \A t, u \in Ctl : t = u
  /\ ~ReAdd
  /\ Algorithms \cap {"RA_POLL", "RA_IP_HASH"} = {}

\* A server that DEL_SERVER has given back stays marked, and since the handler
\* never unlocks the list nothing is unlinked or freed any more.
Marked ==
  \A s \in Slot :
    /\ memory[s] # "freed"
    /\ drops[s] # 0 => drops[s] = 1 /\ "DELETED" \in info[s].status /\ dels > 0 /\ s \in Linked

\* Servers queued for removal are different ones, deleted and out of use; and
\* every one that is deleted and out of use is queued.
Queued ==
  /\ IsInjective(server_list.to_be_del)
  /\ \A s \in ToSet(server_list.to_be_del) : drops[s] = 1 /\ ref_count[s] = 0
  /\ \A s \in Slot : drops[s] # 0 /\ ref_count[s] = 0 => s \in ToSet(server_list.to_be_del)

\* ADD_SERVER replaces the settings of servers that are not deleted.
Replacing ==
  \A t \in Ctl : pc[t] = "apply" /\ req[t].op = "add" /\ found[t] # None => drops[found[t]] = 0

\* Nobody polls.
LeastOnly ==
  /\ pc[rx] \notin {"nested", "poll", "fallback", "polled"}
  /\ routing_algorithm \notin {"RA_POLL", "RA_IP_HASH"}

DrainInv == Marked /\ Queued /\ Replacing /\ LeastOnly

\* What a step does to the servers that have been given back.
Drains == \A s \in Slot : drops[s] # 0 => drops'[s] = drops[s] /\ ref_count'[s] <= ref_count[s]

\* What FindServer finds has the MAC address.
LEMMA FindsAddress ==
  ASSUME Types, NEW m, FindServer(m) # None
  PROVE  FindServer(m) \in Slot /\ info[FindServer(m)].mac = m
<1> DEFINE l == server_list.list
           hits == {i \in DOMAIN l : info[l[i]].mac = m}
<1>1. l \in Seq(Slot) BY DEF Types, PoolTypes, Lists
<1>2. DOMAIN l = 1..Len(l) /\ Len(l) \in Nat /\ \A i \in 1..Len(l) : l[i] \in Slot
  BY <1>1, SetIsAtPositions
<1>3. FindServer(m) = IF hits = {} THEN None ELSE l[Min(hits)] BY DEF FindServer
<1>4. hits # {} /\ FindServer(m) = l[Min(hits)] BY <1>3
<1>5. hits \subseteq Nat BY <1>2
<1> HIDE DEF hits
<1>6. \E x \in hits : \A y \in hits : x <= y BY <1>4, <1>5, LeastNumber
<1>7. Min(hits) \in hits BY <1>6 DEF Min
<1> HIDE DEF l
<1> QED BY <1>2, <1>4, <1>7 DEF hits

\* lock_count has the brackets that DEL_SERVER left open, and one for each
\* handler that will close its own.
LEMMA LeftOpen ==
  ASSUME IInv
  PROVE  /\ server_list \in Lists(Slot)
         /\ dels \in Nat /\ server_list.lock_count \in Nat /\ server_list.lock_count < LockMod
         /\ server_list.lock_count >= dels
         /\ (\E t \in Thread : Counted(t)) => server_list.lock_count > dels
<1>1. Types /\ LockInv /\ PoolTypes BY DEF IInv, PoolInv, Types
<1>2. /\ Open \in SUBSET Thread /\ Cardinality(Open) \in Nat /\ Nested \in {0, 1} /\ dels \in Nat
      /\ server_list.lock_count \in 0..(LockMod - 1)
  BY <1>1, CountBounds
<1>3. server_list.lock_count = Cardinality(Open) + Nested + dels BY <1>1 DEF LockInv
<1>4. ASSUME NEW t \in Thread, Counted(t) PROVE Cardinality(Open) > 0
  <2>1. t \in Open BY <1>4 DEF Counted, Open
  <2> QED BY <1>2, <2>1, OpenCount
<1>5. server_list \in Lists(Slot) BY <1>1 DEF PoolTypes
<1>6. LockMod \in Nat BY WidthAssumption
<1> QED BY <1>2, <1>3, <1>4, <1>5, <1>6

\* After a deletion no bracket is the last one.
LEMMA NeverLast ==
  ASSUME IInv, DrainInv,
         \/ UNCHANGED <<server_list, memory>>
         \/ server_list' = Locked(server_list, LockMod) /\ memory' = memory
         \/ (\E t \in Thread : Counted(t)) /\ UnlockServerList(server_list)
         \/ pc[rx] = "select" /\ UnlockServerList(Locked(server_list, LockMod))
  PROVE  /\ server_list'.to_be_del = server_list.to_be_del /\ memory' = memory
         /\ dels > 0 => server_list'.list = server_list.list
<1> DEFINE l == server_list
           n == l.lock_count
<1>1. /\ l \in Lists(Slot) /\ dels \in Nat /\ n \in Nat /\ n < LockMod /\ n >= dels
      /\ LockMod \in Nat /\ memory \in [Slot -> {"unused", "live", "freed"}]
      /\ l.to_be_del \in Seq(Slot)
  BY LeftOpen, WidthAssumption DEF IInv, PoolInv, Types, PoolTypes, Lists
<1>2. l.to_be_del # <<>> => dels > 0
  <2> SUFFICES ASSUME l.to_be_del # <<>> PROVE dels > 0 OBVIOUS
  <2>1. PICK s \in ToSet(l.to_be_del) : TRUE BY <1>1, SetOfSeq
  <2>2. s \in Slot /\ drops[s] # 0 BY <1>1, SetOfSeq DEF DrainInv, Queued
  <2> QED BY <2>2 DEF DrainInv, Marked
<1>3. ToSet(<<>>) = {} BY DEF ToSet
<1>4. ASSUME NEW k \in Lists(Slot), k.to_be_del = l.to_be_del, k.list = l.list,
             k.lock_count > 0, k.lock_count < LockMod,
             dels > 0 => k.lock_count # 1, UnlockServerList(k)
      PROVE  /\ server_list'.to_be_del = l.to_be_del /\ memory' = memory
             /\ dels > 0 => server_list'.list = l.list
  <2>1. /\ server_list' = Unlocked(k, LockMod)
        /\ memory' = [s \in Slot |-> IF s \in FreedByUnlock(k, LockMod) THEN "freed" ELSE memory[s]]
    BY <1>4 DEF UnlockServerList
  <2>2. Unlocked(k, LockMod).to_be_del = l.to_be_del /\ FreedByUnlock(k, LockMod) = {}
    BY <1>1, <1>2, <1>3, <1>4, UnlockedQueue
  <2>3. dels > 0 => server_list'.list = l.list BY <1>1, <1>4, <2>1, UnlockedCounts
  <2> QED BY <1>1, <2>1, <2>2, <2>3
<1>5. CASE UNCHANGED <<server_list, memory>> BY <1>5
<1>6. CASE server_list' = Locked(server_list, LockMod) /\ memory' = memory
  BY <1>1, <1>6 DEF Locked, Lists
<1>7. CASE (\E t \in Thread : Counted(t)) /\ UnlockServerList(server_list)
  <2>1. n > dels BY <1>7, LeftOpen
  <2>2. n > 0 /\ (dels > 0 => n # 1) BY <1>1, <2>1
  <2> QED BY <1>1, <1>4, <1>7, <2>2
<1>8. CASE pc[rx] = "select" /\ UnlockServerList(Locked(server_list, LockMod))
  <2> DEFINE k == Locked(l, LockMod)
  <2>1. n + 1 < LockMod
    <3>1. rx \notin Open BY <1>8 DEF Open, InBracket
    <3> QED BY <3>1, CountBounds, ThreadCount DEF IInv, PoolInv
  <2>2. k \in Lists(Slot) /\ k = [l EXCEPT !.lock_count = n + 1] BY <1>1, <2>1, LockedCounts
  <2>3. k.to_be_del = l.to_be_del /\ k.list = l.list /\ k.lock_count = n + 1 BY <1>1, <2>2 DEF Lists
  <2> HIDE DEF k
  <2>4. k.lock_count > 0 /\ (dels > 0 => k.lock_count # 1) BY <1>1, <2>3
  <2>5. UnlockServerList(k) BY <1>8 DEF k
  <2> QED BY <1>1, <1>4, <2>1, <2>2, <2>3, <2>4, <2>5
<1> QED BY <1>5, <1>6, <1>7, <1>8

\* A step that takes and gives back no reference.
LEMMA QuietDrains ==
  ASSUME IInv, DrainInv, UNCHANGED <<ref_count, drops, memory>>,
         server_list'.to_be_del = server_list.to_be_del, dels' \in Nat, dels' >= dels,
         dels > 0 => server_list'.list = server_list.list,
         \A s \in Slot : drops[s] # 0 => "DELETED" \in info'[s].status
  PROVE  Marked' /\ Queued' /\ Drains
<1>1. dels \in Nat /\ ref_count \in [Slot -> Int] BY DEF IInv, PoolInv, Types, ThreadTypes, PoolTypes
<1>2. Marked' BY <1>1 DEF DrainInv, Marked, Linked
<1>3. Queued' BY DEF DrainInv, Queued
<1>4. Drains
  <2> SUFFICES ASSUME NEW s \in Slot PROVE ref_count[s] <= ref_count[s] BY DEF Drains
  <2>1. ref_count[s] \in Int BY <1>1
  <2> QED BY <2>1
<1> QED BY <1>2, <1>3, <1>4

\* A step that gives back one reference and takes one on a server that is not
\* deleted: at the last one the server is queued, once.
LEMMA RereferredQueue ==
  ASSUME IInv, DrainInv, NEW down \in OrNone(Slot), NEW up \in OrNone(Slot), Rerefer(down, up),
         down # None => down # up /\ ref_count[down] >= 1,
         down # None /\ ref_count[down] = 1 => dels > 0,
         up # None => drops[up] = 0
  PROVE  /\ memory' = memory
         /\ IsInjective(server_list'.to_be_del)
         /\ \A s \in ToSet(server_list'.to_be_del) :
              ref_count'[s] = 0 /\ (s \in ToSet(server_list.to_be_del) \/ (s = down /\ ref_count[s] = 1))
         /\ ToSet(server_list.to_be_del) \subseteq ToSet(server_list'.to_be_del)
         /\ down # None /\ ref_count[down] = 1 => down \in ToSet(server_list'.to_be_del)
         /\ dels > 0 => server_list'.list = server_list.list
         /\ \A s \in Slot : ref_count'[s] = (ref_count[s] - (IF s = down THEN 1 ELSE 0))
                                            + (IF s = up THEN 1 ELSE 0)
<1> DEFINE r == [s \in Slot |-> ref_count[s] - (IF s = down THEN 1 ELSE 0)]
           removed == down # None /\ r[down] <= 0
           lost == IF removed THEN FreedByRemove(server_list, down) ELSE {}
           q == server_list.to_be_del
<1>0. Types /\ server_list \in Lists(Slot) /\ ref_count \in [Slot -> Int] /\ q \in Seq(Slot)
      /\ memory \in [Slot -> {"unused", "live", "freed"}] /\ None \notin Slot
  BY ThreadAssumption DEF IInv, PoolInv, Types, PoolTypes, Lists
<1>1. /\ ref_count' = [s \in Slot |-> r[s] + (IF s = up THEN 1 ELSE 0)]
      /\ server_list' = IF removed THEN WithoutEntry(server_list, down) ELSE server_list
      /\ memory' = [s \in Slot |-> IF s \in lost THEN "freed" ELSE memory[s]]
  BY DEF Rerefer
<1>2. \A s \in Slot : ref_count'[s] = (ref_count[s] - (IF s = down THEN 1 ELSE 0))
                                      + (IF s = up THEN 1 ELSE 0)
  BY <1>0, RereferEffect
<1>3. down # None => down \in Slot /\ r[down] = ref_count[down] - 1 BY DEF OrNone
<1>4. removed => down \in Slot /\ ref_count[down] = 1 /\ down # up /\ server_list.lock_count > 0
  <2> SUFFICES ASSUME removed
               PROVE  down \in Slot /\ ref_count[down] = 1 /\ down # up /\ server_list.lock_count > 0
    OBVIOUS
  <2>1. down # None /\ r[down] <= 0 OBVIOUS
  <2> HIDE DEF removed, r
  <2>2. down \in Slot /\ ref_count[down] \in Int /\ ref_count[down] = 1 BY <1>0, <1>3, <2>1
  <2>3. dels > 0 /\ dels \in Nat /\ server_list.lock_count \in Nat /\ server_list.lock_count >= dels
    BY <2>1, <2>2, LeftOpen
  <2> QED BY <2>1, <2>2, <2>3
<1>8. down # None /\ ref_count[down] = 1 => removed
  <2> HIDE DEF r
  <2> QED BY <1>3
<1>9. dels > 0 => server_list'.list = server_list.list
  <2>1. dels > 0 => server_list.lock_count > 0 BY LeftOpen
  <2> QED BY <1>0, <2>1, RereferEffect
<1> HIDE DEF r, removed
<1>5. ToSet(q) \subseteq Slot /\ \A s \in ToSet(q) : s # up /\ ref_count[s] = 0
  BY <1>0, SetOfSeq DEF DrainInv, Queued
<1>6. CASE removed
  <2>1. server_list'.to_be_del = Append(q, down) /\ FreedByRemove(server_list, down) = {}
    BY <1>0, <1>1, <1>4, <1>6, QueuedRemoval
  <2>2. down \notin ToSet(q)
    <3>1. down \in ToSet(q) => ref_count[down] = 0 BY <1>5
    <3> QED BY <1>4, <1>6, <3>1
  <2>3. IsInjective(Append(q, down)) /\ ToSet(Append(q, down)) = ToSet(q) \cup {down}
    BY <1>0, <1>4, <1>6, <2>2, AppendAdds DEF DrainInv, Queued
  <2>4. memory' = memory
    <3>1. lost = {} BY <1>6, <2>1
    <3> HIDE DEF lost
    <3> QED BY <1>0, <1>1, <3>1
  <2>5. ASSUME NEW s \in ToSet(q) \cup {down}
        PROVE  ref_count'[s] = 0 /\ (s \in ToSet(q) \/ (s = down /\ ref_count[s] = 1))
    <3>1. CASE s = down
      <4>1. ref_count'[s] = (ref_count[s] - 1) + 0 /\ ref_count[s] = 1 BY <1>2, <1>4, <1>6, <3>1
      <4> QED BY <3>1, <4>1
    <3>2. CASE s # down
      <4>1. s \in ToSet(q) /\ s \in Slot /\ s # up /\ ref_count[s] = 0 BY <1>5, <2>5, <3>2
      <4>2. ref_count'[s] = (ref_count[s] - 0) + 0 BY <1>2, <3>2, <4>1
      <4> QED BY <4>1, <4>2
    <3> QED BY <3>1, <3>2
  <2> QED BY <1>2, <1>9, <2>1, <2>3, <2>4, <2>5
<1>7. CASE ~removed
  <2>1. server_list' = server_list BY <1>1, <1>7
  <2>2. memory' = memory
    <3>1. lost = {} BY <1>7
    <3> HIDE DEF lost
    <3> QED BY <1>0, <1>1, <3>1
  <2>3. IsInjective(q) BY DEF DrainInv, Queued
  <2>4. ASSUME NEW s \in ToSet(q) PROVE ref_count'[s] = 0
    <3>1. s \in Slot /\ s # up /\ ref_count[s] = 0 BY <1>5
    <3>2. s # down
      <4>1. down # None => ref_count[down] >= 1 OBVIOUS
      <4> QED BY <1>0, <3>1, <4>1
    <3>3. ref_count'[s] = (ref_count[s] - 0) + 0 BY <1>2, <3>1, <3>2
    <3> QED BY <3>1, <3>3
  <2> QED BY <1>2, <1>7, <1>8, <2>1, <2>2, <2>3, <2>4
<1> QED BY <1>6, <1>7

\* A server in use has a reference for it; it is the last one only of a deleted
\* server.
LEMMA UsedCount ==
  ASSUME IInv, RefInv, DrainInv, NEW s \in Slot, Uses(s) > 0
  PROVE  ref_count[s] >= 1 /\ (ref_count[s] = 1 => drops[s] = 1 /\ dels > 0)
<1> DEFINE u == Uses(s)
           d == drops[s]
<1>1. u \in Nat /\ d \in Nat /\ memory[s] \in {"unused", "live", "freed"}
  BY UsesTyped DEF IInv, PoolInv, Types, PoolTypes
<1>2. d # 0 => d = 1 /\ dels > 0 BY DEF DrainInv, Marked
<1>3. memory[s] = "live" BY <1>1 DEF RefInv, DrainInv, Marked
<1>4. ref_count[s] = (u + 1) - d BY <1>3 DEF RefInv
<1>5. u > 0 OBVIOUS
<1> HIDE DEF u, d
<1>6. ref_count[s] >= 1 /\ (ref_count[s] = 1 => d # 0) BY <1>1, <1>2, <1>4, <1>5
<1> QED BY <1>2, <1>6 DEF d

\* A use of one server ends and one of another, not deleted, begins.
LEMMA RereferDrains ==
  ASSUME IInv, RefInv, DrainInv, UNCHANGED <<info, drops, dels>>,
         NEW down \in OrNone(Slot), NEW up \in OrNone(Slot), Rerefer(down, up),
         down # None => down # up /\ Uses(down) > 0, up # None => drops[up] = 0
  PROVE  Marked' /\ Queued' /\ Drains
<1>1. down # None => /\ down \in Slot /\ ref_count[down] >= 1
                     /\ ref_count[down] = 1 => drops[down] = 1 /\ dels > 0
  BY UsedCount DEF OrNone
<1>2. /\ memory' = memory
      /\ IsInjective(server_list'.to_be_del)
      /\ \A s \in ToSet(server_list'.to_be_del) :
           /\ ref_count'[s] = 0
           /\ s \in ToSet(server_list.to_be_del) \/ (s = down /\ ref_count[s] = 1)
      /\ ToSet(server_list.to_be_del) \subseteq ToSet(server_list'.to_be_del)
      /\ down # None /\ ref_count[down] = 1 => down \in ToSet(server_list'.to_be_del)
      /\ dels > 0 => server_list'.list = server_list.list
      /\ \A s \in Slot : ref_count'[s] = (ref_count[s] - (IF s = down THEN 1 ELSE 0))
                                         + (IF s = up THEN 1 ELSE 0)
  BY <1>1, RereferredQueue
<1>3. Marked' BY <1>2 DEF DrainInv, Marked, Linked
<1>4. ASSUME NEW s \in ToSet(server_list'.to_be_del) PROVE drops[s] = 1
  <2>0. server_list'.to_be_del \in Seq(Slot) /\ None \notin Slot
    <3>1. server_list' \in Lists(Slot) BY RereferEffect DEF IInv, PoolInv
    <3> QED BY <3>1, ThreadAssumption DEF Lists
  <2>1. s \in Slot BY <2>0, SetOfSeq
  <2>2. CASE s \in ToSet(server_list.to_be_del) BY <2>2 DEF DrainInv, Queued
  <2>3. CASE s = down /\ ref_count[s] = 1 BY <1>1, <2>0, <2>1, <2>3
  <2> QED BY <1>2, <2>2, <2>3
<1>7. ASSUME NEW s \in Slot, drops[s] # 0, ref_count'[s] = 0 PROVE s \in ToSet(server_list'.to_be_del)
  <2>1. s # up /\ None \notin Slot BY <1>7, ThreadAssumption
  <2>2. ref_count[s] \in Int BY DEF IInv, PoolInv, Types, PoolTypes
  <2>3. ref_count'[s] = (ref_count[s] - (IF s = down THEN 1 ELSE 0)) + 0 BY <1>2, <2>1
  <2>4. CASE s = down
    <3>1. s # None /\ ref_count[s] = 1 BY <1>7, <2>1, <2>2, <2>3, <2>4
    <3> QED BY <1>2, <2>4, <3>1
  <2>5. CASE s # down
    <3>1. ref_count[s] = 0 BY <1>7, <2>2, <2>3, <2>5
    <3> QED BY <1>2, <1>7, <3>1 DEF DrainInv, Queued
  <2> QED BY <2>4, <2>5
<1>5. Queued' BY <1>2, <1>4, <1>7 DEF Queued
<1>6. Drains
  <2> SUFFICES ASSUME NEW s \in Slot, drops[s] # 0 PROVE ref_count'[s] <= ref_count[s] BY DEF Drains
  <2>1. s # up BY ThreadAssumption
  <2>2. ref_count[s] \in Int BY DEF IInv, PoolInv, Types, PoolTypes
  <2>3. ref_count'[s] = (ref_count[s] - (IF s = down THEN 1 ELSE 0)) + 0 BY <1>2, <2>1
  <2> QED BY <2>2, <2>3
<1> QED BY <1>3, <1>5, <1>6

\* A new server is nobody's, and not queued for removal.
LEMMA AddNewDrains ==
  ASSUME IInv, RefInv, DrainInv, NEW t \in Ctl, AddNew(t), dels' = dels
  PROVE  Marked' /\ Queued' /\ Drains
<1>1. PICK n \in Slot :
        /\ memory[n] = "unused" /\ memory' = [memory EXCEPT ![n] = "live"]
        /\ ref_count' = [ref_count EXCEPT ![n] = 1]
        /\ info' = [info EXCEPT ![n] = [mac |-> req[t].mac, status |-> req[t].info.status,
                                        ip_enabled |-> req[t].info.ip_enabled]]
        /\ server_list' = WithEntry(server_list, n)
  BY DEF AddNew
<1>2. PoolTypes /\ drops' = drops BY DEF IInv, PoolInv, Types, AddNew
<1>3. drops[n] = 0 BY <1>1 DEF RefInv
<1>4. \A s \in Slot : s # n => memory'[s] = memory[s] /\ ref_count'[s] = ref_count[s] /\ info'[s] = info[s]
  BY <1>1, <1>2 DEF PoolTypes
<1>5. Marked'
  <2>1. memory'[n] = "live" BY <1>1, <1>2 DEF PoolTypes
  <2>2. dels > 0 => server_list'.list = server_list.list
    <3>1. dels > 0 => server_list.lock_count > 0 BY LeftOpen
    <3> QED BY <1>1, <1>2, <3>1, WithEntryAdds DEF PoolTypes
  <2> QED BY <1>2, <1>3, <1>4, <2>1, <2>2 DEF DrainInv, Marked, Linked
<1>6. Queued'
  <2>1. server_list'.to_be_del = server_list.to_be_del BY <1>1, <1>2 DEF WithEntry, PoolTypes, Lists
  <2>2. ASSUME NEW s \in ToSet(server_list.to_be_del) PROVE drops[s] = 1 /\ ref_count'[s] = 0
    <3>1. s \in Slot /\ drops[s] = 1 /\ ref_count[s] = 0
      BY <1>2, SetOfSeq DEF PoolTypes, Lists, DrainInv, Queued
    <3> QED BY <1>3, <1>4, <3>1
  <2>3. ASSUME NEW s \in Slot, drops[s] # 0, ref_count'[s] = 0 PROVE s \in ToSet(server_list.to_be_del)
    <3>1. s # n /\ ref_count[s] = 0 BY <1>3, <1>4, <2>3
    <3> QED BY <2>3, <3>1 DEF DrainInv, Queued
  <2> QED BY <1>2, <2>1, <2>2, <2>3 DEF DrainInv, Queued
<1>7. Drains
  <2> SUFFICES ASSUME NEW s \in Slot, drops[s] # 0 PROVE ref_count'[s] <= ref_count[s]
    BY <1>2 DEF Drains
  <2>1. ref_count'[s] = ref_count[s] /\ ref_count[s] \in Int BY <1>2, <1>3, <1>4 DEF PoolTypes
  <2> QED BY <2>1
<1> QED BY <1>5, <1>6, <1>7

\* DEL_SERVER marks a server that is not marked yet and gives its first
\* reference back; if that was the only one, its removal is queued.
LEMMA DelApplyDrains ==
  ASSUME IInv, RefInv, DrainInv, NEW t \in Ctl, DelApply(t)
  PROVE  Marked' /\ Queued' /\ Drains
<1> DEFINE x == found[t]
<1>0. /\ t \in Thread /\ PoolTypes /\ ThreadTypes /\ Types /\ dels' = dels /\ dels \in Nat
      /\ None \notin Slot /\ None \in OrNone(Slot)
  BY ThreadCount, ThreadAssumption DEF IInv, PoolInv, Types, ThreadTypes, DelApply, OrNone
<1>1. Leaks(t) BY DEF DelApply, Leaks
<1>2. dels > 0 BY <1>0, <1>1 DEF IInv, PoolInv, LockInv
<1>3. CASE UNCHANGED <<info, drops, ref_count, server_list, memory>>
  BY <1>0, <1>3, QuietDrains DEF DrainInv, Marked
<1>4. CASE /\ x # None /\ "DELETED" \notin info[x].status
           /\ info' = [info EXCEPT ![x].status = @ \cup {"DELETED"}]
           /\ drops' = [drops EXCEPT ![x] = @ + 1] /\ Rerefer(x, None)
  <2>1. x \in Slot /\ memory[x] # "unused" /\ x \in Linked
    <3>1. x \in Linked BY <1>0, <1>4 DEF DelApply, IInv, PoolInv, Pointers, OrNone
    <3> QED BY <3>1, InUse
  <2>2. drops[x] = 0 BY <1>4, <2>1 DEF DrainInv, Marked
  <2>3. drops'[x] = 1 /\ "DELETED" \in info'[x].status
        /\ \A s \in Slot : s # x => drops'[s] = drops[s] /\ info'[s] = info[s]
    <3>1. drops' = [drops EXCEPT ![x] = drops[x] + 1] BY <1>4
    <3>2. info' = [info EXCEPT ![x].status = info[x].status \cup {"DELETED"}] BY <1>4
    <3>3. info[x] \in Infos BY <1>0, <2>1 DEF PoolTypes
    <3> HIDE DEF x
    <3>4. drops'[x] = 1 /\ \A s \in Slot : s # x => drops'[s] = drops[s]
      BY <1>0, <2>1, <2>2, <3>1 DEF ThreadTypes
    <3>5. "DELETED" \in info'[x].status /\ \A s \in Slot : s # x => info'[s] = info[s]
      BY <1>0, <2>1, <3>2, <3>3 DEF PoolTypes, Infos
    <3> QED BY <3>4, <3>5
  <2>4. ref_count[x] >= 1
    <3> DEFINE u == Uses(x)
    <3>1. u \in Nat BY <1>0, <2>1, UsesTyped
    <3>2. memory[x] = "live" BY <1>0, <2>1 DEF PoolTypes, DrainInv, Marked
    <3>3. ref_count[x] = (u + 1) - 0 BY <2>1, <2>2, <3>2 DEF RefInv
    <3> HIDE DEF u
    <3> QED BY <3>1, <3>3
  <2>5. Rerefer(x, None) /\ x \in OrNone(Slot) /\ x # None BY <1>4, <2>1 DEF OrNone
  <2> HIDE DEF x
  <2>6. /\ memory' = memory
        /\ IsInjective(server_list'.to_be_del)
        /\ \A s \in ToSet(server_list'.to_be_del) :
             /\ ref_count'[s] = 0
             /\ s \in ToSet(server_list.to_be_del) \/ (s = x /\ ref_count[s] = 1)
        /\ ToSet(server_list.to_be_del) \subseteq ToSet(server_list'.to_be_del)
        /\ x # None /\ ref_count[x] = 1 => x \in ToSet(server_list'.to_be_del)
        /\ dels > 0 => server_list'.list = server_list.list
        /\ \A s \in Slot : ref_count'[s] = (ref_count[s] - (IF s = x THEN 1 ELSE 0))
                                           + (IF s = None THEN 1 ELSE 0)
    BY <1>0, <1>2, <2>4, <2>5, RereferredQueue
  <2>7. Marked' BY <1>0, <1>2, <2>1, <2>3, <2>6 DEF DrainInv, Marked, Linked
  <2>8. Queued'
    <3>3. ASSUME NEW s \in Slot, drops'[s] # 0, ref_count'[s] = 0 PROVE s \in ToSet(server_list'.to_be_del)
      <4>1. ref_count[s] \in Int /\ ref_count'[s] = (ref_count[s] - (IF s = x THEN 1 ELSE 0)) + 0
        BY <1>0, <2>6 DEF PoolTypes
      <4>2. CASE s = x
        <5>1. ref_count[s] = 1 BY <3>3, <4>1, <4>2
        <5> QED BY <2>5, <2>6, <4>2, <5>1
      <4>3. CASE s # x
        <5>1. ref_count[s] = 0 /\ drops[s] # 0 BY <2>3, <3>3, <4>1, <4>3
        <5> QED BY <2>6, <5>1 DEF DrainInv, Queued
      <4> QED BY <4>2, <4>3
    <3> SUFFICES ASSUME NEW s \in ToSet(server_list'.to_be_del) PROVE drops'[s] = 1
      BY <2>6, <3>3 DEF Queued
    <3>1. CASE s = x BY <2>3, <3>1
    <3>2. CASE s # x
      <4>1. s \in ToSet(server_list.to_be_del) /\ drops[s] = 1 BY <2>6, <3>2 DEF DrainInv, Queued
      <4>2. s \in Slot BY <1>0, <4>1, SetOfSeq DEF PoolTypes, Lists
      <4> QED BY <2>3, <3>2, <4>1, <4>2
    <3> QED BY <3>1, <3>2
  <2>9. Drains
    <3> SUFFICES ASSUME NEW s \in Slot, drops[s] # 0
                 PROVE  drops'[s] = drops[s] /\ ref_count'[s] <= ref_count[s]
      BY DEF Drains
    <3>1. s # x /\ s # None BY <1>0, <2>2
    <3>2. ref_count[s] \in Int /\ ref_count'[s] = (ref_count[s] - 0) + 0
      BY <1>0, <2>6, <3>1 DEF PoolTypes
    <3> QED BY <2>3, <3>1, <3>2
  <2> QED BY <2>7, <2>8, <2>9
<1> QED BY <1>3, <1>4 DEF DelApply

\* The control threads go on with what they have found.
CtlStays ==
  \A t \in Ctl : pc'[t] = "apply" => pc[t] = "apply" /\ req'[t] = req[t] /\ found'[t] = found[t]

\* A step of rx or wk leaves them alone.
LEMMA CtlAlone ==
  ASSUME NEW u \in {rx, wk}, Moves(u)
  PROVE  CtlStays
BY ThreadCount DEF Moves, CtlStays

\* Every step keeps deleted servers draining.
LEMMA DrainStep ==
  ASSUME DeletionIsFinal, IInv, RefInv, DrainInv, [Next]_vars
  PROVE  DrainInv' /\ Drains
<1>0. /\ Types /\ PoolTypes /\ ThreadTypes /\ RouteTypes /\ rx \in Thread /\ wk \in Thread /\ rx # wk
      /\ Ctl \subseteq Thread /\ rx \notin Ctl /\ wk \notin Ctl /\ dels \in Nat /\ None \notin Slot
      /\ Marked /\ LeastOnly /\ Replacing
  BY ThreadCount, ThreadAssumption DEF IInv, PoolInv, Types, ThreadTypes, DrainInv
<1>1. ASSUME Marked' /\ Queued' /\ Drains, drops' = drops, CtlStays,
             pc'[rx] \notin {"nested", "poll", "fallback", "polled"},
             routing_algorithm' = routing_algorithm
      PROVE  DrainInv' /\ Drains
  <2>1. Replacing' BY <1>0, <1>1 DEF Replacing, CtlStays
  <2>2. LeastOnly' BY <1>0, <1>1 DEF LeastOnly
  <2> QED BY <1>1, <2>1, <2>2 DEF DrainInv
<1> DEFINE ListStep == \/ UNCHANGED <<server_list, memory>>
                       \/ server_list' = Locked(server_list, LockMod) /\ memory' = memory
                       \/ (\E t \in Thread : Counted(t)) /\ UnlockServerList(server_list)
                       \/ pc[rx] = "select" /\ UnlockServerList(Locked(server_list, LockMod))
           Keeps == \A s \in Slot : drops[s] # 0 => "DELETED" \in info'[s].status
           Quiet == /\ UNCHANGED <<ref_count, drops>> /\ ListStep /\ Keeps
                    /\ dels' \in Nat /\ dels' >= dels
<1>2. Quiet => Marked' /\ Queued' /\ Drains BY NeverLast, QuietDrains
<1>3. info' = info => Keeps BY <1>0 DEF Marked
<1>4. dels' = dels => dels' \in Nat /\ dels' >= dels BY <1>0
<1> HIDE DEF Keeps
<1> USE DEF routeVars, rxVars, poolVars
<1>5. ASSUME NEW t \in Thread, NEW r, Lookup(t, r), dels' \in Nat, dels' >= dels
      PROVE  /\ Marked' /\ Queued' /\ Drains
             /\ UNCHANGED <<drops, info, routing_algorithm>> /\ Moves(t)
             /\ pc'[t] = "apply" /\ req'[t] = r /\ found'[t] = FindServer(r.mac)
  <2>1. Quiet BY <1>3, <1>5 DEF Lookup
  <2> HIDE DEF Quiet
  <2>2. Moves(t) /\ pc'[t] = "apply" /\ req'[t] = r /\ found'[t] = FindServer(r.mac)
    BY <1>0, <1>5 DEF Lookup, Goto, ThreadTypes, Moves
  <2> QED BY <1>2, <1>5, <2>1, <2>2 DEF Lookup
<1>6. ASSUME NEW t \in Ctl PROVE \A u \in Ctl : u = t BY DEF DeletionIsFinal
<1>7. ASSUME NEW t \in Ctl, NEW m \in Mac, NEW i \in AddInfo, AddServer(t, m, i)
      PROVE  DrainInv' /\ Drains
  <2> DEFINE r == [op |-> "add", mac |-> m, info |-> i]
  <2>1. Lookup(t, r) /\ dels' = dels /\ r.mac = m BY <1>7 DEF AddServer
  <2>2. \A s \in Slot : info[s].mac = m => "DELETED" \notin info[s].status
    BY <1>7 DEF AddServer, DeletionIsFinal
  <2> HIDE DEF r
  <2>3. /\ Marked' /\ Queued' /\ Drains
        /\ UNCHANGED <<drops, info, routing_algorithm>> /\ Moves(t) /\ found'[t] = FindServer(m)
    BY <1>0, <1>4, <1>5, <2>1
  <2>4. FindServer(m) # None => drops[FindServer(m)] = 0 BY <1>0, <2>2, FindsAddress DEF Marked
  <2>5. Replacing' BY <1>6, <2>3, <2>4 DEF Replacing
  <2>6. LeastOnly' BY <1>0, <2>3 DEF Moves, LeastOnly
  <2> QED BY <2>3, <2>5, <2>6 DEF DrainInv
<1>8. ASSUME NEW t \in Ctl, NEW m \in Mac, DelServer(t, m) PROVE DrainInv' /\ Drains
  <2> DEFINE r == [op |-> "del", mac |-> m]
  <2>1. Lookup(t, r) /\ dels' = dels + 1 /\ r.op # "add" BY <1>8 DEF DelServer
  <2> HIDE DEF r
  <2>2. /\ Marked' /\ Queued' /\ Drains
        /\ UNCHANGED <<drops, info, routing_algorithm>> /\ Moves(t) /\ req'[t] = r
    BY <1>0, <1>5, <2>1
  <2>3. Replacing' BY <1>6, <2>1, <2>2 DEF Replacing
  <2>4. LeastOnly' BY <1>0, <2>2 DEF Moves, LeastOnly
  <2> QED BY <2>2, <2>3, <2>4 DEF DrainInv
<1>9. CASE \E m \in Mac : ReceiveChecking(m)
  <2>1. PICK m \in Mac : Lookup(rx, [op |-> "checked", mac |-> m]) /\ dels' = dels
    BY <1>9 DEF ReceiveChecking
  <2>2. /\ Marked' /\ Queued' /\ Drains
        /\ UNCHANGED <<drops, routing_algorithm>> /\ Moves(rx) /\ pc'[rx] = "apply"
    BY <1>0, <1>4, <1>5, <2>1
  <2>3. CtlStays BY <2>2, CtlAlone
  <2> QED BY <1>1, <2>2, <2>3
<1>10. ASSUME NEW t \in Ctl, NEW a \in Algorithms, SetRoutingAlgorithm(t, a)
       PROVE  DrainInv' /\ Drains
  <2>1. Quiet BY <1>3, <1>4, <1>10 DEF SetRoutingAlgorithm
  <2> HIDE DEF Quiet
  <2>2. UNCHANGED <<pc, req, found, drops>> /\ routing_algorithm' = a BY <1>10 DEF SetRoutingAlgorithm
  <2>3. Replacing' BY <1>0, <2>2 DEF Replacing
  <2>4. LeastOnly' BY <1>0, <2>2 DEF LeastOnly, DeletionIsFinal
  <2> QED BY <1>2, <2>1, <2>3, <2>4 DEF DrainInv
<1>11. ASSUME NEW t \in Ctl, AddNew(t) PROVE DrainInv' /\ Drains
  <2>1. /\ pc' = [pc EXCEPT ![t] = "unlock"] /\ dels' = dels
        /\ UNCHANGED <<req, found, drops, routing_algorithm>>
    BY <1>11 DEF AddNew, Goto
  <2>2. CtlStays /\ pc'[rx] = pc[rx] BY <1>0, <1>6, <2>1 DEF CtlStays, ThreadTypes
  <2>3. Marked' /\ Queued' /\ Drains BY <1>11, <2>1, AddNewDrains
  <2> QED BY <1>0, <1>1, <2>1, <2>2, <2>3 DEF LeastOnly
<1>12. ASSUME NEW t \in Ctl, AddExisting(t) PROVE DrainInv' /\ Drains
  <2> DEFINE s == found[t]
  <2>1. /\ pc' = [pc EXCEPT ![t] = "unlock"] /\ dels' = dels
        /\ UNCHANGED <<req, found, drops, routing_algorithm, ref_count, server_list, memory>>
        /\ pc[t] = "apply" /\ req[t].op = "add" /\ s # None
    BY <1>12 DEF AddExisting, Goto
  <2>2. CtlStays /\ pc'[rx] = pc[rx] BY <1>0, <1>6, <2>1 DEF CtlStays, ThreadTypes
  <2>3. Keeps
    <3>1. drops[s] = 0 BY <1>0, <2>1 DEF Replacing
    <3>2. PICK v : info' = [info EXCEPT ![s] = v] BY <1>12 DEF AddExisting
    <3> HIDE DEF s
    <3>3. \A q \in Slot : q # s => info'[q] = info[q] BY <1>0, <3>2 DEF PoolTypes
    <3> QED BY <1>0, <3>1, <3>3 DEF Keeps, Marked
  <2>4. Quiet BY <1>4, <2>1, <2>3
  <2> HIDE DEF Quiet
  <2> QED BY <1>0, <1>1, <1>2, <2>1, <2>2, <2>4 DEF LeastOnly
<1>13. ASSUME NEW t \in Ctl, DelApply(t) PROVE DrainInv' /\ Drains
  <2>1. pc' = [pc EXCEPT ![t] = "idle"] /\ routing_algorithm' = routing_algorithm
    BY <1>13 DEF DelApply, Goto
  <2>2. pc'[t] = "idle" /\ pc'[rx] = pc[rx] BY <1>0, <2>1 DEF ThreadTypes
  <2>3. Replacing' BY <1>6, <2>2 DEF Replacing
  <2>4. LeastOnly' BY <1>0, <2>1, <2>2 DEF LeastOnly
  <2>5. Marked' /\ Queued' /\ Drains BY <1>13, DelApplyDrains
  <2> QED BY <2>3, <2>4, <2>5 DEF DrainInv
<1>14. ASSUME NEW t \in Ctl \cup {rx}, Unlock(t) PROVE DrainInv' /\ Drains
  <2>1. t \in Thread /\ Counted(t) BY <1>0, <1>14 DEF Unlock, Counted, InBracket, Leaks
  <2>2. Quiet BY <1>3, <1>4, <1>14, <2>1 DEF Unlock
  <2> HIDE DEF Quiet
  <2>3. /\ pc' = [pc EXCEPT ![t] = "idle"] /\ UNCHANGED <<drops, routing_algorithm>>
        /\ Moves(t)
    BY <1>14 DEF Unlock, Goto, Moves
  <2>4. pc'[t] = "idle" BY <1>0, <2>1, <2>3 DEF ThreadTypes
  <2>5. CtlStays /\ (pc'[rx] = pc[rx] \/ pc'[rx] = "idle")
    BY <1>0, <2>1, <2>3, <2>4 DEF CtlStays, Moves
  <2> QED BY <1>0, <1>1, <1>2, <2>2, <2>3, <2>5 DEF LeastOnly
<1>15. ASSUME NEW u \in {rx, wk}, Moves(u), UNCHANGED <<drops, routing_algorithm>>,
              Marked' /\ Queued' /\ Drains,
              pc'[rx] = pc[rx] \/ pc'[rx] \in {"idle", "unlock", "walk", "forward", "select", "visit", "bind"}
       PROVE  DrainInv' /\ Drains
  <2>1. CtlStays BY <1>15, CtlAlone
  <2>2. pc'[rx] \notin {"nested", "poll", "fallback", "polled"} BY <1>0, <1>15 DEF LeastOnly
  <2> QED BY <1>1, <1>15, <2>1, <2>2
<1>16. CASE CheckedApply
  <2>1. /\ pc' = [pc EXCEPT ![rx] = "unlock"] /\ dels' = dels
        /\ UNCHANGED <<req, found, drops, routing_algorithm, ref_count, server_list, memory>>
    BY <1>16 DEF CheckedApply, Goto
  <2>2. Moves(rx) /\ pc'[rx] = "unlock" BY <1>0, <2>1 DEF Moves, ThreadTypes
  <2>3. Keeps
    <3> DEFINE s == found[rx]
    <3>1. CASE UNCHANGED info BY <1>3, <3>1
    <3>2. CASE info' = [info EXCEPT ![s].status = (@ \cup {"ONLINE"}) \ {"CHECKING"}]
      <4> HIDE DEF s
      <4>1. \A q \in Slot : info'[q] = info[q]
                            \/ info'[q].status = (info[q].status \cup {"ONLINE"}) \ {"CHECKING"}
        BY <1>0, <3>2 DEF PoolTypes, Infos
      <4> QED BY <1>0, <4>1 DEF Keeps, Marked
    <3> QED BY <1>16, <3>1, <3>2 DEF CheckedApply
  <2>4. Quiet BY <1>4, <2>1, <2>3
  <2> HIDE DEF Quiet
  <2> QED BY <1>2, <1>15, <2>1, <2>2, <2>4
<1>17. CASE WorkerCheck
  <2>1. /\ dels' = dels /\ Moves(wk) /\ pc' = pc
        /\ UNCHANGED <<drops, routing_algorithm, ref_count, server_list, memory>>
    BY <1>17 DEF WorkerCheck, Moves
  <2>2. Keeps
    <3> DEFINE s == found[wk]
    <3>1. CASE UNCHANGED info BY <1>3, <3>1
    <3>2. CASE "DELETED" \notin info[s].status /\ \E v : info' = [info EXCEPT ![s] = v]
      <4> HIDE DEF s
      <4>1. \A q \in Slot : q # s => info'[q] = info[q] BY <1>0, <3>2 DEF PoolTypes
      <4> QED BY <1>0, <3>2, <4>1 DEF Keeps, Marked
    <3>3. \/ UNCHANGED info
          \/ "DELETED" \notin info[s].status /\ info' = [info EXCEPT ![s].status = @ \cup {"CHECKING"}]
          \/ "DELETED" \notin info[s].status /\ info' = [info EXCEPT ![s].status = @ \ {"ONLINE"}]
      BY <1>17 DEF WorkerCheck
    <3> QED BY <3>1, <3>2, <3>3
  <2>3. Quiet BY <1>4, <2>1, <2>2
  <2> HIDE DEF Quiet
  <2> QED BY <1>2, <1>15, <2>1, <2>3
<1>18. CASE WorkerStart \/ WorkerEnd
  <2>1. WorkerEnd => Counted(wk) BY DEF WorkerEnd, Counted, InBracket, Leaks
  <2>2. Quiet BY <1>0, <1>3, <1>4, <1>18, <2>1 DEF WorkerStart, WorkerEnd
  <2> HIDE DEF Quiet
  <2>3. /\ UNCHANGED <<drops, routing_algorithm>> /\ Moves(wk) /\ pc'[rx] = pc[rx]
    BY <1>0, <1>18 DEF WorkerStart, WorkerEnd, Goto, Moves, ThreadTypes
  <2> QED BY <1>2, <1>15, <2>2, <2>3
<1>19. CASE (\E c \in Conn, f \in Segments : Receive(c, f)) \/ WalkEnd
            \/ (\E i \in DOMAIN route_list : RouteTimeout(i))
  <2>1. Quiet BY <1>3, <1>4, <1>19 DEF Receive, WalkEnd, RouteTimeout
  <2> HIDE DEF Quiet
  <2>2. UNCHANGED <<drops, routing_algorithm, req, found>>
    BY <1>19 DEF Receive, WalkEnd, RouteTimeout
  <2>3. Moves(rx) /\ (pc'[rx] = pc[rx] \/ pc'[rx] \in {"walk", "select", "idle"})
    BY <1>0, <1>19, <2>2 DEF Receive, WalkEnd, RouteTimeout, Goto, Moves, ThreadTypes
  <2> QED BY <1>2, <1>15, <2>1, <2>2, <2>3
<1>20. CASE SelectNone \/ SelectLeast \/ VisitEnd
  <2>1. VisitEnd => Counted(rx) BY DEF VisitEnd, Counted, InBracket, Leaks
  <2>2. Quiet BY <1>0, <1>3, <1>4, <1>20, <2>1 DEF SelectNone, SelectLeast, VisitEnd
  <2> HIDE DEF Quiet
  <2>3. UNCHANGED <<drops, routing_algorithm>> BY <1>20 DEF SelectNone, SelectLeast, VisitEnd
  <2>4. Moves(rx) /\ pc'[rx] \in {"visit", "bind"}
    BY <1>0, <1>20 DEF SelectNone, SelectLeast, VisitEnd, Goto, Moves, ThreadTypes
  <2> QED BY <1>2, <1>15, <2>2, <2>3, <2>4
<1>21. ASSUME NEW p \in 1..Len(route_list), DeleteRouteListEntry(p), UNCHANGED <<info, drops, dels>>
       PROVE  Marked' /\ Queued' /\ Drains
  <2>1. Rerefer(route_list[p].server, None) BY <1>21 DEF DeleteRouteListEntry
  <2>2. route_list[p].server \in Slot /\ Uses(route_list[p].server) > 0 BY InUse
  <2>3. PICK x \in Slot : Rerefer(x, None) /\ Uses(x) > 0 BY <2>1, <2>2
  <2>4. x \in OrNone(Slot) /\ None \in OrNone(Slot) /\ x # None BY <1>0 DEF OrNone
  <2> QED BY <1>21, <2>3, <2>4, RereferDrains
<1>22. CASE WalkRoute
  <2>1. UNCHANGED <<info, drops, dels, req, found, routing_algorithm>> BY <1>22 DEF WalkRoute
  <2>2. pos \in 1..Len(route_list)
    <3>1. pos \in 1..(Len(route_list) + 1) /\ pos <= Len(route_list)
      BY <1>22 DEF WalkRoute, IInv, RouteInv
    <3> QED BY <1>0, <3>1, LenProperties DEF RouteTypes
  <2>3. Moves(rx) /\ (pc'[rx] = pc[rx] \/ pc'[rx] \in {"select", "forward"})
    BY <1>0, <1>22, <2>1 DEF WalkRoute, Goto, Moves, ThreadTypes
  <2>4. CASE UNCHANGED <<server_list, ref_count, memory>>
    <3>1. Quiet BY <1>3, <1>4, <2>1, <2>4
    <3> HIDE DEF Quiet
    <3> QED BY <1>2, <1>15, <2>1, <2>3, <3>1
  <2>5. CASE DeleteRouteListEntry(pos)
    <3>1. Marked' /\ Queued' /\ Drains BY <1>21, <2>1, <2>2, <2>5
    <3> QED BY <1>15, <2>1, <2>3, <3>1
  <2> QED BY <1>22, <2>4, <2>5 DEF WalkRoute
<1>23. CASE VisitServer
  <2> DEFINE s == found[rx]
  <2>1. UNCHANGED <<info, drops, dels, pc, req, routing_algorithm>> /\ Moves(rx) /\ s \in Slot /\ s # None
    BY <1>0, <1>23 DEF VisitServer, Moves, ThreadTypes
  <2>2. CASE UNCHANGED <<server_list, ref_count, memory>>
    <3>1. Quiet BY <1>3, <1>4, <2>1, <2>2
    <3> HIDE DEF Quiet
    <3> QED BY <1>2, <1>15, <2>1, <3>1
  <2>3. CASE ServerIsAvaliable(s) /\ Better(s) /\ Rerefer(best, s)
    <3>1. drops[s] = 0 BY <1>0, <2>1, <2>3 DEF ServerIsAvaliable, Marked
    <3>2. best # None => best # s
      <4>1. ref_count[s] \in Int BY <1>0, <2>1 DEF PoolTypes
      <4> HIDE DEF s
      <4> QED BY <2>3, <4>1 DEF Better
    <3>3. best # None => Uses(best) > 0 BY InUse
    <3>4. best \in OrNone(Slot) /\ s \in OrNone(Slot) BY <1>0, <2>1 DEF RouteTypes, OrNone
    <3> HIDE DEF s
    <3>5. Marked' /\ Queued' /\ Drains BY <2>1, <2>3, <3>1, <3>2, <3>3, <3>4, RereferDrains
    <3> QED BY <1>15, <2>1, <3>5
  <2> QED BY <1>23, <2>2, <2>3 DEF VisitServer
<1>24. CASE SelectFrom \/ PollEnter \/ PollServer \/ PollFallback \/ PollLeave
  BY <1>0, <1>24 DEF SelectFrom, PollEnter, PollServer, PollFallback, PollLeave, LeastOnly
<1>25. CASE Bind
  <2>1. UNCHANGED <<info, drops, dels, req, found, routing_algorithm>> BY <1>25 DEF Bind
  <2>2. Moves(rx) /\ pc'[rx] = "idle" BY <1>0, <1>25, <2>1 DEF Bind, Goto, Moves, ThreadTypes
  <2>3. CASE UNCHANGED <<server_list, ref_count, memory>>
    <3>1. Quiet BY <1>3, <1>4, <2>1, <2>3
    <3> HIDE DEF Quiet
    <3> QED BY <1>2, <1>15, <2>1, <2>2, <3>1
  <2>4. CASE Matched /\ Rerefer(route_list[pos].server, None)
    <3>1. pos \in 1..Len(route_list)
      <4>1. pos \in 1..(Len(route_list) + 1) BY <1>25 DEF Bind, IInv, RouteInv, Selecting
      <4> QED BY <1>0, <2>4, <4>1, LenProperties DEF Matched, RouteTypes
    <3>2. route_list[pos].server \in Slot /\ Uses(route_list[pos].server) > 0 BY <3>1, InUse
    <3>3. PICK x \in Slot : Rerefer(x, None) /\ Uses(x) > 0 BY <2>4, <3>2
    <3>4. x \in OrNone(Slot) /\ None \in OrNone(Slot) /\ x # None BY <1>0 DEF OrNone
    <3>5. Marked' /\ Queued' /\ Drains BY <2>1, <3>3, <3>4, RereferDrains
    <3> QED BY <1>15, <2>1, <2>2, <3>5
  <2> QED BY <1>25, <2>3, <2>4 DEF Bind
<1>26. CASE Forward
  <2>1. UNCHANGED <<info, drops, dels, req, found, routing_algorithm>> BY <1>26 DEF Forward
  <2>2. Moves(rx) /\ pc'[rx] = "idle" BY <1>0, <1>26, <2>1 DEF Forward, Goto, Moves, ThreadTypes
  <2>3. CASE UNCHANGED <<server_list, ref_count, memory>>
    <3>1. Quiet BY <1>3, <1>4, <2>1, <2>3
    <3> HIDE DEF Quiet
    <3> QED BY <1>2, <1>15, <2>1, <2>2, <3>1
  <2>4. CASE DeleteRouteListEntry(pos)
    <3>1. pos \in 1..Len(route_list)
      <4>1. pos \in 1..(Len(route_list) + 1) /\ pos <= Len(route_list)
        BY <1>26 DEF Forward, IInv, RouteInv, Matched
      <4> QED BY <1>0, <4>1, LenProperties DEF RouteTypes
    <3>2. Marked' /\ Queued' /\ Drains BY <1>21, <2>1, <2>4, <3>1
    <3> QED BY <1>15, <2>1, <2>2, <3>2
  <2> QED BY <1>26, <2>3, <2>4 DEF Forward
<1>27. CASE UNCHANGED vars
  <2>1. Quiet BY <1>3, <1>4, <1>27 DEF vars
  <2> HIDE DEF Quiet
  <2>2. UNCHANGED <<drops, routing_algorithm, pc, req, found>> BY <1>27 DEF vars
  <2>3. Moves(rx) /\ pc'[rx] = pc[rx] BY <2>2 DEF Moves
  <2> QED BY <1>2, <1>15, <2>1, <2>2, <2>3
<1> HIDE DEF Quiet
<1> QED BY <1>7, <1>8, <1>9, <1>10, <1>11, <1>12, <1>13, <1>14, <1>16, <1>17, <1>18, <1>19, <1>20,
           <1>22, <1>23, <1>24, <1>25, <1>26, <1>27 DEF Next

\* At the start nothing has been deleted.
LEMMA DrainBegins == ASSUME DeletionIsFinal, Init PROVE DrainInv
<1>1. \A s \in Slot : memory[s] = "unused" /\ drops[s] = 0 BY DEF Init
<1>2. server_list.to_be_del = <<>> /\ IsInjective(<<>>) /\ ToSet(<<>>) = {}
  BY DEF Init, EmptyList, IsInjective, ToSet
<1>3. rx \in Thread /\ \A t \in Thread : pc[t] = "idle" BY ThreadCount DEF Init
<1>4. Ctl \subseteq Thread BY ThreadCount
<1>5. Marked /\ Queued BY <1>1, <1>2 DEF Marked, Queued
<1>6. Replacing BY <1>3, <1>4 DEF Replacing
<1>7. LeastOnly BY <1>3 DEF LeastOnly, Init
<1> QED BY <1>5, <1>6, <1>7 DEF DrainInv

\* DrainInv holds, and every step drains.
LEMMA DrainHolds ==
  ASSUME DeletionIsFinal
  PROVE  Spec => [](IInv /\ RefInv /\ DrainInv)
<1>1. Init => DrainInv BY DrainBegins
<1>2. Init => RefInv BY RefBegins
<1>3. IInv /\ RefInv /\ DrainInv /\ [Next]_vars /\ IInv' => RefInv' /\ DrainInv'
  BY RefStep, DrainStep
<1> QED BY <1>1, <1>2, <1>3, Inductive, PTL DEF Spec

\* A server handed to RemoveEntryfromLcxlList has no user, gets none while its
\* removal is queued, and is handed over once: whatever replaces it, times its
\* routes out or selects in between.
THEOREM RemovedStayUnused ==
  ASSUME DeletionIsFinal
  PROVE  Spec => []RemovedAreUnused
<1>1. DrainInv => RemovedAreUnused BY DEF DrainInv, Queued, RemovedAreUnused
<1> QED BY <1>1, DrainHolds, PTL

\* DecRefListEntry never takes a count below zero: the first reference is given
\* back once.
THEOREM CountsStayPositive ==
  ASSUME DeletionIsFinal
  PROVE  Spec => []RefCountNotNegative
<1>1. ASSUME IInv, RefInv, DrainInv, NEW s \in Slot PROVE ref_count[s] >= 0
  <2> DEFINE u == Uses(s)
             d == drops[s]
  <2>1. u \in Nat /\ d \in Nat /\ memory[s] \in {"unused", "live", "freed"}
    BY <1>1, UsesTyped DEF IInv, PoolInv, Types, PoolTypes
  <2>2. (d # 0 => d = 1) /\ memory[s] # "freed" BY <1>1 DEF DrainInv, Marked
  <2>3. memory[s] = "live" => ref_count[s] = (u + 1) - d BY <1>1 DEF RefInv
  <2>4. memory[s] = "unused" => ref_count[s] = 0 BY <1>1 DEF RefInv
  <2> HIDE DEF u, d
  <2> QED BY <2>1, <2>2, <2>3, <2>4
<1>2. IInv /\ RefInv /\ DrainInv => RefCountNotNegative BY <1>1 DEF RefCountNotNegative
<1> QED BY <1>2, DrainHolds, PTL

\* The uses of a deleted server only become fewer: no selection and no route
\* finds it again.
THEOREM DeletedServersDrain ==
  ASSUME DeletionIsFinal
  PROVE  Spec => DrainsOnly
<1>1. ASSUME IInv, IInv', RefInv, RefInv', DrainInv, DrainInv', [Next]_vars, NEW s \in Slot, drops[s] > 0
      PROVE  Uses(s)' <= Uses(s)
  <2> DEFINE u == Uses(s)
             v == Uses(s)'
             d == drops[s]
  <2>1. /\ u \in Nat /\ v \in Nat /\ d \in Nat /\ drops'[s] \in Nat
        /\ ref_count[s] \in Int /\ ref_count'[s] \in Int
        /\ memory[s] \in {"unused", "live", "freed"} /\ memory'[s] \in {"unused", "live", "freed"}
    BY <1>1, UsesTyped DEF IInv, PoolInv, Types, PoolTypes
  <2>2. d # 0 BY <1>1, <2>1
  <2>3. drops'[s] = d /\ ref_count'[s] <= ref_count[s] BY <1>1, <2>2, DrainStep DEF Drains
  <2>4. memory[s] = "live" /\ memory'[s] = "live"
    <3>1. memory[s] # "freed" /\ memory'[s] # "freed" BY <1>1 DEF DrainInv, Marked
    <3>2. memory[s] # "unused" /\ memory'[s] # "unused" BY <1>1, <2>2, <2>3 DEF RefInv
    <3> QED BY <2>1, <3>1, <3>2
  <2>5. ref_count[s] = (u + 1) - d /\ ref_count'[s] = (v + 1) - d BY <1>1, <2>3, <2>4 DEF RefInv
  <2> HIDE DEF u, v, d
  <2>6. v <= u BY <2>1, <2>3, <2>5
  <2> QED BY <2>6 DEF u, v
<1>2. IInv /\ IInv' /\ RefInv /\ RefInv' /\ DrainInv /\ DrainInv' /\ [Next]_vars
        => [\A s \in Slot : drops[s] > 0 => Uses(s)' <= Uses(s)]_vars
  BY <1>1
<1> QED BY <1>2, DrainHolds, PTL DEF Spec, DrainsOnly

-----------------------------------------------------------------------------
(* The routes as a set of pairs.                                            *)

PairsOf(r) == {<<r[i].conn, r[i].server>> : i \in DOMAIN r}
Distinct(r) == \A i, j \in DOMAIN r : r[i].conn = r[j].conn => i = j

\* A pair of a list stands at one of its places.
LEMMA PairAt ==
  ASSUME NEW r \in Seq(Routes)
  PROVE  /\ DOMAIN r = 1..Len(r) /\ Len(r) \in Nat
         /\ \A q : q \in PairsOf(r) <=> \E i \in 1..Len(r) : q = <<r[i].conn, r[i].server>>
BY AtFinite DEF PairsOf

\* A route changed in place for its connection: an earlier pair gives way.
LEMMA PairsChange ==
  ASSUME NEW r \in Seq(Routes), Distinct(r), NEW p \in 1..Len(r), NEW x \in Routes,
         x.conn = r[p].conn
  PROVE  /\ \A y : y \in PairsOf([r EXCEPT ![p] = x])
                   <=> (y \in PairsOf(r) /\ y[1] # x.conn) \/ y = <<x.conn, x.server>>
         /\ x.server = r[p].server => PairsOf([r EXCEPT ![p] = x]) = PairsOf(r)
<1> DEFINE q == [r EXCEPT ![p] = x]
<1>1. /\ DOMAIN r = 1..Len(r) /\ DOMAIN q = 1..Len(r)
      /\ \A i \in 1..Len(r) : q[i] = IF i = p THEN x ELSE r[i]
  BY AtFinite
<1>2. \A i \in 1..Len(r) : r[i].conn = x.conn <=> i = p BY <1>1 DEF Distinct
<1> HIDE DEF q
<1>3. PairsOf(q) = {y \in PairsOf(r) : y[1] # x.conn} \cup {<<x.conn, x.server>>}
  BY <1>1, <1>2 DEF PairsOf
<1>4. x.server = r[p].server => PairsOf(q) = PairsOf(r) BY <1>1 DEF PairsOf
<1> QED BY <1>3, <1>4 DEF q

\* A deleted route takes its pair with it.
LEMMA PairsDrop ==
  ASSUME NEW r \in Seq(Routes), Distinct(r), NEW p \in 1..Len(r)
  PROVE  /\ <<r[p].conn, r[p].server>> \in PairsOf(r)
         /\ PairsOf(RemoveAt(r, p)) = PairsOf(r) \ {<<r[p].conn, r[p].server>>}
<1> DEFINE q == RemoveAt(r, p)
           n == Len(r)
           o(i) == IF i < p THEN i ELSE i + 1
           gone == <<r[p].conn, r[p].server>>
<1>1. /\ q \in Seq(Routes) /\ Len(q) = n - 1
      /\ \A i \in 1..(n - 1) : q[i] = r[o(i)]
  BY RemoveAtDrops
<1>2. DOMAIN r = 1..n /\ n \in Nat /\ DOMAIN q = 1..(n - 1) /\ p \in 1..n
  BY <1>1, AtFinite
<1> HIDE DEF q, n
<1>3. \A i \in 1..(n - 1) : o(i) \in 1..n /\ o(i) # p BY <1>2
<1>4. \A k \in (1..n) \ {p} : \E i \in 1..(n - 1) : o(i) = k
  <2> SUFFICES ASSUME NEW k \in 1..n, k # p PROVE \E i \in 1..(n - 1) : o(i) = k OBVIOUS
  <2>1. CASE k < p
    <3>1. k \in 1..(n - 1) /\ o(k) = k BY <1>2, <2>1
    <3> QED BY <3>1
  <2>2. CASE ~(k < p)
    <3>1. k - 1 \in 1..(n - 1) /\ o(k - 1) = k BY <1>2, <2>2
    <3> QED BY <3>1
  <2> QED BY <2>1, <2>2
<1> HIDE DEF o
<1>5. \A k \in 1..n : k # p => r[k].conn # r[p].conn BY <1>2 DEF Distinct
<1>6. ASSUME NEW y \in PairsOf(q) PROVE y \in PairsOf(r) /\ y # gone
  <2>1. PICK i \in 1..(n - 1) : y = <<q[i].conn, q[i].server>> BY <1>2 DEF PairsOf
  <2>2. o(i) \in 1..n /\ o(i) # p /\ y = <<r[o(i)].conn, r[o(i)].server>> BY <1>1, <1>3, <2>1
  <2>3. y \in PairsOf(r) BY <1>2, <2>2 DEF PairsOf
  <2>4. r[o(i)].conn # r[p].conn BY <1>5, <2>2
  <2> QED BY <2>2, <2>3, <2>4
<1>7. ASSUME NEW y \in PairsOf(r), y # gone PROVE y \in PairsOf(q)
  <2>1. PICK k \in 1..n : y = <<r[k].conn, r[k].server>> BY <1>2 DEF PairsOf
  <2>2. k # p BY <1>7, <2>1
  <2>3. PICK i \in 1..(n - 1) : o(i) = k BY <1>4, <2>2
  <2>4. q[i] = r[k] BY <1>1, <2>3
  <2> QED BY <1>2, <2>1, <2>3, <2>4 DEF PairsOf
<1>8. gone \in PairsOf(r) BY <1>2 DEF PairsOf
<1>9. PairsOf(q) = PairsOf(r) \ {gone}
  <2> HIDE DEF gone
  <2> QED BY <1>6, <1>7
<1> QED BY <1>8, <1>9 DEF q

\* A new route at the head adds its pair.
LEMMA PairsHead ==
  ASSUME NEW r \in Seq(Routes), NEW x \in Routes
  PROVE  PairsOf(<<x>> \o r) = PairsOf(r) \cup {<<x.conn, x.server>>}
<1> DEFINE q == <<x>> \o r
           n == Len(r)
<1>1. /\ q \in Seq(Routes) /\ Len(q) = n + 1 /\ q[1] = x
      /\ \A i \in 1..n : q[i + 1] = r[i]
  BY HeadAdds
<1>2. DOMAIN r = 1..n /\ n \in Nat /\ DOMAIN q = 1..(n + 1) BY <1>1, AtFinite
<1> HIDE DEF q, n
<1>3. ASSUME NEW y \in PairsOf(q) PROVE y \in PairsOf(r) \cup {<<x.conn, x.server>>}
  <2>1. PICK i \in 1..(n + 1) : y = <<q[i].conn, q[i].server>> BY <1>2 DEF PairsOf
  <2>2. CASE i = 1 BY <1>1, <2>1, <2>2
  <2>3. CASE i # 1
    <3>1. i - 1 \in 1..n /\ (i - 1) + 1 = i BY <1>2, <2>3
    <3>2. q[i] = r[i - 1] BY <1>1, <3>1
    <3> QED BY <1>2, <2>1, <3>1, <3>2 DEF PairsOf
  <2> QED BY <2>2, <2>3
<1>4. ASSUME NEW y \in PairsOf(r) PROVE y \in PairsOf(q)
  <2>1. PICK i \in 1..n : y = <<r[i].conn, r[i].server>> BY <1>2 DEF PairsOf
  <2>2. i + 1 \in 1..(n + 1) /\ q[i + 1] = r[i] BY <1>1, <1>2
  <2> QED BY <1>2, <2>1, <2>2 DEF PairsOf
<1>5. <<x.conn, x.server>> \in PairsOf(q)
  <2>1. 1 \in 1..(n + 1) BY <1>2
  <2> QED BY <1>1, <1>2, <2>1 DEF PairsOf
<1> QED BY <1>3, <1>4, <1>5 DEF q

-----------------------------------------------------------------------------
(* The pool is a load balancer.                                             *)

AllInv == IInv /\ RefInv /\ DrainInv

\* A server has a use while it is routed to or chosen.
LEMMA UsedOrNot ==
  Types => \A s \in Slot : Uses(s) = 0 <=> Balancer!Users(s) = {} /\ s \notin Chosen
<1> SUFFICES ASSUME Types, NEW s \in Slot
             PROVE  Uses(s) = 0 <=> Balancer!Users(s) = {} /\ s \notin Chosen
  OBVIOUS
<1> DEFINE A == At(route_list, s)
           c == Cardinality(A)
           b == Same(best, s)
<1>1. route_list \in Seq(Routes) BY DEF Types, RouteTypes
<1>2. c \in Nat /\ (c = 0 <=> A = {})
  <2>1. IsFiniteSet(A) BY <1>1, AtFinite
  <2> QED BY <2>1, FS_CardinalityType, FS_EmptySet
<1>3. A = {} <=> Balancer!Users(s) = {}
  <2>1. ASSUME NEW i \in A PROVE <<route_list[i].conn, route_list[i].server>> \in Balancer!Users(s)
    BY DEF At, Balancer!Users, Routed
  <2>2. ASSUME NEW y \in Balancer!Users(s) PROVE A # {}
    <3>1. PICK i \in DOMAIN route_list : y = <<route_list[i].conn, route_list[i].server>> /\ y[2] = s
      BY DEF Balancer!Users, Routed
    <3> QED BY <3>1 DEF At
  <2> HIDE DEF A
  <2> QED BY <2>1, <2>2
<1>4. b \in {0, 1} /\ (b = 0 <=> s \notin Chosen) BY ThreadAssumption DEF Same, Chosen
<1>5. Uses(s) = c + b BY UsesAt
<1> HIDE DEF A, c, b
<1>6. c + b = 0 <=> c = 0 /\ b = 0 BY <1>2, <1>4
<1> QED BY <1>2, <1>3, <1>4, <1>5, <1>6

\* How a server stands, by its uses.
ByUse(s) ==
  IF memory[s] = "unused" THEN "unknown" ELSE IF drops[s] = 0 THEN "serving"
  ELSE IF Uses(s) = 0 THEN "left" ELSE "leaving"

LEMMA StandingByUse ==
  AllInv => \A s \in Slot : /\ Standing(s) = ByUse(s)
                            /\ memory[s] # "unused" /\ drops[s] # 0 => ref_count[s] = Uses(s)
<1> SUFFICES ASSUME AllInv, NEW s \in Slot
             PROVE  /\ Standing(s) = ByUse(s)
                    /\ memory[s] # "unused" /\ drops[s] # 0 => ref_count[s] = Uses(s)
  OBVIOUS
<1> DEFINE u == Uses(s)
           d == drops[s]
<1>1. /\ u \in Nat /\ d \in Nat /\ ref_count[s] \in Int /\ memory[s] \in {"unused", "live", "freed"}
  BY UsesTyped DEF AllInv, IInv, PoolInv, Types, PoolTypes
<1>2. memory[s] # "freed" /\ (d # 0 => d = 1) BY DEF AllInv, DrainInv, Marked
<1>3. memory[s] = "live" => ref_count[s] = (u + 1) - d BY DEF AllInv, RefInv
<1>4. /\ s \in ToSet(server_list.to_be_del) => ref_count[s] = 0
      /\ d # 0 /\ ref_count[s] = 0 => s \in ToSet(server_list.to_be_del)
  BY DEF AllInv, DrainInv, Queued
<1> HIDE DEF u, d
<1>5. memory[s] # "unused" /\ d # 0 => ref_count[s] = u BY <1>1, <1>2, <1>3
<1>6. memory[s] # "unused" /\ d # 0 => (s \in ToSet(server_list.to_be_del) <=> u = 0)
  BY <1>4, <1>5
<1> QED BY <1>1, <1>2, <1>5, <1>6 DEF Standing, ByUse, u, d

\* The same of the state after a step.
LEMMA StandingByUseNext ==
  /\ Types' => \A s \in Slot : Uses(s)' = 0 <=> Balancer!Users(s)' = {} /\ s \notin Chosen'
  /\ AllInv' => \A s \in Slot : /\ Standing(s)' = ByUse(s)'
                                /\ memory'[s] # "unused" /\ drops'[s] # 0 => ref_count'[s] = Uses(s)'
<1>1. (Types => \A s \in Slot : Uses(s) = 0 <=> Balancer!Users(s) = {} /\ s \notin Chosen)'
  BY UsedOrNot, PTL
<1>2. (AllInv => \A s \in Slot : /\ Standing(s) = ByUse(s)
                                 /\ memory[s] # "unused" /\ drops[s] # 0 => ref_count[s] = Uses(s))'
  BY StandingByUse, PTL
<1> QED BY <1>1, <1>2

\* In a step that allocates and withdraws no server, a server leaves with its
\* last use and nothing else changes its standing.
LEMMA Departing ==
  ASSUME AllInv, AllInv', Drains, UNCHANGED <<memory, drops>>
  PROVE  /\ Balancer!Departs
         /\ UNCHANGED <<Routed, Chosen>> => Standings' = Standings
<1>0. Types /\ Types' BY DEF AllInv, IInv, PoolInv
<1> DEFINE Out(s) == Balancer!Users(s)' = {} /\ s \notin Chosen'
<1>1. ASSUME NEW s \in Slot
      PROVE  /\ Standing(s)' = IF Standing(s) = "leaving" /\ Out(s) THEN "left" ELSE Standing(s)
             /\ UNCHANGED <<Routed, Chosen>> => Standing(s)' = Standing(s)
  <2> DEFINE u == Uses(s)
             v == Uses(s)'
  <2>1. /\ Standing(s) = IF memory[s] = "unused" THEN "unknown" ELSE IF drops[s] = 0 THEN "serving"
                         ELSE IF u = 0 THEN "left" ELSE "leaving"
        /\ memory[s] # "unused" /\ drops[s] # 0 => ref_count[s] = u
    BY StandingByUse DEF ByUse
  <2>2. /\ Standing(s)' = IF memory[s] = "unused" THEN "unknown" ELSE IF drops[s] = 0 THEN "serving"
                          ELSE IF v = 0 THEN "left" ELSE "leaving"
        /\ memory[s] # "unused" /\ drops[s] # 0 => ref_count'[s] = v
    BY StandingByUseNext DEF ByUse
  <2>3. u \in Nat /\ v \in Nat BY <1>0, UsesTyped
  <2>4. drops[s] # 0 => ref_count'[s] <= ref_count[s] BY DEF Drains
  <2>5. v = 0 <=> Out(s) BY <1>0, StandingByUseNext
  <2>6. u = 0 <=> Balancer!Users(s) = {} /\ s \notin Chosen BY <1>0, UsedOrNot
  <2>7. UNCHANGED <<Routed, Chosen>> => (u = 0 <=> v = 0) BY <2>5, <2>6 DEF Balancer!Users
  <2> HIDE DEF u, v, Out
  <2> QED BY <2>1, <2>2, <2>3, <2>4, <2>5, <2>7
<1>2. \A s \in Slot : Standings[s] = Standing(s) BY DEF Standings
<1>3. Standings' = [s \in Slot |-> Standing(s)'] BY DEF Standings
<1> QED BY <1>1, <1>2, <1>3 DEF Balancer!Departs, Standings

\* Under DrainInv nothing is freed.
LEMMA MemoryStays ==
  ASSUME AllInv, AllInv', OnlyFreed
  PROVE  memory' = memory
<1>1. /\ memory \in [Slot -> {"unused", "live", "freed"}] /\ memory' \in [Slot -> {"unused", "live", "freed"}]
      /\ \A s \in Slot : memory'[s] # "freed"
  BY DEF AllInv, IInv, PoolInv, Types, PoolTypes, DrainInv, Marked
<1> QED BY <1>1 DEF OnlyFreed

\* A handler's lock, unlock or look at the servers.
LEMMA ListIdles ==
  ASSUME AllInv, AllInv', Drains, UNCHANGED <<route_list, best, drops, Opening>>,
         \/ UNCHANGED <<server_list, memory>>
         \/ server_list' = Locked(server_list, LockMod) /\ memory' = memory
         \/ (\E t \in Thread : InBracket(t)) /\ UnlockServerList(server_list)
         \/ SelectNone
  PROVE  UNCHANGED Balancer!lbVars
<1>1. OnlyFreed BY ListRefs DEF AllInv
<1>2. memory' = memory BY <1>1, MemoryStays
<1>3. Routed' = Routed /\ Chosen' = Chosen BY DEF Routed, Chosen
<1>4. Standings' = Standings BY <1>2, <1>3, Departing
<1> QED BY <1>3, <1>4 DEF Balancer!lbVars

\* Only rx opens connections.
LEMMA OpeningStays ==
  ASSUME \/ pc'[rx] = pc[rx] /\ pkt' = pkt
         \/ pc[rx] \notin Selecting /\ pc'[rx] \notin Selecting
         \/ pc[rx] \in Selecting /\ pc'[rx] \in Selecting /\ pkt' = pkt
  PROVE  Opening' = Opening
BY DEF Opening

\* ADD_SERVER with a new address puts a server into service.
LEMMA RegisterRefines ==
  ASSUME AllInv, AllInv', NEW t \in Ctl, AddNew(t)
  PROVE  Balancer!Next
<1>1. PICK n \in Slot : /\ memory[n] = "unused" /\ memory' = [memory EXCEPT ![n] = "live"]
                        /\ server_list' = WithEntry(server_list, n)
  BY DEF AddNew
<1>2. /\ pc' = [pc EXCEPT ![t] = "unlock"] /\ UNCHANGED <<drops, route_list, pkt, best>>
      /\ PoolTypes /\ ThreadTypes /\ t \in Thread /\ t # rx /\ rx \in Thread
  BY ThreadCount DEF AddNew, Goto, routeVars, rxVars, AllInv, IInv, PoolInv, Types
<1>3. UNCHANGED <<Routed, Opening, Chosen>>
  <2>1. pc'[rx] = pc[rx] BY <1>2 DEF ThreadTypes
  <2> QED BY <1>2, <2>1 DEF Routed, Opening, Chosen
<1>4. server_list'.to_be_del = server_list.to_be_del BY <1>1, <1>2 DEF WithEntry, PoolTypes, Lists
<1>5. drops[n] = 0 BY <1>1 DEF AllInv, RefInv
<1>6. ASSUME NEW s \in Slot
      PROVE  Standing(s)' = IF s = n THEN "serving" ELSE Standing(s)
  <2>1. memory'[s] = IF s = n THEN "live" ELSE memory[s] BY <1>1, <1>2 DEF PoolTypes
  <2> QED BY <1>2, <1>4, <1>5, <2>1 DEF Standing
<1>7. Standings[n] = "unknown" BY <1>1 DEF Standings, Standing
<1>8. Standings' = [Standings EXCEPT ![n] = "serving"]
  <2>1. Standings' = [s \in Slot |-> Standing(s)'] /\ Standings = [s \in Slot |-> Standing(s)]
    BY DEF Standings
  <2> QED BY <1>6, <2>1
<1>9. Balancer!Register(n) BY <1>3, <1>7, <1>8 DEF Balancer!Register
<1> QED BY <1>9 DEF Balancer!Next

\* DEL_SERVER withdraws a server, once.
LEMMA WithdrawRefines ==
  ASSUME AllInv, AllInv', Drains, NEW t \in Ctl, DelApply(t)
  PROVE  [Balancer!Next]_(Balancer!lbVars)
<1> DEFINE x == found[t]
<1>1. /\ pc' = [pc EXCEPT ![t] = "idle"] /\ UNCHANGED <<route_list, pkt, best>>
      /\ Types /\ PoolTypes /\ ThreadTypes /\ t \in Thread /\ t # rx /\ rx \in Thread
      /\ None \notin Slot
  BY ThreadCount, ThreadAssumption DEF DelApply, Goto, routeVars, rxVars, AllInv, IInv, PoolInv, Types
<1>2. UNCHANGED <<Routed, Opening, Chosen>>
  <2>1. pc'[rx] = pc[rx] BY <1>1 DEF ThreadTypes
  <2> QED BY <1>1, <2>1 DEF Routed, Opening, Chosen
<1>3. CASE UNCHANGED <<info, drops, ref_count, server_list, memory>>
  <2>1. UNCHANGED Balancer!lbVars BY <1>1, <1>2, <1>3, ListIdles
  <2> QED BY <2>1
<1>4. CASE /\ x # None /\ "DELETED" \notin info[x].status
           /\ drops' = [drops EXCEPT ![x] = @ + 1] /\ Rerefer(x, None)
  <2>1. x \in Slot /\ memory[x] # "unused"
    <3>1. x \in Linked BY <1>1, <1>4 DEF DelApply, AllInv, IInv, PoolInv, Pointers, OrNone
    <3> QED BY <3>1, InUse DEF AllInv
  <2>2. drops[x] = 0 BY <1>4, <2>1 DEF AllInv, DrainInv, Marked
  <2>3. \A s \in Slot : drops'[s] = IF s = x THEN 1 ELSE drops[s] BY <1>1, <1>4, <2>2 DEF ThreadTypes
  <2>4. memory' = memory
    <3>1. x \in OrNone(Slot) /\ None \in OrNone(Slot) BY <2>1 DEF OrNone
    <3>2. OnlyFreed BY <1>1, <1>4, <3>1, RereferEffect
    <3> QED BY <3>2, MemoryStays
  <2>5. PICK y \in Slot : y = x BY <2>1
  <2> HIDE DEF x
  <2>6. ASSUME NEW s \in Slot
        PROVE  Standing(s)' = IF s = y THEN IF Balancer!Users(y) = {} /\ y \notin Chosen
                                            THEN "left" ELSE "leaving"
                              ELSE Standing(s)
    <3>1. Standing(s) = IF memory[s] = "unused" THEN "unknown" ELSE IF drops[s] = 0 THEN "serving"
                        ELSE IF Uses(s) = 0 THEN "left" ELSE "leaving"
      BY StandingByUse DEF ByUse
    <3>2. Standing(s)' = IF memory'[s] = "unused" THEN "unknown" ELSE IF drops'[s] = 0 THEN "serving"
                         ELSE IF Uses(s)' = 0 THEN "left" ELSE "leaving"
      BY StandingByUseNext DEF ByUse
    <3>3. Uses(s)' = Uses(s) BY <1>1, SameUses
    <3>4. Uses(y) = 0 <=> Balancer!Users(y) = {} /\ y \notin Chosen BY <1>1, UsedOrNot
    <3>5. memory[y] # "unused" BY <2>1, <2>5
    <3> QED BY <2>3, <2>4, <2>5, <3>1, <3>2, <3>3, <3>4, <3>5
  <2>7. Standings[y] = "serving" BY <1>1, <2>1, <2>2, <2>5 DEF Standings, Standing
  <2>8. Standings' = [Standings EXCEPT ![y] = IF Balancer!Users(y) = {} /\ y \notin Chosen
                                              THEN "left" ELSE "leaving"]
    <3>1. Standings' = [s \in Slot |-> Standing(s)'] /\ Standings = [s \in Slot |-> Standing(s)]
      BY DEF Standings
    <3> QED BY <2>6, <3>1
  <2>9. Balancer!Withdraw(y) BY <1>2, <2>7, <2>8 DEF Balancer!Withdraw
  <2> QED BY <2>9 DEF Balancer!Next
<1> QED BY <1>3, <1>4 DEF DelApply

\* A route is deleted: its connection is over.
LEMMA CloseRefines ==
  ASSUME AllInv, AllInv', Drains, UNCHANGED <<drops, best>>, NEW p \in 1..Len(route_list),
         DeleteRouteListEntry(p), Opening = {}, Opening' = {}
  PROVE  Balancer!Next
<1>0. Types /\ route_list \in Seq(Routes) /\ Distinct(route_list) /\ None \in OrNone(Slot)
  BY DEF AllInv, IInv, PoolInv, Types, RouteTypes, RouteInv, OneRoutePerConnection, Distinct, OrNone
<1> DEFINE y == <<route_list[p].conn, route_list[p].server>>
<1>1. y \in Routed /\ Routed' = Routed \ {y} /\ Chosen' = Chosen
  BY <1>0, PairsDrop DEF DeleteRouteListEntry, Routed, PairsOf, Chosen
<1>2. memory' = memory
  <2>1. route_list[p].server \in Slot BY InUse DEF AllInv
  <2>2. route_list[p].server \in OrNone(Slot) BY <2>1 DEF OrNone
  <2>3. Rerefer(route_list[p].server, None) BY DEF DeleteRouteListEntry
  <2>4. OnlyFreed BY <1>0, <2>2, <2>3, RereferEffect
  <2> QED BY <2>4, MemoryStays
<1> HIDE DEF y
<1>3. Balancer!Departs BY <1>2, Departing
<1>4. Balancer!Close(y) BY <1>1, <1>3 DEF Balancer!Close
<1> QED BY <1>1, <1>4 DEF Balancer!Next

\* The selection settles on a server, and gives up the one it had.
LEMMA ConsiderRefines ==
  ASSUME AllInv, AllInv', Drains, VisitServer
  PROVE  [Balancer!Next]_(Balancer!lbVars)
<1> DEFINE s == found[rx]
<1>0. /\ Types /\ PoolTypes /\ ThreadTypes /\ rx \in Thread /\ None \notin Slot /\ s \in Slot /\ s # None
      /\ pc[rx] = "visit" /\ UNCHANGED <<pc, pkt, route_list, drops>>
      /\ best \in OrNone(Slot) /\ s \in OrNone(Slot)
  BY ThreadCount, ThreadAssumption
  DEF VisitServer, routeVars, AllInv, IInv, PoolInv, Types, ThreadTypes, RouteTypes, OrNone
<1>1. Opening = {pkt.conn} /\ Opening' = Opening /\ Routed' = Routed
  BY <1>0 DEF Opening, Selecting, Routed
<1>2. CASE UNCHANGED <<server_list, ref_count, memory, best>>
  <2>1. UNCHANGED Balancer!lbVars BY <1>0, <1>1, <1>2, ListIdles
  <2> QED BY <2>1
<1>3. CASE ServerIsAvaliable(s) /\ Rerefer(best, s) /\ best' = s
  <2>1. memory' = memory
    <3>1. OnlyFreed BY <1>0, <1>3, RereferEffect
    <3> QED BY <3>1, MemoryStays
  <2>2. Balancer!Departs BY <1>0, <2>1, Departing
  <2>3. memory[s] # "unused" /\ drops[s] = 0
    <3>1. s \in Linked
      BY <1>0, <1>3 DEF VisitServer, AllInv, IInv, PoolInv, Pointers, OrNone
    <3>2. memory[s] # "unused" BY <3>1, InUse DEF AllInv
    <3>3. drops[s] = 0 BY <1>0, <1>3 DEF ServerIsAvaliable, AllInv, DrainInv, Marked
    <3> QED BY <3>2, <3>3
  <2>4. PICK y \in Slot : y = s BY <1>0
  <2>5. Standings[y] = "serving" BY <2>3, <2>4 DEF Standings, Standing
  <2>6. Chosen' = {y} BY <1>0, <1>3, <2>4 DEF Chosen
  <2>7. Balancer!Consider(y) BY <1>1, <2>2, <2>5, <2>6 DEF Balancer!Consider
  <2> QED BY <2>7 DEF Balancer!Next
<1> QED BY <1>2, <1>3 DEF VisitServer

\* A route changed in place, for the same connection.
LEMMA RoutedChange ==
  ASSUME AllInv, NEW p \in 1..Len(route_list), NEW x \in Routes,
         route_list' = [route_list EXCEPT ![p] = x], x.conn = route_list[p].conn
  PROVE  /\ Routed' = {y \in Routed : y[1] # x.conn} \cup {<<x.conn, x.server>>}
         /\ x.server = route_list[p].server => Routed' = Routed
<1>0. route_list \in Seq(Routes) /\ Distinct(route_list)
  BY DEF AllInv, IInv, PoolInv, Types, RouteTypes, RouteInv, OneRoutePerConnection, Distinct
<1> DEFINE r == route_list
           q == [r EXCEPT ![p] = x]
<1>1. /\ \A y : y \in PairsOf(q) <=> (y \in PairsOf(r) /\ y[1] # x.conn) \/ y = <<x.conn, x.server>>
      /\ x.server = r[p].server => PairsOf(q) = PairsOf(r)
  <2>1. r \in Seq(Routes) /\ Distinct(r) /\ p \in 1..Len(r) /\ x.conn = r[p].conn BY <1>0
  <2> HIDE DEF r
  <2> QED BY <2>1, PairsChange
<1>2. Routed = PairsOf(r) /\ Routed' = PairsOf(q) BY DEF Routed, PairsOf
<1> HIDE DEF q
<1> QED BY <1>1, <1>2

\* The connection gets the server chosen, or none.
LEMMA BindRefines ==
  ASSUME AllInv, AllInv', Drains, Bind
  PROVE  [Balancer!Next]_(Balancer!lbVars)
<1>0. /\ Types /\ route_list \in Seq(Routes) /\ Distinct(route_list) /\ ThreadTypes /\ rx \in Thread
      /\ None \notin Slot /\ None \in OrNone(Slot) /\ best \in Slot \cup {None}
  BY ThreadCount, ThreadAssumption
  DEF AllInv, IInv, PoolInv, Types, RouteTypes, RouteInv, OneRoutePerConnection, Distinct, OrNone
<1>1. /\ pc[rx] = "bind" /\ pc' = [pc EXCEPT ![rx] = "idle"] /\ best' = None /\ drops' = drops
      /\ pkt \in Pkts /\ pos \in 1..(Len(route_list) + 1)
      /\ \A j \in 1..(pos - 1) : route_list[j].conn # pkt.conn
      /\ Matched \/ pos = Len(route_list) + 1
  BY DEF Bind, Goto, AllInv, IInv, RouteInv, Selecting
<1>2. /\ Opening = {pkt.conn} /\ Opening' = {} /\ Chosen' = {} /\ pkt.conn \in Conn
      /\ Chosen = IF best = None THEN {} ELSE {best}
  <2>1. pc'[rx] = "idle" BY <1>0, <1>1 DEF ThreadTypes
  <2> QED BY <1>1, <2>1 DEF Opening, Selecting, Chosen, Pkts
<1>3. CASE best = None /\ UNCHANGED <<route_list, server_list, ref_count, memory>>
  <2>1. Routed' = Routed /\ Chosen' = Chosen BY <1>2, <1>3 DEF Routed
  <2>2. Standings' = Standings BY <1>1, <1>3, <2>1, Departing
  <2>3. Balancer!Refuse BY <1>2, <1>3, <2>1, <2>2 DEF Balancer!Refuse
  <2> QED BY <2>3 DEF Balancer!Next
<1>4. ASSUME best # None, memory' = memory,
             Routed' = {y \in Routed : y[1] # pkt.conn} \cup {<<pkt.conn, best>>}
      PROVE  Balancer!Next
  <2>1. Balancer!Departs BY <1>1, <1>4, Departing
  <2>2. PICK c \in Conn, s \in Slot : c = pkt.conn /\ s = best BY <1>0, <1>2, <1>4
  <2>3. Balancer!Accept(c, s) BY <1>2, <1>4, <2>1, <2>2 DEF Balancer!Accept
  <2> QED BY <2>2, <2>3 DEF Balancer!Next
<1>5. CASE /\ best # None /\ ~Matched
           /\ route_list' = <<[conn |-> pkt.conn, status |-> "NORMAL", server |-> best,
                               stale |-> FALSE]>> \o route_list
           /\ UNCHANGED <<server_list, ref_count, memory>>
  <2> DEFINE x == [conn |-> pkt.conn, status |-> "NORMAL", server |-> best, stale |-> FALSE]
  <2>1. x \in Routes /\ x.server = best /\ x.conn = pkt.conn BY <1>0, <1>2, <1>5 DEF Routes
  <2>2. route_list' = <<x>> \o route_list BY <1>5
  <2> HIDE DEF x
  <2>3. Routed' = Routed \cup {<<pkt.conn, best>>}
    <3>1. PairsOf(<<x>> \o route_list) = PairsOf(route_list) \cup {<<x.conn, x.server>>}
      BY <1>0, <2>1, PairsHead
    <3> QED BY <2>1, <2>2, <3>1 DEF Routed, PairsOf
  <2>4. \A y \in Routed : y[1] # pkt.conn
    <3>1. pos = Len(route_list) + 1 /\ Len(route_list) \in Nat /\ DOMAIN route_list = 1..Len(route_list)
      BY <1>0, <1>1, <1>5, AtFinite
    <3>2. \A j \in 1..Len(route_list) : route_list[j].conn # pkt.conn BY <1>1, <3>1
    <3> QED BY <3>1, <3>2 DEF Routed
  <2>5. Routed' = {y \in Routed : y[1] # pkt.conn} \cup {<<pkt.conn, best>>} BY <2>3, <2>4
  <2> QED BY <1>4, <1>5, <2>5
<1>6. CASE /\ best # None /\ Matched
           /\ Rerefer(route_list[pos].server, None)
           /\ route_list' = [route_list EXCEPT ![pos].server = best, ![pos].status = "NORMAL"]
  <2> DEFINE x == [route_list[pos] EXCEPT !.server = best, !.status = "NORMAL"]
  <2>1. pos \in 1..Len(route_list) BY <1>0, <1>1, <1>6, LenProperties DEF Matched
  <2>2. /\ x \in Routes /\ x.server = best /\ x.conn = pkt.conn /\ route_list[pos].conn = pkt.conn
        /\ route_list' = [route_list EXCEPT ![pos] = x]
    <3>1. route_list[pos] \in Routes BY <1>0, <2>1, ElementOfSeq
    <3> QED BY <1>0, <1>6, <2>1, <3>1 DEF Routes, Matched
  <2> HIDE DEF x
  <2>3. Routed' = {y \in Routed : y[1] # pkt.conn} \cup {<<pkt.conn, best>>}
    <3>1. x.conn = route_list[pos].conn BY <2>2
    <3>2. route_list' = [route_list EXCEPT ![pos] = x] BY <2>2
    <3>3. Routed' = {y \in Routed : y[1] # x.conn} \cup {<<x.conn, x.server>>}
      BY <2>1, <2>2, <3>1, <3>2, RoutedChange
    <3> QED BY <2>2, <3>3
  <2>4. memory' = memory
    <3>1. route_list[pos].server \in Slot BY <2>1, InUse DEF AllInv
    <3>2. route_list[pos].server \in OrNone(Slot) BY <3>1 DEF OrNone
    <3>3. OnlyFreed BY <1>0, <1>6, <3>2, RereferEffect
    <3> QED BY <3>3, MemoryStays
  <2> QED BY <1>4, <1>6, <2>3, <2>4
<1> QED BY <1>3, <1>5, <1>6 DEF Bind

\* A route refreshed or moved on in its TCP state stays the same pair.
LEMMA TouchIdles ==
  ASSUME AllInv, AllInv', Drains, UNCHANGED <<server_list, memory, drops, best, Opening>>,
         NEW p \in 1..Len(route_list), NEW x \in Routes, route_list' = [route_list EXCEPT ![p] = x],
         x.conn = route_list[p].conn, x.server = route_list[p].server
  PROVE  UNCHANGED Balancer!lbVars
<1>1. Routed' = Routed BY RoutedChange
<1>2. Chosen' = Chosen BY DEF Chosen
<1>3. Standings' = Standings BY <1>1, <1>2, Departing
<1> QED BY <1>1, <1>2, <1>3 DEF Balancer!lbVars

\* A SYN opens a connection, or opens one again.
LEMMA OpenRefines ==
  ASSUME AllInv, AllInv', Drains, UNCHANGED <<memory, drops, best, pkt>>, Routed' = Routed,
         pc[rx] = "walk", pc'[rx] = "select"
  PROVE  Balancer!Next
<1>1. pkt.conn \in Conn
  <2>1. pkt \in Pkts BY DEF AllInv, IInv, RouteInv
  <2> QED BY <2>1 DEF Pkts
<1>2. Opening = {} /\ Opening' = {pkt.conn} /\ Chosen' = Chosen BY DEF Opening, Selecting, Chosen
<1>3. Standings' = Standings BY <1>2, Departing
<1>4. Balancer!Open(pkt.conn) BY <1>2, <1>3 DEF Balancer!Open
<1> QED BY <1>1, <1>4 DEF Balancer!Next

\* GetRouteListEntry: a SYN opens its connection, any other segment finds its
\* route, an expired route is closed.
LEMMA WalkRefines ==
  ASSUME AllInv, AllInv', Drains, WalkRoute
  PROVE  [Balancer!Next]_(Balancer!lbVars)
<1>0. /\ Types /\ ThreadTypes /\ route_list \in Seq(Routes) /\ rx \in Thread
      /\ pc[rx] = "walk" /\ pos \in 1..Len(route_list) /\ UNCHANGED <<drops, best, pkt>>
  <2>1. /\ Types /\ ThreadTypes /\ route_list \in Seq(Routes) /\ rx \in Thread
        /\ pc[rx] = "walk" /\ UNCHANGED <<drops, best, pkt>>
        /\ pos <= Len(route_list) /\ pos \in 1..(Len(route_list) + 1)
    BY ThreadCount DEF WalkRoute, AllInv, IInv, PoolInv, Types, RouteTypes, RouteInv
  <2> QED BY <2>1, LenProperties
<1>1. CASE /\ route_list' = [route_list EXCEPT ![pos].stale = FALSE]
           /\ Goto(rx, IF IsSyn THEN "select" ELSE "forward")
           /\ UNCHANGED <<server_list, ref_count, memory, pos>>
  <2> DEFINE x == [route_list[pos] EXCEPT !.stale = FALSE]
  <2>1. /\ x \in Routes /\ x.conn = route_list[pos].conn /\ x.server = route_list[pos].server
        /\ route_list' = [route_list EXCEPT ![pos] = x]
    <3>1. route_list[pos] \in Routes BY <1>0, ElementOfSeq
    <3> QED BY <1>0, <1>1, <3>1 DEF Routes
  <2> HIDE DEF x
  <2>2. CASE IsSyn
    <3>1. pc'[rx] = "select" BY <1>0, <1>1, <2>2 DEF Goto, ThreadTypes
    <3>2. Routed' = Routed BY <1>0, <2>1, RoutedChange
    <3>3. Balancer!Next BY <1>0, <1>1, <3>1, <3>2, OpenRefines
    <3> QED BY <3>3
  <2>3. CASE ~IsSyn
    <3>1. pc'[rx] = "forward" BY <1>0, <1>1, <2>3 DEF Goto, ThreadTypes
    <3>2. Opening' = Opening BY <1>0, <3>1, OpeningStays DEF Selecting
    <3>3. UNCHANGED Balancer!lbVars BY <1>0, <1>1, <2>1, <3>2, TouchIdles
    <3> QED BY <3>3
  <2> QED BY <2>2, <2>3
<1>2. CASE DeleteRouteListEntry(pos) /\ UNCHANGED <<pc, pos>>
  <2>1. Opening = {} /\ Opening' = {} BY <1>0, <1>2 DEF Opening, Selecting
  <2>2. Balancer!Next BY <1>0, <1>2, <2>1, CloseRefines
  <2> QED BY <2>2
<1>3. CASE UNCHANGED <<server_list, ref_count, memory, route_list, pc>>
  <2>1. Opening' = Opening BY <1>0, <1>3 DEF Opening
  <2>2. UNCHANGED Balancer!lbVars BY <1>0, <1>3, <2>1, ListIdles
  <2> QED BY <2>2
<1> QED BY <1>1, <1>2, <1>3 DEF WalkRoute

\* A later segment moves its route on, or closes it.
LEMMA ForwardRefines ==
  ASSUME AllInv, AllInv', Drains, Forward
  PROVE  [Balancer!Next]_(Balancer!lbVars)
<1> DEFINE st == NextStatus(route_list[pos].status)
<1>0. /\ Types /\ ThreadTypes /\ route_list \in Seq(Routes) /\ rx \in Thread
      /\ pc[rx] = "forward" /\ pos \in 1..Len(route_list) /\ UNCHANGED <<drops, best>>
      /\ pc' = [pc EXCEPT ![rx] = "idle"]
  <2>1. /\ Types /\ ThreadTypes /\ route_list \in Seq(Routes) /\ rx \in Thread
        /\ pc[rx] = "forward" /\ UNCHANGED <<drops, best>>
        /\ pc' = [pc EXCEPT ![rx] = "idle"]
        /\ pos <= Len(route_list) /\ pos \in 1..(Len(route_list) + 1)
    BY ThreadCount DEF Forward, Goto, AllInv, IInv, PoolInv, Types, RouteTypes, RouteInv, Matched
  <2> QED BY <2>1, LenProperties
<1>1. pc'[rx] = "idle" BY <1>0 DEF ThreadTypes
<1>2. Opening = {} /\ Opening' = {} BY <1>0, <1>1 DEF Opening, Selecting
<1>3. CASE DeleteRouteListEntry(pos)
  <2>1. Balancer!Next BY <1>0, <1>2, <1>3, CloseRefines
  <2> QED BY <2>1
<1>4. CASE /\ route_list' = [route_list EXCEPT ![pos].status = st]
           /\ UNCHANGED <<server_list, ref_count, memory>>
  <2> DEFINE x == [route_list[pos] EXCEPT !.status = st]
  <2>1. /\ x \in Routes /\ x.conn = route_list[pos].conn /\ x.server = route_list[pos].server
        /\ route_list' = [route_list EXCEPT ![pos] = x]
    <3>1. route_list[pos] \in Routes BY <1>0, ElementOfSeq
    <3>2. st \in {"NORMAL", "LAST_ACK", "CLOSED"} BY <3>1 DEF NextStatus, Routes
    <3> HIDE DEF st
    <3> QED BY <1>0, <1>4, <3>1, <3>2 DEF Routes
  <2> HIDE DEF x
  <2>2. UNCHANGED Balancer!lbVars BY <1>0, <1>2, <1>4, <2>1, TouchIdles
  <2> QED BY <2>2
<1> QED BY <1>3, <1>4 DEF Forward

\* Every step of the pool is one of the load balancer, or none.
LEMMA BalancerStep ==
  ASSUME DeletionIsFinal, AllInv, AllInv', [Next]_vars
  PROVE  [Balancer!Next]_(Balancer!lbVars)
<1>0. /\ Types /\ ThreadTypes /\ RouteTypes /\ rx \in Thread /\ rx \notin Ctl /\ rx # wk
      /\ Ctl \subseteq Thread /\ wk \in Thread /\ LeastOnly /\ route_list \in Seq(Routes)
  BY ThreadCount DEF AllInv, IInv, PoolInv, Types, RouteTypes, DrainInv
<1>1. Drains BY DrainStep DEF AllInv
<1> USE DEF routeVars, rxVars, poolVars
<1> DEFINE Listed == \/ UNCHANGED <<server_list, memory>>
                     \/ server_list' = Locked(server_list, LockMod) /\ memory' = memory
                     \/ (\E t \in Thread : InBracket(t)) /\ UnlockServerList(server_list)
                     \/ SelectNone
           Idles == UNCHANGED Balancer!lbVars
<1>2. ASSUME UNCHANGED <<route_list, best, drops>>, Opening' = Opening, Listed PROVE Idles
  BY <1>1, <1>2, ListIdles
<1>3. ASSUME NEW t \in Thread, NEW r, Lookup(t, r) PROVE Idles
  <2>1. /\ pc[t] = "idle" /\ pc' = [pc EXCEPT ![t] = "apply"] /\ Listed
        /\ UNCHANGED <<route_list, best, drops, pkt>>
    BY <1>3 DEF Lookup, Goto
  <2>2. Opening' = Opening BY <1>0, <2>1 DEF Opening, Selecting, ThreadTypes
  <2> QED BY <1>2, <2>1, <2>2
<1>4. CASE \E t \in Ctl, m \in Mac, i \in AddInfo : AddServer(t, m, i)
  <2>1. PICK t \in Thread, m \in Mac, i \in AddInfo : AddServer(t, m, i) BY <1>0, <1>4
  <2>2. Lookup(t, [op |-> "add", mac |-> m, info |-> i]) BY <2>1 DEF AddServer
  <2> QED BY <1>3, <2>2
<1>5. CASE \E t \in Ctl, m \in Mac : DelServer(t, m)
  <2>1. PICK t \in Thread, m \in Mac : DelServer(t, m) BY <1>0, <1>5
  <2>2. Lookup(t, [op |-> "del", mac |-> m]) BY <2>1 DEF DelServer
  <2> QED BY <1>3, <2>2
<1>6. CASE \E m \in Mac : ReceiveChecking(m)
  <2>1. PICK m \in Mac : Lookup(rx, [op |-> "checked", mac |-> m]) BY <1>6 DEF ReceiveChecking
  <2> QED BY <1>0, <1>3, <2>1
<1>7. CASE \/ \E t \in Ctl, a \in Algorithms : SetRoutingAlgorithm(t, a)
           \/ WorkerCheck \/ UNCHANGED vars
  <2>1. UNCHANGED <<route_list, best, drops, pc, pkt>> /\ Listed
    BY <1>7 DEF SetRoutingAlgorithm, WorkerCheck, vars
  <2> HIDE DEF Listed
  <2>2. Opening' = Opening BY <2>1, OpeningStays
  <2> QED BY <1>2, <2>1, <2>2
<1>8. CASE \E t \in Ctl : AddNew(t)
  <2>1. Balancer!Next BY <1>8, RegisterRefines
  <2> QED BY <2>1
<1>9. CASE \E t \in Ctl : DelApply(t) BY <1>1, <1>9, WithdrawRefines
<1>10. ASSUME NEW u \in Thread \ {rx}, NEW l, Goto(u, l) PROVE pc'[rx] = pc[rx]
  BY <1>0, <1>10 DEF Goto, ThreadTypes
<1>11. CASE \E t \in Ctl : AddExisting(t)
  <2>1. PICK t \in Thread \ {rx} : AddExisting(t) BY <1>0, <1>11
  <2>2. UNCHANGED <<route_list, best, drops, pkt>> /\ Listed /\ Goto(t, "unlock")
    BY <2>1 DEF AddExisting
  <2> HIDE DEF Listed
  <2>3. Opening' = Opening BY <1>10, <2>2, OpeningStays
  <2> QED BY <1>2, <2>2, <2>3
<1>12. CASE \E t \in Ctl \cup {rx} : Unlock(t)
  <2>1. PICK t \in Thread : Unlock(t) BY <1>0, <1>12
  <2>2. UNCHANGED <<route_list, best, drops, pkt>> /\ UnlockServerList(server_list) /\ Goto(t, "idle")
        /\ pc[t] = "unlock"
    BY <2>1 DEF Unlock
  <2>3. Listed BY <2>2 DEF InBracket
  <2> HIDE DEF Listed
  <2>4. Opening' = Opening BY <1>0, <2>2 DEF Opening, Selecting, Goto, ThreadTypes
  <2> QED BY <1>2, <2>2, <2>3, <2>4
<1>13. CASE CheckedApply
  <2>1. UNCHANGED <<route_list, best, drops, pkt>> /\ Listed /\ pc[rx] = "apply" /\ Goto(rx, "unlock")
    BY <1>13 DEF CheckedApply
  <2> HIDE DEF Listed
  <2>2. Opening' = Opening BY <1>0, <2>1 DEF Opening, Selecting, Goto, ThreadTypes
  <2> QED BY <1>2, <2>1, <2>2
<1>14. CASE WorkerStart \/ WorkerEnd
  <2>1. UNCHANGED <<route_list, best, drops, pkt>> /\ \E l : Goto(wk, l)
    BY <1>14 DEF WorkerStart, WorkerEnd
  <2>2. Listed BY <1>0, <1>14 DEF WorkerStart, WorkerEnd, InBracket
  <2> HIDE DEF Listed
  <2>3. Opening' = Opening BY <1>0, <1>10, <2>1, OpeningStays
  <2> QED BY <1>2, <2>1, <2>2, <2>3
<1>15. CASE \E c \in Conn, f \in Segments : Receive(c, f)
  <2>1. UNCHANGED <<route_list, best, drops>> /\ Listed /\ pc[rx] = "idle" /\ Goto(rx, "walk")
    BY <1>15 DEF Receive
  <2> HIDE DEF Listed
  <2>2. Opening' = Opening BY <1>0, <2>1 DEF Opening, Selecting, Goto, ThreadTypes
  <2> QED BY <1>2, <2>1, <2>2
<1>16. CASE \E i \in DOMAIN route_list : RouteTimeout(i)
  <2>1. PICK i \in 1..Len(route_list) : RouteTimeout(i) BY <1>0, <1>16, AtFinite
  <2> DEFINE x == [route_list[i] EXCEPT !.stale = TRUE]
  <2>2. /\ x \in Routes /\ x.conn = route_list[i].conn /\ x.server = route_list[i].server
        /\ route_list' = [route_list EXCEPT ![i] = x]
    <3>1. route_list[i] \in Routes BY <1>0, ElementOfSeq
    <3> QED BY <1>0, <2>1, <3>1 DEF Routes, RouteTimeout
  <2>3. UNCHANGED <<server_list, memory, drops, best, pc, pkt>> BY <2>1 DEF RouteTimeout
  <2>4. Opening' = Opening BY <2>3, OpeningStays
  <2> HIDE DEF x
  <2> QED BY <1>1, <2>2, <2>3, <2>4, TouchIdles
<1>17. CASE WalkRoute BY <1>1, <1>17, WalkRefines
<1>18. CASE WalkEnd
  <2>1. UNCHANGED <<route_list, server_list, memory, best, drops>> /\ pc[rx] = "walk" BY <1>18 DEF WalkEnd
  <2>2. CASE Goto(rx, "select") /\ UNCHANGED <<pkt, pos>>
    <3>1. pc'[rx] = "select" /\ Routed' = Routed BY <1>0, <2>1, <2>2 DEF Goto, ThreadTypes, Routed
    <3>2. Balancer!Next BY <1>1, <2>1, <2>2, <3>1, OpenRefines
    <3> QED BY <3>2
  <2>3. CASE Goto(rx, "idle")
    <3>1. Opening' = Opening BY <1>0, <2>1, <2>3 DEF Opening, Selecting, Goto, ThreadTypes
    <3>2. Idles BY <1>2, <2>1, <3>1
    <3> QED BY <3>2
  <2> QED BY <1>18, <2>2, <2>3 DEF WalkEnd
<1>19. CASE SelectNone \/ SelectLeast \/ VisitEnd
  <2>1. /\ UNCHANGED <<route_list, best, drops, pkt>> /\ pc[rx] \in {"select", "visit"}
        /\ Goto(rx, "visit") \/ Goto(rx, "bind")
    BY <1>19 DEF SelectNone, SelectLeast, VisitEnd
  <2>2. Listed
    <3>1. CASE SelectNone BY <3>1
    <3>2. CASE SelectLeast BY <3>2 DEF SelectLeast
    <3>3. CASE VisitEnd BY <1>0, <3>3 DEF VisitEnd, InBracket
    <3> QED BY <1>19, <3>1, <3>2, <3>3
  <2> HIDE DEF Listed
  <2>3. Opening' = Opening BY <1>0, <2>1 DEF Opening, Selecting, Goto, ThreadTypes
  <2> QED BY <1>2, <2>1, <2>2, <2>3
<1>20. CASE VisitServer BY <1>1, <1>20, ConsiderRefines
<1>21. CASE SelectFrom \/ PollEnter \/ PollServer \/ PollFallback \/ PollLeave
  BY <1>0, <1>21 DEF SelectFrom, PollEnter, PollServer, PollFallback, PollLeave, LeastOnly
<1>22. CASE Bind BY <1>1, <1>22, BindRefines
<1>23. CASE Forward BY <1>1, <1>23, ForwardRefines
<1> QED
  <2> HIDE DEF Idles
  <2>1. ASSUME Idles PROVE [Balancer!Next]_(Balancer!lbVars) BY <2>1 DEF Idles
  <2> QED BY <1>4, <1>5, <1>6, <1>7, <1>8, <1>9, <1>11, <1>12, <1>13, <1>14, <1>15, <1>16, <1>17, <1>18,
             <1>19, <1>20, <1>21, <1>22, <1>23, <2>1 DEF Next

\* At the start there are no servers and no connections.
LEMMA BalancerBegins == ASSUME Init PROVE Balancer!Init
<1>1. rx \in Thread BY ThreadCount
<1>2. Standings = [s \in Slot |-> "unknown"] BY DEF Init, Standings, Standing
<1>3. Opening = {} /\ Chosen = {} BY <1>1 DEF Init, Opening, Selecting, Chosen
<1>4. Routed = {} BY DEF Init, Routed
<1> QED BY <1>2, <1>3, <1>4 DEF Balancer!Init

\* Where a deletion is final the pool keeps a load balancer's promise: a server
\* that has been deleted is chosen for no new connection, keeps the connections
\* it has, and is handed to removal with the last of them.
THEOREM LoadBalancerImplemented ==
  ASSUME DeletionIsFinal
  PROVE  Spec => ImplementsLoadBalancer
<1>1. Init => Balancer!Init BY BalancerBegins
<1>2. AllInv /\ AllInv' /\ [Next]_vars => [Balancer!Next]_(Balancer!lbVars) BY BalancerStep
<1>3. Spec => []AllInv BY DrainHolds, PTL DEF AllInv
<1> QED BY <1>1, <1>2, <1>3, PTL DEF Spec, Balancer!Spec, ImplementsLoadBalancer

-----------------------------------------------------------------------------
(* The pool uses its list as an LCXL list is to be used.                    *)

\* Where nobody polls, the brackets are one for each handler that will close
\* its own and one for each DEL_SERVER.
LEMMA BracketsAre ==
  LeastOnly => Brackets = {<<t, 0>> : t \in Open} \cup {<<None, i>> : i \in 1..dels}
<1> SUFFICES ASSUME LeastOnly
             PROVE  Brackets = {<<t, 0>> : t \in Open} \cup {<<None, i>> : i \in 1..dels}
  OBVIOUS
<1>1. ~(pc[rx] \in {"poll", "fallback", "polled"}) BY DEF LeastOnly
<1> QED BY <1>1 DEF Brackets, Open

\* lock_count says whether there are any.
LEMMA CountsBrackets ==
  AllInv => (Brackets = {} <=> server_list.lock_count = 0)
<1> SUFFICES ASSUME AllInv PROVE Brackets = {} <=> server_list.lock_count = 0 OBVIOUS
<1> DEFINE n == Cardinality(Open)
<1>1. Types /\ LockInv /\ LeastOnly BY DEF AllInv, IInv, PoolInv, DrainInv
<1>2. Open \in SUBSET Thread /\ n \in Nat /\ dels \in Nat BY <1>1, CountBounds
<1>3. server_list.lock_count = n + 0 + dels BY <1>1 DEF LockInv, Nested, LeastOnly
<1>4. n = 0 <=> Open = {}
  <2>1. Open # {} => n > 0 BY <1>2, OpenCount
  <2>2. Open = {} => n = 0 BY FS_EmptySet
  <2> HIDE DEF n
  <2> QED BY <1>2, <2>1, <2>2
<1>5. Brackets = {<<t, 0>> : t \in Open} \cup {<<None, i>> : i \in 1..dels} BY <1>1, BracketsAre
<1>6. dels = 0 <=> 1..dels = {} BY <1>2
<1>7. Brackets = {} <=> Open = {} /\ dels = 0 BY <1>5, <1>6
<1> HIDE DEF n
<1> QED BY <1>2, <1>3, <1>4, <1>7

\* The same of the state after a step.
LEMMA BracketsNext ==
  /\ LeastOnly' => Brackets' = {<<t, 0>> : t \in Open'} \cup {<<None, i>> : i \in 1..dels'}
  /\ AllInv' => (Brackets' = {} <=> server_list'.lock_count = 0)
<1>1. (LeastOnly => Brackets = {<<t, 0>> : t \in Open} \cup {<<None, i>> : i \in 1..dels})'
  BY BracketsAre, PTL
<1>2. (AllInv => (Brackets = {} <=> server_list.lock_count = 0))' BY CountsBrackets, PTL
<1> QED BY <1>1, <1>2

\* The operators of LcxlListOps in the instance are those of this module.
LEMMA ListOperators ==
  ASSUME NEW s, NEW a, NEW b
  PROVE  Deferred!ToSet(s) = ToSet(s) /\ Deferred!Flushed(s, a, b) = Flushed(s, a, b)
<1>1. \A x : Deferred!ToSet(x) = ToSet(x) BY DEF ToSet, Deferred!ToSet
<1>2. \A x : Deferred!Without(s, x) = Without(s, x) BY DEF Without, Deferred!Without
<1> QED BY <1>1, <1>2 DEF Flushed, Deferred!Flushed

\* Nothing waits while nobody reads.
Waiting == Brackets = {} => server_list.to_be_add = <<>> /\ server_list.to_be_del = <<>>

LEMMA WaitingStays == ASSUME Waiting, [Deferred!Next]_(Deferred!dvars) PROVE Waiting'
<1>1. CASE UNCHANGED Deferred!dvars BY <1>1 DEF Deferred!dvars, Waiting
<1>2. ASSUME NEW c, Deferred!Enter(c) PROVE Waiting' BY <1>2 DEF Deferred!Enter, Waiting
<1>3. ASSUME NEW c, Deferred!Leave(c) PROVE Waiting'
  BY <1>3 DEF Deferred!Leave, Waiting
<1>4. ASSUME NEW e, Deferred!Insert(e) \/ Deferred!Delete(e) PROVE Waiting'
  BY <1>4 DEF Deferred!Insert, Deferred!Delete, Waiting
<1> QED BY <1>1, <1>2, <1>3, <1>4 DEF Deferred!Next

\* A thread's step that opens or closes no bracket.
LEMMA OpenStays ==
  ASSUME NEW u \in Thread, Moves(u), Counted(u)' <=> Counted(u)
  PROVE  Open' = Open
<1>1. u \in Open <=> Counted(u) BY DEF Open, Counted
<1>2. Open' = (Open \ {u}) \cup {t \in {u} : Counted(t)'} BY OthersStay
<1>3. CASE Counted(u)
  <2>1. {t \in {u} : Counted(t)'} = {u} BY <1>3
  <2> QED BY <1>1, <1>2, <1>3, <2>1
<1>4. CASE ~Counted(u)
  <2>1. {t \in {u} : Counted(t)'} = {} BY <1>4
  <2> QED BY <1>1, <1>2, <1>4, <2>1
<1> QED BY <1>3, <1>4

LEMMA BracketsStay ==
  ASSUME AllInv, AllInv', Open' = Open, dels' = dels
  PROVE  Brackets' = Brackets
BY BracketsAre, BracketsNext DEF AllInv, DrainInv

Freed == {s \in Slot : memory[s] = "freed"}

\* A step that leaves the list and the brackets alone.
LEMMA DeferredIdles ==
  ASSUME AllInv, AllInv', Open' = Open, dels' = dels, UNCHANGED <<server_list, memory>>
  PROVE  UNCHANGED Deferred!dvars
<1>1. Brackets' = Brackets BY BracketsStay
<1>2. Freed' = Freed BY DEF Freed
<1> QED BY <1>1, <1>2 DEF Deferred!dvars, Freed

\* A handler locks the list: one reader more.
LEMMA LockEnters ==
  ASSUME AllInv, AllInv', NEW c \in (Thread \X {0, 1}) \cup ({None} \X (1..MaxDel)),
         c \notin Brackets, Brackets' = Brackets \cup {c},
         server_list' = Locked(server_list, LockMod), memory' = memory
  PROVE  Deferred!Next
<1>1. /\ server_list'.list = server_list.list /\ server_list'.to_be_add = server_list.to_be_add
      /\ server_list'.to_be_del = server_list.to_be_del
  BY DEF AllInv, IInv, PoolInv, Types, PoolTypes, Locked, Lists
<1>2. Freed' = Freed BY DEF Freed
<1>3. Deferred!Enter(c) BY <1>1, <1>2 DEF Deferred!Enter, Freed
<1> QED BY <1>3 DEF Deferred!Next

\* A handler opens its bracket.
LEMMA HandlerEnters ==
  ASSUME AllInv, AllInv', NEW t \in Thread, Moves(t), ~Counted(t), Counted(t)', dels' = dels,
         server_list' = Locked(server_list, LockMod), memory' = memory
  PROVE  Deferred!Next
<1>1. t \notin Open BY DEF Open, Counted
<1>2. Open' = Open \cup {t}
  <2>1. Open' = (Open \ {t}) \cup {x \in {t} : Counted(x)'} BY OthersStay
  <2>2. {x \in {t} : Counted(x)'} = {t} OBVIOUS
  <2> QED BY <1>1, <2>1, <2>2
<1>3. /\ Brackets = {<<x, 0>> : x \in Open} \cup {<<None, i>> : i \in 1..dels}
      /\ Brackets' = {<<x, 0>> : x \in Open \cup {t}} \cup {<<None, i>> : i \in 1..dels}
  BY <1>2, BracketsAre, BracketsNext DEF AllInv, DrainInv
<1>4. None # t BY ThreadAssumption
<1>5. <<t, 0>> \notin Brackets /\ Brackets' = Brackets \cup {<<t, 0>>} BY <1>1, <1>3, <1>4
<1>6. <<t, 0>> \in (Thread \X {0, 1}) \cup ({None} \X (1..MaxDel)) OBVIOUS
<1> QED BY <1>5, <1>6, LockEnters

\* DEL_SERVER opens one for good.
LEMMA DeleterEnters ==
  ASSUME AllInv, AllInv', NEW t \in Thread, Moves(t), ~Counted(t), ~Counted(t)', dels' = dels + 1,
         server_list' = Locked(server_list, LockMod), memory' = memory
  PROVE  Deferred!Next
<1>1. Open' = Open BY OpenStays
<1>2. dels \in Nat /\ dels + 1 \in 1..MaxDel /\ dels' = dels + 1
  <2>1. dels \in 0..MaxDel /\ dels' \in 0..MaxDel /\ MaxDel \in Nat
    BY WidthAssumption DEF AllInv, IInv, PoolInv, Types, ThreadTypes
  <2> QED BY <2>1
<1>3. /\ Brackets = {<<x, 0>> : x \in Open} \cup {<<None, i>> : i \in 1..dels}
      /\ Brackets' = {<<x, 0>> : x \in Open} \cup {<<None, i>> : i \in 1..(dels + 1)}
  BY <1>1, <1>2, BracketsAre, BracketsNext DEF AllInv, DrainInv
<1> DEFINE c == <<None, dels + 1>>
<1>4. c \notin Brackets
  <2>1. ASSUME NEW x \in Open, c = <<x, 0>> PROVE FALSE BY <2>1, ThreadAssumption DEF Open
  <2>2. ASSUME NEW i \in 1..dels, c = <<None, i>> PROVE FALSE BY <1>2, <2>2
  <2> QED BY <1>3, <2>1, <2>2
<1>5. 1..(dels + 1) = (1..dels) \cup {dels + 1} BY <1>2
<1>6. Brackets' = Brackets \cup {c} BY <1>3, <1>5
<1>7. c \in (Thread \X {0, 1}) \cup ({None} \X (1..MaxDel)) BY <1>2
<1> QED BY <1>4, <1>6, <1>7, LockEnters

\* A handler closes its bracket: the last reader to leave carries out what waits.
LEMMA HandlerLeaves ==
  ASSUME AllInv, AllInv', NEW t \in Thread, Moves(t), Counted(t), ~Counted(t)', dels' = dels,
         UnlockServerList(server_list)
  PROVE  Deferred!Next
<1> DEFINE l == server_list
           c == <<t, 0>>
<1>1. /\ l \in Lists(Slot) /\ l.lock_count > 0 /\ l.lock_count < LockMod /\ LockMod \in Nat
      /\ memory \in [Slot -> {"unused", "live", "freed"}] /\ l.lock_count \in Nat
      /\ l.to_be_del \in Seq(Slot)
  <2>1. l.lock_count > dels /\ l.lock_count \in Nat /\ dels \in Nat BY LeftOpen DEF AllInv
  <2>2. l.lock_count > 0 BY <2>1
  <2> QED BY <2>1, <2>2, LeftOpen, WidthAssumption DEF AllInv, IInv, PoolInv, Types, PoolTypes, Lists
<1>2. c \in Brackets /\ Brackets' = Brackets \ {c}
  <2>1. t \in Open BY DEF Open, Counted
  <2>2. Open' = Open \ {t}
    <3>1. Open' = (Open \ {t}) \cup {x \in {t} : Counted(x)'} BY OthersStay
    <3>2. {x \in {t} : Counted(x)'} = {} OBVIOUS
    <3> QED BY <3>1, <3>2
  <2>3. /\ Brackets = {<<x, 0>> : x \in Open} \cup {<<None, i>> : i \in 1..dels}
        /\ Brackets' = {<<x, 0>> : x \in Open \ {t}} \cup {<<None, i>> : i \in 1..dels}
    BY <2>2, BracketsAre, BracketsNext DEF AllInv, DrainInv
  <2>4. None # t BY ThreadAssumption
  <2>5. c \in Brackets BY <2>1, <2>3
  <2>6. \A y : y \in Brackets' <=> y \in Brackets /\ y # c BY <2>3, <2>4
  <2> QED BY <2>5, <2>6
<1>3. server_list' = Unlocked(l, LockMod)
      /\ memory' = [s \in Slot |-> IF s \in FreedByUnlock(l, LockMod) THEN "freed" ELSE memory[s]]
  BY DEF UnlockServerList
<1>4. l.lock_count = 1 =>
        /\ server_list'.list = Flushed(l.list, l.to_be_del, l.to_be_add)
        /\ server_list'.to_be_add = <<>> /\ server_list'.to_be_del = <<>>
        /\ server_list'.lock_count = 0
        /\ FreedByUnlock(l, LockMod) = ToSet(l.to_be_del)
  <2> HIDE DEF l
  <2>1. server_list'.lock_count = l.lock_count - 1 BY <1>1, <1>3, UnlockedCounts
  <2>2. l.lock_count = 1 =>
          /\ Unlocked(l, LockMod).list = Flushed(l.list, l.to_be_del, l.to_be_add)
          /\ Unlocked(l, LockMod).to_be_add = <<>> /\ Unlocked(l, LockMod).to_be_del = <<>>
          /\ FreedByUnlock(l, LockMod) = ToSet(l.to_be_del)
    BY <1>1, UnlockedApplies
  <2> QED BY <1>1, <1>3, <2>1, <2>2
<1>5. l.lock_count # 1 =>
        /\ server_list'.list = l.list /\ server_list'.to_be_add = l.to_be_add
        /\ server_list'.to_be_del = l.to_be_del /\ server_list'.lock_count # 0
        /\ FreedByUnlock(l, LockMod) = {}
  <2> SUFFICES ASSUME l.lock_count # 1
               PROVE  /\ server_list'.list = l.list /\ server_list'.to_be_add = l.to_be_add
                      /\ server_list'.to_be_del = l.to_be_del /\ server_list'.lock_count # 0
                      /\ FreedByUnlock(l, LockMod) = {}
    OBVIOUS
  <2>1. server_list' = [l EXCEPT !.lock_count = l.lock_count - 1] /\ FreedByUnlock(l, LockMod) = {}
    BY <1>1, <1>3, UnlockedApplies
  <2>2. l.lock_count - 1 # 0 BY <1>1
  <2> QED BY <1>1, <2>1, <2>2 DEF Lists
<1>6. Brackets' = {} <=> l.lock_count = 1 BY <1>4, <1>5, BracketsNext
<1>7. Freed' = Freed \cup FreedByUnlock(l, LockMod)
  <2> DEFINE F == FreedByUnlock(l, LockMod)
  <2>1. F \subseteq Slot
    <3>1. ToSet(l.to_be_del) \subseteq Slot BY <1>1, SetOfSeq
    <3> QED BY <1>4, <1>5, <3>1
  <2>2. memory' = [s \in Slot |-> IF s \in F THEN "freed" ELSE memory[s]] BY <1>3
  <2> HIDE DEF F
  <2>3. \A s : s \in Freed' <=> s \in Freed \cup F BY <2>1, <2>2 DEF Freed
  <2> QED BY <2>3 DEF F
<1>8. /\ Deferred!ToSet(l.to_be_del) = ToSet(l.to_be_del)
      /\ Deferred!Flushed(l.list, l.to_be_del, l.to_be_add) = Flushed(l.list, l.to_be_del, l.to_be_add)
  BY ListOperators
<1>9. Deferred!Leave(c)
  <2>1. CASE l.lock_count = 1
    <3>1. Brackets' = {} /\ Freed' = Freed \cup ToSet(l.to_be_del) BY <1>4, <1>6, <1>7, <2>1
    <3> QED BY <1>2, <1>4, <1>8, <2>1, <3>1 DEF Deferred!Leave, Freed
  <2>2. CASE l.lock_count # 1
    <3>1. Brackets' # {} /\ Freed' = Freed BY <1>5, <1>6, <1>7, <2>2
    <3> QED BY <1>2, <1>5, <2>2, <3>1 DEF Deferred!Leave, Freed
  <2> QED BY <2>1, <2>2
<1>10. c \in (Thread \X {0, 1}) \cup ({None} \X (1..MaxDel)) OBVIOUS
<1> QED BY <1>9, <1>10 DEF Deferred!Next

\* AddEntrytoLcxlList with a new server.
LEMMA InsertDefers ==
  ASSUME AllInv, AllInv', NEW t \in Ctl, AddNew(t)
  PROVE  Deferred!Next
<1> DEFINE l == server_list
<1>1. PICK n \in Slot : /\ memory[n] = "unused" /\ memory' = [memory EXCEPT ![n] = "live"]
                        /\ server_list' = WithEntry(l, n)
  BY DEF AddNew
<1>2. /\ l \in Lists(Slot) /\ l.lock_count \in Nat /\ t \in Thread /\ dels' = dels /\ ThreadTypes
      /\ memory \in [Slot -> {"unused", "live", "freed"}]
      /\ pc[t] = "apply" /\ pc' = [pc EXCEPT ![t] = "unlock"] /\ UNCHANGED <<req, found>>
      /\ req[t].op = "add"
  BY ThreadCount DEF AddNew, Goto, AllInv, IInv, PoolInv, Types, PoolTypes, Lists
<1>3. Open' = Open
  <2>1. Moves(t) BY <1>2 DEF Moves
  <2>2. pc'[t] = "unlock" BY <1>2 DEF ThreadTypes
  <2>3. Counted(t) /\ Counted(t)' BY <1>2, <2>2 DEF Counted, InBracket, Leaks
  <2> QED BY <1>2, <2>1, <2>3, OpenStays
<1>4. Brackets' = Brackets BY <1>2, <1>3, BracketsStay
<1>5. Freed' = Freed /\ n \notin Freed
  <2>1. \A s \in Slot : memory'[s] = IF s = n THEN "live" ELSE memory[s] BY <1>1, <1>2
  <2>2. \A s : s \in Freed' <=> s \in Freed BY <1>1, <2>1 DEF Freed
  <2> QED BY <1>1, <2>2 DEF Freed
<1>6. n \notin ToSet(l.list) \cup ToSet(l.to_be_add) BY <1>1 DEF AllInv, RefInv, Members
<1>7. Brackets = {} <=> l.lock_count = 0 BY CountsBrackets
<1>8. Deferred!ToSet(l.list) = ToSet(l.list) /\ Deferred!ToSet(l.to_be_add) = ToSet(l.to_be_add)
  BY ListOperators
<1>9. CASE l.lock_count > 0
  <2>1. server_list' = [l EXCEPT !.to_be_add = Append(l.to_be_add, n)] BY <1>1, <1>9 DEF WithEntry
  <2>2. Brackets # {} BY <1>7, <1>9
  <2>3. Deferred!Insert(n) BY <1>2, <1>4, <1>5, <1>6, <1>8, <2>1, <2>2 DEF Deferred!Insert, Freed, Lists
  <2> QED BY <2>3 DEF Deferred!Next
<1>10. CASE l.lock_count = 0
  <2>1. server_list' = [l EXCEPT !.list = Append(l.list, n)] BY <1>1, <1>10 DEF WithEntry
  <2>2. Brackets = {} BY <1>7, <1>10
  <2>3. Deferred!Insert(n) BY <1>2, <1>4, <1>5, <1>6, <1>8, <2>1, <2>2 DEF Deferred!Insert, Freed, Lists
  <2> QED BY <2>3 DEF Deferred!Next
<1>11. l.lock_count = 0 \/ l.lock_count > 0 BY <1>2
<1> QED BY <1>9, <1>10, <1>11

\* DecRefListEntry: the last reference hands a linked server, not queued so far,
\* to RemoveEntryfromLcxlList.
LEMMA DeleteDefers ==
  ASSUME AllInv, AllInv', Open' = Open, dels' = dels,
         NEW down \in OrNone(Slot), NEW up \in OrNone(Slot), Rerefer(down, up),
         down # None => ref_count[down] >= 1 /\ (ref_count[down] = 1 => down \in Linked)
  PROVE  [Deferred!Next]_(Deferred!dvars)
<1> DEFINE l == server_list
           r == [s \in Slot |-> ref_count[s] - (IF s = down THEN 1 ELSE 0)]
           removed == down # None /\ r[down] <= 0
           lost == IF removed THEN FreedByRemove(l, down) ELSE {}
<1>0. /\ l \in Lists(Slot) /\ l.lock_count \in Nat /\ ref_count \in [Slot -> Int]
      /\ memory \in [Slot -> {"unused", "live", "freed"}]
  BY DEF AllInv, IInv, PoolInv, Types, PoolTypes, Lists
<1>1. /\ server_list' = IF removed THEN WithoutEntry(l, down) ELSE l
      /\ memory' = [s \in Slot |-> IF s \in lost THEN "freed" ELSE memory[s]]
  BY DEF Rerefer
<1>2. Brackets' = Brackets BY BracketsStay
<1>3. removed => down \in Slot /\ ref_count[down] = 1 /\ down \in Linked
  <2> SUFFICES ASSUME removed PROVE down \in Slot /\ ref_count[down] = 1 /\ down \in Linked OBVIOUS
  <2>1. down # None /\ r[down] <= 0 OBVIOUS
  <2>2. down \in Slot BY <2>1 DEF OrNone
  <2>3. r[down] = ref_count[down] - 1 BY <2>2
  <2> HIDE DEF removed, r
  <2>4. ref_count[down] \in Int /\ ref_count[down] = 1 BY <1>0, <2>1, <2>2, <2>3
  <2> QED BY <2>1, <2>2, <2>4
<1> HIDE DEF removed, r
<1>4. CASE ~removed
  <2>1. server_list' = server_list BY <1>1, <1>4
  <2>2. memory' = memory
    <3>1. lost = {} BY <1>4
    <3> HIDE DEF lost
    <3> QED BY <1>0, <1>1, <3>1
  <2>3. UNCHANGED Deferred!dvars BY <2>1, <2>2, DeferredIdles
  <2> QED BY <2>3
<1>5. CASE removed
  <2>1. down \in Slot /\ down \in ToSet(l.list) /\ down \notin ToSet(l.to_be_del)
    BY <1>3, <1>5 DEF Linked, AllInv, DrainInv, Queued
  <2>2. /\ server_list' = WithoutEntry(l, down)
        /\ memory' = [s \in Slot |-> IF s \in FreedByRemove(l, down) THEN "freed" ELSE memory[s]]
    BY <1>1, <1>5
  <2>3. Freed' = Freed \cup FreedByRemove(l, down)
    <3> DEFINE F == FreedByRemove(l, down)
    <3>1. F \subseteq Slot BY <2>1 DEF FreedByRemove
    <3>2. memory' = [s \in Slot |-> IF s \in F THEN "freed" ELSE memory[s]] BY <2>2
    <3> HIDE DEF F
    <3>3. \A s : s \in Freed' <=> s \in Freed \cup F BY <3>1, <3>2 DEF Freed
    <3> QED BY <3>3 DEF F
  <2>4. Brackets = {} <=> l.lock_count = 0 BY CountsBrackets
  <2>5. /\ Deferred!ToSet(l.list) = ToSet(l.list) /\ Deferred!ToSet(l.to_be_del) = ToSet(l.to_be_del)
        /\ Deferred!Flushed(l.list, <<down>>, <<>>) = Flushed(l.list, <<down>>, <<>>)
    BY ListOperators
  <2>6. CASE l.lock_count > 0
    <3>1. server_list' = [l EXCEPT !.to_be_del = Append(l.to_be_del, down)] /\ FreedByRemove(l, down) = {}
      BY <2>2, <2>6 DEF WithoutEntry, FreedByRemove
    <3>2. Brackets # {} /\ Freed' = Freed BY <2>3, <2>4, <2>6, <3>1
    <3>3. Deferred!Delete(down) BY <1>0, <1>2, <2>1, <2>5, <3>1, <3>2 DEF Deferred!Delete, Freed, Lists
    <3> QED BY <2>1, <3>3 DEF Deferred!Next
  <2>7. CASE l.lock_count = 0
    <3>1. server_list' = [l EXCEPT !.list = Flushed(l.list, <<down>>, <<>>)]
          /\ FreedByRemove(l, down) = {down}
      BY <2>2, <2>7 DEF WithoutEntry, FreedByRemove
    <3>2. Brackets = {} /\ Freed' = Freed \cup {down} BY <2>3, <2>4, <2>7, <3>1
    <3>3. Deferred!Delete(down) BY <1>0, <1>2, <2>1, <2>5, <3>1, <3>2 DEF Deferred!Delete, Freed, Lists
    <3> QED BY <2>1, <3>3 DEF Deferred!Next
  <2>8. l.lock_count = 0 \/ l.lock_count > 0 BY <1>0
  <2> QED BY <2>6, <2>7, <2>8
<1> QED BY <1>4, <1>5

\* A use of a server ends, and perhaps one of another begins.
LEMMA UseDefers ==
  ASSUME AllInv, AllInv', Open' = Open, dels' = dels,
         NEW down \in OrNone(Slot), NEW up \in OrNone(Slot), Rerefer(down, up),
         down # None => Uses(down) > 0
  PROVE  [Deferred!Next]_(Deferred!dvars)
<1>1. ASSUME down # None
      PROVE  ref_count[down] >= 1 /\ (ref_count[down] = 1 => down \in Linked)
  <2>1. down \in Slot BY <1>1 DEF OrNone
  <2>2. ref_count[down] >= 1 /\ (ref_count[down] = 1 => drops[down] = 1 /\ dels > 0)
    BY <1>1, <2>1, UsedCount DEF AllInv
  <2>3. drops[down] # 0 => down \in Linked BY <2>1 DEF AllInv, DrainInv, Marked
  <2> QED BY <2>2, <2>3
<1> QED BY <1>1, DeleteDefers

\* SelectBestServer with nothing to choose from: nothing waits when it is the
\* only reader.
LEMMA PassIdles ==
  ASSUME AllInv, AllInv', Waiting, Open' = Open, dels' = dels, pc[rx] = "select",
         UnlockServerList(Locked(server_list, LockMod))
  PROVE  UNCHANGED Deferred!dvars
<1> DEFINE l == server_list
           n == l.lock_count
           k == Locked(l, LockMod)
<1>1. /\ l \in Lists(Slot) /\ n \in Nat /\ LockMod \in Nat
      /\ memory \in [Slot -> {"unused", "live", "freed"}] /\ l.list \in Seq(Slot)
  BY WidthAssumption DEF AllInv, IInv, PoolInv, Types, PoolTypes, Lists
<1>2. n + 1 < LockMod
  <2>1. rx \notin Open BY DEF Open, InBracket
  <2> QED BY <2>1, CountBounds, ThreadCount DEF AllInv, IInv, PoolInv
<1>3. /\ k \in Lists(Slot) /\ k.list = l.list /\ k.to_be_add = l.to_be_add
      /\ k.to_be_del = l.to_be_del /\ k.lock_count = n + 1
  <2>1. k \in Lists(Slot) /\ k = [l EXCEPT !.lock_count = n + 1] BY <1>1, <1>2, LockedCounts
  <2> HIDE DEF k
  <2> QED BY <1>1, <2>1 DEF Lists
<1>4. server_list' = Unlocked(k, LockMod)
      /\ memory' = [s \in Slot |-> IF s \in FreedByUnlock(k, LockMod) THEN "freed" ELSE memory[s]]
  BY DEF UnlockServerList
<1> HIDE DEF k
<1>5. n = 0 => l.to_be_add = <<>> /\ l.to_be_del = <<>> BY CountsBrackets DEF Waiting
<1>6. k.lock_count > 0 /\ k.lock_count < LockMod /\ (k.lock_count = 1 <=> n = 0) BY <1>1, <1>2, <1>3
<1>7. /\ server_list'.list = l.list /\ server_list'.to_be_add = l.to_be_add
      /\ server_list'.to_be_del = l.to_be_del /\ FreedByUnlock(k, LockMod) = {}
  <2>1. CASE n = 0
    <3> DEFINE v == Unlocked(k, LockMod)
    <3>4. k.lock_count = 1 /\ k.to_be_add = <<>> /\ k.to_be_del = <<>> BY <1>3, <1>5, <1>6, <2>1
    <3>5. /\ v.list = Flushed(k.list, k.to_be_del, k.to_be_add)
          /\ v.to_be_add = <<>> /\ v.to_be_del = <<>>
          /\ FreedByUnlock(k, LockMod) = ToSet(k.to_be_del)
      BY <1>1, <1>3, <1>6, <3>4, UnlockedApplies
    <3>6. server_list' = v BY <1>4
    <3> HIDE DEF v
    <3>1. /\ server_list'.list = Flushed(l.list, <<>>, <<>>)
          /\ server_list'.to_be_add = <<>> /\ server_list'.to_be_del = <<>>
          /\ FreedByUnlock(k, LockMod) = ToSet(<<>>)
      BY <1>3, <3>4, <3>5, <3>6
    <3>2. Flushed(l.list, <<>>, <<>>) = l.list
      <4>1. Flushed(l.list, <<>>, <<>>) = l.list \o <<>> BY <1>1, FlushedAdditions
      <4> QED BY <1>1, <4>1
    <3>3. FreedByUnlock(k, LockMod) = {} BY <3>1 DEF ToSet
    <3> QED BY <1>5, <2>1, <3>1, <3>2, <3>3
  <2>2. CASE n # 0
    <3> DEFINE v == Unlocked(k, LockMod)
    <3>1. v = [k EXCEPT !.lock_count = k.lock_count - 1] /\ FreedByUnlock(k, LockMod) = {}
      BY <1>1, <1>3, <1>6, <2>2, UnlockedApplies
    <3>2. server_list' = v BY <1>4
    <3> HIDE DEF v
    <3>3. v.list = k.list /\ v.to_be_add = k.to_be_add /\ v.to_be_del = k.to_be_del
      BY <1>3, <3>1 DEF Lists
    <3> QED BY <1>3, <3>1, <3>2, <3>3
  <2> QED BY <2>1, <2>2
<1>8. memory' = memory BY <1>1, <1>4, <1>7
<1>9. Brackets' = Brackets /\ Freed' = Freed BY <1>8, BracketsStay DEF Freed
<1> QED BY <1>7, <1>9 DEF Deferred!dvars, Freed

\* Every step of the pool is one of a deferred list, or none.
LEMMA DeferredStep ==
  ASSUME DeletionIsFinal, AllInv, AllInv', Waiting, [Next]_vars
  PROVE  [Deferred!Next]_(Deferred!dvars)
<1>0. /\ Types /\ ThreadTypes /\ RouteTypes /\ rx \in Thread /\ wk \in Thread /\ rx \notin Ctl
      /\ Ctl \subseteq Thread /\ LeastOnly /\ route_list \in Seq(Routes) /\ None \in OrNone(Slot)
      /\ None \notin Slot
  BY ThreadCount, ThreadAssumption DEF AllInv, IInv, PoolInv, Types, RouteTypes, DrainInv, OrNone
<1> USE DEF routeVars, rxVars, poolVars
<1> DEFINE Idles == UNCHANGED Deferred!dvars
           Holds == UNCHANGED <<server_list, memory>>
           Locks == server_list' = Locked(server_list, LockMod) /\ memory' = memory
<1>1. ASSUME NEW u \in Thread, Moves(u), Counted(u)' <=> Counted(u), dels' = dels, Holds PROVE Idles
  BY <1>1, OpenStays, DeferredIdles
<1>2. ASSUME NEW u \in Thread, NEW l, Goto(u, l), pc[u] \in {"idle", "walk", "forward", "select", "bind"},
             l \in {"idle", "walk", "forward", "select", "bind"}
      PROVE  ~Counted(u) /\ ~Counted(u)'
  BY <1>0, <1>2 DEF Goto, ThreadTypes, Counted, InBracket
<1>3. ASSUME NEW t \in Thread, NEW r, Lookup(t, r)
      PROVE  /\ Moves(t) /\ ~Counted(t) /\ Locks
             /\ Counted(t)' <=> r.op # "del"
  <2>1. /\ pc[t] = "idle" /\ pc' = [pc EXCEPT ![t] = "apply"] /\ Locks
        /\ req' = [req EXCEPT ![t] = r] /\ found' = [found EXCEPT ![t] = FindServer(r.mac)]
    BY <1>3 DEF Lookup, Goto
  <2>2. Moves(t) BY <2>1 DEF Moves
  <2>3. pc'[t] = "apply" /\ req'[t] = r BY <1>0, <2>1 DEF ThreadTypes
  <2> QED BY <2>1, <2>2, <2>3 DEF Counted, InBracket, Leaks
<1>4. ASSUME NEW t \in Ctl, NEW m \in Mac, NEW i \in AddInfo, AddServer(t, m, i)
      PROVE  Deferred!Next
  <2>1. Lookup(t, [op |-> "add", mac |-> m, info |-> i]) /\ dels' = dels BY <1>4 DEF AddServer
  <2>2. t \in Thread /\ Moves(t) /\ ~Counted(t) /\ Locks /\ Counted(t)' BY <1>0, <1>3, <2>1
  <2> QED BY <2>1, <2>2, HandlerEnters
<1>5. ASSUME NEW t \in Ctl, NEW m \in Mac, DelServer(t, m) PROVE Deferred!Next
  <2>1. Lookup(t, [op |-> "del", mac |-> m]) /\ dels' = dels + 1 BY <1>5 DEF DelServer
  <2>2. t \in Thread /\ Moves(t) /\ ~Counted(t) /\ Locks /\ ~Counted(t)' BY <1>0, <1>3, <2>1
  <2> QED BY <2>1, <2>2, DeleterEnters
<1>6. CASE \E m \in Mac : ReceiveChecking(m)
  <2>1. PICK m \in Mac : Lookup(rx, [op |-> "checked", mac |-> m]) /\ dels' = dels
    BY <1>6 DEF ReceiveChecking
  <2>2. Moves(rx) /\ ~Counted(rx) /\ Locks /\ Counted(rx)' BY <1>0, <1>3, <2>1
  <2>3. Deferred!Next BY <1>0, <2>1, <2>2, HandlerEnters
  <2> QED BY <2>3
<1>7. CASE \/ \E t \in Ctl, a \in Algorithms : SetRoutingAlgorithm(t, a)
           \/ (\E i \in DOMAIN route_list : RouteTimeout(i)) \/ UNCHANGED vars
  <2>1. UNCHANGED <<pc, req, found, dels>> /\ Holds BY <1>7 DEF SetRoutingAlgorithm, RouteTimeout, vars
  <2>2. Moves(rx) /\ (Counted(rx)' <=> Counted(rx)) BY <2>1 DEF Moves, Counted, InBracket, Leaks
  <2> QED BY <1>0, <1>1, <2>1, <2>2
<1>8. ASSUME NEW t \in Ctl, AddNew(t) PROVE Deferred!Next BY <1>8, InsertDefers
<1>9. ASSUME NEW t \in Thread, pc[t] = "apply", req[t].op # "del", Goto(t, "unlock"),
             UNCHANGED <<req, found>>
      PROVE  Moves(t) /\ (Counted(t)' <=> Counted(t))
  <2>1. pc' = [pc EXCEPT ![t] = "unlock"] /\ pc'[t] = "unlock" BY <1>0, <1>9 DEF Goto, ThreadTypes
  <2>2. Moves(t) BY <1>9, <2>1 DEF Moves
  <2> QED BY <1>9, <2>1, <2>2 DEF Counted, InBracket, Leaks
<1>10. ASSUME NEW t \in Ctl, AddExisting(t) PROVE Idles
  <2>1. /\ pc[t] = "apply" /\ req[t].op # "del" /\ Goto(t, "unlock") /\ t \in Thread
        /\ UNCHANGED <<req, found, dels>> /\ Holds
    BY <1>0, <1>10 DEF AddExisting
  <2> QED BY <1>1, <1>9, <2>1
<1>11. CASE CheckedApply
  <2>1. /\ pc[rx] = "apply" /\ req[rx].op # "del" /\ Goto(rx, "unlock")
        /\ UNCHANGED <<req, found, dels>> /\ Holds
    BY <1>11 DEF CheckedApply
  <2> QED BY <1>0, <1>1, <1>9, <2>1
<1>12. ASSUME NEW t \in Ctl, DelApply(t) PROVE [Deferred!Next]_(Deferred!dvars)
  <2>1. /\ t \in Thread /\ pc[t] = "apply" /\ req[t].op = "del" /\ dels' = dels
        /\ pc' = [pc EXCEPT ![t] = "idle"] /\ req' = [req EXCEPT ![t] = NoReq]
        /\ found' = [found EXCEPT ![t] = None]
    BY <1>0, <1>12 DEF DelApply, Goto
  <2>2. Moves(t) BY <2>1 DEF Moves
  <2>3. ~Counted(t) /\ ~Counted(t)'
    <3>1. pc'[t] = "idle" BY <1>0, <2>1 DEF ThreadTypes
    <3> QED BY <2>1, <3>1 DEF Counted, InBracket, Leaks
  <2>4. CASE UNCHANGED <<info, drops, ref_count, server_list, memory>> BY <1>1, <2>1, <2>2, <2>3, <2>4
  <2>5. CASE found[t] # None /\ "DELETED" \notin info[found[t]].status /\ Rerefer(found[t], None)
    <3> DEFINE x == found[t]
    <3>1. x \in Linked /\ x \in Slot
      <4>1. x \in Linked BY <2>1, <2>5 DEF AllInv, IInv, PoolInv, Pointers, OrNone
      <4> QED BY <4>1, InUse DEF AllInv
    <3>2. ref_count[x] >= 1
      <4> DEFINE u == Uses(x)
      <4>1. u \in Nat BY <1>0, <3>1, UsesTyped
      <4>2. memory[x] # "unused" BY <3>1, InUse DEF AllInv
      <4>3. memory[x] = "live" BY <3>1, <4>2 DEF AllInv, IInv, PoolInv, Types, PoolTypes, DrainInv, Marked
      <4>4. drops[x] = 0 BY <2>5, <3>1 DEF AllInv, DrainInv, Marked
      <4>5. ref_count[x] = (u + 1) - 0 BY <3>1, <4>3, <4>4 DEF AllInv, RefInv
      <4> HIDE DEF u
      <4> QED BY <4>1, <4>5
    <3>3. Open' = Open BY <2>1, <2>2, <2>3, OpenStays
    <3>4. x \in OrNone(Slot) /\ Rerefer(x, None) BY <2>5, <3>1 DEF OrNone
    <3> HIDE DEF x
    <3> QED BY <1>0, <2>1, <3>1, <3>2, <3>3, <3>4, DeleteDefers
  <2> QED BY <1>12, <2>4, <2>5 DEF DelApply
<1>13. ASSUME NEW t \in Ctl \cup {rx}, Unlock(t) PROVE Deferred!Next
  <2>1. /\ t \in Thread /\ pc[t] = "unlock" /\ dels' = dels /\ UnlockServerList(server_list)
        /\ pc' = [pc EXCEPT ![t] = "idle"] /\ req' = [req EXCEPT ![t] = NoReq]
        /\ found' = [found EXCEPT ![t] = None]
    BY <1>0, <1>13 DEF Unlock, Goto
  <2>2. Moves(t) BY <2>1 DEF Moves
  <2>3. Counted(t) /\ ~Counted(t)'
    <3>1. pc'[t] = "idle" BY <1>0, <2>1 DEF ThreadTypes
    <3> QED BY <2>1, <3>1 DEF Counted, InBracket, Leaks
  <2> QED BY <2>1, <2>2, <2>3, HandlerLeaves
<1>14. CASE WorkerStart
  <2>1. /\ pc[wk] = "idle" /\ Goto(wk, "check") /\ Locks /\ UNCHANGED <<req, dels>>
        /\ found' = [found EXCEPT ![wk] = First]
    BY <1>14 DEF WorkerStart
  <2>2. Moves(wk) BY <2>1 DEF Moves, Goto
  <2>3. ~Counted(wk) /\ Counted(wk)'
    <3>1. pc'[wk] = "check" BY <1>0, <2>1 DEF Goto, ThreadTypes
    <3> QED BY <2>1, <3>1 DEF Counted, InBracket, Leaks
  <2>4. Deferred!Next BY <1>0, <2>1, <2>2, <2>3, HandlerEnters
  <2> QED BY <2>4
<1>15. CASE WorkerCheck
  <2>1. UNCHANGED <<pc, req, dels>> /\ Holds /\ \E x : found' = [found EXCEPT ![wk] = x]
    BY <1>15 DEF WorkerCheck
  <2>2. Moves(wk) /\ (Counted(wk)' <=> Counted(wk)) BY <2>1 DEF Moves, Counted, InBracket, Leaks
  <2> QED BY <1>0, <1>1, <2>1, <2>2
<1>16. CASE WorkerEnd
  <2>1. pc[wk] = "check" /\ Goto(wk, "idle") /\ UnlockServerList(server_list) /\ UNCHANGED <<req, found, dels>>
    BY <1>16 DEF WorkerEnd
  <2>2. Moves(wk) BY <2>1 DEF Moves, Goto
  <2>3. Counted(wk) /\ ~Counted(wk)'
    <3>1. pc'[wk] = "idle" BY <1>0, <2>1 DEF Goto, ThreadTypes
    <3> QED BY <2>1, <3>1 DEF Counted, InBracket, Leaks
  <2>4. Deferred!Next BY <1>0, <2>1, <2>2, <2>3, HandlerLeaves
  <2> QED BY <2>4
<1>17. CASE (\E c \in Conn, f \in Segments : Receive(c, f)) \/ WalkEnd
  <2>1. /\ UNCHANGED <<req, found, dels>> /\ Holds /\ pc[rx] \in {"idle", "walk"}
        /\ \E l \in {"walk", "select", "idle"} : Goto(rx, l)
    BY <1>17 DEF Receive, WalkEnd
  <2>2. Moves(rx) BY <2>1 DEF Moves, Goto
  <2>3. ~Counted(rx) /\ ~Counted(rx)' BY <1>0, <1>2, <2>1
  <2> QED BY <1>0, <1>1, <2>1, <2>2, <2>3
<1>18. ASSUME NEW p \in 1..Len(route_list), DeleteRouteListEntry(p), Open' = Open, dels' = dels
       PROVE  [Deferred!Next]_(Deferred!dvars)
  <2>1. Rerefer(route_list[p].server, None) BY <1>18 DEF DeleteRouteListEntry
  <2>2. route_list[p].server \in Slot /\ Uses(route_list[p].server) > 0 BY InUse DEF AllInv
  <2>3. PICK x \in OrNone(Slot) : Rerefer(x, None) /\ Uses(x) > 0 BY <2>1, <2>2 DEF OrNone
  <2> QED BY <1>0, <1>18, <2>3, UseDefers
<1>19. CASE WalkRoute
  <2>1. pos \in 1..Len(route_list)
    <3>1. pos \in 1..(Len(route_list) + 1) /\ pos <= Len(route_list)
      BY <1>19 DEF WalkRoute, AllInv, IInv, RouteInv
    <3> QED BY <1>0, <3>1, LenProperties
  <2>2. /\ UNCHANGED <<req, found, dels>> /\ pc[rx] = "walk"
        /\ pc' = pc \/ \E l \in {"select", "forward"} : Goto(rx, l)
        /\ UNCHANGED <<server_list, ref_count, memory>> \/ DeleteRouteListEntry(pos)
    BY <1>19 DEF WalkRoute
  <2>3. Moves(rx)
    <3>1. CASE pc' = pc BY <2>2, <3>1 DEF Moves
    <3>2. CASE \E l \in {"select", "forward"} : Goto(rx, l) BY <2>2, <3>2 DEF Moves, Goto
    <3> QED BY <2>2, <3>1, <3>2
  <2>4. ~Counted(rx) /\ ~Counted(rx)'
    <3>1. CASE pc' = pc BY <2>2, <3>1 DEF Counted, InBracket
    <3>2. CASE \E l \in {"select", "forward"} : Goto(rx, l) BY <1>0, <1>2, <2>2, <3>2
    <3> QED BY <2>2, <3>1, <3>2
  <2>5. Open' = Open BY <1>0, <2>3, <2>4, OpenStays
  <2>6. CASE Holds BY <1>0, <1>1, <2>2, <2>3, <2>4, <2>6
  <2>7. CASE DeleteRouteListEntry(pos) BY <1>18, <2>1, <2>2, <2>5, <2>7
  <2> QED BY <2>2, <2>6, <2>7
<1>20. CASE SelectNone
  <2>1. /\ pc[rx] = "select" /\ Goto(rx, "bind") /\ UNCHANGED <<req, found, dels>>
        /\ UnlockServerList(Locked(server_list, LockMod))
    BY <1>20 DEF SelectNone
  <2>2. Moves(rx) BY <2>1 DEF Moves, Goto
  <2>3. ~Counted(rx) /\ ~Counted(rx)' BY <1>0, <1>2, <2>1
  <2>4. Open' = Open BY <1>0, <2>2, <2>3, OpenStays
  <2>5. Idles BY <2>1, <2>4, PassIdles
  <2> QED BY <2>5
<1>21. CASE SelectLeast
  <2>1. /\ pc[rx] = "select" /\ Goto(rx, "visit") /\ Locks /\ UNCHANGED <<req, dels>>
        /\ found' = [found EXCEPT ![rx] = First]
    BY <1>21 DEF SelectLeast
  <2>2. Moves(rx) BY <2>1 DEF Moves, Goto
  <2>3. ~Counted(rx) /\ Counted(rx)'
    <3>1. pc'[rx] = "visit" BY <1>0, <2>1 DEF Goto, ThreadTypes
    <3> QED BY <2>1, <3>1 DEF Counted, InBracket, Leaks
  <2>4. Deferred!Next BY <1>0, <2>1, <2>2, <2>3, HandlerEnters
  <2> QED BY <2>4
<1>22. CASE VisitServer
  <2> DEFINE s == found[rx]
  <2>1. /\ UNCHANGED <<pc, req, dels>> /\ \E x : found' = [found EXCEPT ![rx] = x]
        /\ s \in Slot /\ (Holds \/ Rerefer(best, s))
    BY <1>0, <1>22 DEF VisitServer, ThreadTypes
  <2>2. Moves(rx) /\ (Counted(rx)' <=> Counted(rx)) BY <2>1 DEF Moves, Counted, InBracket, Leaks
  <2>3. Open' = Open BY <1>0, <2>2, OpenStays
  <2>4. CASE Holds BY <1>0, <1>1, <2>1, <2>2, <2>4
  <2>5. CASE Rerefer(best, s)
    <3>1. best # None => Uses(best) > 0 BY InUse DEF AllInv
    <3>2. best \in OrNone(Slot) /\ s \in OrNone(Slot)
      BY <1>0, <1>22 DEF VisitServer, RouteTypes, ThreadTypes, OrNone
    <3> HIDE DEF s
    <3> QED BY <2>1, <2>3, <2>5, <3>1, <3>2, UseDefers
  <2> QED BY <2>1, <2>4, <2>5
<1>23. CASE VisitEnd
  <2>1. pc[rx] = "visit" /\ Goto(rx, "bind") /\ UnlockServerList(server_list) /\ UNCHANGED <<req, found, dels>>
    BY <1>23 DEF VisitEnd
  <2>2. Moves(rx) BY <2>1 DEF Moves, Goto
  <2>3. Counted(rx) /\ ~Counted(rx)'
    <3>1. pc'[rx] = "bind" BY <1>0, <2>1 DEF Goto, ThreadTypes
    <3> QED BY <2>1, <3>1 DEF Counted, InBracket, Leaks
  <2>4. Deferred!Next BY <1>0, <2>1, <2>2, <2>3, HandlerLeaves
  <2> QED BY <2>4
<1>24. CASE SelectFrom \/ PollEnter \/ PollServer \/ PollFallback \/ PollLeave
  BY <1>0, <1>24 DEF SelectFrom, PollEnter, PollServer, PollFallback, PollLeave, LeastOnly
<1>25. CASE Bind
  <2>1. /\ UNCHANGED <<req, found, dels>> /\ pc[rx] = "bind" /\ Goto(rx, "idle")
    BY <1>25 DEF Bind
  <2>2. Moves(rx) BY <2>1 DEF Moves, Goto
  <2>3. ~Counted(rx) /\ ~Counted(rx)' BY <1>0, <1>2, <2>1
  <2>4. Open' = Open BY <1>0, <2>2, <2>3, OpenStays
  <2>5. CASE UNCHANGED <<server_list, ref_count, memory>> BY <1>0, <1>1, <2>1, <2>2, <2>3, <2>5
  <2>6. CASE Matched /\ Rerefer(route_list[pos].server, None)
    <3>1. pos \in 1..Len(route_list)
      <4>1. pos \in 1..(Len(route_list) + 1) BY <1>25 DEF Bind, AllInv, IInv, RouteInv, Selecting
      <4> QED BY <1>0, <2>6, <4>1, LenProperties DEF Matched
    <3>2. route_list[pos].server \in Slot /\ Uses(route_list[pos].server) > 0 BY <3>1, InUse DEF AllInv
    <3>3. PICK x \in OrNone(Slot) : Rerefer(x, None) /\ Uses(x) > 0 BY <2>6, <3>2 DEF OrNone
    <3> QED BY <1>0, <2>1, <2>4, <3>3, UseDefers
  <2> QED BY <1>25, <2>5, <2>6 DEF Bind
<1>26. CASE Forward
  <2>1. pos \in 1..Len(route_list)
    <3>1. pos \in 1..(Len(route_list) + 1) /\ pos <= Len(route_list)
      BY <1>26 DEF Forward, AllInv, IInv, RouteInv, Matched
    <3> QED BY <1>0, <3>1, LenProperties
  <2>2. /\ UNCHANGED <<req, found, dels>> /\ pc[rx] = "forward" /\ Goto(rx, "idle")
        /\ Holds \/ DeleteRouteListEntry(pos)
    BY <1>26 DEF Forward
  <2>3. Moves(rx) BY <2>2 DEF Moves, Goto
  <2>4. ~Counted(rx) /\ ~Counted(rx)' BY <1>0, <1>2, <2>2
  <2>5. Open' = Open BY <1>0, <2>3, <2>4, OpenStays
  <2>6. CASE Holds BY <1>0, <1>1, <2>2, <2>3, <2>4, <2>6
  <2>7. CASE DeleteRouteListEntry(pos) BY <1>18, <2>1, <2>2, <2>5, <2>7
  <2> QED BY <2>2, <2>6, <2>7
<1> QED
  <2> HIDE DEF Idles
  <2>1. Idles => [Deferred!Next]_(Deferred!dvars) BY DEF Idles
  <2> QED BY <1>4, <1>5, <1>6, <1>7, <1>8, <1>10, <1>11, <1>12, <1>13, <1>14, <1>15, <1>16, <1>17,
             <1>19, <1>20, <1>21, <1>22, <1>23, <1>24, <1>25, <1>26, <2>1 DEF Next

\* At the start the list is empty and nobody reads it.
LEMMA DeferredBegins == ASSUME Init PROVE Deferred!Init /\ Waiting
<1>1. \A t \in Thread : pc[t] = "idle" BY DEF Init
<1>2. dels = 0 /\ pc[rx] = "idle" BY <1>1, ThreadCount DEF Init
<1>3. /\ {u \in Thread : InBracket(u) /\ ~Leaks(u)} = {}
      /\ 1..dels = {}
  BY <1>1, <1>2 DEF InBracket
<1>4. Brackets = {} BY <1>2, <1>3 DEF Brackets
<1>5. Freed = {} BY DEF Init, Freed
<1> QED BY <1>4, <1>5 DEF Init, EmptyList, Deferred!Init, Freed, Waiting

\* Where a deletion is final the handlers of the pool use server_list as an LCXL
\* list is to be used: a server is added once and removed once, while it is
\* linked, and what is asked for during any bracket, DEL_SERVER's endless ones
\* included, waits until the last of them is closed.
THEOREM ServerListDeferred ==
  ASSUME DeletionIsFinal
  PROVE  Spec => ServerListIsDeferred
<1>1. Init => Deferred!Init /\ Waiting BY DeferredBegins
<1>2. AllInv /\ AllInv' /\ Waiting /\ [Next]_vars => [Deferred!Next]_(Deferred!dvars) BY DeferredStep
<1>3. Waiting /\ [Deferred!Next]_(Deferred!dvars) => Waiting' BY WaitingStays
<1>4. Spec => []AllInv BY DrainHolds, PTL DEF AllInv
<1> QED BY <1>1, <1>2, <1>3, <1>4, PTL DEF Spec, Deferred!Spec, ServerListIsDeferred

=============================================================================
