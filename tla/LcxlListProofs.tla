--------------------------- MODULE LcxlListProofs ---------------------------
(***************************************************************************)
(* Proofs about LcxlList, for any set of callers smaller than the range of *)
(* lock_count and any set of entries: the inductive invariant IInv, and    *)
(* from it the properties the runs check on small instances, and that the  *)
(* list implements DeferredList.                                           *)
(***************************************************************************)
EXTENDS LcxlList, LcxlListOpsProofs, FiniteSetTheorems

-----------------------------------------------------------------------------
(* Sequences without repetitions.                                           *)

\* Taking the head off a queue.
LEMMA TailDrops ==
  ASSUME NEW S, NEW s \in Seq(S), IsInjective(s), s # <<>>
  PROVE  /\ Head(s) \in S /\ Head(s) \in ToSet(s)
         /\ Tail(s) \in Seq(S)
         /\ ToSet(Tail(s)) = ToSet(s) \ {Head(s)}
         /\ IsInjective(Tail(s))
<1> DEFINE t == Tail(s)
<1>1. /\ Head(s) \in S /\ t \in Seq(S) /\ Len(t) = Len(s) - 1
      /\ \A i \in 1..Len(t) : t[i] = s[i + 1]
      /\ Len(s) \in Nat \ {0} /\ Head(s) = s[1]
  BY HeadTailProperties, LenProperties, EmptySeq
<1> HIDE DEF t
<1>2. Head(s) \in ToSet(s)
  <2>1. 1 \in 1..Len(s) BY <1>1
  <2> QED BY <2>1, <1>1, SetOfSeq
<1>3. \A i, j \in 1..Len(s) : s[i] = s[j] => i = j BY SetOfSeq
<1>4. \A x : x \in ToSet(t) <=> x \in ToSet(s) \ {Head(s)}
  <2>1. \A x : x \in ToSet(t) <=> \E i \in 1..(Len(s) - 1) : t[i] = x
    BY <1>1, SetOfSeq
  <2>2. \A x : x \in ToSet(s) <=> \E i \in 1..Len(s) : s[i] = x
    BY SetOfSeq
  <2>3. ASSUME NEW x \in ToSet(t) PROVE x \in ToSet(s) \ {Head(s)}
    <3>1. PICK i \in 1..(Len(s) - 1) : t[i] = x BY <2>1
    <3>2. i + 1 \in 1..Len(s) /\ 1 \in 1..Len(s) /\ i + 1 # 1 /\ s[i + 1] = x BY <3>1, <1>1
    <3> QED BY <3>2, <2>2, <1>1, <1>3
  <2>4. ASSUME NEW x \in ToSet(s), x # Head(s) PROVE x \in ToSet(t)
    <3>1. PICK i \in 1..Len(s) : s[i] = x BY <2>2
    <3>2. i # 1 BY <3>1, <2>4, <1>1
    <3>3. i - 1 \in 1..(Len(s) - 1) /\ (i - 1) + 1 = i BY <3>1, <3>2, <1>1
    <3>4. t[i - 1] = x BY <3>1, <3>3, <1>1
    <3> QED BY <3>3, <3>4, <2>1
  <2> QED BY <2>3, <2>4
<1>5. IsInjective(t)
  <2>1. ASSUME NEW i \in 1..Len(t), NEW j \in 1..Len(t), t[i] = t[j]
        PROVE  i = j
    <3>1. i + 1 \in 1..Len(s) /\ j + 1 \in 1..Len(s) /\ s[i + 1] = s[j + 1] BY <2>1, <1>1
    <3>2. i + 1 = j + 1 BY <3>1, <1>3
    <3> QED BY <3>2, <1>1
  <2> QED BY <2>1, <1>1, SetOfSeq
<1> QED BY <1>1, <1>2, <1>4, <1>5 DEF t

\* RemoveEntryList takes out exactly the entry, once.
LEMMA UnlinkRemoves ==
  ASSUME NEW S, NEW s \in Seq(S), NEW e, IsInjective(s), e \in ToSet(s)
  PROVE  /\ Unlink(s, e) \in Seq(S)
         /\ Len(Unlink(s, e)) = Len(s) - 1
         /\ ToSet(Unlink(s, e)) = ToSet(s) \ {e}
         /\ IsInjective(Unlink(s, e))
<1> DEFINE p == Position(s, e)
           t == Unlink(s, e)
<1>1. /\ p \in 1..Len(s) /\ s[p] = e
  BY SetOfSeq DEF Position
<1>2. \A i, j \in 1..Len(s) : s[i] = s[j] => i = j BY SetOfSeq
<1>3. t = [i \in 1..(Len(s) - 1) |-> IF i < p THEN s[i] ELSE s[i + 1]]
  BY DEF Unlink
<1>4. Len(s) \in Nat \ {0} /\ p \in Nat /\ Len(s) - 1 \in Nat
  BY <1>1, LenProperties
<1> HIDE DEF p, t
<1>5. \A i \in 1..(Len(s) - 1) : /\ i \in 1..Len(s) /\ i + 1 \in 1..Len(s)
                                 /\ t[i] = IF i < p THEN s[i] ELSE s[i + 1]
  BY <1>3, <1>4
<1>6. t \in Seq(S) /\ Len(t) = Len(s) - 1
  <2>1. \A i \in 1..(Len(s) - 1) : t[i] \in S BY <1>5, ElementOfSeq
  <2>2. t \in [1..(Len(s) - 1) -> S] BY <2>1, <1>3
  <2> QED BY <2>2, <1>4
<1>7. \A x : x \in ToSet(t) <=> x \in ToSet(s) \ {e}
  <2>1. \A x : x \in ToSet(t) <=> \E i \in 1..(Len(s) - 1) : t[i] = x
    BY <1>6, SetOfSeq
  <2>2. \A x : x \in ToSet(s) <=> \E i \in 1..Len(s) : s[i] = x
    BY SetOfSeq
  <2>3. ASSUME NEW x \in ToSet(t) PROVE x \in ToSet(s) \ {e}
    <3>1. PICK i \in 1..(Len(s) - 1) : t[i] = x BY <2>1
    <3>2. CASE i < p
      <4>1. s[i] = x /\ i # p /\ i \in 1..Len(s) BY <3>1, <3>2, <1>5, <1>4
      <4> QED BY <4>1, <2>2, <1>1, <1>2
    <3>3. CASE ~(i < p)
      <4>1. s[i + 1] = x /\ i + 1 # p /\ i + 1 \in 1..Len(s) BY <3>1, <3>3, <1>5, <1>4
      <4> QED BY <4>1, <2>2, <1>1, <1>2
    <3> QED BY <3>2, <3>3
  <2>4. ASSUME NEW x \in ToSet(s), x # e PROVE x \in ToSet(t)
    <3>1. PICK i \in 1..Len(s) : s[i] = x BY <2>2
    <3>2. CASE i < p
      <4>1. i \in 1..(Len(s) - 1) BY <3>1, <3>2, <1>1, <1>4
      <4> QED BY <4>1, <3>1, <3>2, <2>1, <1>5
    <3>3. CASE ~(i < p)
      <4>1. i # p BY <3>1, <2>4, <1>1
      <4>2. i - 1 \in 1..(Len(s) - 1) /\ ~(i - 1 < p) /\ (i - 1) + 1 = i
        BY <4>1, <3>1, <3>3, <1>1, <1>4
      <4>3. t[i - 1] = x BY <4>2, <3>1, <1>5
      <4> QED BY <4>2, <4>3, <2>1
    <3> QED BY <3>2, <3>3
  <2> QED BY <2>3, <2>4
<1>8. IsInjective(t)
  <2>1. ASSUME NEW i \in 1..(Len(s) - 1), NEW j \in 1..(Len(s) - 1), t[i] = t[j]
        PROVE  i = j
    <3>1. CASE i < p /\ j < p BY <3>1, <2>1, <1>5, <1>2
    <3>2. CASE i < p /\ ~(j < p)
      <4>1. i = j + 1 BY <3>2, <2>1, <1>5, <1>2
      <4> QED BY <4>1, <3>2, <1>4
    <3>3. CASE ~(i < p) /\ j < p
      <4>1. i + 1 = j BY <3>3, <2>1, <1>5, <1>2
      <4> QED BY <4>1, <3>3, <1>4
    <3>4. CASE ~(i < p) /\ ~(j < p)
      <4>1. i + 1 = j + 1 BY <3>4, <2>1, <1>5, <1>2
      <4> QED BY <4>1, <1>4
    <3> QED BY <3>1, <3>2, <3>3, <3>4
  <2> QED BY <2>1, <1>6, SetOfSeq
<1> QED BY <1>6, <1>7, <1>8 DEF t

-----------------------------------------------------------------------------
(* Counting brackets and references.                                        *)

\* A counter that has not reached its range is not changed by wrapping.
LEMMA NoWrap ==
  ASSUME NEW m \in Nat, NEW n \in 0..(m - 1)
  PROVE  n % m = n
OBVIOUS

\* lock_count counts a finite set, which it can never outgrow.
LEMMA HeldCount ==
  ASSUME NEW H \in SUBSET Caller
  PROVE  /\ IsFiniteSet(H) /\ Cardinality(H) \in 0..(LockMod - 1)
         /\ Cardinality(H) = 0 <=> H = {}
         /\ \A c \in Caller \ H : Cardinality(H \cup {c}) = Cardinality(H) + 1
         /\ \A c \in H : Cardinality(H \ {c}) = Cardinality(H) - 1
<1>1. IsFiniteSet(Caller) /\ Cardinality(Caller) < LockMod /\ LockMod \in Nat
  BY CallerAssumption, WidthAssumption
<1>2. IsFiniteSet(H) /\ Cardinality(H) <= Cardinality(Caller)
  BY <1>1, FS_Subset
<1>3. Cardinality(H) \in Nat /\ Cardinality(Caller) \in Nat
  BY <1>1, <1>2, FS_CardinalityType
<1>4. Cardinality(H) = 0 <=> H = {}
  BY <1>2, FS_EmptySet
<1>5. \A c \in Caller \ H : Cardinality(H \cup {c}) = Cardinality(H) + 1
  BY <1>2, FS_AddElement
<1>6. \A c \in H : Cardinality(H \ {c}) = Cardinality(H) - 1
  BY <1>2, FS_RemoveElement
<1> QED BY <1>1, <1>2, <1>3, <1>4, <1>5, <1>6

\* The callers that hold a reference to an entry.
Users(r, e) == {c \in Caller : e \in r[c]}

\* RefCountExact in terms of Users.
LEMMA RefCountIsUsers ==
  RefCountExact <=> \A e \in Entry : memory[e] # "unused" =>
    ref_count[e] = Cardinality(Users(refs, e)) + (IF deleted[e] THEN 0 ELSE 1)
BY DEF RefCountExact, Users

\* The number of users of an entry, and when it is zero.
LEMMA UserCount ==
  ASSUME NEW r, NEW e
  PROVE  /\ Cardinality(Users(r, e)) \in Nat
         /\ Cardinality(Users(r, e)) = 0 <=> \A c \in Caller : e \notin r[c]
<1>1. Users(r, e) \in SUBSET Caller BY DEF Users
<1>2. Users(r, e) = {} <=> \A c \in Caller : e \notin r[c] BY DEF Users
<1>3. \A n \in 0..(LockMod - 1) : n \in Nat BY WidthAssumption
<1> QED BY <1>1, <1>2, <1>3, HeldCount

-----------------------------------------------------------------------------
(* The initial state.                                                       *)

\* The empty list satisfies the invariant.
LEMMA EmptyListIsGood == Init => IInv
<1> SUFFICES ASSUME Init PROVE IInv
  OBVIOUS
<1> USE DEF Init
<1>1. /\ <<>> \in Seq(Entry) /\ Len(<<>>) = 0
      /\ ToSet(<<>>) = {} /\ IsInjective(<<>>)
  BY EmptySeq, SetOfSeq DEF IsInjective
<1>2. TypeOK
  <2>1. 0 \in 0..(LockMod - 1) BY HeldCount, FS_EmptySet
  <2> QED BY <2>1, <1>1 DEF TypeOK
<1>3. LockInv BY HeldCount, CallerAssumption DEF LockInv
<1>4. ListInv BY <1>1 DEF ListInv
<1>5. ReachInv BY DEF ReachInv
<1>6. RemovedOnce BY <1>1 DEF RemovedOnce
<1>7. QueuesDrained BY DEF QueuesDrained
<1>8. RefCountExact BY DEF RefCountExact
<1> QED BY <1>2, <1>3, <1>4, <1>5, <1>6, <1>7, <1>8 DEF IInv

-----------------------------------------------------------------------------
(* The steps of one caller c: one lemma per function.                       *)

\* Opening a bracket touches the counter only.
LEMMA LockStep ==
  ASSUME IInv, NEW c \in Caller, LockLcxlList(c)
  PROVE  IInv'
<1> USE DEF IInv
<1>1. /\ lock = NoCaller /\ c \in Caller \ held /\ held \in SUBSET Caller
      /\ held' = held \cup {c} /\ lock' = lock /\ pc' = pc
      /\ lock_count' = (lock_count + 1) % LockMod
      /\ UNCHANGED <<list, list_count, to_be_add_list, to_be_del_list,
                     entryVars, cursor, refs, arg>>
  BY DEF LockLcxlList, CanEnter, TypeOK
<1>2. lock_count' = Cardinality(held') /\ lock_count' \in 0..(LockMod - 1)
  <2>1. held' \in SUBSET Caller BY <1>1
  <2>2. /\ Cardinality(held') = Cardinality(held) + 1
        /\ Cardinality(held') \in 0..(LockMod - 1)
    BY <1>1, <2>1, HeldCount
  <2>3. lock_count + 1 \in 0..(LockMod - 1) BY <2>2 DEF LockInv
  <2>4. (lock_count + 1) % LockMod = lock_count + 1
    BY <2>3, NoWrap, WidthAssumption
  <2> QED BY <2>2, <2>4, <1>1 DEF LockInv
<1>3. TypeOK' BY <1>1, <1>2 DEF TypeOK, entryVars
<1>4. LockInv' BY <1>1, <1>2 DEF LockInv
<1>5. ListInv' BY <1>1 DEF ListInv, entryVars
<1>6. ReachInv' BY <1>1 DEF ReachInv, entryVars
<1>7. RemovedOnce' BY <1>1 DEF RemovedOnce, entryVars
<1>8. QueuesDrained' BY <1>1 DEF QueuesDrained
<1>9. RefCountExact' BY <1>1 DEF RefCountExact, entryVars
<1> QED BY <1>3, <1>4, <1>5, <1>6, <1>7, <1>8, <1>9

\* A new entry is in no list, no queue and nobody's hands.
LEMMA AddStep ==
  ASSUME IInv, NEW c \in Caller, NEW e \in Entry, AddEntrytoLcxlList(c, e)
  PROVE  IInv'
<1> USE DEF IInv
<1>1. /\ lock = NoCaller /\ memory[e] = "unused"
      /\ memory' = [memory EXCEPT ![e] = "live"]
      /\ ref_count' = [ref_count EXCEPT ![e] = 1]
      /\ UNCHANGED <<to_be_del_list, lock_count, lock, deleted, callerVars>>
  BY DEF AddEntrytoLcxlList, CanEnter
<1>2. \/ /\ lock_count > 0 /\ to_be_add_list' = Append(to_be_add_list, e)
         /\ UNCHANGED <<list, list_count>>
      \/ /\ lock_count = 0 /\ list' = Append(list, e) /\ list_count' = list_count + 1
         /\ UNCHANGED to_be_add_list
  BY DEF AddEntrytoLcxlList
<1>3. /\ list \in Seq(Entry) /\ to_be_add_list \in Seq(Entry)
      /\ memory \in [Entry -> {"unused", "live", "freed"}]
      /\ ref_count \in [Entry -> Int] /\ refs \in [Caller -> SUBSET Entry]
  BY DEF TypeOK
<1>4. e \notin ToSet(list) /\ e \notin ToSet(to_be_add_list)
  BY <1>1 DEF ListInv
<1>5. /\ ToSet(to_be_del_list) \subseteq ToSet(list)
      /\ \A d \in Caller : refs[d] \subseteq ToSet(list)
  BY DEF ReachInv, RemovedOnce
<1>6. /\ list' \in Seq(Entry) /\ to_be_add_list' \in Seq(Entry)
      /\ IsInjective(list') /\ IsInjective(to_be_add_list')
      /\ ToSet(list') \cup ToSet(to_be_add_list')
           = ToSet(list) \cup ToSet(to_be_add_list) \cup {e}
      /\ ToSet(list') \cap ToSet(to_be_add_list') = {}
      /\ ToSet(list) \subseteq ToSet(list')
      /\ list_count' = Len(list')
  <2>1. IsInjective(list) /\ IsInjective(to_be_add_list) /\ list_count = Len(list)
        /\ ToSet(list) \cap ToSet(to_be_add_list) = {}
    BY DEF ListInv
  <2>2. CASE lock_count > 0 /\ to_be_add_list' = Append(to_be_add_list, e)
             /\ UNCHANGED <<list, list_count>>
    <3>1. /\ to_be_add_list' \in Seq(Entry) /\ IsInjective(to_be_add_list')
          /\ ToSet(to_be_add_list') = ToSet(to_be_add_list) \cup {e}
      BY <2>1, <2>2, <1>3, <1>4, AppendAdds
    <3> QED BY <3>1, <2>1, <2>2, <1>3, <1>4
  <2>3. CASE lock_count = 0 /\ list' = Append(list, e) /\ list_count' = list_count + 1
             /\ UNCHANGED to_be_add_list
    <3>1. /\ list' \in Seq(Entry) /\ IsInjective(list') /\ Len(list') = Len(list) + 1
          /\ ToSet(list') = ToSet(list) \cup {e}
      BY <2>1, <2>3, <1>3, <1>4, AppendAdds
    <3> QED BY <3>1, <2>1, <2>3, <1>3, <1>4
  <2> QED BY <1>2, <2>2, <2>3
<1>7. TypeOK'
  <2>1. list_count' \in Int BY <1>6, LenProperties
  <2> QED BY <2>1, <1>1, <1>6 DEF TypeOK, callerVars
<1>8. LockInv' BY <1>1 DEF LockInv, callerVars
<1>9. ListInv' BY <1>1, <1>3, <1>6 DEF ListInv
<1>10. ReachInv'
  BY <1>1, <1>3, <1>6 DEF ReachInv, callerVars
<1>11. RemovedOnce'
  BY <1>1, <1>3, <1>4, <1>5, <1>6 DEF RemovedOnce, callerVars, TypeOK
<1>12. QueuesDrained'
  <2>1. SUFFICES ASSUME held = {}, lock = NoCaller
                 PROVE  to_be_add_list' = <<>> /\ to_be_del_list' = <<>>
    BY <1>1 DEF QueuesDrained, callerVars
  <2>2. lock_count = 0 BY <2>1, HeldCount DEF LockInv
  <2> QED BY <2>1, <2>2, <1>1, <1>2 DEF QueuesDrained
<1>13. RefCountExact'
  <2>1. \A x \in Entry : memory[x] # "unused" =>
          ref_count[x] = Cardinality(Users(refs, x)) + (IF deleted[x] THEN 0 ELSE 1)
    BY RefCountIsUsers
  <2>2. \A d \in Caller : e \notin refs[d] BY <1>4, <1>5
  <2>3. Cardinality(Users(refs, e)) = 0 BY <2>2, UserCount
  <2>4. ~deleted[e] BY <1>1 DEF ReachInv
  <2>5. \A x \in Entry : memory'[x] # "unused" =>
          ref_count'[x] = Cardinality(Users(refs, x)) + (IF deleted[x] THEN 0 ELSE 1)
    BY <2>1, <2>3, <2>4, <1>1, <1>3
  <2> QED BY <2>5, <1>1 DEF RefCountExact, Users, callerVars
<1> QED BY <1>7, <1>8, <1>9, <1>10, <1>11, <1>12, <1>13

\* Walking the links reaches linked entries only.
LEMMA WalkStep ==
  ASSUME IInv, NEW c \in Caller, FollowLink(c)
  PROVE  IInv'
<1> USE DEF IInv
<1>1. /\ c \in held
      /\ cursor' = [cursor EXCEPT ![c] = Flink(list, cursor[c])]
      /\ UNCHANGED <<listVars, lock, entryVars, held, refs, pc, arg>>
  BY DEF FollowLink
<1> USE DEF listVars, entryVars
<1>2. list \in Seq(Entry) /\ cursor \in [Caller -> Entry \cup {NoEntry}] BY DEF TypeOK
<1>3. /\ ToSet(list) \subseteq Entry /\ Len(list) \in Nat
      /\ \A i \in 1..Len(list) : list[i] \in ToSet(list)
      /\ \A x \in ToSet(list) : \E i \in 1..Len(list) : list[i] = x
      /\ list # <<>> => 1 \in 1..Len(list)
  BY <1>2, SetOfSeq, LenProperties, EmptySeq
<1>4. Flink(list, cursor[c]) \in ToSet(list) \cup {NoEntry}
  <2>1. CASE cursor[c] = NoEntry
    BY <2>1, <1>3 DEF Flink
  <2>2. CASE cursor[c] # NoEntry
    <3>1. cursor[c] \in ToSet(list) BY <2>2 DEF ReachInv
    <3>2. Position(list, cursor[c]) \in 1..Len(list) BY <3>1, <1>3 DEF Position
    <3>3. Position(list, cursor[c]) # Len(list) =>
            Position(list, cursor[c]) + 1 \in 1..Len(list)
      BY <3>2, <1>3
    <3> QED BY <2>2, <3>3, <1>3 DEF Flink
  <2> QED BY <2>1, <2>2
<1>5. TypeOK' BY <1>1, <1>2, <1>3, <1>4 DEF TypeOK
<1>6. LockInv' BY <1>1 DEF LockInv
<1>7. ListInv' BY <1>1 DEF ListInv
<1>8. ReachInv' BY <1>1, <1>2, <1>4 DEF ReachInv
<1>9. RemovedOnce' BY <1>1 DEF RemovedOnce
<1>10. QueuesDrained' BY <1>1 DEF QueuesDrained
<1>11. RefCountExact' BY <1>1 DEF RefCountExact
<1> QED BY <1>5, <1>6, <1>7, <1>8, <1>9, <1>10, <1>11

\* A reference is taken on a linked entry that the list still refers to, so
\* the entry is not being removed.
LEMMA IncRefStep ==
  ASSUME IInv, NEW c \in Caller, IncRefListEntry(c)
  PROVE  IInv'
<1> USE DEF IInv
<1>0. PICK e \in Entry : e = cursor[c]
  BY DEF IncRefListEntry, TypeOK
<1>1. /\ c \in held /\ e # NoEntry /\ ~deleted[e] /\ e \notin refs[c]
      /\ ref_count' = [ref_count EXCEPT ![e] = @ + 1]
      /\ refs' = [refs EXCEPT ![c] = @ \cup {e}]
      /\ UNCHANGED <<listVars, lock, deleted, memory, held, cursor, pc, arg>>
  BY <1>0 DEF IncRefListEntry
<1> USE DEF listVars
<1>2. /\ list \in Seq(Entry) /\ ref_count \in [Entry -> Int]
      /\ refs \in [Caller -> SUBSET Entry]
      /\ cursor \in [Caller -> Entry \cup {NoEntry}]
  BY DEF TypeOK
<1>3. e \in ToSet(list) BY <1>0, <1>1, <1>2 DEF ReachInv
<1>4. \A x \in Entry : memory[x] # "unused" =>
        ref_count[x] = Cardinality(Users(refs, x)) + (IF deleted[x] THEN 0 ELSE 1)
  BY RefCountIsUsers
<1>5. ref_count[e] # 0
  <2>1. memory[e] # "unused" BY <1>3 DEF ListInv
  <2> QED BY <2>1, <1>1, <1>3, <1>4, UserCount
<1>6. TypeOK' BY <1>1, <1>2, <1>3 DEF TypeOK
<1>7. LockInv' BY <1>1 DEF LockInv
<1>8. ListInv' BY <1>1 DEF ListInv
<1>9. ReachInv' BY <1>1, <1>2, <1>3 DEF ReachInv
<1>10. RemovedOnce'
  <2>1. e \notin ToSet(to_be_del_list) BY <1>5 DEF RemovedOnce
  <2>2. \A d \in Caller : pc[d] = "remove" => arg[d] # e BY <1>5 DEF RemovedOnce
  <2>3. ToSet(to_be_del_list) \subseteq Entry /\ ToSet(list) \subseteq Entry
    BY SetOfSeq DEF TypeOK
  <2> QED BY <2>1, <2>2, <2>3, <1>1, <1>2, <1>3 DEF RemovedOnce
<1>11. QueuesDrained' BY <1>1 DEF QueuesDrained
<1>12. RefCountExact'
  <2>1. /\ Cardinality(Users(refs', e)) = Cardinality(Users(refs, e)) + 1
        /\ \A x \in Entry \ {e} : Cardinality(Users(refs', x)) = Cardinality(Users(refs, x))
    <3>1. Users(refs', e) = Users(refs, e) \cup {c} BY <1>1, <1>2 DEF Users
    <3>2. \A x \in Entry \ {e} : Users(refs', x) = Users(refs, x)
      BY <1>1, <1>2 DEF Users
    <3>3. Users(refs, e) \in SUBSET Caller /\ c \notin Users(refs, e) BY <1>1 DEF Users
    <3>4. Cardinality(Users(refs, e) \cup {c}) = Cardinality(Users(refs, e)) + 1
      BY <3>3, HeldCount
    <3> QED BY <3>1, <3>2, <3>4
  <2>2. Cardinality(Users(refs, e)) \in Nat BY UserCount
  <2>3. \A x \in Entry : memory[x] # "unused" =>
          ref_count'[x] = Cardinality(Users(refs', x)) + (IF deleted[x] THEN 0 ELSE 1)
    <3> TAKE x \in Entry
    <3>1. CASE x = e BY <3>1, <2>1, <2>2, <1>1, <1>2, <1>3, <1>4
    <3>2. CASE x # e BY <3>2, <2>1, <1>1, <1>2, <1>3, <1>4
    <3> QED BY <3>1, <3>2
  <2> QED BY <2>3, <1>1 DEF RefCountExact, Users
<1> QED BY <1>6, <1>7, <1>8, <1>9, <1>10, <1>11, <1>12

\* A reference of a linked entry is given back: at zero the entry is the
\* argument of this caller's removal and of no other's, queued or under way.
LEMMA DecRefKeeps ==
  ASSUME IInv, NEW c \in Caller, NEW e \in Entry, pc[c] = "idle",
         e \in ToSet(list), ref_count[e] >= 1, DecRefListEntry(c, e),
         UNCHANGED <<list, to_be_del_list, lock_count, lock, held>>
  PROVE  /\ LockInv' /\ RemovedOnce'
         /\ ref_count' \in [Entry -> Int]
         /\ pc' \in [Caller -> {"idle", "remove", "apply"}]
         /\ arg' \in [Caller -> Entry \cup {NoEntry}]
         /\ ref_count' = [ref_count EXCEPT ![e] = @ - 1]
<1> USE DEF IInv
<1>1. ref_count' = [ref_count EXCEPT ![e] = @ - 1]
  BY DEF DecRefListEntry
<1>2. \/ /\ ref_count[e] = 1
         /\ pc' = [pc EXCEPT ![c] = "remove"] /\ arg' = [arg EXCEPT ![c] = e]
      \/ ref_count[e] > 1 /\ pc' = pc /\ arg' = arg
  BY DEF DecRefListEntry, TypeOK
<1>3. /\ ref_count \in [Entry -> Int]
      /\ pc \in [Caller -> {"idle", "remove", "apply"}]
      /\ arg \in [Caller -> Entry \cup {NoEntry}]
      /\ list \in Seq(Entry) /\ to_be_del_list \in Seq(Entry)
  BY DEF TypeOK
<1>4. /\ ref_count' \in [Entry -> Int]
      /\ pc' \in [Caller -> {"idle", "remove", "apply"}]
      /\ arg' \in [Caller -> Entry \cup {NoEntry}]
  <2>1. ref_count' \in [Entry -> Int] BY <1>1, <1>3
  <2>2. pc' \in [Caller -> {"idle", "remove", "apply"}] BY <1>2, <1>3
  <2>3. arg' \in [Caller -> Entry \cup {NoEntry}] BY <1>2, <1>3
  <2> QED BY <2>1, <2>2, <2>3
<1>5. LockInv'
  <2>1. \A d \in Caller : pc'[d] = "apply" <=> pc[d] = "apply" BY <1>2, <1>3
  <2> QED BY <2>1 DEF LockInv
<1>6. RemovedOnce'
  <2>1. ToSet(to_be_del_list) \subseteq Entry BY <1>3, SetOfSeq
  <2>2. e \notin ToSet(to_be_del_list) BY DEF RemovedOnce
  <2>3. \A d \in Caller : pc[d] = "remove" => arg[d] # e /\ arg[d] \in Entry
    <3>1. ToSet(list) \subseteq Entry BY <1>3, SetOfSeq
    <3> QED BY <3>1 DEF RemovedOnce
  <2>4. \A x \in ToSet(to_be_del_list) : ref_count'[x] = 0
    BY <2>1, <2>2, <1>1, <1>3 DEF RemovedOnce
  <2>5. CASE ref_count[e] = 1 /\ pc' = [pc EXCEPT ![c] = "remove"]
             /\ arg' = [arg EXCEPT ![c] = e]
    <3>1. ref_count'[e] = 0 /\ arg'[c] = e BY <2>5, <1>1, <1>3
    <3>2. \A d \in Caller \ {c} : pc'[d] = pc[d] /\ arg'[d] = arg[d] BY <2>5, <1>3
    <3>3. \A d \in Caller \ {c} : pc[d] = "remove" => ref_count'[arg[d]] = 0
      BY <2>3, <1>1, <1>3 DEF RemovedOnce
    <3> QED BY <2>2, <2>3, <2>4, <3>1, <3>2, <3>3 DEF RemovedOnce
  <2>6. CASE pc' = pc /\ arg' = arg
    BY <2>3, <2>4, <2>6, <1>1, <1>3 DEF RemovedOnce
  <2> QED BY <2>5, <2>6, <1>2
<1> QED BY <1>1, <1>4, <1>5, <1>6

LEMMA GiveBackStep ==
  ASSUME IInv, NEW c \in Caller, NEW e \in Entry, GiveBack(c, e)
  PROVE  IInv'
<1> USE DEF IInv, listVars
<1>1. /\ pc[c] = "idle" /\ e \in refs[c] /\ DecRefListEntry(c, e)
      /\ refs' = [refs EXCEPT ![c] = @ \ {e}]
      /\ UNCHANGED <<listVars, lock, deleted, memory, held, cursor>>
  BY DEF GiveBack
<1>2. /\ refs \in [Caller -> SUBSET Entry] /\ ref_count \in [Entry -> Int]
  BY DEF TypeOK
<1>3. e \in ToSet(list) /\ memory[e] = "live"
  BY <1>1 DEF ReachInv, ListInv
<1>4. \A x \in Entry : memory[x] # "unused" =>
        ref_count[x] = Cardinality(Users(refs, x)) + (IF deleted[x] THEN 0 ELSE 1)
  BY RefCountIsUsers
<1>5. /\ Cardinality(Users(refs', e)) = Cardinality(Users(refs, e)) - 1
      /\ \A x \in Entry \ {e} : Cardinality(Users(refs', x)) = Cardinality(Users(refs, x))
  <2>1. Users(refs', e) = Users(refs, e) \ {c} BY <1>1, <1>2 DEF Users
  <2>2. \A x \in Entry \ {e} : Users(refs', x) = Users(refs, x)
    BY <1>1, <1>2 DEF Users
  <2>3. Users(refs, e) \in SUBSET Caller /\ c \in Users(refs, e) BY <1>1 DEF Users
  <2>4. Cardinality(Users(refs, e) \ {c}) = Cardinality(Users(refs, e)) - 1
    BY <2>3, HeldCount
  <2> QED BY <2>1, <2>2, <2>4
<1>6. Cardinality(Users(refs', e)) \in Nat /\ Cardinality(Users(refs, e)) \in Nat
  BY UserCount
<1>7. ref_count[e] >= 1
  BY <1>3, <1>4, <1>5, <1>6
<1>8. /\ LockInv' /\ RemovedOnce'
      /\ ref_count' \in [Entry -> Int]
      /\ pc' \in [Caller -> {"idle", "remove", "apply"}]
      /\ arg' \in [Caller -> Entry \cup {NoEntry}]
      /\ ref_count' = [ref_count EXCEPT ![e] = @ - 1]
  BY <1>1, <1>3, <1>7, DecRefKeeps
<1>9. TypeOK' BY <1>1, <1>2, <1>8 DEF TypeOK
<1>10. ListInv' BY <1>1 DEF ListInv
<1>11. ReachInv' BY <1>1, <1>2 DEF ReachInv
<1>12. QueuesDrained' BY <1>1 DEF QueuesDrained
<1>13. RefCountExact'
  <2>1. \A x \in Entry : memory[x] # "unused" =>
          ref_count'[x] = Cardinality(Users(refs', x)) + (IF deleted[x] THEN 0 ELSE 1)
    <3> TAKE x \in Entry
    <3>1. CASE x = e BY <3>1, <1>2, <1>4, <1>5, <1>6, <1>8
    <3>2. CASE x # e BY <3>2, <1>2, <1>4, <1>5, <1>8
    <3> QED BY <3>1, <3>2
  <2> QED BY <2>1, <1>1 DEF RefCountExact, Users
<1> QED BY <1>8, <1>9, <1>10, <1>11, <1>12, <1>13

LEMMA MarkDeletedStep ==
  ASSUME IInv, NEW c \in Caller, MarkDeleted(c)
  PROVE  IInv'
<1> USE DEF IInv, listVars
<1>0. PICK e \in Entry : e = cursor[c]
  BY DEF MarkDeleted, TypeOK
<1>1. /\ pc[c] = "idle" /\ ~deleted[e] /\ e # NoEntry
      /\ deleted' = [deleted EXCEPT ![e] = TRUE]
      /\ DecRefListEntry(c, e)
      /\ UNCHANGED <<listVars, lock, memory, held, cursor, refs>>
  BY <1>0 DEF MarkDeleted
<1>2. ref_count \in [Entry -> Int] /\ deleted \in [Entry -> BOOLEAN]
  BY DEF TypeOK
<1>3. e \in ToSet(list) /\ memory[e] = "live"
  BY <1>0, <1>1 DEF ReachInv, ListInv
<1>4. \A x \in Entry : memory[x] # "unused" =>
        ref_count[x] = Cardinality(Users(refs, x)) + (IF deleted[x] THEN 0 ELSE 1)
  BY RefCountIsUsers
<1>5. Cardinality(Users(refs, e)) \in Nat BY UserCount
<1>6. ref_count[e] >= 1 BY <1>1, <1>3, <1>4, <1>5
<1>7. /\ LockInv' /\ RemovedOnce'
      /\ ref_count' \in [Entry -> Int]
      /\ pc' \in [Caller -> {"idle", "remove", "apply"}]
      /\ arg' \in [Caller -> Entry \cup {NoEntry}]
      /\ ref_count' = [ref_count EXCEPT ![e] = @ - 1]
  BY <1>1, <1>3, <1>6, DecRefKeeps
<1>8. TypeOK' BY <1>1, <1>2, <1>7 DEF TypeOK
<1>9. ListInv' BY <1>1 DEF ListInv
<1>10. ReachInv' BY <1>1, <1>2, <1>3 DEF ReachInv
<1>11. QueuesDrained' BY <1>1 DEF QueuesDrained
<1>12. RefCountExact'
  <2>1. \A x \in Entry : memory[x] # "unused" =>
          ref_count'[x] = Cardinality(Users(refs, x)) + (IF deleted'[x] THEN 0 ELSE 1)
    <3> TAKE x \in Entry
    <3>1. CASE x = e BY <3>1, <1>1, <1>2, <1>4, <1>5, <1>7
    <3>2. CASE x # e BY <3>2, <1>1, <1>2, <1>4, <1>7
    <3> QED BY <3>1, <3>2
  <2> QED BY <2>1, <1>1 DEF RefCountExact, Users
<1> QED BY <1>7, <1>8, <1>9, <1>10, <1>11, <1>12

\* An entry at zero references is unlinked and freed while no bracket is open:
\* nobody stands on it and nobody refers to it.
LEMMA FreeingKeeps ==
  ASSUME IInv, NEW e \in Entry, held = {}, e \in ToSet(list), ref_count[e] = 0,
         list' = Unlink(list, e), list_count' = list_count - 1,
         memory' = [memory EXCEPT ![e] = "freed"],
         UNCHANGED <<to_be_add_list, ref_count, deleted, held, cursor, refs>>
  PROVE  /\ ListInv' /\ ReachInv' /\ RefCountExact'
         /\ list' \in Seq(Entry) /\ list_count' \in Int
         /\ memory' \in [Entry -> {"unused", "live", "freed"}]
         /\ IsInjective(list') /\ ToSet(list') = ToSet(list) \ {e}
<1> USE DEF IInv
<1>1. /\ list \in Seq(Entry) /\ to_be_add_list \in Seq(Entry)
      /\ memory \in [Entry -> {"unused", "live", "freed"}]
      /\ refs \in [Caller -> SUBSET Entry]
  BY DEF TypeOK
<1>2. IsInjective(list) /\ list_count = Len(list) /\ Len(list) \in Nat
  BY <1>1, LenProperties DEF ListInv
<1>3. /\ list' \in Seq(Entry) /\ Len(list') = Len(list) - 1
      /\ ToSet(list') = ToSet(list) \ {e} /\ IsInjective(list')
  BY <1>1, <1>2, UnlinkRemoves
<1>4. list_count' \in Int /\ list_count' = Len(list') BY <1>2, <1>3
<1>5. memory' \in [Entry -> {"unused", "live", "freed"}] BY <1>1
<1>6. \A x \in Entry : memory[x] # "unused" =>
        ref_count[x] = Cardinality(Users(refs, x)) + (IF deleted[x] THEN 0 ELSE 1)
  BY RefCountIsUsers
<1>7. memory[e] = "live" BY DEF ListInv
<1>8. deleted[e] /\ \A c \in Caller : e \notin refs[c]
  BY <1>6, <1>7, UserCount
<1>9. ListInv'
  <2>1. ToSet(list) \subseteq Entry /\ ToSet(to_be_add_list) \subseteq Entry
    BY <1>1, SetOfSeq
  <2> QED BY <2>1, <1>1, <1>3, <1>4 DEF ListInv
<1>10. ReachInv'
  <2>1. \A c \in Caller : cursor[c] = NoEntry BY DEF ReachInv
  <2> QED BY <2>1, <1>1, <1>3, <1>8 DEF ReachInv
<1>11. RefCountExact'
  <2>1. \A x \in Entry : memory'[x] # "unused" => memory[x] # "unused"
    BY <1>1, <1>7
  <2> QED BY <2>1 DEF RefCountExact
<1> QED BY <1>3, <1>4, <1>5, <1>9, <1>10, <1>11

LEMMA RemoveStep ==
  ASSUME IInv, NEW c \in Caller, RemoveEntryfromLcxlList(c)
  PROVE  IInv'
<1> USE DEF IInv
<1>1. /\ pc[c] = "remove" /\ lock = NoCaller
      /\ pc' = [pc EXCEPT ![c] = "idle"] /\ arg' = [arg EXCEPT ![c] = NoEntry]
      /\ UNCHANGED <<to_be_add_list, lock_count, lock, ref_count, deleted,
                     held, cursor, refs>>
  BY DEF RemoveEntryfromLcxlList
<1>2. /\ list \in Seq(Entry) /\ to_be_del_list \in Seq(Entry)
      /\ pc \in [Caller -> {"idle", "remove", "apply"}]
      /\ arg \in [Caller -> Entry \cup {NoEntry}]
      /\ ToSet(list) \subseteq Entry
  BY SetOfSeq DEF TypeOK
<1>3. PICK e \in Entry : /\ e = arg[c] /\ e \in ToSet(list)
                         /\ e \notin ToSet(to_be_del_list) /\ ref_count[e] = 0
  BY <1>1, <1>2 DEF RemovedOnce
<1>4. \A d \in Caller : /\ pc'[d] = "remove" => d # c /\ pc[d] = "remove"
                        /\ d # c => pc'[d] = pc[d] /\ arg'[d] = arg[d]
                        /\ pc'[d] = "apply" <=> pc[d] = "apply"
  BY <1>1, <1>2
<1>5. \A d \in Caller : pc'[d] = "remove" =>
        /\ arg'[d] \in ToSet(list) \ (ToSet(to_be_del_list) \cup {e})
        /\ ref_count[arg'[d]] = 0
        /\ \A b \in Caller \ {d} : pc'[b] = "remove" => arg'[b] # arg'[d]
  BY <1>1, <1>3, <1>4 DEF RemovedOnce
<1>6. LockInv' BY <1>1, <1>4 DEF LockInv
<1>7. /\ pc' \in [Caller -> {"idle", "remove", "apply"}]
      /\ arg' \in [Caller -> Entry \cup {NoEntry}]
  <2>1. pc' \in [Caller -> {"idle", "remove", "apply"}] BY <1>1, <1>2
  <2>2. arg' \in [Caller -> Entry \cup {NoEntry}] BY <1>1, <1>2
  <2> QED BY <2>1, <2>2
<1>8. CASE lock_count > 0
  <2>1. /\ to_be_del_list' = Append(to_be_del_list, e)
        /\ UNCHANGED <<list, list_count, memory>>
    BY <1>3, <1>8 DEF RemoveEntryfromLcxlList
  <2>2. /\ to_be_del_list' \in Seq(Entry) /\ IsInjective(to_be_del_list')
        /\ ToSet(to_be_del_list') = ToSet(to_be_del_list) \cup {e}
    BY <2>1, <1>2, <1>3, AppendAdds DEF RemovedOnce
  <2>3. TypeOK' BY <2>1, <2>2, <1>1, <1>7 DEF TypeOK
  <2>4. ListInv' BY <2>1, <1>1 DEF ListInv
  <2>5. ReachInv' BY <2>1, <1>1 DEF ReachInv
  <2>6. RemovedOnce' BY <2>1, <2>2, <1>1, <1>3, <1>5 DEF RemovedOnce
  <2>7. QueuesDrained'
    <3>1. held # {} BY <1>8, HeldCount DEF LockInv
    <3> QED BY <3>1, <1>1 DEF QueuesDrained
  <2>8. RefCountExact' BY <2>1, <1>1 DEF RefCountExact
  <2> QED BY <2>3, <2>4, <2>5, <2>6, <2>7, <2>8, <1>6
<1>9. CASE lock_count = 0
  <2>1. /\ list' = Unlink(list, e) /\ list_count' = list_count - 1
        /\ memory' = [memory EXCEPT ![e] = "freed"] /\ UNCHANGED to_be_del_list
    BY <1>3, <1>9 DEF RemoveEntryfromLcxlList
  <2>2. held = {} BY <1>9, HeldCount DEF LockInv, TypeOK
  <2>3. to_be_del_list = <<>> /\ to_be_add_list = <<>>
    BY <2>2, <1>1 DEF QueuesDrained
  <2>4. /\ ListInv' /\ ReachInv' /\ RefCountExact'
        /\ list' \in Seq(Entry) /\ list_count' \in Int
        /\ memory' \in [Entry -> {"unused", "live", "freed"}]
        /\ IsInjective(list') /\ ToSet(list') = ToSet(list) \ {e}
    BY <2>1, <2>2, <1>1, <1>3, FreeingKeeps
  <2>5. TypeOK' BY <2>1, <2>4, <1>1, <1>7 DEF TypeOK
  <2>6. RemovedOnce'
    <3>1. ToSet(to_be_del_list) = {} BY <2>3, <1>2, SetOfSeq
    <3> QED BY <3>1, <2>1, <2>4, <1>1, <1>5 DEF RemovedOnce
  <2>7. QueuesDrained' BY <2>1, <2>3, <1>1 DEF QueuesDrained
  <2> QED BY <2>4, <2>5, <2>6, <2>7, <1>6
<1> QED BY <1>8, <1>9 DEF RemoveEntryfromLcxlList

\* The last bracket closes exactly when the counter reaches zero, and its
\* caller keeps the spin lock for the queues.
LEMMA UnlockStep ==
  ASSUME IInv, NEW c \in Caller, UnlockLcxlList(c)
  PROVE  IInv'
<1> USE DEF IInv, entryVars
<1>1. /\ pc[c] = "idle" /\ lock = NoCaller /\ c \in held /\ held \in SUBSET Caller
      /\ lock_count' = (lock_count - 1) % LockMod
      /\ held' = held \ {c} /\ cursor' = [cursor EXCEPT ![c] = NoEntry]
      /\ UNCHANGED <<list, list_count, to_be_add_list, to_be_del_list,
                     entryVars, refs, arg>>
  BY DEF UnlockLcxlList, CanEnter, TypeOK
<1>2. \/ lock_count' = 0 /\ lock' = c /\ pc' = [pc EXCEPT ![c] = "apply"]
      \/ lock_count' # 0 /\ lock' = lock /\ pc' = pc
  BY DEF UnlockLcxlList
<1>3. /\ pc \in [Caller -> {"idle", "remove", "apply"}]
      /\ cursor \in [Caller -> Entry \cup {NoEntry}]
  BY DEF TypeOK
<1>4. /\ lock_count' = Cardinality(held') /\ lock_count' \in 0..(LockMod - 1)
      /\ lock_count' = 0 <=> held' = {}
  <2>1. held' \in SUBSET Caller BY <1>1
  <2>2. /\ Cardinality(held') = Cardinality(held) - 1
        /\ Cardinality(held') \in 0..(LockMod - 1)
        /\ Cardinality(held') = 0 <=> held' = {}
    BY <1>1, <2>1, HeldCount
  <2>3. lock_count - 1 \in 0..(LockMod - 1) BY <2>2 DEF LockInv
  <2>4. (lock_count - 1) % LockMod = lock_count - 1
    BY <2>3, NoWrap, WidthAssumption
  <2> QED BY <2>2, <2>4, <1>1 DEF LockInv
<1>5. /\ pc' \in [Caller -> {"idle", "remove", "apply"}]
      /\ \A d \in Caller : pc'[d] = "remove" <=> pc[d] = "remove"
  BY <1>1, <1>2, <1>3
<1>6. TypeOK'
  <2>1. cursor' \in [Caller -> Entry \cup {NoEntry}] BY <1>1, <1>3
  <2> QED BY <2>1, <1>1, <1>2, <1>4, <1>5 DEF TypeOK
<1>7. LockInv'
  <2>1. \A d \in Caller : pc[d] # "apply" /\ d # NoCaller
    BY <1>1, CallerAssumption DEF LockInv
  <2> QED BY <2>1, <1>1, <1>2, <1>3, <1>4 DEF LockInv
<1>8. ListInv' BY <1>1 DEF ListInv
<1>9. ReachInv' BY <1>1, <1>3 DEF ReachInv
<1>10. RemovedOnce' BY <1>1, <1>5 DEF RemovedOnce
<1>11. QueuesDrained'
  BY <1>1, <1>2, <1>4, CallerAssumption DEF QueuesDrained
<1>12. RefCountExact' BY <1>1 DEF RefCountExact
<1> QED BY <1>6, <1>7, <1>8, <1>9, <1>10, <1>11, <1>12

LEMMA ApplyDeleteStep ==
  ASSUME IInv, NEW c \in Caller, ApplyDelete(c)
  PROVE  IInv'
<1> USE DEF IInv, callerVars
<1>1. /\ pc[c] = "apply" /\ to_be_del_list # <<>>
      /\ list' = Unlink(list, Head(to_be_del_list))
      /\ memory' = [memory EXCEPT ![Head(to_be_del_list)] = "freed"]
      /\ list_count' = list_count - 1
      /\ to_be_del_list' = Tail(to_be_del_list)
      /\ UNCHANGED <<to_be_add_list, lock_count, lock, ref_count, deleted, callerVars>>
  BY DEF ApplyDelete
<1>2. to_be_del_list \in Seq(Entry) /\ IsInjective(to_be_del_list)
  BY DEF TypeOK, RemovedOnce
<1>3. PICK e \in Entry : /\ e = Head(to_be_del_list) /\ e \in ToSet(to_be_del_list)
                         /\ to_be_del_list' \in Seq(Entry)
                         /\ ToSet(to_be_del_list') = ToSet(to_be_del_list) \ {e}
                         /\ IsInjective(to_be_del_list')
  BY <1>1, <1>2, TailDrops
<1>4. held = {} /\ lock # NoCaller
  BY <1>1, CallerAssumption DEF LockInv
<1>5. e \in ToSet(list) /\ ref_count[e] = 0 BY <1>3 DEF RemovedOnce
<1>6. /\ ListInv' /\ ReachInv' /\ RefCountExact'
      /\ list' \in Seq(Entry) /\ list_count' \in Int
      /\ memory' \in [Entry -> {"unused", "live", "freed"}]
      /\ IsInjective(list') /\ ToSet(list') = ToSet(list) \ {e}
  BY <1>1, <1>3, <1>4, <1>5, FreeingKeeps
<1>7. TypeOK' BY <1>1, <1>3, <1>6 DEF TypeOK
<1>8. LockInv' BY <1>1 DEF LockInv
<1>9. RemovedOnce' BY <1>1, <1>3, <1>6 DEF RemovedOnce
<1>10. QueuesDrained' BY <1>1, <1>4 DEF QueuesDrained
<1> QED BY <1>6, <1>7, <1>8, <1>9, <1>10

LEMMA ApplyAddStep ==
  ASSUME IInv, NEW c \in Caller, ApplyAdd(c)
  PROVE  IInv'
<1> USE DEF IInv, callerVars, entryVars
<1>1. /\ pc[c] = "apply" /\ to_be_del_list = <<>> /\ to_be_add_list # <<>>
      /\ list' = Append(list, Head(to_be_add_list))
      /\ list_count' = list_count + 1
      /\ to_be_add_list' = Tail(to_be_add_list)
      /\ UNCHANGED <<to_be_del_list, lock_count, lock, entryVars, callerVars>>
  BY DEF ApplyAdd
<1>2. /\ list \in Seq(Entry) /\ to_be_add_list \in Seq(Entry)
      /\ IsInjective(list) /\ IsInjective(to_be_add_list)
      /\ ToSet(list) \cap ToSet(to_be_add_list) = {}
      /\ list_count = Len(list)
  BY DEF TypeOK, ListInv
<1>3. PICK e \in Entry : /\ e = Head(to_be_add_list) /\ e \in ToSet(to_be_add_list)
                         /\ to_be_add_list' \in Seq(Entry)
                         /\ ToSet(to_be_add_list') = ToSet(to_be_add_list) \ {e}
                         /\ IsInjective(to_be_add_list')
  BY <1>1, <1>2, TailDrops
<1>4. /\ list' \in Seq(Entry) /\ Len(list') = Len(list) + 1
      /\ ToSet(list') = ToSet(list) \cup {e} /\ IsInjective(list')
  BY <1>1, <1>2, <1>3, AppendAdds
<1>5. lock # NoCaller BY <1>1, CallerAssumption DEF LockInv
<1>6. TypeOK'
  <2>1. list_count' \in Int BY <1>1, <1>2, LenProperties
  <2> QED BY <2>1, <1>1, <1>3, <1>4 DEF TypeOK
<1>7. LockInv' BY <1>1 DEF LockInv
<1>8. ListInv' BY <1>1, <1>2, <1>3, <1>4 DEF ListInv
<1>9. ReachInv' BY <1>1, <1>4 DEF ReachInv
<1>10. RemovedOnce' BY <1>1, <1>4 DEF RemovedOnce
<1>11. QueuesDrained' BY <1>1, <1>5 DEF QueuesDrained
<1>12. RefCountExact' BY <1>1 DEF RefCountExact
<1> QED BY <1>6, <1>7, <1>8, <1>9, <1>10, <1>11, <1>12

LEMMA FinishStep ==
  ASSUME IInv, NEW c \in Caller, FinishUnlock(c)
  PROVE  IInv'
<1> USE DEF IInv, listVars, entryVars
<1>1. /\ pc[c] = "apply" /\ to_be_del_list = <<>> /\ to_be_add_list = <<>>
      /\ lock' = NoCaller /\ pc' = [pc EXCEPT ![c] = "idle"]
      /\ UNCHANGED <<listVars, entryVars, held, cursor, refs, arg>>
  BY DEF FinishUnlock
<1>2. pc \in [Caller -> {"idle", "remove", "apply"}] BY DEF TypeOK
<1>3. TypeOK' BY <1>1, <1>2 DEF TypeOK
<1>4. LockInv' BY <1>1, <1>2, CallerAssumption DEF LockInv
<1>5. ListInv' BY <1>1 DEF ListInv
<1>6. ReachInv' BY <1>1 DEF ReachInv
<1>7. RemovedOnce' BY <1>1, <1>2 DEF RemovedOnce
<1>8. QueuesDrained' BY <1>1 DEF QueuesDrained
<1>9. RefCountExact' BY <1>1 DEF RefCountExact
<1> QED BY <1>3, <1>4, <1>5, <1>6, <1>7, <1>8, <1>9

-----------------------------------------------------------------------------
(* The invariant and the properties it yields.                              *)

\* Every step of every caller preserves the inductive invariant.
THEOREM Inductive == IInv /\ [Next]_vars => IInv'
<1> SUFFICES ASSUME IInv, [Next]_vars PROVE IInv'
  OBVIOUS
<1>1. ASSUME NEW c \in Caller,
             \/ LockLcxlList(c)
             \/ \E e \in Entry : AddEntrytoLcxlList(c, e)
             \/ FollowLink(c) \/ IncRefListEntry(c)
             \/ \E e \in Entry : GiveBack(c, e)
             \/ MarkDeleted(c) \/ RemoveEntryfromLcxlList(c) \/ UnlockLcxlList(c)
             \/ ApplyDelete(c) \/ ApplyAdd(c) \/ FinishUnlock(c)
      PROVE  IInv'
  <2>1. CASE LockLcxlList(c) BY <2>1, LockStep
  <2>2. CASE \E e \in Entry : AddEntrytoLcxlList(c, e) BY <2>2, AddStep
  <2>3. CASE FollowLink(c) BY <2>3, WalkStep
  <2>4. CASE IncRefListEntry(c) BY <2>4, IncRefStep
  <2>5. CASE \E e \in Entry : GiveBack(c, e) BY <2>5, GiveBackStep
  <2>6. CASE MarkDeleted(c) BY <2>6, MarkDeletedStep
  <2>7. CASE RemoveEntryfromLcxlList(c) BY <2>7, RemoveStep
  <2>8. CASE UnlockLcxlList(c) BY <2>8, UnlockStep
  <2>9. CASE ApplyDelete(c) BY <2>9, ApplyDeleteStep
  <2>10. CASE ApplyAdd(c) BY <2>10, ApplyAddStep
  <2>11. CASE FinishUnlock(c) BY <2>11, FinishStep
  <2> QED BY <1>1, <2>1, <2>2, <2>3, <2>4, <2>5, <2>6, <2>7, <2>8, <2>9, <2>10, <2>11
<1>2. CASE UNCHANGED vars
  BY <1>2 DEF vars, listVars, entryVars, callerVars, IInv, TypeOK, LockInv, ListInv,
              ReachInv, RemovedOnce, QueuesDrained, RefCountExact
<1> QED BY <1>1, <1>2 DEF Next

\* The inductive invariant holds in every reachable state of a list with any
\* number of callers below the range of lock_count.
THEOREM InvariantHolds == Spec => []IInv
BY EmptyListIsGood, Inductive, PTL DEF Spec

\* Every variable keeps its type; in particular the 8-bit lock_count.
THEOREM TypeCorrect == Spec => []TypeOK
<1>1. IInv => TypeOK BY DEF IInv
<1> QED BY <1>1, InvariantHolds, PTL

\* No caller of lcxl_lock_list.h ever reaches freed memory: not through its
\* cursor, not through a reference it holds, not in RemoveEntryfromLcxlList.
THEOREM MemorySafe == Spec => []NoUseAfterFree
<1>1. IInv => NoUseAfterFree
  <2> SUFFICES ASSUME IInv PROVE NoUseAfterFree
    OBVIOUS
  <2>1. \A e \in ToSet(list) : memory[e] = "live" BY DEF IInv, ListInv
  <2> QED BY <2>1 DEF IInv, ReachInv, RemovedOnce, NoUseAfterFree
<1> QED BY <1>1, InvariantHolds, PTL

\* RemoveEntryList is never applied twice to an entry, queued or not, nor to an
\* entry that has users: the ASSERT of DecRefListEntry holds.
THEOREM RemovalsAreUnique == Spec => []RemovedOnce
<1>1. IInv => RemovedOnce BY DEF IInv
<1> QED BY <1>1, InvariantHolds, PTL

\* UnlockLcxlList leaves nothing behind in the queues.
THEOREM NothingForgotten == Spec => []QueuesDrained
<1>1. IInv => QueuesDrained BY DEF IInv
<1> QED BY <1>1, InvariantHolds, PTL

\* GetLcxlListCount is the length of the list.
THEOREM CountCorrect == Spec => []CountIsLength
<1>1. IInv => CountIsLength BY DEF IInv, ListInv, CountIsLength
<1> QED BY <1>1, InvariantHolds, PTL

\* The reference count of an entry is the number of its users.
THEOREM ReferencesCounted == Spec => []RefCountExact
<1>1. IInv => RefCountExact BY DEF IInv
<1> QED BY <1>1, InvariantHolds, PTL

\* The links a reader walks, and list_count, never change under it.
THEOREM ReadersUndisturbed == Spec => FrozenWhileLocked
<1>1. ASSUME IInv, [Next]_vars
      PROVE  [held # {} => list' = list /\ list_count' = list_count]_vars
  <2> SUFFICES ASSUME Next, held # {} PROVE list' = list /\ list_count' = list_count
    BY <1>1
  <2>1. lock = NoCaller /\ lock_count # 0 /\ \A c \in Caller : pc[c] # "apply"
    BY <1>1, HeldCount, CallerAssumption DEF IInv, LockInv, TypeOK
  <2>2. PICK c \in Caller :
             \/ LockLcxlList(c)
             \/ \E e \in Entry : AddEntrytoLcxlList(c, e)
             \/ FollowLink(c) \/ IncRefListEntry(c)
             \/ \E e \in Entry : GiveBack(c, e)
             \/ MarkDeleted(c) \/ RemoveEntryfromLcxlList(c) \/ UnlockLcxlList(c)
             \/ ApplyDelete(c) \/ ApplyAdd(c) \/ FinishUnlock(c)
    BY DEF Next
  <2>3. ~ApplyDelete(c) /\ ~ApplyAdd(c) BY <2>1 DEF ApplyDelete, ApplyAdd
  <2>4. CASE \E e \in Entry : AddEntrytoLcxlList(c, e)
    BY <2>1, <2>4 DEF AddEntrytoLcxlList
  <2>5. CASE RemoveEntryfromLcxlList(c)
    BY <2>1, <2>5 DEF RemoveEntryfromLcxlList
  <2>6. CASE LockLcxlList(c) \/ FollowLink(c) \/ IncRefListEntry(c) \/ MarkDeleted(c)
             \/ UnlockLcxlList(c) \/ FinishUnlock(c) \/ \E e \in Entry : GiveBack(c, e)
    BY <2>6 DEF LockLcxlList, FollowLink, IncRefListEntry, MarkDeleted,
                UnlockLcxlList, FinishUnlock, GiveBack, listVars
  <2> QED BY <2>2, <2>3, <2>4, <2>5, <2>6
<1> QED BY <1>1, InvariantHolds, PTL DEF Spec, FrozenWhileLocked

-----------------------------------------------------------------------------
(* The loops of UnlockLcxlList, step by step, and their effect.             *)

\* Unlinking an entry and then removing a set is removing both.
LEMMA WithoutUnlinked ==
  ASSUME NEW S, NEW s \in Seq(S), NEW e, NEW gone, IsInjective(s), e \in ToSet(s)
  PROVE  Without(Unlink(s, e), gone) = Without(s, gone \cup {e})
<1> DEFINE p == Position(s, e)
           t == Unlink(s, e)
           n == Len(s)
<1>1. p \in 1..n /\ s[p] = e /\ \A i, j \in 1..n : s[i] = s[j] => i = j
  BY SetOfSeq DEF Position
<1>2. t \in Seq(S) /\ Len(t) = n - 1 BY UnlinkRemoves
<1>3. n \in Nat \ {0} /\ p \in Nat BY <1>1, LenProperties
<1>4. \A i \in 1..(n - 1) : t[i] = IF i < p THEN s[i] ELSE s[i + 1] BY DEF Unlink
<1>5. PICK f : Without(s, gone \cup {e}) = f[n] /\ KeptChain(s, gone \cup {e}, n, f)
  BY WithoutSteps
<1>6. PICK g : Without(t, gone) = g[n - 1] /\ KeptChain(t, gone, n - 1, g)
  <2> HIDE DEF t, n
  <2>1. \E g : Without(t, gone) = g[Len(t)] /\ KeptChain(t, gone, Len(t), g)
    BY <1>2, WithoutSteps
  <2> QED BY <2>1, <1>2
<1>7. /\ f[0] = <<>>
      /\ \A i \in 1..n : f[i] = IF s[i] \in gone \cup {e} THEN f[i - 1] ELSE Append(f[i - 1], s[i])
  BY <1>5 DEF KeptChain
<1>8. /\ g[0] = <<>>
      /\ \A i \in 1..(n - 1) : g[i] = IF t[i] \in gone THEN g[i - 1] ELSE Append(g[i - 1], t[i])
  BY <1>6 DEF KeptChain
<1> HIDE DEF p, t, n
<1> DEFINE Same(i) == IF i < p THEN g[i] = f[i] ELSE g[i - 1] = f[i]
           T == {i \in Nat : i <= n => Same(i)}
<1>9. 0 \in T BY <1>1, <1>3, <1>7, <1>8
<1>10. ASSUME NEW i \in Nat, i \in T PROVE i + 1 \in T
  <2> SUFFICES ASSUME i + 1 <= n PROVE Same(i + 1) OBVIOUS
  <2>1. Same(i) /\ i + 1 \in 1..n /\ (i + 1) - 1 = i BY <1>3, <1>10
  <2>2. f[i + 1] = IF s[i + 1] \in gone \cup {e} THEN f[i] ELSE Append(f[i], s[i + 1])
    BY <2>1, <1>7
  <2>3. CASE i + 1 < p
    <3>1. i + 1 \in 1..(n - 1) /\ i < p BY <2>3, <1>1, <1>3
    <3>2. t[i + 1] = s[i + 1] /\ s[i + 1] # e BY <3>1, <2>1, <2>3, <1>1, <1>3, <1>4
    <3>3. g[i + 1] = IF t[i + 1] \in gone THEN g[i] ELSE Append(g[i], t[i + 1])
      BY <3>1, <2>1, <1>8
    <3>4. g[i] = f[i] BY <3>1, <2>1
    <3>5. g[i + 1] = f[i + 1] BY <3>2, <3>3, <3>4, <2>2
    <3> QED BY <3>5, <2>3
  <2>4. CASE i + 1 = p
    <3>1. g[i] = f[i] BY <2>1, <2>4, <1>3
    <3>2. f[i + 1] = f[i] BY <2>2, <2>4, <1>1
    <3> QED BY <3>1, <3>2, <2>1, <2>4, <1>3
  <2>5. CASE ~(i + 1 < p) /\ i + 1 # p
    <3>1. ~(i < p) /\ i \in 1..(n - 1) /\ i + 1 \in 1..n BY <2>5, <2>1, <1>1, <1>3
    <3>2. t[i] = s[i + 1] /\ s[i + 1] # e BY <3>1, <2>5, <1>1, <1>3, <1>4
    <3>3. g[i] = IF t[i] \in gone THEN g[i - 1] ELSE Append(g[i - 1], t[i])
      BY <3>1, <1>8
    <3>4. g[i - 1] = f[i] BY <3>1, <2>1
    <3>5. g[i] = f[i + 1] BY <3>2, <3>3, <3>4, <2>2
    <3> QED BY <3>5, <2>5, <2>1
  <2> QED BY <2>3, <2>4, <2>5
<1> HIDE DEF T
<1>11. n \in T BY <1>3, <1>9, <1>10, InductionOnSets
<1>12. g[n - 1] = f[n] BY <1>11, <1>1, <1>3 DEF T
<1> QED BY <1>5, <1>6, <1>12 DEF t

\* What the first loop leaves to do is done in the end.
LEMMA FlushedAfterDelete ==
  ASSUME NEW S, NEW s \in Seq(S), NEW dels \in Seq(S), NEW adds,
         IsInjective(s), IsInjective(dels), dels # <<>>, ToSet(dels) \subseteq ToSet(s)
  PROVE  Flushed(Unlink(s, Head(dels)), Tail(dels), adds) = Flushed(s, dels, adds)
<1>1. Head(dels) \in ToSet(s) /\ ToSet(dels) = ToSet(Tail(dels)) \cup {Head(dels)}
  BY TailDrops
<1>2. Without(Unlink(s, Head(dels)), ToSet(Tail(dels))) = Without(s, ToSet(dels))
  BY <1>1, WithoutUnlinked
<1> QED BY <1>2 DEF Flushed

\* One removal alone.
LEMMA FlushedOne ==
  ASSUME NEW S, NEW s \in Seq(S), NEW e \in S, IsInjective(s), e \in ToSet(s)
  PROVE  Flushed(s, <<e>>, <<>>) = Unlink(s, e)
<1>1. ToSet(<<e>>) = {e} BY DEF ToSet
<1>2. Unlink(s, e) \in Seq(S) BY UnlinkRemoves
<1>3. Without(s, {} \cup {e}) = Without(Unlink(s, e), {}) BY WithoutUnlinked
<1>4. Without(s, {e}) = Unlink(s, e) BY <1>2, <1>3, WithoutNothing
<1>5. Unlink(s, e) \o <<>> = Unlink(s, e) BY <1>2
<1> QED BY <1>1, <1>4, <1>5 DEF Flushed

\* D's copies of the shared operators are the shared operators.
LEMMA SameEffects ==
  ASSUME NEW s, NEW dels, NEW adds
  PROVE  /\ D!ToSet(s) = ToSet(s)
         /\ D!Flushed(s, dels, adds) = Flushed(s, dels, adds)
<1>1. \A x : D!ToSet(x) = ToSet(x) BY DEF ToSet, D!ToSet
<1>2. \A x : D!Without(s, x) = Without(s, x) BY DEF Without, D!Without
<1> QED BY <1>1, <1>2 DEF Flushed, D!Flushed

-----------------------------------------------------------------------------
(* LcxlList implements DeferredList: while the queues are being applied the *)
(* abstract list already has what they lead to.                             *)

\* An empty list is an empty list.
LEMMA AbstractInit == Init => D!Init
BY DEF Init, D!Init, Applying

\* Opening a bracket.
LEMMA EnterRefines ==
  ASSUME IInv, NEW c \in Caller, LockLcxlList(c)
  PROVE  D!Enter(c)
BY DEF LockLcxlList, CanEnter, D!Enter, Applying, entryVars

\* An addition, at once or queued.
LEMMA InsertRefines ==
  ASSUME IInv, NEW c \in Caller, NEW e \in Entry, AddEntrytoLcxlList(c, e)
  PROVE  D!Insert(e)
<1>1. ~Applying /\ ~Applying' /\ memory[e] = "unused" /\ held' = held
      /\ to_be_del_list' = to_be_del_list
      /\ memory' = [memory EXCEPT ![e] = "live"]
  BY DEF AddEntrytoLcxlList, CanEnter, Applying, callerVars
<1>2. e \notin ToSet(list) \cup ToSet(to_be_add_list) /\ memory \in [Entry -> {"unused", "live", "freed"}]
  BY <1>1 DEF IInv, ListInv, TypeOK
<1>3. {x \in Entry : memory'[x] = "freed"} = {x \in Entry : memory[x] = "freed"}
      /\ e \notin {x \in Entry : memory[x] = "freed"}
  BY <1>1, <1>2
<1>4. held = {} <=> lock_count = 0 BY HeldCount DEF IInv, LockInv, TypeOK
<1>5. lock_count > 0 <=> lock_count # 0 BY DEF IInv, TypeOK
<1>6. IF held = {} THEN list' = Append(list, e) /\ to_be_add_list' = to_be_add_list
                   ELSE to_be_add_list' = Append(to_be_add_list, e) /\ list' = list
  BY <1>4, <1>5 DEF AddEntrytoLcxlList
<1>7. D!ToSet(list) = ToSet(list) /\ D!ToSet(to_be_add_list) = ToSet(to_be_add_list)
  BY SameEffects
<1> HIDE DEF Applying
<1> QED BY <1>1, <1>2, <1>3, <1>6, <1>7 DEF D!Insert

\* A removal, at once or queued.
LEMMA DeleteRefines ==
  ASSUME IInv, NEW c \in Caller, NEW e \in Entry, e = arg[c], RemoveEntryfromLcxlList(c)
  PROVE  D!Delete(e)
<1>1. ~Applying /\ ~Applying' /\ held' = held /\ pc[c] = "remove"
      /\ to_be_add_list' = to_be_add_list
  BY DEF RemoveEntryfromLcxlList, Applying
<1>2. /\ e \in ToSet(list) \ ToSet(to_be_del_list) /\ e \in Entry
      /\ list \in Seq(Entry) /\ IsInjective(list)
      /\ memory \in [Entry -> {"unused", "live", "freed"}]
  BY <1>1, SetOfSeq DEF IInv, RemovedOnce, TypeOK
<1>4. held = {} <=> lock_count = 0 BY HeldCount DEF IInv, LockInv, TypeOK
<1>5. lock_count > 0 <=> lock_count # 0 BY DEF IInv, TypeOK
<1>7. /\ D!ToSet(list) = ToSet(list) /\ D!ToSet(to_be_del_list) = ToSet(to_be_del_list)
      /\ D!Flushed(list, <<e>>, <<>>) = Unlink(list, e)
  BY <1>2, SameEffects, FlushedOne
<1>8. CASE held = {}
  <2>1. list' = Unlink(list, e) /\ memory' = [memory EXCEPT ![e] = "freed"] /\ to_be_del_list' = to_be_del_list
    BY <1>8, <1>4, <1>5 DEF RemoveEntryfromLcxlList
  <2>2. {x \in Entry : memory'[x] = "freed"} = {x \in Entry : memory[x] = "freed"} \cup {e}
    BY <2>1, <1>2
  <2> HIDE DEF Applying
  <2> QED BY <1>1, <1>2, <1>7, <1>8, <2>1, <2>2 DEF D!Delete
<1>9. CASE held # {}
  <2>1. list' = list /\ memory' = memory /\ to_be_del_list' = Append(to_be_del_list, e)
    BY <1>9, <1>4, <1>5 DEF RemoveEntryfromLcxlList
  <2> HIDE DEF Applying
  <2> QED BY <1>1, <1>2, <1>7, <1>9, <2>1 DEF D!Delete
<1> QED BY <1>8, <1>9

\* Closing a bracket: the abstract list takes both queues at the decrement.
LEMMA LeaveRefines ==
  ASSUME IInv, NEW c \in Caller, UnlockLcxlList(c)
  PROVE  D!Leave(c)
<1>1. /\ ~Applying /\ c \in held /\ held' = held \ {c}
      /\ UNCHANGED <<list, to_be_add_list, to_be_del_list, memory>>
  BY DEF UnlockLcxlList, CanEnter, Applying, entryVars
<1>2. lock_count' = 0 <=> held' = {}
  <2>1. held \in SUBSET Caller /\ held' \in SUBSET Caller /\ Cardinality(held') = Cardinality(held) - 1
        /\ lock_count = Cardinality(held) /\ lock_count' = (lock_count - 1) % LockMod
    BY <1>1, HeldCount DEF IInv, TypeOK, LockInv, UnlockLcxlList
  <2>2. Cardinality(held') \in 0..(LockMod - 1) /\ (Cardinality(held') = 0 <=> held' = {})
    BY <2>1, HeldCount
  <2>3. Cardinality(held') % LockMod = Cardinality(held') BY <2>2, NoWrap, WidthAssumption
  <2> QED BY <2>1, <2>2, <2>3
<1>3. Applying' <=> held' = {}
  BY <1>1, <1>2, CallerAssumption DEF UnlockLcxlList, CanEnter, Applying
<1>4. /\ D!ToSet(to_be_del_list) = ToSet(to_be_del_list)
      /\ D!Flushed(list, to_be_del_list, to_be_add_list) = Flushed(list, to_be_del_list, to_be_add_list)
  BY SameEffects
<1> HIDE DEF Applying
<1> QED BY <1>1, <1>3, <1>4 DEF D!Leave

\* One iteration of the first loop.
LEMMA ApplyDeleteStutters ==
  ASSUME IInv, NEW c \in Caller, ApplyDelete(c)
  PROVE  UNCHANGED D!dvars
<1> DEFINE e == Head(to_be_del_list)
<1>1. /\ list' = Unlink(list, e) /\ memory' = [memory EXCEPT ![e] = "freed"]
      /\ to_be_del_list # <<>> /\ to_be_del_list' = Tail(to_be_del_list)
      /\ UNCHANGED <<to_be_add_list, lock, held>> /\ lock = c
  BY DEF ApplyDelete, callerVars, IInv, LockInv
<1>2. /\ list \in Seq(Entry) /\ to_be_del_list \in Seq(Entry) /\ IsInjective(list)
      /\ IsInjective(to_be_del_list) /\ ToSet(to_be_del_list) \subseteq ToSet(list)
      /\ memory \in [Entry -> {"unused", "live", "freed"}]
  BY DEF IInv, RemovedOnce, TypeOK
<1>3. Applying /\ Applying' BY <1>1, CallerAssumption DEF Applying
<1>4. Flushed(list', to_be_del_list', to_be_add_list') = Flushed(list, to_be_del_list, to_be_add_list)
  BY <1>1, <1>2, FlushedAfterDelete
<1>5. /\ e \in Entry /\ e \in ToSet(to_be_del_list)
      /\ ToSet(to_be_del_list') = ToSet(to_be_del_list) \ {e}
  BY <1>1, <1>2, TailDrops
<1>6. {x \in Entry : memory'[x] = "freed"} = {x \in Entry : memory[x] = "freed"} \cup {e}
  BY <1>1, <1>2, <1>5
<1> HIDE DEF Applying, e
<1> QED BY <1>1, <1>3, <1>4, <1>5, <1>6 DEF D!dvars

\* The second loop.
LEMMA ApplyAddStutters ==
  ASSUME IInv, NEW c \in Caller, ApplyAdd(c)
  PROVE  UNCHANGED D!dvars
<1>1. /\ list' = Append(list, Head(to_be_add_list)) /\ to_be_add_list' = Tail(to_be_add_list)
      /\ to_be_del_list = <<>> /\ to_be_add_list # <<>>
      /\ UNCHANGED <<to_be_del_list, lock, held, memory>> /\ lock = c
  BY DEF ApplyAdd, callerVars, entryVars, IInv, LockInv
<1>2. list \in Seq(Entry) /\ to_be_add_list \in Seq(Entry) BY DEF IInv, TypeOK
<1>3. Applying /\ Applying' BY <1>1, CallerAssumption DEF Applying
<1>4. Flushed(list', to_be_del_list', to_be_add_list') = Flushed(list, to_be_del_list, to_be_add_list)
  BY <1>1, <1>2, FlushedAfterAdd
<1> HIDE DEF Applying
<1> QED BY <1>1, <1>3, <1>4 DEF D!dvars

\* Nothing is left to apply.
LEMMA FinishStutters ==
  ASSUME IInv, NEW c \in Caller, FinishUnlock(c)
  PROVE  UNCHANGED D!dvars
<1>1. /\ to_be_del_list = <<>> /\ to_be_add_list = <<>> /\ lock = c /\ lock' = NoCaller
      /\ UNCHANGED <<list, to_be_add_list, to_be_del_list, held, memory>>
  BY DEF FinishUnlock, listVars, entryVars, IInv, LockInv
<1>2. Applying /\ ~Applying' BY <1>1, CallerAssumption DEF Applying
<1>3. list \in Seq(Entry) BY DEF IInv, TypeOK
<1>4. Flushed(list, <<>>, <<>>) = list
  <2>1. list \o <<>> = list BY <1>3
  <2> QED BY <2>1, <1>3, FlushedAdditions
<1>5. ToSet(<<>>) = {} BY DEF ToSet
<1> HIDE DEF Applying
<1> QED BY <1>1, <1>2, <1>4, <1>5 DEF D!dvars

\* What callers do to entries is outside the list.
LEMMA OutsideStutters ==
  ASSUME UNCHANGED <<listVars, lock, memory, held>>
  PROVE  UNCHANGED D!dvars
BY DEF D!dvars, Applying, listVars

\* Every step of the code is a step of the abstract list or leaves it alone.
THEOREM StepRefines == IInv /\ [Next]_vars => [D!Next]_(D!dvars)
<1> SUFFICES ASSUME IInv, [Next]_vars PROVE [D!Next]_(D!dvars)
  OBVIOUS
<1>1. ASSUME NEW c \in Caller, LockLcxlList(c) PROVE D!Next
  BY <1>1, EnterRefines DEF D!Next
<1>2. ASSUME NEW c \in Caller, NEW e \in Entry, AddEntrytoLcxlList(c, e) PROVE D!Next
  BY <1>2, InsertRefines DEF D!Next
<1>3. ASSUME NEW c \in Caller, RemoveEntryfromLcxlList(c) PROVE D!Next
  <2>1. arg[c] \in Entry BY <1>3, SetOfSeq DEF RemoveEntryfromLcxlList, IInv, RemovedOnce, TypeOK
  <2>2. PICK e \in Entry : e = arg[c] BY <2>1
  <2>3. D!Delete(e) BY <1>3, <2>2, DeleteRefines
  <2> QED BY <2>3 DEF D!Next
<1>4. ASSUME NEW c \in Caller, UnlockLcxlList(c) PROVE D!Next
  BY <1>4, LeaveRefines DEF D!Next
<1>5. ASSUME NEW c \in Caller, ApplyDelete(c) \/ ApplyAdd(c) \/ FinishUnlock(c)
      PROVE  UNCHANGED D!dvars
  BY <1>5, ApplyDeleteStutters, ApplyAddStutters, FinishStutters
<1>6. ASSUME NEW c \in Caller,
             \/ FollowLink(c) \/ IncRefListEntry(c) \/ MarkDeleted(c)
             \/ \E e \in Entry : GiveBack(c, e)
      PROVE  UNCHANGED D!dvars
  <2>1. UNCHANGED <<listVars, lock, memory, held>>
    BY <1>6 DEF FollowLink, IncRefListEntry, MarkDeleted, GiveBack, entryVars
  <2> QED BY <2>1, OutsideStutters
<1>7. CASE UNCHANGED vars
  <2>1. UNCHANGED <<listVars, lock, memory, held>> BY <1>7 DEF vars, entryVars, callerVars
  <2> QED BY <2>1, OutsideStutters
<1> QED BY <1>1, <1>2, <1>3, <1>4, <1>5, <1>6, <1>7 DEF Next

\* The counter, the spin lock and the loops of lcxl_lock_list.h give a list that
\* changes in one step when its last reader leaves: for any number of callers
\* below the range of lock_count.
THEOREM DeferredListImplemented == Spec => ImplementsDeferredList
<1>1. Init => D!Init BY AbstractInit
<1>2. IInv /\ [Next]_vars => [D!Next]_(D!dvars) BY StepRefines
<1> QED BY <1>1, <1>2, InvariantHolds, PTL DEF Spec, D!Spec, ImplementsDeferredList

-----------------------------------------------------------------------------
(* The same as effects on one value, the form in which ServerPool has them.  *)

\* The list value of LcxlListOps that a state of the code stands for.
Effective ==
  [list |-> IF Applying THEN Flushed(list, to_be_del_list, to_be_add_list) ELSE list,
   lock_count |-> lock_count,
   to_be_add |-> IF Applying THEN <<>> ELSE to_be_add_list,
   to_be_del |-> IF Applying THEN <<>> ELSE to_be_del_list]

\* The steps of the four functions have the effects by which ServerPool models
\* them, and no other step has any.
THEOREM StepsHaveEffects ==
  ASSUME IInv, NEW c \in Caller
  PROVE  /\ LockLcxlList(c) => Effective' = Locked(Effective, LockMod)
         /\ \A e \in Entry : AddEntrytoLcxlList(c, e) => Effective' = WithEntry(Effective, e)
         /\ RemoveEntryfromLcxlList(c) => Effective' = WithoutEntry(Effective, arg[c])
         /\ UnlockLcxlList(c) => Effective' = Unlocked(Effective, LockMod)
         /\ \/ FollowLink(c) \/ IncRefListEntry(c) \/ MarkDeleted(c)
            \/ \E e \in Entry : GiveBack(c, e)
            \/ ApplyDelete(c) \/ ApplyAdd(c) \/ FinishUnlock(c)
              => Effective' = Effective
<1>1. /\ lock_count \in Nat
      /\ list \in Seq(Entry) /\ IsInjective(list)
      /\ pc[c] = "remove" => arg[c] \in Entry /\ arg[c] \in ToSet(list)
  BY WidthAssumption, SetOfSeq DEF IInv, TypeOK, RemovedOnce
<1>2. LockLcxlList(c) => Effective' = Locked(Effective, LockMod)
  BY DEF LockLcxlList, CanEnter, Applying, Effective, Locked
<1>3. ASSUME NEW e \in Entry, AddEntrytoLcxlList(c, e)
      PROVE  Effective' = WithEntry(Effective, e)
  <2>1. ~Applying /\ ~Applying' /\ to_be_del_list' = to_be_del_list /\ lock_count' = lock_count
    BY <1>3 DEF AddEntrytoLcxlList, CanEnter, Applying
  <2>2. IF lock_count > 0 THEN to_be_add_list' = Append(to_be_add_list, e) /\ list' = list
                          ELSE list' = Append(list, e) /\ to_be_add_list' = to_be_add_list
    BY <1>1, <1>3 DEF AddEntrytoLcxlList
  <2> HIDE DEF Applying
  <2> QED BY <2>1, <2>2 DEF Effective, WithEntry
<1>4. ASSUME RemoveEntryfromLcxlList(c)
      PROVE  Effective' = WithoutEntry(Effective, arg[c])
  <2>1. ~Applying /\ ~Applying' /\ to_be_add_list' = to_be_add_list /\ lock_count' = lock_count
    BY <1>4 DEF RemoveEntryfromLcxlList, Applying
  <2>2. IF lock_count > 0 THEN to_be_del_list' = Append(to_be_del_list, arg[c]) /\ list' = list
                          ELSE list' = Unlink(list, arg[c]) /\ to_be_del_list' = to_be_del_list
    BY <1>1, <1>4 DEF RemoveEntryfromLcxlList
  <2>3. Flushed(list, <<arg[c]>>, <<>>) = Unlink(list, arg[c])
    BY <1>1, <1>4, FlushedOne DEF RemoveEntryfromLcxlList
  <2> HIDE DEF Applying
  <2> QED BY <2>1, <2>2, <2>3 DEF Effective, WithoutEntry
<1>5. ASSUME UnlockLcxlList(c)
      PROVE  Effective' = Unlocked(Effective, LockMod)
  <2>1. /\ ~Applying /\ lock_count' = (lock_count - 1) % LockMod
        /\ UNCHANGED <<list, to_be_add_list, to_be_del_list>>
        /\ IF lock_count' = 0 THEN lock' = c ELSE lock' = lock
    BY <1>5 DEF UnlockLcxlList, CanEnter, Applying
  <2>2. Applying' <=> lock_count' = 0
    BY <2>1, CallerAssumption DEF Applying
  <2> HIDE DEF Applying
  <2> QED BY <2>1, <2>2 DEF Effective, Unlocked, LastOut, EmptyList
<1>6. ASSUME \/ FollowLink(c) \/ IncRefListEntry(c) \/ MarkDeleted(c)
             \/ \E e \in Entry : GiveBack(c, e)
      PROVE  Effective' = Effective
  <2>1. UNCHANGED <<listVars, lock>>
    BY <1>6 DEF FollowLink, IncRefListEntry, MarkDeleted, GiveBack
  <2> QED BY <2>1 DEF Effective, Applying, listVars
<1>7. ASSUME ApplyDelete(c) \/ ApplyAdd(c) \/ FinishUnlock(c)
      PROVE  Effective' = Effective
  <2>1. UNCHANGED D!dvars
    BY <1>7, ApplyDeleteStutters, ApplyAddStutters, FinishStutters
  <2>2. lock_count' = lock_count
    BY <1>7 DEF ApplyDelete, ApplyAdd, FinishUnlock, listVars
  <2> QED BY <2>1, <2>2 DEF Effective, D!dvars
<1> QED BY <1>2, <1>3, <1>4, <1>5, <1>6, <1>7

=============================================================================
