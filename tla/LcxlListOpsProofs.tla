------------------------- MODULE LcxlListOpsProofs -------------------------
(***************************************************************************)
(* What the list effects of LcxlListOps return, for lists of any length.   *)
(***************************************************************************)
EXTENDS LcxlListOps, SequenceTheorems, WellFoundedInduction, TLAPS

-----------------------------------------------------------------------------
(* Induction over the natural numbers, for sets.                            *)

\* Every non-empty set of natural numbers has a least element.
LEMMA LeastNumber ==
  ASSUME NEW S, S \subseteq Nat, S # {}
  PROVE  \E x \in S : \A y \in S : x <= y
<1> DEFINE Less == OpToRel(<, Nat)
<1>1. \A x, y \in Nat : <<y, x>> \in Less <=> y < x BY DEF OpToRel
<1>2. IsWellFoundedOn(Less, Nat) BY NatLessThanWellFounded
<1> HIDE DEF Less
<1>3. PICK x \in S : \A y \in S : ~ (<<y, x>> \in Less) BY <1>2, WFMin
<1>4. ASSUME NEW y \in S PROVE x <= y
  <2>1. ~(y < x) /\ x \in Nat /\ y \in Nat BY <1>1, <1>3
  <2> QED BY <2>1
<1> QED BY <1>4

\* A set of numbers that has 0 and, with a number, the next one has them all.
LEMMA InductionOnSets ==
  ASSUME NEW T, 0 \in T, \A n \in Nat : n \in T => n + 1 \in T
  PROVE  \A n \in Nat : n \in T
<1> SUFFICES ASSUME Nat \ T # {} PROVE FALSE OBVIOUS
<1>1. PICK x \in Nat \ T : \A y \in Nat \ T : x <= y
  BY LeastNumber
<1>2. x # 0 /\ x - 1 \in Nat OBVIOUS
<1>3. x - 1 \in T BY <1>1, <1>2
<1>4. (x - 1) + 1 = x OBVIOUS
<1> QED BY <1>2, <1>3, <1>4

-----------------------------------------------------------------------------
(* Elements.                                                                *)

\* The elements of a sequence are those at its positions.
LEMMA SetIsAtPositions ==
  ASSUME NEW S, NEW s \in Seq(S)
  PROVE  /\ ToSet(s) \subseteq S
         /\ Len(s) \in Nat /\ DOMAIN s = 1..Len(s)
         /\ \A i \in 1..Len(s) : s[i] \in ToSet(s)
         /\ \A x \in ToSet(s) : \E i \in 1..Len(s) : s[i] = x
BY LenProperties, ElementOfSeq DEF ToSet

\* Appending adds one element.
LEMMA SetOfAppend ==
  ASSUME NEW S, NEW s \in Seq(S), NEW e \in S
  PROVE  /\ Append(s, e) \in Seq(S)
         /\ ToSet(Append(s, e)) = ToSet(s) \cup {e}
<1> DEFINE t == Append(s, e)
<1>1. /\ t \in Seq(S) /\ Len(t) = Len(s) + 1 /\ t[Len(s) + 1] = e
      /\ \A i \in 1..Len(s) : t[i] = s[i]
  BY AppendProperties
<1> HIDE DEF t
<1>2. ASSUME NEW x \in ToSet(t) PROVE x \in ToSet(s) \cup {e}
  <2>1. PICK i \in 1..Len(t) : t[i] = x BY <1>1, SetIsAtPositions
  <2>2. CASE i \in 1..Len(s) BY <2>1, <2>2, <1>1, SetIsAtPositions
  <2>3. CASE i = Len(s) + 1 BY <2>1, <2>3, <1>1
  <2>4. Len(s) \in Nat BY SetIsAtPositions
  <2> QED BY <2>2, <2>3, <2>4, <1>1
<1>3. ASSUME NEW x \in ToSet(s) PROVE x \in ToSet(t)
  <2>1. PICK i \in 1..Len(s) : s[i] = x BY SetIsAtPositions
  <2>2. i \in 1..Len(t) /\ t[i] = x BY <2>1, <1>1, SetIsAtPositions
  <2> QED BY <2>2, <1>1, SetIsAtPositions
<1>4. e \in ToSet(t)
  <2>1. Len(s) + 1 \in 1..Len(t) BY <1>1, SetIsAtPositions
  <2> QED BY <2>1, <1>1, SetIsAtPositions
<1> QED BY <1>1, <1>2, <1>3, <1>4 DEF t

\* So does a concatenation, all of both.
LEMMA SetOfConcat ==
  ASSUME NEW S, NEW s \in Seq(S), NEW t \in Seq(S)
  PROVE  /\ s \o t \in Seq(S)
         /\ ToSet(s \o t) = ToSet(s) \cup ToSet(t)
<1> DEFINE u == s \o t
<1>1. /\ u \in Seq(S) /\ Len(u) = Len(s) + Len(t)
      /\ \A i \in 1..Len(u) : u[i] = IF i <= Len(s) THEN s[i] ELSE t[i - Len(s)]
  BY ConcatProperties
<1>0. Len(s) \in Nat /\ Len(t) \in Nat BY SetIsAtPositions
<1> HIDE DEF u
<1>2. ASSUME NEW x \in ToSet(u) PROVE x \in ToSet(s) \cup ToSet(t)
  <2>1. PICK i \in 1..Len(u) : u[i] = x BY <1>1, SetIsAtPositions
  <2>2. CASE i \in 1..Len(s) BY <2>1, <2>2, <1>0, <1>1, SetIsAtPositions
  <2>3. CASE i - Len(s) \in 1..Len(t) BY <2>1, <2>3, <1>0, <1>1, SetIsAtPositions
  <2> QED BY <2>2, <2>3, <1>0, <1>1
<1>3. ASSUME NEW x \in ToSet(s) PROVE x \in ToSet(u)
  <2>1. PICK i \in 1..Len(s) : s[i] = x BY SetIsAtPositions
  <2>2. i \in 1..Len(u) /\ u[i] = x BY <2>1, <1>0, <1>1
  <2> QED BY <2>2, <1>1, SetIsAtPositions
<1>4. ASSUME NEW x \in ToSet(t) PROVE x \in ToSet(u)
  <2>1. PICK i \in 1..Len(t) : t[i] = x BY SetIsAtPositions
  <2> DEFINE k == Len(s) + i
  <2>2. k \in 1..Len(u) /\ ~(k <= Len(s)) /\ k - Len(s) = i BY <1>0, <1>1
  <2> HIDE DEF k
  <2>3. u[k] = x BY <2>1, <2>2, <1>1
  <2> QED BY <2>2, <2>3, <1>1, SetIsAtPositions
<1> QED BY <1>1, <1>2, <1>3, <1>4 DEF u

-----------------------------------------------------------------------------
(* Without.                                                                 *)

\* What is left of the first i entries, as a function of i.
Kept(list, gone) ==
  CHOOSE kept : kept = [i \in 0..Len(list) |->
     IF i = 0 THEN <<>>
     ELSE IF list[i] \in gone THEN kept[i - 1] ELSE Append(kept[i - 1], list[i])]

KeptUpTo(list, gone, n, f) ==
  f = [i \in 0..n |-> IF i = 0 THEN <<>>
                      ELSE IF list[i] \in gone THEN f[i - 1] ELSE Append(f[i - 1], list[i])]

\* Its values, one from the other.
KeptChain(list, gone, n, f) ==
  /\ f[0] = <<>>
  /\ \A i \in 1..n : f[i] = IF list[i] \in gone THEN f[i - 1] ELSE Append(f[i - 1], list[i])

LEMMA KeptSteps ==
  ASSUME NEW list, NEW gone, NEW n \in Nat, NEW f, KeptUpTo(list, gone, n, f)
  PROVE  KeptChain(list, gone, n, f)
<1> DEFINE g == [i \in 0..n |-> IF i = 0 THEN <<>>
                      ELSE IF list[i] \in gone THEN f[i - 1] ELSE Append(f[i - 1], list[i])]
<1>1. f = g BY DEF KeptUpTo
<1>2. g[0] = <<>> OBVIOUS
<1>3. ASSUME NEW i \in 1..n
      PROVE  g[i] = IF list[i] \in gone THEN f[i - 1] ELSE Append(f[i - 1], list[i])
  <2>1. i \in 0..n /\ i # 0 OBVIOUS
  <2> QED BY <2>1
<1> HIDE DEF g
<1> QED BY <1>1, <1>2, <1>3 DEF KeptChain

\* The recursion of Without has a solution.
LEMMA KeptExists ==
  ASSUME NEW list, NEW gone
  PROVE  \A n \in Nat : \E f : KeptUpTo(list, gone, n, f)
<1> DEFINE T == {n \in Nat : \E f : KeptUpTo(list, gone, n, f)}
<1>1. 0 \in T
  <2> DEFINE f == [i \in 0..0 |-> <<>>]
  <2>1. KeptUpTo(list, gone, 0, f) BY DEF KeptUpTo
  <2> QED BY <2>1
<1>2. ASSUME NEW n \in Nat, n \in T PROVE n + 1 \in T
  <2>1. PICK f : KeptUpTo(list, gone, n, f) BY <1>2
  <2> DEFINE last == IF list[n + 1] \in gone THEN f[n] ELSE Append(f[n], list[n + 1])
             g == [i \in 0..(n + 1) |-> IF i = n + 1 THEN last ELSE f[i]]
             h == [i \in 0..(n + 1) |->
                     IF i = 0 THEN <<>>
                     ELSE IF list[i] \in gone THEN g[i - 1] ELSE Append(g[i - 1], list[i])]
  <2>2. ASSUME NEW i \in 0..(n + 1) PROVE g[i] = h[i]
    <3>1. CASE i = 0
      <4>1. f[0] = <<>> BY <2>1 DEF KeptUpTo
      <4> QED BY <3>1, <4>1
    <3>2. CASE i = n + 1
      <4>1. g[n] = f[n] BY DEF g
      <4>2. i - 1 = n BY <3>2
      <4> QED BY <3>2, <4>1, <4>2
    <3>3. CASE i # 0 /\ i # n + 1
      <4>1. i \in 0..n /\ i - 1 \in 0..n BY <3>3
      <4>2. f[i] = IF list[i] \in gone THEN f[i - 1] ELSE Append(f[i - 1], list[i])
        BY <2>1, <4>1, <3>3 DEF KeptUpTo
      <4>3. g[i - 1] = f[i - 1] /\ g[i] = f[i] BY <4>1, <3>3
      <4> QED BY <4>2, <4>3, <3>3
    <3> QED BY <3>1, <3>2, <3>3
  <2>3. g = h BY <2>2
  <2>4. KeptUpTo(list, gone, n + 1, g) BY <2>3 DEF KeptUpTo
  <2> QED BY <2>4
<1> HIDE DEF T
<1>3. \A n \in Nat : n \in T BY <1>1, <1>2, InductionOnSets
<1> QED BY <1>3 DEF T

\* It is what Without computes.
LEMMA KeptIsRecursive ==
  ASSUME NEW S, NEW list \in Seq(S), NEW gone
  PROVE  /\ Without(list, gone) = Kept(list, gone)[Len(list)]
         /\ KeptUpTo(list, gone, Len(list), Kept(list, gone))
<1>1. Without(list, gone) = Kept(list, gone)[Len(list)] BY DEF Without, Kept
<1>2. Len(list) \in Nat BY LenProperties
<1>3. \E f : KeptUpTo(list, gone, Len(list), f) BY <1>2, KeptExists
<1>4. KeptUpTo(list, gone, Len(list), Kept(list, gone)) BY <1>3 DEF KeptUpTo, Kept
<1> QED BY <1>1, <1>4

\* Without returns a list of the entries that are not in the set.
LEMMA WithoutKeeps ==
  ASSUME NEW S, NEW list \in Seq(S), NEW gone
  PROVE  /\ Without(list, gone) \in Seq(S)
         /\ ToSet(Without(list, gone)) = ToSet(list) \ gone
<1> DEFINE n == Len(list)
           kept == Kept(list, gone)
           Right(i) == /\ kept[i] \in Seq(S)
                       /\ ToSet(kept[i]) = {list[j] : j \in 1..i} \ gone
           T == {i \in Nat : i <= n => Right(i)}
<1>1. n \in Nat /\ \A i \in 1..n : list[i] \in S BY LenProperties, ElementOfSeq
<1>2. /\ kept[0] = <<>>
      /\ \A i \in 1..n : kept[i] = IF list[i] \in gone THEN kept[i - 1]
                                   ELSE Append(kept[i - 1], list[i])
  <2>1. KeptUpTo(list, gone, n, kept) BY KeptIsRecursive
  <2>2. n \in Nat BY <1>1
  <2> HIDE DEF kept, n
  <2>3. KeptChain(list, gone, n, kept) BY <2>1, <2>2, KeptSteps
  <2> QED BY <2>3 DEF KeptChain
<1> HIDE DEF kept, n
<1>3. 0 \in T
  <2>1. kept[0] \in Seq(S) /\ ToSet(kept[0]) = {} BY <1>2 DEF ToSet
  <2> QED BY <2>1
<1>4. ASSUME NEW i \in Nat, i \in T PROVE i + 1 \in T
  <2> SUFFICES ASSUME i + 1 <= n PROVE Right(i + 1) OBVIOUS
  <2>1. Right(i) /\ i + 1 \in 1..n /\ (i + 1) - 1 = i BY <1>4, <1>1
  <2>2. {list[j] : j \in 1..(i + 1)} = {list[j] : j \in 1..i} \cup {list[i + 1]}
    <3>1. 1..(i + 1) = (1..i) \cup {i + 1} OBVIOUS
    <3> QED BY <3>1
  <2>3. CASE list[i + 1] \in gone
    <3>1. kept[i + 1] = kept[i] BY <2>1, <2>3, <1>2
    <3> QED BY <3>1, <2>1, <2>2, <2>3
  <2>4. CASE list[i + 1] \notin gone
    <3>1. kept[i + 1] = Append(kept[i], list[i + 1]) BY <2>1, <2>4, <1>2
    <3>2. list[i + 1] \in S BY <2>1, <1>1
    <3>3. kept[i] \in Seq(S) /\ ToSet(kept[i]) = {list[j] : j \in 1..i} \ gone BY <2>1
    <3>4. Append(kept[i], list[i + 1]) \in Seq(S) BY <3>2, <3>3, AppendProperties
    <3>5. ToSet(Append(kept[i], list[i + 1])) = ToSet(kept[i]) \cup {list[i + 1]}
      BY <3>2, <3>3, SetOfAppend
    <3> QED BY <3>1, <3>3, <3>4, <3>5, <2>2, <2>4
  <2> QED BY <2>3, <2>4
<1> HIDE DEF T
<1>5. n \in T BY <1>1, <1>3, <1>4, InductionOnSets
<1>6. Right(n) BY <1>5, <1>1 DEF T
<1>7. Without(list, gone) = kept[n] BY KeptIsRecursive DEF kept, n
<1>8. ToSet(list) = {list[j] : j \in 1..n} BY LenProperties DEF ToSet, n
<1> QED BY <1>6, <1>7, <1>8

\* Without, one entry after the other.
LEMMA WithoutSteps ==
  ASSUME NEW S, NEW s \in Seq(S), NEW gone
  PROVE  \E f : /\ Without(s, gone) = f[Len(s)]
                /\ KeptChain(s, gone, Len(s), f)
<1>1. Len(s) \in Nat BY LenProperties
<1>2. KeptUpTo(s, gone, Len(s), Kept(s, gone)) /\ Without(s, gone) = Kept(s, gone)[Len(s)]
  BY KeptIsRecursive
<1>3. KeptChain(s, gone, Len(s), Kept(s, gone)) BY <1>1, <1>2, KeptSteps
<1> QED BY <1>2, <1>3

\* Removing nothing.
LEMMA WithoutNothing ==
  ASSUME NEW S, NEW s \in Seq(S)
  PROVE  Without(s, {}) = s
<1>1. PICK f : Without(s, {}) = f[Len(s)] /\ KeptChain(s, {}, Len(s), f)
  BY WithoutSteps
<1>2. Len(s) \in Nat /\ \A i \in 1..Len(s) : s[i] \in S BY LenProperties, ElementOfSeq
<1> DEFINE n == Len(s)
           T == {i \in Nat : i <= n => f[i] = SubSeq(s, 1, i)}
<1>3. f[0] = <<>> /\ \A i \in 1..n : f[i] = Append(f[i - 1], s[i])
  BY <1>1 DEF KeptChain
<1>4. 0 \in T
  <2>1. SubSeq(s, 1, 0) = <<>> OBVIOUS
  <2> QED BY <2>1, <1>3
<1>5. ASSUME NEW i \in Nat, i \in T PROVE i + 1 \in T
  <2> SUFFICES ASSUME i + 1 <= n PROVE f[i + 1] = SubSeq(s, 1, i + 1) OBVIOUS
  <2>1. i + 1 \in 1..n /\ (i + 1) - 1 = i BY <1>2
  <2>2. f[i] = SubSeq(s, 1, i) BY <1>5, <2>1, <1>2
  <2>4. f[i + 1] = Append(f[i], s[i + 1])
    <3> HIDE DEF T, n
    <3>1. f[i + 1] = Append(f[(i + 1) - 1], s[i + 1]) BY <2>1, <1>3
    <3> QED BY <3>1, <2>1
  <2>3. SubSeq(s, 1, i + 1) = Append(SubSeq(s, 1, i), s[i + 1]) BY <2>1, <1>2
  <2> QED BY <2>2, <2>3, <2>4
<1> HIDE DEF T
<1>6. n \in T BY <1>2, <1>4, <1>5, InductionOnSets
<1>7. f[n] = SubSeq(s, 1, n) BY <1>6, <1>2 DEF T
<1>8. SubSeq(s, 1, n) = s BY <1>2
<1> QED BY <1>1, <1>7, <1>8

-----------------------------------------------------------------------------
(* The functions of the header.                                             *)

Lists(S) == [list : Seq(S), lock_count : Nat, to_be_add : Seq(S), to_be_del : Seq(S)]

\* The entries a list has or will have.
Members(l) == ToSet(l.list) \cup ToSet(l.to_be_add)

\* A counter below the range of its variable does not wrap.
LEMMA Unwrapped ==
  ASSUME NEW mod \in Nat, NEW n \in 0..(mod - 1)
  PROVE  n % mod = n
BY SMTT(30)

\* LockLcxlList only counts.
LEMMA LockedCounts ==
  ASSUME NEW S, NEW l \in Lists(S), NEW mod \in Nat, l.lock_count + 1 < mod
  PROVE  /\ Locked(l, mod) \in Lists(S)
         /\ Locked(l, mod) = [l EXCEPT !.lock_count = l.lock_count + 1]
         /\ Members(Locked(l, mod)) = Members(l)
<1>1. l.lock_count \in Nat BY DEF Lists
<1>2. (l.lock_count + 1) % mod = l.lock_count + 1 BY <1>1, Unwrapped
<1>3. Locked(l, mod) = [l EXCEPT !.lock_count = l.lock_count + 1] BY <1>2 DEF Locked
<1>4. [l EXCEPT !.lock_count = l.lock_count + 1] \in Lists(S) BY <1>1 DEF Lists
<1>5. /\ [l EXCEPT !.lock_count = l.lock_count + 1].list = l.list
      /\ [l EXCEPT !.lock_count = l.lock_count + 1].to_be_add = l.to_be_add
  BY DEF Lists
<1> QED BY <1>3, <1>4, <1>5 DEF Members

\* The queues applied to the list.
LEMMA FlushedKeeps ==
  ASSUME NEW S, NEW list \in Seq(S), NEW dels, NEW adds \in Seq(S)
  PROVE  /\ Flushed(list, dels, adds) \in Seq(S)
         /\ ToSet(Flushed(list, dels, adds)) \subseteq ToSet(list) \cup ToSet(adds)
<1>1. /\ Without(list, ToSet(dels)) \in Seq(S)
      /\ ToSet(Without(list, ToSet(dels))) \subseteq ToSet(list)
  BY WithoutKeeps
<1> QED BY <1>1, SetOfConcat DEF Flushed

\* Without removals the additions are appended.
LEMMA FlushedAdditions ==
  ASSUME NEW S, NEW s \in Seq(S), NEW adds
  PROVE  Flushed(s, <<>>, adds) = s \o adds
<1>1. ToSet(<<>>) = {} BY DEF ToSet
<1> QED BY <1>1, WithoutNothing DEF Flushed

\* The second loop moves one of them.
LEMMA FlushedAfterAdd ==
  ASSUME NEW S, NEW s \in Seq(S), NEW adds \in Seq(S), adds # <<>>
  PROVE  Flushed(Append(s, Head(adds)), <<>>, Tail(adds)) = Flushed(s, <<>>, adds)
<1>1. Head(adds) \in S /\ Tail(adds) \in Seq(S) BY HeadTailProperties
<1>2. Append(s, Head(adds)) \in Seq(S) BY <1>1
<1>3. Append(s, Head(adds)) \o Tail(adds) = s \o adds BY <1>1
<1> QED BY <1>2, <1>3, FlushedAdditions

\* UnlockLcxlList counts down, changes the list only at the last bracket and
\* links nothing that was not queued.
LEMMA UnlockedCounts ==
  ASSUME NEW S, NEW l \in Lists(S), NEW mod \in Nat, l.lock_count > 0, l.lock_count < mod
  PROVE  /\ Unlocked(l, mod) \in Lists(S)
         /\ Unlocked(l, mod).lock_count = l.lock_count - 1
         /\ l.lock_count # 1 => Unlocked(l, mod).list = l.list
         /\ Members(Unlocked(l, mod)) \subseteq Members(l)
<1>1. /\ l.lock_count \in Nat /\ l.list \in Seq(S) /\ l.to_be_add \in Seq(S)
      /\ l.to_be_del \in Seq(S)
  BY DEF Lists
<1>0. l.lock_count - 1 \in 0..(mod - 1) BY <1>1
<1>2. (l.lock_count - 1) % mod = l.lock_count - 1 BY <1>0, Unwrapped
<1>3. LastOut(l, mod) <=> l.lock_count = 1
  <2> DEFINE r == (l.lock_count - 1) % mod
             c == l.lock_count
  <2>1. LastOut(l, mod) <=> r = 0 BY Zenon DEF LastOut
  <2>2. r = c - 1 /\ c \in Nat BY <1>1, <1>2
  <2> HIDE DEF r, c
  <2>3. r = 0 <=> c = 1 BY <2>2
  <2> QED BY <2>1, <2>3 DEF c
<1>4. <<>> \in Seq(S) /\ ToSet(<<>>) = {} BY DEF ToSet
<1>5. CASE l.lock_count = 1
  <2> DEFINE new == Flushed(l.list, l.to_be_del, l.to_be_add)
  <2>1. Unlocked(l, mod) = [EmptyList EXCEPT !.list = new] BY <1>3, <1>5 DEF Unlocked
  <2>2. new \in Seq(S) /\ ToSet(new) \subseteq Members(l) BY <1>1, FlushedKeeps DEF Members
  <2> HIDE DEF new
  <2>3. Unlocked(l, mod) = [list |-> new, lock_count |-> 0, to_be_add |-> <<>>, to_be_del |-> <<>>]
    BY <2>1 DEF EmptyList
  <2>4. Unlocked(l, mod) \in Lists(S) BY <2>2, <2>3, <1>4 DEF Lists
  <2> QED BY <1>4, <1>5, <2>2, <2>3, <2>4 DEF Members
<1>6. CASE l.lock_count # 1
  <2>1. Unlocked(l, mod) = [l EXCEPT !.lock_count = l.lock_count - 1]
    BY <1>2, <1>3, <1>6 DEF Unlocked
  <2>2. l.lock_count - 1 \in Nat BY <1>1
  <2>3. /\ [l EXCEPT !.lock_count = l.lock_count - 1] \in Lists(S)
        /\ [l EXCEPT !.lock_count = l.lock_count - 1].lock_count = l.lock_count - 1
        /\ [l EXCEPT !.lock_count = l.lock_count - 1].list = l.list
        /\ [l EXCEPT !.lock_count = l.lock_count - 1].to_be_add = l.to_be_add
    BY <2>2 DEF Lists
  <2> QED BY <2>1, <2>3 DEF Members
<1> QED BY <1>5, <1>6

\* AddEntrytoLcxlList adds its entry, to the list only while no bracket is open.
LEMMA WithEntryAdds ==
  ASSUME NEW S, NEW l \in Lists(S), NEW e \in S
  PROVE  /\ WithEntry(l, e) \in Lists(S)
         /\ WithEntry(l, e).lock_count = l.lock_count
         /\ l.lock_count > 0 => WithEntry(l, e).list = l.list
         /\ Members(WithEntry(l, e)) = Members(l) \cup {e}
<1>1. /\ l.list \in Seq(S) /\ l.to_be_add \in Seq(S) BY DEF Lists
<1>2. /\ Append(l.list, e) \in Seq(S) /\ ToSet(Append(l.list, e)) = ToSet(l.list) \cup {e}
      /\ Append(l.to_be_add, e) \in Seq(S)
      /\ ToSet(Append(l.to_be_add, e)) = ToSet(l.to_be_add) \cup {e}
  BY <1>1, SetOfAppend
<1>3. CASE l.lock_count > 0
  <2> DEFINE new == [l EXCEPT !.to_be_add = Append(l.to_be_add, e)]
  <2>1. WithEntry(l, e) = new BY <1>3 DEF WithEntry
  <2>2. /\ new \in Lists(S) /\ new.lock_count = l.lock_count /\ new.list = l.list
        /\ new.to_be_add = Append(l.to_be_add, e)
    BY <1>2 DEF Lists
  <2> QED BY <1>2, <2>1, <2>2 DEF Members
<1>4. CASE ~(l.lock_count > 0)
  <2> DEFINE new == [l EXCEPT !.list = Append(l.list, e)]
  <2>1. WithEntry(l, e) = new BY <1>4 DEF WithEntry
  <2>2. /\ new \in Lists(S) /\ new.lock_count = l.lock_count /\ new.to_be_add = l.to_be_add
        /\ new.list = Append(l.list, e)
    BY <1>2 DEF Lists
  <2> QED BY <1>2, <1>4, <2>1, <2>2 DEF Members
<1> QED BY <1>3, <1>4

\* RemoveEntryfromLcxlList links nothing, and unlinks only while no bracket is
\* open.
LEMMA WithoutEntryDrops ==
  ASSUME NEW S, NEW l \in Lists(S), NEW e \in S
  PROVE  /\ WithoutEntry(l, e) \in Lists(S)
         /\ WithoutEntry(l, e).lock_count = l.lock_count
         /\ l.lock_count > 0 => WithoutEntry(l, e).list = l.list
         /\ Members(WithoutEntry(l, e)) \subseteq Members(l)
<1>1. /\ l.list \in Seq(S) /\ l.to_be_del \in Seq(S) /\ <<>> \in Seq(S) /\ ToSet(<<>>) = {}
  BY DEF Lists, ToSet
<1>3. CASE l.lock_count > 0
  <2> DEFINE new == [l EXCEPT !.to_be_del = Append(l.to_be_del, e)]
  <2>1. WithoutEntry(l, e) = new BY <1>3 DEF WithoutEntry
  <2>2. Append(l.to_be_del, e) \in Seq(S) BY <1>1, SetOfAppend
  <2>3. /\ new \in Lists(S) /\ new.lock_count = l.lock_count /\ new.list = l.list
        /\ new.to_be_add = l.to_be_add
    BY <2>2 DEF Lists
  <2> QED BY <2>1, <2>3 DEF Members
<1>4. CASE ~(l.lock_count > 0)
  <2> DEFINE left == Flushed(l.list, <<e>>, <<>>)
             new == [l EXCEPT !.list = left]
  <2>1. WithoutEntry(l, e) = new BY <1>4 DEF WithoutEntry
  <2>2. left \in Seq(S) /\ ToSet(left) \subseteq ToSet(l.list) BY <1>1, FlushedKeeps
  <2> HIDE DEF left
  <2>3. /\ new \in Lists(S) /\ new.lock_count = l.lock_count /\ new.to_be_add = l.to_be_add
        /\ new.list = left
    BY <2>2 DEF Lists
  <2> QED BY <1>4, <2>1, <2>2, <2>3 DEF Members
<1> QED BY <1>3, <1>4
-----------------------------------------------------------------------------
(* Sequences without repetitions.                                           *)

\* The elements of a sequence are those at its positions.
LEMMA SetOfSeq ==
  ASSUME NEW S, NEW s \in Seq(S)
  PROVE  /\ \A x : x \in ToSet(s) <=> \E i \in 1..Len(s) : s[i] = x
         /\ ToSet(s) \subseteq S
         /\ IsInjective(s) <=> \A i, j \in 1..Len(s) : s[i] = s[j] => i = j
         /\ s # <<>> <=> ToSet(s) # {}
BY LenProperties, ElementOfSeq, EmptySeq DEF ToSet, IsInjective

\* Linking at the tail: InsertTailList.
LEMMA AppendAdds ==
  ASSUME NEW S, NEW s \in Seq(S), NEW e \in S, IsInjective(s), e \notin ToSet(s)
  PROVE  /\ Append(s, e) \in Seq(S)
         /\ Len(Append(s, e)) = Len(s) + 1
         /\ ToSet(Append(s, e)) = ToSet(s) \cup {e}
         /\ IsInjective(Append(s, e))
<1> DEFINE t == Append(s, e)
<1>1. /\ t \in Seq(S) /\ Len(t) = Len(s) + 1 /\ Len(s) \in Nat
      /\ \A i \in 1..Len(s) : t[i] = s[i]
      /\ t[Len(s) + 1] = e
  BY AppendProperties, LenProperties
<1> HIDE DEF t
<1>2. \A x : x \in ToSet(t) <=> x \in ToSet(s) \cup {e}
  <2>1. \A x : x \in ToSet(t) <=> \E i \in 1..(Len(s) + 1) : t[i] = x
    BY <1>1, SetOfSeq
  <2>2. \A x : x \in ToSet(s) <=> \E i \in 1..Len(s) : s[i] = x
    BY SetOfSeq
  <2>3. ASSUME NEW x, NEW i \in 1..(Len(s) + 1), t[i] = x
        PROVE  x \in ToSet(s) \cup {e}
    <3>1. CASE i = Len(s) + 1 BY <2>3, <3>1, <1>1
    <3>2. CASE i # Len(s) + 1
      <4>1. i \in 1..Len(s) BY <3>2, <1>1
      <4> QED BY <4>1, <2>3, <2>2, <1>1
    <3> QED BY <3>1, <3>2
  <2>4. ASSUME NEW x \in ToSet(s) PROVE x \in ToSet(t)
    <3>1. PICK i \in 1..Len(s) : s[i] = x BY <2>2
    <3>2. i \in 1..(Len(s) + 1) /\ t[i] = x BY <3>1, <1>1
    <3> QED BY <3>2, <2>1
  <2>5. e \in ToSet(t)
    <3>1. Len(s) + 1 \in 1..(Len(s) + 1) BY <1>1
    <3> QED BY <3>1, <1>1, <2>1
  <2> QED BY <2>1, <2>3, <2>4, <2>5
<1>3. IsInjective(t)
  <2>1. \A i \in 1..Len(s) : s[i] # e BY SetOfSeq
  <2>2. \A i, j \in 1..Len(s) : s[i] = s[j] => i = j BY SetOfSeq
  <2>3. ASSUME NEW i \in 1..(Len(s) + 1), NEW j \in 1..(Len(s) + 1), t[i] = t[j]
        PROVE  i = j
    <3>1. \A k \in 1..(Len(s) + 1) : k \in 1..Len(s) \/ k = Len(s) + 1 BY <1>1
    <3> QED BY <3>1, <2>1, <2>2, <2>3, <1>1
  <2> QED BY <2>3, <1>1, SetOfSeq
<1> QED BY <1>1, <1>2, <1>3 DEF t

-----------------------------------------------------------------------------
(* The queue of removals.                                                   *)

\* UnlockLcxlList applies it when the last bracket is closed, and not before.
LEMMA UnlockedQueue ==
  ASSUME NEW S, NEW l \in Lists(S), NEW mod \in Nat, l.lock_count > 0, l.lock_count < mod
  PROVE  /\ l.lock_count # 1 => /\ Unlocked(l, mod).to_be_del = l.to_be_del
                                /\ FreedByUnlock(l, mod) = {}
         /\ l.lock_count = 1 => /\ Unlocked(l, mod).to_be_del = <<>>
                                /\ FreedByUnlock(l, mod) = ToSet(l.to_be_del)
<1>1. l.lock_count - 1 \in 0..(mod - 1) /\ l.lock_count \in Nat BY DEF Lists
<1>2. (l.lock_count - 1) % mod = l.lock_count - 1 BY <1>1, Unwrapped
<1>3. CASE l.lock_count = 1
  <2>1. LastOut(l, mod) BY <1>2, <1>3 DEF LastOut
  <2>2. Unlocked(l, mod).to_be_del = <<>> BY <2>1 DEF Unlocked, EmptyList
  <2> QED BY <1>3, <2>1, <2>2 DEF FreedByUnlock
<1>4. CASE l.lock_count # 1
  <2>1. ~LastOut(l, mod)
    <3> DEFINE r == (l.lock_count - 1) % mod
               c == l.lock_count
    <3>1. LastOut(l, mod) <=> r = 0 BY Zenon DEF LastOut
    <3>2. r = c - 1 /\ c \in Nat /\ c # 1 BY <1>1, <1>2, <1>4
    <3> HIDE DEF r, c
    <3> QED BY <3>1, <3>2
  <2>2. Unlocked(l, mod) = [l EXCEPT !.lock_count = l.lock_count - 1]
    BY <1>2, <2>1 DEF Unlocked
  <2>3. Unlocked(l, mod).to_be_del = l.to_be_del BY <2>2 DEF Lists
  <2> QED BY <1>4, <2>1, <2>3 DEF FreedByUnlock
<1> QED BY <1>3, <1>4

\* RemoveEntryfromLcxlList appends to it while a bracket is open.
LEMMA QueuedRemoval ==
  ASSUME NEW S, NEW l \in Lists(S), NEW e \in S, l.lock_count > 0
  PROVE  /\ WithoutEntry(l, e).to_be_del = Append(l.to_be_del, e)
         /\ FreedByRemove(l, e) = {}
<1>1. WithoutEntry(l, e) = [l EXCEPT !.to_be_del = Append(l.to_be_del, e)] BY DEF WithoutEntry
<1> QED BY <1>1 DEF Lists, FreedByRemove

\* UnlockLcxlList, in full: all of the queues at the last bracket, else nothing.
LEMMA UnlockedApplies ==
  ASSUME NEW S, NEW l \in Lists(S), NEW mod \in Nat, l.lock_count > 0, l.lock_count < mod
  PROVE  /\ l.lock_count = 1 =>
              /\ Unlocked(l, mod).list = Flushed(l.list, l.to_be_del, l.to_be_add)
              /\ Unlocked(l, mod).to_be_add = <<>> /\ Unlocked(l, mod).to_be_del = <<>>
              /\ FreedByUnlock(l, mod) = ToSet(l.to_be_del)
         /\ l.lock_count # 1 =>
              /\ Unlocked(l, mod) = [l EXCEPT !.lock_count = l.lock_count - 1]
              /\ FreedByUnlock(l, mod) = {}
<1>1. l.lock_count - 1 \in 0..(mod - 1) /\ l.lock_count \in Nat BY DEF Lists
<1>2. (l.lock_count - 1) % mod = l.lock_count - 1 BY <1>1, Unwrapped
<1>3. LastOut(l, mod) <=> l.lock_count = 1
  <2> DEFINE r == (l.lock_count - 1) % mod
             c == l.lock_count
  <2>1. LastOut(l, mod) <=> r = 0 BY Zenon DEF LastOut
  <2>2. r = c - 1 /\ c \in Nat BY <1>1, <1>2
  <2> HIDE DEF r, c
  <2>3. r = 0 <=> c = 1 BY <2>2
  <2> QED BY <2>1, <2>3 DEF c
<1>4. CASE l.lock_count = 1
  <2> DEFINE new == Flushed(l.list, l.to_be_del, l.to_be_add)
  <2>1. Unlocked(l, mod) = [EmptyList EXCEPT !.list = new] BY <1>3, <1>4 DEF Unlocked
  <2> HIDE DEF new
  <2>2. Unlocked(l, mod) = [list |-> new, lock_count |-> 0, to_be_add |-> <<>>, to_be_del |-> <<>>]
    BY <2>1 DEF EmptyList
  <2>3. FreedByUnlock(l, mod) = ToSet(l.to_be_del) BY <1>3, <1>4 DEF FreedByUnlock
  <2> QED BY <1>4, <2>2, <2>3 DEF new
<1>5. CASE l.lock_count # 1
  <2>1. Unlocked(l, mod) = [l EXCEPT !.lock_count = l.lock_count - 1]
    BY <1>2, <1>3, <1>5 DEF Unlocked
  <2>2. FreedByUnlock(l, mod) = {} BY <1>3, <1>5 DEF FreedByUnlock
  <2> QED BY <1>5, <2>1, <2>2
<1> QED BY <1>4, <1>5

=============================================================================
