-------------------------- MODULE FilterPathProofs --------------------------
(***************************************************************************)
(* Proofs about FilterPath for all sets of frames, chains of any length    *)
(* and counters of any width: no frame is ever in two places, none but the *)
(* known advertisements is lost.                                           *)
(***************************************************************************)
EXTENDS FilterPath, FiniteSetTheorems, TLAPS

\* The lists of a handler are empty where its next steps expect them to be.
Control ==
  /\ sendPc \in {"idle", "pass", "own"} => sendChain = {}
  /\ recvPc \notin {"walk", "refuse"} => recvChain = {}
  /\ recvPc # "walk" => recvPass = {}
  /\ recvPc \notin {"walk", "drop"} => recvDrop = {}
  /\ ~canPend => recvChain \subseteq homeBelow

IInv == TypeOK /\ Control /\ SentFramesOnce /\ ReceivedFramesOnce /\ OwnFramesOnce

-----------------------------------------------------------------------------
(* Counting.                                                                *)

\* A set of frames has a number of elements.
LEMMA Counted ==
  ASSUME NEW S, S \subseteq Up \cup Down \cup Own
  PROVE  Cardinality(S) \in Nat
<1>1. IsFiniteSet(Up \cup Down \cup Own) BY FramesAssumption, FS_Union
<1>2. IsFiniteSet(S) BY <1>1, FS_Subset
<1> QED BY <1>2, FS_CardinalityType

\* A counter stays in its range.
LEMMA Wrapped ==
  ASSUME NEW n \in Int
  PROVE  Wrap(n) \in 0..(Modulus - 1)
BY BoundsAssumption DEF Wrap

-----------------------------------------------------------------------------
(* One lemma per part of the invariant, one step per action that touches it.*)

\* The types.
LEMMA TypeStep ==
  ASSUME TypeOK, [Next]_vars
  PROVE  TypeOK'
<1> USE DEF TypeOK
<1>0. 0..(Modulus - 1) \subseteq Int OBVIOUS
<1>1. CASE FilterPause \/ Paused \/ FilterRestart
  BY <1>1 DEF FilterPause, Paused, FilterRestart, homes, sending, receiving, counts
<1>2. CASE SendCall
  BY <1>2 DEF SendCall, Chains, receiving, counts
<1>3. CASE SendRefused
  BY <1>3 DEF SendRefused, receiving, counts
<1>4. CASE SendWalk
  <2>1. Wrap(outstanding_sends + 1) \in 0..(Modulus - 1) /\ Wrap(sendDrift + 1) \in 0..(Modulus - 1)
    BY Wrapped
  <2> QED BY <1>4, <2>1 DEF SendWalk, SendVerdict, receiving
<1>5. CASE SendDrop
  BY <1>5 DEF SendDrop, receiving, counts
<1>6. CASE SendPass
  BY <1>6 DEF SendPass, homes, receiving, counts
<1>7. CASE SendOwn
  BY <1>7 DEF SendOwn, homes, receiving, counts
<1>8. CASE ReceiveCall
  <2>1. \A c \in Chains(homeBelow) : Cardinality(c) \in Nat
    BY Counted DEF Chains
  <2> QED BY <1>8, <2>1 DEF ReceiveCall, Chains, sending, counts
<1>9. CASE ReceiveRefused
  BY <1>9 DEF ReceiveRefused, sending, counts
<1>10. CASE ReceiveWalk
  BY <1>10 DEF ReceiveWalk, ReceiveVerdict, Kept, Dropped, sending, counts
<1>11. CASE Indicate
  BY <1>11 DEF Indicate, homes, sending, counts
<1>12. CASE ReturnDropped
  <2>1. Wrap(recvDrift + Cardinality(recvDrop)) \in 0..(Modulus - 1)
    BY Counted, Wrapped
  <2> QED BY <1>12, <2>1 DEF ReturnDropped, sending
<1>13. CASE Forward
  BY <1>13 DEF Forward, homes, sending, counts
<1>14. CASE Advertise
  BY <1>14 DEF Advertise, Indicated, homes, sending, counts
<1>15. CASE ReceiveCount
  <2>1. Wrap(outstanding_rcvs + recvCount) \in 0..(Modulus - 1)
    BY Wrapped
  <2> QED BY <1>15, <2>1 DEF ReceiveCount, homes, sending
<1>16. CASE ReceiveUncount
  <2>1. Wrap(outstanding_rcvs - recvCount) \in 0..(Modulus - 1)
    BY Wrapped
  <2> QED BY <1>16, <2>1 DEF ReceiveUncount, homes, sending
<1>17. CASE \E c \in Chains(below) : Complete(c)
  <2>1. PICK c \in Chains(below) : Complete(c) BY <1>17
  <2>2. Cardinality(c) \in Nat /\ Cardinality(Owned(c)) \in Nat
    BY Counted DEF Chains, Owned
  <2>3. /\ Wrap(outstanding_sends - Cardinality(c)) \in 0..(Modulus - 1)
        /\ Wrap(sendDrift - Cardinality(Owned(c))) \in 0..(Modulus - 1)
    BY <2>2, Wrapped
  <2> QED BY <2>1, <2>3 DEF Complete, Chains, homes, sending, receiving
<1>18. CASE Completed
  BY <1>18 DEF Completed, Owned, DropOwnerNBL, sending, receiving, counts
<1>19. CASE \E c \in Chains(above) : Return(c)
  <2>1. PICK c \in Chains(above) : Return(c) BY <1>19
  <2>2. Cardinality(c) \in Nat /\ Cardinality(Owned(c)) \in Nat
    BY Counted DEF Chains, Owned
  <2>3. Wrap(recvDrift - Cardinality(Owned(c))) \in 0..(Modulus - 1)
    BY <2>2, Wrapped
  <2> QED BY <2>1, <2>2, <2>3 DEF Return, Chains, Owned, DropOwnerNBL, sending, receiving
<1>20. CASE ReturnCount
  <2>1. Wrap(outstanding_rcvs - returned) \in 0..(Modulus - 1)
    BY Wrapped
  <2> QED BY <1>20, <2>1 DEF ReturnCount, homes, sending, receiving
<1>21. CASE CheckServerStatus
  BY <1>21 DEF CheckServerStatus, Chains, sending, receiving, counts
<1>22. CASE UNCHANGED vars
  BY <1>22 DEF vars, homes, sending, receiving, counts
<1> QED BY <1>1, <1>2, <1>3, <1>4, <1>5, <1>6, <1>7, <1>8, <1>9, <1>10, <1>11, <1>12, <1>13, <1>14,
           <1>15, <1>16, <1>17, <1>18, <1>19, <1>20, <1>21, <1>22
        DEF Next, SendSteps, ReceiveSteps

\* The empty lists.
LEMMA ControlStep ==
  ASSUME IInv, [Next]_vars
  PROVE  Control'
<1> USE DEF IInv, TypeOK, Control
<1>1. CASE SendCall
  BY <1>1 DEF SendCall, Chains, homes, sending, receiving, counts
<1>2. CASE SendRefused
  BY <1>2 DEF SendRefused, homes, sending, receiving, counts
<1>3. CASE SendWalk
  BY <1>3 DEF SendWalk, SendVerdict, homes, sending, receiving, counts
<1>4. CASE SendDrop
  BY <1>4 DEF SendDrop, homes, sending, receiving, counts
<1>5. CASE SendPass
  BY <1>5 DEF SendPass, homes, sending, receiving, counts
<1>6. CASE SendOwn
  BY <1>6 DEF SendOwn, homes, sending, receiving, counts
<1>7. CASE ReceiveCall
  BY <1>7 DEF ReceiveCall, Chains, homes, sending, receiving, counts
<1>8. CASE ReceiveRefused
  BY <1>8 DEF ReceiveRefused, homes, sending, receiving, counts
<1>9. CASE ReceiveWalk
  BY <1>9 DEF ReceiveWalk, ReceiveVerdict, Kept, Dropped, homes, sending, receiving, counts
<1>10. CASE Indicate
  BY <1>10 DEF Indicate, homes, sending, receiving, counts
<1>11. CASE ReturnDropped
  BY <1>11 DEF ReturnDropped, homes, sending, receiving, counts
<1>12. CASE Forward
  BY <1>12 DEF Forward, homes, sending, receiving, counts
<1>13. CASE Advertise
  BY <1>13 DEF Advertise, Indicated, homes, sending, receiving, counts
<1>14. CASE ReceiveCount
  BY <1>14 DEF ReceiveCount, homes, sending, receiving, counts
<1>15. CASE ReceiveUncount
  BY <1>15 DEF ReceiveUncount, homes, sending, receiving, counts
<1>16. CASE \/ FilterPause \/ Paused \/ FilterRestart \/ (\E c \in Chains(below) : Complete(c)) \/ Completed
            \/ (\E c \in Chains(above) : Return(c)) \/ ReturnCount \/ CheckServerStatus
            \/ UNCHANGED vars
  BY <1>16 DEF FilterPause, Paused, FilterRestart, Complete, Completed, Return, ReturnCount,
       CheckServerStatus, Chains, DropOwnerNBL, Owned, homes, sending, receiving, counts, vars
<1> QED BY <1>1, <1>2, <1>3, <1>4, <1>5, <1>6, <1>7, <1>8, <1>9, <1>10, <1>11, <1>12, <1>13,
       <1>14, <1>15, <1>16 DEF Next, SendSteps, ReceiveSteps

\* The frames of the layer above.
LEMMA SentStep ==
  ASSUME IInv, [Next]_vars
  PROVE  SentFramesOnce'
<1> USE FramesAssumption DEF IInv, TypeOK, Control, SentFramesOnce, OwnFramesOnce, InSend
<1>1. CASE SendCall
  BY <1>1 DEF SendCall, Chains, homes, sending, receiving, counts
<1>2. CASE SendRefused
  BY <1>2 DEF SendRefused, homes, sending, receiving, counts
<1>3. CASE SendWalk
  BY <1>3 DEF SendWalk, SendVerdict, homes, sending, receiving, counts
<1>4. CASE SendDrop
  BY <1>4 DEF SendDrop, homes, sending, receiving, counts
<1>5. CASE SendPass
  BY <1>5 DEF SendPass, homes, sending, receiving, counts
<1>6. CASE SendOwn
  BY <1>6 DEF SendOwn, homes, sending, receiving, counts
<1>7. CASE Forward
  BY <1>7 DEF Forward, homes, sending, receiving, counts
<1>8. CASE \E c \in Chains(below) : Complete(c)
  BY <1>8 DEF Complete, Chains, homes, sending, receiving, counts
<1>9. CASE Completed
  BY <1>9 DEF Completed, Owned, DropOwnerNBL, homes, sending, receiving, counts
<1>10. CASE CheckServerStatus
  BY <1>10 DEF CheckServerStatus, Chains, homes, sending, receiving, counts
<1>11. CASE \/ FilterPause \/ Paused \/ FilterRestart \/ ReceiveCall \/ ReceiveRefused
            \/ ReceiveWalk \/ Indicate \/ ReturnDropped \/ Advertise \/ ReceiveCount
            \/ ReceiveUncount \/ (\E c \in Chains(above) : Return(c)) \/ ReturnCount
            \/ UNCHANGED vars
  BY <1>11 DEF FilterPause, Paused, FilterRestart, ReceiveCall, ReceiveRefused, ReceiveWalk,
       Indicate, ReturnDropped, Advertise, ReceiveCount, ReceiveUncount, Return, ReturnCount,
       Chains, DropOwnerNBL, Dropped, Indicated, Kept, Owned, ReceiveVerdict, homes, sending,
       receiving, counts, vars
<1> QED BY <1>1, <1>2, <1>3, <1>4, <1>5, <1>6, <1>7, <1>8, <1>9, <1>10, <1>11 DEF Next,
       SendSteps, ReceiveSteps

\* The frames of the layer below.
LEMMA ReceivedStep ==
  ASSUME IInv, [Next]_vars
  PROVE  ReceivedFramesOnce'
<1> USE FramesAssumption DEF IInv, TypeOK, Control, ReceivedFramesOnce, InReceive
<1>1. CASE ReceiveCall
  BY <1>1 DEF ReceiveCall, Chains, homes, sending, receiving, counts
<1>2. CASE ReceiveRefused
  BY <1>2 DEF ReceiveRefused, homes, sending, receiving, counts
<1>3. CASE ReceiveWalk
  BY <1>3 DEF ReceiveWalk, ReceiveVerdict, Kept, Dropped, homes, sending, receiving, counts
<1>4. CASE Indicate
  BY <1>4 DEF Indicate, homes, sending, receiving, counts
<1>5. CASE ReturnDropped
  BY <1>5 DEF ReturnDropped, homes, sending, receiving, counts
<1>6. CASE Advertise
  BY <1>6 DEF Advertise, Indicated, homes, sending, receiving, counts
<1>7. CASE \E c \in Chains(above) : Return(c)
  BY <1>7 DEF Return, Chains, Owned, DropOwnerNBL, homes, sending, receiving, counts
<1>8. CASE \/ FilterPause \/ Paused \/ FilterRestart \/ SendCall \/ SendRefused
            \/ SendWalk \/ SendDrop \/ SendPass \/ SendOwn \/ Forward
            \/ ReceiveCount \/ ReceiveUncount \/ (\E c \in Chains(below) : Complete(c))
            \/ Completed \/ ReturnCount \/ CheckServerStatus
            \/ UNCHANGED vars
  <2>1. UNCHANGED <<homeBelow, above, canPend, recvChain, recvPass, recvDrop>>
    <3> HIDE DEF IInv, TypeOK, Control, ReceivedFramesOnce, InReceive
    <3> QED BY <1>8 DEF FilterPause, Paused, FilterRestart, SendCall, SendRefused, SendWalk,
              SendDrop, SendPass, SendOwn, Forward, ReceiveCount, ReceiveUncount, Complete,
              Completed, ReturnCount, CheckServerStatus, homes, sending, receiving, counts, vars
  <2> QED BY <2>1
<1> QED BY <1>1, <1>2, <1>3, <1>4, <1>5, <1>6, <1>7, <1>8 DEF Next, SendSteps, ReceiveSteps

\* The filter's own frames.
LEMMA OwnStep ==
  ASSUME IInv, [Next]_vars
  PROVE  OwnFramesOnce'
<1> USE FramesAssumption DEF IInv, TypeOK, OwnFramesOnce, SentFramesOnce, ReceivedFramesOnce, InSend, InReceive
<1>1. CASE SendWalk
  BY <1>1 DEF SendWalk, SendVerdict, homes, sending, receiving, counts
<1>2. CASE SendPass
  BY <1>2 DEF SendPass, homes, sending, receiving, counts
<1>3. CASE SendOwn
  BY <1>3 DEF SendOwn, homes, sending, receiving, counts
<1>4. CASE ReceiveWalk
  BY <1>4 DEF ReceiveWalk, ReceiveVerdict, Kept, Dropped, homes, sending, receiving, counts
<1>5. CASE Indicate
  BY <1>5 DEF Indicate, homes, sending, receiving, counts
<1>6. CASE Forward
  BY <1>6 DEF Forward, homes, sending, receiving, counts
<1>7. CASE Advertise
  BY <1>7 DEF Advertise, Indicated, homes, sending, receiving, counts
<1>8. CASE \E c \in Chains(below) : Complete(c)
  BY <1>8 DEF Complete, Chains, homes, sending, receiving, counts
<1>9. CASE Completed
  BY <1>9 DEF Completed, Owned, DropOwnerNBL, homes, sending, receiving, counts
<1>10. CASE \E c \in Chains(above) : Return(c)
  BY <1>10 DEF Return, Chains, Owned, DropOwnerNBL, homes, sending, receiving, counts
<1>11. CASE CheckServerStatus
  BY <1>11 DEF CheckServerStatus, Chains, homes, sending, receiving, counts
<1>12. CASE \/ FilterPause \/ Paused \/ FilterRestart \/ SendCall \/ SendRefused
            \/ SendDrop \/ ReceiveCall \/ ReceiveRefused \/ ReturnDropped \/ ReceiveCount
            \/ ReceiveUncount \/ ReturnCount
            \/ UNCHANGED vars
  BY <1>12 DEF FilterPause, Paused, FilterRestart, SendCall, SendRefused, SendDrop, ReceiveCall,
       ReceiveRefused, ReturnDropped, ReceiveCount, ReceiveUncount, ReturnCount, Chains, homes,
       sending, receiving, counts, vars
<1> QED BY <1>1, <1>2, <1>3, <1>4, <1>5, <1>6, <1>7, <1>8, <1>9, <1>10, <1>11, <1>12 DEF Next,
       SendSteps, ReceiveSteps

-----------------------------------------------------------------------------
(* The theorems.                                                            *)

\* The first state.
LEMMA Start == Init => IInv
<1>1. Init => TypeOK /\ Control
  BY BoundsAssumption DEF Init, TypeOK, Control
<1>2. Init => SentFramesOnce /\ ReceivedFramesOnce /\ OwnFramesOnce
  BY DEF Init, SentFramesOnce, ReceivedFramesOnce, OwnFramesOnce, InSend, InReceive
<1> QED BY <1>1, <1>2 DEF IInv

\* The invariant is inductive.
LEMMA Invariance == Spec => []IInv
<1>1. IInv /\ [Next]_vars => IInv'
  BY TypeStep, ControlStep, SentStep, ReceivedStep, OwnStep DEF IInv
<1> QED BY <1>1, Start, PTL DEF Spec

(* The types: in particular the completion handlers give each layer its own *)
(* frames only, and the pool the filter's (DropOwnerNBL).                   *)
THEOREM Types == Spec => []TypeOK
<1>1. IInv => TypeOK BY DEF IInv
<1> QED BY <1>1, Invariance, PTL

(* No frame of the layer above is completed twice, lost, or on its way      *)
(* after it was completed.                                                  *)
THEOREM SentFrames == Spec => []SentFramesOnce
<1>1. IInv => SentFramesOnce BY DEF IInv
<1> QED BY <1>1, Invariance, PTL

(* No frame of the layer below is returned twice, lost, or indicated after  *)
(* it was returned.                                                         *)
THEOREM ReceivedFrames == Spec => []ReceivedFramesOnce
<1>1. IInv => ReceivedFramesOnce BY DEF IInv
<1> QED BY <1>1, Invariance, PTL

(* No frame of the pool is freed twice, or while a layer has it.            *)
THEOREM OwnFrames == Spec => []OwnFramesOnce
<1>1. IInv => OwnFramesOnce BY DEF IInv
<1> QED BY <1>1, Invariance, PTL

\* What a step does to the frames nobody refers to.
LEMMA LostStep ==
  ASSUME IInv, [Next]_vars, Lost' # Lost
  PROVE  recvPc = "advertise" /\ Lost' = Lost \cup (advert \ {advertTail})
<1> USE FramesAssumption DEF IInv, TypeOK, Lost
<1>1. CASE Advertise
  BY <1>1 DEF Advertise, Indicated, OwnFramesOnce, homes, sending, receiving, counts
<1>2. CASE SendWalk
  BY <1>2 DEF SendWalk, SendVerdict, homes, sending, receiving, counts
<1>3. CASE SendOwn \/ SendPass
  BY <1>3 DEF SendOwn, SendPass, homes, sending, receiving, counts
<1>4. CASE ReceiveWalk
  BY <1>4 DEF ReceiveWalk, ReceiveVerdict, Kept, Dropped, homes, sending, receiving, counts
<1>5. CASE Indicate \/ Forward
  BY <1>5 DEF Indicate, Forward, homes, sending, receiving, counts
<1>6. CASE \E c \in Chains(below) : Complete(c)
  BY <1>6 DEF Complete, Chains, homes, sending, receiving, counts
<1>7. CASE Completed
  BY <1>7 DEF Completed, Owned, DropOwnerNBL, homes, sending, receiving, counts
<1>8. CASE \E c \in Chains(above) : Return(c)
  BY <1>8 DEF Return, Chains, Owned, DropOwnerNBL, homes, sending, receiving, counts
<1>9. CASE CheckServerStatus
  BY <1>9 DEF CheckServerStatus, Chains, homes, sending, receiving, counts
<1>10. CASE \/ FilterPause \/ Paused \/ FilterRestart \/ SendCall \/ SendRefused \/ SendDrop
            \/ ReceiveCall \/ ReceiveRefused \/ ReturnDropped \/ ReceiveCount \/ ReceiveUncount
            \/ ReturnCount \/ UNCHANGED vars
  BY <1>10 DEF FilterPause, Paused, FilterRestart, SendCall, SendRefused, SendDrop, ReceiveCall,
       ReceiveRefused, ReturnDropped, ReceiveCount, ReceiveUncount, ReturnCount, homes,
       sending, receiving, counts, vars
<1> QED BY <1>1, <1>2, <1>3, <1>4, <1>5, <1>6, <1>7, <1>8, <1>9, <1>10
        DEF Next, SendSteps, ReceiveSteps

(* Of the filter's own frames only advertisements are lost, all but the     *)
(* last of those one call made.                                             *)
THEOREM OnlyAdvertisementsAreLost == Spec => LostAdvertisements
<1>1. IInv /\ [Next]_vars
        => [Lost' # Lost => recvPc = "advertise" /\ Lost' = Lost \cup (advert \ {advertTail})]_vars
  BY LostStep
<1> QED BY <1>1, Invariance, PTL DEF Spec, LostAdvertisements

-----------------------------------------------------------------------------
(* Counters that wrap.  What is counted is followed as an integer, and the  *)
(* counter is the one value of its range that is alike.                     *)

\* Two numbers that wrap alike.
Alike(a, b) == \E k \in Int : a = b + k * Modulus

\* Division with a remainder.
LEMMA Division ==
  ASSUME NEW m \in Nat, m # 0, NEW n \in Int
  PROVE  n \div m \in Int /\ n = m * (n \div m) + (n % m)
<1>1. n \div m \in Int OBVIOUS
<1>2. n = m * (n \div m) + (n % m) BY SMTT(30)
<1> QED BY <1>1, <1>2

\* A counter and the number it stands for.
LEMMA WrapIsAlike ==
  ASSUME NEW n \in Int
  PROVE  Alike(Wrap(n), n)
<1>1. Modulus \in Nat \ {0} BY BoundsAssumption
<1>2. PICK q \in Int : n = Modulus * q + (n % Modulus) BY <1>1, Division
<1>3. Wrap(n) \in Int BY Wrapped
<1>4. Wrap(n) = n + (-q) * Modulus BY <1>1, <1>2, <1>3 DEF Wrap
<1> QED BY <1>4 DEF Alike

\* There is one counter value for a number.
LEMMA AlikeIsEqual ==
  ASSUME NEW r \in 0..(Modulus - 1), NEW n \in Int, Alike(r, n)
  PROVE  r = Wrap(n)
<1>1. Modulus \in Nat \ {0} /\ Wrap(n) \in 0..(Modulus - 1) BY BoundsAssumption, Wrapped
<1>2. PICK k \in Int : r = n + k * Modulus BY DEF Alike
<1>3. PICK j \in Int : Wrap(n) = n + j * Modulus BY WrapIsAlike DEF Alike
<1>4. r - Wrap(n) = (k - j) * Modulus BY <1>1, <1>2, <1>3
<1> DEFINE d == k - j
<1>5. d \in Int /\ d * Modulus < Modulus /\ -Modulus < d * Modulus BY <1>1, <1>4
<1> HIDE DEF d
<1>6. d >= 1 => d * Modulus >= Modulus BY <1>1, <1>5
<1>7. d <= -1 => d * Modulus <= -Modulus BY <1>1, <1>5
<1>8. d = 0 BY <1>1, <1>5, <1>6, <1>7
<1> QED BY <1>8, <1>4, <1>1 DEF d

\* Arithmetic keeps numbers alike.
LEMMA AlikeSum ==
  ASSUME NEW a \in Int, NEW b \in Int, NEW c \in Int, NEW d \in Int, Alike(a, b), Alike(c, d)
  PROVE  Alike(a + c, b + d) /\ Alike(a - c, b - d)
<1>0. Modulus \in Int BY BoundsAssumption
<1>1. PICK k \in Int : a = b + k * Modulus BY DEF Alike
<1>2. PICK j \in Int : c = d + j * Modulus BY DEF Alike
<1>3. a + c = (b + d) + (k + j) * Modulus BY <1>0, <1>1, <1>2
<1>4. a - c = (b - d) + (k - j) * Modulus BY <1>0, <1>1, <1>2
<1> QED BY <1>3, <1>4 DEF Alike

\* Being alike is an equivalence.
LEMMA AlikeItself ==
  ASSUME NEW a \in Int
  PROVE  Alike(a, a)
<1>1. a = a + 0 * Modulus BY BoundsAssumption
<1> QED BY <1>1 DEF Alike

LEMMA AlikeBack ==
  ASSUME NEW a \in Int, NEW b \in Int, Alike(a, b)
  PROVE  Alike(b, a)
<1>1. PICK k \in Int : a = b + k * Modulus BY DEF Alike
<1>2. b = a + (-k) * Modulus BY <1>1, BoundsAssumption
<1> QED BY <1>2 DEF Alike

LEMMA AlikeChain ==
  ASSUME NEW a \in Int, NEW b \in Int, NEW c \in Int, Alike(a, b), Alike(b, c)
  PROVE  Alike(a, c)
<1>0. Modulus \in Int BY BoundsAssumption
<1>1. PICK k \in Int : a = b + k * Modulus BY DEF Alike
<1>2. PICK j \in Int : b = c + j * Modulus BY DEF Alike
<1>3. a = c + (k + j) * Modulus BY <1>0, <1>1, <1>2
<1> QED BY <1>3 DEF Alike

\* Two disjoint sets of frames.
LEMMA Parted ==
  ASSUME NEW S, NEW T, S \cup T \subseteq Up \cup Down \cup Own, S \cap T = {}
  PROVE  /\ Cardinality(S) \in Nat /\ Cardinality(T) \in Nat
         /\ Cardinality(S \cup T) = Cardinality(S) + Cardinality(T)
<1>1. IsFiniteSet(Up \cup Down \cup Own) BY FramesAssumption, FS_Union
<1>2. IsFiniteSet(S) /\ IsFiniteSet(T) BY <1>1, FS_Subset
<1>3. Cardinality(S) \in Nat /\ Cardinality(T) \in Nat BY <1>2, FS_CardinalityType
<1>4. Cardinality(S \cap T) = 0 BY FS_EmptySet
<1>5. Cardinality(S \cup T) = Cardinality(S) + Cardinality(T) - Cardinality(S \cap T)
  BY <1>2, FS_Union
<1> QED BY <1>3, <1>4, <1>5

\* A counter in its range stands for itself.
LEMMA InRange ==
  ASSUME NEW r \in 0..(Modulus - 1)
  PROVE  Wrap(r) = r /\ Wrap(r + 0) = r
<1>1. Alike(r, r) BY AlikeItself
<1> QED BY <1>1, AlikeIsEqual

\* Counter r counts n items and a drift of d; a counter moves by x.
Counts(r, n, d) == r = Wrap(n + d)
Moved(a, x, b) == b = Wrap(a + x)
Even(n, x, m, y) == m + y = n + x

\* A ledger whose two sides change by as much.
LEMMA LedgerKept ==
  ASSUME NEW r \in Int, NEW d \in Int, NEW n \in Int, NEW m \in Int, NEW x \in Int, NEW y \in Int,
         NEW s, NEW e, Counts(r, n, d), Moved(r, x, s), Moved(d, y, e), Even(n, x, m, y)
  PROVE  Counts(s, m, e)
<1> USE DEF Counts, Moved, Even
<1>1. Wrap(n + d) \in Int /\ e \in Int /\ s \in 0..(Modulus - 1)
  BY Wrapped
<1>2. Alike(r, n + d) BY WrapIsAlike
<1>3. Alike(r + x, (n + d) + x) BY <1>2, AlikeSum, AlikeItself
<1>4. Alike(s, (n + d) + x)
  <2>1. Alike(s, r + x) BY WrapIsAlike
  <2> QED BY <2>1, <1>1, <1>3, AlikeChain
<1>5. Alike(m + e, m + (d + y)) BY <1>1, WrapIsAlike, AlikeSum, AlikeItself
<1>6. m + (d + y) = (n + d) + x OBVIOUS
<1>7. Alike((n + d) + x, m + e) BY <1>1, <1>5, <1>6, AlikeBack
<1>8. Alike(s, m + e) BY <1>1, <1>4, <1>7, AlikeChain
<1> QED BY <1>1, <1>8, AlikeIsEqual

-----------------------------------------------------------------------------
(* The ledgers.                                                             *)

\* The frames of the layer above that went on, each counted when it did.
Sent == (sendPass \cup below) \cap Up

\* How a step that counts x frames, y of them drifting, keeps the ledger.
LEMMA SendsKept ==
  ASSUME IInv, TypeOK', SendsLedger, NEW x \in Int, NEW y \in Int,
         Moved(outstanding_sends, x, outstanding_sends'), Moved(sendDrift, y, sendDrift'),
         Even(Cardinality(Sent), x, Cardinality(Sent'), y)
  PROVE  SendsLedger'
<1>1. Cardinality(Sent) \in Int /\ Cardinality(Sent') \in Int
  BY Counted DEF Sent, IInv, TypeOK
<1>2. outstanding_sends \in Int /\ sendDrift \in Int BY DEF IInv, TypeOK
<1>3. Counts(outstanding_sends, Cardinality(Sent), sendDrift) BY DEF SendsLedger, Sent, Counts
<1>4. Counts(outstanding_sends', Cardinality(Sent'), sendDrift')
  BY <1>1, <1>2, <1>3, LedgerKept
<1> QED BY <1>4 DEF SendsLedger, Sent, Counts

\* The send path.
LEMMA SendsStep ==
  ASSUME IInv, TypeOK', SendsLedger, [Next]_vars
  PROVE  SendsLedger'
<1>0. /\ outstanding_sends = Wrap(outstanding_sends + 0) /\ sendDrift = Wrap(sendDrift + 0)
      /\ Cardinality(Sent) \in Int
  <2>1. outstanding_sends \in 0..(Modulus - 1) /\ sendDrift \in 0..(Modulus - 1) BY DEF IInv, TypeOK
  <2>2. Sent \subseteq Up BY DEF Sent
  <2> QED BY <2>1, <2>2, InRange, Counted
<1>1. CASE SendWalk
  <2>1. PICK n \in sendChain : /\ SendVerdict(n)
                               /\ outstanding_sends' = Wrap(outstanding_sends + 1)
    BY <1>1 DEF SendWalk
  <2>2. n \in Up /\ n \notin Sent BY DEF IInv, TypeOK, SentFramesOnce, InSend, Sent
  <2>3. CASE sendPass' = sendPass \cup {n} /\ sendDrift' = sendDrift
    <3>1. Sent' = Sent \cup {n} BY <1>1, <2>2, <2>3 DEF SendWalk, Sent
    <3>2. Cardinality({n}) = 1 BY FS_Singleton
    <3>3. Sent \cup {n} \subseteq Up \cup Down \cup Own /\ Sent \cap {n} = {} BY <2>2 DEF Sent
    <3>4. Cardinality(Sent') + 0 = Cardinality(Sent) + 1 BY <3>1, <3>2, <3>3, Parted
    <3> QED BY <3>4, <2>1, <2>3, <1>0, SendsKept DEF Moved, Even
  <2>4. CASE sendPass' = sendPass /\ sendDrift' = Wrap(sendDrift + 1)
    <3>1. Sent' = Sent BY <1>1, <2>4 DEF SendWalk, Sent
    <3> QED BY <3>1, <2>1, <2>4, <1>0, SendsKept DEF Moved, Even
  <2> QED BY <2>1, <2>3, <2>4 DEF SendVerdict
<1>2. CASE \E c \in Chains(below) : Complete(c)
  <2>1. PICK c \in Chains(below) : Complete(c) BY <1>2
  <2>2. /\ c \subseteq below
        /\ below' = below \ c /\ sendPass' = sendPass
        /\ outstanding_sends' = Wrap(outstanding_sends - Cardinality(c))
        /\ sendDrift' = Wrap(sendDrift - Cardinality(Owned(c)))
    BY <2>1 DEF Complete, Chains, sending
  <2>3. Sent = Sent' \cup (c \cap Up) /\ Sent' \cap (c \cap Up) = {}
    BY <2>2 DEF Sent, IInv, SentFramesOnce, InSend
  <2>4. c = Owned(c) \cup (c \cap Up) /\ Owned(c) \cap (c \cap Up) = {}
    BY <2>2, FramesAssumption DEF Owned, IInv, TypeOK
  <2>5. /\ Cardinality(Sent') \in Nat /\ Cardinality(c \cap Up) \in Nat
        /\ Cardinality(Sent) = Cardinality(Sent') + Cardinality(c \cap Up)
    <3>1. Sent' \cup (c \cap Up) \subseteq Up \cup Down \cup Own BY DEF Sent
    <3> QED BY <3>1, <2>3, Parted
  <2>6. /\ Cardinality(Owned(c)) \in Nat
        /\ Cardinality(c) = Cardinality(Owned(c)) + Cardinality(c \cap Up)
    <3>1. Owned(c) \cup (c \cap Up) \subseteq Up \cup Down \cup Own BY DEF Owned
    <3> QED BY <3>1, <2>4, Parted
  <2> DEFINE x == -Cardinality(c)
             y == -Cardinality(Owned(c))
  <2>7. x \in Int /\ y \in Int /\ Cardinality(Sent') + y = Cardinality(Sent) + x
    BY <2>5, <2>6
  <2>8. /\ outstanding_sends' = Wrap(outstanding_sends + x)
        /\ sendDrift' = Wrap(sendDrift + y)
    <3>1. outstanding_sends \in Int /\ sendDrift \in Int /\ Cardinality(c) \in Nat
      BY <2>5, <2>6 DEF IInv, TypeOK
    <3>2. /\ outstanding_sends - Cardinality(c) = outstanding_sends + x
          /\ sendDrift - Cardinality(Owned(c)) = sendDrift + y
      BY <3>1, <2>6
    <3> QED BY <3>2, <2>2
  <2> HIDE DEF x, y
  <2> QED BY <2>7, <2>8, SendsKept DEF Moved, Even
<1>3. CASE SendPass \/ SendOwn \/ Forward \/ CheckServerStatus
  <2>1. Sent' = Sent
    BY <1>3, FramesAssumption
    DEF Sent, IInv, TypeOK, SendPass, SendOwn, Forward, CheckServerStatus, Chains, sending
  <2>2. UNCHANGED <<outstanding_sends, sendDrift>>
    BY <1>3 DEF SendPass, SendOwn, Forward, CheckServerStatus, counts
  <2> QED BY <2>1, <2>2, <1>0, SendsKept DEF Moved, Even
<1>4. CASE \/ FilterPause \/ Paused \/ FilterRestart \/ SendCall \/ SendRefused \/ SendDrop
           \/ ReceiveCall \/ ReceiveRefused \/ ReceiveWalk \/ Indicate \/ ReturnDropped \/ Advertise
           \/ ReceiveCount \/ ReceiveUncount \/ Completed
           \/ (\E c \in Chains(above) : Return(c)) \/ ReturnCount \/ UNCHANGED vars
  <2>1. UNCHANGED <<sendPass, below, outstanding_sends, sendDrift>>
    BY <1>4 DEF FilterPause, Paused, FilterRestart, SendCall, SendRefused, SendDrop, ReceiveCall,
         ReceiveRefused, ReceiveWalk, Indicate, ReturnDropped, Advertise, ReceiveCount,
         ReceiveUncount, Completed, Return, ReturnCount, sending, counts, vars
  <2> QED BY <2>1 DEF SendsLedger
<1> QED BY <1>1, <1>2, <1>3, <1>4 DEF Next, SendSteps, ReceiveSteps

(* outstanding_sends is what it is said to count, whatever the calls and    *)
(* the completions, and however often it wraps: short of the frames dropped *)
(* and the filter's own, every frame counted is counted off.                *)
THEOREM SendsAreCounted == Spec => []SendsLedger
<1>1. Init => SendsLedger
  <2>1. Init => (sendPass \cup below) \cap Up = {} /\ outstanding_sends = 0 /\ sendDrift = 0
    BY DEF Init
  <2>2. Cardinality({}) + 0 = 0 BY FS_EmptySet
  <2>3. Wrap(0) = 0 BY InRange, BoundsAssumption
  <2> QED BY <2>1, <2>2, <2>3 DEF SendsLedger
<1>2. IInv /\ IInv' /\ SendsLedger /\ [Next]_vars => SendsLedger'
  BY SendsStep DEF IInv
<1> QED BY <1>1, <1>2, Invariance, PTL DEF Spec

\* The frames of the layer below that are not home, and what of the call
\* under way has not been counted yet.  A call refused was never counted.
Held == (IF recvPc = "refuse" THEN {} ELSE InReceive) \cup (above \cap Down)
Uncounted == CASE recvPc \in {"idle", "refuse"} -> 0
               [] recvPc = "uncount" -> 0 - recvCount
               [] OTHER -> IF canPend THEN recvCount ELSE 0
Owed == Cardinality(Held) + returned - Uncounted

\* The ledger as an invariant of every step, refused calls included.
HeldLedger == Counts(outstanding_rcvs, Owed, recvDrift)

\* What is owed is a number.
LEMMA OwedIsInt ==
  ASSUME TypeOK
  PROVE  Cardinality(Held) \in Nat /\ Uncounted \in Int /\ Owed \in Int
<1>1. Cardinality(Held) \in Nat BY Counted DEF Held, InReceive, TypeOK
<1>2. Uncounted \in Int BY DEF Uncounted, TypeOK
<1>3. returned \in Int BY DEF TypeOK
<1> QED BY <1>1, <1>2, <1>3 DEF Owed

\* The same of the next state.
LEMMA OwedIsIntNext ==
  ASSUME TypeOK'
  PROVE  Cardinality(Held') \in Nat /\ Uncounted' \in Int /\ Owed' \in Int
<1>1. Cardinality(Held') \in Nat BY Counted DEF Held, InReceive, TypeOK
<1>2. Uncounted' \in Int BY DEF Uncounted, TypeOK
<1>3. returned' \in Int BY DEF TypeOK
<1> QED BY <1>1, <1>2, <1>3 DEF Owed

\* How a step that counts x frames, y of them drifting, keeps the ledger.
LEMMA HeldKept ==
  ASSUME IInv, TypeOK', HeldLedger, NEW x \in Int, NEW y \in Int,
         Moved(outstanding_rcvs, x, outstanding_rcvs'), Moved(recvDrift, y, recvDrift'),
         Even(Owed, x, Owed', y)
  PROVE  HeldLedger'
<1>1. Owed \in Int /\ Owed' \in Int BY OwedIsInt, OwedIsIntNext DEF IInv
<1>2. outstanding_rcvs \in Int /\ recvDrift \in Int BY DEF IInv, TypeOK
<1>3. Counts(outstanding_rcvs', Owed', recvDrift')
  BY <1>1, <1>2, LedgerKept DEF HeldLedger
<1> QED BY <1>3 DEF HeldLedger

\* The receive path.
LEMMA HeldStep ==
  ASSUME IInv, TypeOK', HeldLedger, [Next]_vars
  PROVE  HeldLedger'
<1>0. /\ Moved(outstanding_rcvs, 0, outstanding_rcvs) /\ Moved(recvDrift, 0, recvDrift)
      /\ Cardinality(Held) \in Nat /\ Uncounted \in Int /\ Owed \in Int
      /\ Cardinality(Held') \in Nat /\ Uncounted' \in Int /\ Owed' \in Int
      /\ returned \in Nat /\ recvCount \in Nat
  <2>1. outstanding_rcvs \in 0..(Modulus - 1) /\ recvDrift \in 0..(Modulus - 1) BY DEF IInv, TypeOK
  <2>2. returned \in Nat /\ recvCount \in Nat BY DEF IInv, TypeOK
  <2> QED BY <2>1, <2>2, InRange, OwedIsInt, OwedIsIntNext DEF Moved, IInv
<1>1. CASE ReceiveCall
  <2>1. PICK c \in Chains(homeBelow), pend \in BOOLEAN :
           recvChain' = c /\ canPend' = pend /\ recvCount' = Cardinality(c)
    BY <1>1 DEF ReceiveCall
  <2>2. /\ recvPc = "idle" /\ recvPc' \in {"walk", "refuse"}
        /\ UNCHANGED <<above, recvPass, recvDrop, returned, outstanding_rcvs, recvDrift>>
    BY <1>1 DEF ReceiveCall, counts
  <2>3. /\ recvPass = {} /\ recvDrop = {} /\ recvChain = {}
        /\ c \subseteq homeBelow /\ c \subseteq Down /\ c \cap above = {}
    BY <2>1, <2>2 DEF IInv, TypeOK, Control, ReceivedFramesOnce, Chains
  <2>4. Held = above \cap Down /\ Uncounted = 0
    BY <2>2, <2>3 DEF Held, InReceive, Uncounted
  <2>5. CASE recvPc' = "walk" /\ pend = TRUE
    <3>1. Held' = c \cup Held /\ c \cap Held = {} /\ Uncounted' = Cardinality(c)
      BY <2>1, <2>2, <2>3, <2>4, <2>5 DEF Held, InReceive, Uncounted
    <3>2. c \cup Held \subseteq Up \cup Down \cup Own BY <2>3, <2>4
    <3>3. /\ Cardinality(c) \in Nat
          /\ Cardinality(Held') = Cardinality(c) + Cardinality(Held)
      BY <3>1, <3>2, Parted
    <3>4. Even(Owed, 0, Owed', 0) BY <3>1, <3>3, <2>2, <2>4, <1>0 DEF Owed, Even
    <3> QED BY <3>4, <2>2, <1>0, HeldKept
  <2>6. CASE recvPc' = "refuse" \/ pend = FALSE
    <3>1. Held' = Held /\ Uncounted' = 0
      BY <2>1, <2>2, <2>3, <2>4, <2>6 DEF Held, InReceive, Uncounted
    <3>2. Even(Owed, 0, Owed', 0) BY <3>1, <2>2, <2>4, <1>0 DEF Owed, Even
    <3> QED BY <3>2, <2>2, <1>0, HeldKept
  <2> QED BY <2>2, <2>5, <2>6
<1>2. CASE ReturnDropped
  <2>1. /\ recvPc = "drop" /\ recvPc' = "forward" /\ recvDrop' = {}
        /\ Moved(recvDrift, Cardinality(recvDrop), recvDrift')
        /\ UNCHANGED <<above, recvChain, recvPass, recvCount, canPend, returned, outstanding_rcvs>>
    BY <1>2 DEF ReturnDropped, Moved
  <2>2. Uncounted' = Uncounted BY <2>1 DEF Uncounted
  <2>3. /\ Held' \cup recvDrop = Held /\ Held' \cap recvDrop = {}
        /\ recvDrop \subseteq Down
    BY <2>1 DEF Held, InReceive, IInv, TypeOK, Control, ReceivedFramesOnce
  <2>4. Held' \cup recvDrop \subseteq Up \cup Down \cup Own BY <2>3 DEF Held, InReceive, IInv, TypeOK
  <2>5. /\ Cardinality(recvDrop) \in Nat
        /\ Cardinality(Held) = Cardinality(Held') + Cardinality(recvDrop)
    BY <2>3, <2>4, Parted
  <2>6. Even(Owed, 0, Owed', Cardinality(recvDrop)) BY <2>1, <2>2, <2>5, <1>0 DEF Owed, Even
  <2> QED BY <2>1, <2>5, <2>6, <1>0, HeldKept
<1>3. CASE ReceiveCount
  <2>1. /\ recvPc = "count" /\ recvPc' = (IF canPend THEN "idle" ELSE "uncount")
        /\ recvCount' = IF canPend THEN 0 ELSE recvCount
        /\ Moved(outstanding_rcvs, recvCount, outstanding_rcvs')
        /\ UNCHANGED <<above, recvChain, recvPass, recvDrop, canPend, returned, recvDrift>>
    BY <1>3 DEF ReceiveCount, Moved
  <2>2. Held' = Held BY <2>1 DEF Held, InReceive
  <2>3. Uncounted' = Uncounted - recvCount
    BY <2>1, <1>0 DEF Uncounted, IInv, TypeOK
  <2>4. Even(Owed, recvCount, Owed', 0) BY <2>1, <2>2, <2>3, <1>0 DEF Owed, Even
  <2> QED BY <2>1, <2>4, <1>0, HeldKept
<1>4. CASE ReceiveUncount
  <2> DEFINE x == -recvCount
  <2>1. /\ recvPc = "uncount" /\ recvPc' = "idle"
        /\ outstanding_rcvs' = Wrap(outstanding_rcvs - recvCount)
        /\ UNCHANGED <<above, recvChain, recvPass, recvDrop, canPend, returned, recvDrift>>
    BY <1>4 DEF ReceiveUncount
  <2>2. Held' = Held BY <2>1 DEF Held, InReceive
  <2>3. Uncounted' = 0 /\ Uncounted = x BY <2>1, <1>0 DEF Uncounted
  <2>4. x \in Int /\ outstanding_rcvs - recvCount = outstanding_rcvs + x
    BY <1>0 DEF IInv, TypeOK
  <2>5. Moved(outstanding_rcvs, x, outstanding_rcvs') BY <2>1, <2>4 DEF Moved
  <2>6. Even(Owed, x, Owed', 0) BY <2>1, <2>2, <2>3, <1>0 DEF Owed, Even
  <2> HIDE DEF x
  <2> QED BY <2>1, <2>4, <2>5, <2>6, <1>0, HeldKept
<1>5. CASE \E c \in Chains(above) : Return(c)
  <2>1. PICK c \in Chains(above) : Return(c) BY <1>5
  <2>2. /\ c \subseteq above /\ above' = above \ c
        /\ returned = 0 /\ returned' = Cardinality(c)
        /\ recvDrift' = Wrap(recvDrift - Cardinality(Owned(c)))
        /\ UNCHANGED <<recvPc, recvChain, recvPass, recvDrop, canPend, recvCount, outstanding_rcvs>>
    BY <2>1 DEF Return, Chains, receiving
  <2>3. Held = Held' \cup (c \cap Down) /\ Held' \cap (c \cap Down) = {}
    BY <2>2 DEF Held, InReceive, IInv, TypeOK, ReceivedFramesOnce
  <2>4. c = Owned(c) \cup (c \cap Down) /\ Owned(c) \cap (c \cap Down) = {}
    BY <2>2, FramesAssumption DEF Owned, IInv, TypeOK
  <2>5. /\ Cardinality(c \cap Down) \in Nat
        /\ Cardinality(Held) = Cardinality(Held') + Cardinality(c \cap Down)
    <3>1. Held \subseteq Down BY DEF Held, InReceive, IInv, TypeOK
    <3>2. Held' \cup (c \cap Down) \subseteq Up \cup Down \cup Own BY <2>3, <3>1
    <3> QED BY <3>2, <2>3, Parted
  <2>6. /\ Cardinality(Owned(c)) \in Nat
        /\ Cardinality(c) = Cardinality(Owned(c)) + Cardinality(c \cap Down)
    <3>1. Owned(c) \cup (c \cap Down) \subseteq Up \cup Down \cup Own BY DEF Owned
    <3> QED BY <3>1, <2>4, Parted
  <2>7. Uncounted' = Uncounted BY <2>2 DEF Uncounted
  <2> DEFINE y == -Cardinality(Owned(c))
  <2>8. y \in Int /\ Even(Owed, 0, Owed', y)
    BY <2>2, <2>5, <2>6, <2>7, <1>0 DEF Owed, Even
  <2>9. Moved(recvDrift, y, recvDrift')
    <3>1. recvDrift \in Int BY DEF IInv, TypeOK
    <3>2. recvDrift - Cardinality(Owned(c)) = recvDrift + y BY <3>1, <2>6
    <3> QED BY <3>2, <2>2 DEF Moved
  <2> HIDE DEF y
  <2> QED BY <2>2, <2>8, <2>9, <1>0, HeldKept
<1>6. CASE ReturnCount
  <2> DEFINE x == -returned
  <2>1. /\ outstanding_rcvs' = Wrap(outstanding_rcvs - returned) /\ returned' = 0
        /\ UNCHANGED <<above, recvPc, recvChain, recvPass, recvDrop, canPend, recvCount, recvDrift>>
    BY <1>6 DEF ReturnCount, receiving
  <2>2. Held' = Held /\ Uncounted' = Uncounted BY <2>1 DEF Held, InReceive, Uncounted
  <2>3. x \in Int /\ outstanding_rcvs - returned = outstanding_rcvs + x
    BY <1>0 DEF IInv, TypeOK
  <2>4. Moved(outstanding_rcvs, x, outstanding_rcvs') BY <2>1, <2>3 DEF Moved
  <2>5. Even(Owed, x, Owed', 0) BY <2>1, <2>2, <1>0 DEF Owed, Even
  <2> HIDE DEF x
  <2> QED BY <2>1, <2>3, <2>4, <2>5, <1>0, HeldKept
<1>7. CASE ReceiveRefused \/ ReceiveWalk \/ Indicate \/ Forward \/ Advertise
  <2>1. UNCHANGED <<returned, outstanding_rcvs, recvDrift>>
    BY <1>7 DEF ReceiveRefused, ReceiveWalk, Indicate, Forward, Advertise, counts
  <2>2. Uncounted' = Uncounted
    BY <1>7 DEF ReceiveRefused, ReceiveWalk, Indicate, Forward, Advertise, Uncounted
  <2>3. Held' = Held
    <3> USE DEF Held, InReceive
    <3>1. CASE ReceiveRefused BY <3>1 DEF ReceiveRefused, IInv, Control
    <3>2. CASE ReceiveWalk
      BY <3>2 DEF ReceiveWalk, ReceiveVerdict, Kept, Dropped
    <3>3. CASE Indicate BY <3>3 DEF Indicate, IInv, TypeOK, ReceivedFramesOnce
    <3>4. CASE Forward BY <3>4 DEF Forward
    <3>5. CASE Advertise
      BY <3>5, FramesAssumption DEF Advertise, Indicated, IInv, TypeOK
    <3> QED BY <1>7, <3>1, <3>2, <3>3, <3>4, <3>5
  <2>4. Even(Owed, 0, Owed', 0) BY <2>1, <2>2, <2>3 DEF Owed, Even
  <2> QED BY <2>1, <2>4, <1>0, HeldKept
<1>8. CASE \/ FilterPause \/ Paused \/ FilterRestart \/ SendCall \/ SendSteps
           \/ (\E c \in Chains(below) : Complete(c)) \/ Completed \/ CheckServerStatus
           \/ UNCHANGED vars
  <2>1. UNCHANGED <<recvPc, canPend, recvCount, recvChain, recvPass, recvDrop, above, returned,
                    outstanding_rcvs, recvDrift>>
    BY <1>8 DEF FilterPause, Paused, FilterRestart, SendCall, SendSteps, SendRefused, SendWalk,
         SendDrop, SendPass, SendOwn, Complete, Completed, CheckServerStatus, receiving, counts, vars
  <2>2. Owed' = Owed BY <2>1 DEF Owed, Held, InReceive, Uncounted
  <2> QED BY <2>1, <2>2 DEF HeldLedger
<1> QED BY <1>1, <1>2, <1>3, <1>4, <1>5, <1>6, <1>7, <1>8 DEF Next, ReceiveSteps

(* outstanding_rcvs likewise: a return that is counted before the call that *)
(* indicated its frames, and a call that is counted after them, make it     *)
(* wrap below zero and come back.                                           *)
THEOREM ReceivesAreCounted == Spec => []ReceivesLedger
<1>1. Init => HeldLedger
  <2> SUFFICES ASSUME Init PROVE HeldLedger
    OBVIOUS
  <2>1. Held = {} /\ Uncounted = 0 /\ returned = 0 /\ outstanding_rcvs = 0 /\ recvDrift = 0
    BY DEF Init, Held, InReceive, Uncounted
  <2>2. Cardinality({}) = 0 BY FS_EmptySet
  <2>3. Owed = 0 BY <2>1, <2>2 DEF Owed
  <2>4. Wrap(0) = 0 BY InRange, BoundsAssumption
  <2> QED BY <2>1, <2>3, <2>4 DEF HeldLedger, Counts
<1>2. IInv /\ IInv' /\ HeldLedger /\ [Next]_vars => HeldLedger'
  BY HeldStep DEF IInv
<1>3. IInv /\ HeldLedger => ReceivesLedger
  <2> SUFFICES ASSUME IInv, HeldLedger, recvPc # "refuse"
               PROVE  outstanding_rcvs = Wrap(Cardinality(InReceive \cup (above \cap Down))
                                              + returned + recvDrift - Uncounted)
    BY DEF ReceivesLedger, Uncounted
  <2>1. Held = InReceive \cup (above \cap Down) BY DEF Held
  <2>2. /\ Cardinality(Held) \in Nat /\ Uncounted \in Int
        /\ returned \in Int /\ recvDrift \in Int
    BY OwedIsInt DEF IInv, TypeOK
  <2>3. Owed + recvDrift = Cardinality(Held) + returned + recvDrift - Uncounted
    BY <2>2 DEF Owed
  <2> QED BY <2>1, <2>3 DEF HeldLedger, Counts
<1> QED BY <1>1, <1>2, <1>3, Invariance, PTL DEF Spec
=============================================================================
