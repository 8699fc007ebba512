------------------------- MODULE HealthCheckProofs --------------------------
(***************************************************************************)
(* Proofs about HealthCheck, for every interval, time-out (not zero) and   *)
(* retry number, and every bound of the environment.                       *)
(***************************************************************************)
EXTENDS HealthCheck, TLAPS

-----------------------------------------------------------------------------
(* Arithmetic of the growing time-out.                                      *)

\* The constants are numbers.
LEMMA Numbers ==
  /\ Interval \in Nat /\ Timeout \in Nat /\ Timeout > 0 /\ Retries \in Nat
  /\ MaxDelay \in Nat /\ MaxAdd \in Nat /\ MaxDown \in Nat /\ MaxLoss \in Nat
  /\ Rounds \in Nat /\ Rounds >= 1 /\ Rounds >= Retries
BY CheckAssumption, BoundAssumption DEF Rounds

\* One more retry is one more time-out.
LEMMA OneMore ==
  ASSUME NEW n \in Nat
  PROVE  /\ Timeout * n \in Nat
         /\ Timeout * (n + 1) = Timeout * n + Timeout
         /\ Timeout * ((n + 1) + 1) = Timeout * (n + 1) + Timeout
         /\ Timeout * (n + 1) \in Nat
BY Numbers

\* More retries take longer.
LEMMA Longer ==
  ASSUME NEW m \in Nat, NEW n \in Nat, m <= n
  PROVE  Timeout * m <= Timeout * n
BY Numbers

\* The histories count one by one up to their horizon.
LEMMA Counting ==
  ASSUME NEW h \in Nat
  PROVE  /\ Horizon \in Nat /\ Horizon = Interval + Timeout * Rounds + 2
         /\ Count(h) \in Nat /\ Count(h) <= h + 1
         /\ h < Horizon => Count(h) = h + 1
BY Numbers, OneMore DEF Horizon, Count

-----------------------------------------------------------------------------
(* CheckServerStatus, case by case.                                         *)

\* What a round of the worker thread does to a server.
LEMMA RoundCases ==
  ASSUME TypeOK, Tick
  PROVE  \/ /\ Deleted /\ UNCHANGED <<status, retry>>
            /\ age' \in {age, age + 1} /\ unasked' = 0
         \/ /\ ~Deleted /\ Online /\ Checking /\ age + 1 > Timeout * (retry + 1)
            /\ status' = IF retry + 1 >= Retries THEN status \ {"ONLINE"} ELSE status
            /\ retry' = retry + 1 /\ age' = age + 1 /\ unasked' = 0
         \/ /\ ~Deleted /\ Online /\ ~Checking /\ age + 1 > Interval
            /\ status' = status \cup {"CHECKING"}
            /\ retry' = 0 /\ age' = 0 /\ unasked' = 0
         \/ /\ ~Deleted /\ ~Online /\ age + 1 > Timeout * (retry + 1)
            /\ UNCHANGED status
            /\ retry' = retry + 1 /\ age' = age + 1 /\ unasked' = 0
         \/ /\ ~Deleted
            /\ Online /\ Checking => age + 1 <= Timeout * (retry + 1)
            /\ Online /\ ~Checking => age + 1 <= Interval
            /\ ~Online => age + 1 <= Timeout * (retry + 1)
            /\ UNCHANGED <<status, retry>> /\ age' = age + 1
            /\ unasked' = IF Online THEN 0 ELSE Count(unasked)
<1> USE DEF Tick
<1>0. age \in Nat /\ retry \in Nat /\ Timeout * (retry + 1) \in Nat /\ Interval \in Nat
  BY Numbers, OneMore DEF TypeOK
<1>1. CASE Deleted
  <2>1. Checked(age + 1) = [status |-> status, retry |-> retry,
          age |-> IF age + 1 > MaxDown THEN age ELSE age + 1, ask |-> FALSE]
    BY <1>1 DEF Checked
  <2> QED BY <2>1, <1>1
<1>2. CASE ~Deleted /\ Online /\ Checking /\ TimedOut(age + 1)
  <2>1. Checked(age + 1) = [status |-> IF GivesUp THEN status \ {"ONLINE"} ELSE status,
          retry |-> retry + 1, age |-> age + 1, ask |-> TRUE]
    BY <1>2 DEF Checked, AsksOffline
  <2>2. /\ status' = IF GivesUp THEN status \ {"ONLINE"} ELSE status
        /\ retry' = retry + 1 /\ age' = age + 1 /\ unasked' = 0
    BY <2>1
  <2>3. GivesUp <=> retry + 1 >= Retries BY DEF GivesUp
  <2>4. age + 1 > Timeout * (retry + 1) BY <1>2 DEF TimedOut
  <2> HIDE DEF Tick
  <2> QED BY <2>2, <2>3, <2>4, <1>2
<1>3. CASE ~Deleted /\ Online /\ ~Checking /\ age + 1 > Interval
  <2>1. Checked(age + 1) = [status |-> status \cup {"CHECKING"}, retry |-> FirstRetry,
          age |-> 0, ask |-> TRUE]
    BY <1>3 DEF Checked, AsksOffline
  <2> QED BY <2>1, <1>3 DEF FirstRetry
<1>4. CASE ~Deleted /\ AsksOffline(age + 1)
  <2>1. Checked(age + 1) = [status |-> status, retry |-> retry + 1, age |-> age + 1,
          ask |-> TRUE]
    BY <1>4 DEF Checked, AsksOffline
  <2> QED BY <2>1, <1>4 DEF AsksOffline, TimedOut
<1>5. CASE /\ ~Deleted
           /\ ~(Online /\ Checking /\ TimedOut(age + 1))
           /\ ~(Online /\ ~Checking /\ age + 1 > Interval)
           /\ ~AsksOffline(age + 1)
  <2>1. Checked(age + 1) = [status |-> status, retry |-> retry, age |-> age + 1,
          ask |-> FALSE]
    BY <1>5 DEF Checked
  <2> QED BY <2>1, <1>0, <1>5 DEF AsksOffline, TimedOut
<1> QED BY <1>1, <1>2, <1>3, <1>4, <1>5

-----------------------------------------------------------------------------
(* The invariant.                                                           *)

\* A new server satisfies it.
LEMMA NewServerIsGood == Init => HInv
<1> SUFFICES ASSUME Init PROVE HInv
  OBVIOUS
<1> USE DEF Init
<1>1. TypeOK BY DEF TypeOK, Flags
<1>2. UpInv /\ CheckInv
  BY Numbers DEF UpInv, CheckInv, Online, Checking
<1>3. DownInv BY Numbers, OneMore DEF DownInv
<1> QED BY <1>1, <1>2, <1>3 DEF HInv

\* A round moves time on by one and does what RoundCases says.
LEMMA TickStep ==
  ASSUME HInv, Tick
  PROVE  HInv'
<1> USE DEF HInv
<1>1. /\ age \in Nat /\ retry \in Nat /\ silence \in Nat /\ unasked \in Nat
      /\ losses \in Nat /\ adds \in Nat /\ status \subseteq Flags
      /\ Timeout * (retry + 1) \in Nat /\ Interval \in Nat /\ Timeout \in Nat
      /\ Timeout > 0 /\ Timeout * retry \in Nat
      /\ Timeout * (retry + 1) = Timeout * retry + Timeout
      /\ Timeout * ((retry + 1) + 1) = Timeout * (retry + 1) + Timeout
      /\ Retries \in Nat /\ Rounds \in Nat /\ Rounds >= 1 /\ Timeout * 0 = 0
      /\ Timeout * (0 + 1) = Timeout
  <2>1. /\ age \in Nat /\ retry \in Nat /\ silence \in Nat /\ unasked \in Nat
        /\ losses \in Nat /\ adds \in Nat /\ status \subseteq Flags
    BY DEF TypeOK
  <2>2. /\ Interval \in Nat /\ Timeout \in Nat /\ Timeout > 0
        /\ Retries \in Nat /\ Rounds \in Nat /\ Rounds >= 1
    BY Numbers
  <2>3. Timeout * 0 = 0 /\ Timeout * (0 + 1) = Timeout BY <2>2
  <2> QED BY <2>1, <2>2, <2>3, OneMore
<1>2. /\ silence' = Count(silence) /\ adds' = adds /\ losses' = losses /\ alive' = alive
      /\ Count(silence) \in Nat /\ Count(silence) <= silence + 1
      /\ Count(unasked) \in Nat /\ Count(unasked) <= unasked + 1
  BY <1>1, Counting DEF Tick
<1>3. Online /\ ~Deleted => silence < Horizon
  <2>1. CASE Checking
    <3>1. Online /\ ~Deleted => Timeout * (retry + 1) <= Timeout * Rounds
      BY <2>1, <1>1, Longer DEF CheckInv
    <3> QED BY <2>1, <3>1, <1>1, Counting, OneMore DEF CheckInv
  <2>2. CASE ~Checking
    BY <2>2, <1>1, Counting, OneMore DEF UpInv
  <2> QED BY <2>1, <2>2
<1>4. Online /\ ~Deleted => silence' = silence + 1
  BY <1>1, <1>2, <1>3, Counting
<1>5. net' \subseteq Frames
  <2>1. net \subseteq Frames /\ \A f \in net : f.delay < MaxDelay /\ MaxDelay \in Nat
    BY Numbers DEF TypeOK, Tick
  <2>2. \A f \in net : [code |-> f.code, delay |-> f.delay + 1] \in Frames
    BY <2>1 DEF Frames
  <2>3. [code |-> "REQUEST", delay |-> 0] \in Frames
    BY Numbers DEF Frames
  <2> QED BY <2>2, <2>3 DEF Tick
<1>6. CASE Deleted /\ UNCHANGED <<status, retry>> /\ age' \in {age, age + 1} /\ unasked' = 0
  <2>1. TypeOK' BY <1>6, <1>1, <1>2, <1>5 DEF TypeOK
  <2> QED BY <2>1, <1>6 DEF UpInv, CheckInv, DownInv, Deleted
<1>7. CASE /\ ~Deleted /\ Online /\ Checking /\ age + 1 > Timeout * (retry + 1)
           /\ status' = IF retry + 1 >= Retries THEN status \ {"ONLINE"} ELSE status
           /\ retry' = retry + 1 /\ age' = age + 1 /\ unasked' = 0
  <2>1. TypeOK' BY <1>7, <1>1, <1>2, <1>5 DEF TypeOK
  <2>2. age' = Timeout * (retry + 1) + 1 /\ silence' = silence + 1
    BY <1>1, <1>4, <1>7 DEF CheckInv
  <2>3. Checking' BY <1>7 DEF Checking
  <2>4. CheckInv'
    <3>1. CASE retry + 1 >= Retries
      BY <3>1, <1>7 DEF CheckInv, Online
    <3>2. CASE ~(retry + 1 >= Retries)
      <4>1. retry' < Rounds BY <3>2, <1>1, <1>7 DEF Rounds
      <4>2. age' <= Timeout * (retry' + 1) BY <2>2, <1>1, <1>7
      <4> QED BY <4>1, <4>2, <2>2, <1>1, <1>2, <1>7 DEF CheckInv
    <3> QED BY <3>1, <3>2
  <2>5. DownInv'
    <3>1. age' <= Timeout * (retry' + 1) /\ 0 + Timeout * retry' <= age'
      BY <2>2, <1>1, <1>7
    <3> QED BY <3>1, <1>7 DEF DownInv
  <2> QED BY <2>1, <2>3, <2>4, <2>5 DEF UpInv
<1>8. CASE /\ ~Deleted /\ Online /\ ~Checking /\ age + 1 > Interval
           /\ status' = status \cup {"CHECKING"}
           /\ retry' = 0 /\ age' = 0 /\ unasked' = 0
  <2>1. TypeOK' BY <1>8, <1>1, <1>2, <1>5 DEF TypeOK, Flags
  <2>2. Checking' /\ Online' BY <1>8 DEF Checking, Online
  <2>3. CheckInv'
    <3>1. silence' <= Interval + 1 /\ silence' >= IF adds = 0 THEN Interval + 1 ELSE 0
      BY <1>1, <1>4, <1>8 DEF UpInv
    <3> QED BY <3>1, <1>1, <1>2, <1>8 DEF CheckInv
  <2> QED BY <2>1, <2>2, <2>3 DEF UpInv, DownInv
<1>9. CASE /\ ~Deleted /\ ~Online /\ age + 1 > Timeout * (retry + 1)
           /\ UNCHANGED status
           /\ retry' = retry + 1 /\ age' = age + 1 /\ unasked' = 0
  <2>1. TypeOK' BY <1>9, <1>1, <1>2, <1>5 DEF TypeOK
  <2>2. ~Online' BY <1>9 DEF Online
  <2>3. DownInv'
    <3>1. adds = 0 => age' = Timeout * (retry + 1) + 1
      BY <1>1, <1>9 DEF DownInv
    <3>2. adds = 0 => age' <= Timeout * (retry' + 1) /\ 0 + Timeout * retry' <= age'
      BY <3>1, <1>1, <1>9
    <3> QED BY <3>2, <1>2, <1>9 DEF DownInv
  <2> QED BY <2>1, <2>2, <2>3 DEF UpInv, CheckInv
<1>10. CASE /\ ~Deleted
            /\ Online /\ Checking => age + 1 <= Timeout * (retry + 1)
            /\ Online /\ ~Checking => age + 1 <= Interval
            /\ ~Online => age + 1 <= Timeout * (retry + 1)
            /\ UNCHANGED <<status, retry>> /\ age' = age + 1
            /\ unasked' = IF Online THEN 0 ELSE Count(unasked)
  <2>1. TypeOK' BY <1>10, <1>1, <1>2, <1>5 DEF TypeOK
  <2>2. (Online' <=> Online) /\ (Checking' <=> Checking) /\ (Deleted' <=> Deleted)
    BY <1>10 DEF Online, Checking, Deleted
  <2>3. UpInv' BY <2>2, <1>1, <1>2, <1>4, <1>10 DEF UpInv
  <2>4. CheckInv' BY <2>2, <1>1, <1>2, <1>4, <1>10 DEF CheckInv
  <2>5. DownInv' BY <2>2, <1>1, <1>2, <1>10 DEF DownInv
  <2> QED BY <2>1, <2>3, <2>4, <2>5
<1> QED BY <1>6, <1>7, <1>8, <1>9, <1>10, RoundCases

\* An answer at any time starts a new interval.
LEMMA ReceiveStep ==
  ASSUME HInv, NEW f, ReceiveAnswer(f)
  PROVE  HInv'
<1> USE DEF HInv
<1>1. /\ net' \subseteq net /\ age' = 0 /\ losses' = 0 /\ silence' = 0 /\ unasked' = 0
      /\ status' = (status \cup {"ONLINE"}) \ {"CHECKING"}
      /\ UNCHANGED <<retry, alive, adds>>
  BY DEF ReceiveAnswer
<1>2. TypeOK' BY <1>1 DEF TypeOK, Flags
<1>3. Online' /\ ~Checking' BY <1>1 DEF Online, Checking
<1>4. UpInv' BY <1>1, Numbers DEF UpInv
<1> QED BY <1>2, <1>3, <1>4 DEF CheckInv, DownInv

\* The events that touch neither status nor times.
LEMMA NetworkStep ==
  ASSUME HInv, UNCHANGED <<serverVars, adds, history>>,
         net' \subseteq Frames, alive' \in BOOLEAN, losses' \in Nat
  PROVE  HInv'
BY DEF HInv, TypeOK, UpInv, CheckInv, DownInv, Online, Checking, Deleted, serverVars, history

\* ADD_SERVER and DEL_SERVER.
LEMMA IoctlStep ==
  ASSUME HInv, (\E st \in {{}, {"ONLINE"}} : AddServer(st)) \/ DelServer
  PROVE  HInv'
<1> USE DEF HInv
<1>1. ASSUME NEW st \in {{}, {"ONLINE"}}, AddServer(st) PROVE HInv'
  <2>1. /\ adds' = adds + 1 /\ status' = st /\ unasked' = 0
        /\ silence' = IF st = {} THEN silence ELSE 0
        /\ UNCHANGED <<retry, age, net, alive, losses>>
    BY <1>1 DEF AddServer
  <2>2. TypeOK' BY <2>1 DEF TypeOK, Flags
  <2>3. ~Checking' /\ adds' # 0 BY <2>1 DEF Checking, TypeOK
  <2>4. UpInv'
    BY <2>1, <2>3, Numbers DEF UpInv, Online, TypeOK
  <2> QED BY <2>2, <2>3, <2>4 DEF CheckInv, DownInv
<1>2. CASE DelServer
  <2>1. TypeOK' BY <1>2 DEF DelServer, TypeOK, Flags
  <2>2. Deleted' BY <1>2 DEF DelServer, Deleted
  <2> QED BY <2>1, <2>2 DEF UpInv, CheckInv, DownInv
<1> QED BY <1>1, <1>2

\* Every step preserves the invariant.
THEOREM HealthInductive == HInv /\ [Next]_vars => HInv'
<1> SUFFICES ASSUME HInv, [Next]_vars PROVE HInv'
  OBVIOUS
<1>1. CASE Tick BY <1>1, TickStep
<1>2. ASSUME NEW f \in net, Answer(f) PROVE HInv'
  <2>1. f \in Frames /\ net \subseteq Frames BY DEF HInv, TypeOK
  <2>2. [code |-> "RESPONSE", delay |-> f.delay] \in Frames BY <2>1 DEF Frames
  <2>3. net' \subseteq Frames BY <1>2, <2>1, <2>2 DEF Answer
  <2> QED BY <1>2, <2>3, NetworkStep DEF Answer, HInv, TypeOK
<1>3. ASSUME NEW f \in net, ReceiveAnswer(f) PROVE HInv'
  BY <1>3, ReceiveStep
<1>4. ASSUME NEW f \in net, Lose(f) PROVE HInv'
  BY <1>4, NetworkStep DEF Lose, HInv, TypeOK
<1>5. ASSUME NEW works \in BOOLEAN, Turn(works) PROVE HInv'
  BY <1>5, NetworkStep DEF Turn, HInv, TypeOK
<1>6. CASE (\E st \in {{}, {"ONLINE"}} : AddServer(st)) \/ DelServer
  BY <1>6, IoctlStep
<1>7. CASE UNCHANGED vars
  BY <1>7, NetworkStep DEF vars, serverVars, history, HInv, TypeOK
<1> QED BY <1>1, <1>2, <1>3, <1>4, <1>5, <1>6, <1>7 DEF Next

\* The invariant holds for every interval, time-out and retry number.
THEOREM HealthInvariant == Spec => []HInv
BY NewServerIsGood, HealthInductive, PTL DEF Spec

\* The types of the check's state, and the frames' delays, keep.
THEOREM HealthTypes == Spec => []TypeOK
<1>1. HInv => TypeOK BY DEF HInv
<1> QED BY <1>1, HealthInvariant, PTL

\* CheckServerStatus takes a silent server offline within its interval and all
\* its time-outs.
THEOREM SilenceIsDetected == Spec => []DetectedInTime
<1>1. HInv => DetectedInTime
  <2> SUFFICES ASSUME HInv, Online, ~Deleted
               PROVE  silence <= Interval + Timeout * Rounds + 1
    BY DEF DetectedInTime
  <2> USE DEF HInv
  <2>1. CASE Checking
    <3>1. retry + 1 <= Rounds /\ retry \in Nat /\ retry + 1 \in Nat /\ Rounds \in Nat
      BY <2>1, Numbers DEF CheckInv, TypeOK
    <3>2. Timeout * (retry + 1) <= Timeout * Rounds BY <3>1, Longer
    <3> QED BY <2>1, <3>1, <3>2, Numbers, OneMore DEF CheckInv, TypeOK
  <2>2. CASE ~Checking
    BY <2>2, Numbers, OneMore DEF UpInv, TypeOK
  <2> QED BY <2>1, <2>2
<1> QED BY <1>1, HealthInvariant, PTL

\* An offline server keeps being asked.
THEOREM OfflineIsAsked == Spec => []AskedInTime
<1>1. HInv => AskedInTime
  <2> SUFFICES ASSUME HInv, adds = 0, ~Online, ~Deleted PROVE unasked <= Timeout
    BY DEF AskedInTime
  <2>1. /\ retry \in Nat /\ age \in Nat /\ unasked \in Nat
        /\ age <= Timeout * (retry + 1) /\ unasked + Timeout * retry <= age
    BY DEF HInv, TypeOK, DownInv
  <2> QED BY <2>1, OneMore, Numbers
<1> QED BY <1>1, HealthInvariant, PTL

\* CheckServerStatus takes no server offline before its time.
THEOREM NotOfflineEarly == Spec => OfflineOnlyAfterSilence
<1>1. ASSUME HInv, [Next]_vars
      PROVE  [Online /\ ~(Online') /\ adds' = adds
                => silence' > Timeout * Rounds + (IF adds = 0 THEN Interval + 1 ELSE 0)]_vars
  <2> SUFFICES ASSUME Next, Online, ~(Online'), adds' = adds
               PROVE  silence' > Timeout * Rounds + (IF adds = 0 THEN Interval + 1 ELSE 0)
    BY <1>1
  <2> USE <1>1 DEF HInv
  <2>1. CASE Tick
    <3>0. adds \in Nat /\ age \in Nat /\ retry \in Nat /\ silence \in Nat BY DEF TypeOK
    <3>1. /\ ~Deleted /\ Checking /\ age + 1 > Timeout * (retry + 1)
          /\ retry + 1 >= Retries
      BY <2>1, RoundCases DEF Online
    <3>2. Rounds = retry + 1
      BY <3>0, <3>1, Numbers DEF CheckInv, Rounds
    <3>3. silence <= Timeout * Rounds + Interval + 1
      BY <3>0, <3>1, <3>2, Numbers, OneMore DEF CheckInv
    <3>4. silence' = silence + 1
      BY <3>0, <3>3, <2>1, Counting, Numbers, OneMore DEF Tick
    <3> QED BY <3>0, <3>1, <3>2, <3>4, Numbers, OneMore DEF CheckInv
  <2>2. CASE ~Tick
    BY <2>2 DEF Next, Answer, ReceiveAnswer, Lose, Turn, AddServer, DelServer, Online,
                serverVars, TypeOK
  <2> QED BY <2>1, <2>2
<1> QED BY <1>1, HealthInvariant, PTL DEF Spec, OfflineOnlyAfterSilence

=============================================================================
