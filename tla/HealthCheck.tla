---------------------------- MODULE HealthCheck -----------------------------
(***************************************************************************)
(* How the load balancer finds out whether one back-end server works:      *)
(* CheckServerStatus and ProcessCheckingNBL of driver/filter.c, with the   *)
(* network and the server that answers (FilterReceiveNetBufferLists on the *)
(* server's side).                                                         *)
(*                                                                         *)
(* A tick is one round of FilterWorkThread, one second; what happens       *)
(* between two rounds carries the time of the earlier one, which no        *)
(* comparison of the code (a strict >, evaluated at a tick) can tell       *)
(* apart.  Frames are lost or delayed; duplicates of a frame change        *)
(* nothing that the frame itself does not.                                 *)
(***************************************************************************)
EXTENDS Integers, FiniteSets

CONSTANTS
  Interval,  \* server_check.interval
  Timeout,   \* server_check.timeout
  Retries,   \* server_check.retry_number
  MaxDelay,  \* bound: ticks a frame may spend on the network
  MaxDown,   \* bound: age of timestamp up to which a server stays down; of a deleted one it stops there
  MaxLoss,   \* bound: frames lost between two answers of a working server
  MaxAdd     \* bound: ADD_SERVER calls for the server

ASSUME CheckAssumption == {Interval, Timeout, Retries} \subseteq Nat /\ Timeout > 0
ASSUME BoundAssumption == {MaxDelay, MaxDown, MaxLoss, MaxAdd} \subseteq Nat

VARIABLES
  status,   \* info.status, a set of SS_ flags
  retry,    \* current_retry_number
  age,      \* now - timestamp
  net,      \* frames on their way: [code, delay]
  alive,    \* does the server work?
  losses,   \* frames lost since the last answer
  adds,     \* ADD_SERVER calls so far
  silence,  \* history: ticks since the server was last known to work
  unasked   \* history: ticks an offline server has not been sent a request

serverVars == <<status, retry, age>>
history == <<silence, unasked>>
vars == <<serverVars, net, alive, losses, adds, history>>

Flags == {"ONLINE", "CHECKING", "DELETED"}
Frames == [code : {"REQUEST", "RESPONSE"}, delay : 0..MaxDelay]

TypeOK ==
  /\ status \subseteq Flags
  /\ {retry, age, losses, adds, silence, unasked} \subseteq Nat
  /\ net \subseteq Frames
  /\ alive \in BOOLEAN

Rounds == IF Retries = 0 THEN 1 ELSE Retries
Horizon == Interval + Timeout * Rounds + 2   \* bound: the histories count up to it
Count(h) == IF h < Horizon THEN h + 1 ELSE h

Online == "ONLINE" \in status
Checking == "CHECKING" \in status
Deleted == "DELETED" \in status

(* A new server (AllocServer), with the status its application gave it.     *)
Init ==
  /\ status \in {{}, {"ONLINE"}}
  /\ retry = 0 /\ age = 0
  /\ net = {} /\ alive \in BOOLEAN /\ losses = 0 /\ adds = 0
  /\ silence = 0 /\ unasked = 0

-----------------------------------------------------------------------------
(* Mutant: one time-out too long.                                           *)
TimedOutLate(a) == a > Timeout * (retry + 2)

(* The server has not answered within its time, which grows with the        *)
(* retries: timestamp is that of the first request.                         *)
TimedOut(a) == a > Timeout * (retry + 1)

(* Mutant: one retry too many.                                              *)
GivesUpLate == retry + 1 > Retries

(* This was the last retry of an online server.                             *)
GivesUp == retry + 1 >= Retries

(* Mutant: the retries are counted from -1.                                 *)
FirstRetryBelow == -1

FirstRetry == 0

(* Mutant: an offline server is left alone.                                 *)
AsksOfflineNever(a) == FALSE

AsksOffline(a) == ~Online /\ TimedOut(a)

(* CheckServerStatus on one server at age a of its timestamp: the new       *)
(* status, retry number and age, and whether a request is sent.  A deleted  *)
(* server is not looked at.                                                 *)
Checked(a) ==
  CASE Deleted ->
         [status |-> status, retry |-> retry, age |-> IF a > MaxDown THEN age ELSE a, ask |-> FALSE]
    [] ~Deleted /\ Online /\ Checking /\ TimedOut(a) ->
         [status |-> IF GivesUp THEN status \ {"ONLINE"} ELSE status,
          retry |-> retry + 1, age |-> a, ask |-> TRUE]
    [] ~Deleted /\ Online /\ ~Checking /\ a > Interval ->
         [status |-> status \cup {"CHECKING"}, retry |-> FirstRetry, age |-> 0, ask |-> TRUE]
    [] ~Deleted /\ AsksOffline(a) ->
         [status |-> status, retry |-> retry + 1, age |-> a, ask |-> TRUE]
    [] OTHER -> [status |-> status, retry |-> retry, age |-> a, ask |-> FALSE]

(* A second passes and the work thread makes its round.  The server cannot  *)
(* stay down, nor a frame on the network, beyond the bounds; that of a      *)
(* working server is never reached, or ComesBack would fail.                *)
Tick ==
  LET checked == Checked(age + 1) IN
  /\ ~Deleted => age < IF alive THEN 3 * MaxDown ELSE MaxDown
  /\ \A f \in net : f.delay < MaxDelay
  /\ status' = checked.status /\ retry' = checked.retry /\ age' = checked.age
  /\ net' = {[code |-> f.code, delay |-> f.delay + 1] : f \in net}
            \cup (IF checked.ask THEN {[code |-> "REQUEST", delay |-> 0]} ELSE {})
  /\ silence' = Count(silence)
  /\ unasked' = IF checked.ask \/ Deleted \/ Online THEN 0 ELSE Count(unasked)
  /\ UNCHANGED <<alive, losses, adds>>

(* The server, if it works, answers a request; its answer travels back.     *)
Answer(f) ==
  /\ f \in net /\ f.code = "REQUEST"
  /\ net' = (net \ {f}) \cup (IF alive THEN {[code |-> "RESPONSE", delay |-> f.delay]} ELSE {})
  /\ UNCHANGED <<serverVars, alive, losses, adds, history>>

(* Mutants: the time-stamp, or the check, goes on as if nothing had arrived. *)
ReceiveAnswerUnstamped(f) ==
  /\ f \in net /\ f.code = "RESPONSE"
  /\ net' = net \ {f}
  /\ status' = (status \cup {"ONLINE"}) \ {"CHECKING"}
  /\ losses' = 0
  /\ silence' = 0 /\ unasked' = 0
  /\ UNCHANGED <<age, retry, alive, adds>>
ReceiveAnswerStillChecking(f) ==
  /\ f \in net /\ f.code = "RESPONSE"
  /\ net' = net \ {f}
  /\ age' = 0
  /\ status' = status \cup {"ONLINE"}
  /\ losses' = 0
  /\ silence' = 0 /\ unasked' = 0
  /\ UNCHANGED <<retry, alive, adds>>

(* ProcessCheckingNBL: an answer, however old, brings the server online.    *)
ReceiveAnswer(f) ==
  /\ f \in net /\ f.code = "RESPONSE"
  /\ net' = net \ {f}
  /\ age' = 0
  /\ status' = (status \cup {"ONLINE"}) \ {"CHECKING"}
  /\ losses' = 0
  /\ silence' = 0 /\ unasked' = 0
  /\ UNCHANGED <<retry, alive, adds>>

Lose(f) ==
  /\ f \in net /\ losses < MaxLoss
  /\ net' = net \ {f}
  /\ losses' = losses + 1
  /\ UNCHANGED <<serverVars, alive, adds, history>>

(* The server stops or starts working.                                      *)
Turn(works) ==
  /\ alive = ~works /\ alive' = works
  /\ ~works => age < MaxDown
  /\ UNCHANGED <<serverVars, net, losses, adds, history>>

(* ADD_SERVER on the known server replaces its status and nothing else;     *)
(* DEL_SERVER marks it.                                                     *)
AddServer(st) ==
  /\ adds < MaxAdd
  /\ adds' = adds + 1
  /\ status' = st
  /\ silence' = IF st = {} THEN silence ELSE 0
  /\ unasked' = 0
  /\ UNCHANGED <<retry, age, net, alive, losses>>

DelServer ==
  /\ ~Deleted
  /\ status' = status \cup {"DELETED"}
  /\ unasked' = 0
  /\ UNCHANGED <<retry, age, net, alive, losses, adds, silence>>

Next ==
  \/ Tick
  \/ \E f \in net : Answer(f) \/ ReceiveAnswer(f) \/ Lose(f)
  \/ \E works \in BOOLEAN : Turn(works)
  \/ \E st \in {{}, {"ONLINE"}} : AddServer(st)
  \/ DelServer

Spec == Init /\ [][Next]_vars

(* The work thread makes its rounds for ever, and a frame that is not lost  *)
(* arrives.                                                                 *)
FairSpec ==
  /\ Spec
  /\ WF_vars(Tick)
  /\ \A f \in Frames : WF_vars(Answer(f)) /\ WF_vars(ReceiveAnswer(f))

-----------------------------------------------------------------------------
\* The check takes a server offline only after all its retries, and after the
\* interval before them unless an application has touched the server, without
\* an answer: a late answer at any moment starts the count again.
OfflineOnlyAfterSilence ==
  [][Online /\ ~(Online') /\ adds' = adds
       => silence' > Timeout * Rounds + (IF adds = 0 THEN Interval + 1 ELSE 0)]_vars

\* A server that does not answer is offline at the latest one round after its
\* interval and one after its retries have run out, whatever answers, additions
\* and deletions went before.
DetectedInTime ==
  Online /\ ~Deleted => silence <= Interval + Timeout * Rounds + 1

\* An offline server that no application has touched is asked again at least
\* once per time-out, however often it has not answered.  (An application that
\* sets a server offline makes it wait for the time-outs of its last outage:
\* retry is left as it was.)
AskedInTime == adds = 0 /\ ~Online /\ ~Deleted => unasked <= Timeout

\* A server that works from some time on, is not deleted and not changed by
\* an application any more, is online again and again in spite of lost and
\* delayed frames.
ComesBack ==
  <>[](alive /\ ~Deleted) => []<>Online

-----------------------------------------------------------------------------
(* The inductive strengthening.                                             *)

\* An online server that is not being checked was heard of within the
\* interval.
UpInv ==
  Online /\ ~Checking /\ ~Deleted =>
    /\ silence <= Interval /\ silence <= age
    /\ adds = 0 => silence = age

\* While a server is checked its retries are not used up, its time-stamp is
\* that of the first request, and the interval came before.
CheckInv ==
  Online /\ Checking /\ ~Deleted =>
    /\ retry < Rounds /\ age <= Timeout * (retry + 1)
    /\ silence <= age + Interval + 1
    /\ silence >= age + (IF adds = 0 THEN Interval + 1 ELSE 0)

\* An offline server's retries follow the age of its time-stamp.
DownInv ==
  adds = 0 /\ ~Online /\ ~Deleted =>
    /\ age <= Timeout * (retry + 1)
    /\ unasked + Timeout * retry <= age

\* Together with the types, preserved by each round and each event.
HInv == TypeOK /\ UpInv /\ CheckInv /\ DownInv

=============================================================================
