----------------------------- MODULE FilterPath -----------------------------
(***************************************************************************)
(* The data path of one filter module (driver/filter.c): pause and         *)
(* restart, the send and receive handlers with their chains of             *)
(* NET_BUFFER_LISTs, the completion and return handlers, and the work      *)
(* thread, which sends frames of its own.  A frame is lent from layer to   *)
(* layer and must come home: to the layer above that sent it, to the layer *)
(* below that indicated it, or to the filter's pool it was made from.      *)
(*                                                                         *)
(* Every call is a process: it takes the filter's lock, walks its chain    *)
(* and hands the chains it has built to the other layers one after the     *)
(* other, while the other handlers run.  What ProcessNBL answers to a      *)
(* frame is any code that its direction allows.  The layers above and      *)
(* below are external: they call with frames they have and give back any   *)
(* of the frames lent to them.                                             *)
(***************************************************************************)
EXTENDS Integers, FiniteSets

CONSTANTS Up,        \* frames of the layer above
          Down,      \* frames of the layer below
          Own,       \* frames of the filter's pool (bound: at most so many at once)
          MaxChain,  \* bound: frames in the chain of a call
          Modulus,   \* 2^32: the counters are ULONGs
          None       \* no frame

ASSUME FramesAssumption ==
  /\ IsFiniteSet(Up) /\ IsFiniteSet(Down) /\ IsFiniteSet(Own)
  /\ Up \cap Down = {} /\ Up \cap Own = {} /\ Down \cap Own = {}
  /\ None \notin Own
ASSUME BoundsAssumption == MaxChain \in Nat /\ Modulus \in Nat \ {0}

VARIABLES
  state,                                    \* filter->state
  homeAbove, homeBelow, pool,               \* frames at home
  above, below,                             \* frames indicated to, sent to a layer
  sendPc, sendChain, sendPass, sendDrop, sendOwn,          \* FilterSendNetBufferLists
  recvPc, canPend, recvCount, recvChain, recvPass, recvDrop, forward, advert, advertTail,
                                            \* FilterReceiveNetBufferLists
  completing, returned,                     \* FilterSendNetBufferListsComplete, FilterReturn...
  outstanding_sends, outstanding_rcvs,
  sendDrift, recvDrift                      \* history: frames counted once only

homes == <<homeAbove, homeBelow, pool>>
sending == <<sendPc, sendChain, sendPass, sendDrop, sendOwn>>
receiving == <<recvPc, canPend, recvCount, recvChain, recvPass, recvDrop, forward, advert, advertTail>>
counts == <<outstanding_sends, outstanding_rcvs, sendDrift, recvDrift>>
vars == <<state, homes, above, below, sending, receiving, completing, returned, counts>>

Chains(S) == {c \in SUBSET S : c # {} /\ Cardinality(c) <= MaxChain}
Wrap(n) == n % Modulus

Init ==
  /\ state = "paused"
  /\ homeAbove = Up /\ homeBelow = Down /\ pool = Own
  /\ above = {} /\ below = {}
  /\ sendPc = "idle" /\ sendChain = {} /\ sendPass = {} /\ sendDrop = {} /\ sendOwn = {}
  /\ recvPc = "idle" /\ canPend = TRUE /\ recvCount = 0 /\ recvChain = {} /\ recvPass = {}
  /\ recvDrop = {} /\ forward = {} /\ advert = {} /\ advertTail = None
  /\ completing = {} /\ returned = 0
  /\ outstanding_sends = 0 /\ outstanding_rcvs = 0 /\ sendDrift = 0 /\ recvDrift = 0

-----------------------------------------------------------------------------
(* FilterPause and FilterRestart.  A pause completes at once, whatever is   *)
(* still on its way.                                                        *)

FilterPause ==
  /\ state = "running"
  /\ state' = "pausing"
  /\ UNCHANGED <<homes, above, below, sending, receiving, completing, returned, counts>>

Paused ==
  /\ state = "pausing"
  /\ state' = "paused"
  /\ UNCHANGED <<homes, above, below, sending, receiving, completing, returned, counts>>

FilterRestart ==
  /\ state = "paused"
  /\ state' = "running"
  /\ UNCHANGED <<homes, above, below, sending, receiving, completing, returned, counts>>

-----------------------------------------------------------------------------
(* FilterSendNetBufferLists.                                                *)

SendCall ==
  /\ sendPc = "idle"
  /\ \E c \in Chains(homeAbove) :
       /\ sendChain' = c
       /\ homeAbove' = homeAbove \ c
  /\ sendPc' = IF state = "running" THEN "walk" ELSE "refuse"
  /\ UNCHANGED <<state, homeBelow, pool, above, below, sendPass, sendDrop, sendOwn, receiving,
                 completing, returned, counts>>

(* Not running: the whole chain is completed, NDIS_STATUS_PAUSED.           *)
SendRefused ==
  /\ sendPc = "refuse"
  /\ homeAbove' = homeAbove \cup sendChain
  /\ sendChain' = {}
  /\ sendPc' = "idle"
  /\ UNCHANGED <<state, homeBelow, pool, above, below, sendPass, sendDrop, sendOwn, receiving,
                 completing, returned, counts>>

(* PNRC_PASS, PNRC_MODIFY; PNRC_DROP; PNRC_ICMPV6_NS, which drops the frame *)
(* and sends one of the filter's in its place.                              *)
SendVerdict(n) ==
  \/ /\ sendPass' = sendPass \cup {n}
     /\ UNCHANGED <<sendDrop, sendOwn, pool, sendDrift>>
  \/ /\ sendDrop' = sendDrop \cup {n}
     /\ sendDrift' = Wrap(sendDrift + 1)
     /\ UNCHANGED <<sendPass, sendOwn, pool>>
  \/ /\ sendDrop' = sendDrop \cup {n}
     /\ sendDrift' = Wrap(sendDrift + 1)
     /\ \E o \in pool : sendOwn' = sendOwn \cup {o} /\ pool' = pool \ {o}
     /\ UNCHANGED sendPass

SendWalk ==
  /\ sendPc = "walk"
  /\ \E n \in sendChain :
       /\ SendVerdict(n)
       /\ sendChain' = sendChain \ {n}
       /\ outstanding_sends' = Wrap(outstanding_sends + 1)
  /\ UNCHANGED <<state, homeAbove, homeBelow, above, below, sendPc, receiving, completing, returned,
                 outstanding_rcvs, recvDrift>>

(* Mutant: the list of frames to drop is not emptied.                       *)
SendDropKept ==
  /\ sendPc = "walk" /\ sendChain = {}
  /\ homeAbove' = homeAbove \cup sendDrop
  /\ sendPc' = "pass"
  /\ UNCHANGED <<state, homeBelow, pool, above, below, sendChain, sendPass, sendDrop, sendOwn, receiving,
                 completing, returned, counts>>

(* The frames to drop are completed to the layer above.                     *)
SendDrop ==
  /\ sendPc = "walk" /\ sendChain = {}
  /\ homeAbove' = homeAbove \cup sendDrop
  /\ sendDrop' = {}
  /\ sendPc' = "pass"
  /\ UNCHANGED <<state, homeBelow, pool, above, below, sendChain, sendPass, sendOwn, receiving,
                 completing, returned, counts>>

SendPass ==
  /\ sendPc = "pass"
  /\ below' = below \cup sendPass
  /\ sendPass' = {}
  /\ sendPc' = "own"
  /\ UNCHANGED <<state, homes, above, sendChain, sendDrop, sendOwn, receiving, completing, returned, counts>>

SendOwn ==
  /\ sendPc = "own"
  /\ below' = below \cup sendOwn
  /\ sendOwn' = {}
  /\ sendPc' = "idle"
  /\ UNCHANGED <<state, homes, above, sendChain, sendPass, sendDrop, receiving, completing, returned, counts>>

-----------------------------------------------------------------------------
(* Mutant: the filter's own frames stay in the chain.                       *)
DropNone(c) == c

(* DropOwnerNBL: the filter's own frames leave the chain and are freed.     *)
Owned(c) == c \cap Own
DropOwnerNBL(c) == c \ Own

(* FilterSendNetBufferListsComplete: the layer below has done with a chain. *)

(* Mutant: a chain counts as one frame.                                     *)
CompleteChain(c) ==
  /\ completing = {}
  /\ below' = below \ c
  /\ completing' = c
  /\ outstanding_sends' = Wrap(outstanding_sends - 1)
  /\ sendDrift' = Wrap(sendDrift - Cardinality(Owned(c)))
  /\ UNCHANGED <<state, homes, above, sending, receiving, returned, outstanding_rcvs, recvDrift>>

Complete(c) ==
  /\ completing = {}
  /\ below' = below \ c
  /\ completing' = c
  /\ outstanding_sends' = Wrap(outstanding_sends - Cardinality(c))
  /\ sendDrift' = Wrap(sendDrift - Cardinality(Owned(c)))
  /\ UNCHANGED <<state, homes, above, sending, receiving, returned, outstanding_rcvs, recvDrift>>

(* Mutant: the filter's own frames are not freed.                           *)
CompletedUnfreed ==
  /\ completing # {}
  /\ homeAbove' = homeAbove \cup DropOwnerNBL(completing)
  /\ completing' = {}
  /\ UNCHANGED <<state, homeBelow, pool, above, below, sending, receiving, returned, counts>>

Completed ==
  /\ completing # {}
  /\ pool' = pool \cup Owned(completing)
  /\ homeAbove' = homeAbove \cup DropOwnerNBL(completing)
  /\ completing' = {}
  /\ UNCHANGED <<state, homeBelow, above, below, sending, receiving, returned, counts>>

-----------------------------------------------------------------------------
(* FilterReceiveNetBufferLists.  A chain that cannot pend stays with the    *)
(* layer below: its frames are shown to the layer above one by one and are  *)
(* back when the call that shows them returns.                              *)

ReceiveCall ==
  /\ recvPc = "idle"
  /\ \E c \in Chains(homeBelow), pend \in BOOLEAN :
       /\ recvChain' = c
       /\ canPend' = pend
       /\ recvCount' = Cardinality(c)
       /\ homeBelow' = IF pend THEN homeBelow \ c ELSE homeBelow
  /\ recvPc' = IF state = "running" THEN "walk" ELSE "refuse"
  /\ UNCHANGED <<state, homeAbove, pool, above, below, sending, recvPass, recvDrop, forward, advert,
                 advertTail, completing, returned, counts>>

(* Not running: the chain is returned if it can pend.                       *)
ReceiveRefused ==
  /\ recvPc = "refuse"
  /\ homeBelow' = homeBelow \cup recvChain
  /\ recvChain' = {} /\ recvCount' = 0
  /\ recvPc' = "idle"
  /\ UNCHANGED <<state, homeAbove, pool, above, below, sending, canPend, recvPass, recvDrop, forward,
                 advert, advertTail, completing, returned, counts>>

Kept(n) ==
  /\ recvPass' = IF canPend THEN recvPass \cup {n} ELSE recvPass
  /\ UNCHANGED recvDrop
(* Mutant: a frame that cannot pend is returned too.                        *)
DroppedAlways(n) == recvDrop' = recvDrop \cup {n} /\ UNCHANGED recvPass

Dropped(n) ==
  /\ recvDrop' = IF canPend THEN recvDrop \cup {n} ELSE recvDrop
  /\ UNCHANGED recvPass

(* PNRC_PASS and PNRC_DROP; PNRC_CHECKING_NBL, kept and answered, and       *)
(* PNRC_ROUTER, dropped and sent on, with a frame of the filter's to send;  *)
(* PNRC_ICMPV6_NA, dropped, with one of the filter's to indicate.           *)
ReceiveVerdict(n) ==
  \/ (Kept(n) \/ Dropped(n)) /\ UNCHANGED <<forward, advert, advertTail, pool>>
  \/ /\ Kept(n) \/ Dropped(n)
     /\ \E o \in pool : forward' = forward \cup {o} /\ pool' = pool \ {o}
     /\ UNCHANGED <<advert, advertTail>>
  \/ /\ Dropped(n)
     /\ \E o \in pool : advert' = advert \cup {o} /\ advertTail' = o /\ pool' = pool \ {o}
     /\ UNCHANGED forward

ReceiveWalk ==
  /\ recvPc = "walk"
  /\ \E n \in recvChain : ReceiveVerdict(n) /\ recvChain' = recvChain \ {n}
  /\ UNCHANGED <<state, homeAbove, homeBelow, above, below, sending, recvPc, canPend, recvCount,
                 completing, returned, counts>>

Indicate ==
  /\ recvPc = "walk" /\ recvChain = {}
  /\ above' = above \cup recvPass
  /\ recvPass' = {}
  /\ recvPc' = "drop"
  /\ UNCHANGED <<state, homes, below, sending, canPend, recvCount, recvChain, recvDrop, forward, advert,
                 advertTail, completing, returned, counts>>

ReturnDropped ==
  /\ recvPc = "drop"
  /\ homeBelow' = homeBelow \cup recvDrop
  /\ recvDrift' = Wrap(recvDrift + Cardinality(recvDrop))
  /\ recvDrop' = {}
  /\ recvPc' = "forward"
  /\ UNCHANGED <<state, homeAbove, pool, above, below, sending, canPend, recvCount, recvChain, recvPass,
                 forward, advert, advertTail, completing, returned, outstanding_sends,
                 outstanding_rcvs, sendDrift>>

Forward ==
  /\ recvPc = "forward"
  /\ below' = below \cup forward
  /\ forward' = {}
  /\ recvPc' = "advertise"
  /\ UNCHANGED <<state, homes, above, sending, canPend, recvCount, recvChain, recvPass, recvDrop, advert,
                 advertTail, completing, returned, counts>>

(* recv_nbl_tail is indicated, not recv_nbl_head: of several frames only    *)
(* the last.  Nothing refers to the others from here on.                    *)
Indicated == advert \cap {advertTail}
Advertise ==
  /\ recvPc = "advertise"
  /\ above' = above \cup Indicated
  /\ advert' = {} /\ advertTail' = None
  /\ recvPc' = "count"
  /\ UNCHANGED <<state, homes, below, sending, canPend, recvCount, recvChain, recvPass, recvDrop, forward,
                 completing, returned, counts>>

(* Mutant: the frames of a call that cannot pend stay counted.              *)
ReceiveCountOnly ==
  /\ recvPc = "count"
  /\ outstanding_rcvs' = Wrap(outstanding_rcvs + recvCount)
  /\ recvPc' = "idle" /\ recvCount' = 0
  /\ UNCHANGED <<state, homes, above, below, sending, canPend, recvChain, recvPass, recvDrop, forward,
                 advert, advertTail, completing, returned, outstanding_sends, sendDrift, recvDrift>>

ReceiveCount ==
  /\ recvPc = "count"
  /\ outstanding_rcvs' = Wrap(outstanding_rcvs + recvCount)
  /\ recvPc' = IF canPend THEN "idle" ELSE "uncount"
  /\ recvCount' = IF canPend THEN 0 ELSE recvCount
  /\ UNCHANGED <<state, homes, above, below, sending, canPend, recvChain, recvPass, recvDrop, forward,
                 advert, advertTail, completing, returned, outstanding_sends, sendDrift, recvDrift>>

ReceiveUncount ==
  /\ recvPc = "uncount"
  /\ outstanding_rcvs' = Wrap(outstanding_rcvs - recvCount)
  /\ recvPc' = "idle"
  /\ recvCount' = 0
  /\ UNCHANGED <<state, homes, above, below, sending, canPend, recvChain, recvPass, recvDrop, forward,
                 advert, advertTail, completing, returned, outstanding_sends, sendDrift, recvDrift>>

-----------------------------------------------------------------------------
(* FilterReturnNetBufferLists: the layer above has done with a chain, which *)
(* goes home before it is counted.                                          *)

Return(c) ==
  /\ returned = 0
  /\ above' = above \ c
  /\ pool' = pool \cup Owned(c)
  /\ homeBelow' = homeBelow \cup DropOwnerNBL(c)
  /\ returned' = Cardinality(c)
  /\ recvDrift' = Wrap(recvDrift - Cardinality(Owned(c)))
  /\ UNCHANGED <<state, homeAbove, below, sending, receiving, completing, outstanding_sends,
                 outstanding_rcvs, sendDrift>>

ReturnCount ==
  /\ returned # 0
  /\ outstanding_rcvs' = Wrap(outstanding_rcvs - returned)
  /\ returned' = 0
  /\ UNCHANGED <<state, homes, above, below, sending, receiving, completing, outstanding_sends,
                 sendDrift, recvDrift>>

-----------------------------------------------------------------------------
(* FilterWorkThread, CheckServerStatus: a request to each server that is    *)
(* due, in any state of the filter.                                         *)

(* Mutant: the frames sent go back to the pool at once.                     *)
CheckServerStatusFreed ==
  /\ \E c \in Chains(pool) : below' = below \cup c
  /\ UNCHANGED <<state, homes, above, sending, receiving, completing, returned, counts>>

CheckServerStatus ==
  /\ \E c \in Chains(pool) : below' = below \cup c /\ pool' = pool \ c
  /\ UNCHANGED <<state, homeAbove, homeBelow, above, sending, receiving, completing, returned, counts>>

-----------------------------------------------------------------------------
SendSteps == SendRefused \/ SendWalk \/ SendDrop \/ SendPass \/ SendOwn
ReceiveSteps ==
  \/ ReceiveRefused \/ ReceiveWalk \/ Indicate \/ ReturnDropped \/ Forward \/ Advertise \/ ReceiveCount \/ ReceiveUncount

Next ==
  \/ FilterPause \/ Paused \/ FilterRestart
  \/ SendCall \/ SendSteps
  \/ ReceiveCall \/ ReceiveSteps
  \/ (\E c \in Chains(below) : Complete(c)) \/ Completed
  \/ (\E c \in Chains(above) : Return(c)) \/ ReturnCount
  \/ CheckServerStatus

Spec == Init /\ [][Next]_vars

-----------------------------------------------------------------------------
(* Type invariant.                                                          *)

TypeOK ==
  /\ state \in {"paused", "running", "pausing"}
  /\ sendPc \in {"idle", "refuse", "walk", "pass", "own"}
  /\ recvPc \in {"idle", "refuse", "walk", "drop", "forward", "advertise", "count", "uncount"}
  /\ canPend \in BOOLEAN
  /\ homeAbove \subseteq Up /\ homeBelow \subseteq Down /\ pool \subseteq Own
  /\ above \subseteq Down \cup Own /\ below \subseteq Up \cup Own
  /\ completing \subseteq Up \cup Own
  /\ sendChain \cup sendPass \cup sendDrop \subseteq Up /\ sendOwn \subseteq Own
  /\ recvChain \cup recvPass \cup recvDrop \subseteq Down /\ forward \cup advert \subseteq Own
  /\ advertTail \in advert \cup {None}
  /\ recvCount \in Nat /\ returned \in Nat
  /\ {outstanding_sends, outstanding_rcvs, sendDrift, recvDrift} \subseteq 0..(Modulus - 1)

-----------------------------------------------------------------------------
(* Properties.                                                              *)

InSend == sendChain \cup sendPass \cup sendDrop
InReceive == IF canPend THEN recvChain \cup recvPass \cup recvDrop ELSE {}

(* A frame of the layer above is in one place only and never lost: at home, *)
(* on one list of the send handler, with the layer below, or in the chain   *)
(* being completed.  So it is never completed twice nor passed on after its *)
(* completion (FilterSendNetBufferLists, ...Complete, DropOwnerNBL).        *)
SentFramesOnce ==
  /\ Up = homeAbove \cup InSend \cup (below \cap Up) \cup (completing \cap Up)
  /\ homeAbove \cap (InSend \cup below \cup completing) = {}
  /\ InSend \cap (below \cup completing) = {}
  /\ sendChain \cap (sendPass \cup sendDrop) = {} /\ sendPass \cap sendDrop = {}
  /\ below \cap completing = {}

(* A frame of the layer below, likewise.  One that cannot pend is not taken *)
(* from it, whatever the handler finds in it.                               *)
ReceivedFramesOnce ==
  /\ Down = homeBelow \cup InReceive \cup (above \cap Down)
  /\ homeBelow \cap (InReceive \cup above) = {}
  /\ InReceive \cap above = {}
  /\ recvChain \cap (recvPass \cup recvDrop) = {} /\ recvPass \cap recvDrop = {}
  /\ ~canPend => recvPass = {} /\ recvDrop = {}

(* A frame of the filter's own is freed once, when no list and no layer has *)
(* it (DropOwnerNBL, the lists of both handlers, the work thread's frames). *)
OwnFramesOnce ==
  /\ pool \cap (sendOwn \cup forward \cup advert \cup above \cup below \cup completing) = {}
  /\ sendOwn \cap (forward \cup advert \cup above \cup below \cup completing) = {}
  /\ (forward \cup advert) \cap (above \cup below \cup completing) = {}
  /\ forward \cap advert = {}
  /\ above \cap (below \cup completing) = {} /\ below \cap completing = {}

(* outstanding_sends is the number of frames passed down and not completed, *)
(* but for every frame dropped, counted and never completed to the filter,  *)
(* and every own frame, completed and never counted.                        *)
SendsLedger ==
  outstanding_sends = Wrap(Cardinality((sendPass \cup below) \cap Up) + sendDrift)

(* outstanding_rcvs likewise, a call being counted at its end and a return  *)
(* after its frames have gone home.                                         *)
ReceivesLedger ==
  LET call == CASE recvPc \in {"idle", "refuse"} -> 0
                [] recvPc = "uncount" -> 0 - recvCount
                [] OTHER -> IF canPend THEN recvCount ELSE 0
  IN recvPc # "refuse" =>
       outstanding_rcvs =
         Wrap(Cardinality(InReceive \cup (above \cap Down)) + returned + recvDrift - call)

Lost == Own \ (pool \cup sendOwn \cup forward \cup advert \cup above \cup below \cup completing)

(* Frames of the filter's own get lost in one place only: of several        *)
(* neighbour advertisements of one call all but the last are neither        *)
(* indicated nor freed (recv_nbl_tail where recv_nbl_head is meant).        *)
LostAdvertisements ==
  [][Lost' # Lost => recvPc = "advertise" /\ Lost' = Lost \cup (advert \ {advertTail})]_vars
=============================================================================
