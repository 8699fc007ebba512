------------------------------ MODULE LcxlList ------------------------------
(***************************************************************************)
(* The "LCXL list" of the driver (common/driver/lcxl_lock_list.h) and the  *)
(* reference-counted entries built on it (common/driver/ref_lock_list.h).  *)
(*                                                                         *)
(* LockLcxlList is not a mutual-exclusion lock: any number of callers may  *)
(* be between LockLcxlList and UnlockLcxlList at once, walking the links   *)
(* without the spin lock.  In that time an addition or a removal is only   *)
(* queued; the caller that brings lock_count back to 0 applies the queues, *)
(* under the spin lock, one entry per iteration.  RemoveEntryfromLcxlList  *)
(* ends in del_func, which frees the entry.                                *)
(*                                                                         *)
(* A caller is one Lock..Unlock bracket in progress: a thread that nests   *)
(* brackets (SelectBestServer around FindAvaliableServerFormCurrentServer) *)
(* is two callers.  Callers use the list as the driver's code does: they   *)
(* walk it, take a reference on an entry they stand on unless it is marked *)
(* deleted, keep references after unlocking, and give them back; the       *)
(* reference an entry is born with is given back once, by the caller that  *)
(* marks the entry deleted.                                                *)
(***************************************************************************)
EXTENDS Integers, Sequences, FiniteSets, LcxlListOps

CONSTANTS Caller,     \* the Lock..Unlock brackets that may be in progress
          Entry,      \* the entries that may ever be allocated
          LockMod,    \* lock_count is a BOOLEAN, an 8-bit counter: 256
          NoCaller,   \* "the spin lock is free"
          NoEntry     \* "not standing on an entry"

\* An 8-bit counter is exact as long as fewer brackets than its range can be
\* in progress at once.
ASSUME CallerAssumption == IsFiniteSet(Caller) /\ NoCaller \notin Caller
ASSUME EntryAssumption  == NoEntry \notin Entry
ASSUME WidthAssumption  == LockMod \in Nat /\ Cardinality(Caller) < LockMod

VARIABLES
  list,            \* LCXL_LIST.list, in link order
  list_count,      \* LCXL_LIST.list_count
  to_be_add_list,  \* queued additions, oldest first
  to_be_del_list,  \* queued removals, oldest first
  lock_count,      \* LCXL_LIST.lock_count
  lock,            \* holder of the spin lock, when held across steps
  ref_count,       \* REF_LIST_ENTRY.ref_count
  deleted,         \* the entry is marked deleted: its first reference is gone
  memory,          \* "unused", "live" or "freed": the entry's allocation
  held,            \* callers inside a Lock..Unlock bracket
  cursor,          \* the entry each caller's Link points to
  refs,            \* the references each caller has taken and not given back
  pc,              \* where a caller is inside a function of the header
  arg              \* the entry DecRefListEntry has found at zero

listVars == <<list, list_count, to_be_add_list, to_be_del_list, lock_count>>
entryVars == <<ref_count, deleted, memory>>
callerVars == <<held, cursor, refs, pc, arg>>
vars == <<listVars, lock, entryVars, callerVars>>

TypeOK ==
  /\ list \in Seq(Entry) /\ list_count \in Int
  /\ to_be_add_list \in Seq(Entry) /\ to_be_del_list \in Seq(Entry)
  /\ lock_count \in 0..(LockMod - 1)
  /\ lock \in Caller \cup {NoCaller}
  /\ ref_count \in [Entry -> Int]
  /\ deleted \in [Entry -> BOOLEAN]
  /\ memory \in [Entry -> {"unused", "live", "freed"}]
  /\ held \in SUBSET Caller
  /\ cursor \in [Caller -> Entry \cup {NoEntry}]
  /\ refs \in [Caller -> SUBSET Entry]
  /\ pc \in [Caller -> {"idle", "remove", "apply"}]
  /\ arg \in [Caller -> Entry \cup {NoEntry}]

-----------------------------------------------------------------------------
(* RemoveEntryList: unlink the entry, the others keep their order.          *)
Position(s, e) == CHOOSE i \in 1..Len(s) : s[i] = e
Unlink(s, e) ==
  [i \in 1..(Len(s) - 1) |-> IF i < Position(s, e) THEN s[i] ELSE s[i + 1]]

(* Link->Flink as a caller reads it: the first entry from the head, the     *)
(* next one from an entry, back to the head (NoEntry) from the last.        *)
Flink(s, e) ==
  IF e = NoEntry THEN IF s = <<>> THEN NoEntry ELSE s[1]
  ELSE LET i == Position(s, e) IN IF i = Len(s) THEN NoEntry ELSE s[i + 1]

(* InitLcxlList *)
Init ==
  /\ list = <<>> /\ list_count = 0
  /\ to_be_add_list = <<>> /\ to_be_del_list = <<>>
  /\ lock_count = 0 /\ lock = NoCaller
  /\ ref_count = [e \in Entry |-> 0]
  /\ deleted = [e \in Entry |-> FALSE]
  /\ memory = [e \in Entry |-> "unused"]
  /\ held = {}
  /\ cursor = [c \in Caller |-> NoEntry]
  /\ refs = [c \in Caller |-> {}]
  /\ pc = [c \in Caller |-> "idle"]
  /\ arg = [c \in Caller |-> NoEntry]

(* The caller runs its own code and the spin lock is free to be taken.      *)
CanEnter(c) == pc[c] = "idle" /\ lock = NoCaller

LockLcxlList(c) ==
  /\ CanEnter(c) /\ c \notin held
  /\ lock_count' = (lock_count + 1) % LockMod
  /\ held' = held \cup {c}
  /\ UNCHANGED <<list, list_count, to_be_add_list, to_be_del_list, lock,
                 entryVars, cursor, refs, pc, arg>>

(* Mutant: the addition is linked although a bracket is open.               *)
AddEntryAtOnce(c, e) ==
  /\ CanEnter(c)
  /\ memory[e] = "unused"
  /\ memory' = [memory EXCEPT ![e] = "live"]
  /\ ref_count' = [ref_count EXCEPT ![e] = 1]
  /\ list_count' = list_count + 1
  /\ list' = Append(list, e)
  /\ UNCHANGED <<to_be_add_list, to_be_del_list, lock_count, lock, deleted, callerVars>>

(* Mutant: the entry is born without a reference.                           *)
AddEntryUnreferenced(c, e) ==
  /\ CanEnter(c)
  /\ memory[e] = "unused"
  /\ memory' = [memory EXCEPT ![e] = "live"]
  /\ \/ /\ lock_count > 0
        /\ to_be_add_list' = Append(to_be_add_list, e)
        /\ UNCHANGED <<list, list_count>>
     \/ /\ lock_count = 0
        /\ list_count' = list_count + 1
        /\ list' = Append(list, e)
        /\ UNCHANGED to_be_add_list
  /\ UNCHANGED <<ref_count, to_be_del_list, lock_count, lock, deleted, callerVars>>

(* An entry is allocated with one reference (AllocServer) and handed to the *)
(* list: linked now, or queued while any bracket is open.                   *)
AddEntrytoLcxlList(c, e) ==
  /\ CanEnter(c)
  /\ memory[e] = "unused"
  /\ memory' = [memory EXCEPT ![e] = "live"]
  /\ ref_count' = [ref_count EXCEPT ![e] = 1]
  /\ \/ /\ lock_count > 0
        /\ to_be_add_list' = Append(to_be_add_list, e)
        /\ UNCHANGED <<list, list_count>>
     \/ /\ lock_count = 0
        /\ list_count' = list_count + 1
        /\ list' = Append(list, e)
        /\ UNCHANGED to_be_add_list
  /\ UNCHANGED <<to_be_del_list, lock_count, lock, deleted, callerVars>>

(* A caller inside its bracket moves along the links, without a lock.       *)
FollowLink(c) ==
  /\ pc[c] = "idle" /\ c \in held
  /\ cursor' = [cursor EXCEPT ![c] = Flink(list, cursor[c])]
  /\ UNCHANGED <<listVars, lock, entryVars, held, refs, pc, arg>>

(* Mutant: a reference is taken on an entry marked deleted.                 *)
IncRefDeleted(c) ==
  LET e == cursor[c] IN
  /\ pc[c] = "idle" /\ c \in held /\ e # NoEntry
  /\ e \notin refs[c]
  /\ ref_count' = [ref_count EXCEPT ![e] = @ + 1]
  /\ refs' = [refs EXCEPT ![c] = @ \cup {e}]
  /\ UNCHANGED <<listVars, lock, deleted, memory, held, cursor, pc, arg>>

(* Take a reference on the entry found, under the entry's own lock and only *)
(* when it is not marked deleted.                                           *)
IncRefListEntry(c) ==
  LET e == cursor[c] IN
  /\ pc[c] = "idle" /\ c \in held /\ e # NoEntry
  /\ ~deleted[e] /\ e \notin refs[c]
  /\ ref_count' = [ref_count EXCEPT ![e] = @ + 1]
  /\ refs' = [refs EXCEPT ![c] = @ \cup {e}]
  /\ UNCHANGED <<listVars, lock, deleted, memory, held, cursor, pc, arg>>

(* Mutant: the entry is removed only below zero.                            *)
DecRefBelowZero(c, e) ==
  /\ ref_count' = [ref_count EXCEPT ![e] = @ - 1]
  /\ IF ref_count[e] - 1 < 0
     THEN /\ pc' = [pc EXCEPT ![c] = "remove"]
          /\ arg' = [arg EXCEPT ![c] = e]
     ELSE UNCHANGED <<pc, arg>>

(* InterlockedDecrement; at zero (the code tests <= 0) the caller goes on   *)
(* to RemoveEntryfromLcxlList.                                              *)
DecRefListEntry(c, e) ==
  /\ ref_count' = [ref_count EXCEPT ![e] = @ - 1]
  /\ IF ref_count[e] - 1 <= 0
     THEN /\ pc' = [pc EXCEPT ![c] = "remove"]
          /\ arg' = [arg EXCEPT ![c] = e]
     ELSE UNCHANGED <<pc, arg>>

(* A reference taken earlier is given back, inside a bracket or after it.   *)
GiveBack(c, e) ==
  /\ pc[c] = "idle" /\ e \in refs[c]
  /\ refs' = [refs EXCEPT ![c] = @ \ {e}]
  /\ DecRefListEntry(c, e)
  /\ UNCHANGED <<listVars, lock, deleted, memory, held, cursor>>

(* Mutant: an entry may be marked deleted twice.                            *)
MarkDeletedTwice(c) ==
  LET e == cursor[c] IN
  /\ pc[c] = "idle" /\ c \in held /\ e # NoEntry
  /\ deleted' = [deleted EXCEPT ![e] = TRUE]
  /\ DecRefListEntry(c, e)
  /\ UNCHANGED <<listVars, lock, memory, held, cursor, refs>>

(* The entry found is marked deleted, once, and its first reference given   *)
(* back (IOCTL_ROUTER_DEL_SERVER).                                          *)
MarkDeleted(c) ==
  LET e == cursor[c] IN
  /\ pc[c] = "idle" /\ c \in held /\ e # NoEntry
  /\ ~deleted[e]
  /\ deleted' = [deleted EXCEPT ![e] = TRUE]
  /\ DecRefListEntry(c, e)
  /\ UNCHANGED <<listVars, lock, memory, held, cursor, refs>>

RemoveEntryfromLcxlList(c) ==
  LET e == arg[c] IN
  /\ pc[c] = "remove" /\ lock = NoCaller
  /\ \/ /\ lock_count > 0
        /\ to_be_del_list' = Append(to_be_del_list, e)
        /\ UNCHANGED <<list, list_count, memory>>
     \/ /\ lock_count = 0
        /\ list_count' = list_count - 1
        /\ list' = Unlink(list, e)
        /\ memory' = [memory EXCEPT ![e] = "freed"]
        /\ UNCHANGED to_be_del_list
  /\ pc' = [pc EXCEPT ![c] = "idle"]
  /\ arg' = [arg EXCEPT ![c] = NoEntry]
  /\ UNCHANGED <<to_be_add_list, lock_count, lock, ref_count, deleted,
                 held, cursor, refs>>

(* UnlockLcxlList: the decrement; the last one out keeps the spin lock and  *)
(* applies the queues.                                                      *)
UnlockLcxlList(c) ==
  /\ CanEnter(c) /\ c \in held
  /\ lock_count' = (lock_count - 1) % LockMod
  /\ held' = held \ {c}
  /\ cursor' = [cursor EXCEPT ![c] = NoEntry]
  /\ IF lock_count' = 0
     THEN lock' = c /\ pc' = [pc EXCEPT ![c] = "apply"]
     ELSE UNCHANGED <<lock, pc>>
  /\ UNCHANGED <<list, list_count, to_be_add_list, to_be_del_list,
                 entryVars, refs, arg>>

(* One iteration of the first loop: every queued removal comes first.       *)
ApplyDelete(c) ==
  /\ pc[c] = "apply" /\ to_be_del_list # <<>>
  /\ LET e == Head(to_be_del_list) IN
     /\ list' = Unlink(list, e)
     /\ memory' = [memory EXCEPT ![e] = "freed"]
  /\ list_count' = list_count - 1
  /\ to_be_del_list' = Tail(to_be_del_list)
  /\ UNCHANGED <<to_be_add_list, lock_count, lock, ref_count, deleted,
                 callerVars>>

(* Mutants: list_count is forgotten; the entry goes to the head.            *)
ApplyAddUncounted(c) ==
  /\ pc[c] = "apply" /\ to_be_del_list = <<>> /\ to_be_add_list # <<>>
  /\ list' = Append(list, Head(to_be_add_list))
  /\ to_be_add_list' = Tail(to_be_add_list)
  /\ UNCHANGED <<list_count, to_be_del_list, lock_count, lock, entryVars, callerVars>>
ApplyAddAtHead(c) ==
  /\ pc[c] = "apply" /\ to_be_del_list = <<>> /\ to_be_add_list # <<>>
  /\ list' = <<Head(to_be_add_list)>> \o list
  /\ list_count' = list_count + 1
  /\ to_be_add_list' = Tail(to_be_add_list)
  /\ UNCHANGED <<to_be_del_list, lock_count, lock, entryVars, callerVars>>

(* One iteration of the second loop.                                        *)
ApplyAdd(c) ==
  /\ pc[c] = "apply" /\ to_be_del_list = <<>> /\ to_be_add_list # <<>>
  /\ list' = Append(list, Head(to_be_add_list))
  /\ list_count' = list_count + 1
  /\ to_be_add_list' = Tail(to_be_add_list)
  /\ UNCHANGED <<to_be_del_list, lock_count, lock, entryVars, callerVars>>

(* Mutant: the spin lock is released after the first loop.                  *)
FinishUnlockEarly(c) ==
  /\ pc[c] = "apply" /\ to_be_del_list = <<>>
  /\ lock' = NoCaller
  /\ pc' = [pc EXCEPT ![c] = "idle"]
  /\ UNCHANGED <<listVars, entryVars, held, cursor, refs, arg>>

(* Both queues are empty: the spin lock is released.                        *)
FinishUnlock(c) ==
  /\ pc[c] = "apply" /\ to_be_del_list = <<>> /\ to_be_add_list = <<>>
  /\ lock' = NoCaller
  /\ pc' = [pc EXCEPT ![c] = "idle"]
  /\ UNCHANGED <<listVars, entryVars, held, cursor, refs, arg>>

Next ==
  \E c \in Caller :
    \/ LockLcxlList(c)
    \/ \E e \in Entry : AddEntrytoLcxlList(c, e)
    \/ FollowLink(c)
    \/ IncRefListEntry(c)
    \/ \E e \in Entry : GiveBack(c, e)
    \/ MarkDeleted(c)
    \/ RemoveEntryfromLcxlList(c)
    \/ UnlockLcxlList(c)
    \/ ApplyDelete(c)
    \/ ApplyAdd(c)
    \/ FinishUnlock(c)

Spec == Init /\ [][Next]_vars

(* A caller inside a function of the header finishes it: the functions do   *)
(* not wait for anything but the spin lock, a queued (first come, first     *)
(* served) lock, which is never held across a wait.                         *)
Finishes(c) ==
  RemoveEntryfromLcxlList(c) \/ ApplyDelete(c) \/ ApplyAdd(c) \/ FinishUnlock(c)

FairSpec == Spec /\ \A c \in Caller : SF_vars(Finishes(c))

-----------------------------------------------------------------------------
(* Properties.                                                              *)

\* While any bracket is open neither the links nor list_count change: "after
\* locking, the number of list entries does not change" (comment on
\* LockLcxlList).  Both loops of UnlockLcxlList and the direct paths of Add and
\* Remove must stay clear of every reader.
FrozenWhileLocked ==
  [][held # {} => list' = list /\ list_count' = list_count]_vars

\* No caller stands on, or holds a reference to, an entry whose memory
\* del_func has given back, and an entry about to be unlinked is allocated.
NoUseAfterFree ==
  \A c \in Caller :
    /\ cursor[c] # NoEntry => memory[cursor[c]] = "live"
    /\ \A e \in refs[c] : memory[e] = "live"
    /\ pc[c] = "remove" => memory[arg[c]] = "live"

\* An entry is unlinked at most once and only when it is linked: a queued
\* removal names a linked entry, no entry is queued twice or queued while
\* another caller is about to remove it, and at zero references no one else
\* can still reach zero (ASSERT(ref_count == 0) in DecRefListEntry and in
\* DelServerCallBack).
RemovedOnce ==
  /\ IsInjective(to_be_del_list) /\ IsInjective(list)
  /\ ToSet(to_be_del_list) \subseteq ToSet(list)
  /\ \A e \in ToSet(to_be_del_list) : ref_count[e] = 0
  /\ \A c \in Caller : pc[c] = "remove" =>
       /\ arg[c] \in ToSet(list) \ ToSet(to_be_del_list)
       /\ ref_count[arg[c]] = 0
       /\ \A d \in Caller \ {c} : pc[d] = "remove" => arg[d] # arg[c]

\* Nothing waits in a queue once the list is unlocked: what Add and Remove
\* promise to do "when the list is unlocked" has then been done.
QueuesDrained ==
  held = {} /\ lock = NoCaller => to_be_add_list = <<>> /\ to_be_del_list = <<>>

\* list_count is the number of linked entries whenever a caller may ask for it.
CountIsLength == list_count = Len(list)

\* The reference count of an allocated entry is the number of its users: the
\* callers holding a reference and, until it is marked deleted, the list's own.
RefCountExact ==
  \A e \in Entry : memory[e] # "unused" =>
    ref_count[e] = Cardinality({c \in Caller : e \in refs[c]})
                   + (IF deleted[e] THEN 0 ELSE 1)

\* An entry nobody refers to any more is freed, provided the list is unlocked
\* again and again; overlapping brackets could otherwise postpone it for ever.
UnreferencedIsFreed ==
  []<>(held = {}) =>
    \A e \in Entry : (memory[e] = "live" /\ ref_count[e] = 0) ~> memory[e] = "freed"

-----------------------------------------------------------------------------
(* The inductive strengthening of the invariants above.                     *)

\* The counter is the number of open brackets, and whoever applies the queues
\* holds the spin lock while no bracket is open.
LockInv ==
  /\ lock_count = Cardinality(held)
  /\ \A c \in Caller : pc[c] = "apply" <=> lock = c
  /\ lock # NoCaller => held = {}

\* Linked and queued entries are allocated, each in one place.
ListInv ==
  /\ IsInjective(list) /\ IsInjective(to_be_add_list)
  /\ list_count = Len(list)
  /\ \A e \in ToSet(list) \cup ToSet(to_be_add_list) : memory[e] = "live"
  /\ ToSet(list) \cap ToSet(to_be_add_list) = {}

\* Whatever a caller can reach is linked.
ReachInv ==
  /\ \A c \in Caller : cursor[c] # NoEntry => c \in held /\ cursor[c] \in ToSet(list)
  /\ \A c \in Caller : refs[c] \subseteq ToSet(list)
  /\ \A e \in Entry : memory[e] = "unused" => ~deleted[e]

\* What is checked as part of the inductive argument: together with the
\* invariants on queues, removals and counts, these are preserved by each step
\* of every function of the list.
IInv ==
  /\ TypeOK /\ LockInv /\ ListInv /\ ReachInv
  /\ RemovedOnce /\ QueuesDrained /\ RefCountExact

-----------------------------------------------------------------------------
(* The queued list as its users see it: a list that changes in one step     *)
(* when its last reader leaves.  The loops of UnlockLcxlList take effect at  *)
(* the decrement.                                                           *)
Applying == lock # NoCaller
D == INSTANCE DeferredList WITH
       list <- IF Applying THEN Flushed(list, to_be_del_list, to_be_add_list)
               ELSE list,
       adds <- IF Applying THEN <<>> ELSE to_be_add_list,
       dels <- IF Applying THEN <<>> ELSE to_be_del_list,
       gone <- {e \in Entry : memory[e] = "freed"}
               \cup (IF Applying THEN ToSet(to_be_del_list) ELSE {}),
       readers <- held

\* Every behaviour of the counter, the spin lock and the two loops is a
\* behaviour of the atomic list.
ImplementsDeferredList == D!Spec

=============================================================================
