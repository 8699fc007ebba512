---------------------------- MODULE LcxlListOps -----------------------------
(***************************************************************************)
(* The effect of the functions of common/driver/lcxl_lock_list.h on the    *)
(* value of a list, each taken as one step: DeferredList is the behaviour  *)
(* these effects give, and LcxlList shows that the code has it.            *)
(*                                                                         *)
(* A list value is a record [list, lock_count, to_be_add, to_be_del];      *)
(* list_count is Len(list).                                                *)
(***************************************************************************)
EXTENDS Integers, Sequences, SequencesExt

\* The list without the entries of a set, in order (RemoveEntryList of each).
\* kept[i] is what is left of the first i entries.
Without(list, gone) ==
  LET kept[i \in 0..Len(list)] ==
        IF i = 0 THEN <<>>
        ELSE IF list[i] \in gone THEN kept[i - 1] ELSE Append(kept[i - 1], list[i])
  IN  kept[Len(list)]

\* What UnlockLcxlList leaves linked when it applies the queues: the first
\* loop removes the entries of dels, the second appends those of adds.
Flushed(list, dels, adds) == Without(list, ToSet(dels)) \o adds

EmptyList == [list |-> <<>>, lock_count |-> 0, to_be_add |-> <<>>, to_be_del |-> <<>>]

\* LockLcxlList, mod being the range of lock_count.
Locked(l, mod) == [l EXCEPT !.lock_count = (@ + 1) % mod]

\* Does this UnlockLcxlList apply the queues?
LastOut(l, mod) == (l.lock_count - 1) % mod = 0

\* UnlockLcxlList and the entries it hands to del_func.
Unlocked(l, mod) ==
  IF LastOut(l, mod)
  THEN [EmptyList EXCEPT !.list = Flushed(l.list, l.to_be_del, l.to_be_add)]
  ELSE [l EXCEPT !.lock_count = (@ - 1) % mod]
FreedByUnlock(l, mod) == IF LastOut(l, mod) THEN ToSet(l.to_be_del) ELSE {}

\* AddEntrytoLcxlList
WithEntry(l, e) ==
  IF l.lock_count > 0 THEN [l EXCEPT !.to_be_add = Append(@, e)]
                      ELSE [l EXCEPT !.list = Append(@, e)]

\* RemoveEntryfromLcxlList and the entries it hands to del_func.
WithoutEntry(l, e) ==
  IF l.lock_count > 0 THEN [l EXCEPT !.to_be_del = Append(@, e)]
                      ELSE [l EXCEPT !.list = Flushed(@, <<e>>, <<>>)]
FreedByRemove(l, e) == IF l.lock_count > 0 THEN {} ELSE {e}

=============================================================================
