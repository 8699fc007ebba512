---------------------------- MODULE DeferredList ----------------------------
(***************************************************************************)
(* What an LCXL list promises its users: a list that any number of readers *)
(* may walk, whose additions and removals take effect at once when nobody  *)
(* reads and otherwise in one step, removals first and additions in the    *)
(* order they were asked for, when the last reader leaves.                 *)
(***************************************************************************)
EXTENDS LcxlListOps

CONSTANTS Caller, Entry

VARIABLES list,     \* the entries a reader meets, in order
          adds,     \* additions waiting for the readers to leave
          dels,     \* removals waiting for the readers to leave
          gone,     \* entries that have been removed
          readers   \* callers reading the list

dvars == <<list, adds, dels, gone, readers>>

Init ==
  /\ list = <<>> /\ adds = <<>> /\ dels = <<>>
  /\ gone = {} /\ readers = {}

Enter(c) ==
  /\ c \notin readers
  /\ readers' = readers \cup {c}
  /\ UNCHANGED <<list, adds, dels, gone>>

Insert(e) ==
  /\ e \notin ToSet(list) \cup ToSet(adds) \cup gone
  /\ IF readers = {} THEN list' = Append(list, e) /\ UNCHANGED adds
                     ELSE adds' = Append(adds, e) /\ UNCHANGED list
  /\ UNCHANGED <<dels, gone, readers>>

Delete(e) ==
  /\ e \in ToSet(list) \ ToSet(dels)
  /\ IF readers = {}
     THEN /\ list' = Flushed(list, <<e>>, <<>>)
          /\ gone' = gone \cup {e}
          /\ UNCHANGED dels
     ELSE dels' = Append(dels, e) /\ UNCHANGED <<list, gone>>
  /\ UNCHANGED <<adds, readers>>

Leave(c) ==
  /\ c \in readers
  /\ readers' = readers \ {c}
  /\ IF readers' = {}
     THEN /\ list' = Flushed(list, dels, adds)
          /\ gone' = gone \cup ToSet(dels)
          /\ adds' = <<>> /\ dels' = <<>>
     ELSE UNCHANGED <<list, adds, dels, gone>>

Next ==
  \/ \E c \in Caller : Enter(c) \/ Leave(c)
  \/ \E e \in Entry : Insert(e) \/ Delete(e)

Spec == Init /\ [][Next]_dvars

=============================================================================
