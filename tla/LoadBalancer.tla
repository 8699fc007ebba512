---------------------------- MODULE LoadBalancer ----------------------------
(***************************************************************************)
(* What the server pool promises its clients and its administrator: a      *)
(* connection has one server, chosen among those in service when it was    *)
(* opened, and keeps it; a server that is withdrawn gets no new            *)
(* connection, serves those it has, and leaves when the last one is over.  *)
(***************************************************************************)
CONSTANTS Server, Connection

VARIABLES standing,  \* "unknown", "serving", "leaving" or "left"
          routes,    \* pairs of a connection and its server
          opening,   \* the connection being opened, if any
          chosen     \* the server considered for it so far, if any

lbVars == <<standing, routes, opening, chosen>>

Users(s) == {r \in routes : r[2] = s}

Init ==
  /\ standing = [s \in Server |-> "unknown"]
  /\ routes = {} /\ opening = {} /\ chosen = {}

\* A withdrawn server leaves with its last use, a connection or a choice.
Departs ==
  standing' = [s \in Server |->
    IF standing[s] = "leaving" /\ Users(s)' = {} /\ s \notin chosen' THEN "left" ELSE standing[s]]

Register(s) ==
  /\ standing[s] = "unknown"
  /\ standing' = [standing EXCEPT ![s] = "serving"]
  /\ UNCHANGED <<routes, opening, chosen>>

Withdraw(s) ==
  /\ standing[s] = "serving"
  /\ standing' = [standing EXCEPT ![s] = IF Users(s) = {} /\ s \notin chosen THEN "left" ELSE "leaving"]
  /\ UNCHANGED <<routes, opening, chosen>>

Open(c) ==
  /\ opening = {} /\ opening' = {c}
  /\ UNCHANGED <<standing, routes, chosen>>

Consider(s) ==
  /\ opening # {} /\ standing[s] = "serving"
  /\ chosen' = {s}
  /\ Departs
  /\ UNCHANGED <<routes, opening>>

\* The connection goes to the server chosen, and no longer to an earlier one.
Accept(c, s) ==
  /\ opening = {c} /\ chosen = {s}
  /\ routes' = {r \in routes : r[1] # c} \cup {<<c, s>>}
  /\ opening' = {} /\ chosen' = {}
  /\ Departs

Refuse ==
  /\ opening # {} /\ chosen = {}
  /\ opening' = {}
  /\ UNCHANGED <<standing, routes, chosen>>

Close(r) ==
  /\ r \in routes /\ opening = {}
  /\ routes' = routes \ {r}
  /\ Departs
  /\ UNCHANGED <<opening, chosen>>

Next ==
  \/ \E s \in Server : Register(s) \/ Withdraw(s) \/ Consider(s)
  \/ \E c \in Connection : Open(c) \/ \E s \in Server : Accept(c, s)
  \/ Refuse
  \/ \E r \in routes : Close(r)

Spec == Init /\ [][Next]_lbVars

=============================================================================
