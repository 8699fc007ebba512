---------------------------- MODULE MCServerPool ----------------------------
(* Instances of ServerPool for TLC.                                         *)
EXTENDS ServerPool

OnlineV4 == [status |-> {"ONLINE"}, ip_enabled |-> TRUE]

Online == {OnlineV4}
LeastConnection == {"RA_LEAST_CONNECTION"}
Polling == {"RA_POLL", "RA_IP_HASH"}
Symmetry == Permutations(Slot) \cup Permutations(Mac) \cup Permutations(Conn)
            \cup Permutations(Ctl)

=============================================================================
