----------------------------- MODULE MCSshConn -----------------------------
(* Small instances of SshConn for TLC. *)
EXTENDS SshConn, TLC

Symmetry == Permutations(Conns) \cup Permutations(IPs)

\* All connections are over; a worker may wait for a world that stayed locked.
Stopped == (\A c \in Conns : pc[c] = "done") /\ UNCHANGED vars

MCSpec == Init /\ [][Next \/ Stopped]_vars
MCFairSpec == MCSpec /\ Fairness
=============================================================================
