----------------------------- MODULE MCSshAuth -----------------------------
(* Small instances of SshAuth for TLC. *)
EXTENDS SshAuth, TLC

Symmetry == Permutations(Conns) \cup Permutations(Sources) \cup Permutations(Users) \cup Permutations(Passwords)

\* Nothing is left to do when every attempt was decided and every login left.
Stopped ==
  /\ \A c \in Conns : pc[c] \in {"left", "rejected"}
  /\ UNCHANGED vars

MCNext == Next \/ Stopped
MCSpec == Init /\ [][MCNext]_vars
=============================================================================
