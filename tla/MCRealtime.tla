----------------------------- MODULE MCRealtime -----------------------------
(* Small instances of Realtime for TLC. *)
EXTENDS Realtime, TLC

Symmetry == Permutations(Clients)

\* Everybody has left and nothing more is published.
Stopped ==
  /\ published = MaxPublished
  /\ \A c \in Clients : handler[c] \in {"rejected", "left"} /\ reader[c] \in {"none", "gone"}
  /\ UNCHANGED vars

MCSpec == Init /\ [][Next \/ Stopped]_vars
MCFairSpec == MCSpec /\ Fairness
=============================================================================
