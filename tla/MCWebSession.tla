---------------------------- MODULE MCWebSession ----------------------------
(* Small instances of WebSession for TLC. *)
EXTENDS WebSession, TLC

\* Fingerprints that share the address but not the target collide on a stripe.
MCFpStripe == [fp \in Fingerprints |-> UAOf(fp)]

\* Session ids hash to stripes of their own.
OwnStripe == [s \in Requests |-> s]

Symmetry == Permutations(Requests) \cup Permutations(Targets \ {Blank})

\* The clients of the instance: every target, the empty one too, under the named
\* user agents, and one client of each address that sends neither.
MCInit ==
  /\ Init
  /\ \A r \in Requests : UAOf(client[r]) = Blank => TargetOf(client[r]) = Blank

\* The process has nothing left to do when every request was answered.
Stopped ==
  /\ \A r \in Requests : pc[r] = "done"
  /\ UNCHANGED vars

MCNext == Next \/ Stopped
MCSpec == MCInit /\ [][MCNext]_vars
=============================================================================
