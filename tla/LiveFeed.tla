------------------------------ MODULE LiveFeed ------------------------------
(***************************************************************************)
(* What the live stream promises a dashboard: the events of the store, one *)
(* after the other from the moment it joined, where events are left out    *)
(* only behind a message that tells it to load its view again.             *)
(***************************************************************************)
EXTENDS Integers

CONSTANT Clients

VARIABLES
  published,  \* number of the last event
  subs,       \* the clients that are joined
  upto,       \* number of the last event each client was told of
  shown       \* the kind of the last message each client received

vars == <<published, subs, upto, shown>>

Init ==
  /\ published = 0 /\ subs = {}
  /\ upto = [c \in Clients |-> 0] /\ shown = [c \in Clients |-> "none"]

Publish == published' = published + 1 /\ UNCHANGED <<subs, upto, shown>>

Join(c) ==
  /\ c \notin subs /\ subs' = subs \cup {c}
  /\ upto' = [upto EXCEPT ![c] = published]
  /\ UNCHANGED <<published, shown>>

Tell(c, kind, n) ==
  /\ c \in subs /\ n <= published
  /\ upto' = [upto EXCEPT ![c] = n]
  /\ shown' = [shown EXCEPT ![c] = kind]
  /\ UNCHANGED <<published, subs>>

\* An event is told in its turn; only a resync may skip some.
Delta(c) == Tell(c, "delta", upto[c] + 1)
Resync(c) == \E n \in (upto[c] + 1)..published : Tell(c, "resync", n)

Leave(c) == c \in subs /\ subs' = subs \ {c} /\ UNCHANGED <<published, upto, shown>>

Next == Publish \/ \E c \in Clients : Join(c) \/ Delta(c) \/ Resync(c) \/ Leave(c)
Spec == Init /\ [][Next]_vars
=============================================================================
