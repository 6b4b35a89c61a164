--------------------------- MODULE SshAuthProofs ---------------------------
(***************************************************************************)
(* Proofs about SshAuth, for every set of connections, sources, accounts   *)
(* and passwords and every size of the pools and of the bindings.          *)
(***************************************************************************)
EXTENDS SshAuth, FiniteSetTheorems, TLAPS

\* The slots of the accounts at time t: typed, not ahead of the clock, at most
\* sshCredentialPoolSize of an account.
PoolsOK(ps, t) ==
  /\ ps \in [Users -> SUBSET Slot]
  /\ \A u \in Users : /\ IsFiniteSet(ps[u]) /\ Cardinality(ps[u]) <= PoolSize
                      /\ \A slot \in ps[u] : slot.last <= t

\* The bindings of the sources at time t: typed, not ahead of the clock, at most 4096.
BindingsOK(bs, t) ==
  /\ DOMAIN bs \subseteq Keys
  /\ IsFiniteSet(DOMAIN bs) /\ Cardinality(DOMAIN bs) <= MaxBindings
  /\ \A k \in DOMAIN bs : bs[k] \in Binding /\ bs[k].last <= t

\* The credential state in memory and the one in the file.
StateOK ==
  /\ PoolsOK(pools, clock) /\ BindingsOK(bindings, clock)
  /\ PoolsOK(saved.pools, clock) /\ BindingsOK(saved.bindings, clock)

\* As long as every save succeeded, the file is the state in memory.
Written == faults = 0 => saved.pools = pools /\ saved.bindings = bindings

\* A decision goes on only for an account of the virtual host.
UserKnown(c) == pc[c] \notin {"idle", "rejected"} => req[c].user \in Users

\* The attempts, their decisions and the sessions they lead to.
DecisionOK ==
  /\ clock \in Nat /\ restarts \in Nat /\ faults \in Nat
  /\ pc \in [Conns -> Stages] /\ req \in [Conns -> Request]
  /\ sticky \in [Conns -> Users \cup {None}] /\ bound \in [Conns -> BOOLEAN]
  /\ slotAt \in [Conns -> Nat] /\ (\A c \in Conns : slotAt[c] <= clock)
  /\ \A c \in Conns : UserKnown(c)
  /\ DOMAIN sessions \subseteq Conns /\ \A c \in DOMAIN sessions : sessions[c] \in Session

BaseInv == DecisionOK /\ StateOK /\ Written

\* A decision found or made its slot no later than the slot was last seen.
SlotSeen(c) == \E slot \in Pool(c) : slot.pw = req[c].pw /\ slot.last >= slotAt[c]

SlotsSeen ==
  (faults = 0 \/ restarts = 0) =>
    \A c \in WithSlot : clock - slotAt[c] < RotateAfter => SlotSeen(c)

----------------------------------------------------------------------------
(* What the calls of the store do to pools and bindings *)

\* Time that passes ages the state.
LEMMA Aging ==
  ASSUME NEW t \in Nat, NEW t2 \in Nat, t <= t2, NEW ps, NEW bs
  PROVE  (PoolsOK(ps, t) => PoolsOK(ps, t2)) /\ (BindingsOK(bs, t) => BindingsOK(bs, t2))
<1>1. ASSUME PoolsOK(ps, t) PROVE PoolsOK(ps, t2)
  <2>1. \A u \in Users : \A slot \in ps[u] : slot.last \in Nat /\ slot.last <= t2
    BY <1>1 DEF PoolsOK, Slot
  <2> QED BY <1>1, <2>1 DEF PoolsOK
<1>2. ASSUME BindingsOK(bs, t) PROVE BindingsOK(bs, t2)
  <2>1. \A k \in DOMAIN bs : bs[k].last \in Nat /\ bs[k].last <= t2
    BY <1>2 DEF BindingsOK, Binding
  <2> QED BY <1>2, <2>1 DEF BindingsOK
<1> QED BY <1>1, <1>2

\* Save and SaveFails keep the file within its bounds, and equal to the memory unless
\* a save has failed.
LEMMA Saving ==
  ASSUME DecisionOK, StateOK, Written, clock' = clock, Save \/ SaveFails,
         PoolsOK(pools', clock), BindingsOK(bindings', clock)
  PROVE  StateOK' /\ Written' /\ faults' \in Nat
<1>1. CASE Save
  <2>1. saved'.pools = pools' /\ saved'.bindings = bindings' /\ faults' = faults
    BY <1>1 DEF Save
  <2> QED BY <2>1 DEF StateOK, Written, DecisionOK
<1>2. CASE SaveFails
  <2>1. saved' = saved /\ faults' = faults + 1 /\ faults \in Nat
    BY <1>2 DEF SaveFails, DecisionOK
  <2>2. faults' \in Nat /\ faults' # 0
    BY <2>1
  <2> QED BY <2>1, <2>2 DEF StateOK, Written
<1> QED BY <1>1, <1>2

\* A slot that takes the place of another, or a free one, keeps the pool within its size.
LEMMA PoolWithin ==
  ASSUME NEW S, NEW keep, NEW x, IsFiniteSet(S), Cardinality(S) <= PoolSize, keep \subseteq S,
         Cardinality(S) < PoolSize \/ keep # S
  PROVE  IsFiniteSet(keep \cup {x}) /\ Cardinality(keep \cup {x}) <= PoolSize
<1>1. /\ IsFiniteSet(keep) /\ Cardinality(keep) \in Nat /\ Cardinality(S) \in Nat
      /\ Cardinality(keep) <= Cardinality(S) /\ (keep # S => Cardinality(keep) # Cardinality(S))
  <2>1. keep \in SUBSET S
    OBVIOUS
  <2> QED BY <2>1, FS_Subset, FS_CardinalityType
<1>2. Cardinality(keep) < PoolSize
  BY <1>1, AuthAssumption
<1>3. /\ IsFiniteSet(keep \cup {x})
      /\ Cardinality(keep \cup {x}) = IF x \in keep THEN Cardinality(keep) ELSE Cardinality(keep) + 1
  BY <1>1, FS_AddElement
<1> QED BY <1>1, <1>2, <1>3, AuthAssumption

\* A pool in which the slot of an attempt was seen or made stays a pool.
LEMMA Touched ==
  ASSUME DecisionOK, StateOK, NEW c \in Conns, req[c].user \in Users, NEW keep,
         keep \subseteq Pool(c), Cardinality(Pool(c)) < PoolSize \/ keep # Pool(c), Touch(c, keep)
  PROVE  PoolsOK(pools', clock)
<1> DEFINE x == [pw |-> req[c].pw, last |-> clock]
           u == req[c].user
<1>1. x \in Slot /\ clock \in Nat
  BY DEF DecisionOK, Request, Slot
<1>2. /\ pools \in [Users -> SUBSET Slot] /\ pools' = [pools EXCEPT ![u] = keep \cup {x}]
      /\ Pool(c) = pools[u]
  BY DEF StateOK, PoolsOK, Touch, Pool
<1>3. pools'[u] = keep \cup {x} /\ \A v \in Users : v # u => pools'[v] = pools[v]
  BY <1>2
<1>4. pools' \in [Users -> SUBSET Slot]
  BY <1>1, <1>2
<1>5. IsFiniteSet(pools'[u]) /\ Cardinality(pools'[u]) <= PoolSize
  <2>1. IsFiniteSet(Pool(c)) /\ Cardinality(Pool(c)) <= PoolSize
    BY <1>2 DEF StateOK, PoolsOK
  <2>2. IsFiniteSet(keep \cup {x}) /\ Cardinality(keep \cup {x}) <= PoolSize
    <3> HIDE DEF x
    <3> QED BY <2>1, PoolWithin
  <2> QED BY <1>3, <2>2
<1>6. \A slot \in pools'[u] : slot.last <= clock
  <2>1. \A slot \in Pool(c) : slot.last <= clock
    BY <1>2 DEF StateOK, PoolsOK
  <2>2. x.last <= clock
    BY <1>1
  <2> QED BY <1>3, <2>1, <2>2
<1>7. ASSUME NEW v \in Users, v # u
      PROVE  /\ IsFiniteSet(pools'[v]) /\ Cardinality(pools'[v]) <= PoolSize
             /\ \A slot \in pools'[v] : slot.last <= clock
  BY <1>3, <1>7 DEF StateOK, PoolsOK
<1> QED BY <1>4, <1>5, <1>6, <1>7 DEF PoolsOK

\* What BindSSHSourceCredential retains is within the bound, and what it drops is too
\* old or has 4096 others at least as recent.
LEMMA Retaining ==
  ASSUME NEW bs, IsFiniteSet(DOMAIN bs), clock \in Nat,
         \A k \in DOMAIN bs : bs[k].last \in Nat, NEW K \in Retained(bs)
  PROVE  /\ K \subseteq DOMAIN bs /\ IsFiniteSet(K) /\ Cardinality(K) <= MaxBindings
         /\ \A d \in DOMAIN bs \ K :
              \/ clock - bs[d].last > BindingTTL
              \/ Cardinality(K) = MaxBindings /\ \A k \in K : bs[d].last <= bs[k].last
<1> DEFINE young == {k \in DOMAIN bs : clock - bs[k].last <= BindingTTL}
<1>1. /\ K \in SUBSET young
      /\ Cardinality(K) = IF Cardinality(young) > MaxBindings
                          THEN MaxBindings ELSE Cardinality(young)
      /\ \A k \in K, d \in young \ K : bs[d].last <= bs[k].last
  BY DEF Retained
<1>2. young \in SUBSET DOMAIN bs
  OBVIOUS
<1>3. IsFiniteSet(young) /\ Cardinality(young) \in Nat
  BY <1>2, FS_Subset, FS_CardinalityType
<1>4. IsFiniteSet(K) /\ Cardinality(K) \in Nat /\ (Cardinality(K) = Cardinality(young) => K = young)
  BY <1>1, <1>3, FS_Subset, FS_CardinalityType
<1> HIDE DEF young
<1>5. MaxBindings \in Nat /\ BindingTTL \in Nat
  BY AuthAssumption
<1>6. Cardinality(K) <= MaxBindings
  BY <1>1, <1>3, <1>5
<1>7. ASSUME NEW d \in DOMAIN bs \ K, ~(clock - bs[d].last > BindingTTL)
      PROVE  Cardinality(K) = MaxBindings /\ \A k \in K : bs[d].last <= bs[k].last
  <2>1. d \in young
    BY <1>7, <1>5 DEF young
  <2>2. K # young
    BY <2>1, <1>7
  <2>3. Cardinality(K) = MaxBindings
    BY <1>1, <1>4, <2>2
  <2> QED BY <1>1, <1>7, <2>1, <2>3
<1> QED BY <1>1, <1>2, <1>4, <1>6, <1>7

----------------------------------------------------------------------------
(* The base invariant *)

\* A step that leaves the credential state and the clock alone.
LEMMA SameState ==
  ASSUME BaseInv, UNCHANGED <<clock, faults, pools, bindings, saved>>
  PROVE  StateOK' /\ Written'
BY DEF BaseInv, StateOK, Written

\* A decision moves to a stage that its account allows.
LEMMA NextStage ==
  ASSUME DecisionOK, NEW c \in Conns, NEW s \in Stages, pc' = [pc EXCEPT ![c] = s], req' = req,
         s = "rejected" \/ req[c].user \in Users
  PROVE  pc' \in [Conns -> Stages] /\ \A d \in Conns : UserKnown(d)'
<1>1. pc' \in [Conns -> Stages] /\ pc'[c] = s /\ \A d \in Conns \ {c} : pc'[d] = pc[d]
  BY DEF DecisionOK
<1> QED BY <1>1 DEF DecisionOK, UserKnown

\* SSHAuthProfile only reads the sessions.
LEMMA ReadProfileInv == ASSUME BaseInv, NEW c \in Conns, ReadProfile(c) PROVE BaseInv'
<1>1. UNCHANGED <<clock, restarts, faults, req, bound, slotAt, pools, bindings, saved, sessions>>
  BY DEF ReadProfile
<1>2. PICK u \in StickyUsers(req[c].src) :
        /\ sticky' = [sticky EXCEPT ![c] = u]
        /\ \/ pc' = [pc EXCEPT ![c] = "rejected"]
           \/ req[c].user # Unknown /\ pc' = [pc EXCEPT ![c] = "source"]
  BY DEF ReadProfile, Goto
<1>3. u \in Users \cup {None}
  <2>1. \A x \in DOMAIN sessions : sessions[x].user \in Users
    BY DEF BaseInv, DecisionOK, Session
  <2> QED BY <2>1 DEF StickyUsers, LoginsOf
<1>4. sticky' \in [Conns -> Users \cup {None}]
  BY <1>2, <1>3 DEF BaseInv, DecisionOK
<1>5. req[c].user \in Users \cup {Unknown}
  BY DEF BaseInv, DecisionOK, Request
<1>6. pc' \in [Conns -> Stages] /\ \A d \in Conns : UserKnown(d)'
  BY <1>1, <1>2, <1>5, NextStage DEF BaseInv, Stages
<1>7. DecisionOK'
  BY <1>1, <1>4, <1>6 DEF BaseInv, DecisionOK
<1> QED BY <1>1, <1>7, SameState DEF BaseInv

\* Steps of a decision past its profile, with the parts they all share.
LEMMA DecisionStep ==
  ASSUME BaseInv, NEW c \in Conns, pc[c] \notin {"idle", "rejected"}, NEW s \in Stages,
         pc' = [pc EXCEPT ![c] = s],
         UNCHANGED <<clock, restarts, req, sticky>>, faults' \in Nat,
         bound' \in [Conns -> BOOLEAN],
         slotAt' = slotAt \/ slotAt' = [slotAt EXCEPT ![c] = clock],
         DOMAIN sessions' \subseteq Conns, \A x \in DOMAIN sessions' : sessions'[x] \in Session
  PROVE  DecisionOK'
<1>1. req[c].user \in Users
  BY DEF BaseInv, DecisionOK, UserKnown
<1>2. pc' \in [Conns -> Stages] /\ \A d \in Conns : UserKnown(d)'
  BY <1>1, NextStage DEF BaseInv
<1>3. slotAt' \in [Conns -> Nat] /\ (\A d \in Conns : slotAt'[d] <= clock)
  BY DEF BaseInv, DecisionOK
<1> QED BY <1>2, <1>3 DEF BaseInv, DecisionOK

\* SSHSourceCredentialStatus at most marks a binding as seen.
LEMMA SourceStatusInv == ASSUME BaseInv, NEW c \in Conns, SourceStatus(c) PROVE BaseInv'
<1> DEFINE k == Key(c)
<1>1. /\ pc[c] = "source" /\ UNCHANGED <<clock, restarts, req, sticky, slotAt, sessions, pools>>
      /\ bound' = [bound EXCEPT ![c] = k \in DOMAIN bindings]
  BY DEF SourceStatus
<1>2. bound' \in [Conns -> BOOLEAN]
  <2>1. (k \in DOMAIN bindings) \in BOOLEAN
    OBVIOUS
  <2> HIDE DEF k
  <2> QED BY <1>1, <2>1 DEF BaseInv, DecisionOK
<1>3. \E s \in {"credential", "rejected"} : pc' = [pc EXCEPT ![c] = s]
  BY DEF SourceStatus, Goto
<1>4. StateOK' /\ Written' /\ faults' \in Nat
  <2>1. CASE UNCHANGED <<bindings, saved, faults>>
    BY <1>1, <2>1, SameState DEF BaseInv, DecisionOK
  <2>2. CASE k \in DOMAIN bindings /\ bindings' = [bindings EXCEPT ![k].last = clock]
             /\ (Save \/ SaveFails)
    <3>1. BindingsOK(bindings', clock)
      <4>1. DOMAIN bindings' = DOMAIN bindings
        BY <2>2
      <4>2. \A j \in DOMAIN bindings : j # k => bindings'[j] = bindings[j]
        BY <2>2
      <4>3. bindings'[k] = [bindings[k] EXCEPT !.last = clock]
        BY <2>2
      <4>4. bindings'[k] \in Binding /\ bindings'[k].last <= clock
        BY <2>2, <4>3 DEF BaseInv, DecisionOK, StateOK, BindingsOK, Binding
      <4> QED BY <4>1, <4>2, <4>4 DEF BaseInv, StateOK, BindingsOK
    <3>2. PoolsOK(pools', clock)
      BY <1>1 DEF BaseInv, StateOK
    <3> QED BY <1>1, <2>2, <3>1, <3>2, Saving DEF BaseInv
  <2> QED BY <2>1, <2>2 DEF SourceStatus
<1>5. DecisionOK'
  BY <1>1, <1>2, <1>3, <1>4, DecisionStep DEF BaseInv, DecisionOK, Stages
<1> QED BY <1>4, <1>5 DEF BaseInv

\* The slots of other passwords are fewer than all when the password has one.
LEMMA OthersFewer ==
  ASSUME NEW c \in Conns, HasSlot(c)
  PROVE  Others(c) \subseteq Pool(c) /\ Others(c) # Pool(c)
BY DEF HasSlot, Others

\* SSHCredentialStatus at most marks a slot as seen.
LEMMA CredentialStatusInv == ASSUME BaseInv, NEW c \in Conns, CredentialStatus(c) PROVE BaseInv'
<1>1. pc[c] = "credential" /\ UNCHANGED <<clock, restarts, req, sticky, bound, sessions, bindings>>
  BY DEF CredentialStatus
<1>2. req[c].user \in Users
  BY <1>1 DEF BaseInv, DecisionOK, UserKnown
<1>3. \E s \in {"accepted", "bind", "establish", "policy"} : pc' = [pc EXCEPT ![c] = s]
  BY DEF CredentialStatus, Goto
<1>4. StateOK' /\ Written' /\ faults' \in Nat
      /\ (slotAt' = slotAt \/ slotAt' = [slotAt EXCEPT ![c] = clock])
  <2>1. CASE UNCHANGED <<slotAt, pools, saved, faults>>
    BY <1>1, <2>1, SameState DEF BaseInv, DecisionOK
  <2>2. CASE HasSlot(c) /\ Touch(c, Others(c)) /\ (Save \/ SaveFails)
    <3>1. PoolsOK(pools', clock)
      BY <1>2, <2>2, OthersFewer, Touched DEF BaseInv
    <3>2. BindingsOK(bindings', clock)
      BY <1>1 DEF BaseInv, StateOK
    <3> QED BY <1>1, <2>2, <3>1, <3>2, Saving DEF BaseInv, Touch
  <2> QED BY <2>1, <2>2 DEF CredentialStatus
<1>5. DecisionOK'
  BY <1>1, <1>3, <1>4, DecisionStep DEF BaseInv, DecisionOK, Stages
<1> QED BY <1>4, <1>5 DEF BaseInv

\* Choosing a candidate changes nothing but the decision.
LEMMA PolicyInv == ASSUME BaseInv, NEW c \in Conns, Policy(c) PROVE BaseInv'
<1>1. pc[c] = "policy"
      /\ UNCHANGED <<clock, restarts, faults, req, sticky, bound, slotAt, pools, bindings, saved, sessions>>
  BY DEF Policy
<1>2. \E s \in {"establish", "rejected"} : pc' = [pc EXCEPT ![c] = s]
  BY DEF Policy, Goto
<1>3. DecisionOK'
  BY <1>1, <1>2, DecisionStep DEF BaseInv, DecisionOK, Stages
<1> QED BY <1>1, <1>3, SameState DEF BaseInv

\* The three ways EstablishSSHCredential gets a slot, and the way it gets none.
LEMMA EstablishCases ==
  ASSUME BaseInv, NEW c \in Conns, Establish(c)
  PROVE  \/ UNCHANGED <<slotAt, pools, saved, faults>> /\ pc' = [pc EXCEPT ![c] = "rejected"]
         \/ \E keep \in SUBSET Pool(c) :
              /\ Touch(c, keep)
              /\ Cardinality(Pool(c)) < PoolSize \/ keep # Pool(c)
              /\ \A slot \in Pool(c) \ keep : slot.pw = req[c].pw \/ IdleEnough(slot)
              /\ \/ Save /\ pc' = [pc EXCEPT ![c] = "bind"]
                 \/ SaveFails /\ pc' = [pc EXCEPT ![c] = "rejected"]
<1> SUFFICES ASSUME ~(UNCHANGED <<slotAt, pools, saved, faults>> /\ pc' = [pc EXCEPT ![c] = "rejected"])
             PROVE  \E keep \in SUBSET Pool(c) :
                      /\ Touch(c, keep)
                      /\ Cardinality(Pool(c)) < PoolSize \/ keep # Pool(c)
                      /\ \A slot \in Pool(c) \ keep : slot.pw = req[c].pw \/ IdleEnough(slot)
                      /\ \/ Save /\ pc' = [pc EXCEPT ![c] = "bind"]
                         \/ SaveFails /\ pc' = [pc EXCEPT ![c] = "rejected"]
  OBVIOUS
<1>1. \/ Save /\ pc' = [pc EXCEPT ![c] = "bind"]
      \/ SaveFails /\ pc' = [pc EXCEPT ![c] = "rejected"]
  BY DEF Establish, Goto
<1>2. CASE HasSlot(c) /\ Touch(c, Others(c))
  <2>1. Others(c) \subseteq Pool(c) /\ Others(c) # Pool(c)
        /\ \A slot \in Pool(c) \ Others(c) : slot.pw = req[c].pw
    BY <1>2 DEF Others, HasSlot
  <2> QED BY <1>1, <1>2, <2>1
<1>3. CASE ~HasSlot(c) /\ ~Full(c) /\ Touch(c, Pool(c))
  <2>1. Cardinality(Pool(c)) < PoolSize
    <3>1. pc[c] = "establish"
      BY DEF Establish
    <3>2. req[c].user \in Users
      BY <3>1 DEF BaseInv, DecisionOK, UserKnown
    <3>3. Cardinality(Pool(c)) \in Nat
      BY <3>2, FS_CardinalityType DEF BaseInv, StateOK, PoolsOK, Pool
    <3> QED BY <1>3, <3>3, AuthAssumption DEF Full
  <2> QED BY <1>1, <1>3, <2>1
<1>4. CASE \E slot \in Oldest(c) : /\ ~HasSlot(c) /\ Full(c) /\ IdleEnough(slot)
                                  /\ Touch(c, Pool(c) \ {slot})
  <2>1. PICK slot \in Oldest(c) : IdleEnough(slot) /\ Touch(c, Pool(c) \ {slot})
    BY <1>4
  <2>2. slot \in Pool(c)
    BY <2>1 DEF Oldest
  <2>3. Pool(c) \ {slot} \in SUBSET Pool(c) /\ Pool(c) \ {slot} # Pool(c)
        /\ \A x \in Pool(c) \ (Pool(c) \ {slot}) : x = slot
    BY <2>2
  <2> QED BY <1>1, <2>1, <2>3
<1> QED BY <1>2, <1>3, <1>4 DEF Establish, Goto

\* EstablishSSHCredential keeps the pools within their size.
LEMMA EstablishInv == ASSUME BaseInv, NEW c \in Conns, Establish(c) PROVE BaseInv'
<1>1. pc[c] = "establish" /\ UNCHANGED <<clock, restarts, req, sticky, bound, sessions, bindings>>
  BY DEF Establish
<1>2. req[c].user \in Users
  BY <1>1 DEF BaseInv, DecisionOK, UserKnown
<1>3. \E s \in {"bind", "rejected"} : pc' = [pc EXCEPT ![c] = s]
  BY EstablishCases
<1>4. StateOK' /\ Written' /\ faults' \in Nat
      /\ (slotAt' = slotAt \/ slotAt' = [slotAt EXCEPT ![c] = clock])
  <2>1. CASE UNCHANGED <<slotAt, pools, saved, faults>>
    BY <1>1, <2>1, SameState DEF BaseInv, DecisionOK
  <2>2. ASSUME NEW keep \in SUBSET Pool(c), Touch(c, keep), Save \/ SaveFails,
               Cardinality(Pool(c)) < PoolSize \/ keep # Pool(c)
        PROVE  StateOK' /\ Written' /\ faults' \in Nat
               /\ (slotAt' = slotAt \/ slotAt' = [slotAt EXCEPT ![c] = clock])
    <3>1. PoolsOK(pools', clock)
      BY <1>2, <2>2, Touched DEF BaseInv
    <3>2. BindingsOK(bindings', clock)
      BY <1>1 DEF BaseInv, StateOK
    <3> QED BY <1>1, <2>2, <3>1, <3>2, Saving DEF BaseInv, Touch
  <2> QED BY <2>1, <2>2, EstablishCases
<1>5. DecisionOK'
  BY <1>1, <1>3, <1>4, DecisionStep DEF BaseInv, DecisionOK, Stages
<1> QED BY <1>4, <1>5 DEF BaseInv

\* The bindings with the attempt's are typed, one more at most.
LEMMA BoundTypes ==
  ASSUME BaseInv, NEW c \in Conns, req[c].user \in Users
  PROVE  /\ DOMAIN Bound(c) = DOMAIN bindings \cup {Key(c)} /\ DOMAIN Bound(c) \subseteq Keys
         /\ IsFiniteSet(DOMAIN Bound(c))
         /\ \A k \in DOMAIN Bound(c) : Bound(c)[k] \in Binding /\ Bound(c)[k].last <= clock
         /\ Bound(c)[Key(c)] = [pw |-> req[c].pw, last |-> clock]
         /\ \A k \in DOMAIN bindings : k # Key(c) => Bound(c)[k] = bindings[k]
<1>1. /\ DOMAIN Bound(c) = DOMAIN bindings \cup {Key(c)}
      /\ Bound(c)[Key(c)] = [pw |-> req[c].pw, last |-> clock]
      /\ \A k \in DOMAIN bindings : k # Key(c) => Bound(c)[k] = bindings[k]
  BY DEF Bound
<1>2. Key(c) \in Keys /\ req[c].pw \in Passwords /\ clock \in Nat
  BY DEF BaseInv, DecisionOK, Request, Keys, Key
<1>3. BindingsOK(bindings, clock)
  BY DEF BaseInv, StateOK
<1>4. IsFiniteSet(DOMAIN bindings \cup {Key(c)})
  BY <1>3, FS_AddElement DEF BindingsOK
<1>5. Bound(c)[Key(c)] \in Binding /\ Bound(c)[Key(c)].last <= clock
  BY <1>1, <1>2 DEF Binding
<1> QED BY <1>1, <1>2, <1>3, <1>4, <1>5 DEF BindingsOK

\* What BindSSHSourceCredential leaves: a part of the bindings with the attempt's,
\* within the bound, without those that are too old or less recent than 4096 others.
LEMMA BindEffect ==
  ASSUME BaseInv, NEW c \in Conns, Bind(c), bindings' # bindings
  PROVE  /\ MayBind(c)
         /\ DOMAIN bindings' \subseteq DOMAIN Bound(c) /\ IsFiniteSet(DOMAIN bindings')
         /\ Cardinality(DOMAIN bindings') <= MaxBindings
         /\ \A k \in DOMAIN bindings' : bindings'[k] = Bound(c)[k]
         /\ \A d \in DOMAIN Bound(c) \ DOMAIN bindings' :
              \/ clock - Bound(c)[d].last > BindingTTL
              \/ /\ Cardinality(DOMAIN bindings') = MaxBindings
                 /\ \A k \in DOMAIN bindings' : Bound(c)[d].last <= Bound(c)[k].last
<1>1. MayBind(c) /\ \E K \in Retained(Bound(c)) : bindings' = [k \in K |-> Bound(c)[k]]
  BY DEF Bind
<1>2. PICK K \in Retained(Bound(c)) : bindings' = [k \in K |-> Bound(c)[k]]
  BY <1>1
<1>3. DOMAIN bindings' = K /\ \A k \in K : bindings'[k] = Bound(c)[k]
  BY <1>2
<1>4. req[c].user \in Users /\ clock \in Nat
  BY DEF Bind, BaseInv, DecisionOK, UserKnown
<1>5. IsFiniteSet(DOMAIN Bound(c)) /\ \A k \in DOMAIN Bound(c) : Bound(c)[k].last \in Nat
  BY <1>4, BoundTypes DEF Binding
<1>6. /\ K \subseteq DOMAIN Bound(c) /\ IsFiniteSet(K) /\ Cardinality(K) <= MaxBindings
      /\ \A d \in DOMAIN Bound(c) \ K :
           \/ clock - Bound(c)[d].last > BindingTTL
           \/ Cardinality(K) = MaxBindings /\ \A k \in K : Bound(c)[d].last <= Bound(c)[k].last
  BY <1>4, <1>5, Retaining
<1> QED BY <1>1, <1>3, <1>6

\* BindSSHSourceCredential keeps the bindings within their bound.
LEMMA BindInv == ASSUME BaseInv, NEW c \in Conns, Bind(c) PROVE BaseInv'
<1>1. pc[c] = "bind" /\ UNCHANGED <<clock, restarts, req, sticky, bound, slotAt, sessions, pools>>
      /\ pc' = [pc EXCEPT ![c] = "accepted"]
  BY DEF Bind, Goto
<1>2. req[c].user \in Users
  BY <1>1 DEF BaseInv, DecisionOK, UserKnown
<1>3. StateOK' /\ Written' /\ faults' \in Nat
  <2>1. CASE UNCHANGED <<bindings, saved, faults>>
    BY <1>1, <2>1, SameState DEF BaseInv, DecisionOK
  <2>2. CASE Save \/ SaveFails
    <3>1. PoolsOK(pools', clock)
      BY <1>1 DEF BaseInv, StateOK
    <3>2. BindingsOK(bindings', clock)
      <4>1. CASE bindings' = bindings
        BY <4>1 DEF BaseInv, StateOK
      <4>2. CASE bindings' # bindings
        <5>1. /\ DOMAIN bindings' \subseteq DOMAIN Bound(c) /\ IsFiniteSet(DOMAIN bindings')
              /\ Cardinality(DOMAIN bindings') <= MaxBindings
              /\ \A k \in DOMAIN bindings' : bindings'[k] = Bound(c)[k]
          BY <4>2, BindEffect
        <5>2. /\ DOMAIN Bound(c) \subseteq Keys
              /\ \A k \in DOMAIN Bound(c) : Bound(c)[k] \in Binding /\ Bound(c)[k].last <= clock
          BY <1>2, BoundTypes
        <5> QED BY <5>1, <5>2 DEF BindingsOK
      <4> QED BY <4>1, <4>2
    <3> QED BY <1>1, <2>2, <3>1, <3>2, Saving DEF BaseInv
  <2> QED BY <2>1, <2>2 DEF Bind
<1>4. DecisionOK'
  BY <1>1, <1>3, DecisionStep DEF BaseInv, DecisionOK, Stages
<1> QED BY <1>3, <1>4 DEF BaseInv

\* The login becomes a session of the profile.
LEMMA RecordInv == ASSUME BaseInv, NEW c \in Conns, Record(c) PROVE BaseInv'
<1>1. pc[c] = "accepted" /\ pc' = [pc EXCEPT ![c] = "in"]
      /\ UNCHANGED <<clock, restarts, faults, req, sticky, bound, slotAt, pools, bindings, saved>>
  BY DEF Record, Goto
<1>2. req[c].user \in Users /\ req[c].src \in Sources /\ clock \in Nat
  BY <1>1 DEF BaseInv, DecisionOK, UserKnown, Request
<1>3. DOMAIN sessions' = DOMAIN sessions \cup {c}
      /\ sessions'[c] = [src |-> req[c].src, user |-> req[c].user, active |-> TRUE, last |-> clock]
      /\ \A x \in DOMAIN sessions : x # c => sessions'[x] = sessions[x]
  BY DEF Record
<1>4. sessions'[c] \in Session
  BY <1>2, <1>3 DEF Session
<1>5. DOMAIN sessions' \subseteq Conns /\ \A x \in DOMAIN sessions' : sessions'[x] \in Session
  BY <1>3, <1>4 DEF BaseInv, DecisionOK
<1>6. DecisionOK'
  BY <1>1, <1>5, DecisionStep DEF BaseInv, DecisionOK, Stages
<1> QED BY <1>1, <1>6, SameState DEF BaseInv

\* The session is not active any more.
LEMMA DisconnectInv == ASSUME BaseInv, NEW c \in Conns, Disconnect(c) PROVE BaseInv'
<1>1. pc[c] = "in" /\ pc' = [pc EXCEPT ![c] = "left"]
      /\ UNCHANGED <<clock, restarts, faults, req, sticky, bound, slotAt, pools, bindings, saved>>
  BY DEF Disconnect, Goto
<1>2. sessions' = [sessions EXCEPT ![c].active = FALSE, ![c].last = clock] /\ clock \in Nat
  BY DEF Disconnect, BaseInv, DecisionOK
<1>3. DOMAIN sessions' = DOMAIN sessions /\ \A x \in DOMAIN sessions : x # c => sessions'[x] = sessions[x]
  BY <1>2
<1>4. c \in DOMAIN sessions => sessions'[c] \in Session
  BY <1>2 DEF BaseInv, DecisionOK, Session
<1>5. DOMAIN sessions' \subseteq Conns /\ \A x \in DOMAIN sessions' : sessions'[x] \in Session
  BY <1>3, <1>4 DEF BaseInv, DecisionOK
<1>6. DecisionOK'
  BY <1>1, <1>5, DecisionStep DEF BaseInv, DecisionOK, Stages
<1> QED BY <1>1, <1>6, SameState DEF BaseInv

\* initSSHCredentialReality reads back a state within its bounds.
LEMMA RestartInv == ASSUME BaseInv, Restart PROVE BaseInv'
<1>1. /\ restarts' = restarts + 1 /\ pools' = saved.pools /\ bindings' = saved.bindings
      /\ sessions' = [x \in DOMAIN sessions |-> [sessions[x] EXCEPT !.active = FALSE]]
      /\ pc' = [c \in Conns |-> IF pc[c] = "idle" THEN "idle"
                                ELSE IF pc[c] \in {"in", "left"} THEN "left" ELSE "rejected"]
      /\ UNCHANGED <<clock, faults, req, sticky, bound, slotAt, saved>>
  BY DEF Restart
<1>2. StateOK' /\ Written'
  BY <1>1 DEF BaseInv, StateOK, Written
<1>3. DOMAIN sessions' \subseteq Conns /\ \A c \in DOMAIN sessions' : sessions'[c] \in Session
  BY <1>1 DEF BaseInv, DecisionOK, Session
<1>4. pc' \in [Conns -> Stages]
  BY <1>1 DEF Stages
<1>5. \A c \in Conns : UserKnown(c)'
  BY <1>1 DEF BaseInv, DecisionOK, UserKnown
<1>6. DecisionOK'
  BY <1>1, <1>3, <1>4, <1>5 DEF BaseInv, DecisionOK
<1> QED BY <1>2, <1>6 DEF BaseInv

\* Time passes for the state in memory and in the file alike.
LEMMA TickInv == ASSUME BaseInv, Tick PROVE BaseInv'
<1>1. clock \in Nat /\ clock' = clock + 1
      /\ UNCHANGED <<restarts, faults, pc, req, sticky, bound, slotAt, pools, bindings, saved, sessions>>
  BY DEF Tick, decision, BaseInv, DecisionOK
<1>2. clock' \in Nat /\ clock <= clock'
  BY <1>1
<1>3. StateOK'
  BY <1>1, <1>2, Aging DEF BaseInv, StateOK
<1>4. DecisionOK'
  BY <1>1, <1>2 DEF BaseInv, DecisionOK, UserKnown
<1> QED BY <1>1, <1>3, <1>4 DEF BaseInv, Written

\* The base invariant holds of the empty state and is kept by every step.
LEMMA BaseInvariance == Spec => []BaseInv
<1>1. Init => BaseInv
  <2> SUFFICES ASSUME Init PROVE BaseInv
    OBVIOUS
  <2>1. DecisionOK
    BY AuthAssumption DEF Init, DecisionOK, Stages, UserKnown
  <2>2. pools = [u \in Users |-> {}] /\ DOMAIN bindings = {}
        /\ saved.pools = pools /\ saved.bindings = bindings
    BY DEF Init
  <2>3. StateOK
    BY <2>2, FS_EmptySet, AuthAssumption DEF StateOK, PoolsOK, BindingsOK
  <2> QED BY <2>1, <2>2, <2>3 DEF BaseInv, Written
<1>2. ASSUME BaseInv, [Next]_vars PROVE BaseInv'
  <2>1. CASE UNCHANGED vars
    BY <1>2, <2>1 DEF vars, decision, BaseInv, DecisionOK, UserKnown, StateOK, Written
  <2> QED BY <1>2, <2>1, TickInv, RestartInv, ReadProfileInv, SourceStatusInv, CredentialStatusInv,
             PolicyInv, EstablishInv, BindInv, RecordInv, DisconnectInv DEF Next, Step
<1> QED BY <1>1, <1>2, PTL DEF Spec

\* The type invariant, for decisions, pools, bindings and sessions.
THEOREM TypeCorrect == Spec => []TypeOK
<1>1. BaseInv => TypeOK
  BY DEF BaseInv, DecisionOK, StateOK, PoolsOK, BindingsOK, TypeOK
<1> QED BY <1>1, BaseInvariance, PTL

\* Parallel decisions never overfill what the store keeps: at most sshCredentialPoolSize
\* slots of an account and 4096 bindings, in memory and in ssh-auth-reality.json, and the
\* file is the memory as long as every save succeeded.
THEOREM CredentialStateBounded == Spec => [](StateOK /\ Written)
<1>1. BaseInv => StateOK /\ Written
  BY DEF BaseInv
<1> QED BY <1>1, BaseInvariance, PTL

----------------------------------------------------------------------------
(* Recent passwords keep their slot *)

\* A step that leaves the pools alone, and lets no new decision have a slot.
LEMMA SeenSame ==
  ASSUME BaseInv, BaseInv', SlotsSeen, clock <= clock', UNCHANGED <<req, slotAt>>,
         WithSlot' \subseteq WithSlot,
         (faults' = 0 \/ restarts' = 0) => (faults = 0 \/ restarts = 0) /\ pools' = pools
  PROVE  SlotsSeen'
<1> SUFFICES ASSUME faults' = 0 \/ restarts' = 0, NEW c \in WithSlot',
                    clock' - slotAt[c] < RotateAfter
             PROVE  SlotSeen(c)'
  BY DEF SlotsSeen
<1>1. c \in WithSlot /\ c \in Conns
  BY DEF WithSlot
<1>2. clock \in Nat /\ clock' \in Nat /\ slotAt[c] \in Nat /\ RotateAfter \in Nat
  BY <1>1, AuthAssumption DEF BaseInv, DecisionOK
<1>3. clock - slotAt[c] < RotateAfter
  BY <1>2
<1>4. SlotSeen(c)
  BY <1>1, <1>3 DEF SlotsSeen
<1> QED BY <1>4 DEF SlotSeen, Pool

\* A slot that is seen, made or rotated in costs no recent password its slot: what goes
\* is the slot of the same password or one that was idle long enough.
LEMMA SeenTouch ==
  ASSUME BaseInv, SlotsSeen, NEW c \in Conns, req[c].user \in Users, NEW keep \in SUBSET Pool(c),
         Touch(c, keep), \A slot \in Pool(c) \ keep : slot.pw = req[c].pw \/ IdleEnough(slot),
         UNCHANGED <<clock, restarts, req>>, Save \/ SaveFails, WithSlot' \subseteq WithSlot \cup {c}
  PROVE  SlotsSeen'
<1> DEFINE new == [pw |-> req[c].pw, last |-> clock]
<1> SUFFICES ASSUME faults' = 0 \/ restarts' = 0, NEW d \in WithSlot',
                    clock - slotAt'[d] < RotateAfter
             PROVE  SlotSeen(d)'
  BY DEF SlotsSeen
<1>1. d \in Conns /\ clock \in Nat /\ slotAt \in [Conns -> Nat] /\ RotateAfter \in Nat
      /\ slotAt[d] <= clock
  BY AuthAssumption DEF WithSlot, BaseInv, DecisionOK
<1>2. /\ pools \in [Users -> SUBSET Slot] /\ Pool(c) = pools[req[c].user]
      /\ pools' = [pools EXCEPT ![req[c].user] = keep \cup {new}]
      /\ slotAt' = [slotAt EXCEPT ![c] = clock]
  BY DEF BaseInv, StateOK, PoolsOK, Pool, Touch
<1>3. pools'[req[c].user] = keep \cup {new} /\ new.pw = req[c].pw /\ new.last = clock
      /\ \A u \in Users : u # req[c].user => pools'[u] = pools[u]
  BY <1>2
<1>4. Pool(d)' = pools'[req[d].user]
  BY DEF Pool
<1> HIDE DEF new
<1>5. CASE d = c
  <2>1. slotAt'[c] = clock
    BY <1>1, <1>2
  <2>2. new \in Pool(c)'
    BY <1>3, <1>4, <1>5
  <2>3. new.pw = req'[c].pw /\ new.last >= slotAt'[c]
    BY <1>1, <1>3, <2>1
  <2> QED BY <1>5, <2>2, <2>3 DEF SlotSeen
<1>6. CASE d # c
  <2>1. slotAt'[d] = slotAt[d] /\ d \in WithSlot
    BY <1>1, <1>2, <1>6
  <2>2. faults = 0 \/ restarts = 0
    BY DEF Save, SaveFails, BaseInv, DecisionOK
  <2>3. SlotSeen(d)
    BY <2>1, <2>2 DEF SlotsSeen
  <2>4. PICK slot \in Pool(d) : slot.pw = req[d].pw /\ slot.last >= slotAt[d]
    BY <2>3 DEF SlotSeen
  <2>5. req[d].user \in Users
    BY <2>1 DEF WithSlot, BaseInv, DecisionOK, UserKnown
  <2>6. slot.last \in Nat
    BY <1>2, <2>4, <2>5 DEF Pool, Slot
  <2>7. CASE slot \in Pool(d)'
    BY <2>1, <2>4, <2>7 DEF SlotSeen
  <2>8. CASE slot \notin Pool(d)'
    <3>1. req[d].user = req[c].user
      BY <1>3, <1>4, <2>4, <2>5, <2>8 DEF Pool
    <3>2. slot \in Pool(c) \ keep
      BY <1>3, <1>4, <2>4, <2>8, <3>1 DEF Pool
    <3>3. ~IdleEnough(slot)
      BY <1>1, <2>1, <2>4, <2>6 DEF IdleEnough
    <3>4. slot.pw = req[c].pw
      BY <3>2, <3>3
    <3>5. new \in Pool(d)' /\ new.pw = req[d].pw /\ new.last >= slotAt[d]
      BY <1>1, <1>3, <1>4, <2>4, <3>1, <3>4
    <3> QED BY <2>1, <3>5 DEF SlotSeen
  <2> QED BY <2>7, <2>8
<1> QED BY <1>5, <1>6

\* No step takes the slot of a password that got in recently.
LEMMA SeenStep == ASSUME BaseInv, BaseInv', SlotsSeen, [Next]_vars PROVE SlotsSeen'
<1> USE DEF WithSlot
<1>0. clock \in Nat /\ restarts \in Nat /\ faults \in Nat
  BY DEF BaseInv, DecisionOK
<1>1. CASE UNCHANGED vars \/ Tick
  BY <1>1, <1>0, SeenSame DEF vars, decision, Tick
<1>2. CASE Restart
  <2>1. UNCHANGED <<req, slotAt, clock, faults>> /\ restarts' = restarts + 1 /\ pools' = saved.pools
    BY <1>2 DEF Restart
  <2>2. WithSlot' \subseteq WithSlot
    BY <1>2 DEF Restart
  <2>3. (faults' = 0 \/ restarts' = 0) => faults = 0 /\ pools' = pools
    BY <2>1, <1>0 DEF BaseInv, Written
  <2> QED BY <2>1, <2>2, <2>3, <1>0, SeenSame
<1>3. ASSUME NEW c \in Conns, ReadProfile(c) \/ SourceStatus(c) \/ Policy(c) PROVE SlotsSeen'
  <2>1. UNCHANGED <<req, slotAt, clock, restarts, pools>>
    BY <1>3 DEF ReadProfile, SourceStatus, Policy
  <2>2. \E s \in {"source", "credential", "establish", "rejected"} : pc' = [pc EXCEPT ![c] = s]
    BY <1>3 DEF ReadProfile, SourceStatus, Policy, Goto
  <2>3. WithSlot' \subseteq WithSlot
    BY <2>2 DEF BaseInv, DecisionOK
  <2>4. faults' = faults \/ faults' = faults + 1
    BY <1>3 DEF ReadProfile, SourceStatus, Policy, Save, SaveFails
  <2> QED BY <2>1, <2>3, <2>4, <1>0, SeenSame
<1>4. ASSUME NEW c \in Conns, Bind(c) \/ Record(c) \/ Disconnect(c) PROVE SlotsSeen'
  <2>1. UNCHANGED <<req, slotAt, clock, restarts, pools>> /\ pc[c] \in {"bind", "accepted", "in"}
        /\ \E s \in Stages : pc' = [pc EXCEPT ![c] = s]
    BY <1>4 DEF Bind, Record, Disconnect, Goto, Stages
  <2>2. WithSlot' \subseteq WithSlot
    BY <2>1 DEF BaseInv, DecisionOK
  <2>3. faults' = faults \/ faults' = faults + 1
    BY <1>4 DEF Bind, Record, Disconnect, Save, SaveFails
  <2> QED BY <2>1, <2>2, <2>3, <1>0, SeenSame
<1>5. ASSUME NEW c \in Conns, CredentialStatus(c) PROVE SlotsSeen'
  <2>1. pc[c] = "credential" /\ UNCHANGED <<clock, restarts, req>> /\ req[c].user \in Users
    BY <1>5 DEF CredentialStatus, BaseInv, DecisionOK, UserKnown
  <2>2. CASE HasSlot(c) /\ Touch(c, Others(c)) /\ (Save \/ SaveFails)
    <3>1. \E s \in Stages : pc' = [pc EXCEPT ![c] = s]
      BY <1>5 DEF CredentialStatus, Goto, Stages
    <3>2. WithSlot' \subseteq WithSlot \cup {c}
      BY <3>1 DEF BaseInv, DecisionOK
    <3>3. Others(c) \in SUBSET Pool(c) /\ \A slot \in Pool(c) \ Others(c) : slot.pw = req[c].pw
      BY DEF Others
    <3> QED BY <2>1, <2>2, <3>2, <3>3, SeenTouch
  <2>3. CASE /\ UNCHANGED <<slotAt, pools, faults>>
             /\ pc' = [pc EXCEPT ![c] = IF LegacySticky(c) THEN "establish" ELSE "policy"]
    <3>1. WithSlot' \subseteq WithSlot
      BY <2>3 DEF BaseInv, DecisionOK
    <3> QED BY <2>1, <2>3, <3>1, <1>0, SeenSame
  <2> QED BY <1>5, <2>2, <2>3 DEF CredentialStatus, Goto
<1>6. ASSUME NEW c \in Conns, Establish(c) PROVE SlotsSeen'
  <2>1. pc[c] = "establish" /\ UNCHANGED <<clock, restarts, req>> /\ req[c].user \in Users
    BY <1>6 DEF Establish, BaseInv, DecisionOK, UserKnown
  <2>2. CASE UNCHANGED <<slotAt, pools, saved, faults>> /\ pc' = [pc EXCEPT ![c] = "rejected"]
    <3>1. WithSlot' \subseteq WithSlot
      BY <2>2 DEF BaseInv, DecisionOK
    <3> QED BY <2>1, <2>2, <3>1, <1>0, SeenSame
  <2>3. ASSUME NEW keep \in SUBSET Pool(c), Touch(c, keep), Save \/ SaveFails,
               \A slot \in Pool(c) \ keep : slot.pw = req[c].pw \/ IdleEnough(slot),
               \E s \in {"bind", "rejected"} : pc' = [pc EXCEPT ![c] = s]
        PROVE  SlotsSeen'
    <3>1. WithSlot' \subseteq WithSlot \cup {c}
      BY <2>3 DEF BaseInv, DecisionOK
    <3> QED BY <2>1, <2>3, <3>1, SeenTouch
  <2> QED BY <1>6, <2>2, <2>3, EstablishCases
<1> QED BY <1>1, <1>2, <1>3, <1>4, <1>5, <1>6 DEF Next, Step

\* "only a slot that has been idle long enough may rotate out": however the decisions of
\* parallel connections interleave between the calls of the store, a password that got in
\* less than sshCredentialRotateAfter ago still has its slot, also after a restart, unless
\* the restart read back a state whose successor could not be saved.
THEOREM RecentSlotsKept == Spec => []RecentKeepSlot
<1>1. Init => SlotsSeen
  BY DEF Init, SlotsSeen, WithSlot
<1>2. Spec => []SlotsSeen
  BY <1>1, SeenStep, BaseInvariance, PTL DEF Spec
<1>3. SlotsSeen => RecentKeepSlot
  BY DEF SlotsSeen, SlotSeen, RecentKeepSlot, HasSlot
<1> QED BY <1>2, <1>3, PTL

----------------------------------------------------------------------------
(* Bindings *)

\* BindSSHSourceCredential keeps the password of a binding, and drops one only when it
\* is too old or 4096 others are at least as recent.
LEMMA BindKeeps ==
  ASSUME BaseInv, NEW c \in Conns, Bind(c), NEW k \in DOMAIN bindings
  PROVE  IF k \in DOMAIN bindings' THEN bindings'[k].pw = bindings[k].pw
         ELSE \/ clock - bindings[k].last > BindingTTL
              \/ Cardinality({j \in DOMAIN bindings' :
                   bindings'[j].last >= bindings[k].last}) >= MaxBindings
<1>1. CASE bindings' = bindings
  BY <1>1
<1>2. CASE bindings' # bindings
  <2>1. req[c].user \in Users /\ clock \in Nat /\ BindingTTL \in Nat /\ MaxBindings \in Nat
    BY AuthAssumption DEF Bind, BaseInv, DecisionOK, UserKnown
  <2>2. k \in DOMAIN Bound(c) /\ (k # Key(c) => Bound(c)[k] = bindings[k])
        /\ Bound(c)[Key(c)] = [pw |-> req[c].pw, last |-> clock]
        /\ \A j \in DOMAIN Bound(c) : Bound(c)[j].last \in Nat
    BY <2>1, BoundTypes DEF Binding
  <2>3. bindings[k].last \in Nat /\ bindings[k].last <= clock
    BY DEF BaseInv, StateOK, BindingsOK, Binding
  <2>4. Bound(c)[k].last \in Nat /\ bindings[k].last <= Bound(c)[k].last
    BY <2>1, <2>2, <2>3
  <2>5. CASE k \in DOMAIN bindings'
    <3>1. bindings'[k] = Bound(c)[k] /\ MayBind(c)
      BY <1>2, <2>5, BindEffect
    <3>2. Bound(c)[k].pw = bindings[k].pw
      BY <2>2, <3>1 DEF MayBind
    <3> QED BY <2>5, <3>1, <3>2
  <2>6. CASE k \notin DOMAIN bindings'
    <3>1. \/ clock - Bound(c)[k].last > BindingTTL
          \/ /\ Cardinality(DOMAIN bindings') = MaxBindings
             /\ \A j \in DOMAIN bindings' : Bound(c)[k].last <= Bound(c)[j].last
      BY <1>2, <2>2, <2>6, BindEffect
    <3>2. CASE clock - Bound(c)[k].last > BindingTTL
      BY <2>1, <2>3, <2>4, <2>6, <3>2
    <3>3. CASE /\ Cardinality(DOMAIN bindings') = MaxBindings
               /\ \A j \in DOMAIN bindings' : Bound(c)[k].last <= Bound(c)[j].last
      <4>1. ASSUME NEW j \in DOMAIN bindings' PROVE bindings'[j].last >= bindings[k].last
        <5>1. j \in DOMAIN Bound(c) /\ bindings'[j] = Bound(c)[j]
          BY <1>2, BindEffect
        <5>2. Bound(c)[j].last \in Nat /\ Bound(c)[k].last <= Bound(c)[j].last
          BY <2>2, <3>3, <5>1
        <5> QED BY <2>3, <2>4, <5>1, <5>2
      <4>2. {j \in DOMAIN bindings' : bindings'[j].last >= bindings[k].last} = DOMAIN bindings'
        BY <4>1
      <4> QED BY <2>1, <2>6, <3>3, <4>2
    <3> QED BY <3>1, <3>2, <3>3
  <2> QED BY <2>5, <2>6
<1> QED BY <1>1, <1>2

\* A source keeps the password it got in with: no decision replaces it, and the binding
\* goes only when it is older than its 30 days or 4096 others are at least as recent; a
\* restart does not touch it unless a save has failed.
THEOREM BindingsStick == Spec => BindingSticks
<1> DEFINE Sticks(k) ==
      IF k \in DOMAIN bindings' THEN bindings'[k].pw = bindings[k].pw
      ELSE \/ clock - bindings[k].last > BindingTTL
           \/ Cardinality({j \in DOMAIN bindings' :
                bindings'[j].last >= bindings[k].last}) >= MaxBindings
<1>1. ASSUME BaseInv, [Next]_vars, restarts' = restarts \/ faults = 0, NEW k \in DOMAIN bindings
      PROVE  Sticks(k)
  <2>1. CASE bindings' = bindings
    BY <2>1
  <2>2. ASSUME NEW c \in Conns, SourceStatus(c) PROVE Sticks(k)
    <3>1. bindings' = bindings \/ bindings' = [bindings EXCEPT ![Key(c)].last = clock]
      BY <2>2 DEF SourceStatus
    <3>2. k \in DOMAIN bindings' /\ bindings'[k].pw = bindings[k].pw
      BY <1>1, <3>1 DEF BaseInv, StateOK, BindingsOK, Binding
    <3> QED BY <3>2
  <2>3. ASSUME NEW c \in Conns, Bind(c) PROVE Sticks(k)
    BY <1>1, <2>3, BindKeeps
  <2>4. CASE Restart
    <3>1. bindings' = bindings
      BY <1>1, <2>4 DEF Restart, BaseInv, DecisionOK, Written
    <3> QED BY <3>1
  <2>5. CASE UNCHANGED vars \/ Tick
    BY <2>1, <2>5 DEF vars, Tick
  <2>6. ASSUME NEW c \in Conns, ReadProfile(c) \/ CredentialStatus(c) \/ Policy(c) \/ Establish(c)
                                \/ Record(c) \/ Disconnect(c)
        PROVE  Sticks(k)
    BY <2>1, <2>6 DEF ReadProfile, CredentialStatus, Policy, Establish, Record, Disconnect
  <2> QED BY <1>1, <2>2, <2>3, <2>4, <2>5, <2>6 DEF Next, Step
<1>2. BaseInv /\ [Next]_vars =>
        [(restarts' = restarts \/ faults = 0) => \A k \in DOMAIN bindings : Sticks(k)]_vars
  BY <1>1
<1> QED BY <1>2, BaseInvariance, PTL DEF Spec, BindingSticks

=============================================================================
