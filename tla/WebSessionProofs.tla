-------------------------- MODULE WebSessionProofs --------------------------
(***************************************************************************)
(* Proofs about WebSession, for every set of requests, every choice of     *)
(* lock stripes and every bound: IInv is inductive and implies the safety  *)
(* properties the runs check.                                              *)
(***************************************************************************)
EXTENDS WebSession, WellFoundedInduction, SequenceTheorems,
        FiniteSetTheorems, TLAPS

Below == {ss \in Nat \X Nat : ss[1] < ss[2]}

\* The naturals are well founded under "less than", in first-order form.
LEMMA BelowWellFounded == IsWellFoundedOn(Below, Nat)
BY NatLessThanWellFounded DEF OpToRel, Below

\* A non-empty set of positions of a sequence has a last one.
LEMMA LastPosition ==
  ASSUME NEW n \in Nat, NEW T, T \subseteq 1..n, T # {}
  PROVE  \E x \in T : \A y \in T : y <= x
<1> DEFINE U == {k \in Nat : n - k \in T}
<1>1. U \subseteq Nat /\ U # {}
  <2>1. PICK x \in T : TRUE
    OBVIOUS
  <2>2. n - x \in Nat /\ n - (n - x) = x
    BY <2>1
  <2>3. n - x \in U
    BY <2>1, <2>2
  <2> QED BY <2>3
<1>2. PICK u \in U : \A v \in U : ~ (<<v, u>> \in Below)
  BY <1>1, BelowWellFounded, WFMin
<1>3. ASSUME NEW v \in U PROVE u <= v
  <2>1. u \in Nat /\ v \in Nat
    BY <1>2
  <2>2. v < u => <<v, u>> \in Below
    BY <2>1 DEF Below
  <2> QED BY <1>2, <2>1, <2>2
<1>4. n - u \in T
  BY <1>2
<1>5. ASSUME NEW y \in T PROVE y <= n - u
  <2>1. n - y \in Nat /\ n - (n - y) = y
    OBVIOUS
  <2>2. n - y \in U
    BY <2>1
  <2>3. u <= n - y
    BY <2>2, <1>3
  <2>4. u \in Nat /\ y \in Nat
    BY <1>2
  <2> QED BY <2>3, <2>4
<1> QED BY <1>4, <1>5

----------------------------------------------------------------------------
(* Comparing the counters of two states of a session *)

\* Arithmetic of one more request: the order on log entries is strict and transitive.
LEMMA Counting ==
  ASSUME NEW e \in Session, NEW f \in Session, NEW g \in Session
  PROVE  /\ Before(e, f) => AtMost(e, f)
         /\ AtMost(e, e)
         /\ AtMost(e, f) /\ AtMost(f, g) => AtMost(e, g)
         /\ AtMost(e, f) /\ Before(f, g) => Before(e, g)
BY DEF Session, Before, AtMost

----------------------------------------------------------------------------
(* Steps that write neither the store nor the log *)

\* The empty store satisfies the invariant.
LEMMA InitInv == ASSUME Init PROVE IInv
<1> USE WebAssumption
<1>1. TypeOK
  BY DEF Init, TypeOK, Stages, HoldsSess, HasCopy
<1>2. LocksHeld /\ CopiesStored /\ CopyCurrent
  BY DEF Init, LocksHeld, CopiesStored, CopyCurrent, CurrentCopy, HoldsFp, HoldsSess, HasCopy
<1>3. StoredIds /\ LoggedIds /\ FreshIds /\ CopyIds
  BY DEF Init, StoredIds, LoggedIds, FreshIds, CopyIds, HasCopy, Minted, TargetKept, OpenedNamed
<1>4. StoreCurrent /\ NoLostRequest /\ LogOrdered /\ IndexSound /\ AutomationSticky
  BY DEF Init, StoreCurrent, NoLostRequest, LogOrdered, IndexSound, AutomationSticky, OpenedNamed
<1> QED BY <1>1, <1>2, <1>3, <1>4 DEF IInv

\* The clock does not touch what the invariant speaks of.
LEMMA TickInv == ASSUME IInv, Tick PROVE IInv'
<1> USE DEF IInv, Tick, worker, store, history
<1>1. TypeOK'
  BY DEF TypeOK, HoldsSess, HasCopy
<1>2. (LocksHeld /\ CopiesStored /\ CopyCurrent)'
  BY DEF LocksHeld, CopiesStored, CopyCurrent, CurrentCopy, HoldsFp, HoldsSess, HasCopy, LoggedAtMost, LoggedBefore
<1>3. (StoredIds /\ LoggedIds /\ FreshIds /\ CopyIds)'
  BY DEF StoredIds, LoggedIds, FreshIds, CopyIds, HasCopy, Minted, TargetKept, OpenedNamed
<1>4. (StoreCurrent /\ NoLostRequest /\ LogOrdered /\ IndexSound /\ AutomationSticky)'
  BY DEF StoreCurrent, NoLostRequest, LogOrdered, IndexSound, AutomationSticky, LoggedAtMost, OpenedNamed
<1> QED BY <1>1, <1>2, <1>3, <1>4

\* A worker that holds neither a lock nor a copy of a session moves on to another stage
\* of that kind; the store, the log and the copies of the others stay as they are.
LEMMA IdleMoves ==
  ASSUME TypeOK, NEW r \in Requests, pc[r] \in {"idle", "admitted"}, NEW s \in {"admitted", "done"},
         pc' = [pc EXCEPT ![r] = s]
  PROVE  /\ \A q \in Requests : /\ HasCopy(q)' <=> HasCopy(q)
                                /\ HoldsFp(q)' <=> HoldsFp(q)
                                /\ HoldsSess(q)' <=> HoldsSess(q)
                                /\ \A t \in {"found", "locked", "ready", "judged", "upserted"} :
                                     pc'[q] = t <=> pc[q] = t
         /\ Minted \subseteq Minted' /\ pc' \in [Requests -> Stages]
<1>1. pc'[r] = s /\ \A q \in Requests \ {r} : pc'[q] = pc[q]
  BY DEF TypeOK
<1>2. pc' \in [Requests -> Stages]
  BY DEF TypeOK, Stages
<1>3. Minted \subseteq Minted'
  BY <1>1 DEF Minted
<1>4. ASSUME NEW q \in Requests
      PROVE  /\ HasCopy(q)' <=> HasCopy(q)
             /\ HoldsFp(q)' <=> HoldsFp(q)
             /\ HoldsSess(q)' <=> HoldsSess(q)
             /\ \A t \in {"found", "locked", "ready", "judged", "upserted"} : pc'[q] = t <=> pc[q] = t
  <2>1. CASE q = r
    BY <1>1, <2>1 DEF HasCopy, HoldsFp, HoldsSess
  <2>2. CASE q # r
    BY <1>1, <2>2 DEF HasCopy, HoldsFp, HoldsSess
  <2> QED BY <2>1, <2>2
<1> QED BY <1>2, <1>3, <1>4

LEMMA IdleInv ==
  ASSUME IInv, NEW r \in Requests, pc[r] \in {"idle", "admitted"}, NEW s \in {"admitted", "done"},
         pc' = [pc EXCEPT ![r] = s], UNCHANGED <<client, fpLock, sessLock, store, log, history>>,
         \A q \in Requests : HasCopy(q) \/ pc[q] = "upserted" => copy'[q] = copy[q] /\ created'[q] = created[q],
         TypeOK'
  PROVE  IInv'
<1> DEFINE Same(q) == /\ HasCopy(q)' <=> HasCopy(q)
                      /\ HoldsFp(q)' <=> HoldsFp(q)
                      /\ HoldsSess(q)' <=> HoldsSess(q)
                      /\ \A t \in {"found", "locked", "ready", "judged", "upserted"} : pc'[q] = t <=> pc[q] = t
<1>1. TypeOK /\ (\A q \in Requests : Same(q)) /\ Minted \subseteq Minted'
  BY IdleMoves DEF IInv
<1>2. UNCHANGED <<client, fpLock, sessLock, sessions, fingerprints, log, served, convicted, promoted, evicted>>
  BY DEF store, history
<1>3. \A q \in Requests : (HasCopy(q) \/ HoldsSess(q) \/ pc[q] = "upserted")
                            => copy'[q] = copy[q] /\ created'[q] = created[q]
  BY DEF HasCopy, HoldsSess
<1>4. LocksHeld'
  BY ONLY IInv, <1>1, <1>2, <1>3 DEF IInv, LocksHeld
<1>5. CopiesStored'
  BY ONLY IInv, <1>1, <1>2, <1>3 DEF IInv, CopiesStored
<1>6. CopyCurrent'
  <2> SUFFICES ASSUME NEW q \in Requests PROVE CurrentCopy(q)'
    BY DEF CopyCurrent
  <2>1. CurrentCopy(q) /\ Same(q)
    BY <1>1 DEF IInv, CopyCurrent
  <2>2. CASE pc[q] \in {"ready", "judged", "upserted"}
    <3>1. copy'[q] = copy[q]
      BY ONLY <1>3, <2>2 DEF HasCopy
    <3>2. LoggedAtMost(copy[q])' <=> LoggedAtMost(copy[q])
      BY ONLY <1>2, <3>1 DEF LoggedAtMost
    <3>3. LoggedBefore(copy[q])' <=> LoggedBefore(copy[q])
      BY ONLY <1>2, <3>1 DEF LoggedBefore
    <3> QED BY ONLY <1>2, <2>1, <3>1, <3>2, <3>3 DEF CurrentCopy
  <2>3. CASE pc[q] \notin {"ready", "judged", "upserted"}
    BY ONLY <2>1, <2>3 DEF CurrentCopy
  <2> QED BY <2>2, <2>3
<1>7. (StoredIds /\ LoggedIds)'
  BY ONLY IInv, <1>1, <1>2 DEF IInv, StoredIds, LoggedIds, TargetOf, TargetKept, OpenedNamed
<1>8. FreshIds'
  BY ONLY IInv, <1>1, <1>2 DEF IInv, FreshIds
<1>9. CopyIds'
  <2> DEFINE Ids(q) == /\ HasCopy(q) \/ pc[q] = "upserted" => TargetKept(copy[q])
                       /\ HasCopy(q) => (OpenedNamed(copy[q].id) =>
                                           TargetOf(client[q]) = TargetOf(client[copy[q].id]))
                       /\ HasCopy(q) /\ created[q] => copy[q].id = q
                       /\ HasCopy(q) /\ ~created[q] => copy[q].id \in Minted
                       /\ pc[q] \in {"found", "locked", "ready"} /\ created[q] =>
                            copy[q].req = 0 /\ copy[q].auto = FALSE
                       /\ pc[q] = "upserted" => copy[q].id \in Minted
  <2>1. ASSUME NEW q \in Requests PROVE Ids(q)'
    <3>1. Ids(q) /\ Same(q)
      BY <1>1 DEF IInv, CopyIds, TargetKept, OpenedNamed
    <3>2. CASE HasCopy(q) \/ pc[q] = "upserted"
      <4>1. copy'[q] = copy[q] /\ created'[q] = created[q] /\ client' = client
        BY ONLY <1>2, <1>3, <3>2
      <4> QED BY ONLY <1>1, <3>1, <4>1 DEF TargetOf, TargetKept, OpenedNamed
    <3>3. CASE ~HasCopy(q) /\ pc[q] # "upserted"
      <4>1. pc[q] \notin {"found", "locked", "ready", "upserted"}
        BY ONLY <3>3 DEF HasCopy
      <4>2. ~HasCopy(q)' /\ pc'[q] \notin {"found", "locked", "ready", "upserted"}
        BY ONLY <3>1, <3>3, <4>1
      <4> QED BY ONLY <4>2
    <3> QED BY <3>2, <3>3
  <2> QED BY ONLY <2>1 DEF CopyIds
<1>10. StoreCurrent'
  <2> SUFFICES ASSUME NEW k \in DOMAIN sessions \ evicted
               PROVE  /\ LoggedAtMost(sessions[k])'
                      /\ \A q \in Requests : (pc'[q] = "upserted" /\ copy'[q].id = k) =>
                           /\ sessions[k].req = copy'[q].req /\ sessions[k].visit = copy'[q].visit
                           /\ sessions[k].vreq = copy'[q].vreq
    BY <1>2 DEF StoreCurrent
  <2>1. LoggedAtMost(sessions[k])'
    BY <1>2 DEF IInv, StoreCurrent, LoggedAtMost
  <2>2. ASSUME NEW q \in Requests, pc'[q] = "upserted" /\ copy'[q].id = k
        PROVE  /\ sessions[k].req = copy'[q].req /\ sessions[k].visit = copy'[q].visit
               /\ sessions[k].vreq = copy'[q].vreq
    <3>1. pc[q] = "upserted" /\ copy'[q] = copy[q]
      BY <1>1, <1>3, <2>2
    <3> QED BY <2>2, <3>1 DEF IInv, StoreCurrent
  <2> QED BY <2>1, <2>2
<1>11. (NoLostRequest /\ LogOrdered /\ IndexSound /\ AutomationSticky)'
  BY ONLY IInv, <1>2 DEF IInv, NoLostRequest, LogOrdered, IndexSound, AutomationSticky, OpenedNamed
<1> QED BY <1>4, <1>5, <1>6, <1>7, <1>8, <1>9, <1>10, <1>11 DEF IInv

\* An arriving request (the semaphore of handle) keeps the invariant.
LEMMA ArriveInv == ASSUME IInv, NEW r \in Requests, Arrive(r) PROVE IInv'
<1>1. pc[r] = "idle" /\ UNCHANGED <<clock, restarts, client, copy, created, fpLock, sessLock, store, log, history>>
  BY DEF Arrive
<1>2. PICK s \in {"admitted", "done"} : pc' = [pc EXCEPT ![r] = s]
  BY DEF Arrive, Goto
<1>3. cookie' \in [Requests -> Requests \cup {None}] /\ arrival' \in [Requests -> Nat] /\ sem' \in Int
  <2>1. CASE UNCHANGED <<sem, cookie, arrival>>
    BY <2>1 DEF IInv, TypeOK
  <2>2. CASE \E c \in Issued \cup {None} : cookie' = [cookie EXCEPT ![r] = c] /\ sem' = sem + 1
                                           /\ arrival' = [arrival EXCEPT ![r] = clock]
    <3>1. PICK c \in Requests \cup {None} : cookie' = [cookie EXCEPT ![r] = c]
      BY <2>2 DEF Issued
    <3>2. clock \in Nat /\ sem \in Int /\ arrival \in [Requests -> Nat]
          /\ cookie \in [Requests -> Requests \cup {None}]
      BY DEF IInv, TypeOK
    <3> QED BY ONLY <2>2, <3>1, <3>2, r \in Requests
  <2> QED BY <2>1, <2>2 DEF Arrive
<1>4. /\ \A q \in Requests : (HasCopy(q)' <=> HasCopy(q)) /\ (HoldsSess(q)' <=> HoldsSess(q))
      /\ pc' \in [Requests -> Stages]
  BY <1>1, <1>2, IdleMoves DEF IInv
<1>5. TypeOK'
  BY ONLY IInv, <1>1, <1>3, <1>4 DEF IInv, TypeOK, store, history
<1> QED BY <1>1, <1>2, <1>5, IdleInv

\* The early return of a verified integration check keeps the invariant.
LEMMA IntegrationCheckInv == ASSUME IInv, NEW r \in Requests, IntegrationCheck(r) PROVE IInv'
<1>1. /\ pc[r] = "admitted" /\ pc' = [pc EXCEPT ![r] = "done"] /\ sem' = sem - 1
      /\ cookie' = [cookie EXCEPT ![r] = None] /\ arrival' = [arrival EXCEPT ![r] = 0]
      /\ copy' = [copy EXCEPT ![r] = None]
      /\ UNCHANGED <<clock, restarts, client, created, fpLock, sessLock, store, log, history>>
  BY DEF IntegrationCheck, Goto, Forget
<1>2. /\ sem \in Int /\ arrival \in [Requests -> Nat] /\ DOMAIN copy = Requests
      /\ cookie \in [Requests -> Requests \cup {None}]
  BY DEF IInv, TypeOK
<1>3. cookie' \in [Requests -> Requests \cup {None}] /\ arrival' \in [Requests -> Nat] /\ sem' \in Int
  BY ONLY <1>1, <1>2
<1>4. DOMAIN copy' = Requests /\ \A q \in Requests \ {r} : copy'[q] = copy[q]
  BY ONLY <1>1, <1>2
<1>5. ~HasCopy(r) /\ ~HoldsSess(r)
  BY <1>1 DEF HasCopy, HoldsSess
<1>6. /\ \A q \in Requests : (HasCopy(q)' <=> HasCopy(q)) /\ (HoldsSess(q)' <=> HoldsSess(q))
      /\ pc' \in [Requests -> Stages]
  BY <1>1, IdleMoves DEF IInv
<1>7. TypeOK'
  BY ONLY IInv, <1>1, <1>3, <1>4, <1>5, <1>6 DEF IInv, TypeOK, store, history
<1>8. \A q \in Requests : HasCopy(q) \/ pc[q] = "upserted" => copy'[q] = copy[q] /\ created'[q] = created[q]
  BY <1>1, <1>4, <1>5
<1> QED BY <1>1, <1>7, <1>8, IdleInv

\* Taking the fingerprint stripe keeps the invariant.
LEMMA LockFingerprintInv == ASSUME IInv, NEW r \in Requests, LockFingerprint(r) PROVE IInv'
<1> USE WebAssumption DEF IInv, LockFingerprint, worker, store, history, Goto
<1>1. TypeOK'
  BY DEF TypeOK, HoldsSess, HasCopy, Stages
<1>2. (LocksHeld /\ CopiesStored)'
  BY DEF LocksHeld, CopiesStored, HoldsFp, HoldsSess, HasCopy, TypeOK
<1>3. CopyCurrent'
  BY DEF CopyCurrent, CurrentCopy, LoggedAtMost, LoggedBefore, TypeOK
<1>4. (StoredIds /\ LoggedIds /\ FreshIds)'
  BY DEF StoredIds, LoggedIds, FreshIds, Minted, TypeOK, TargetKept, OpenedNamed
<1>5. CopyIds'
  BY DEF CopyIds, HasCopy, Minted, TypeOK, TargetKept, OpenedNamed
<1>6. (StoreCurrent /\ NoLostRequest /\ LogOrdered /\ IndexSound /\ AutomationSticky)'
  <2>1. StoreCurrent'
    BY DEF StoreCurrent, LoggedAtMost, TypeOK
  <2>2. (NoLostRequest /\ LogOrdered /\ IndexSound /\ AutomationSticky)'
    BY DEF NoLostRequest, LogOrdered, IndexSound, AutomationSticky, OpenedNamed
  <2> QED BY <2>1, <2>2
<1> QED BY <1>1, <1>2, <1>3, <1>4, <1>5, <1>6

\* Taking the session stripe keeps the invariant.
LEMMA LockSessionInv == ASSUME IInv, NEW r \in Requests, LockSession(r) PROVE IInv'
<1> USE WebAssumption DEF IInv, LockSession, worker, store, history, Goto
<1>1. TypeOK'
  BY DEF TypeOK, HoldsSess, HasCopy, Stages
<1>2. LocksHeld'
  <2>1. \A q \in Requests : HoldsSess(q) \/ HasCopy(q) => SessStripe[copy[q].id] \in SessStripes
    BY DEF TypeOK, Session
  <2>2. HasCopy(r)
    BY DEF HasCopy
  <2>3. \A q \in Requests : HoldsSess(q)' =>
           \/ q = r
           \/ HoldsSess(q) /\ sessLock[SessStripe[copy[q].id]] = q
    BY DEF HoldsSess, LocksHeld, TypeOK
  <2>4. \A q \in Requests : HoldsFp(q)' => HoldsFp(q)
    BY DEF HoldsFp, TypeOK
  <2>5. \A q \in Requests : HoldsSess(q)' => sessLock'[SessStripe[copy[q].id]] = q
    BY <2>1, <2>2, <2>3 DEF TypeOK
  <2> QED BY <2>4, <2>5 DEF LocksHeld
<1>7. CopiesStored'
  BY DEF CopiesStored, HasCopy, TypeOK
<1>3. CopyCurrent'
  BY DEF CopyCurrent, CurrentCopy, LoggedAtMost, LoggedBefore, TypeOK
<1>4. (StoredIds /\ LoggedIds /\ FreshIds)'
  BY DEF StoredIds, LoggedIds, FreshIds, Minted, TypeOK, TargetKept, OpenedNamed
<1>5. CopyIds'
  <2>1. pc[r] = "found" /\ pc'[r] = "locked" /\ \A q \in Requests \ {r} : pc'[q] = pc[q]
    BY DEF TypeOK
  <2>2. Minted' = Minted /\ (\A q \in Requests : HasCopy(q)' <=> HasCopy(q))
    BY <2>1 DEF Minted, HasCopy
  <2>3. UNCHANGED <<copy, created, client>> /\ CopyIds
    OBVIOUS
  <2> QED BY ONLY <2>1, <2>2, <2>3 DEF CopyIds, TargetOf, TargetKept, OpenedNamed
<1>6. (StoreCurrent /\ NoLostRequest /\ LogOrdered /\ IndexSound /\ AutomationSticky)'
  <2>1. StoreCurrent'
    BY DEF StoreCurrent, LoggedAtMost, TypeOK
  <2>2. (NoLostRequest /\ LogOrdered /\ IndexSound /\ AutomationSticky)'
    BY DEF NoLostRequest, LogOrdered, IndexSound, AutomationSticky, OpenedNamed
  <2> QED BY <2>1, <2>2
<1> QED BY <1>1, <1>2, <1>3, <1>4, <1>5, <1>6, <1>7

----------------------------------------------------------------------------
(* The lookups *)

\* Resuming a session keeps its identity, counters and label; it may only
\* start a new visit.
LEMMA Resuming ==
  ASSUME TypeOK, NEW r \in Requests, NEW ss \in Session
  PROVE  /\ Resume(ss, r) \in Session
         /\ Resume(ss, r).id = ss.id /\ Resume(ss, r).target = ss.target
         /\ Resume(ss, r).req = ss.req /\ Resume(ss, r).auto = ss.auto
         /\ AtMost(ss, Resume(ss, r))
<1> DEFINE m == applyClientMeta(ss, client[r])
<1>1. client[r] \in Fingerprints /\ IPOf(client[r]) \in IPs
  BY DEF TypeOK, Fingerprints, IPOf
<1>2. m \in Session /\ m.id = ss.id /\ m.target = ss.target /\ m.req = ss.req
      /\ m.auto = ss.auto /\ m.visit = ss.visit /\ m.vreq = ss.vreq
  BY <1>1 DEF applyClientMeta, Session
<1> DEFINE n == [m EXCEPT !.visit = @ + 1, !.vreq = 0]
<1>3. Resume(ss, r) = m \/ Resume(ss, r) = n
  BY DEF Resume, prepareReturnVisit
<1> HIDE DEF m
<1>4. AtMost(ss, m)
  BY <1>2 DEF Session, AtMost
<1>5. n \in Session /\ n.id = ss.id /\ n.target = ss.target /\ n.req = ss.req
      /\ n.auto = ss.auto /\ n.visit = ss.visit + 1 /\ n.vreq = 0
  <2>1. m.visit + 1 \in Nat /\ 0 \in Nat
    BY <1>2 DEF Session
  <2> DEFINE v == m.visit + 1
             k == [m EXCEPT !.visit = v]
  <2>2. n = [k EXCEPT !.vreq = 0]
    OBVIOUS
  <2> HIDE DEF v
  <2>3. k \in Session /\ k.id = m.id /\ k.target = m.target /\ k.req = m.req
        /\ k.auto = m.auto /\ k.visit = v
    BY <1>2, <2>1 DEF Session, v
  <2> HIDE DEF k, n
  <2>4. n \in Session /\ n.id = k.id /\ n.target = k.target /\ n.req = k.req
        /\ n.auto = k.auto /\ n.visit = k.visit /\ n.vreq = 0
    BY <2>2, <2>3 DEF Session
  <2> QED BY <1>2, <2>3, <2>4 DEF v
<1> HIDE DEF n
<1>6. AtMost(ss, n)
  BY <1>5 DEF Session, AtMost
<1> QED BY <1>2, <1>3, <1>4, <1>5, <1>6

\* A lookup that ends with session ss of the right target.
LEMMA FoundInv ==
  ASSUME IInv, NEW r \in Requests, NEW ss \in Session, NEW isNew \in BOOLEAN,
         pc[r] \in {"byCookie", "byFingerprint"}, Found(r, ss, isNew),
         TargetKept(ss), OpenedNamed(ss.id) => TargetOf(client[r]) = TargetOf(client[ss.id]),
         isNew => ss.id = r /\ ss.req = 0 /\ ss.auto = FALSE,
         ~isNew => ss.id \in Minted /\ ss.id \in DOMAIN sessions,
         UNCHANGED <<clock, restarts, client, cookie, arrival, sem, fpLock, sessLock,
                     store, log, history>>
  PROVE  IInv'
<1> USE WebAssumption DEF IInv, store, history, Goto, Found
<1>1. TypeOK'
  BY DEF TypeOK, HoldsSess, HasCopy, Stages
<1>2. LocksHeld'
  BY DEF LocksHeld, HoldsFp, HoldsSess, TypeOK
<1>3. CopiesStored'
  BY DEF CopiesStored, HasCopy, TypeOK
<1>4. CopyCurrent'
  BY DEF CopyCurrent, CurrentCopy, LoggedAtMost, LoggedBefore, TypeOK
<1>5. Minted' = Minted
  BY DEF Minted, TypeOK
<1>6. (StoredIds /\ LoggedIds /\ FreshIds)'
  BY <1>5 DEF StoredIds, LoggedIds, FreshIds, TargetKept, OpenedNamed
<1>7. CopyIds'
  BY <1>5 DEF CopyIds, HasCopy, TypeOK, TargetKept, OpenedNamed
<1>8. (StoreCurrent /\ NoLostRequest /\ LogOrdered /\ IndexSound /\ AutomationSticky)'
  <2>1. StoreCurrent'
    BY DEF StoreCurrent, LoggedAtMost, TypeOK
  <2>2. (NoLostRequest /\ LogOrdered /\ IndexSound /\ AutomationSticky)'
    BY DEF NoLostRequest, LogOrdered, IndexSound, AutomationSticky, OpenedNamed
  <2> QED BY <2>1, <2>2
<1> QED BY <1>1, <1>2, <1>3, <1>4, <1>6, <1>7, <1>8

\* The lookup by cookie keeps the invariant: a hit on a session that was opened
\* with a target is of the same target.
LEMMA LookupCookieInv == ASSUME IInv, NEW r \in Requests, LookupCookie(r) PROVE IInv'
<1>1. CASE CookieHit(r)
  <2> DEFINE c == cookie[r]
             ss == Resume(sessions[c], r)
  <2>1. c \in DOMAIN sessions /\ sessions[c].target \in {Blank, TargetOf(client[r])}
    BY <1>1 DEF CookieHit
  <2>2. sessions[c] \in Session /\ sessions[c].id = c /\ c \in Minted
        /\ TargetKept(sessions[c])
    BY <2>1 DEF IInv, TypeOK, StoredIds
  <2>3. ss \in Session /\ ss.id = c /\ ss.target = sessions[c].target
    BY <2>1, <2>2, Resuming DEF IInv
  <2>5. TargetKept(ss) /\ (OpenedNamed(ss.id) => TargetOf(client[r]) = TargetOf(client[ss.id]))
    BY ONLY <2>1, <2>2, <2>3 DEF TargetKept, OpenedNamed
  <2>4. Found(r, ss, FALSE) /\ pc[r] = "byCookie"
    BY <1>1 DEF LookupCookie
  <2> HIDE DEF ss, c
  <2> QED BY <2>1, <2>2, <2>3, <2>4, <2>5, FoundInv DEF LookupCookie
<1>2. CASE ~CookieHit(r)
  <2>0. pc[r] = "byCookie" /\ pc' = [pc EXCEPT ![r] = "byFingerprint"]
        /\ UNCHANGED <<clock, restarts, client, cookie, arrival, copy, created,
                       sem, fpLock, sessLock, sessions, fingerprints, log,
                       served, convicted, promoted, evicted>>
    BY <1>2 DEF LookupCookie, store, history, Goto
  <2> USE WebAssumption, <2>0 DEF IInv
  <2>1. TypeOK'
    BY DEF TypeOK, HoldsSess, HasCopy, Stages
  <2>2. (LocksHeld /\ CopiesStored)'
    BY DEF LocksHeld, CopiesStored, HoldsFp, HoldsSess, HasCopy, TypeOK
  <2>3. CopyCurrent'
    BY DEF CopyCurrent, CurrentCopy, LoggedAtMost, LoggedBefore, TypeOK
  <2>4. Minted' = Minted
    BY DEF Minted, TypeOK
  <2>5. (StoredIds /\ LoggedIds /\ FreshIds /\ CopyIds)'
    BY <2>4 DEF StoredIds, LoggedIds, FreshIds, CopyIds, HasCopy, TypeOK, TargetKept, OpenedNamed
  <2>6. StoreCurrent'
    BY DEF StoreCurrent, LoggedAtMost, TypeOK
  <2>7. (NoLostRequest /\ LogOrdered /\ IndexSound /\ AutomationSticky)'
    BY DEF NoLostRequest, LogOrdered, IndexSound, AutomationSticky, OpenedNamed
  <2> QED BY <2>1, <2>2, <2>3, <2>5, <2>6, <2>7
<1> QED BY <1>1, <1>2

\* The lookup by fingerprint keeps the invariant: by IndexSound a hit is of the
\* same target.
LEMMA LookupFingerprintInv ==
  ASSUME IInv, NEW r \in Requests, LookupFingerprint(r) PROVE IInv'
<1>1. CASE FingerprintHit(r)
  <2> DEFINE c == fingerprints[client[r]]
             ss == Resume(sessions[c], r)
  <2>1. c \in DOMAIN sessions /\ (OpenedNamed(c) => TargetOf(client[r]) = TargetOf(client[c]))
    BY <1>1 DEF FingerprintHit, IInv, IndexSound
  <2>2. sessions[c] \in Session /\ sessions[c].id = c /\ c \in Minted
        /\ TargetKept(sessions[c])
    BY <2>1 DEF IInv, TypeOK, StoredIds
  <2>3. ss \in Session /\ ss.id = c /\ ss.target = sessions[c].target
    BY <2>1, <2>2, Resuming DEF IInv
  <2>5. TargetKept(ss) /\ (OpenedNamed(ss.id) => TargetOf(client[r]) = TargetOf(client[ss.id]))
    BY ONLY <2>1, <2>2, <2>3 DEF TargetKept
  <2>4. Found(r, ss, FALSE) /\ pc[r] = "byFingerprint"
    BY <1>1 DEF LookupFingerprint
  <2> HIDE DEF ss, c
  <2> QED BY <2>1, <2>2, <2>3, <2>4, <2>5, FoundInv DEF LookupFingerprint
<1>2. CASE ~FingerprintHit(r)
  <2> DEFINE ss == NewSession(r)
  <2>1. client[r] \in Fingerprints /\ arrival[r] \in Nat
    BY DEF IInv, TypeOK
  <2>2. IPOf(client[r]) \in IPs /\ TargetOf(client[r]) \in Targets /\ UAOf(client[r]) \in UAs
    BY <2>1 DEF Fingerprints, IPOf, TargetOf, UAOf
  <2>3. ss \in Session /\ ss.id = r /\ ss.req = 0 /\ ss.auto = FALSE
        /\ ss.target = TargetOf(client[r])
    BY <2>1, <2>2 DEF NewSession, Session
  <2>4. Found(r, ss, TRUE) /\ pc[r] = "byFingerprint"
    BY <1>2 DEF LookupFingerprint
  <2> HIDE DEF ss
  <2>5. TargetKept(ss)
    BY <2>3 DEF TargetKept
  <2> QED BY <2>3, <2>4, <2>5, FoundInv DEF LookupFingerprint
<1> QED BY <1>1, <1>2

----------------------------------------------------------------------------
(* Refresh and Judge *)

\* No two workers past LockSession hold the same session.
LEMMA OneHolder ==
  ASSUME IInv, NEW q \in Requests, NEW r \in Requests, HoldsSess(q), HoldsSess(r),
         copy[q].id = copy[r].id
  PROVE  q = r
BY DEF IInv, LocksHeld

\* Naming a session after the request changes its target and nothing else; one
\* that was opened with a target keeps it when the request is for that target.
LEMMA Naming ==
  ASSUME IInv, NEW r \in Requests, NEW ss \in Session, TargetKept(ss),
         OpenedNamed(ss.id) => TargetOf(client[r]) = TargetOf(client[ss.id])
  PROVE  /\ applyRequestMeta(ss, client[r]) \in Session
         /\ applyRequestMeta(ss, client[r]).id = ss.id
         /\ applyRequestMeta(ss, client[r]).req = ss.req
         /\ applyRequestMeta(ss, client[r]).visit = ss.visit
         /\ applyRequestMeta(ss, client[r]).vreq = ss.vreq
         /\ applyRequestMeta(ss, client[r]).auto = ss.auto
         /\ TargetKept(applyRequestMeta(ss, client[r]))
<1> DEFINE t == TargetOf(client[r])
           n == [ss EXCEPT !.target = t]
<1>1. t \in Targets
  <2>1. client[r] \in Fingerprints
    BY DEF IInv, TypeOK
  <2> QED BY <2>1 DEF Fingerprints, TargetOf
<1> HIDE DEF t
<1>2. /\ n \in Session /\ n.id = ss.id /\ n.req = ss.req /\ n.visit = ss.visit
      /\ n.vreq = ss.vreq /\ n.auto = ss.auto /\ n.target = t
  BY ONLY <1>1, ss \in Session DEF Session
<1>3. TargetKept(n)
  BY <1>2 DEF TargetKept, t
<1>4. applyRequestMeta(ss, client[r]) = IF t = Blank THEN ss ELSE n
  BY DEF applyRequestMeta, t
<1> QED BY <1>2, <1>3, <1>4

\* The refresh under the session stripe makes the copy current.
LEMMA RefreshInv == ASSUME IInv, NEW r \in Requests, Refresh(r) PROVE IInv'
<1> DEFINE s == copy[r].id
           c == copy'[r]
<1>0. /\ pc[r] = "locked" /\ pc' = [pc EXCEPT ![r] = "ready"]
      /\ UNCHANGED <<clock, restarts, client, cookie, arrival, created,
                     sem, fpLock, sessLock, sessions, fingerprints, log,
                     served, convicted, promoted, evicted>>
  BY DEF Refresh, store, history, Goto
<1>1. HasCopy(r) /\ copy[r] \in Session
  BY <1>0 DEF HasCopy, IInv, TypeOK
<1>2. /\ DOMAIN copy' = Requests
      /\ \A q \in Requests \ {r} : copy'[q] = copy[q]
      /\ c = applyRequestMeta(IF ~created[r] /\ s \in DOMAIN sessions
                              THEN Resume(sessions[s], r) ELSE copy[r], client[r])
  BY DEF Refresh, IInv, TypeOK
<1> DEFINE d == IF ~created[r] /\ s \in DOMAIN sessions THEN Resume(sessions[s], r) ELSE copy[r]
<1>3. ASSUME s \in DOMAIN sessions
      PROVE  /\ sessions[s] \in Session /\ sessions[s].id = s
             /\ TargetKept(sessions[s])
             /\ Resume(sessions[s], r) \in Session /\ Resume(sessions[s], r).id = s
             /\ Resume(sessions[s], r).target = sessions[s].target
             /\ Resume(sessions[s], r).req = sessions[s].req
             /\ Resume(sessions[s], r).auto = sessions[s].auto
             /\ AtMost(sessions[s], Resume(sessions[s], r))
  <2>1. sessions[s] \in Session /\ sessions[s].id = s /\ TargetKept(sessions[s])
    BY <1>3 DEF IInv, TypeOK, StoredIds
  <2> QED BY <2>1, Resuming DEF IInv
<1>16. /\ d \in Session /\ d.id = s /\ TargetKept(d)
       /\ OpenedNamed(s) => TargetOf(client[r]) = TargetOf(client[s])
  <2>1. /\ TargetKept(copy[r])
        /\ OpenedNamed(s) => TargetOf(client[r]) = TargetOf(client[s])
    BY <1>1 DEF IInv, CopyIds
  <2>2. CASE ~created[r] /\ s \in DOMAIN sessions
    <3>1. d = Resume(sessions[s], r)
      BY <2>2
    <3>2. d \in Session /\ d.id = s /\ d.target = sessions[s].target
          /\ sessions[s].id = s /\ TargetKept(sessions[s])
      BY <2>2, <3>1, <1>3
    <3>3. TargetKept(d)
      BY ONLY <3>2 DEF TargetKept
    <3> QED BY <2>1, <3>2, <3>3
  <2>3. CASE ~(~created[r] /\ s \in DOMAIN sessions)
    BY <1>1, <2>1, <2>3
  <2> QED BY <2>2, <2>3
<1> HIDE DEF d
<1>17. c = applyRequestMeta(d, client[r])
  BY <1>2 DEF d
<1>4. /\ c \in Session /\ c.id = s /\ TargetKept(c)
      /\ c.req = d.req /\ c.visit = d.visit /\ c.vreq = d.vreq /\ c.auto = d.auto
  BY <1>16, <1>17, Naming
<1>5. created[r] => d = copy[r]
  BY DEF d
<1> HIDE DEF c
<1>6. TypeOK'
  BY <1>0, <1>2, <1>4, <1>5 DEF c, IInv, TypeOK, HoldsSess, HasCopy, Stages
<1>7. LocksHeld'
  BY <1>0, <1>2, <1>4 DEF c, IInv, TypeOK, LocksHeld, HoldsFp, HoldsSess
<1>8. CopiesStored'
  BY <1>0, <1>2, <1>4 DEF c, IInv, TypeOK, CopiesStored, HasCopy
<1>9. Minted' = Minted
  BY <1>0 DEF Minted, IInv, TypeOK
<1>10. (StoredIds /\ LoggedIds /\ FreshIds)'
  BY <1>0, <1>9 DEF IInv, StoredIds, LoggedIds, FreshIds, TargetKept, OpenedNamed
<1>11. CopyIds'
  <2> DEFINE Ids(q) == /\ HasCopy(q) \/ pc[q] = "upserted" => TargetKept(copy[q])
                       /\ HasCopy(q) => (OpenedNamed(copy[q].id) =>
                                           TargetOf(client[q]) = TargetOf(client[copy[q].id]))
                       /\ HasCopy(q) /\ created[q] => copy[q].id = q
                       /\ HasCopy(q) /\ ~created[q] => copy[q].id \in Minted
                       /\ pc[q] \in {"found", "locked", "ready"} /\ created[q] =>
                            copy[q].req = 0 /\ copy[q].auto = FALSE
                       /\ pc[q] = "upserted" => copy[q].id \in Minted
  <2>1. ASSUME NEW q \in Requests, q # r PROVE Ids(q)'
    <3>1. pc'[q] = pc[q] /\ copy'[q] = copy[q] /\ created' = created /\ client' = client
      BY <2>1, <1>0, <1>2 DEF IInv, TypeOK
    <3>2. Ids(q)
      BY DEF IInv, CopyIds
    <3> QED BY ONLY <3>1, <3>2, <1>9 DEF HasCopy, TargetKept, OpenedNamed, TargetOf
  <2>2. Ids(r)'
    <3>1. pc[r] = "locked" /\ pc'[r] = "ready" /\ copy'[r] = c /\ created' = created /\ client' = client
      BY <1>0 DEF IInv, TypeOK, c
    <3>2. Ids(r) /\ HasCopy(r)
      BY <1>1 DEF IInv, CopyIds
    <3>3. /\ OpenedNamed(s) => TargetOf(client[r]) = TargetOf(client[s])
          /\ created[r] => s = r /\ copy[r].req = 0 /\ copy[r].auto = FALSE
          /\ ~created[r] => s \in Minted
      BY ONLY <3>1, <3>2
    <3>4. TargetKept(copy[r])'
      BY ONLY <3>1, <1>4 DEF TargetKept, OpenedNamed, TargetOf
    <3>5. /\ OpenedNamed(copy[r].id)' <=> OpenedNamed(s)
          /\ copy'[r].id = s /\ TargetOf(client[r])' = TargetOf(client[r])
          /\ TargetOf(client[copy[r].id])' = TargetOf(client[s])
          /\ created[r] => copy'[r].req = copy[r].req /\ copy'[r].auto = copy[r].auto
      BY ONLY <3>1, <1>4, <1>5 DEF OpenedNamed, TargetOf
    <3> QED BY ONLY <3>1, <3>3, <3>4, <3>5, <1>9
  <2> QED BY ONLY <2>1, <2>2 DEF CopyIds
<1>12. ASSUME s \notin evicted
       PROVE  /\ c.req = served[s]
              /\ s \in convicted => c.auto
              /\ \A i \in DOMAIN log : log[i].id = s => AtMost(log[i], c)
  <2>1. CASE created[r]
    <3>1. s = r /\ r \notin Minted /\ copy[r].req = 0
      BY <2>1, <1>0, <1>1 DEF IInv, CopyIds, Minted, TargetKept, OpenedNamed
    <3>2. served[s] = 0 /\ s \notin convicted /\ \A i \in DOMAIN log : log[i].id # s
      BY <3>1 DEF IInv, FreshIds, LoggedIds, TargetKept, OpenedNamed
    <3> QED BY <3>1, <3>2, <2>1, <1>4, <1>5
  <2>2. CASE ~created[r]
    <3>1. s \in DOMAIN sessions
      BY <2>2, <1>1, <1>12 DEF IInv, CopiesStored
    <3>2. d = Resume(sessions[s], r)
      BY <3>1, <2>2 DEF d
    <3>3. sessions[s].req = served[s] /\ (s \in convicted => sessions[s].auto)
      BY <3>1, <1>12 DEF IInv, NoLostRequest, AutomationSticky
    <3>4. ASSUME NEW i \in DOMAIN log, log[i].id = s PROVE AtMost(log[i], c)
      <4>1. AtMost(log[i], sessions[s])
        BY <3>1, <3>4, <1>3, <1>12 DEF IInv, StoreCurrent, LoggedAtMost
      <4>2. log[i] \in Session
        BY DEF IInv, TypeOK
      <4>3. AtMost(log[i], d)
        BY <4>1, <4>2, <3>1, <3>2, <1>3, <1>16, Counting
      <4> QED BY <4>3, <1>4 DEF AtMost
    <3> QED BY <3>1, <3>2, <3>3, <3>4, <1>3, <1>4
  <2> QED BY <2>1, <2>2
<1>13. CopyCurrent'
  <2>1. CurrentCopy(r)'
    <3>1. pc'[r] = "ready"
      BY <1>0 DEF IInv, TypeOK
    <3> QED BY <3>1, <1>0, <1>4, <1>12 DEF c, CurrentCopy, LoggedAtMost
  <2>2. ASSUME NEW q \in Requests, q # r PROVE CurrentCopy(q)'
    <3>1. pc'[q] = pc[q] /\ copy'[q] = copy[q] /\ CurrentCopy(q)
      BY <2>2, <1>0, <1>2 DEF IInv, TypeOK, CopyCurrent
    <3> QED BY <3>1, <1>0 DEF CurrentCopy, LoggedAtMost, LoggedBefore
  <2> QED BY <2>1, <2>2 DEF CopyCurrent
<1>14. StoreCurrent'
  BY <1>0, <1>2 DEF IInv, TypeOK, StoreCurrent, LoggedAtMost
<1>15. (NoLostRequest /\ LogOrdered /\ IndexSound /\ AutomationSticky)'
  BY <1>0 DEF IInv, NoLostRequest, LogOrdered, IndexSound, AutomationSticky, OpenedNamed
<1> QED BY <1>6, <1>7, <1>8, <1>10, <1>11, <1>13, <1>14, <1>15 DEF IInv


\* Counting a request adds one to both counters and keeps the identity.
LEMMA CountedRequest ==
  ASSUME NEW ss \in Session, NEW found \in EvidenceKinds, NEW now \in Nat
  PROVE  LET c == Counted(ss, found, now) IN
         /\ c \in Session /\ c.id = ss.id /\ c.target = ss.target
         /\ c.req = ss.req + 1 /\ c.visit = ss.visit /\ c.vreq = ss.vreq + 1
         /\ c.auto <=> found = "tool"
<1> DEFINE b == (found = "tool")
           m == ss.req + 1
           n == ss.vreq + 1
           c == Counted(ss, found, now)
<1>1. b \in BOOLEAN
  OBVIOUS
<1>2. m \in Nat /\ n \in Nat
  BY DEF Session
<1>3. c = [ss EXCEPT !.auto = b, !.req = m, !.vreq = n, !.last = now]
  BY DEF Counted
<1> HIDE DEF b, m, n, c
<1>4. /\ DOMAIN c = DOMAIN ss
      /\ c.id = ss.id /\ c.ip = ss.ip /\ c.target = ss.target /\ c.ua = ss.ua
      /\ c.visit = ss.visit
      /\ c.req = m /\ c.vreq = n /\ c.last = now /\ c.auto = b
  BY <1>3 DEF Session
<1>5. c = [id |-> ss.id, ip |-> ss.ip, target |-> ss.target, ua |-> ss.ua, req |-> m,
           visit |-> ss.visit, vreq |-> n, last |-> now, auto |-> b]
  BY <1>3 DEF Session
<1>6. c \in Session
  BY <1>1, <1>2, <1>5 DEF Session
<1> QED BY <1>4, <1>6 DEF b, m, n, c

\* Scoring, promotion and counting keep the invariant: promotion changes labels of
\* stored sessions only.
LEMMA JudgeInv ==
  ASSUME IInv, NEW r \in Requests, NEW found \in EvidenceKinds, Judge(r, found) PROVE IInv'
<1> DEFINE s == copy[r].id
           c == copy'[r]
<1>0. /\ pc[r] = "ready" /\ pc' = [pc EXCEPT ![r] = "judged"] /\ found \in Findings(r)
      /\ UNCHANGED <<clock, restarts, client, cookie, arrival, created,
                     sem, fpLock, sessLock, fingerprints, log, served, convicted, evicted>>
  BY DEF Judge, Goto
<1>1. HasCopy(r) /\ copy[r] \in Session /\ arrival[r] \in Nat
  BY <1>0 DEF HasCopy, IInv, TypeOK
<1>2. /\ DOMAIN copy' = Requests
      /\ \A q \in Requests \ {r} : copy'[q] = copy[q]
      /\ c = Counted(copy[r], found, arrival[r])
  BY DEF Judge, IInv, TypeOK
<1>3. /\ c \in Session /\ c.id = s /\ c.target = copy[r].target
      /\ c.req = copy[r].req + 1 /\ c.visit = copy[r].visit /\ c.vreq = copy[r].vreq + 1
      /\ c.auto <=> found = "tool"
  BY <1>1, <1>2, CountedRequest
<1>4. copy[r].auto => c.auto
  BY <1>0, <1>3 DEF Findings
<1>5. /\ DOMAIN sessions' = DOMAIN sessions
      /\ \E hit : hit \subseteq DOMAIN sessions /\ promoted' = promoted \cup hit
           /\ sessions' = [x \in DOMAIN sessions |->
                              [sessions[x] EXCEPT !.auto = @ \/ x \in hit]]
  BY DEF Judge, SessionsOf
<1>6. promoted' \subseteq Requests
  BY <1>5 DEF IInv, TypeOK
<1>7. ASSUME NEW x \in DOMAIN sessions
      PROVE  /\ sessions'[x] \in Session /\ sessions'[x].id = sessions[x].id
             /\ sessions'[x].target = sessions[x].target
             /\ sessions'[x].req = sessions[x].req /\ sessions'[x].visit = sessions[x].visit
             /\ sessions'[x].vreq = sessions[x].vreq
             /\ sessions[x].auto => sessions'[x].auto
  <2>1. sessions[x] \in Session
    BY DEF IInv, TypeOK
  <2>2. PICK b \in BOOLEAN : sessions'[x] = [sessions[x] EXCEPT !.auto = sessions[x].auto \/ b]
    BY <1>5
  <2> QED BY <2>1, <2>2 DEF Session
<1>8. \A x \in DOMAIN sessions : \A e : AtMost(e, sessions'[x]) <=> AtMost(e, sessions[x])
  BY <1>7 DEF AtMost
<1>9. DOMAIN sessions' = DOMAIN sessions
      /\ sessions' \in [DOMAIN sessions' -> Session]
  BY <1>5, <1>7
<1> HIDE DEF c
<1>10. TypeOK'
  BY <1>0, <1>2, <1>3, <1>6, <1>9 DEF c, IInv, TypeOK, HoldsSess, HasCopy, Stages
<1>11. LocksHeld'
  <2>1. \A q \in Requests : copy'[q].id = copy[q].id
    BY <1>2, <1>3 DEF c
  <2>2. \A q \in Requests : (HoldsFp(q)' => HoldsFp(q)) /\ (HoldsSess(q)' => HoldsSess(q))
    BY <1>0 DEF IInv, TypeOK, HoldsFp, HoldsSess
  <2> QED BY <1>0, <2>1, <2>2 DEF IInv, LocksHeld
<1>12. CopiesStored'
  BY <1>0, <1>2, <1>3, <1>9 DEF c, IInv, TypeOK, CopiesStored, HasCopy
<1>13. Minted' = Minted
  BY <1>0 DEF Minted, IInv, TypeOK
<1>14. StoredIds'
  BY <1>0, <1>7, <1>9, <1>13 DEF IInv, StoredIds, TargetKept, OpenedNamed
<1>15. (LoggedIds /\ FreshIds)'
  BY <1>0, <1>13 DEF IInv, LoggedIds, FreshIds, TargetKept, OpenedNamed
<1>16. CopyIds'
  <2>1. \A q \in Requests : copy'[q].id = copy[q].id /\ copy'[q].target = copy[q].target
    BY <1>2, <1>3 DEF c
  <2>2. \A q \in Requests : /\ HasCopy(q)' <=> HasCopy(q)
                            /\ pc'[q] = "upserted" <=> pc[q] = "upserted"
    BY <1>0 DEF IInv, TypeOK, HasCopy
  <2>3. \A q \in Requests : pc'[q] \in {"found", "locked", "ready"} =>
          pc[q] = pc'[q] /\ copy'[q] = copy[q]
    BY <1>0, <1>2 DEF IInv, TypeOK
  <2> QED BY <1>0, <1>13, <2>1, <2>2, <2>3 DEF IInv, CopyIds, TargetKept, OpenedNamed
<1>17. CopyCurrent'
  <2>1. CurrentCopy(r)'
    <3>1. pc'[r] = "judged" /\ CurrentCopy(r)
      BY <1>0 DEF IInv, TypeOK, CopyCurrent
    <3>2. ASSUME s \notin evicted
          PROVE  /\ c.req = served[s] + 1
                 /\ s \in convicted => c.auto
                 /\ \A i \in DOMAIN log : log[i].id = s => Before(log[i], c)
      <4>1. /\ copy[r].req = served[s]
            /\ s \in convicted => copy[r].auto
            /\ \A i \in DOMAIN log : log[i].id = s => AtMost(log[i], copy[r])
        BY <3>1, <3>2, <1>0 DEF CurrentCopy, LoggedAtMost
      <4>2. Before(copy[r], c)
        BY <1>1, <1>3 DEF Before, Session
      <4>3. \A i \in DOMAIN log : log[i] \in Session
        BY DEF IInv, TypeOK
      <4>4. \A i \in DOMAIN log : log[i].id = s => Before(log[i], c)
        BY <4>1, <4>2, <4>3, <1>1, <1>3, Counting
      <4> QED BY <4>1, <4>4, <1>3, <1>4
    <3> QED BY <3>1, <3>2, <1>0, <1>3 DEF c, CurrentCopy, LoggedBefore
  <2>2. ASSUME NEW q \in Requests, q # r PROVE CurrentCopy(q)'
    <3>1. pc'[q] = pc[q] /\ copy'[q] = copy[q] /\ CurrentCopy(q)
      BY <2>2, <1>0, <1>2 DEF IInv, TypeOK, CopyCurrent
    <3> QED BY <3>1, <1>0 DEF CurrentCopy, LoggedAtMost, LoggedBefore
  <2> QED BY <2>1, <2>2 DEF CopyCurrent
<1>18. StoreCurrent'
  <2> SUFFICES ASSUME NEW x \in DOMAIN sessions, x \notin evicted
               PROVE  /\ LoggedAtMost(sessions[x])'
                      /\ \A q \in Requests : (pc'[q] = "upserted" /\ copy'[q].id = x) =>
                           /\ sessions'[x].req = copy'[q].req
                           /\ sessions'[x].visit = copy'[q].visit
                           /\ sessions'[x].vreq = copy'[q].vreq
    BY <1>0, <1>9 DEF StoreCurrent
  <2>1. LoggedAtMost(sessions[x])'
    BY <1>0, <1>7, <1>8 DEF IInv, StoreCurrent, LoggedAtMost
  <2>2. \A q \in Requests : pc'[q] = "upserted" =>
          q # r /\ pc[q] = "upserted" /\ copy'[q] = copy[q]
    BY <1>0, <1>2 DEF IInv, TypeOK
  <2> QED BY <2>1, <2>2, <1>7 DEF IInv, StoreCurrent
<1>19. NoLostRequest' /\ AutomationSticky' /\ IndexSound'
  BY <1>0, <1>7, <1>9 DEF IInv, NoLostRequest, AutomationSticky, IndexSound, OpenedNamed
<1>20. LogOrdered'
  BY <1>0 DEF IInv, LogOrdered
<1> QED BY <1>10, <1>11, <1>12, <1>14, <1>15, <1>16, <1>17, <1>18, <1>19, <1>20 DEF IInv


----------------------------------------------------------------------------
(* UpsertSession and AddEvent *)

\* UpsertSession keeps the invariant, with and without pruning.
LEMMA UpsertSessionInv == ASSUME IInv, NEW r \in Requests, UpsertSession(r) PROVE IInv'
<1> DEFINE s == copy[r].id
           ids == DOMAIN sessions \cup {s}
           index == [fp \in DOMAIN fingerprints \cup {client[r]} |->
                       IF fp = client[r] THEN s ELSE fingerprints[fp]]
<1>0. /\ pc[r] = "judged" /\ pc' = [pc EXCEPT ![r] = "upserted"]
      /\ served' = [served EXCEPT ![s] = @ + 1]
      /\ convicted' = IF copy[r].auto THEN convicted \cup {s} ELSE convicted
      /\ UNCHANGED <<clock, restarts, client, cookie, arrival, copy, created,
                     sem, fpLock, sessLock, log, promoted>>
  BY DEF UpsertSession, Goto, worker
<1>1. PICK dead \in SUBSET ids :
        /\ sessions' = [x \in ids \ dead |-> IF x = s THEN copy[r] ELSE sessions[x]]
        /\ fingerprints' = [fp \in {f \in DOMAIN index : index[f] \notin dead} |-> index[fp]]
        /\ evicted' = evicted \cup
             {d \in dead : \E q \in Requests \ {r} : HasCopy(q) /\ copy[q].id = d}
  BY DEF UpsertSession, Prunable
<1>2. /\ HasCopy(r) /\ HoldsSess(r) /\ copy[r] \in Session /\ s \in Requests
      /\ ids \subseteq Requests /\ client[r] \in Fingerprints
  <2>1. HasCopy(r) /\ HoldsSess(r)
    BY <1>0 DEF HasCopy, HoldsSess
  <2>2. copy[r] \in Session
    BY <2>1 DEF IInv, TypeOK
  <2> QED BY <2>1, <2>2 DEF IInv, TypeOK, Session
<1>3. Minted' = Minted \cup {r} /\ s \in Minted'
  <2>1. Minted' = Minted \cup {r}
    BY <1>0 DEF Minted, IInv, TypeOK
  <2> QED BY <2>1, <1>2 DEF IInv, TypeOK, CopyIds, TargetKept, OpenedNamed
<1>4. TargetKept(copy[r]) /\ (OpenedNamed(s) => TargetOf(client[r]) = TargetOf(client[s]))
  BY <1>2 DEF IInv, CopyIds
<1>5. /\ DOMAIN sessions' = ids \ dead
      /\ \A x \in DOMAIN sessions' :
           /\ x = s => sessions'[x] = copy[r]
           /\ x # s => x \in DOMAIN sessions /\ sessions'[x] = sessions[x]
  BY <1>1
<1>6. \A q \in Requests : q # r => pc'[q] = pc[q]
  BY <1>0 DEF IInv, TypeOK
<1>7. pc'[r] = "upserted"
  BY <1>0 DEF IInv, TypeOK
<1>8. \A q \in Requests : q # r /\ HoldsSess(q) => copy[q].id # s
  BY <1>2, OneHolder
<1>9. /\ evicted \subseteq evicted'
      /\ \A q \in Requests : q # r /\ HasCopy(q) /\ copy[q].id \in dead => copy[q].id \in evicted'
      /\ evicted' \subseteq Requests
  BY <1>1, <1>2 DEF IInv, TypeOK
<1>10. /\ s \in DOMAIN served /\ served'[s] = served[s] + 1
       /\ \A x \in Requests : x # s => served'[x] = served[x]
       /\ served' \in [Requests -> Nat]
  BY <1>0, <1>2 DEF IInv, TypeOK
<1>11. s \notin evicted =>
         /\ copy[r].req = served[s] + 1
         /\ s \in convicted => copy[r].auto
         /\ \A i \in DOMAIN log : log[i].id = s => Before(log[i], copy[r])
  BY <1>0 DEF IInv, CopyCurrent, CurrentCopy, LoggedBefore
<1>12. /\ DOMAIN fingerprints' \subseteq DOMAIN index
       /\ \A fp \in DOMAIN fingerprints' : fingerprints'[fp] = index[fp] /\ index[fp] \notin dead
       /\ \A fp \in DOMAIN index : (fp = client[r] /\ index[fp] = s)
                                   \/ (fp \in DOMAIN fingerprints /\ index[fp] = fingerprints[fp])
  BY <1>1
<1> HIDE DEF index
<1>13. TypeOK'
  <2>1. \A q \in Requests : (HoldsSess(q) \/ HasCopy(q) => copy[q] \in Session)'
    BY <1>0, <1>2, <1>6 DEF IInv, TypeOK, HoldsSess, HasCopy
  <2>2. sessions' \in [DOMAIN sessions' -> Session] /\ DOMAIN sessions' \subseteq Requests
    <3>1. \A x \in DOMAIN sessions' : sessions'[x] \in Session
      BY <1>2, <1>5 DEF IInv, TypeOK
    <3>2. sessions' = [x \in DOMAIN sessions' |-> sessions'[x]]
      BY <1>1
    <3> QED BY <3>1, <3>2, <1>2, <1>5
  <2>3. fingerprints' \in [DOMAIN fingerprints' -> Requests]
        /\ DOMAIN fingerprints' \subseteq Fingerprints
    <3>1. \A fp \in DOMAIN index : fp \in Fingerprints /\ index[fp] \in Requests
      BY <1>2, <1>12 DEF IInv, TypeOK
    <3>2. fingerprints' = [fp \in DOMAIN fingerprints' |-> fingerprints'[fp]]
      BY <1>1
    <3> QED BY <3>1, <3>2, <1>12
  <2>4. pc' \in [Requests -> Stages] /\ convicted' \subseteq Requests
    BY <1>0, <1>2 DEF IInv, TypeOK, Stages
  <2> QED BY <1>0, <1>9, <1>10, <2>1, <2>2, <2>3, <2>4 DEF IInv, TypeOK
<1>14. LocksHeld'
  <2>1. \A q \in Requests : (HoldsFp(q)' => HoldsFp(q)) /\ (HoldsSess(q)' => HoldsSess(q))
    BY <1>0, <1>6 DEF HoldsFp, HoldsSess
  <2> QED BY <1>0, <2>1 DEF IInv, LocksHeld
<1>15. StoredIds'
  BY <1>0, <1>3, <1>4, <1>5 DEF IInv, StoredIds, TargetKept, OpenedNamed
<1>16. LoggedIds' /\ FreshIds'
  BY <1>0, <1>3, <1>10 DEF IInv, LoggedIds, FreshIds, TargetKept, OpenedNamed
<1>17. CopyIds'
  <2>1. \A q \in Requests : q # r => (HasCopy(q)' <=> HasCopy(q))
    BY <1>6 DEF HasCopy
  <2>2. ~HasCopy(r)'
    BY <1>7 DEF HasCopy
  <2> QED BY <1>0, <1>3, <1>4, <1>6, <1>7, <2>1, <2>2 DEF IInv, CopyIds, TargetKept, OpenedNamed
<1>18. CopiesStored'
  <2>1. \A q \in Requests : HasCopy(q)' => q # r /\ HasCopy(q)
    BY <1>6, <1>7 DEF HasCopy
  <2> QED BY <1>0, <1>5, <1>9, <2>1 DEF IInv, CopiesStored
<1>19. CopyCurrent'
  <2>1. CurrentCopy(r)'
    BY <1>0, <1>7, <1>9, <1>11 DEF CurrentCopy, LoggedBefore
  <2>2. ASSUME NEW q \in Requests, q # r PROVE CurrentCopy(q)'
    <3>1. pc'[q] = pc[q] /\ CurrentCopy(q)
      BY <2>2, <1>6 DEF IInv, CopyCurrent
    <3>2. CASE pc[q] \in {"ready", "judged", "upserted"}
      <4>1. copy[q].id # s /\ copy[q].id \in Requests
        BY <2>2, <3>2, <1>8 DEF HoldsSess, IInv, TypeOK, Session
      <4>2. served'[copy[q].id] = served[copy[q].id]
            /\ (copy[q].id \in convicted' <=> copy[q].id \in convicted)
            /\ (copy[q].id \notin evicted' => copy[q].id \notin evicted)
        BY <4>1, <1>0, <1>9, <1>10
      <4> QED BY <3>1, <4>2, <1>0 DEF CurrentCopy, LoggedAtMost, LoggedBefore
    <3>3. CASE pc[q] \notin {"ready", "judged", "upserted"}
      BY <3>1, <3>3 DEF CurrentCopy
    <3> QED BY <3>2, <3>3
  <2> QED BY <2>1, <2>2 DEF CopyCurrent
<1>20. StoreCurrent'
  <2> SUFFICES ASSUME NEW x \in DOMAIN sessions', x \notin evicted'
               PROVE  /\ \A i \in DOMAIN log : log[i].id = sessions'[x].id =>
                           AtMost(log[i], sessions'[x])
                      /\ \A q \in Requests : (pc'[q] = "upserted" /\ copy[q].id = x) =>
                           /\ sessions'[x].req = copy[q].req
                           /\ sessions'[x].visit = copy[q].visit
                           /\ sessions'[x].vreq = copy[q].vreq
    BY <1>0 DEF StoreCurrent, LoggedAtMost
  <2>1. CASE x = s
    <3>1. sessions'[x] = copy[r] /\ s \notin evicted
      BY <2>1, <1>5, <1>9
    <3>2. \A i \in DOMAIN log : log[i] \in Session
      BY DEF IInv, TypeOK
    <3>3. \A i \in DOMAIN log : log[i].id = s => AtMost(log[i], copy[r])
      BY <3>1, <3>2, <1>2, <1>11, Counting
    <3>4. \A q \in Requests : pc'[q] = "upserted" /\ copy[q].id = s => q = r
      BY <1>6, <1>8 DEF HoldsSess
    <3> QED BY <2>1, <3>1, <3>3, <3>4
  <2>2. CASE x # s
    <3>1. x \in DOMAIN sessions /\ sessions'[x] = sessions[x] /\ x \notin evicted
      BY <2>2, <1>5, <1>9
    <3>2. \A q \in Requests : pc'[q] = "upserted" /\ copy[q].id = x => pc[q] = "upserted"
      BY <2>2, <1>6
    <3> QED BY <3>1, <3>2 DEF IInv, StoreCurrent, LoggedAtMost
  <2> QED BY <2>1, <2>2
<1>21. NoLostRequest'
  BY <1>2, <1>5, <1>9, <1>10, <1>11 DEF IInv, TypeOK, NoLostRequest
<1>22. LogOrdered'
  BY <1>0, <1>9 DEF IInv, LogOrdered
<1>23. IndexSound'
  <2> SUFFICES ASSUME NEW fp \in DOMAIN fingerprints'
               PROVE  /\ fingerprints'[fp] \in DOMAIN sessions'
                      /\ OpenedNamed(fingerprints'[fp]) =>
                           TargetOf(fp) = TargetOf(client[fingerprints'[fp]])
    <3>1. \A x \in DOMAIN sessions' : OpenedNamed(x) => sessions'[x].target = TargetOf(client[x])
      BY <1>0, <1>15 DEF StoredIds, TargetKept, OpenedNamed
    <3> QED BY <3>1, <1>0 DEF IndexSound, OpenedNamed
  <2>1. fingerprints'[fp] = index[fp] /\ index[fp] \notin dead /\ fp \in DOMAIN index
    BY <1>12
  <2>2. CASE fp = client[r] /\ index[fp] = s
    BY <2>1, <2>2, <1>4, <1>5
  <2>3. CASE fp \in DOMAIN fingerprints /\ index[fp] = fingerprints[fp]
    <3>1. /\ index[fp] \in DOMAIN sessions
          /\ OpenedNamed(index[fp]) => TargetOf(fp) = TargetOf(client[index[fp]])
      BY <2>3 DEF IInv, IndexSound
    <3> QED BY <2>1, <3>1, <1>4, <1>5
  <2> QED BY <2>1, <2>2, <2>3, <1>12
<1>24. AutomationSticky'
  BY <1>0, <1>5, <1>9, <1>11 DEF IInv, AutomationSticky
<1> QED BY <1>13, <1>14, <1>15, <1>16, <1>17, <1>18, <1>19, <1>20, <1>21, <1>22, <1>23, <1>24
        DEF IInv


\* The log entry of the worker that holds the session comes after all earlier ones.
LEMMA AddEventInv == ASSUME IInv, NEW r \in Requests, AddEvent(r) PROVE IInv'
<1> USE WebAssumption
<1> DEFINE s == copy[r].id
           n == Len(log)
<1>0. /\ pc[r] = "upserted" /\ pc' = [pc EXCEPT ![r] = "done"]
      /\ log' = Append(log, copy[r]) \/ log' = log
      /\ sessLock' = [sessLock EXCEPT ![SessStripe[s]] = None]
      /\ fpLock' = [fpLock EXCEPT ![FpStripe[client[r]]] = None]
      /\ sem' = sem - 1
      /\ cookie' = [cookie EXCEPT ![r] = None]
      /\ arrival' = [arrival EXCEPT ![r] = 0]
      /\ copy' = [copy EXCEPT ![r] = None]
      /\ UNCHANGED <<client, created, clock, restarts, sessions, fingerprints,
                     served, convicted, promoted, evicted>>
  BY DEF AddEvent, Release, Goto, Forget, store, history
<1>1. HoldsSess(r) /\ HoldsFp(r) /\ copy[r] \in Session /\ s \in Requests
  <2>1. HoldsSess(r) /\ HoldsFp(r)
    BY <1>0 DEF HoldsSess, HoldsFp
  <2> QED BY <2>1 DEF IInv, TypeOK, Session
<1>2. \A q \in Requests : q # r => pc'[q] = pc[q] /\ copy'[q] = copy[q]
  BY <1>0 DEF IInv, TypeOK
<1>3. pc'[r] = "done" /\ ~HoldsFp(r)' /\ ~HoldsSess(r)' /\ ~HasCopy(r)'
  BY <1>0 DEF IInv, TypeOK, HoldsFp, HoldsSess, HasCopy
<1>4. ASSUME NEW q \in Requests, q # r
      PROVE  (HoldsFp(q)' <=> HoldsFp(q)) /\ (HoldsSess(q)' <=> HoldsSess(q))
             /\ (HasCopy(q)' <=> HasCopy(q))
  BY <1>2, <1>4 DEF HoldsFp, HoldsSess, HasCopy
<1>5. Minted' = Minted
  BY <1>0 DEF Minted, IInv, TypeOK
<1>6. s \in Minted /\ TargetKept(copy[r])
  BY <1>0 DEF IInv, CopyIds
<1>7. /\ DOMAIN log = 1..n /\ n \in Nat
      /\ \A i \in DOMAIN log : i \in DOMAIN log' /\ log'[i] = log[i] /\ log[i] \in Session
      /\ \A i \in DOMAIN log' : i \in DOMAIN log \/ (i = n + 1 /\ log'[i] = copy[r])
      /\ log' \in Seq(Session)
  <2>1. log \in Seq(Session)
    BY DEF IInv, TypeOK
  <2>2. CASE log' = Append(log, copy[r])
    BY <2>1, <2>2, <1>1
  <2>3. CASE log' = log
    BY <2>1, <2>3
  <2> QED BY <2>2, <2>3, <1>0
<1>8. s \notin evicted => \A i \in DOMAIN log : log[i].id = s => Before(log[i], copy[r])
  BY <1>0 DEF IInv, CopyCurrent, CurrentCopy, LoggedBefore
<1>9. TypeOK'
  <2>1. \A q \in Requests : (HoldsSess(q) \/ HasCopy(q) => copy[q] \in Session)'
    BY <1>2, <1>3, <1>4 DEF IInv, TypeOK
  <2>2. pc' \in [Requests -> Stages]
    BY <1>0 DEF IInv, TypeOK, Stages
  <2>3. cookie' \in [Requests -> Requests \cup {None}] /\ arrival' \in [Requests -> Nat]
    BY <1>0 DEF IInv, TypeOK
  <2>4. DOMAIN copy' = Requests /\ sem' \in Int
    BY <1>0 DEF IInv, TypeOK
  <2>5. /\ fpLock' \in [FpStripes -> Requests \cup {None}]
        /\ sessLock' \in [SessStripes -> Requests \cup {None}]
    BY <1>0 DEF IInv, TypeOK
  <2> QED BY <1>0, <1>7, <2>1, <2>2, <2>3, <2>4, <2>5 DEF IInv, TypeOK
<1>10. LocksHeld'
  <2> SUFFICES ASSUME NEW q \in Requests, q # r
               PROVE  /\ HoldsFp(q) => fpLock'[FpStripe[client[q]]] = q
                      /\ HoldsSess(q) => sessLock'[SessStripe[copy[q].id]] = q
    BY <1>0, <1>2, <1>3, <1>4 DEF LocksHeld
  <2>1. fpLock[FpStripe[client[r]]] = r /\ sessLock[SessStripe[s]] = r
    BY <1>1 DEF IInv, LocksHeld
  <2>2. HoldsFp(q) => fpLock'[FpStripe[client[q]]] = q
    BY <2>1, <1>0 DEF IInv, LocksHeld, TypeOK
  <2>3. HoldsSess(q) => sessLock'[SessStripe[copy[q].id]] = q
    BY <2>1, <1>0 DEF IInv, LocksHeld, TypeOK, Session
  <2> QED BY <2>2, <2>3
<1>11. StoredIds' /\ FreshIds'
  BY <1>0, <1>5 DEF IInv, StoredIds, FreshIds, TargetKept, OpenedNamed
<1>12. LoggedIds'
  BY <1>0, <1>5, <1>6, <1>7 DEF IInv, LoggedIds, TargetKept, OpenedNamed
<1>13. CopyIds'
  BY <1>0, <1>2, <1>3, <1>4, <1>5 DEF IInv, CopyIds, TargetKept, OpenedNamed
<1>14. CopiesStored'
  BY <1>0, <1>2, <1>3, <1>4 DEF IInv, CopiesStored
<1>15. CopyCurrent'
  <2>1. CurrentCopy(r)'
    BY <1>3 DEF CurrentCopy
  <2>2. ASSUME NEW q \in Requests, q # r PROVE CurrentCopy(q)'
    <3>1. pc'[q] = pc[q] /\ copy'[q] = copy[q] /\ CurrentCopy(q)
      BY <2>2, <1>2 DEF IInv, CopyCurrent
    <3>2. CASE pc[q] \in {"ready", "judged", "upserted"}
      <4>1. copy[q].id # s
        BY <2>2, <3>2, <1>1, OneHolder DEF HoldsSess
      <4>2. \A i \in DOMAIN log' : log'[i].id = copy[q].id => i \in DOMAIN log /\ log'[i] = log[i]
        BY <4>1, <1>7
      <4> QED BY <3>1, <4>2, <1>0 DEF CurrentCopy, LoggedAtMost, LoggedBefore
    <3>3. CASE pc[q] \notin {"ready", "judged", "upserted"}
      BY <3>1, <3>3 DEF CurrentCopy
    <3> QED BY <3>2, <3>3
  <2> QED BY <2>1, <2>2 DEF CopyCurrent
<1>16. StoreCurrent'
  <2> SUFFICES ASSUME NEW x \in DOMAIN sessions, x \notin evicted
               PROVE  /\ \A i \in DOMAIN log' : log'[i].id = sessions[x].id =>
                           AtMost(log'[i], sessions[x])
                      /\ \A q \in Requests : (pc'[q] = "upserted" /\ copy'[q].id = x) =>
                           /\ sessions[x].req = copy'[q].req
                           /\ sessions[x].visit = copy'[q].visit
                           /\ sessions[x].vreq = copy'[q].vreq
    BY <1>0 DEF StoreCurrent, LoggedAtMost
  <2>1. sessions[x].id = x /\ sessions[x] \in Session
    BY DEF IInv, StoredIds, TypeOK, TargetKept, OpenedNamed
  <2>2. \A i \in DOMAIN log : log[i].id = x => AtMost(log[i], sessions[x])
    BY <2>1 DEF IInv, StoreCurrent, LoggedAtMost
  <2>3. s = x => AtMost(copy[r], sessions[x])
    BY <2>1, <1>0, <1>1 DEF IInv, StoreCurrent, AtMost, Session
  <2>4. \A i \in DOMAIN log' : log'[i].id = x => AtMost(log'[i], sessions[x])
    BY <2>2, <2>3, <1>7
  <2>5. \A q \in Requests : pc'[q] = "upserted" => pc[q] = "upserted" /\ copy'[q] = copy[q]
    BY <1>2, <1>3
  <2> QED BY <2>1, <2>4, <2>5 DEF IInv, StoreCurrent
<1>17. LogOrdered'
  <2> SUFFICES ASSUME NEW i \in DOMAIN log', NEW j \in DOMAIN log', i < j,
                      log'[i].id = log'[j].id, log'[i].id \notin evicted
               PROVE  Before(log'[i], log'[j])
    BY <1>0 DEF LogOrdered
  <2>1. i \in DOMAIN log
    <3>1. i \in DOMAIN log \/ i = n + 1
      BY <1>7
    <3>2. j \in Int /\ j <= n + 1
      BY <1>7
    <3> QED BY <3>1, <3>2, <1>7
  <2>2. CASE j \in DOMAIN log
    BY <2>1, <2>2, <1>7 DEF IInv, LogOrdered
  <2>3. CASE j = n + 1 /\ log'[j] = copy[r]
    BY <2>1, <2>3, <1>7, <1>8
  <2> QED BY <2>2, <2>3, <1>7
<1>18. (NoLostRequest /\ IndexSound /\ AutomationSticky)'
  BY <1>0 DEF IInv, NoLostRequest, IndexSound, AutomationSticky, OpenedNamed
<1> QED BY <1>9, <1>10, <1>11, <1>12, <1>13, <1>14, <1>15, <1>16, <1>17, <1>18 DEF IInv

----------------------------------------------------------------------------
(* Restart *)

\* The last event of a logged session is one of its events, and no event of the
\* session is ahead of it.
LEMMA LastEventOf ==
  ASSUME IInv, NEW s \in Logged
  PROVE  /\ LastEvent(s) \in Session /\ LastEvent(s).id = s /\ s \in Minted /\ s \in Requests
         /\ TargetKept(LastEvent(s))
         /\ s \notin evicted =>
              \A i \in DOMAIN log : log[i].id = s => AtMost(log[i], LastEvent(s))
<1> DEFINE P(i) == log[i].id = s /\ \A j \in DOMAIN log : log[j].id = s => j <= i
           T == {i \in DOMAIN log : log[i].id = s}
           m == CHOOSE i \in DOMAIN log : P(i)
<1>1. DOMAIN log = 1..Len(log) /\ Len(log) \in Nat /\ \A i \in DOMAIN log : log[i] \in Session
  BY DEF IInv, TypeOK
<1>2. T \subseteq 1..Len(log) /\ T # {}
  BY <1>1 DEF Logged
<1>3. \E x \in T : \A y \in T : y <= x
  BY <1>1, <1>2, LastPosition
<1>4. \E i \in DOMAIN log : P(i)
  BY <1>3
<1>5. m \in DOMAIN log /\ P(m)
  BY <1>4
<1>6. LastEvent(s) = log[m]
  BY DEF LastEvent
<1> HIDE DEF m
<1>7. LastEvent(s) \in Session /\ LastEvent(s).id = s
  BY <1>1, <1>5, <1>6
<1>8. s \in Minted /\ TargetKept(LastEvent(s))
  BY <1>5, <1>6 DEF IInv, LoggedIds
<1>9. ASSUME s \notin evicted, NEW i \in DOMAIN log, log[i].id = s
      PROVE  AtMost(log[i], LastEvent(s))
  <2>1. i <= m /\ i \in Nat /\ m \in Nat
    BY <1>1, <1>5, <1>9
  <2>2. CASE i = m
    BY <2>2, <1>6, <1>7, Counting
  <2>3. CASE i < m
    <3>1. Before(log[i], log[m])
      BY <2>3, <1>5, <1>9 DEF IInv, LogOrdered
    <3> QED BY <3>1, <1>1, <1>5, <1>6, Counting
  <2> QED BY <2>1, <2>2, <2>3
<1> QED BY <1>7, <1>8, <1>9 DEF Minted

\* Replay takes everything but the target from the last event, and the target of
\* a session that was opened with one is that one.
LEMMA ReplayedSession ==
  ASSUME IInv, NEW s \in Logged
  PROVE  /\ Replayed(s) \in Session /\ Replayed(s).id = s /\ TargetKept(Replayed(s))
         /\ Replayed(s).req = LastEvent(s).req /\ Replayed(s).visit = LastEvent(s).visit
         /\ Replayed(s).vreq = LastEvent(s).vreq /\ Replayed(s).auto = LastEvent(s).auto
<1> DEFINE T == NamedEvents(s)
           e == LastEvent(s)
           t == IF T = {} THEN e.target ELSE log[LastNamed(s)].target
<1>1. DOMAIN log = 1..Len(log) /\ Len(log) \in Nat /\ \A i \in DOMAIN log : log[i] \in Session
  BY DEF IInv, TypeOK
<1>2. e \in Session /\ e.id = s /\ TargetKept(e)
  BY LastEventOf
<1>3. ASSUME T # {} PROVE LastNamed(s) \in DOMAIN log /\ log[LastNamed(s)].id = s
  <2>1. T \subseteq 1..Len(log)
    BY <1>1 DEF NamedEvents
  <2>2. \E x \in T : \A y \in T : y <= x
    BY <1>1, <1>3, <2>1, LastPosition
  <2>3. LastNamed(s) \in NamedEvents(s)
    BY <2>2 DEF LastNamed
  <2> QED BY <2>3 DEF NamedEvents
<1>4. ASSUME T # {} PROVE TargetKept(log[LastNamed(s)])
  BY <1>3, <1>4 DEF IInv, LoggedIds
<1>5. t \in Targets
  BY <1>1, <1>2, <1>3 DEF Session
<1>6. OpenedNamed(s) => t = TargetOf(client[s])
  <2>1. CASE T = {}
    BY <2>1, <1>2 DEF TargetKept
  <2>2. CASE T # {}
    BY <2>2, <1>3, <1>4 DEF TargetKept
  <2> QED BY <2>1, <2>2
<1>7. Replayed(s) = [e EXCEPT !.target = t]
  BY DEF Replayed
<1> HIDE DEF t, e, T
<1>8. /\ Replayed(s) \in Session /\ Replayed(s).id = e.id /\ Replayed(s).target = t
      /\ Replayed(s).req = e.req /\ Replayed(s).visit = e.visit
      /\ Replayed(s).vreq = e.vreq /\ Replayed(s).auto = e.auto
  BY ONLY <1>2, <1>5, <1>7 DEF Session
<1>9. TargetKept(Replayed(s))
  BY ONLY <1>2, <1>6, <1>8 DEF TargetKept
<1> QED BY <1>2, <1>8, <1>9 DEF e

\* Every logged fingerprint has a last event.
LEMMA LastWithFp ==
  ASSUME IInv, NEW fp \in LoggedFps
  PROVE  LastWith(fp) \in DOMAIN log /\ EventFp(log[LastWith(fp)]) = fp
<1> DEFINE P(i) == EventFp(log[i]) = fp /\ \A j \in DOMAIN log : EventFp(log[j]) = fp => j <= i
           T == {i \in DOMAIN log : EventFp(log[i]) = fp}
<1>1. DOMAIN log = 1..Len(log) /\ Len(log) \in Nat
  BY DEF IInv, TypeOK
<1>2. T \subseteq 1..Len(log) /\ T # {}
  BY <1>1 DEF LoggedFps
<1>3. \E x \in T : \A y \in T : y <= x
  BY <1>1, <1>2, LastPosition
<1>4. \E i \in DOMAIN log : P(i)
  BY <1>3
<1> QED BY <1>4 DEF LastWith

\* Replay of the log restores the invariant from the log alone.
LEMMA RestartInv == ASSUME IInv, Restart PROVE IInv'
<1> USE WebAssumption
<1>0. /\ restarts' = restarts + 1
      /\ pc' = [r \in Requests |-> IF pc[r] = "idle" THEN "idle" ELSE "done"]
      /\ cookie' = [r \in Requests |-> None]
      /\ arrival' = [r \in Requests |-> 0]
      /\ copy' = [r \in Requests |-> None]
      /\ sem' = 0
      /\ fpLock' = [k \in FpStripes |-> None]
      /\ sessLock' = [k \in SessStripes |-> None]
      /\ served' = [s \in Requests |-> IF s \in Logged THEN LastEvent(s).req ELSE 0]
      /\ convicted' = {s \in Logged : LastEvent(s).auto}
      /\ promoted' = {}
      /\ UNCHANGED <<clock, client, created, log, evicted>>
  BY DEF Restart
<1>1. PICK keep \in SUBSET Logged :
        /\ sessions' = [s \in keep |-> Replayed(s)]
        /\ fingerprints' = [fp \in {f \in LoggedFps : log[LastWith(f)].id \in keep}
                             |-> log[LastWith(fp)].id]
  BY DEF Restart
<1>2. \A s \in Logged : /\ LastEvent(s) \in Session /\ LastEvent(s).id = s
                        /\ s \in Minted /\ s \in Requests
                        /\ Replayed(s) \in Session /\ Replayed(s).id = s
                        /\ TargetKept(Replayed(s)) /\ Replayed(s).req = LastEvent(s).req
                        /\ Replayed(s).auto = LastEvent(s).auto
  BY LastEventOf, ReplayedSession
<1>3. \A r \in Requests : pc'[r] \in {"idle", "done"}
  BY <1>0
<1>4. \A r \in Requests : ~HoldsFp(r)' /\ ~HoldsSess(r)' /\ ~HasCopy(r)'
  BY <1>3 DEF HoldsFp, HoldsSess, HasCopy
<1>5. Minted \subseteq Minted'
  BY <1>0 DEF Minted
<1>6. DOMAIN sessions' = keep /\ \A s \in keep : sessions'[s] = Replayed(s)
  BY <1>1
<1>7. \A fp \in DOMAIN fingerprints' :
        /\ fp \in LoggedFps /\ fingerprints'[fp] = log[LastWith(fp)].id
        /\ fingerprints'[fp] \in keep
  BY <1>1
<1>8. \A i \in DOMAIN log : log[i] \in Session /\ log[i].id \in Logged
  BY DEF IInv, TypeOK, Logged
<1>9. TypeOK'
  <2>1. sessions' \in [DOMAIN sessions' -> Session] /\ DOMAIN sessions' \subseteq Requests
    BY <1>1, <1>2, <1>6
  <2>2. fingerprints' \in [DOMAIN fingerprints' -> Requests]
    <3>1. fingerprints' = [fp \in DOMAIN fingerprints' |-> fingerprints'[fp]]
      BY <1>1
    <3> QED BY <3>1, <1>7, <1>2
  <2>3. DOMAIN fingerprints' \subseteq Fingerprints
    <3>1. \A i \in DOMAIN log : EventFp(log[i]) \in Fingerprints
      BY <1>8 DEF EventFp, Session, Fingerprints
    <3> QED BY <3>1, <1>7 DEF LoggedFps
  <2>4. served' \in [Requests -> Nat] /\ convicted' \subseteq Requests
    BY <1>0, <1>2 DEF Session
  <2>5. pc' \in [Requests -> Stages]
    BY <1>0 DEF Stages
  <2> QED BY <1>0, <1>4, <2>1, <2>2, <2>3, <2>4, <2>5 DEF IInv, TypeOK
<1>10. LocksHeld' /\ CopiesStored'
  BY <1>4 DEF LocksHeld, CopiesStored
<1>11. CopyIds' /\ CopyCurrent'
  BY <1>3, <1>4 DEF CopyIds, CopyCurrent, CurrentCopy, TargetKept, OpenedNamed
<1>12. StoredIds'
  BY <1>0, <1>2, <1>5, <1>6 DEF StoredIds, TargetKept, OpenedNamed
<1>13. LoggedIds'
  BY <1>0, <1>5 DEF IInv, LoggedIds, TargetKept, OpenedNamed
<1>14. FreshIds'
  BY <1>0, <1>2, <1>5 DEF FreshIds
<1>15. StoreCurrent'
  <2>1. \A s \in keep : s \notin evicted =>
          \A i \in DOMAIN log : log[i].id = s => AtMost(log[i], Replayed(s))
    BY LastEventOf, ReplayedSession DEF AtMost
  <2> QED BY <1>0, <1>2, <1>3, <1>6, <2>1 DEF StoreCurrent, LoggedAtMost
<1>16. NoLostRequest' /\ AutomationSticky'
  BY <1>0, <1>2, <1>6 DEF NoLostRequest, AutomationSticky
<1>17. LogOrdered'
  BY <1>0 DEF IInv, LogOrdered
<1>18. IndexSound'
  <2> SUFFICES ASSUME NEW fp \in DOMAIN fingerprints'
               PROVE  /\ fingerprints'[fp] \in DOMAIN sessions'
                      /\ OpenedNamed(fingerprints'[fp]) =>
                           TargetOf(fp) = TargetOf(client[fingerprints'[fp]])
    <3>1. \A x \in DOMAIN sessions' : OpenedNamed(x) => sessions'[x].target = TargetOf(client[x])
      BY <1>0, <1>12 DEF StoredIds, TargetKept, OpenedNamed
    <3> QED BY <3>1, <1>0 DEF IndexSound, OpenedNamed
  <2> DEFINE e == log[LastWith(fp)]
  <2>1. fp \in LoggedFps /\ fingerprints'[fp] = e.id /\ e.id \in keep
    BY <1>7
  <2>2. LastWith(fp) \in DOMAIN log /\ EventFp(e) = fp
    BY <2>1, LastWithFp
  <2>3. e.target = TargetOf(fp)
    BY <2>2 DEF EventFp, TargetOf
  <2>4. OpenedNamed(e.id) => e.target = TargetOf(client[e.id])
    BY <2>2 DEF IInv, LoggedIds, TargetKept
  <2> HIDE DEF e
  <2> QED BY <2>1, <2>3, <2>4, <1>6
<1> QED BY <1>9, <1>10, <1>11, <1>12, <1>13, <1>14, <1>15, <1>16, <1>17, <1>18 DEF IInv


----------------------------------------------------------------------------
(* The theorems *)

\* Every step keeps the invariant.
LEMMA NextInv == ASSUME IInv, [Next]_vars PROVE IInv'
<1>1. CASE Tick
  BY <1>1, TickInv
<1>2. CASE Restart
  BY <1>2, RestartInv
<1>3. ASSUME NEW r \in Requests, Arrive(r) PROVE IInv'
  BY <1>3, ArriveInv
<1>4. ASSUME NEW r \in Requests, Step(r) PROVE IInv'
  BY <1>4, IntegrationCheckInv, LockFingerprintInv, LookupCookieInv, LookupFingerprintInv,
     LockSessionInv, RefreshInv, JudgeInv, UpsertSessionInv, AddEventInv DEF Step
<1>5. CASE UNCHANGED vars
  <2> USE <1>5 DEF IInv, vars, worker, store, history
  <2>1. TypeOK'
    BY DEF TypeOK, HoldsSess, HasCopy
  <2>2. (LocksHeld /\ CopiesStored /\ CopyCurrent)'
    BY DEF LocksHeld, CopiesStored, CopyCurrent, CurrentCopy, HoldsFp, HoldsSess, HasCopy,
           LoggedAtMost, LoggedBefore
  <2>3. (StoredIds /\ LoggedIds /\ FreshIds /\ CopyIds)'
    BY DEF StoredIds, LoggedIds, FreshIds, CopyIds, HasCopy, Minted, TargetKept, OpenedNamed
  <2>4. (StoreCurrent /\ NoLostRequest /\ LogOrdered /\ IndexSound /\ AutomationSticky)'
    BY DEF StoreCurrent, NoLostRequest, LogOrdered, IndexSound, AutomationSticky, LoggedAtMost, OpenedNamed
  <2> QED BY <2>1, <2>2, <2>3, <2>4
<1> QED BY <1>1, <1>2, <1>3, <1>4, <1>5 DEF Next

\* IInv holds in every reachable state of the pipeline.
THEOREM Invariance == Spec => []IInv
BY InitInv, NextInv, PTL DEF Spec

\* Every variable of the pipeline has its type in every reachable state.
THEOREM TypeCorrect == Spec => []TypeOK
BY Invariance, PTL DEF IInv

\* Parallel workers of one session (handle, sessionFor, UpsertSession) never
\* lose one of its requests, whatever lock stripes collide and however they
\* interleave, prune and restart.
THEOREM NoRequestLost == Spec => []NoLostRequest
BY Invariance, PTL DEF IInv

\* The log AddEvent writes numbers the requests and visits of a session in
\* order, across failed writes and restarts.
THEOREM LogIsOrdered == Spec => []LogOrdered
BY Invariance, PTL DEF IInv

\* store.fingerprints leads to a stored session, and to one of the same target if that
\* session was opened with one, under the cascading deletion of pruning and under the
\* replay of the log.
THEOREM IndexIsSound == Spec => []IndexSound
BY Invariance, PTL DEF IInv

\* A session convicted by a request of its own stays labelled automated.
THEOREM ConvictionSticks == Spec => []AutomationSticky
BY Invariance, PTL DEF IInv

\* The fingerprint stripe excludes two new sessions for one fingerprint.
THEOREM NoTwins == Spec => []NoTwinSessions
<1>1. IInv => NoTwinSessions
  BY DEF IInv, LocksHeld, NoTwinSessions, HasCopy, HoldsFp
<1> QED BY <1>1, Invariance, PTL

----------------------------------------------------------------------------
(* The semaphore *)

\* A request that becomes in flight adds one to their number.
LEMMA OneMoreSlot ==
  ASSUME NEW S, NEW T, NEW x, x \notin S, T = S \cup {x}, IsFiniteSet(T)
  PROVE  IsFiniteSet(S) /\ Cardinality(T) = Cardinality(S) + 1
<1>1. IsFiniteSet(S)
  BY FS_Subset
<1> QED BY <1>1, FS_AddElement

\* A request that ends takes one from their number.
LEMMA OneSlotLess ==
  ASSUME NEW S, NEW T, NEW x, x \in S, T = S \ {x}, IsFiniteSet(T)
  PROVE  IsFiniteSet(S) /\ Cardinality(T) = Cardinality(S) - 1
<1>1. S = T \cup {x} /\ x \notin T
  OBVIOUS
<1>2. IsFiniteSet(S) /\ Cardinality(S) = Cardinality(T) + 1 /\ Cardinality(T) \in Nat
  BY <1>1, FS_AddElement, FS_CardinalityType
<1> QED BY <1>2

\* Every step changes the semaphore by as much as the requests in flight.
LEMMA SlotStep == ASSUME TypeOK, SlotsAccounted, [Next]_vars PROVE SlotsAccounted'
<1> SUFFICES ASSUME IsFiniteSet(InFlight') PROVE sem' = Cardinality(InFlight')
  BY DEF SlotsAccounted
<1>1. ASSUME sem' = sem, InFlight' = InFlight PROVE sem' = Cardinality(InFlight')
  BY <1>1 DEF SlotsAccounted
<1>2. ASSUME NEW r \in Requests, r \notin InFlight, sem' = sem + 1,
             InFlight' = InFlight \cup {r}
      PROVE  sem' = Cardinality(InFlight')
  BY <1>2, OneMoreSlot DEF SlotsAccounted
<1>3. ASSUME NEW r \in InFlight, sem' = sem - 1, InFlight' = InFlight \ {r}
      PROVE  sem' = Cardinality(InFlight')
  BY <1>3, OneSlotLess DEF SlotsAccounted
<1>4. CASE Tick \/ UNCHANGED vars
  BY <1>1, <1>4 DEF Tick, vars, InFlight
<1>5. CASE Restart
  <2>1. InFlight' = {} /\ sem' = 0
    BY <1>5 DEF Restart, InFlight
  <2> QED BY <2>1, FS_EmptySet
<1>6. ASSUME NEW r \in Requests, Arrive(r) PROVE sem' = Cardinality(InFlight')
  <2>1. CASE sem < MaxConcurrent
    <3>1. sem' = sem + 1 /\ pc[r] = "idle" /\ pc' = [pc EXCEPT ![r] = "admitted"]
      BY <1>6, <2>1, WebAssumption DEF Arrive, Goto, TypeOK
    <3>2. r \notin InFlight /\ InFlight' = InFlight \cup {r}
      BY <3>1 DEF InFlight, TypeOK
    <3> QED BY <3>1, <3>2, <1>2
  <2>2. CASE ~(sem < MaxConcurrent)
    <3>1. sem' = sem /\ pc[r] = "idle" /\ pc' = [pc EXCEPT ![r] = "done"]
      BY <1>6, <2>2, WebAssumption DEF Arrive, Goto, TypeOK
    <3>2. InFlight' = InFlight
      BY <3>1 DEF InFlight, TypeOK
    <3> QED BY <3>1, <3>2, <1>1
  <2> QED BY <2>1, <2>2
<1>7. ASSUME NEW r \in Requests, Step(r) PROVE sem' = Cardinality(InFlight')
  <2>1. CASE IntegrationCheck(r) \/ AddEvent(r)
    <3>1. sem' = sem - 1 /\ pc[r] \notin {"idle", "done"} /\ pc' = [pc EXCEPT ![r] = "done"]
      BY <2>1 DEF IntegrationCheck, AddEvent, Release, Goto
    <3>2. r \in InFlight /\ InFlight' = InFlight \ {r}
      BY <3>1 DEF InFlight, TypeOK
    <3> QED BY <3>1, <3>2, <1>3
  <2>2. CASE ~(IntegrationCheck(r) \/ AddEvent(r))
    <3>1. sem' = sem /\ pc[r] \notin {"idle", "done"}
          /\ \E g \in Stages \ {"idle", "done"} : pc' = [pc EXCEPT ![r] = g]
      BY <1>7, <2>2 DEF Step, LockFingerprint, LookupCookie, LookupFingerprint, LockSession,
         Refresh, Judge, UpsertSession, Found, Goto, Stages
    <3>2. InFlight' = InFlight
      BY <3>1 DEF InFlight, TypeOK
    <3> QED BY <3>1, <3>2, <1>1
  <2> QED BY <2>1, <2>2
<1> QED BY <1>4, <1>5, <1>6, <1>7 DEF Next

\* Every slot of t.sem in use belongs to a request in handle, so no return path
\* leaks a slot or gives one back twice.
THEOREM SlotsKept == Spec => []SlotsAccounted
<1>1. Init => SlotsAccounted
  <2>1. Init => InFlight = {} /\ sem = 0
    BY DEF Init, InFlight
  <2> QED BY <2>1, FS_EmptySet DEF SlotsAccounted
<1> QED BY <1>1, SlotStep, TypeCorrect, PTL DEF Spec

----------------------------------------------------------------------------
(* The lock stripes *)

\* Every step leaves a stripe that is taken with a worker past that lock.
LEMMA OwnerStep == ASSUME IInv, LocksOwned, [Next]_vars PROVE LocksOwned'
<1> USE WebAssumption
<1>0. TypeOK /\ LocksHeld
  BY DEF IInv
<1>1. ASSUME UNCHANGED <<fpLock, sessLock, client>>,
             NEW r \in Requests, NEW g \in Stages, pc' = [pc EXCEPT ![r] = g],
             HoldsFp(r) => HoldsFp(r)', HoldsSess(r) => HoldsSess(r)' /\ copy'[r].id = copy[r].id,
             \A q \in Requests \ {r} : copy'[q] = copy[q]
      PROVE  LocksOwned'
  <2>1. \A q \in Requests : HoldsFp(q) => HoldsFp(q)'
    BY <1>0, <1>1 DEF HoldsFp, TypeOK
  <2>2. \A q \in Requests : HoldsSess(q) => HoldsSess(q)' /\ copy'[q].id = copy[q].id
    BY <1>0, <1>1 DEF HoldsSess, TypeOK
  <2>3. \A k \in FpStripes : fpLock[k] \in Requests \cup {None}
    BY <1>0 DEF TypeOK
  <2>4. \A k \in SessStripes : sessLock[k] \in Requests \cup {None}
    BY <1>0 DEF TypeOK
  <2> QED BY <1>1, <2>1, <2>2, <2>3, <2>4 DEF LocksOwned
<1>2. CASE Tick \/ UNCHANGED vars
  BY <1>2 DEF Tick, vars, worker, LocksOwned, HoldsFp, HoldsSess
<1>3. CASE Restart
  BY <1>3 DEF Restart, LocksOwned
<1>4. ASSUME NEW r \in Requests, Arrive(r) PROVE LocksOwned'
  <2>1. pc[r] = "idle" /\ UNCHANGED <<fpLock, sessLock, client, copy>>
        /\ \E g \in Stages : pc' = [pc EXCEPT ![r] = g]
    BY <1>4 DEF Arrive, Goto, Stages
  <2>2. ~HoldsFp(r) /\ ~HoldsSess(r)
    BY <2>1 DEF HoldsFp, HoldsSess
  <2> QED BY <1>1, <2>1, <2>2
<1>5. ASSUME NEW r \in Requests, IntegrationCheck(r) PROVE LocksOwned'
  <2>1. pc[r] = "admitted" /\ UNCHANGED <<fpLock, sessLock, client>>
        /\ pc' = [pc EXCEPT ![r] = "done"] /\ copy' = [copy EXCEPT ![r] = None]
    BY <1>5 DEF IntegrationCheck, Goto, Forget
  <2>2. ~HoldsFp(r) /\ ~HoldsSess(r)
    BY <2>1 DEF HoldsFp, HoldsSess
  <2>3. \A q \in Requests \ {r} : copy'[q] = copy[q]
    BY <2>1, <1>0 DEF TypeOK
  <2> QED BY <1>1, <2>1, <2>2, <2>3 DEF Stages
<1>6. ASSUME NEW r \in Requests, LockFingerprint(r) PROVE LocksOwned'
  <2>1. pc[r] = "admitted" /\ UNCHANGED <<sessLock, client, copy>>
        /\ pc' = [pc EXCEPT ![r] = "byCookie"]
        /\ fpLock' = [fpLock EXCEPT ![FpStripe[client[r]]] = r]
    BY <1>6 DEF LockFingerprint, Goto, worker
  <2>2. \A q \in Requests : (HoldsFp(q) => HoldsFp(q)') /\ (HoldsSess(q) => HoldsSess(q)')
    BY <2>1, <1>0 DEF HoldsFp, HoldsSess, TypeOK
  <2>3. HoldsFp(r)'
    BY <2>1, <1>0 DEF HoldsFp, TypeOK
  <2>4. \A k \in FpStripes : fpLock[k] \in Requests \cup {None}
    BY <1>0 DEF TypeOK
  <2>5. \A k \in SessStripes : sessLock[k] \in Requests \cup {None}
    BY <1>0 DEF TypeOK
  <2>6. \A k \in FpStripes : fpLock'[k] = IF k = FpStripe[client[r]] THEN r ELSE fpLock[k]
    BY <2>1, <1>0 DEF TypeOK
  <2> QED BY <2>1, <2>2, <2>3, <2>4, <2>5, <2>6 DEF LocksOwned
<1>7. ASSUME NEW r \in Requests, LockSession(r) PROVE LocksOwned'
  <2>1. pc[r] = "found" /\ UNCHANGED <<fpLock, client, copy>>
        /\ pc' = [pc EXCEPT ![r] = "locked"]
        /\ sessLock' = [sessLock EXCEPT ![SessStripe[copy[r].id]] = r]
    BY <1>7 DEF LockSession, Goto, worker
  <2>2. \A q \in Requests : (HoldsFp(q) => HoldsFp(q)') /\ (HoldsSess(q) => HoldsSess(q)')
    BY <2>1, <1>0 DEF HoldsFp, HoldsSess, TypeOK
  <2>3. HoldsSess(r)'
    BY <2>1, <1>0 DEF HoldsSess, TypeOK
  <2>4. \A k \in FpStripes : fpLock[k] \in Requests \cup {None}
    BY <1>0 DEF TypeOK
  <2>5. \A k \in SessStripes : sessLock[k] \in Requests \cup {None}
    BY <1>0 DEF TypeOK
  <2>6. \A k \in SessStripes : sessLock'[k] = IF k = SessStripe[copy[r].id] THEN r ELSE sessLock[k]
    BY <2>1, <1>0 DEF TypeOK
  <2> QED BY <2>1, <2>2, <2>3, <2>4, <2>5, <2>6 DEF LocksOwned
<1>8. ASSUME NEW r \in Requests, LookupCookie(r) \/ LookupFingerprint(r) PROVE LocksOwned'
  <2>1. pc[r] \in {"byCookie", "byFingerprint"} /\ UNCHANGED <<fpLock, sessLock, client>>
        /\ \E g \in {"byFingerprint", "found"} : pc' = [pc EXCEPT ![r] = g]
        /\ (copy' = copy \/ \E ss : copy' = [copy EXCEPT ![r] = ss])
    BY <1>8 DEF LookupCookie, LookupFingerprint, Found, Goto
  <2>2. ~HoldsSess(r) /\ HoldsFp(r)'
    BY <2>1, <1>0 DEF HoldsFp, HoldsSess, TypeOK
  <2>3. \A q \in Requests \ {r} : copy'[q] = copy[q]
    BY <2>1, <1>0 DEF TypeOK
  <2> QED BY <1>1, <2>1, <2>2, <2>3 DEF Stages
<1>9. ASSUME NEW r \in Requests,
             Refresh(r) \/ UpsertSession(r) \/ \E f \in EvidenceKinds : Judge(r, f)
      PROVE  LocksOwned'
  <2>1. pc[r] \in {"locked", "ready", "judged"} /\ UNCHANGED <<fpLock, sessLock, client>>
        /\ \E g \in {"ready", "judged", "upserted"} : pc' = [pc EXCEPT ![r] = g]
    BY <1>9 DEF Refresh, UpsertSession, Judge, Goto, worker
  <2>2. copy[r] \in Session
    BY <2>1, <1>0 DEF TypeOK, HasCopy
  <2>3. (\A q \in Requests \ {r} : copy'[q] = copy[q]) /\ copy'[r].id = copy[r].id
    <3>1. CASE Refresh(r)
      <4>1. \A s \in DOMAIN sessions : sessions[s] \in Session /\ sessions[s].id = s
        BY DEF IInv, TypeOK, StoredIds
      <4>2. \A s \in DOMAIN sessions :
              Resume(sessions[s], r) \in Session /\ Resume(sessions[s], r).id = s
        BY <4>1, <1>0, Resuming
      <4>3. \A ss \in Session : applyRequestMeta(ss, client[r]).id = ss.id
        BY DEF applyRequestMeta, Session
      <4>4. copy' = [copy EXCEPT ![r] = applyRequestMeta(
                       IF ~created[r] /\ copy[r].id \in DOMAIN sessions
                       THEN Resume(sessions[copy[r].id], r) ELSE copy[r], client[r])]
        BY <3>1 DEF Refresh
      <4> QED BY <4>2, <4>3, <4>4, <2>2, <1>0 DEF TypeOK
    <3>2. CASE UpsertSession(r)
      BY <3>2 DEF UpsertSession, worker
    <3>3. ASSUME NEW f \in EvidenceKinds, Judge(r, f)
          PROVE  (\A q \in Requests \ {r} : copy'[q] = copy[q]) /\ copy'[r].id = copy[r].id
      <4>1. copy' = [copy EXCEPT ![r] = Counted(copy[r], f, arrival[r])]
        BY <3>3 DEF Judge
      <4>2. Counted(copy[r], f, arrival[r]).id = copy[r].id
        BY <2>2 DEF Counted, Session
      <4> QED BY <4>1, <4>2, <1>0 DEF TypeOK
    <3> QED BY <1>9, <3>1, <3>2, <3>3
  <2>4. HoldsFp(r)' /\ HoldsSess(r)'
    BY <2>1, <1>0 DEF HoldsFp, HoldsSess, TypeOK
  <2> QED BY <1>1, <2>1, <2>3, <2>4 DEF Stages
<1>10. ASSUME NEW r \in Requests, AddEvent(r) PROVE LocksOwned'
  <2>1. pc[r] = "upserted" /\ UNCHANGED client
        /\ pc' = [pc EXCEPT ![r] = "done"] /\ copy' = [copy EXCEPT ![r] = None]
        /\ fpLock' = [fpLock EXCEPT ![FpStripe[client[r]]] = None]
        /\ sessLock' = [sessLock EXCEPT ![SessStripe[copy[r].id]] = None]
    BY <1>10 DEF AddEvent, Release, Forget, Goto
  <2>2. \A q \in Requests \ {r} : /\ HoldsFp(q) => HoldsFp(q)'
                                  /\ HoldsSess(q) => HoldsSess(q)'
                                  /\ copy'[q] = copy[q]
    BY <2>1, <1>0 DEF HoldsFp, HoldsSess, TypeOK
  <2>3. ASSUME NEW k \in FpStripes, fpLock'[k] # None
        PROVE  \E q \in Requests : fpLock'[k] = q /\ HoldsFp(q)' /\ k = FpStripe[client[q]]
    <3>1. k # FpStripe[client[r]] /\ fpLock'[k] = fpLock[k]
      BY <2>1, <2>3, <1>0 DEF TypeOK
    <3>2. fpLock[k] \in Requests \ {r} /\ HoldsFp(fpLock[k]) /\ k = FpStripe[client[fpLock[k]]]
      BY <2>3, <3>1, <1>0 DEF LocksOwned, TypeOK
    <3> QED BY <2>2, <3>1, <3>2
  <2>4. ASSUME NEW k \in SessStripes, sessLock'[k] # None
        PROVE  \E q \in Requests : sessLock'[k] = q /\ HoldsSess(q)'
                                  /\ k = SessStripe[copy'[q].id]
    <3>1. k # SessStripe[copy[r].id] /\ sessLock'[k] = sessLock[k]
      BY <2>1, <2>4, <1>0 DEF TypeOK
    <3>2. sessLock[k] \in Requests \ {r} /\ HoldsSess(sessLock[k])
          /\ k = SessStripe[copy[sessLock[k]].id]
      BY <2>4, <3>1, <1>0 DEF LocksOwned, TypeOK
    <3> QED BY <2>2, <3>1, <3>2
  <2> QED BY <2>1, <2>3, <2>4 DEF LocksOwned
<1> QED BY <1>2, <1>3, <1>4, <1>5, <1>6, <1>7, <1>8, <1>9, <1>10 DEF Next, Step

\* Whoever holds a session stripe can go on, and whoever holds a fingerprint
\* stripe can go on or waits for a session stripe.
LEMMA SomeoneCanGoOn == ASSUME TypeOK, LocksOwned PROVE NoStandstill
<1> USE WebAssumption
<1> SUFFICES ASSUME NEW r \in InFlight PROVE \E q \in InFlight : ~Blocked(q)
  BY DEF NoStandstill
<1>1. ASSUME NEW q \in Requests, HoldsSess(q) PROVE q \in InFlight /\ ~Blocked(q)
  BY <1>1 DEF HoldsSess, InFlight, Blocked
<1>2. ASSUME NEW q \in Requests, pc[q] = "found", Blocked(q)
      PROVE  \E p \in InFlight : ~Blocked(p)
  <2>1. copy[q] \in Session /\ SessStripe[copy[q].id] \in SessStripes
    BY <1>2 DEF TypeOK, HasCopy, Session
  <2>2. sessLock[SessStripe[copy[q].id]] # None
    BY <1>2 DEF Blocked
  <2>3. HoldsSess(sessLock[SessStripe[copy[q].id]])
        /\ sessLock[SessStripe[copy[q].id]] \in Requests
    BY <2>1, <2>2 DEF LocksOwned, TypeOK
  <2> QED BY <2>3, <1>1
<1>3. ASSUME NEW q \in Requests, HoldsFp(q) PROVE \E p \in InFlight : ~Blocked(p)
  <2>1. q \in InFlight /\ pc[q] # "admitted"
    BY <1>3 DEF HoldsFp, InFlight
  <2> QED BY <2>1, <1>2 DEF Blocked
<1>4. CASE Blocked(r) /\ pc[r] = "admitted"
  <2>1. r \in Requests /\ FpStripe[client[r]] \in FpStripes
    BY DEF InFlight, TypeOK
  <2>2. fpLock[FpStripe[client[r]]] # None
    BY <1>4 DEF Blocked
  <2>3. fpLock[FpStripe[client[r]]] \in Requests /\ HoldsFp(fpLock[FpStripe[client[r]]])
    BY <2>1, <2>2 DEF LocksOwned, TypeOK
  <2> QED BY <2>3, <1>3
<1>5. CASE Blocked(r) /\ pc[r] = "found"
  BY <1>2, <1>5 DEF InFlight
<1> QED BY <1>4, <1>5 DEF Blocked

\* The two lock stripes of handle cannot bring its requests to a standstill,
\* however fingerprints and session ids collide on them.
THEOREM NeverStuck == Spec => []NoStandstill
<1>1. Init => LocksOwned
  BY DEF Init, LocksOwned
<1>2. IInv => TypeOK
  BY DEF IInv
<1> QED BY <1>1, <1>2, OwnerStep, SomeoneCanGoOn, Invariance, PTL DEF Spec
=============================================================================
