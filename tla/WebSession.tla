----------------------------- MODULE WebSession -----------------------------
(***************************************************************************)
(* The HTTP request pipeline of the trap (internal/server/trap.go, handle) *)
(* on top of the session half of the store (internal/store/store.go).      *)
(*                                                                         *)
(* Every request is a worker of its own.  It takes a slot of the           *)
(* concurrency semaphore, the lock stripe of its fingerprint, looks its    *)
(* session up, takes the lock stripe of that session, refreshes its copy   *)
(* of the session from the store, assesses the request, promotes the       *)
(* stored sessions of its source address, writes the copy back             *)
(* (UpsertSession) and logs the event (AddEvent).  Each of these steps is  *)
(* one critical section of store.mu or one lock operation, so it is one    *)
(* action here; steps of different workers interleave between them.        *)
(*                                                                         *)
(* A session is reduced to its identity (address, target, first user       *)
(* agent), its counters, the time it was last seen and its automation      *)
(* label.  A target or a user agent may be empty (Blank): a proxy that     *)
(* keeps no host leaves the target unknown (originalRequestHost).  The     *)
(* score behind the label is at least 65 only when the label is            *)
(* "automated" (trap.go, line 193), so one Boolean stands for both.        *)
(***************************************************************************)
EXTENDS Integers, Sequences, FiniteSets

CONSTANTS
  Requests,       \* the requests that arrive, each once; request r mints session id r
  IPs, Targets, UAs,
  Blank,          \* the empty string, as a target or as a user agent
  SelfOrigins,    \* the fingerprints selfOriginRequest recognises as the host itself
  Evidence,       \* what scoring may find in a request, a subset of EvidenceKinds
  FpStripes, SessStripes,
  FpStripe,       \* stripeFor: fingerprint -> lock stripe
  SessStripe,     \* sessionStripeFor: session id -> lock stripe
  MaxConcurrent,  \* cfg.MaxConcurrent, the capacity of the semaphore
  MaxSessions,    \* maxSessions
  PruneTo,        \* maxSessions - 1000, what pruning leaves
  LiveWindow,     \* effectiveLiveMinutes: a longer pause starts a new visit
  ResumeWindow,   \* effectiveResumeHours: a longer pause starts a new session
  MaxTime,        \* bound on the clock
  MaxRestarts,    \* bound on process restarts
  None

Fingerprints == IPs \X Targets \X UAs
EvidenceKinds == {"none", "boost", "tool"}

ASSUME WebAssumption ==
  /\ None \notin Requests
  /\ SelfOrigins \subseteq Fingerprints
  /\ Evidence \subseteq EvidenceKinds
  /\ FpStripe \in [Fingerprints -> FpStripes]
  /\ SessStripe \in [Requests -> SessStripes]
  /\ MaxConcurrent \in Nat /\ MaxSessions \in Nat /\ PruneTo \in Nat
  /\ PruneTo <= MaxSessions
  /\ LiveWindow \in Nat /\ ResumeWindow \in Nat
  /\ MaxTime \in Nat /\ MaxRestarts \in Nat

VARIABLES
  clock,          \* time.Now(), in units of the windows
  restarts,
  pc,             \* where each request is in handle
  client,         \* fingerprint of each request
  cookie,         \* its zl_sid cookie
  arrival,        \* its arrival time
  copy,           \* the local session of the worker (ss)
  created,        \* sessionFor's second result
  sem,            \* slots of the semaphore in use
  fpLock, sessLock, \* holder of each lock stripe
  sessions,       \* store.sessions, a map from ids
  fingerprints,   \* store.fingerprints, a map to ids
  log,            \* the event log, in the order of AddEvent
  \* history
  served,         \* requests committed to each session, as a restart recovers them
  convicted,      \* sessions whose own request was found automated
  promoted,       \* sessions PromoteHTTPAutomation has relabelled
  evicted         \* sessions pruned while a worker held a copy of them

store == <<sessions, fingerprints>>
history == <<served, convicted, promoted, evicted>>
worker == <<client, cookie, arrival, copy, created>>
vars == <<clock, restarts, pc, worker, sem, fpLock, sessLock, store, log, history>>

Session == [id : Requests, ip : IPs, target : Targets, ua : UAs,
            req : Nat, visit : Nat, vreq : Nat, last : Nat, auto : BOOLEAN]

IPOf(fp) == fp[1]
TargetOf(fp) == fp[2]
UAOf(fp) == fp[3]

Stages == {"idle", "admitted", "byCookie", "byFingerprint", "found", "locked",
           "ready", "judged", "upserted", "done"}

\* Workers between taking and returning their slot of the semaphore.
InFlight == {r \in Requests : pc[r] \notin {"idle", "done"}}
HoldsFp(r) == pc[r] \in {"byCookie", "byFingerprint", "found", "locked", "ready",
                         "judged", "upserted"}
HoldsSess(r) == pc[r] \in {"locked", "ready", "judged", "upserted"}
\* Workers that hold a copy of a session they have yet to write back.
HasCopy(r) == pc[r] \in {"found", "locked", "ready", "judged"}

Goto(r, stage) == pc' = [pc EXCEPT ![r] = stage]

\* The locals of a worker that has returned.
Forget(r) ==
  /\ cookie' = [cookie EXCEPT ![r] = None]
  /\ arrival' = [arrival EXCEPT ![r] = 0]
  /\ copy' = [copy EXCEPT ![r] = None]
  /\ UNCHANGED <<client, created>>

----------------------------------------------------------------------------
(* sessionFor, prepareReturnVisit, applyClientMeta and applyRequestMeta *)

NewSession(r) ==
  [id |-> r, ip |-> IPOf(client[r]), target |-> TargetOf(client[r]),
   ua |-> UAOf(client[r]), req |-> 0, visit |-> 1, vreq |-> 0,
   last |-> arrival[r], auto |-> FALSE]

\* A pause longer than LiveWindow makes the request the first of a new visit.
prepareReturnVisit(ss, now) ==
  IF now - ss.last > LiveWindow
  THEN [ss EXCEPT !.visit = @ + 1, !.vreq = 0]
  ELSE ss

applyClientMeta(ss, fp) == [ss EXCEPT !.ip = IPOf(fp)]

\* A request that names its host gives the session that name, whatever name the
\* session had: only the lookup compares the two.
applyRequestMeta(ss, fp) ==
  IF TargetOf(fp) = Blank THEN ss ELSE [ss EXCEPT !.target = TargetOf(fp)]

\* What a worker makes of a session it has just read.
Resume(ss, r) == prepareReturnVisit(applyClientMeta(ss, client[r]), arrival[r])

Resumable(ss, r) == arrival[r] - ss.last <= ResumeWindow

----------------------------------------------------------------------------
(* The steps of handle *)

Init ==
  /\ clock = 0 /\ restarts = 0
  /\ pc = [r \in Requests |-> "idle"]
  /\ client \in [Requests -> Fingerprints]
  /\ cookie = [r \in Requests |-> None]
  /\ arrival = [r \in Requests |-> 0]
  /\ copy = [r \in Requests |-> None]
  /\ created = [r \in Requests |-> FALSE]
  /\ sem = 0
  /\ fpLock = [k \in FpStripes |-> None]
  /\ sessLock = [k \in SessStripes |-> None]
  /\ sessions = << >> /\ fingerprints = << >>
  /\ log = << >>
  /\ served = [s \in Requests |-> 0]
  /\ convicted = {} /\ promoted = {} /\ evicted = {}

Tick ==
  /\ clock < MaxTime
  /\ clock' = clock + 1
  /\ UNCHANGED <<restarts, pc, worker, sem, fpLock, sessLock, store, log, history>>

\* Ids a client can present: a session's id is sent with the headers of the
\* response, before UpsertSession stores it.
Issued == {s \in Requests : /\ pc[s] \in {"judged", "upserted", "done"}
                            /\ created[s]}

\* The request arrives: arrival is read before the semaphore is tried.  With
\* every slot taken it is answered 503 and recorded as http_rejected.
Arrive(r) ==
  /\ pc[r] = "idle"
  /\ \/ /\ sem < MaxConcurrent
        /\ sem' = sem + 1
        /\ \E c \in Issued \cup {None} : cookie' = [cookie EXCEPT ![r] = c]
        /\ arrival' = [arrival EXCEPT ![r] = clock]
        /\ Goto(r, "admitted")
     \/ /\ sem >= MaxConcurrent
        /\ Goto(r, "done")
        /\ UNCHANGED <<sem, cookie, arrival>>
  /\ UNCHANGED <<clock, restarts, client, copy, created,
                 fpLock, sessLock, store, log, history>>

\* A mutant: the early return keeps its slot.
IntegrationCheckLeaking(r) ==
  /\ pc[r] = "admitted"
  /\ Goto(r, "done")
  /\ Forget(r)
  /\ UNCHANGED <<clock, restarts, sem, fpLock, sessLock, store, log, history>>

\* A verified integration check is answered before any session is looked up.
IntegrationCheck(r) ==
  /\ pc[r] = "admitted"
  /\ sem' = sem - 1
  /\ Goto(r, "done")
  /\ Forget(r)
  /\ UNCHANGED <<clock, restarts, fpLock, sessLock, store, log, history>>

\* A mutant: the fingerprint stripe is not waited for.
LockFingerprintUnguarded(r) ==
  /\ pc[r] = "admitted"
  /\ fpLock' = [fpLock EXCEPT ![FpStripe[client[r]]] = r]
  /\ Goto(r, "byCookie")
  /\ UNCHANGED <<clock, restarts, worker, sem, sessLock, store, log, history>>

LockFingerprint(r) ==
  LET k == FpStripe[client[r]] IN
  /\ pc[r] = "admitted"
  /\ fpLock[k] = None
  /\ fpLock' = [fpLock EXCEPT ![k] = r]
  /\ Goto(r, "byCookie")
  /\ UNCHANGED <<clock, restarts, worker, sem, sessLock, store, log, history>>

\* A mutant: the cookie of another target is accepted.
CookieHitAnyTarget(r) ==
  /\ cookie[r] \in DOMAIN sessions
  /\ Resumable(sessions[cookie[r]], r)

\* The cookie's session counts when it is fresh enough and of the same target,
\* or of none yet.
CookieHit(r) ==
  /\ cookie[r] \in DOMAIN sessions
  /\ Resumable(sessions[cookie[r]], r)
  /\ sessions[cookie[r]].target \in {Blank, TargetOf(client[r])}

Found(r, ss, isNew) ==
  /\ copy' = [copy EXCEPT ![r] = ss]
  /\ created' = [created EXCEPT ![r] = isNew]
  /\ Goto(r, "found")

LookupCookie(r) ==
  /\ pc[r] = "byCookie"
  /\ \/ CookieHit(r) /\ Found(r, Resume(sessions[cookie[r]], r), FALSE)
     \/ ~CookieHit(r) /\ Goto(r, "byFingerprint") /\ UNCHANGED <<copy, created>>
  /\ UNCHANGED <<clock, restarts, client, cookie, arrival,
                 sem, fpLock, sessLock, store, log, history>>

FingerprintHit(r) ==
  /\ client[r] \in DOMAIN fingerprints
  /\ fingerprints[client[r]] \in DOMAIN sessions
  /\ Resumable(sessions[fingerprints[client[r]]], r)

LookupFingerprint(r) ==
  /\ pc[r] = "byFingerprint"
  /\ \/ FingerprintHit(r)
        /\ Found(r, Resume(sessions[fingerprints[client[r]]], r), FALSE)
     \/ ~FingerprintHit(r) /\ Found(r, NewSession(r), TRUE)
  /\ UNCHANGED <<clock, restarts, client, cookie, arrival,
                 sem, fpLock, sessLock, store, log, history>>

LockSession(r) ==
  LET k == SessStripe[copy[r].id] IN
  /\ pc[r] = "found"
  /\ sessLock[k] = None
  /\ sessLock' = [sessLock EXCEPT ![k] = r]
  /\ Goto(r, "locked")
  /\ UNCHANGED <<clock, restarts, worker, sem, fpLock, store, log, history>>

\* A mutant: the copy read before the session stripe was taken is kept.
RefreshSkipped(r) ==
  /\ pc[r] = "locked"
  /\ copy' = [copy EXCEPT ![r] = applyRequestMeta(@, client[r])]
  /\ Goto(r, "ready")
  /\ UNCHANGED <<clock, restarts, client, cookie, arrival, created,
                 sem, fpLock, sessLock, store, log, history>>

\* Only a resumed session is refreshed, and only while the store still has it;
\* then the request's target goes on it.  The target is not compared again: two
\* requests for two hosts that found one nameless session both name it.
Refresh(r) ==
  LET s == copy[r].id
      ss == IF ~created[r] /\ s \in DOMAIN sessions
            THEN Resume(sessions[s], r) ELSE copy[r]
  IN
  /\ pc[r] = "locked"
  /\ copy' = [copy EXCEPT ![r] = applyRequestMeta(ss, client[r])]
  /\ Goto(r, "ready")
  /\ UNCHANGED <<clock, restarts, client, cookie, arrival, created,
                 sem, fpLock, sessLock, store, log, history>>

SessionsOf(ip) == {s \in DOMAIN sessions : sessions[s].ip = ip}

\* A mutant: an automated session is assessed afresh.
FindingsForgetful(r) == Evidence

\* What scoring makes of the request.  "tool" is evidence that makes it
\* automated by itself (a score of 65 or more, a host sweep, a claimed bot);
\* "boost" is actor-wide evidence of 30 or more that leaves its own score below
\* 65.  An automated session is sticky: its requests all count as "tool".
Findings(r) == IF copy[r].auto THEN {"tool"} ELSE Evidence

\* The session with the request labelled and counted.
Counted(ss, found, now) ==
  [ss EXCEPT !.auto = (found = "tool"), !.req = @ + 1, !.vreq = @ + 1, !.last = now]

\* Scoring and its consequences: PromoteHTTPAutomation relabels every stored
\* session of the address, under store.mu alone, then the worker labels and
\* counts its own copy.  The promotion does not touch the copy.
Judge(r, found) ==
  LET ip == IPOf(client[r])
      hit == IF found # "none" /\ client[r] \notin SelfOrigins
             THEN SessionsOf(ip) ELSE {}
  IN
  /\ pc[r] = "ready"
  /\ found \in Findings(r)
  /\ sessions' = [s \in DOMAIN sessions |->
                    [sessions[s] EXCEPT !.auto = @ \/ s \in hit]]
  /\ promoted' = promoted \cup hit
  /\ copy' = [copy EXCEPT ![r] = Counted(@, found, arrival[r])]
  /\ Goto(r, "judged")
  /\ UNCHANGED <<clock, restarts, client, cookie, arrival, created,
                 sem, fpLock, sessLock, fingerprints, log, served, convicted, evicted>>

\* pruneSessionsLocked(target): the least recently seen go, ties in any order.
Prunable(ids, seen, target) ==
  {dead \in SUBSET ids :
     /\ Cardinality(dead) = Cardinality(ids) - target
     /\ \A d \in dead, k \in ids \ dead : seen[d] <= seen[k]}

\* The copy replaces the stored session and the fingerprint points at it.  A
\* new id that takes the store over maxSessions triggers pruning, which may
\* remove the session just written (its arrival can be the oldest).
UpsertSession(r) ==
  LET s    == copy[r].id
      ids  == DOMAIN sessions \cup {s}
      seen == [x \in ids |-> IF x = s THEN copy[r].last ELSE sessions[x].last]
      over == s \notin DOMAIN sessions /\ Cardinality(ids) > MaxSessions
      index == [fp \in DOMAIN fingerprints \cup {client[r]} |->
                  IF fp = client[r] THEN s ELSE fingerprints[fp]]
  IN
  /\ pc[r] = "judged"
  /\ \E dead \in IF over THEN Prunable(ids, seen, PruneTo) ELSE {{}} :
       /\ sessions' = [x \in ids \ dead |-> IF x = s THEN copy[r] ELSE sessions[x]]
       /\ fingerprints' = [fp \in {f \in DOMAIN index : index[f] \notin dead} |-> index[fp]]
       /\ evicted' = evicted \cup
            {d \in dead : \E q \in Requests \ {r} : HasCopy(q) /\ copy[q].id = d}
  /\ served' = [served EXCEPT ![s] = @ + 1]
  /\ convicted' = IF copy[r].auto THEN convicted \cup {s} ELSE convicted
  /\ Goto(r, "upserted")
  /\ UNCHANGED <<clock, restarts, worker, sem, fpLock, sessLock, log, promoted>>

\* A mutant: the session stripe is never unlocked.
ReleaseFingerprintOnly(r) ==
  /\ fpLock' = [fpLock EXCEPT ![FpStripe[client[r]]] = None]
  /\ sem' = sem - 1
  /\ UNCHANGED sessLock

\* The deferred calls of handle.
Release(r) ==
  /\ sessLock' = [sessLock EXCEPT ![SessStripe[copy[r].id]] = None]
  /\ fpLock' = [fpLock EXCEPT ![FpStripe[client[r]]] = None]
  /\ sem' = sem - 1

\* AddEvent appends the event (or fails to write and logs nothing), and the
\* deferred calls give back both lock stripes and the slot.
AddEvent(r) ==
  /\ pc[r] = "upserted"
  /\ \/ log' = Append(log, copy[r])
     \/ UNCHANGED log
  /\ Release(r)
  /\ Goto(r, "done")
  /\ Forget(r)
  /\ UNCHANGED <<clock, restarts, store, history>>

----------------------------------------------------------------------------
(* A restart: load replays the log, applyEvent rebuilds the sessions *)

Logged == {log[i].id : i \in DOMAIN log}

\* A mutant: replay keeps the first state of a session.
FirstEvent(s) == log[CHOOSE i \in DOMAIN log :
                       log[i].id = s /\ \A j \in DOMAIN log : log[j].id = s => i <= j]

\* The last event of a session.
LastEvent(s) == log[CHOOSE i \in DOMAIN log :
                      log[i].id = s /\ \A j \in DOMAIN log : log[j].id = s => j <= i]

NamedEvents(s) == {i \in DOMAIN log : log[i].id = s /\ log[i].target # Blank}
LastNamed(s) == CHOOSE i \in NamedEvents(s) : \A j \in NamedEvents(s) : j <= i

\* Replay leaves a session as its last event describes it, but an event without
\* a target leaves the target as it was.
Replayed(s) ==
  [LastEvent(s) EXCEPT !.target =
     IF NamedEvents(s) = {} THEN @ ELSE log[LastNamed(s)].target]

\* applyEvent indexes a session under its first user agent only, if it has one,
\* and under the target of the event.
EventFp(e) == <<e.ip, e.target, e.ua>>
LoggedFps == {EventFp(log[i]) : i \in {j \in DOMAIN log : log[j].ua # Blank}}
LastWith(fp) == CHOOSE i \in DOMAIN log :
                  EventFp(log[i]) = fp /\ \A j \in DOMAIN log : EventFp(log[j]) = fp => j <= i

\* All workers die with the process.  load prunes to maxSessions; which ids it
\* keeps of a longer log depends on the order of the log and is left open.
Restart ==
  /\ restarts < MaxRestarts
  /\ restarts' = restarts + 1
  /\ \E keep \in SUBSET Logged :
       /\ Cardinality(Logged) <= MaxSessions => keep = Logged
       /\ Cardinality(Logged) > MaxSessions => Cardinality(keep) = MaxSessions
       /\ sessions' = [s \in keep |-> Replayed(s)]
       /\ fingerprints' = [fp \in {f \in LoggedFps : log[LastWith(f)].id \in keep}
                            |-> log[LastWith(fp)].id]
  /\ pc' = [r \in Requests |-> IF pc[r] = "idle" THEN "idle" ELSE "done"]
  /\ cookie' = [r \in Requests |-> None]
  /\ arrival' = [r \in Requests |-> 0]
  /\ copy' = [r \in Requests |-> None]
  /\ sem' = 0
  /\ fpLock' = [k \in FpStripes |-> None]
  /\ sessLock' = [k \in SessStripes |-> None]
  /\ served' = [s \in Requests |-> IF s \in Logged THEN LastEvent(s).req ELSE 0]
  /\ convicted' = {s \in Logged : LastEvent(s).auto}
  /\ promoted' = {}
  /\ UNCHANGED <<clock, client, created, log, evicted>>

----------------------------------------------------------------------------
Step(r) ==
  \/ IntegrationCheck(r) \/ LockFingerprint(r) \/ LookupCookie(r)
  \/ LookupFingerprint(r) \/ LockSession(r) \/ Refresh(r)
  \/ (\E f \in EvidenceKinds : Judge(r, f)) \/ UpsertSession(r) \/ AddEvent(r)

Next == Tick \/ Restart \/ \E r \in Requests : Arrive(r) \/ Step(r)

Spec == Init /\ [][Next]_vars

----------------------------------------------------------------------------
(* Properties *)

\* The type invariant.
TypeOK ==
  /\ clock \in Nat /\ restarts \in Nat /\ sem \in Int
  /\ pc \in [Requests -> Stages]
  /\ client \in [Requests -> Fingerprints]
  /\ cookie \in [Requests -> Requests \cup {None}]
  /\ arrival \in [Requests -> Nat]
  /\ \A r \in Requests : HoldsSess(r) \/ HasCopy(r) => copy[r] \in Session
  /\ DOMAIN copy = Requests
  /\ created \in [Requests -> BOOLEAN]
  /\ fpLock \in [FpStripes -> Requests \cup {None}]
  /\ sessLock \in [SessStripes -> Requests \cup {None}]
  /\ sessions \in [DOMAIN sessions -> Session]
  /\ DOMAIN sessions \subseteq Requests
  /\ fingerprints \in [DOMAIN fingerprints -> Requests]
  /\ DOMAIN fingerprints \subseteq Fingerprints
  /\ log \in Seq(Session)
  /\ served \in [Requests -> Nat]
  /\ convicted \subseteq Requests /\ promoted \subseteq Requests
  /\ evicted \subseteq Requests

\* "... refresh from the store so parallel workers cannot overwrite each other's
\* request/visit counters with stale clones" (trap.go, line 92): the request
\* counter of a stored session is the number of requests committed to it,
\* whatever mixture of cookies and user agents they came with.  A session
\* pruned under a worker that holds a copy of it is the one exception.
NoLostRequest ==
  \A s \in DOMAIN sessions \ evicted : sessions[s].req = served[s]

\* e counts fewer requests than f, in an earlier visit or earlier in the same.
Before(e, f) ==
  /\ e.req < f.req
  /\ e.visit < f.visit \/ (e.visit = f.visit /\ e.vreq < f.vreq)

\* The log numbers a session's requests and visits in order: no number is used
\* twice and no visit is reopened, across restarts and failed writes too.
LogOrdered ==
  \A i, j \in DOMAIN log :
    (i < j /\ log[i].id = log[j].id /\ log[i].id \notin evicted)
      => Before(log[i], log[j])

\* The session was opened by a request whose target was known.
OpenedNamed(s) == TargetOf(client[s]) # Blank

\* The fingerprint index never leads to a pruned session, nor a request for one
\* host to a session that was opened for another: what one virtual host was shown
\* is not resumed on another, and a session opened with a target keeps it.  A
\* session opened without a target makes no such promise: it takes the target of
\* any request that found it nameless (trap.go, lines 671 and 403).
IndexSound ==
  \A fp \in DOMAIN fingerprints :
    LET s == fingerprints[fp] IN
    /\ s \in DOMAIN sessions
    /\ OpenedNamed(s) => /\ TargetOf(fp) = TargetOf(client[s])
                         /\ sessions[s].target = TargetOf(client[s])

\* "Automation evidence is sticky within a resumed session" (trap.go, line
\* 129): once a request of a session was found automated, the stored session
\* is labelled automated for good.
AutomationSticky ==
  \A s \in (DOMAIN sessions \cap convicted) \ evicted : sessions[s].auto

\* However many first requests of one fingerprint run in parallel, one of them
\* creates the session: no two workers hold new sessions for it.
NoTwinSessions ==
  \A q, r \in Requests :
    (q # r /\ HasCopy(q) /\ HasCopy(r) /\ created[q] /\ created[r])
      => client[q] # client[r]

\* Every slot of the semaphore belongs to a request that is being handled, so
\* neither the early returns nor the deferred calls leak or double free one.
SlotsAccounted == IsFiniteSet(InFlight) => sem = Cardinality(InFlight)

\* A request waits for the lock stripe another one holds.
Blocked(r) ==
  \/ pc[r] = "admitted" /\ fpLock[FpStripe[client[r]]] # None
  \/ pc[r] = "found" /\ sessLock[SessStripe[copy[r].id]] # None

\* Two stripes are taken in one order, fingerprint then session, and both given
\* back: however stripes collide, of the requests in flight one can go on.  As a
\* request takes a bounded number of steps, every one of them is answered.
NoStandstill == InFlight # {} => \E r \in InFlight : ~Blocked(r)

\* "... retained active sessions from that IP are promoted as well so the
\* dashboard does not keep contradictory `human` rows" (docs/SCORING.md, line
\* 66): a session that was promoted stays labelled automated.  It does NOT hold:
\* the copy of a worker, even of the one that promoted, overwrites the label.
PromotionKept == \A s \in DOMAIN sessions \cap promoted : sessions[s].auto

----------------------------------------------------------------------------
(* The inductive invariant behind the properties *)

AtMost(e, f) ==
  /\ e.req <= f.req
  /\ e.visit < f.visit \/ (e.visit = f.visit /\ e.vreq <= f.vreq)

\* Requests whose session id may occur in the store, in copies and in the log.
Minted == {s \in Requests : pc[s] \in {"upserted", "done"}}

\* A worker past a lock operation holds that stripe.
LocksHeld ==
  \A r \in Requests :
    /\ HoldsFp(r) => fpLock[FpStripe[client[r]]] = r
    /\ HoldsSess(r) => sessLock[SessStripe[copy[r].id]] = r

\* A stripe that is taken is held by a worker past that lock operation.
LocksOwned ==
  /\ \A k \in FpStripes : fpLock[k] # None =>
       HoldsFp(fpLock[k]) /\ k = FpStripe[client[fpLock[k]]]
  /\ \A k \in SessStripes : sessLock[k] # None =>
       HoldsSess(sessLock[k]) /\ k = SessStripe[copy[sessLock[k]].id]

\* The session has the target of the request that minted it, if that had one.
TargetKept(ss) == OpenedNamed(ss.id) => ss.target = TargetOf(client[ss.id])

\* A session id belongs to the request that minted it.
StoredIds == \A s \in DOMAIN sessions :
  sessions[s].id = s /\ s \in Minted /\ TargetKept(sessions[s])

LoggedIds == \A i \in DOMAIN log : log[i].id \in Minted /\ TargetKept(log[i])

FreshIds == \A s \in Requests \ Minted : served[s] = 0 /\ s \notin convicted

CopyIds == \A r \in Requests :
  /\ HasCopy(r) \/ pc[r] = "upserted" => TargetKept(copy[r])
  /\ HasCopy(r) => (OpenedNamed(copy[r].id) => TargetOf(client[r]) = TargetOf(client[copy[r].id]))
  /\ HasCopy(r) /\ created[r] => copy[r].id = r
  /\ HasCopy(r) /\ ~created[r] => copy[r].id \in Minted
  /\ pc[r] \in {"found", "locked", "ready"} /\ created[r] =>
       copy[r].req = 0 /\ copy[r].auto = FALSE
  /\ pc[r] = "upserted" => copy[r].id \in Minted

\* A copy is of a stored session, unless it is new or was evicted meanwhile.
CopiesStored ==
  \A r \in Requests :
    (HasCopy(r) /\ ~created[r] /\ copy[r].id \notin evicted) => copy[r].id \in DOMAIN sessions

LoggedAtMost(ss) == \A i \in DOMAIN log : log[i].id = ss.id => AtMost(log[i], ss)
LoggedBefore(ss) == \A i \in DOMAIN log : log[i].id = ss.id => Before(log[i], ss)

\* From the refresh to the log entry, the copy of the worker that holds the
\* session is the latest: nothing logged or committed is ahead of it.
CurrentCopy(r) ==
  /\ (pc[r] = "ready" /\ copy[r].id \notin evicted) =>
       /\ copy[r].req = served[copy[r].id]
       /\ copy[r].id \in convicted => copy[r].auto
       /\ LoggedAtMost(copy[r])
  /\ (pc[r] = "judged" /\ copy[r].id \notin evicted) =>
       /\ copy[r].req = served[copy[r].id] + 1
       /\ copy[r].id \in convicted => copy[r].auto
       /\ LoggedBefore(copy[r])
  /\ (pc[r] = "upserted" /\ copy[r].id \notin evicted) => LoggedBefore(copy[r])

CopyCurrent == \A r \in Requests : CurrentCopy(r)

\* The store is at least as far as the log.
StoreCurrent ==
  \A s \in DOMAIN sessions \ evicted :
    /\ LoggedAtMost(sessions[s])
    /\ \A r \in Requests : (pc[r] = "upserted" /\ copy[r].id = s) =>
         /\ sessions[s].req = copy[r].req /\ sessions[s].visit = copy[r].visit
         /\ sessions[s].vreq = copy[r].vreq

IInv ==
  /\ TypeOK /\ LocksHeld /\ StoredIds /\ LoggedIds /\ FreshIds /\ CopyIds
  /\ CopiesStored /\ CopyCurrent /\ StoreCurrent
  /\ NoLostRequest /\ LogOrdered /\ IndexSound /\ AutomationSticky

=============================================================================
