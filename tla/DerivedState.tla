---------------------------- MODULE DerivedState ----------------------------
(***************************************************************************)
(* What the store derives from the three event logs: counters, the profile *)
(* of a source, its SSH sessions and the SSH highlights                    *)
(* (internal/store/store.go, actors.go, ssh.go, activity.go,               *)
(* ssh_highlights.go).  AddEvent, AddSSHEvent and AddIntelSignal update it *)
(* event by event; NewWithRetention rebuilds it from the logs, one log     *)
(* after the other.                                                        *)
(*                                                                         *)
(* The module follows one source.  Time stamps differ from event to event. *)
(* A write either succeeds or changes nothing here: torn lines and failed  *)
(* rewrites are EventLog's subject.  Left out are the order in which the   *)
(* behaviour summary is kept and the country of the source.                *)
(***************************************************************************)
EXTENDS ActorEvidence, StorageBudget, Tables, Bags, TLC

CONSTANTS
  Scenes,       \* what may happen: requests, SSH events and signals, how many of
                \* them, how far apart, and how many writes fail or goroutines panic
  Sids,         \* SSH sessions
  MaxRing, MaxPathKeys, MaxTimeline,
  MaxBehaviors,  \* maxActorBehaviorSummary
  MaxSessions, PruneSlack,   \* maxSessions and the 1000 below or above it
  Hour,         \* of the activity aggregates
  Retention,
  CritBytes, TargetBytes,    \* storage pressure
  MaxLives      \* bound on starts of the process

\* A record before it is stamped has at least a byte and its newline.
IsRecord(r) == "size" \in DOMAIN r /\ r.size \in Nat /\ r.size >= 2

\* What a request or an SSH event says of its source (model.Score).
IsScored(r) ==
  /\ {"risk", "depth", "class"} \subseteq DOMAIN r /\ {r.risk, r.depth} \subseteq Nat
  /\ r.class \in {"benign", "suspicious", "hostile"}

\* An SSH event.
IsSSHRecord(r) == {"sid", "type"} \subseteq DOMAIN r /\ r.sid \in Sids /\ IsScored(r)

ASSUME DerivedAssumption ==
  /\ \A s \in Scenes : s.budget \in Nat /\ s.faults \in Nat /\ s.steps \subseteq Nat \ {0}
  /\ \A s \in Scenes : /\ {"http", "ssh", "intel", "steps"} \subseteq DOMAIN s
                       /\ \A r \in s.http \cup s.ssh \cup s.intel : IsRecord(r)
                       /\ \A r \in s.http : IsScored(r)
                       /\ \A r \in s.ssh : IsSSHRecord(r)
  /\ IsFiniteSet(Sids)
  /\ {MaxRing, MaxPathKeys, MaxTimeline, MaxBehaviors, MaxSessions, Hour, TargetBytes,
       MaxLives} \subseteq Nat \ {0}
  /\ PruneSlack \in 0..MaxSessions /\ {Retention, CritBytes} \subseteq Nat
  /\ TargetBytes < CritBytes
  /\ {Limits.manyCommands, Limits.manyScore} \subseteq Nat
  /\ Limits.manyScore <= 2 * Limits.manyCommands

VARIABLES
  logs,      \* the files: <<events, ssh-events, intel-events>>
  d,         \* what the store keeps in memory
  clock,
  conn,      \* the real connection of each session
  scene, lives, faults,
  \* history
  kept,      \* the events of the logs at the last start, and all since
  memory,    \* what was applied to the profile without an event
  carried,   \* the last start found sessions whose end was never logged
  ghosts,    \* sessions over without a logged end, or with a shell logged after it
  cutoff,    \* the last cutoff of a retention sweep
  seen       \* highlights that were shown and have been in the list since

history == <<kept, memory, carried, ghosts, cutoff, seen>>
vars == <<logs, d, clock, conn, scene, lives, faults, history>>

----------------------------------------------------------------------------
(* The profile of the source *)

NoProfile ==
  [first |-> 0, last |-> 0, protocols |-> {}, risk |-> 0, depth |-> 0,
   class |-> "benign", actor |-> "unknown", fps |-> {}, counts |-> EmptyBag,
   lastAt |-> << >>, engagement |-> 0,
   wall |-> [p \in {"http", "ssh"} |-> [total |-> 0, active |-> 0, end |-> 0]],
   timeline |-> << >>, events |-> << >>, sequences |-> << >>, sightings |-> {},
   agents |-> << >>, claims |-> {}, sshEvents |-> << >>, sessions |-> << >>,
   users |-> {}, peak |-> 0, perMinute |-> 0, revisit |-> <<0, 0>>,
   lastCommand |-> <<"", 0>>, highlights |-> << >>, history |-> << >>]

Bump(bag, keys) == bag (+) SetToBag(keys)

\* bumpActorBehavior: of more names than the summary holds the last of those that count
\* least goes; the order of names is CHOOSE's here.
Behaviors(counts) == {k \in DOMAIN counts : k[1] = "behavior"}
Trimmed(counts) ==
  IF Cardinality(Behaviors(counts)) <= MaxBehaviors THEN counts
  ELSE LET last == CHOOSE k \in Behaviors(counts) :
                     \A j \in Behaviors(counts) : counts[k] <= counts[j]
       IN  [k \in DOMAIN counts \ {last} |-> counts[k]]

bumpActorBehavior(counts, name) == Trimmed(Bump(counts, {<<"behavior">> \o name}))
bumpActorBehaviors(counts, names) == FoldLeft(bumpActorBehavior, counts, names)

Newest(seq, n) == SubSeq(seq, Max({1, Len(seq) - n + 1}), Len(seq))
Lookup(f, k, default) == IF k \in DOMAIN f THEN f[k] ELSE default

ensureActor(p, at) ==
  [p EXCEPT !.first = IF @ = 0 THEN at ELSE Min({@, at}), !.last = Max({@, at})]

ClassRank == [hostile |-> 3, suspicious |-> 2, benign |-> 1]
strongerClassification(a, b) == IF ClassRank[b] > ClassRank[a] THEN b ELSE a

\* A mutant: the last word counts.
strongerActorLatest(a, b) == IF b = "unknown" THEN a ELSE b

\* Automation evidence is stronger than a browser-looking hint.
strongerActor(a, b) ==
  IF "automated" \in {a, b} THEN "automated"
  ELSE IF "human" \in {a, b} THEN "human" ELSE "unknown"

\* A segment counts in full, and once more only for the time nobody counted yet.
addActorWallSegment(w, start, end) ==
  [total |-> w.total + end - start,
   active |-> w.active + (IF w.end = 0 \/ start >= w.end THEN end - start
                          ELSE Max({0, end - w.end})),
   end |-> Max({w.end, end})]

\* A gap in one activity of one protocol counts, unless it is a long one.
EngagedSince(p, protocol, key, last, at) ==
  IF at > last /\ at - last <= Limits.idle
  THEN [p EXCEPT !.engagement = @ + at - last,
                 !.wall[protocol] = addActorWallSegment(@, last, at),
                 !.lastAt = Put(@, key, at)]
  ELSE [p EXCEPT !.lastAt = Put(@, key, at)]

addActorEngagement(p, protocol, activity, at) ==
  EngagedSince(p, protocol, <<protocol, activity>>,
               Lookup(p.lastAt, <<protocol, activity>>, at), at)

appendActorActivity(p, protocol, kind, at) ==
  [p EXCEPT !.timeline = Newest(Append(@, [protocol |-> protocol, kind |-> kind, at |-> at]),
                                MaxTimeline)]

\* What the event says of risk, depth, class and actor; the detectors' labels.
Judge(p, e, labels, automated) ==
  [p EXCEPT !.risk = Max({@, e.risk}), !.depth = Max({@, e.depth}),
            !.class = strongerClassification(@, e.class),
            !.actor = strongerActor(IF automated THEN "automated" ELSE @, e.actor),
            !.fps = @ \cup labels]

Label(name, test) == IF test THEN {<<name>>} ELSE {}

----------------------------------------------------------------------------
(* HTTP: counters and profile *)

Keys(p, kind) == {k \in DOMAIN p.counts : k[1] = kind}
Capped(p, kind, key) ==
  IF <<kind, key>> \in Keys(p, kind) \/ Cardinality(Keys(p, kind)) < MaxPathKeys
  THEN <<kind, key>> ELSE <<kind, "(other)">>

\* The counters an event adds one to.
countIPDailyActivity(at, protocol) == {<<"ipDaily", at \div Hour, protocol>>}
countHTTPActivity(e) ==
  {<<"httpHour", e.at \div Hour, e.target>>} \cup countIPDailyActivity(e.at, "http")
countPath(p, e) == {Capped(p, "path", e.path)}
countTarget(e) == {<<"target", e.target>>}
countRequestHost(p, e) == {Capped(p, "requestHost", e.target)}

\* Known probes, the root and harmless requests are no unknown paths.
countUnknown(e) ==
  IF e.known \/ e.path = "/" \/ (e.category = "request" /\ e.risk < 20 /\ ~e.missing)
  THEN {} ELSE {<<"unknown", e.path>>}
countProbe(e) ==
  IF e.known THEN {<<"probe", e.product>>, <<"probeClass", e.product, e.class>>} ELSE {}
countCatchAll(p, e) ==
  IF e.catchAll
  THEN {Capped(p, "catchAll", e.target), <<"catchAllClass", e.target, e.class>>,
        <<"catchAllRequests">>}
  ELSE {}

HttpKeys(p, e) ==
  {<<"requests">>} \cup countHTTPActivity(e) \cup countPath(p, e) \cup countTarget(e)
  \cup countRequestHost(p, e) \cup countUnknown(e) \cup countProbe(e) \cup countCatchAll(p, e)

\* The first requests of a session, as a program; the same program run against
\* another target under another user agent at nearly the same time.
Sighted(p, e, seq, rows) ==
  LET worker == \E r \in rows : /\ r.seq = seq /\ r.target # e.target
                                /\ r.ua # e.ua /\ "" \notin {r.ua, e.ua}
      room == Cardinality({f \in p.fps : f[1] = "http:sequence"}) < Limits.sequenceLabels
  IN  [p EXCEPT
         !.fps = @ \cup Label("http:parallel-target-worker-pool", worker)
                   \cup (IF room THEN {<<"http:sequence", seq>>} ELSE {}),
         !.sightings = rows \cup {[seq |-> seq, target |-> e.target, ua |-> e.ua, at |-> e.at]}]

Sequenced(p, e, seq) ==
  IF Len(seq) = Limits.sequence
  THEN Sighted([p EXCEPT !.sequences = Put(@, e.sid, seq)], e, seq,
               {r \in p.sightings : r.seq # seq \/ r.at >= e.at - Limits.workerWindow})
  ELSE [p EXCEPT !.sequences = Put(@, e.sid, seq)]

Extended(seq, e) ==
  IF Len(seq) < Limits.sequence THEN Append(seq, <<e.method, e.path>>) ELSE seq

updateHTTPSequenceFingerprint(p, e) ==
  Sequenced(p, e, Extended(Lookup(p.sequences, e.sid, << >>), e))

\* The user agents of automated requests within a quarter of an hour.
agentsAfter(p, e) ==
  IF e.automation < 80 \/ e.ua = "" THEN p.agents
  ELSE Put([ua \in {x \in DOMAIN p.agents : p.agents[x] >= e.at - Limits.agentWindow}
              |-> p.agents[ua]], e.ua, e.at)

Named(name, test) == IF test THEN <<name>> ELSE << >>
Fingerprints(labels) == SetToSeq({<<"fingerprint", f>> : f \in labels})
HttpBehaviors(e) ==
  Named(<<"http-category", e.category>>, e.category \notin {"", "request"})
  \o Named(<<"http-product", e.product>>, e.product # "")
  \o Fingerprints(fingerprintHTTP(e))

\* The labels of the request and of the detectors.
HttpLabels(e, chain, periodic, agents, claims) ==
  fingerprintHTTP(e)
  \cup Label("http:phpunit-docker-exec-chain", chain)
  \cup Label("http:periodic-auth-validator", periodic)
  \cup Label("http:user-agent-rotation",
             e.automation >= 80 /\ Cardinality(DOMAIN agents) >= Limits.agents)
  \cup Label("http:bot-identity-rotation", e.claim # "" /\ Cardinality(claims) >= 2)

HttpJudged(p, e, chain, periodic, agents, claims) ==
  [Judge(p, IF periodic THEN [e EXCEPT !.class = "hostile", !.risk = Max({@, 82})] ELSE e,
         HttpLabels(e, chain, periodic, agents, claims), chain \/ periodic)
     EXCEPT !.protocols = @ \cup {"http"}, !.agents = agents, !.claims = claims,
            !.counts = bumpActorBehaviors(Bump(@, {<<"actorHttp">>}), HttpBehaviors(e))]

applyActorHTTPEvent(p, e) ==
  IF e.self THEN [ensureActor(p, e.at) EXCEPT !.counts = Bump(@, {<<"selfOrigin">>})]
  ELSE appendActorActivity(
         addActorEngagement(
           HttpJudged(updateHTTPSequenceFingerprint(ensureActor(p, e.at), e), e,
                      httpPHPUnitDockerExecChain(p.events, e),
                      httpPeriodicAuthValidator(p.events, e),
                      agentsAfter(p, e), p.claims \cup ({e.claim} \ {""})),
           "http", <<e.sid, e.visit>>, e.at),
         "http", e.category, e.at)

\* What AddEvent and load do with an event.
ApplyEvent(p, e) ==
  applyActorHTTPEvent([p EXCEPT !.counts = Bump(@, HttpKeys(p, e)),
                                !.events = Newest(Append(@, e), MaxRing)], e)

\* ApplyHTTPActorFingerprint and PromoteHTTPAutomation, before the event is logged.
Promoted(e, signals) == e.automation >= 65 \/ AutomationBoost(signals) >= 30
ApplyHTTPActorFingerprint(p, e, signals) ==
  IF e.self THEN p
  ELSE LET a == IF signals # {} \/ Promoted(e, signals) THEN ensureActor(p, e.at) ELSE p
       IN  [a EXCEPT !.fps = @ \cup {<<f>> : f \in signals},
                     !.counts = bumpActorBehaviors(@, Fingerprints({<<f>> : f \in signals})),
                     !.actor = IF Promoted(e, signals) THEN "automated" ELSE @]

----------------------------------------------------------------------------
(* SSH: counters, sessions, highlights and profile *)

\* The daily bucket of a source counts connections only.
countSSHActivity(e) ==
  (IF e.type \in {"connect", "auth", "shell", "exec", "command", "request"}
   THEN {<<"sshHour", e.at \div Hour>>} ELSE {})
  \cup (IF e.type = "connect" THEN countIPDailyActivity(e.at, "ssh") ELSE {})

SSHKeys(ss, e) ==
  countSSHActivity(e)
  \cup (CASE e.type = "connect" -> {<<"sshConnections">>}
          [] e.type = "auth" -> {<<"sshAuth", e.accepted>>, <<"sshUser", e.user>>}
          [] e.type = "shell" -> IF ss.shell THEN {} ELSE {<<"sshShells">>}
          [] IsCommand(e) -> {<<"sshCommand", e.name>>, <<"sshFamily", e.family>>}
          [] OTHER -> {})

NoSession(at) ==
  [active |-> FALSE, accepted |-> FALSE, user |-> "", shell |-> FALSE, execs |-> 0,
   commands |-> 0, first |-> at, last |-> at, ended |-> 0, depth |-> 0, actor |-> "unknown"]

RapidExec(ss, at) ==
  ~ss.shell /\ ss.execs >= Limits.execs /\ at - ss.first <= Limits.execWindow

\* A mutant: only an orderly end is noticed.
sessionEndsDisconnect(e) == e.type = "disconnect"
sessionEnds(e) == IsEnd(e)

\* applySSHEventLocked, the session.
sessionAfter(ss, e) ==
  LET rapid == e.type = "exec" /\ RapidExec([ss EXCEPT !.execs = @ + 1], e.at) IN
  [ss EXCEPT
     !.active = ~sessionEnds(e) /\ (@ \/ e.type \in {"connect", "shell"}),
     !.accepted = @ \/ (e.type = "auth" /\ e.accepted),
     !.user = IF e.user = "" THEN @ ELSE e.user,
     !.shell = @ \/ e.type = "shell",
     !.execs = IF e.type = "exec" THEN @ + 1 ELSE @,
     !.commands = IF IsCommand(e) THEN @ + 1 ELSE @,
     !.last = Max({@, e.at}), !.depth = Max({@, e.depth}),
     !.ended = IF sessionEnds(e) THEN e.at ELSE IF e.type = "connect" THEN 0 ELSE @,
     !.actor = IF rapid THEN "automated"
               ELSE IF e.actor = "unknown" \/ @ = "automated" THEN @ ELSE e.actor]

NoHighlight ==
  [acceptedAt |-> 0, first |-> 0, last |-> 0, commands |-> 0, families |-> {}, signals |-> {}]

\* updateSSHHighlightStateLocked: nothing counts before the accepted login.
Noted(h, e) ==
  IF IsCommand(e)
  THEN [h EXCEPT !.signals = @ \cup e.signals,
                 !.commands = @ + 1, !.families = @ \cup ({e.family} \ {""}),
                 !.first = IF @ = 0 THEN e.at ELSE Min({@, e.at}), !.last = Max({@, e.at})]
  ELSE [h EXCEPT !.signals = @ \cup e.signals]

highlightAfter(h, e) ==
  CASE h.acceptedAt # 0 /\ e.at >= h.acceptedAt -> Noted(h, e)
    [] h.acceptedAt = 0 /\ e.type = "auth" /\ e.accepted ->
         Noted([h EXCEPT !.acceptedAt = e.at], e)
    [] OTHER -> h

\* scoreSSHHighlightState.  Scoring writes the scripted-recon signal back.
Scripted(h) ==
  /\ h.commands >= Limits.scriptCommands /\ Cardinality(h.families) >= Limits.scriptFamilies
  /\ h.last - h.first <= Limits.scriptWindow

Signals(h) == h.signals \cup (IF Scripted(h) THEN {"scripted-recon"} ELSE {})

HighSignals ==
  {"privilege", "persistence", "payload-staging", "canary", "miner", "resource-hijack"}

sshHighlightMinScore == 50

\* Up to Limits.manyCommands (10) commands count two points each, more of them
\* Limits.manyScore (18) together.
CommandPoints(h) ==
  IF h.commands > Limits.manyCommands THEN Limits.manyScore ELSE h.commands * 2
DepthPoints(ss) == IF ss.depth > 5 THEN 15 ELSE ss.depth * 2
FamilyPoints(h) == IF Cardinality(h.families) >= 3 THEN 7 ELSE 0
PointsFor(signals, signal, points) == IF signal \in signals THEN points ELSE 0
SignalPoints(signals) ==
  PointsFor(signals, "privilege", 14) + PointsFor(signals, "persistence", 18)
  + PointsFor(signals, "payload-staging", 20) + PointsFor(signals, "process-control", 10)
  + PointsFor(signals, "control-flow", 7) + PointsFor(signals, "scripted-recon", 12)
  + PointsFor(signals, "credentials", 10) + PointsFor(signals, "canary", 20)
  + PointsFor(signals, "miner", 18) + PointsFor(signals, "resource-hijack", 20)

Points(ss, h, signals) ==
  20 + CommandPoints(h) + DepthPoints(ss) + SignalPoints(signals) + FamilyPoints(h)

Scored(ss, h) == ss.accepted /\ h.acceptedAt # 0 /\ h.commands >= 2

Notable(h, signals) ==
  signals \cap HighSignals # {} \/ (h.commands >= 4 /\ Cardinality(h.families) >= 2)

scoreSSHHighlightState(ss, h) ==
  /\ Scored(ss, h) /\ Notable(h, Signals(h))
  /\ Points(ss, h, Signals(h)) >= sshHighlightMinScore

\* The sessions among gone that are highlights.
Highlighted(p, gone) == {s \in gone : scoreSSHHighlightState(p.sessions[s], p.highlights[s])}

\* The sessions seen least recently go; their highlights stay in the history.
HighlightAt(ss) == IF ss.ended # 0 THEN ss.ended ELSE ss.last

\* A mutant: the highlights of removed sessions are not kept.
WithoutHistory(p, gone, left) ==
  [p EXCEPT !.sessions = [s \in left |-> @[s]], !.highlights = [s \in left |-> @[s]]]

Without(p, gone, left) ==
  [p EXCEPT !.history = Over([s \in Highlighted(p, gone) |-> HighlightAt(p.sessions[s])], @),
            !.sessions = [s \in left |-> @[s]], !.highlights = [s \in left |-> @[s]]]

Oldest(sessions, n) ==
  {s \in DOMAIN sessions :
     Cardinality({r \in DOMAIN sessions : sessions[r].last < sessions[s].last}) < n}

pruneSSHSessions(p, target) ==
  LET gone == Oldest(p.sessions, Cardinality(DOMAIN p.sessions) - target)
  IN  Without(p, gone, DOMAIN p.sessions \ gone)

PruneAbove(p, most, target) ==
  IF Cardinality(DOMAIN p.sessions) > most THEN pruneSSHSessions(p, target) ELSE p

Active(p) == {s \in DOMAIN p.sessions : p.sessions[s].active}

\* The verdicts of applyActorSSHEventLocked, and which of them mean automation.
ConnectLabels(e, recur) ==
  IF e.type # "connect" THEN {}
  ELSE Label("ssh:rapid-recurrence", recur.rapid)
       \cup Label("ssh:low-and-slow", recur.slow /\ ~recur.rapid)
       \cup Label("ssh:recurring-credential-probe", recur.rapid \/ recur.slow)

AcceptedUsers(p) ==
  {p.sessions[s].user : s \in {t \in Active(p) : p.sessions[t].accepted}} \ {""}

AuthLabels(p, e) ==
  IF e.type # "auth" THEN {}
  ELSE Label("ssh:credential-spray", Spraying(p.sshEvents, e.at))
       \cup Label("ssh:parallel-account-validation",
                  e.accepted /\ Cardinality(AcceptedUsers(p)) >= 2)

CommandLabels(p, e, ss) ==
  Label("ssh:rapid-exec-burst", e.type = "exec" /\ RapidExec(ss, ss.last))
  \cup Label("ssh:scripted-recon-sequence", sshScriptedReconSequence(p.sshEvents, e))
  \cup Label("ssh:repeating-post-auth-probe",
             IsCommand(e) /\ IsProbe(e) /\ RepeatedProbe(p.sshEvents, e))
  \cup sshPersistenceKitFingerprint(p.sshEvents, e)
  \cup {<<"ssh:authorized-key-sha256", k>> : k \in e.keys}

\* Labels that say nothing of automation.
OwnLabel(e) == {e.fp} \ {<<"">>}
PlainLabels(p, e) ==
  OwnLabel(e) \cup e.side \cup sshPayloadHashFingerprint(e)
  \cup Label("ssh:account-credential-persistence", e.chpasswd)
  \cup Label("ssh:parallel-session-burst",
             e.type = "connect" /\ Cardinality(Active(p)) >= Limits.sessions)
  \cup Label("ssh:environment-fingerprint-burst",
             /\ IsCommand(e) /\ IsProbe(e) /\ p.lastCommand[1] = e.command
             /\ e.at - p.lastCommand[2] <= Limits.probeGap)

SSHBehaviors(e, playbook) ==
  Named(<<"ssh-family", e.family>>, IsCommand(e) /\ e.family \notin {"", "other"})
  \o Fingerprints(playbook) \o Fingerprints(OwnLabel(e))

SSHJudged(p, e, recur, playbook, verdicts) ==
  [Judge(ensureActor(p, e.at), e, verdicts \cup PlainLabels(p, e), verdicts # {}) EXCEPT
     !.protocols = @ \cup {"ssh"},
     !.peak = IF e.type = "connect" THEN Max({@, Cardinality(Active(p))}) ELSE @,
     !.revisit = IF e.type = "connect" THEN <<recur.median, recur.jitter>> ELSE @,
     !.users = IF e.type = "auth" THEN @ \cup ({e.user} \ {""}) ELSE @,
     !.perMinute = IF e.type = "auth"
                   THEN Max({@, AttemptsWithin(p.sshEvents, e.at, Limits.minute)}) ELSE @,
     !.lastCommand = IF IsCommand(e) /\ IsProbe(e) THEN <<e.command, e.at>> ELSE @,
     !.counts = bumpActorBehaviors(@, SSHBehaviors(e, playbook))]

SSHWeighed(p, e, recur, playbook) ==
  SSHJudged(p, e, recur, playbook,
            playbook \cup ConnectLabels(e, recur) \cup AuthLabels(p, e)
            \cup CommandLabels(p, e, p.sessions[e.sid]))

applyActorSSHEvent(p, e) ==
  appendActorActivity(
    addActorEngagement(SSHWeighed(p, e, sshRecurrence(p.sshEvents, e.at),
                                  sshReconPlaybookFingerprint(p.sshEvents, e)),
                       "ssh", e.sid, e.at),
    "ssh", e.type, e.at)

\* What AddSSHEvent and loadSSH do with an event before they prune.
Updated(p, e, ss, h) ==
  [p EXCEPT !.counts = Bump(@, SSHKeys(ss, e)),
            !.sshEvents = Newest(Append(@, e), MaxRing),
            !.sessions = Put(@, e.sid, sessionAfter(ss, e)),
            !.highlights = Put(@, e.sid, highlightAfter(h, e))]

ApplySSHEvent(p, e) ==
  applyActorSSHEvent(Updated(p, e, Lookup(p.sessions, e.sid, NoSession(e.at)),
                             Lookup(p.highlights, e.sid, NoHighlight)), e)

\* applyIntelLocked
ApplyIntel(p, e) ==
  appendActorActivity([ensureActor(p, e.at) EXCEPT !.counts = Bump(@, {<<"signal", e.kind>>})],
                      "intel", e.kind, e.at)

----------------------------------------------------------------------------
(* NewWithRetention *)

\* Before loading: expired records go, and under pressure the oldest ones.
compactJSONL(file, limit) ==
  LET written[i \in 0 .. Len(file)] ==
        IF i = 0 THEN << >>
        ELSE IF file[i].at >= limit THEN Append(written[i - 1], file[i]) ELSE written[i - 1]
  IN  written[Len(file)]
pruneJSONLPaths(ls, limit) == [i \in DOMAIN ls |-> compactJSONL(ls[i], limit)]
Relieve(ls) ==
  IF Total(ls) >= CritBytes THEN compactJSONLStorageBudget(ls, TargetBytes) ELSE ls

\* loadSSH prunes later than AddSSHEvent does.
LoadSSHEvent(p, e) == PruneAbove(ApplySSHEvent(p, e), MaxSessions + PruneSlack, MaxSessions)

\* "A process restart terminates every network connection."
initSSH(p) ==
  [PruneAbove(p, MaxSessions, MaxSessions) EXCEPT
     !.sessions = [s \in DOMAIN @ |-> [@[s] EXCEPT !.active = FALSE]]]

\* The profile rebuilt from HTTP, then intelligence, then SSH events.
LoadEvent(p, i, e) ==
  CASE i = 1 -> ApplyEvent(p, e) [] i = 2 -> LoadSSHEvent(p, e) [] i = 3 -> ApplyIntel(p, e)

LoadLog(p, i, rows) ==
  LET after[n \in 0 .. Len(rows)] == IF n = 0 THEN p ELSE LoadEvent(after[n - 1], i, rows[n])
  IN  after[Len(rows)]

Load(ls) == LoadLog(LoadLog(LoadLog(NoProfile, 1, ls[1]), 3, ls[3]), 2, ls[2])

----------------------------------------------------------------------------
(* Actions *)

Shown(p) == DOMAIN p.history \cup Highlighted(p, DOMAIN p.sessions)

NoMemory == [fps |-> {}, actor |-> "unknown", counts |-> EmptyBag, touched |-> FALSE]

Init ==
  /\ logs = << << >>, << >>, << >> >> /\ d = NoProfile /\ clock = 0
  /\ conn = [s \in Sids |-> "new"]
  /\ scene \in Scenes /\ lives = 1 /\ faults = 0
  /\ kept = logs /\ memory = NoMemory /\ carried = FALSE /\ ghosts = {}
  /\ cutoff = 0 /\ seen = {}

\* The next event, at a time of its own.
Happens(step) ==
  /\ scene.budget > 0 /\ scene' = [scene EXCEPT !.budget = @ - 1]
  /\ clock' = clock + step

Stamped(e) == Put(e, "at", clock')

Logged(i, e) ==
  /\ logs' = [logs EXCEPT ![i] = Append(@, e)]
  /\ kept' = [kept EXCEPT ![i] = Append(@, e)]
  /\ UNCHANGED faults

\* The write fails and the handler returns: nothing is applied.
NotLogged == faults < scene.faults /\ faults' = faults + 1 /\ UNCHANGED <<logs, kept>>

\* A request: its source's behaviour raises its score and may promote the source
\* at once; then the event is logged and applied.
Assessed(e, signals) ==
  LET automation == Min({100, e.automation + AutomationBoost(signals)})
  IN  [e EXCEPT !.automation = automation,
                !.actor = IF automation >= 65 THEN "automated" ELSE @]

Remember(e, signals, promoted) ==
  memory' = [memory EXCEPT
    !.fps = @ \cup {<<f>> : f \in signals},
    !.actor = IF promoted THEN "automated" ELSE @,
    !.counts = Bump(@, {<<"behavior", "fingerprint", <<f>>>> : f \in signals}),
    !.touched = @ \/ faults' # faults]

Handle(e, signals) ==
  /\ \/ Logged(1, e) /\ d' = ApplyEvent(ApplyHTTPActorFingerprint(d, e, signals), e)
     \/ NotLogged /\ d' = ApplyHTTPActorFingerprint(d, e, signals)
  /\ Remember(e, IF e.self THEN {} ELSE signals, ~e.self /\ Promoted(e, signals))

Receive(e, signals) == Handle(Assessed(e, signals), signals)

AddEvent(r, step) ==
  /\ Happens(step)
  /\ Receive(Stamped(r), HTTPBehavior(d.events, Stamped(r)))
  /\ UNCHANGED <<conn, lives, carried, ghosts, cutoff, seen>>

\* What a connection does next, and what becomes of it.  One whose login was accepted
\* may still fail its handshake, and the goroutines of one that is over are not waited
\* for: they handle and record what its channels had buffered.
Follows(e) ==
  CASE e.type = "connect" -> conn[e.sid] = "new"
    [] e.type = "auth" -> conn[e.sid] = "open"
    [] e.type = "handshake_error" -> conn[e.sid] \in {"open", "authed"}
    [] e.type = "disconnect" -> conn[e.sid] \in {"authed", "up"}
    [] OTHER -> conn[e.sid] \in {"authed", "up", "left"}

connAfter(e) ==
  CASE e.type = "connect" -> "open"
    [] e.type = "auth" -> IF e.accepted THEN "authed" ELSE "open"
    [] e.type = "handshake_error" -> "closed"
    [] e.type = "disconnect" -> "left"
    [] OTHER -> IF conn[e.sid] = "left" THEN "left" ELSE "up"

\* A shell that is recorded after the end of its connection.
LateShell(e) == e.type = "shell" /\ conn[e.sid] = "left"

AddSSHEvent(r, step) ==
  LET e == Stamped(r) IN
  /\ Happens(step) /\ Follows(e)
  /\ conn' = [conn EXCEPT ![e.sid] = connAfter(e)]
  /\ \/ /\ Logged(2, e)
        /\ d' = PruneAbove(ApplySSHEvent(d, e), MaxSessions, MaxSessions - PruneSlack)
        /\ ghosts' = IF LateShell(e) THEN ghosts \cup {e.sid} ELSE ghosts
     \/ /\ NotLogged /\ UNCHANGED d
        /\ ghosts' = IF IsEnd(e) THEN ghosts \cup {e.sid} ELSE ghosts
  /\ seen' = seen \cap Shown(d')
  /\ UNCHANGED <<lives, memory, carried, cutoff>>

\* recoverSSHWorkerPanic: a connection ends and no event says so.
Panic(sid) ==
  /\ conn[sid] \in {"open", "authed", "up"} /\ faults < scene.faults /\ faults' = faults + 1
  /\ conn' = [conn EXCEPT ![sid] = IF @ = "open" THEN "closed" ELSE "left"]
  /\ ghosts' = ghosts \cup {sid}
  /\ UNCHANGED <<logs, d, clock, scene, lives, kept, memory, carried, cutoff, seen>>

AddIntelSignal(r, step) ==
  LET e == Stamped(r) IN
  /\ Happens(step)
  /\ \/ Logged(3, e) /\ d' = ApplyIntel(d, e)
     \/ NotLogged /\ UNCHANGED d
  /\ UNCHANGED <<conn, lives, memory, carried, ghosts, cutoff, seen>>

\* SSHHighlightsRange: an administrator looks at the highlights.  The sessions it
\* scores keep the signal that scoring found.
SSHHighlights ==
  /\ seen' = seen \cup Shown(d)
  /\ d' = [d EXCEPT !.highlights =
             [s \in DOMAIN @ |-> IF s \notin DOMAIN d.history /\ Scored(d.sessions[s], @[s])
                                 THEN [@[s] EXCEPT !.signals = Signals(d.highlights[s])]
                                 ELSE @[s]]]
  /\ UNCHANGED <<logs, clock, conn, scene, lives, faults, kept, memory, carried, ghosts, cutoff>>

\* pruneExpired: aggregates, highlight history, then the files.
IsActivity(k) == k[1] \in {"httpHour", "sshHour", "ipDaily"}
Outdated(k, limit) == IsActivity(k) /\ k[2] < limit \div Hour
pruneActivityAggregates(counts, limit) ==
  [k \in {x \in DOMAIN counts : ~Outdated(x, limit)} |-> counts[k]]

pruneExpired ==
  LET limit == clock - Retention
      old == {s \in DOMAIN d.history : d.history[s] < limit}
  IN  /\ logs' = Relieve(pruneJSONLPaths(logs, limit))
      /\ d' = [d EXCEPT !.counts = pruneActivityAggregates(@, limit),
                        !.history = [s \in DOMAIN @ \ old |-> @[s]]]
      /\ cutoff' = Max({cutoff, limit}) /\ seen' = seen \ old
      /\ UNCHANGED <<clock, conn, scene, lives, faults, kept, memory, carried, ghosts>>

\* The process ends, in whatever way, and starts again.
StartWith(ls, loaded) ==
  /\ logs' = ls /\ kept' = ls /\ d' = initSSH(loaded)
  /\ carried' = (Active(loaded) # {})
StartFrom(ls) == StartWith(ls, Load(ls))

Restart ==
  /\ lives < MaxLives /\ lives' = lives + 1
  /\ conn' = [s \in Sids |-> IF conn[s] = "new" THEN "new" ELSE "closed"]
  /\ StartFrom(Relieve(pruneJSONLPaths(logs, clock - Retention)))
  /\ memory' = NoMemory /\ ghosts' = {} /\ cutoff' = 0 /\ seen' = {}
  /\ UNCHANGED <<clock, scene, faults>>

Add ==
  \E step \in scene.steps :
    \/ \E r \in scene.http : AddEvent(r, step)
    \/ \E r \in scene.ssh : AddSSHEvent(r, step)
    \/ \E r \in scene.intel : AddIntelSignal(r, step)

Next == Add \/ (\E sid \in Sids : Panic(sid)) \/ SSHHighlights \/ pruneExpired \/ Restart
Spec == Init /\ [][Next]_vars

----------------------------------------------------------------------------
(* Properties *)

\* Fields that depend on the events of one protocol, or on sums and maxima.
Rebuilt ==
  {"protocols", "risk", "depth", "class", "engagement", "wall", "lastAt", "events",
   "sequences", "sightings", "agents", "claims", "sshEvents", "users", "perMinute",
   "revisit", "lastCommand"}

\* Verdicts about sessions that are open at the same time.
Concurrent == {<<"ssh:parallel-session-burst">>, <<"ssh:parallel-account-validation">>}

OfProtocol(timeline, protocol) == SelectSeq(timeline, LAMBDA r : r.protocol = protocol)

FieldsFrom(r) == \A f \in Rebuilt : d[f] = r[f]

\* The counters that can be compared: aggregates within the retention, and the behaviour
\* summary unless it is full.
SummaryFull == Cardinality(Behaviors(d.counts)) >= MaxBehaviors
Comparable(counts) ==
  LET recent == pruneActivityAggregates(counts, cutoff)
  IN  [k \in DOMAIN recent \ (IF SummaryFull THEN Behaviors(recent) ELSE {}) |-> recent[k]]

Faithful(r) ==
  /\ FieldsFrom(r) /\ Comparable(d.counts) = Comparable(r.counts (+) memory.counts)
  /\ d.fps \ Concurrent = (r.fps \cup memory.fps) \ Concurrent
  /\ ~carried => /\ d.fps = r.fps \cup memory.fps /\ d.peak = r.peak
                 /\ d.actor = IF memory.actor = "automated" THEN "automated" ELSE r.actor
  /\ ~memory.touched => d.first = r.first /\ d.last = r.last
  /\ Len(d.timeline) < MaxTimeline =>
       \A protocol \in {"http", "ssh", "intel"} :
         OfProtocol(d.timeline, protocol) = OfProtocol(r.timeline, protocol)

\* Every session has its highlight state, counters are numbers.
SessionOK(ss) == {"active", "accepted", "depth"} \subseteq DOMAIN ss /\ ss.depth \in Nat
HighlightOK(h) ==
  /\ {"acceptedAt", "commands", "families", "signals"} \subseteq DOMAIN h
  /\ h.commands \in Nat /\ IsFiniteSet(h.families)
HasTables(p) == {"sessions", "highlights", "history", "peak"} \subseteq DOMAIN p
TablesMatch(p) ==
  /\ HasTables(p) /\ p.peak \in Nat
  /\ DOMAIN p.sessions \subseteq Sids /\ DOMAIN p.highlights = DOMAIN p.sessions
  /\ \A s \in DOMAIN p.sessions : SessionOK(p.sessions[s]) /\ HighlightOK(p.highlights[s])

\* What the store knows of a source after any sequence of interleaved events,
\* failed writes, views and sweeps is what a start would rebuild from the same
\* events, HTTP first, then intelligence, then SSH: nothing of it hangs on the
\* order between the logs.  Four exceptions: what HTTPBehavior applied without an
\* event; the counts of a behaviour summary that is full, which keeps other names in
\* another order; verdicts about concurrent sessions after a start whose log held
\* sessions without an end; and more sessions than are retained.  Its tables of
\* sessions and of highlight states match, after a start too.
ReplayFaithful ==
  /\ TablesMatch(d)
  /\ Cardinality(Field(kept[2], "sid")) <= MaxSessions => Faithful(Load(kept))

Open == {s \in Sids : conn[s] \in {"open", "authed", "up"}}

\* While the process runs, the peak of concurrent SSH sessions rises only to the number
\* of connections that really are open together and of those that went without the
\* store knowing: their end could not be logged, a recovered panic ended them, or their
\* shell was recorded after the disconnect.  Those count as open, and raise the peak
\* beyond what ever was open together, until the next start.
PeakIsReal ==
  [][lives' = lives => d'.peak <= Max({d.peak, Cardinality(Open' \cup ghosts')})]_vars

Expired(s) == s \in DOMAIN d.history /\ d.history[s] < clock - Retention

\* Beyond Limits.manyCommands commands a session scores less than at that number
\* (18 points for eleven, 20 for ten).
Drop == 2 * Limits.manyCommands - Limits.manyScore
NearTheEdge(s) ==
  /\ s \in DOMAIN d.sessions /\ d.highlights[s].commands >= Limits.manyCommands
  /\ Points(d.sessions[s], d.highlights[s], d.highlights[s].signals)
       < sshHighlightMinScore + Drop

\* A highlight that was shown stays in the list while the process runs, however
\* the session goes on and though it is removed to make room, until it expires;
\* but one within two points of the threshold may vanish with its eleventh command.
HighlightsKept ==
  [][\A s \in seen \ seen' : lives' # lives \/ Expired(s) \/ NearTheEdge(s)]_vars

\* compactJSONLStorageBudget "reduces the aggregate retained JSONL footprint to
\* targetBytes while preserving the newest complete records in every store": each
\* file keeps an unbroken run of its newest records, gives up at most one that its
\* share had room for, and loses at most one byte of its exact share to rounding.
Compacted(c) ==
  /\ Total(c.files) <= TargetBytes
  /\ \A i \in DOMAIN logs :
       /\ IsSuffix(c.files[i], logs[i])
       /\ c.files[i] # logs[i] =>
            logs[i][Len(logs[i]) - Len(c.files[i])].size + Bytes(c.files[i]) >= c.shares[i]
       /\ logs[i] # << >> =>
            c.shares[i] + 1 >= (TargetBytes * Bytes(logs[i])) \div Total(logs)
WithinBudget == Total(logs) > TargetBytes => Compacted(Compaction(logs, TargetBytes))
=============================================================================
