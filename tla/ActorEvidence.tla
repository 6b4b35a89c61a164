--------------------------- MODULE ActorEvidence ---------------------------
(***************************************************************************)
(* The detectors that read the event rings of the store to judge a source  *)
(* (internal/store/actors.go, automation.go): HTTP behaviour, periodic     *)
(* login checks, exec chains, SSH recurrence, credential spraying,         *)
(* scripted reconnaissance, playbooks and persistence kits.                *)
(*                                                                         *)
(* A ring is a sequence of events of one source in the order in which they *)
(* were logged.  The counts and windows of the detectors are fields of     *)
(* Limits, so that small instances reach them.                             *)
(***************************************************************************)
EXTENDS Integers, FiniteSets, Sequences, SequencesExt, FiniteSetsExt

CONSTANT Limits

\* The scans go back from the end of a ring and stop at the first older row.
Recent(ring, at, window) ==
  SubSeq(ring, 1 + Max({0} \cup {i \in DOMAIN ring : ring[i].at < at - window}), Len(ring))

Field(rows, f) == {rows[i][f] : i \in DOMAIN rows}
CountOf(rows, f, v) == Cardinality({i \in DOMAIN rows : rows[i][f] = v})

\* Times, gaps and their spread; the median of an even number is the upper one.
Sorted(s) == SortSeq(s, <)
Times(rows) == Sorted([i \in DOMAIN rows |-> rows[i].at])
Gaps(times) == [i \in 1..(Len(times) - 1) |-> times[i + 1] - times[i]]
Median(s) == Sorted(s)[Len(s) \div 2 + 1]
Distance(a, b) == IF a > b THEN a - b ELSE b - a
JitterAbout(s, m) == Median([i \in DOMAIN s |-> Distance(s[i], m)])
Jitter(s) == JitterAbout(s, Median(s))

----------------------------------------------------------------------------
(* HTTP *)

\* Many requests, most of them known probes on distinct paths, at an even pace.
\* (Time stamps differ, so there is a gap between every two requests.)
SlowPace(times, gaps, median) ==
  /\ times[Len(times)] - times[1] >= Limits.slowSpan
  /\ median \in Limits.slowGapMin..Limits.slowGapMax
  /\ JitterAbout(gaps, median) <= Max({Limits.slowJitter, median \div 4})
SlowProbes(rows) ==
  /\ Len(rows) >= Limits.slowRequests
  /\ Cardinality({i \in DOMAIN rows : rows[i].known}) >= Limits.slowKnown
  /\ Cardinality(Field(rows, "path")) >= Limits.slowPaths
  /\ SlowPace(Times(rows), Gaps(Times(rows)), Median(Gaps(Times(rows))))
lowAndSlowHTTPProber(ring, at) ==
  SlowProbes(SelectSeq(Recent(ring, at, Limits.slowWindow), LAMBDA r : ~r.self))

\* What the recent requests of the source show: its sessions, user agents, paths
\* and the kinds of paths it asks for.
Signal(name, test) == IF test THEN {name} ELSE {}

RecentBehavior(rows, e) ==
  Signal("http:parallel-prober",
         /\ Len(rows) >= Limits.parallelRequests
         /\ Cardinality(Field(rows, "sid")) >= Limits.parallelSessions)
  \cup Signal("http:config-hunter",
              /\ Len(rows) >= Limits.hunterRequests
              /\ Cardinality(Field(rows, "path")) >= Limits.hunterPaths)
  \cup Signal("http:user-agent-rotation",
              Cardinality((Field(rows, "ua") \cup {e.ua}) \ {""}) >= Limits.agents)
  \cup Signal("http:spoofed-crawler-rotation",
              Cardinality((Field(rows, "claim") \cup {e.claim}) \ {""}) >= Limits.crawlers)
  \cup Signal("http:burst-automation", Len(rows) >= Limits.burst)
  \cup {f \in DOMAIN Limits.pathKinds :
          Cardinality({i \in DOMAIN rows : f \in rows[i].kinds}) >= Limits.pathKinds[f]}

HTTPBehavior(ring, e) ==
  RecentBehavior(Recent(ring, e.at, Limits.behaviorWindow), e)
  \cup Signal("http:low-and-slow-prober", lowAndSlowHTTPProber(ring, e.at))

\* How much each signal adds to the automation score of the request.
Boost(f) ==
  CASE f = "http:parallel-prober" -> 45
    [] f \in {"http:config-hunter", "http:spoofed-crawler-rotation"} -> 30
    [] f = "http:user-agent-rotation" -> 35
    [] f = "http:burst-automation" -> 20
    [] f = "http:structured-api-enumeration" -> 15
    [] f = "http:remote-access-panel-fingerprint-sweep" -> 18
    [] f = "http:low-and-slow-prober" -> 55
    [] OTHER -> 0

AutomationBoost(signals) == MapThenSumSet(Boost, signals)

IsLogin(r) == r.method = "POST" /\ r.path = "login"

\* Logins at even distances.  (Gaps outside the range are dropped first, so their
\* median is in it.)
EvenGaps(gaps) ==
  Cardinality(DOMAIN gaps) >= 2 /\ Max(ToSet(gaps)) - Min(ToSet(gaps)) <= Limits.loginSpread

httpPeriodicAuthValidator(ring, e) ==
  /\ IsLogin(e) /\ e.automation >= 80
  /\ LET logins == SelectSeq(Recent(ring, e.at, Limits.loginWindow), IsLogin)
         InRange(gap) == gap \in Limits.loginGapMin..Limits.loginGapMax
     IN  EvenGaps(SelectSeq(Gaps(Times(logins)), InRange))

ExecChain(rows) ==
  /\ {"fake-phpunit-eval", "fake-docker-api-containers"} \subseteq Field(rows, "msg")
  /\ CountOf(rows, "msg", "fake-docker-api-exec-create") >= Limits.chainCalls
  /\ CountOf(rows, "msg", "fake-docker-api-exec-start") >= Limits.chainCalls

httpPHPUnitDockerExecChain(ring, e) ==
  /\ e.msg = "fake-docker-api-exec-start"
  /\ ExecChain(SelectSeq(Recent(ring, e.at, Limits.chainWindow), LAMBDA r : r.sid = e.sid))

\* The label of a single request: host sweep, GraphQL, tool, rate, browser.
fingerprintHTTP(e) ==
  CASE e.sweep -> {<<"web:host-header-sweep">>}
    [] e.graphql # "" -> {<<"http:graphql", e.graphql>>}
    [] e.tool # "" -> {<<"http:tool", e.tool>>}
    [] e.automation >= 80 -> {<<"http:high-rate-automation">>}
    [] e.actor = "human" -> {<<"http:browser-like-client">>}
    [] OTHER -> {}

----------------------------------------------------------------------------
(* SSH *)

IsCommand(r) == r.type \in {"exec", "command"}
IsEnd(r) == r.type \in {"disconnect", "limit", "handshake_error"}

\* The distances of the connections of a day.
Recurrence(n, median, jitter) ==
  [median |-> median, jitter |-> jitter,
   rapid |-> /\ n >= Limits.rapidConnects /\ median < Limits.rapidMedian
             /\ jitter <= Max({Limits.rapidJitter, median \div 3}),
   slow |-> /\ n >= Limits.slowConnects /\ median \in Limits.rapidMedian..Limits.slowMedian
            /\ jitter <= Max({Limits.rapidMedian, median \div 5})]

RecurrenceOf(gaps) ==
  IF Len(gaps) < 2 THEN [median |-> 0, jitter |-> 0, rapid |-> FALSE, slow |-> FALSE]
  ELSE Recurrence(Len(gaps) + 1, Median(gaps), Jitter(gaps))

IsConnect(r) == r.type = "connect"
sshRecurrence(ring, at) ==
  RecurrenceOf(Gaps(Times(SelectSeq(Recent(ring, at, Limits.recurWindow), IsConnect))))

IsAuth(r) == r.type = "auth"
IsRejected(r) == IsAuth(r) /\ ~r.accepted
AttemptsWithin(ring, at, window) == Len(SelectSeq(Recent(ring, at, window), IsAuth))

Spray(rejected) ==
  /\ Cardinality(Field(rejected, "user") \ {""}) >= Limits.sprayUsers
  /\ Len(rejected) >= Limits.sprayRejects
Spraying(ring, at) == Spray(SelectSeq(Recent(ring, at, Limits.sprayWindow), IsRejected))

Script(rows) ==
  /\ Len(rows) >= Limits.scriptCommands
  /\ Cardinality(Field(rows, "family") \ {"", "other"}) >= Limits.scriptFamilies
  /\ Median(Gaps(Times(rows))) <= Limits.scriptGap

CommandsOf(rows, sid) == SelectSeq(rows, LAMBDA r : r.sid = sid /\ IsCommand(r))

sshScriptedReconSequence(ring, e) ==
  IsCommand(e) /\ Script(CommandsOf(Recent(ring, e.at, Limits.scriptWindow), e.sid))

\* The digest of a staged script or binary, or of a service unit.
sshPayloadHashFingerprint(e) ==
  IF e.stdin = "" THEN {} ELSE {<<e.stdin, e.hash>>}

\* A payload and a service unit of one session within the window; of each the
\* event's own, or else the latest.
Latest(rows, sid, stdin) ==
  LET mine == {i \in DOMAIN rows : rows[i].sid = sid /\ rows[i].stdin = stdin}
  IN  IF mine = {} THEN "" ELSE rows[Max(mine)].hash

Kit(payload, unit) ==
  IF "" \in {payload, unit} THEN {} ELSE {<<"ssh:persistence-kit", payload, unit>>}

sshPersistenceKitFingerprint(ring, e) ==
  LET rows == Recent(ring, e.at, Limits.kitWindow)
  IN  Kit(Latest(rows, e.sid, "ssh:payload-sha256"), Latest(rows, e.sid, "ssh:service-unit-sha256"))

\* The topic of a command, by its name or else by its family.
ReconTopics ==
  [system |-> {"hostname", "uname", "uptime", "lscpu", "nproc", "free", "vmstat"},
   process |-> {"ps", "top", "w", "who"},
   network |-> {"netstat", "ss", "ip", "ifconfig", "route", "arp", "ping"},
   identity |-> {"whoami", "id", "last", "lastlog", "groups"},
   filesystem |-> {"pwd", "ls", "find", "mount", "df", "du"},
   services |-> {"systemctl", "service", "rc-service"},
   environment |-> {"env", "printenv", "set"}, history |-> {"history"},
   ssh_client |-> {"ssh"}, storage |-> {"dd", "fio"},
   packages |-> {"dpkg", "rpm", "apt", "apt-get", "yum", "dnf", "apk"}]

sshReconTopic(name, family) ==
  LET byName == {t \in DOMAIN ReconTopics : name \in ReconTopics[t]}
  IN  IF byName # {} THEN byName ELSE {family} \cap {"recon", "filesystem", "network"}

\* When a session ends: the topics of all its commands.
Playbook(rows, topics) ==
  IF /\ Len(rows) >= Limits.playbookCommands
     /\ Cardinality(Field(rows, "name") \ {""}) >= Limits.playbookNames
     /\ Cardinality(topics) >= Limits.playbookTopics
  THEN {<<"ssh:recon-playbook", topics>>} ELSE {}

Topics(rows) == UNION {sshReconTopic(rows[i].name, rows[i].family) : i \in DOMAIN rows}

sshReconPlaybookFingerprint(ring, e) ==
  IF IsEnd(e) THEN Playbook(CommandsOf(ring, e.sid), Topics(CommandsOf(ring, e.sid))) ELSE {}

\* The environment probe, run in several sessions.
EnvironmentProbe == <<"ssh:environment-fingerprint-probe">>

IsProbe(r) == r.fp = EnvironmentProbe
RepeatedProbe(ring, e) ==
  Cardinality(Field(SelectSeq(Recent(ring, e.at, Limits.probeWindow), IsProbe), "sid"))
    >= Limits.probeSessions
============================================================================
