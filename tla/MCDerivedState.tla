--------------------------- MODULE MCDerivedState ---------------------------
(* A small instance of DerivedState for TLC: detectors that fire after a few
   events, and scenes that lead to them. *)
EXTENDS DerivedState

MCLimits ==
  [behaviorWindow |-> 6, parallelRequests |-> 2, parallelSessions |-> 2, hunterRequests |-> 2,
   hunterPaths |-> 2, agents |-> 2, crawlers |-> 2, burst |-> 3,
   pathKinds |-> ("http:ssrf-prober" :> 2 @@ "http:structured-api-enumeration" :> 2),
   slowWindow |-> 12, slowRequests |-> 3, slowKnown |-> 2, slowPaths |-> 2, slowSpan |-> 4,
   slowGapMin |-> 3, slowGapMax |-> 4, slowJitter |-> 1,
   loginWindow |-> 12, loginGapMin |-> 3, loginGapMax |-> 4, loginSpread |-> 0,
   chainWindow |-> 8, chainCalls |-> 1,
   sequence |-> 2, sequenceLabels |-> 1, workerWindow |-> 3, agentWindow |-> 4, idle |-> 3,
   recurWindow |-> 12, rapidConnects |-> 3, rapidMedian |-> 2, rapidJitter |-> 1,
   slowConnects |-> 3, slowMedian |-> 4,
   sprayWindow |-> 8, sprayUsers |-> 2, sprayRejects |-> 2, minute |-> 4,
   scriptWindow |-> 4, scriptCommands |-> 2, scriptFamilies |-> 2, scriptGap |-> 1,
   kitWindow |-> 5, playbookCommands |-> 2, playbookNames |-> 2, playbookTopics |-> 2,
   probeWindow |-> 8, probeSessions |-> 2, probeGap |-> 2,
   sessions |-> 2, execs |-> 2, execWindow |-> 4,
   manyCommands |-> 2, manyScore |-> 2]

Http ==
  [sid |-> "w1", visit |-> 1, method |-> "GET", path |-> "/", target |-> "t1", ua |-> "browser",
   claim |-> "", tool |-> "", msg |-> "", graphql |-> "", kinds |-> {}, category |-> "request",
   product |-> "", known |-> FALSE, missing |-> FALSE, catchAll |-> FALSE, sweep |-> FALSE,
   self |-> FALSE, automation |-> 0, actor |-> "human", class |-> "benign", risk |-> 0,
   depth |-> 0, size |-> 3]

Ssh ==
  [type |-> "connect", sid |-> "s1", user |-> "", accepted |-> FALSE, name |-> "", family |-> "",
   command |-> "", fp |-> <<"">>, side |-> {}, stdin |-> "", hash |-> "", keys |-> {},
   chpasswd |-> FALSE, signals |-> {}, actor |-> "unknown", class |-> "suspicious", risk |-> 20,
   depth |-> 0, size |-> 4]

Intel == [kind |-> "payload", size |-> 2]

Login == [Http EXCEPT !.method = "POST", !.path = "login", !.automation = 80, !.actor = "automated"]
Probe(sid, path, ua) ==
  [Http EXCEPT !.sid = sid, !.path = path, !.ua = ua, !.known = TRUE, !.product = "x",
               !.category = "probe", !.kinds = {"http:ssrf-prober"}, !.class = "hostile",
               !.risk = 60, !.actor = "unknown"]
Call(msg) == [Http EXCEPT !.msg = msg, !.path = "api", !.category = "api", !.depth = 1]

Connect(sid) == [Ssh EXCEPT !.sid = sid]
Auth(sid, user, ok) == [Ssh EXCEPT !.sid = sid, !.type = "auth", !.user = user, !.accepted = ok]
End(sid, type) == [Ssh EXCEPT !.sid = sid, !.type = type]
Run(sid, type, name, family) ==
  [Ssh EXCEPT !.sid = sid, !.type = type, !.name = name, !.family = family, !.command = name,
              !.depth = 1]

Scene(http, ssh, intel, budget, steps, fails) ==
  [http |-> http, ssh |-> ssh, intel |-> intel, budget |-> budget, steps |-> steps,
   faults |-> fails]

\* Probing from two sessions with changing user agents, beside a browser, the
\* server's own requests, an SSH connection and a payload signal.
Scanner ==
  Scene({Probe("w1", "a", "bot"),
         [Probe("w2", "a", "bot2") EXCEPT !.target = "t2", !.claim = "google"],
         [Http EXCEPT !.visit = 2, !.claim = "bing", !.missing = TRUE, !.catchAll = TRUE],
         [Http EXCEPT !.self = TRUE]},
        {[Connect("s1") EXCEPT !.actor = "automated"]}, {Intel}, 3, {1, 3}, 1)

\* The same two requests from workers under different user agents.
Workers ==
  Scene({Probe("w1", "a", "bot"), [Probe("w2", "a", "bot2") EXCEPT !.target = "t2"]},
        {}, {}, 4, {1}, 0)

\* Logins and probes at an even pace.
Patient ==
  Scene({Login, [Probe("w1", "b", "") EXCEPT !.automation = 40, !.graphql = "mutation"],
         [Probe("w1", "a", "zgrab") EXCEPT !.tool = "zgrab",
                                          !.kinds = {"http:structured-api-enumeration"}]},
        {}, {}, 4, {3, 4}, 0)

Chain ==
  Scene({Call("fake-phpunit-eval"), Call("fake-docker-api-containers"),
         Call("fake-docker-api-exec-create"),
         [Call("fake-docker-api-exec-start") EXCEPT !.sweep = TRUE]}, {}, {}, 4, {1}, 0)

\* Three connections at once, guessing and validating passwords.
Guessing ==
  Scene({}, {Connect("s1"), Connect("s2"), Auth("s1", "root", FALSE), Auth("s1", "admin", FALSE),
             Auth("s1", "root", TRUE), Auth("s2", "admin", TRUE),
             End("s1", "disconnect"), End("s2", "handshake_error")}, {}, 5, {1}, 1)

\* A shell that is handled after the disconnect, a panic or a lost end, and then others.
Ghosts ==
  Scene({}, {Connect("s1"), Auth("s1", "root", TRUE), End("s1", "disconnect"),
             [Ssh EXCEPT !.type = "shell"], Connect("s2"), End("s2", "handshake_error"),
             Connect("s3")}, {}, 6, {1}, 1)

\* One session at work.
Working ==
  Scene({[Http EXCEPT !.automation = 70]},
        {Connect("s1"), Auth("s1", "root", TRUE),
         [Run("s1", "exec", "uname", "recon") EXCEPT
            !.stdin = "ssh:payload-sha256", !.hash = "h1", !.signals = {"payload-staging"}],
         [Run("s1", "exec", "ls", "files") EXCEPT
            !.stdin = "ssh:service-unit-sha256", !.hash = "h2", !.signals = {"persistence"}],
         End("s1", "disconnect")}, {}, 5, {1, 3}, 0)

\* Others push it out of memory.
Crowded ==
  Scene({}, {Connect("s1"), Auth("s1", "root", TRUE), Connect("s2"), Connect("s3"),
             [Run("s1", "command", "env", "recon") EXCEPT
                !.fp = EnvironmentProbe, !.keys = {"k"}, !.chpasswd = TRUE,
                !.signals = {"canary", "credentials"}],
             [Ssh EXCEPT !.type = "shell", !.side = {<<"ssh:side">>}]}, {}, 6, {1}, 0)

\* The same probe in two sessions.
Repeating ==
  LET probe(sid) == [Run(sid, "exec", "env", "recon") EXCEPT !.fp = EnvironmentProbe]
  IN  Scene({}, UNION {{Connect(s), Auth(s, "root", TRUE), probe(s)} : s \in {"s1", "s2"}},
            {}, 6, {1}, 0)

\* A highlight of just enough points whose commands pass the limit.
Borderline ==
  Scene({}, {Connect("s1"), Auth("s1", "root", TRUE),
             [Run("s1", "command", "sudo", "recon") EXCEPT
                !.signals = {"privilege", "credentials"}]}, {}, 5, {1}, 0)

MCScenes == {Scanner, Workers, Patient, Chain, Guessing, Ghosts, Working, Crowded, Repeating,
             Borderline}
=============================================================================
