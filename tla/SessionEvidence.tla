-------------------------- MODULE SessionEvidence --------------------------
(***************************************************************************)
(* What an administrator is shown of one source: the transcript of an SSH  *)
(* session (internal/store/ssh_retained.go) and the attack traces that     *)
(* connect a cause with its effect (internal/store/attack_traces.go).      *)
(* Both are computed from the event rings in memory, which lose their      *)
(* oldest rows to other sources, and from the logs, which retention cuts.  *)
(*                                                                         *)
(* A web worker and each goroutine of an SSH session (connection, channel, *)
(* global requests) makes its records one after the other;                 *)
(* each is stamped first and stored later, so records, of one session too, *)
(* may be stored in another order than they are stamped.  The stamp also   *)
(* is the id of a record; n is its place in the logs.  So a ring, a file   *)
(* and the rows of a transcript are sets: a ring drops its lowest n, and   *)
(* rows are sorted by their stamps.  A path, a file name or a canary label *)
(* is a value; what a response served, and whether it was a bait, are      *)
(* fields.  A restart loads the rings and the sessions from the files, and *)
(* ends every connection.                                                  *)
(***************************************************************************)
EXTENDS Naturals, FiniteSets, Sequences, Functions, FiniteSetsExt, Tables

CONSTANTS
  Sids,              \* SSH sessions of the source
  Goroutines,        \* of a session: "conn" reads the connection, the others its channels
  Workers,           \* goroutines that answer its web requests
  Scenes,            \* by name: what each actor may record, in order; the retention
                     \* period; and how often what may happen
  ReferrerWindow,    \* ten minutes
  Day,               \* of canary and payload traces
  EffectBefore, EffectAfter,  \* five and two seconds around a canary signal
  MaxTime

Actors == Workers \cup (Sids \X Goroutines)
Logs == {"http", "ssh", "intel"}

\* What actor a may record: nothing is stamped or stored yet, and the records of a
\* session in the SSH log are its own.
Owns(a, e) == e.log = "ssh" => a \in Sids \X Goroutines /\ e.sid = a[1]

IsScript(a, script) ==
  /\ script \in Seq(Range(script)) /\ script # << >>
  /\ \A e \in Range(script) :
       /\ {"at", "n", "log", "sid"} \subseteq DOMAIN e /\ e = [e EXCEPT !.at = 0, !.n = 0]
       /\ e.log \in Logs /\ Owns(a, e)

ASSUME EvidenceAssumption ==
  /\ {ReferrerWindow, Day, EffectBefore, EffectAfter, MaxTime} \subseteq Nat
  /\ "conn" \in Goroutines
  /\ \A n \in DOMAIN Scenes : /\ DOMAIN Scenes[n].scripts = Actors /\ Scenes[n].retention \in Nat
                              /\ Scenes[n].bounds \in [{"scripts", "faults", "views", "losses", "restarts"} -> Nat]
                              /\ \A a \in Actors : \A script \in Scenes[n].scripts[a] : IsScript(a, script)

VARIABLES
  clock,
  todo,       \* what each actor still has to record; at = 0 before the stamp
  ring,       \* events, sshEvents, intelEvents: by "http", "ssh", "intel"
  file,       \* the same logs on disk
  written,    \* how many records were ever written
  sessions,   \* sshSessions
  view,       \* the request of an administrator
  conns,      \* the connection of each session: "none", "login", "up", "gone"
  scene,      \* its name
  left,       \* how often what may still happen
  \* history
  stored,     \* the SSH events of each session that were stored, and that were still
              \* in the log when the process started
  resumed     \* sessions that went on after they were removed from memory

vars == <<clock, todo, ring, file, written, sessions, view, conns, scene, left, stored, resumed>>

\* A bound of the scene is used up by one.
Spend(k) == left[k] > 0 /\ left' = [left EXCEPT ![k] = @ - 1] /\ UNCHANGED scene
Free == UNCHANGED <<scene, left>>

----------------------------------------------------------------------------
(* Sessions and transcripts *)

NoSession(at) == [auth |-> 0, commands |-> 0, execs |-> 0, shell |-> FALSE, first |-> at, last |-> at]

\* applySSHEventLocked
applySSHEvent(ss, e) ==
  [ss EXCEPT !.auth = IF e.type = "auth" THEN @ + 1 ELSE @,
             !.commands = IF e.type \in {"exec", "command"} THEN @ + 1 ELSE @,
             !.execs = IF e.type = "exec" THEN @ + 1 ELSE @,
             !.shell = @ \/ e.type = "shell",
             !.first = Min({@, e.at}), !.last = Max({@, e.at})]

Of(rows, sid) == {e \in rows : e.sid = sid}
Count(rows, types) == Cardinality({e \in rows : e.type \in types})

\* The counters of the session and its first and last moment, against the rows.
Counted(ss, rows) ==
  /\ Count(rows, {"auth"}) >= ss.auth
  /\ Count(rows, {"exec", "command"}) >= ss.commands /\ Count(rows, {"exec"}) >= ss.execs
  /\ ss.shell => Count(rows, {"shell"}) > 0

\* A mutant: the counters are enough.
sshTranscriptCounted(ss, rows) == rows # {} /\ Counted(ss, rows)

\* (The tolerance of a millisecond is less than the distance of two records.)
sshTranscriptComplete(ss, rows) ==
  IF rows = {} THEN ss.auth = 0 /\ ss.commands = 0 /\ ss.execs = 0 /\ ~ss.shell
  ELSE /\ Counted(ss, rows)
       /\ Min({e.at : e \in rows}) <= ss.first
       /\ Max({e.at : e \in rows}) >= ss.last

----------------------------------------------------------------------------
(* Attack traces *)

\* The rows in the order in which they were stored: a mutant of their order by time.
chronologicalAsStored(rows) ==
  [i \in 1 .. Cardinality(rows) |->
     CHOOSE e \in rows : Cardinality({d \in rows : d.n < e.n}) = i - 1]

\* The rows in the order of their stamps.
chronological(rows) ==
  [i \in 1 .. Cardinality(rows) |->
     CHOOSE e \in rows : Cardinality({d \in rows : d.at < e.at}) = i - 1]

\* A scan from the end takes the first of the rows that fit, unless it comes to one
\* that stops it; 0 for none.
LastBefore(fit, stop) == Max({0} \cup {i \in fit : \A j \in stop : j < i})

Trace(relation, rows, i, effect, at) ==
  IF i = 0 THEN {}
  ELSE {[relation |-> relation, cause |-> rows[i].at, effect |-> effect.at, seen |-> at,
         sids |-> {rows[i].sid, effect.sid}]}

\* The referrer of a request names a bait that was served in its session.
Leads(cause, effect) == cause.sid = effect.sid /\ cause.path = effect.ref /\ cause.bait

referrerTrace(https, i) ==
  LET effect == https[i]
      fit == {j \in 1 .. i - 1 : Leads(https[j], effect)}
      stop == {j \in 1 .. i - 1 : effect.at - https[j].at > ReferrerWindow}
  IN  IF effect.ref = "" THEN {}
      ELSE Trace("referrer-follow", https, LastBefore(fit, stop), effect, effect.at)

referrerTraces(https) == UNION {referrerTrace(https, i) : i \in DOMAIN https}

\* A canary that the web trap served is used in an SSH command: the signal gives
\* the label, the SSH event nearest to it the moment.
canaryEffect(sshs, sig) ==
  LET near == {j \in DOMAIN sshs : sshs[j].sid = sig.sid /\ sshs[j].at <= sig.at + EffectAfter}
      fit == {j \in near : sig.label \in sshs[j].canaries}
      stop == {j \in near : sshs[j].at + EffectBefore < sig.at}
      i == LastBefore(fit, stop)
  IN  IF i = 0 THEN sig.at ELSE sshs[i].at

canaryTrace(https, sshs, sig) ==
  LET fit == {j \in DOMAIN https : https[j].at <= sig.at /\ sig.label \in https[j].canaries}
      stop == {j \in DOMAIN https : https[j].at + Day < sig.at}
  IN  IF sig.kind # "canary" THEN {}
      ELSE Trace("canary-reuse", https, LastBefore(fit, stop), sig, canaryEffect(sshs, sig))

canaryTraces(https, sshs, intel) == UNION {canaryTrace(https, sshs, sig) : sig \in Range(intel)}

\* An uploaded file is executed at the same path.
IsUpload(sig) == sig.kind = "staging" /\ sig.completed

stagedPayloadTrace(intel, effect) ==
  LET same == {j \in DOMAIN intel : /\ intel[j].at <= effect.at /\ intel[j].label = effect.label
                                    /\ intel[j].kind \in {"staging", "execution"}}
      fit == {j \in same : IsUpload(intel[j])}
      stop == {j \in same : intel[j].at + Day < effect.at}
  IN  IF effect.kind # "execution" THEN {}
      ELSE Trace("staged-payload-execution", intel, LastBefore(fit, stop), effect, effect.at)

stagedPayloadTracesFromIntel(intel) ==
  UNION {stagedPayloadTrace(intel, effect) : effect \in Range(intel)}

attackTraces(r) ==
  LET https == chronological(r["http"])
      intel == chronological(r["intel"])
  IN  referrerTraces(https) \cup canaryTraces(https, chronological(r["ssh"]), intel)
      \cup stagedPayloadTracesFromIntel(intel)

filterSessionTraces(traces, sid) == {t \in traces : sid \in t.sids}

----------------------------------------------------------------------------
(* Recording *)

\* An SSH session begins with its connect record; when its login is recorded, its
\* goroutines run in parallel.
MayBegin(a, script) ==
  a \notin Workers =>
    CASE conns[a[1]] = "none" -> a[2] = "conn" /\ script[1].type = "connect"
      [] conns[a[1]] = "up"   -> script[1].type # "connect"
      [] OTHER                -> FALSE

Begin(a, script) ==
  /\ Spend("scripts")
  /\ todo[a] = << >> /\ MayBegin(a, script)
  /\ todo' = [todo EXCEPT ![a] = script]
  /\ conns' = [s \in Sids |-> IF a = <<s, "conn">> /\ conns[s] = "none" THEN "login" ELSE conns[s]]
  /\ UNCHANGED <<clock, ring, file, written, sessions, view, stored, resumed>>

Stamp(a) ==
  /\ todo[a] # << >> /\ todo[a][1].at = 0
  /\ clock < MaxTime /\ clock' = clock + 1
  /\ todo' = [todo EXCEPT ![a][1].at = clock']
  /\ UNCHANGED <<ring, file, written, sessions, view, conns, scene, left, stored, resumed>>

\* The session takes note of its record.
Observe(sid, e) ==
  /\ sessions' = Put(sessions, sid,
                     applySSHEvent(IF sid \in DOMAIN sessions THEN sessions[sid] ELSE NoSession(e.at), e))
  /\ stored' = [stored EXCEPT ![sid] = @ \cup {e}]
  /\ resumed' = IF stored[sid] # {} /\ sid \notin DOMAIN sessions THEN resumed \cup {sid} ELSE resumed

\* AddEvent, AddSSHEvent and AddIntelSignal.  If the write fails the record is
\* dropped, and the actor goes on.
Store(a, ok) ==
  /\ todo[a] # << >> /\ todo[a][1].at # 0
  /\ todo' = [todo EXCEPT ![a] = Tail(@)]
  /\ LET e == [todo[a][1] EXCEPT !.n = written + 1] IN
     IF ok
     THEN /\ ring' = [ring EXCEPT ![e.log] = @ \cup {e}]
          /\ file' = [file EXCEPT ![e.log] = @ \cup {e}]
          /\ written' = written + 1
          /\ IF e.log = "ssh" THEN Observe(e.sid, e) ELSE UNCHANGED <<sessions, stored, resumed>>
          /\ Free
     ELSE /\ Spend("faults")
          /\ UNCHANGED <<ring, file, written, sessions, stored, resumed>>
  /\ conns' = [s \in Sids |-> IF a = <<s, "conn">> /\ conns[s] = "login" /\ Len(todo[a]) = 1
                              THEN "up" ELSE conns[s]]
  /\ UNCHANGED <<clock, view>>

\* Records of other sources push the oldest row out of a ring.
Displace(log) ==
  /\ Spend("losses") /\ ring[log] # {}
  /\ ring' = [ring EXCEPT ![log] = {e \in @ : \E d \in @ : d.n < e.n}]
  /\ UNCHANGED <<clock, todo, file, written, sessions, view, conns, stored, resumed>>

\* Sessions of other sources push one out of the map (pruneSSHSessionsLocked).
Forget(sid) ==
  /\ Spend("losses") /\ sid \in DOMAIN sessions
  /\ sessions' = [s \in DOMAIN sessions \ {sid} |-> sessions[s]]
  /\ UNCHANGED <<clock, todo, ring, file, written, view, conns, stored, resumed>>

\* pruneExpired rewrites the files, not the rings.
Expire ==
  /\ file' = [log \in Logs |-> {e \in file[log] : e.at + Scenes[scene].retention >= clock}]
  /\ file' # file
  /\ UNCHANGED <<clock, todo, ring, written, sessions, view, conns, scene, left, stored, resumed>>

\* The session that applySSHEventLocked makes of some rows.
Rebuilt(rows) ==
  LET ats == {e.at : e \in rows} IN
  [auth |-> Count(rows, {"auth"}), commands |-> Count(rows, {"exec", "command"}),
   execs |-> Count(rows, {"exec"}), shell |-> Count(rows, {"shell"}) > 0,
   first |-> Min(ats), last |-> Max(ats)]

NoView == [stage |-> "none"]

\* The process ends, and what was stamped but not stored is lost.  The next one loads
\* the logs, as retention has left them (loadSSH); while it loads, the other sessions
\* may push one out of the map, which then begins at a later row.
Restart(sid, cut) ==
  /\ Spend("restarts")
  /\ todo' = [a \in Actors |-> << >>] /\ view' = NoView /\ ring' = file
  /\ conns' = [s \in Sids |-> IF conns[s] = "none" THEN "none" ELSE "gone"]
  /\ stored' = [s \in Sids |-> Of(file["ssh"], s)]
  /\ LET kept == [s \in Sids |-> {e \in stored'[s] : s = sid => e.n > cut}] IN
     /\ sessions' = [s \in {t \in Sids : kept[t] # {}} |-> Rebuilt(kept[s])]
     /\ resumed' = {s \in DOMAIN sessions' : kept[s] # stored'[s]}
  /\ UNCHANGED <<clock, file, written>>

----------------------------------------------------------------------------
(* sshSessionEvidence *)

\* Under the read lock: the session, its rows of the ring, its traces.
BeginView(sid) ==
  /\ view = NoView /\ Spend("views")
  /\ view' = [stage |-> "memory", sid |-> sid, rows |-> Of(ring["ssh"], sid),
              session |-> IF sid \in DOMAIN sessions THEN {sessions[sid]} ELSE {},
              traces |-> IF sid \in DOMAIN sessions
                         THEN filterSessionTraces(attackTraces(ring), sid) ELSE {},
              due |-> stored[sid]]
  /\ UNCHANGED <<clock, todo, ring, file, written, sessions, conns, stored, resumed>>

\* Memory is enough if it has the session and all of its rows.
FromMemory(v) == \E ss \in v.session : sshTranscriptComplete(ss, v.rows)

\* The files that can be read.
Readable(logs, log) == IF log \in logs THEN file[log] ELSE {}

Shown(v, logs, status, rows) ==
  [stage |-> "shown", sid |-> v.sid, status |-> status, rows |-> rows, due |-> v.due,
   traces |-> v.traces \cup filterSessionTraces(
                 stagedPayloadTracesFromIntel(chronological(Readable(logs, "intel"))), v.sid)]

\* Without the lock (scanRetainedSSHSession, scanRetainedIntel): the files, as they are
\* by now.  One that cannot be read leaves what memory had.
EndView(logs) ==
  /\ view.stage = "memory"
  /\ IF logs = {"ssh", "intel"} THEN Free ELSE Spend("faults")
  /\ LET disk == Of(Readable(logs, "ssh"), view.sid)
     IN  view' =
           CASE FromMemory(view) ->
                  Shown(view, logs, IF view.rows = {} THEN "expired" ELSE "memory", view.rows)
             [] ~FromMemory(view) /\ disk # {} ->
                  Shown(view, logs, IF sshTranscriptComplete(Rebuilt(disk), disk)
                              THEN "retained" ELSE "partial", disk)
             [] OTHER ->
                  IF view.session = {} THEN NoView
                  ELSE Shown(view, logs, IF view.rows = {} THEN "expired" ELSE "partial", view.rows)
  /\ UNCHANGED <<clock, todo, ring, file, written, sessions, conns, stored, resumed>>

CloseView ==
  /\ view.stage = "shown" /\ view' = NoView
  /\ UNCHANGED <<clock, todo, ring, file, written, sessions, conns, scene, left, stored, resumed>>

----------------------------------------------------------------------------

Init ==
  /\ clock = 0 /\ todo = [a \in Actors |-> << >>]
  /\ ring = [log \in Logs |-> {}] /\ file = [log \in Logs |-> {}]
  /\ written = 0 /\ sessions = << >> /\ view = NoView /\ conns = [s \in Sids |-> "none"]
  /\ scene \in DOMAIN Scenes /\ left = Scenes[scene].bounds
  /\ stored = [s \in Sids |-> {}] /\ resumed = {}

Next ==
  \/ \E a \in Actors : \/ \E script \in Scenes[scene].scripts[a] : Begin(a, script)
                       \/ Stamp(a)
                       \/ \E ok \in BOOLEAN : Store(a, ok)
  \/ \E log \in Logs : Displace(log)
  \/ \E s \in Sids : Forget(s) \/ BeginView(s)
  \/ \E s \in Sids : \E cut \in 0 .. written : Restart(s, cut)
  \/ Expire
  \/ \E logs \in SUBSET {"ssh", "intel"} : EndView(logs)
  \/ CloseView

Spec == Init /\ [][Next]_vars

----------------------------------------------------------------------------
(* Properties *)

\* The type invariant.
TypeOK ==
  /\ clock \in 0 .. MaxTime /\ scene \in DOMAIN Scenes
  /\ DOMAIN left = DOMAIN Scenes[scene].bounds
  /\ DOMAIN todo = Actors /\ conns \in [Sids -> {"none", "login", "up", "gone"}]
  /\ DOMAIN sessions \subseteq Sids /\ resumed \subseteq Sids
  /\ \A log \in Logs : \A e \in ring[log] \cup file[log] :
       e.log = log /\ e.at \in 1 .. clock /\ e.n \in 1 .. written
  /\ view.stage \in {"none", "memory", "shown"}

\* One of the records comes before the others, by its stamp and in the log.
HasFirst(rows) == \E c \in rows : \A e \in rows \ {c} : c.at < e.at /\ c.n < e.n

\* Though goroutines of a session store its records out of order, the ring loses rows,
\* the session is removed from memory, the process restarts and the files are rewritten
\* between the two halves of a view: a transcript that is called whole from memory has
\* every record of the session, except what retention had taken from the log before the
\* process started, and one that is called retained has at least the records within
\* retention.  Excepted from the first are a session that went on after it was removed,
\* which starts anew in memory, and one whose connect record was not written or did not
\* live until the restart: if its first two were stored out of order, the row that the
\* ring drops first does not count.
TranscriptWhole ==
  view.stage = "shown" =>
    /\ view.status = "memory" /\ view.sid \notin resumed /\ HasFirst(view.due)
         => view.due \subseteq view.rows
    /\ view.status = "retained"
         => {e \in view.due : e.at + Scenes[scene].retention >= clock} \subseteq view.rows

\* The latest of the causes, as the only trace of an effect.
TracedTo(relation, effect, causes) ==
  {t.cause : t \in {u \in attackTraces(ring) : u.relation = relation /\ u.effect = effect.at}}
    = {c.at : c \in {d \in causes : \A b \in causes : b.at <= d.at}}

\* A trace is shown with its cause first.  Only the moment of a canary's reuse may be
\* before it, by less than EffectBefore: the search for the cause goes by the signal,
\* which is stamped after the command that is shown, and what is served meanwhile is
\* taken for the cause.
ShownInOrder(t) ==
  t.cause < t.seen \/ (t.relation = "canary-reuse" /\ t.cause < t.seen + EffectBefore)

\* In whatever order web workers and sessions store their records, every effect in the
\* rings is traced to the latest cause before it that its window reaches, and an effect
\* without one to nothing: no scan gives up too early or goes back too far.  The effect
\* of a canary is the signal of its reuse.
TracesFound ==
  /\ \A t \in attackTraces(ring) : ShownInOrder(t)
  /\ \A e \in ring["http"] :
       TracedTo("referrer-follow", e,
                {c \in ring["http"] : e.ref # "" /\ Leads(c, e) /\ c.at < e.at
                                      /\ e.at - c.at <= ReferrerWindow})
  /\ \A s \in ring["intel"] :
       /\ TracedTo("canary-reuse", s,
                   {c \in ring["http"] : s.kind = "canary" /\ s.label \in c.canaries
                                         /\ c.at < s.at /\ s.at - c.at <= Day})
       /\ TracedTo("staged-payload-execution", s,
                   {c \in ring["intel"] : s.kind = "execution" /\ IsUpload(c) /\ c.label = s.label
                                          /\ c.at < s.at /\ s.at - c.at <= Day})
=============================================================================
