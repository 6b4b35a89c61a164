------------------------------ MODULE SshConn ------------------------------
(***************************************************************************)
(* The life of a connection to the SSH trap (internal/server/trap_ssh.go): *)
(* acceptConn with its limits, handleConn, the goroutine of its session    *)
(* channel with the interactive shell, and the virtual world that all      *)
(* connections of a source share; and what AddSSHEvent                     *)
(* (internal/store/ssh.go) makes of its events in the list of live         *)
(* sessions.                                                               *)
(*                                                                         *)
(* A connection opens at most one session channel here.  How a password is *)
(* decided is SshAuth's; here a handshake succeeds or fails.               *)
(***************************************************************************)
EXTENDS Integers, FiniteSets

CONSTANTS
  Conns,          \* connections; connection c creates session c and maybe world c
  IPs,
  MaxConcurrent,  \* cfg.SSHMaxConcurrent
  MaxPerIP,       \* cfg.SSHMaxPerIP
  TarpitSlots,    \* capacity of tarpitSem
  MaxRealities,   \* maxVirtualSSHSourceRealities
  RealityTTL,     \* virtualSSHSourceRealityTTL, in clock units
  PanicSites,     \* where a recovered panic may happen
  CommandKinds,   \* "plain", or "credential": one that applyCompoundCredentialState takes
  MaxFaults,      \* bound on events that cannot be written
  MaxTime,        \* bound on the clock
  None

ASSUME ConnAssumption ==
  /\ MaxConcurrent \in Nat /\ MaxPerIP \in Nat /\ TarpitSlots \in Nat
  /\ MaxRealities \in Nat \ {0} /\ RealityTTL \in Nat
  /\ PanicSites \subseteq {"connection", "exec", "shell"}
  /\ CommandKinds \subseteq {"plain", "credential"}
  /\ MaxFaults \in Nat /\ MaxTime \in Nat /\ None \notin Conns

VARIABLES
  clock, faults,
  ip,       \* the address of each connection
  pc,       \* where acceptConn and handleConn are
  net,      \* whether the connection is still open
  sem, perIP, tarpit, \* slots in use
  reality,  \* TrapSSH.reality: source -> world and time it was last seen
  world,    \* the world each connection got
  lock,     \* holder of the mutex of each world
  worker,   \* the goroutine of the session channel
  live,     \* the stored session: none, active, left
  \* history
  late,     \* sessions whose shell was recorded after their disconnect
  panicked, unwritten, \* sessions with a recovered panic, with an unwritten event
  evicted   \* worlds that were removed while in the map

limits == <<sem, perIP, tarpit>>
worlds == <<reality, world, evicted>>
vars == <<clock, faults, ip, pc, net, limits, worlds, lock, worker, live,
          late, panicked, unwritten>>

Stages == {"new", "slot", "counted", "opened", "tarpit", "handshake", "up", "done"}
WorkerStages == {"none", "seeding", "idle", "wantExec", "inExec", "ranExec",
                 "shell", "wantShell", "inShell", "ranShell", "editor", "bang",
                 "stuck", "gone"}

Goto(c, stage) == pc' = [pc EXCEPT ![c] = stage]
WorkerTo(c, stage) == worker' = [worker EXCEPT ![c] = stage]

Init ==
  /\ clock = 0 /\ faults = 0
  /\ ip \in [Conns -> IPs]
  /\ pc = [c \in Conns |-> "new"] /\ net = [c \in Conns |-> TRUE]
  /\ sem = 0 /\ perIP = [i \in IPs |-> 0] /\ tarpit = 0
  /\ reality = << >> /\ world = [c \in Conns |-> None]
  /\ lock = [w \in Conns |-> None]
  /\ worker = [c \in Conns |-> "none"] /\ live = [c \in Conns |-> "none"]
  /\ late = {} /\ panicked = {} /\ unwritten = {} /\ evicted = {}

Tick ==
  /\ clock < MaxTime /\ clock' = clock + 1
  /\ UNCHANGED <<faults, ip, pc, net, limits, worlds, lock, worker, live,
                 late, panicked, unwritten>>

----------------------------------------------------------------------------
(* AddSSHEvent and applySSHEventLocked, as far as the live list shows them *)

Applied(state, type) ==
  IF type \in {"connect", "shell"} THEN "active"
  ELSE IF type \in {"disconnect", "handshake_error"} \/ state = "none" THEN "left"
  ELSE state

\* An event that cannot be written is not applied either.
AddSSHEvent(c, type) ==
  \/ /\ live' = [live EXCEPT ![c] = Applied(@, type)]
     /\ late' = IF type = "shell" /\ pc[c] = "done" THEN late \cup {c} ELSE late
     /\ UNCHANGED <<faults, unwritten>>
  \/ /\ faults < MaxFaults /\ faults' = faults + 1
     /\ unwritten' = unwritten \cup {c}
     /\ UNCHANGED <<live, late>>

----------------------------------------------------------------------------
(* acceptConn *)

AcquireSlot(c) ==
  /\ pc[c] = "new"
  /\ \/ sem < MaxConcurrent /\ sem' = sem + 1 /\ Goto(c, "slot")
     \/ sem >= MaxConcurrent /\ UNCHANGED sem /\ Goto(c, "done")
  /\ UNCHANGED <<clock, faults, ip, net, perIP, tarpit, worlds, lock, worker, live,
                 late, panicked, unwritten>>

\* A mutant: a connection over the limit of its source keeps its slot.
acquireIPLeaking(c) ==
  /\ pc[c] = "slot"
  /\ \/ /\ perIP[ip[c]] < MaxPerIP
        /\ perIP' = [perIP EXCEPT ![ip[c]] = @ + 1]
        /\ Goto(c, "counted")
     \/ perIP[ip[c]] >= MaxPerIP /\ UNCHANGED perIP /\ Goto(c, "done")
  /\ UNCHANGED <<clock, faults, ip, net, sem, tarpit, worlds, lock, worker, live,
                 late, panicked, unwritten>>

acquireIP(c) ==
  /\ pc[c] = "slot"
  /\ \/ /\ perIP[ip[c]] < MaxPerIP
        /\ perIP' = [perIP EXCEPT ![ip[c]] = @ + 1]
        /\ UNCHANGED sem /\ Goto(c, "counted")
     \/ /\ perIP[ip[c]] >= MaxPerIP
        /\ sem' = sem - 1 /\ UNCHANGED perIP /\ Goto(c, "done")
  /\ UNCHANGED <<clock, faults, ip, net, tarpit, worlds, lock, worker, live,
                 late, panicked, unwritten>>

Connect(c) ==
  /\ pc[c] = "counted" /\ AddSSHEvent(c, "connect") /\ Goto(c, "opened")
  /\ UNCHANGED <<clock, ip, net, limits, worlds, lock, worker, panicked>>

\* applyAdaptiveSSHTarpit: an aggressive source waits, if a slot is free.
Delay(c) ==
  /\ pc[c] = "opened"
  /\ \/ tarpit < TarpitSlots /\ tarpit' = tarpit + 1 /\ Goto(c, "tarpit")
     \/ UNCHANGED tarpit /\ Goto(c, "handshake")
  /\ UNCHANGED <<clock, faults, ip, net, sem, perIP, worlds, lock, worker, live,
                 late, panicked, unwritten>>

EndDelay(c) ==
  /\ pc[c] = "tarpit" /\ tarpit' = tarpit - 1 /\ Goto(c, "handshake")
  /\ UNCHANGED <<clock, faults, ip, net, sem, perIP, worlds, lock, worker, live,
                 late, panicked, unwritten>>

\* The deferred calls of acceptConn and handleConn.
Finish(c) ==
  /\ sem' = sem - 1
  /\ perIP' = [perIP EXCEPT ![ip[c]] = IF @ <= 1 THEN 0 ELSE @ - 1]
  /\ net' = [net EXCEPT ![c] = FALSE]
  /\ Goto(c, "done")

----------------------------------------------------------------------------
(* handleConn *)

\* A mutant: the end of a failed handshake is not recorded.
HandshakeErrorSilent(c) ==
  /\ pc[c] = "handshake" /\ Finish(c)
  /\ UNCHANGED <<clock, faults, ip, tarpit, worlds, lock, worker, live,
                 late, panicked, unwritten>>

\* The client gives up, runs out of tries or of its 60 seconds.
HandshakeError(c) ==
  /\ pc[c] = "handshake" /\ AddSSHEvent(c, "handshake_error") /\ Finish(c)
  /\ UNCHANGED <<clock, ip, tarpit, worlds, lock, worker, panicked>>

Full(r) == Cardinality(DOMAIN r) >= MaxRealities

Unexpired == {i \in DOMAIN reality : clock - reality[i].last <= RealityTTL}

\* The sources that keep their world when source i needs a new one: without the
\* expired ones, and without the oldest when the map is full.
Keeps(i) ==
  LET r == [j \in Unexpired |-> reality[j]] IN
  IF ~Full(r) \/ i \in Unexpired THEN {Unexpired}
  ELSE {Unexpired \ {o} : o \in {j \in Unexpired :
          \A k \in Unexpired : reality[j].last <= reality[k].last}}

\* A mutant: every connection gets a world of its own.
WorldOfFresh(c) == c

WorldOf(c) == IF ip[c] \in Unexpired THEN reality[ip[c]].world ELSE c

\* Authentication succeeded: sharedRealityForSource gives the connection the
\* world of its source, or a new one.
Authenticate(c) ==
  /\ pc[c] = "handshake"
  /\ \E keep \in Keeps(ip[c]) :
       /\ reality' = [i \in keep \cup {ip[c]} |->
            IF i = ip[c] THEN [world |-> WorldOf(c), last |-> clock] ELSE reality[i]]
       /\ evicted' = evicted \cup {reality[i].world : i \in DOMAIN reality \ keep}
  /\ world' = [world EXCEPT ![c] = WorldOf(c)]
  /\ Goto(c, "up")
  /\ UNCHANGED <<clock, faults, ip, net, limits, lock, worker, live, late, panicked, unwritten>>

OpenSession(c) ==
  /\ pc[c] = "up" /\ net[c] /\ worker[c] = "none" /\ WorkerTo(c, "seeding")
  /\ UNCHANGED <<clock, faults, ip, pc, net, limits, worlds, lock, live, late, panicked, unwritten>>

\* The client leaves, or the idle timer or the timer of the session closes it.
CloseNet(c) ==
  /\ pc[c] = "up" /\ net[c] /\ net' = [net EXCEPT ![c] = FALSE]
  /\ UNCHANGED <<clock, faults, ip, pc, limits, worlds, lock, worker, live, late, panicked, unwritten>>

\* The loop over the channels ends with the connection; the goroutines of its
\* channels are not waited for.
Disconnect(c) ==
  /\ pc[c] = "up" /\ ~net[c] /\ AddSSHEvent(c, "disconnect") /\ Finish(c)
  /\ UNCHANGED <<clock, ip, tarpit, worlds, lock, worker, panicked>>

\* recoverSSHWorkerPanic: the deferred calls run, no event is recorded.
Panic(c) ==
  /\ "connection" \in PanicSites /\ pc[c] \in {"handshake", "up"}
  /\ Finish(c) /\ panicked' = panicked \cup {c}
  /\ UNCHANGED <<clock, faults, ip, tarpit, worlds, lock, worker, live, late, unwritten>>

----------------------------------------------------------------------------
(* handleTrapSSHSession and runVirtualSSHShell *)

\* newVirtualSSHWorldForSourceShared fills a new world under its mutex.
SeedWorld(c) ==
  /\ worker[c] = "seeding" /\ lock[world[c]] = None /\ WorkerTo(c, "idle")
  /\ UNCHANGED <<clock, faults, ip, pc, net, limits, worlds, lock, live, late, panicked, unwritten>>

\* A request of the channel; one that was buffered is handled even when the
\* connection is closed by now.
Shell(c) ==
  /\ worker[c] = "idle" /\ AddSSHEvent(c, "shell") /\ WorkerTo(c, "shell")
  /\ UNCHANGED <<clock, ip, pc, net, limits, worlds, lock, panicked>>

Exec(c) ==
  /\ worker[c] = "idle" /\ WorkerTo(c, "wantExec")
  /\ UNCHANGED <<clock, faults, ip, pc, net, limits, worlds, lock, live, late, panicked, unwritten>>

ReadLine(c) ==
  /\ worker[c] = "shell" /\ WorkerTo(c, "wantShell")
  /\ UNCHANGED <<clock, faults, ip, pc, net, limits, worlds, lock, live, late, panicked, unwritten>>

\* The channel is closed, a request is malformed, or the shell ends.
EndWorker(c) ==
  /\ worker[c] \in {"idle", "shell", "editor"} /\ WorkerTo(c, "gone")
  /\ UNCHANGED <<clock, faults, ip, pc, net, limits, worlds, lock, live, late, panicked, unwritten>>

LockWorld(c) ==
  /\ \/ worker[c] = "wantExec" /\ WorkerTo(c, "inExec")
     \/ worker[c] = "wantShell" /\ WorkerTo(c, "inShell")
  /\ lock[world[c]] = None /\ lock' = [lock EXCEPT ![world[c]] = c]
  /\ UNCHANGED <<clock, faults, ip, pc, net, limits, worlds, live, late, panicked, unwritten>>

\* A mutant: the world stays locked.
UnlockNever(c) == UNCHANGED lock

Unlock(c) == lock' = [lock EXCEPT ![world[c]] = None]

FinishCommand(c) ==
  /\ "plain" \in CommandKinds /\ Unlock(c)
  /\ \/ worker[c] = "inExec" /\ WorkerTo(c, "ranExec")
     \/ worker[c] = "inShell" /\ WorkerTo(c, "ranShell")
  /\ UNCHANGED <<clock, faults, ip, pc, net, limits, worlds, live, late, panicked, unwritten>>

\* applyCompoundCredentialState locks the mutex its caller holds: sync.Mutex is
\* not reentrant, and the goroutine waits for itself.
Relock(c) ==
  /\ "credential" \in CommandKinds /\ worker[c] \in {"inExec", "inShell"}
  /\ WorkerTo(c, "stuck")
  /\ UNCHANGED <<clock, faults, ip, pc, net, limits, worlds, lock, live, late, panicked, unwritten>>

\* The command is recorded after the world was unlocked; exec ends the channel,
\* the shell opens an editor if the command asked for one, or reads on.
recordSSHCommand(c) ==
  /\ \/ worker[c] = "ranExec" /\ AddSSHEvent(c, "exec") /\ WorkerTo(c, "gone")
     \/ /\ worker[c] = "ranShell" /\ AddSSHEvent(c, "command")
        /\ \E next \in {"shell", "editor"} : WorkerTo(c, next)
  /\ UNCHANGED <<clock, ip, pc, net, limits, worlds, lock, panicked>>

\* vim's ":!" runs a command in the world without its mutex.
Bang(c) ==
  /\ worker[c] = "editor" /\ WorkerTo(c, "bang")
  /\ UNCHANGED <<clock, faults, ip, pc, net, limits, worlds, lock, live, late, panicked, unwritten>>

\* It ends unrecorded.  applyCompoundCredentialState takes the mutex for itself here,
\* and waits for whoever holds it.
EndBang(c) ==
  /\ worker[c] = "bang" /\ WorkerTo(c, "editor")
  /\ \/ "plain" \in CommandKinds
     \/ "credential" \in CommandKinds /\ lock[world[c]] = None
  /\ UNCHANGED <<clock, faults, ip, pc, net, limits, worlds, lock, live, late, panicked, unwritten>>

CloseEditor(c) ==
  /\ worker[c] = "editor" /\ WorkerTo(c, "shell")
  /\ UNCHANGED <<clock, faults, ip, pc, net, limits, worlds, lock, live, late, panicked, unwritten>>

\* Login attempts and rejected requests are recorded too.
Note(c) ==
  /\ pc[c] \in {"handshake", "up"} \/ worker[c] = "idle"
  /\ AddSSHEvent(c, "request")
  /\ UNCHANGED <<clock, ip, pc, net, limits, worlds, lock, worker, panicked>>

\* A recovered panic in a command.  withVirtualSSHSharedLock unlocks the world;
\* the interactive shell, which unlocks without defer, leaves it locked; its editor
\* has no lock to leave.
PanicInCommand(c) ==
  /\ \/ worker[c] = "inExec" /\ "exec" \in PanicSites /\ Unlock(c)
     \/ worker[c] \in {"inShell", "bang"} /\ "shell" \in PanicSites /\ UNCHANGED lock
  /\ WorkerTo(c, "gone") /\ panicked' = panicked \cup {c}
  /\ UNCHANGED <<clock, faults, ip, pc, net, limits, worlds, live, late, unwritten>>

----------------------------------------------------------------------------
Accepting(c) == AcquireSlot(c) \/ acquireIP(c) \/ Connect(c) \/ Delay(c) \/ EndDelay(c)
Serving(c) == HandshakeError(c) \/ Authenticate(c) \/ OpenSession(c) \/ CloseNet(c)
              \/ Disconnect(c) \/ Panic(c)
Working(c) == SeedWorld(c) \/ Shell(c) \/ Exec(c) \/ ReadLine(c) \/ EndWorker(c)
              \/ LockWorld(c) \/ FinishCommand(c) \/ Relock(c) \/ recordSSHCommand(c)
              \/ Bang(c) \/ EndBang(c) \/ CloseEditor(c) \/ Note(c) \/ PanicInCommand(c)

Next == Tick \/ \E c \in Conns : Accepting(c) \/ Serving(c) \/ Working(c)

\* Goroutines run; the deadline of the handshake and the timer of the session
\* fire, sync.Mutex hands itself to whoever waits, and what a closed connection
\* had buffered is read before long.
Fairness ==
  \A c \in Conns :
    /\ WF_vars(pc[c] # "new" /\ Accepting(c))
    /\ WF_vars(HandshakeError(c)) /\ WF_vars(CloseNet(c)) /\ WF_vars(Disconnect(c))
    /\ WF_vars(FinishCommand(c)) /\ WF_vars(recordSSHCommand(c)) /\ WF_vars(EndBang(c))
    /\ SF_vars(SeedWorld(c)) /\ SF_vars(LockWorld(c)) /\ SF_vars(~net[c] /\ EndWorker(c))

Spec == Init /\ [][Next]_vars
FairSpec == Spec /\ Fairness

----------------------------------------------------------------------------
(* Properties *)

\* The type invariant.
TypeOK ==
  /\ clock \in Nat /\ faults \in Nat /\ ip \in [Conns -> IPs]
  /\ pc \in [Conns -> Stages] /\ net \in [Conns -> BOOLEAN]
  /\ sem \in Int /\ perIP \in [IPs -> Int] /\ tarpit \in Int
  /\ DOMAIN reality \subseteq IPs
  /\ \A i \in DOMAIN reality : reality[i] \in [world : Conns, last : Nat]
  /\ world \in [Conns -> Conns \cup {None}] /\ lock \in [Conns -> Conns \cup {None}]
  /\ worker \in [Conns -> WorkerStages] /\ live \in [Conns -> {"none", "active", "left"}]
  /\ late \subseteq Conns /\ panicked \subseteq Conns /\ unwritten \subseteq Conns
  /\ evicted \subseteq Conns

At(stages) == {c \in Conns : pc[c] \in stages}

\* Every slot that is taken belongs to a connection that is being served: early
\* returns, failed handshakes and recovered panics give back what they hold, of
\* the global limit, of the limit of the source and of the tarpit alike.
SlotsAccounted ==
  /\ sem = Cardinality(At(Stages \ {"new", "done"}))
  /\ \A i \in IPs :
       perIP[i] = Cardinality({c \in At(Stages \ {"new", "slot", "done"}) : ip[c] = i})
  /\ tarpit = Cardinality(At({"tarpit"}))

\* The live list shows exactly the connections that are open, with three known
\* exceptions: a shell request handled after the disconnect, a recovered panic
\* of the connection, and events that could not be written.
LiveListTruthful ==
  \A c \in Conns \ (late \cup panicked \cup unwritten) :
    live[c] = "active" <=> pc[c] \in {"opened", "tarpit", "handshake", "up"}

\* Connections of one source that are up together see one virtual world, unless
\* its entry was evicted or expired in between: what one connection changes the
\* others see.  The map of worlds stays within its bound.
OneWorldPerSource ==
  /\ Cardinality(DOMAIN reality) <= MaxRealities
  /\ \A c, d \in At({"up"}) :
       (ip[c] = ip[d] /\ {world[c], world[d]} \cap evicted = {}) => world[c] = world[d]

\* "... idle time, total session time ... are bounded" (SECURITY.md, line 28): the
\* deadlines end every connection, however its client behaves, and the goroutine
\* of its session channel ends, whatever it waits for.
SessionsEnd ==
  \A c \in Conns : /\ pc[c] # "new" ~> pc[c] = "done"
                   /\ worker[c] # "none" ~> worker[c] = "gone"
=============================================================================
