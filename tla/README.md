# ZentLoop: TLA+ models, checks and proofs

ZentLoop is a deception server: an HTTP trap and an SSH trap that record and
engage automated clients, a store that keeps sessions in memory and events in
append-only JSONL files, and an admin dashboard fed over a WebSocket. This
directory models the parts whose correctness depends on interleavings, failures
and order, checks them with TLC on small instances and proves the central
properties with TLAPS.

    tlc -workers 2 -config WebSession.cfg MCWebSession     # one run
    tlapm WebSessionProofs.tla                             # one proof module

`PROJECT.json` lists the runs, the source lines behind every definition, the
mutants each property was shown to catch, the hazards and the theorems.

## 1. Inventory

| Part | State | Operations | Talks to |
|---|---|---|---|
| HTTP trap (`server/trap.go`, `automation.go`) | semaphore, 2 arrays of lock stripes | `handle`: admit, find session, lock, refresh, assess, respond, upsert, log | store |
| Store: sessions (`store/store.go`) | `sessions`, `fingerprints`, under `mu` | `UpsertSession`, `PromoteHTTPAutomation`, pruning, replay | trap, dashboard |
| Store: event logs (`store/store.go`, `ssh.go`, `actors.go`, `retention.go`, `durability.go`) | three JSONL files and their handles | `AddEvent`, `AddSSHEvent`, `AddIntelEvent`, retention sweep, periodic sync, `Close`, recovery | disk |
| Storage pressure (`store/retention.go`) | file sizes | share out a target size, keep the newest records | event logs |
| SSH credential reality (`store/ssh_auth_reality.go`, `server/trap_ssh_auth_policy.go`) | credential pools, source bindings, a JSON file | status, establish, bind | SSH trap |
| SSH trap (`server/trap_ssh.go`, `trap_ssh_tarpit.go`) | global, per-source and tarpit slots, worlds shared by source | `acceptConn`, `handleConn`, session goroutine, shell | store, virtual host |
| Virtual host (`server/trap_ssh_*.go`) | virtual files, processes, users, editors | commands, SFTP, SCP, editors | SSH trap |
| Realtime stream (`store/realtime.go`, `server/admin_realtime.go`) | subscribers, one channel each | publish, subscribe, WebSocket handler and reader | store, browser |
| Scoring (`engine/scorer.go`) | none | `AssessAt` and the signals it adds up | HTTP trap |
| Deception engine, lures, probes | story stage per session | choose and render responses | HTTP trap |
| Actors, highlights, traces, bursts, activity (`store/*.go`) | aggregates under `mu` | update with each event | dashboard |
| Target realities, integration peers, trusted domains (`store/*.go`) | small maps with a file each | observe, lock in, persist | HTTP trap, admin |
| Admin server (`server/admin*.go`) | sessions, failed logins, SSH console slots, update cache | login, logout, views, update check | store |
| Bot verification (`botverify`) | cached address ranges | refresh, match | HTTP trap |
| Configuration, entry point, support export, terminal view | none to speak of | start-up, shutdown, output | all |

What is hard in this code:

* **Copies.** `handle` works on a copy of its session between two critical
  sections of `store.mu`. Two requests of one session can come in by cookie and
  by fingerprint; the copy of one must not undo the other. The web story resolves
  a target's reality, prepares an answer and commits it in a later critical
  section.
* **Two families of lock stripes**, shared by unrelated keys.
* **Rewrites of live log files**: close, write a temporary file, rename, sync,
  reopen; each operation may fail and the process may die after any of them.
* **Decisions made of several store calls** (SSH credentials).
* **Everything in memory is derived from the logs**, event by event while the
  process runs and log by log when it starts: both must give the same profile.
* **A bounded channel with a lossy publisher** (realtime).
* **Goroutines that outlive their connection**, recovered panics, timers, and a
  mutex shared by all sessions of a source (SSH); a virtual host that shells,
  exec requests, SFTP, SCP and editors of several sessions change together, some
  of them without that mutex.
* **Settings with a file behind them**, changed by administrators while requests
  are answered from them, and writes that fail.

What makes each part right is stated in its module under "Properties".
`PROJECT.json` has the hazards, line by line, with the properties aimed at them.

## 2. Modules

| Module | Models | Properties |
|---|---|---|
| `WebSession` | `handle` over the session half of the store, pruning, replay | no lost request, ordered log, sound index, sticky label, no twin sessions, slots, no standstill |
| `EventLog` | the event files: append, sync, retention, pressure, Close, crash, recovery | nothing accepted is lost early, no holes, durable records stay, Close, expiry |
| `StorageBudget` | the shares and the tails of emergency cleanup, as operators | (in `DerivedState`) |
| `ActorEvidence` | the detectors over the event rings, as operators | (in `DerivedState`) |
| `DerivedState` | `AddEvent`, `AddSSHEvent`, `AddIntelSignal`, views, retention and the start, on all that the store derives from the logs | replay gives what was known, shown highlights stay, true peaks, storage budget |
| `SshAuth` | `trapCredentialDecision` call by call | recent passwords keep their slot, bindings stick |
| `SshConn` | connection, handshake, shared worlds, session goroutine, live list | slots, truthful live list, one world per source, everything ends |
| `VirtualFiles`, `VirtualShell` | the shared host and the interpreter of its shell, as operators | (in `VirtualHost`) |
| `VirtualHost` | the sessions of a source on their host: shell, exec, editors, SFTP, SCP and the mutex | quotas, immutable files, jobs, payload evidence, no starvation |
| `TargetReality` | trusted domains, profiles, what a host has learned, the web story's resolve and commit | served claims agree, settings are what the answers said |
| `IntegrationPeers` | verified and failed checks of proxies, throttled saves | peers are saved |
| `AdminServer` | sign-in, sessions, settings handlers, update check, SSH console; composes the two above with trap requests | sessions stay, console slots |
| `SessionEvidence` | transcripts from memory or from the logs, and attack traces | a transcript is whole or says it is not, effects find their causes |
| `LiveFeed` | abstract: what a browser may be shown | |
| `Realtime` | publisher, subscribers, WebSocket handler and reader goroutine | implements `LiveFeed`, bounded, catches up, readers end |
| `Tables` | Go maps as functions: put, delete, override | |
| `WebSessionProofs`, `EventLogProofs`, `SshAuthProofs`, `SshConnProofs`, `AdminServerProofs`, `DerivedStateProofs`, `SessionEvidenceProofs`, `RealtimeProofs` | theorems (section 4) | |
| `MC*` | model values, scenes, symmetry and the stuttering end state for TLC | |

### WebSession

One request is one worker with a program counter. Its stages are the lock
operations and the critical sections of `store.mu` in `handle`: `admitted` (slot
taken), `byCookie`/`byFingerprint` (fingerprint stripe held, two lookups of
`sessionFor`), `found`, `locked` (session stripe held), `ready` (copy
refreshed), `judged` (scored, stored sessions promoted, copy counted),
`upserted`, `done`. The target of a session may be unknown (`Blank`): the lookup by
cookie accepts a session without one, and the refresh puts the request's target
on it without comparing again (`applyRequestMeta`), so two requests for two hosts
that find one nameless session both name it. `IndexSound` promises the target
only of sessions that were opened with one. `Arrive` reads the arrival time before the semaphore, as the
code does, so commits come in another order than arrivals. Scoring is a choice:
`"tool"` is evidence that labels the request itself, `"boost"` actor-wide
evidence of at least 30 that leaves the request's own score below 65, `"none"`
neither. `UpsertSession` prunes to `PruneTo` when a new id exceeds
`MaxSessions`; `Restart` rebuilds the sessions and the index from the log, as
`applyEvent` does.

A session that is pruned while another worker holds a copy of it comes back with
that copy; the counters of such sessions are excepted (`evicted`). At 10,000
sessions with 1,000 pruned at a time, oldest first, that needs a very slow
request.

### EventLog

A file is the set of its complete records, in the order of `pos`, and its tail
(what a failed write left without a newline). A record's stamp is the time of its
arrival, any time since the start, and need not follow `pos`: a request that
arrived early and is logged late is cut by its own stamp, out of the middle of the
file, which is why `NoHoles` excepts what has expired. A sweep runs file by file through
`begin`, `closed`, `copied`, `renamed`; between two of these the process may
crash or the power fail, and each operation may fail once per fault allowed.
A handle is `open`, `nil`, or `dead`: not nil but closed, which is what a failed
`Close` leaves behind. `lost` is the history of accepted records that a power
failure took because they were not yet durable; a record that the sweep had removed
before is not one of them.

### ActorEvidence, StorageBudget and DerivedState

The store keeps nothing but its logs: counters, the profile of a source, its SSH
sessions, highlights and activity are updated with each event and rebuilt by
`NewWithRetention`, which reads the HTTP log, then the intelligence log, then the
SSH log. `ActorEvidence` has each detector as an operator on the rings it reads;
its windows and counts are fields of `Limits`, so that a small instance reaches
them. `DerivedState` has one action per store call, a clock, failed writes,
retention and storage pressure (with the operators of `StorageBudget`), a start
in the middle, and one record `d` for what is in memory. `kept` is the history of
what the logs should hold; `ReplayFaithful` compares `d` with `Load(kept)`, the
same operators applied log by log. What the code keeps in memory only is recorded
in `memory` and added to the rebuilt side, so that the exception is exactly as
wide as what was lost: fingerprints and promotions that `HTTPBehavior` applied
without an event, and aggregates that outlive the rows they counted. The summary of
an actor's behaviour takes no new name once it is full (`Limits`), so a full one is
compared without its counts (`SummaryFull`). A connection may end without the store
knowing: its end event could not be written, a recovered panic ended it, or its shell
was recorded after the disconnect. `ghosts` is the set of those.

The loops of the start and of the cleanup are recursive functions of the number
of rows read (`LoadLog`, `compactJSONL`) or of files done (`Ends`, `Total`,
`Compaction`): the same definitions are checked and proved about.

A *scene* fixes which events may happen, how many, at which distances and how
many writes fail. `DerivedAssumption` asks of it that every record has a size of at
least two bytes, its newline being one (`IsRecord`), that requests and SSH events carry a risk and a depth
that are numbers and one of the three classes (`IsScored`), and that SSH events
belong to known sessions (`IsSSHRecord`). Scenes keep the alphabet small enough for TLC while each
detector meets the events that make it fire.

### SshAuth and SshConn

`SshAuth` has one action per store call of a decision; which attempts become
candidates depends on hashes and attempt numbers and is left open (`Policy`).
`SshConn` has the three limits, the handshake as success or failure, the map of
worlds with expiry and eviction, and for each connection the goroutine of one
session channel: it seeds the world, takes shell or exec requests, runs commands
under the mutex of the world and records them after unlocking. After a command the
goroutine may be in an editor, whose `:!` runs commands without the mutex and
records nothing (`Bang`). A command is
`"plain"`, or `"credential"` when `applyCompoundCredentialState` handles it.
Recovered panics happen at the sites in `PanicSites`.

### VirtualFiles, VirtualShell and VirtualHost

`VirtualFiles` has the state that the sessions of a source share and the checks of
`setVirtualFile`; a content is its length. `VirtualShell` interprets command
lines given as syntax trees: chains, pipelines, `if`, `for` and `while` with their
budgets, substitution, aliases, scripts run from files, background jobs, and the
commands that change state. Every operator takes a world (shared state and the
session's own) and returns the world it leaves and a result. Commands that only
print are grouped by what they read.

`VirtualHost` runs that interpreter for several sessions. Waiting for the mutex,
taking it and working under it are separate steps; an SCP upload keeps it from its
first to its last byte; editors, `top` and `recordSSHCommand` work without it.
`:!` of vim runs a line command by command, so that other sessions go on in
between, and with `cmd &` the look at a process's job number and the assignment of
a new one are two steps (`BangCommand`, `BangJob`). A *scene* fixes the lines of the
sessions and how many requests they make: `mixed` has the whole alphabet and two
requests, `racing` short lines and three.
Where two of them touch a Go map at the same time, the step may also end the
process (`dead`), as the runtime does when it notices. `deeds` is the history of
what the evidence says of payloads, in the order in which it was recorded.

### TargetReality, IntegrationPeers and AdminServer

A host is a model value, `Below` its "is a subdomain of"; a request is the outcome
of classifying it. A trap request resolves the reality of its host in one step
and commits what it served in another, with administrators' saves in between.
Saving a file is a flag of the handler's step that says whether the write worked.
`AdminServer` adds sessions with cap and expiry, failed sign-ins with their
bounded table, CSRF, the single-flight update check, and the SSH console with its
two limits. A request is admitted in one step and handled in a later one, so a
session may end in between.

### SessionEvidence

Each actor (a goroutine that answers web requests, or one of the goroutines of an SSH
session: its connection, its channels) makes the records of a script; stamping a
record and storing it are separate steps, as the stamp is taken before `store.mu`, so
a session's records too are stored out of the order of their stamps. A ring, a file
and the rows of a transcript are sets; `n` is a record's place in the logs, and a ring
drops its lowest. Other sources push rows out of the rings and sessions out of memory,
retention cuts the files, and a restart loads rings and sessions from what it left. A view of a
session has two steps, the one under the lock and the one that reads the files.
The three searches for causes are translated as scans (`LastBefore`: the last row
that fits, unless a stop condition is met first), one operator for what an effect
is traced to (`referrerTrace`, `canaryTrace`, `stagedPayloadTrace`), and compared in
`TracesFound` with a definition by sets that has no scan and no sorting. Sorting
puts the row with k earlier rows at place k + 1 (`chronological`): stamps differ, so
this is what `sort.Slice` gives. As in `DerivedState` a scene
says who records what, and how often writes fail, rows are lost and views are made.

### Realtime and LiveFeed

An event is its number. `LiveFeed` says that a browser is shown the next number,
or a resync message with a later one. `Realtime` adds the channel with its
`missed` flag, the subscriber limit, every case of the handler's select and the
reader goroutine with its two channels. The identity mapping is the refinement:
`LiveFeed`'s variables are those of `Realtime`.

## 3. Runs

| Run | Instance | Shows |
|---|---|---|
| `web_session` | 3 requests, 1 address, 2 targets or none, 1 user agent or none, 2 slots, 2 sessions pruned to 1, 1 restart (2.7 million states) | all safety properties, no standstill |
| `event_log` | 3 records, 2 files, any 1 failed operation, 2 crashes or power failures, stamps in any order (1.6 million states) | nothing accepted is lost before it expires, no holes, durability |
| `event_log_live` | 2 records, 2 files, 1 failure other than of Close | Close returns, expired records go, logging resumes |
| `derived_state` | 10 scenes of 3 to 6 events, 2 lives, retention, pressure, failed writes, late shells and panics (144,000 states) | the logs rebuild what was known; highlights, peaks, budget |
| `ssh_auth` | 3 attempts, 2 sources, 2 accounts, 2 passwords, pool of 1, 1 failed save, 1 restart | the pool and the bindings |
| `ssh_conn` | 3 connections, 2 sources, 1 world in the map, panics, editors, credential commands (2.6 million states) | slots, live list, worlds |
| `ssh_conn_live` | 2 connections of a source, 1 slot, panics, 1 unwritten event | connections and session goroutines end |
| `ssh_conn_relock` | as above with credential commands | **violation**: a session goroutine never ends |
| `virtual_host` | 2 scenes of 2 sessions, 5 files of at most 3 bytes and 7 in total, 2 or 3 requests (193,000 states) | quotas, immutable files, jobs, payload evidence, no starvation |
| `admin` | 2 hosts, 2 trap workers, 2 browsers, 3 consoles of 2 addresses, 1 proxy, 4 inputs, 1 failed write | claims, settings, peers, sessions, console slots |
| `session_evidence` | 2 scenes: 1 SSH session of 2 goroutines and 3 scripts, 2 losses of memory, 1 failed write or read, 1 restart, 1 view; 2 web workers, 2 SSH sessions, 4 scripts, 1 lost row (932,000 states) | transcripts are whole or say so; effects find the latest cause in their window |
| `realtime` | 2 browsers, 1 subscriber slot, channel of 2, 4 events | refinement, bounds, catching up, readers end |

Why the bounds are enough. Three requests are the least for a third one to
prune or promote what two others hold; two targets, none, and a user agent or none
give collisions on fingerprint stripes, sessions reached under two fingerprints and
a nameless session that two requests name.
Three records are the least for a hole; two files for a sweep that fails at the
first and never reaches the second; in `event_log` one tick of the clock is a
retention period, so a record expires at the next tick. A channel of two and four
events give a full channel, a miss, a resync and messages behind each other.
Three connections of two sources with two places per source and one place in the
map of worlds give rejection by source, sharing and eviction of worlds; the single
slot of `ssh_conn_live` gives rejection by the global limit.

In `virtual_host` one session has the whole alphabet of lines, the other
interferes with a few; every quota is reached by one more write than fits. Two
requests are enough for each pair of a step under the mutex and one without it,
and a session that uses its request for a shell may then type, edit and upload.
The three requests of the second scene are the least for a `:!` that finds a payload
running, a job of the other session in between, and a line that set a file immutable
while an editor has it open.
In `derived_state` the detectors' counts are 2 or 3 and their windows a few ticks,
with the order between them kept as in the code (a worker window shorter than the
agents', a probe gap shorter than the playbook's). The ten scenes are: probing
from two sessions; workers under different user agents; logins and probes at an
even pace; a chain of container API calls; password guessing from parallel
connections; connections that go without the store knowing, and others after them;
one session at work; sessions pushed out of memory; a probe
repeated in two sessions; and a highlight with just enough points whose commands
pass the limit. Each starts with failed writes as it says and may be cut
by a restart. In `admin` four inputs are: sign in, ask for a change, and two more,
which is the least for a change between a trap request's two steps or for a second
sign-in that evicts the first. `OneAtATime` keeps the console, the checks of
proxies, failed sign-ins and the story from being mixed in one behaviour: they
share only the restart, so mixing them multiplies states without new cases.
`AdminServerProofs` has no such restriction.

In `session_evidence` the windows of the searches are one and two ticks, so that
causes fall inside, on and outside the edge; four scripts of up to two records
give an effect, its cause and a nearer rival stored in any order. In the scene with
a view, retention is two ticks and the session up to five records long.

Each module has a type invariant, `TypeOK`. TLC has checked it on the instance of
the module's run; the runs list the other properties only.

Symmetry is used only in runs without liveness properties. Where a theorem of
section 4 states a property, it lifts the bounds.

Clocks, restarts, faults and events are bounded by `Max...` constants in the
guards; no property depends on a bound being hit, except `EventsArrive`, which
speaks of pauses in publishing and gets its pause from `MaxPublished`. Where a
bound or the end of all clients stops a model, its cfg says `CHECK_DEADLOCK
FALSE`: nothing obliges a client or an administrator to do anything more.

### Fairness

* `EventLog`: the retention goroutine's steps are weakly fair; choosing the
  ticker or the stop channel in its select is strongly fair, as Go picks among
  ready cases at random and the ticker fires again and again.
* `Realtime`: only weak fairness. A handler with a message ready and nothing else
  to do forwards it; Go picks among the ready cases of a select at random, so a
  case that stays ready is taken. A read of a connection that was closed fails.
  Writing an event is assumed to return: there is no write deadline in
  `admin_realtime.go`, so a browser that stops reading without closing can hold
  its own handler.
* `SshConn`: the handshake has a deadline of 60 seconds, and the session timer
  (`SSHMaxSessionMinutes`, validated to be at least 1) closes the connection:
  `HandshakeError` and `CloseNet` are weakly fair. A `sync.Mutex` hands itself to
  waiters (strong fairness of the lock actions). Commands that do not block
  themselves end. What a closed connection had buffered is finite, so the
  goroutine gets to the end of its input (`EndWorker` after the close). Nothing
  is assumed of clients: they need not connect, authenticate, type or leave.
* `VirtualHost`: the mutex passes to a waiter (strong fairness of `Lock`); what is
  done under it ends, a command line because of its budgets, an SCP upload because
  the 180 second read deadline and the session limit cut it off (`ScpCut`). No
  client is obliged to send anything.
* `WebSession` states no liveness: a request takes a bounded number of steps and
  only ever waits for a stripe, so `NoStandstill` is what its progress rests on.
  It is a safety property and is proved.

## 4. Proofs

`WebSessionProofs`, for any sets of requests, addresses, targets and user agents,
any assignment of stripes, any limits (`WebAssumption`):

* `Invariance`: `IInv` is inductive. The properties are not inductive by
  themselves: that a counter is right after `UpsertSession` depends on the copy
  being the latest since the refresh (`CopyCurrent`), which depends on the
  session stripe being held (`LocksHeld`) and on the copy being of a stored
  session or a new one (`CopiesStored`, `CopyIds`); that a replayed session is
  right depends on the log being ordered and on the store never being behind it
  (`StoreCurrent`); that the index survives replay depends on a session id
  having the target of the request that minted it, if that had one (`TargetKept` in
  `StoredIds`, `LoggedIds`, `CopyIds`), although the refresh overwrites targets.
* `TypeCorrect`, `NoRequestLost`, `LogIsOrdered`, `IndexIsSound`,
  `ConvictionSticks`, `NoTwins` follow from it.
* `SlotsKept`: a second, small induction, by the cardinality of the requests in
  flight.
* `NeverStuck`: an induction on `LocksOwned` (a stripe that is taken is held by a
  worker past that lock), from which `NoStandstill` follows by the order of the
  two stripes.

`RealtimeProofs`, for any clients and capacities (`RealtimeAssumption`):

* `Invariance`: a message may be shown only if everything in front of it in the
  channel was, so the invariant describes the whole channel
  (`StreamContinues`), with the flag `missed` telling whether the last event is
  its end. `TypeCorrect`, `StreamIsContinued` and `SubscribersBounded` follow.
* `LiveStreamImplements`: `Spec => Feed!Spec`, step by step from the invariant.

`EventLogProofs`, for any records, files, retention period, failed operations,
crashes and power failures (`LogAssumption`):

* `LogInv` is inductive. `AcceptedKept` and `NoHoles` need it because a rewrite
  works on what the file held when it was copied: no stamp is of the future
  (`LabelsOK`) and the cutoff of a sweep is one that has passed (`SweepOK`), so what
  a cutoff takes has expired, wherever in the file it is; a file holds only its own
  records and what is synced is on disk (`FilesOK`); while the process runs a tail is never an
  accepted record (`TailsOK`), and each tail, and each record that was glued to one,
  stands for a failed write (`GluedOK`). `UpClosed` (everything accepted after a
  record that the file holds is there too or has expired) is the inductive form of `NoHoles`,
  `Accepted` that of `AcceptedKept`.
* `TypeCorrect`, `AcceptedStays`, `FilesHaveNoHoles` follow; `SyncedKept` is the
  action property `SyncedStays`, from the same invariant. This proof showed that
  `lost` counted records that a sweep had removed in an unsynced rewrite, which the
  run with one crash could not tell; the model was corrected and the run has two.

`SshAuthProofs`, for any connections, sources, accounts, passwords, pool sizes and
limits (`AuthAssumption`):

* `BaseInv`: each decision in flight is typed, pools and bindings are within their
  limits and not ahead of the clock, in memory and in the file (`TypeCorrect`,
  `CredentialStateBounded`).
* `RecentSlotsKept`: `SlotsSeen`, that a decision's slot was seen no earlier than
  the decision found or made it. Another decision may evict a slot only if it has
  been idle for `RotateAfter`, hence not this one.
* `BindingsStick`: an action property of every step from `BaseInv`.

`SshConnProofs`, for any connections, sources, limits and panic sites
(`ConnAssumption`):

* `SlotsKept`, `LimitsHold` (`SlotInv`): each counter is the cardinality of the set
  of connections at the stages it counts; a step moves one connection and changes
  each counter as it changes the set.
* `WorldsShared` (`WorldInv`): a connection that is up knows the world in the map,
  or its world was evicted; the map stays within its bound because an entry is made
  only after dropping one.
* `LiveListKept`, `CommandsExclude` (`WorkInv`): a worker runs only on a connection
  that was up, and a command of a shell or an exec request only under the mutex of
  its world. Of two commands that run in a world at once, one was given to vim by
  `:!`.

`AdminServerProofs`, for any browsers, consoles, hosts, technologies, profiles and
peers (`AdminAssumption`, `RealityAssumption`, `PeersAssumption`):

* `AdminInv` is a conjunction over the parts the server composes. `StepParts` shows
  that every step of `Next` is a step or a stutter of each part (`PeersStep`,
  `RealityStep`, `ConsoleStep`, `SessionStep`, `LimitsStep`), and each part's
  invariant is preserved by its own steps.
* `ClaimsHold` rests on the lock of a reality being taken with the claim, so that
  later resolves are compatible with it; `SettingsKept` on the rollback of a failed
  write; `PeersKept` on the marks of the throttle never being ahead of the file
  (`MarksOK`); `ConsoleKept` on both counters being cardinalities; `SessionsStay` on
  the eviction being of the session that ends first. `TypeCorrect` is the type
  invariant of all three modules.

`DerivedStateProofs`, for any scenes, sessions and limits (`DerivedAssumption`):

* `HighlightsStay` and `PeakStaysReal`, the action properties `HighlightsKept` and
  `PeakIsReal`. `DerivedInv`: every session has its highlight state, with numbers
  where numbers are added (`TablesMatch`); a session that is active in the table
  belongs to a connection that is open or that went without the store knowing
  (`ActiveOpen`, `ghosts`); a highlight that was shown is in the history or *stands*: it
  scores on its stored signals alone, or has passed the limit of commands
  (`SeenStand`). Standing is what survives: the signal that scoring finds may lapse
  when the session goes on, but listing the highlights has written it back.
* `TablesAlwaysMatch`: `DerivedInv` holds after every start too. A start is a fold of
  the logs, so this takes an induction over the rows, done as described below, and
  `FilesInv`: the logs on disk and in `kept` are sequences of well-formed records of
  their kind, which sweeps and cleanups only shorten.
* `BudgetKept`: `WithinBudget` holds for the logs of every state, for records of any
  sizes. The total: a turn keeps no more than it takes off what is left of the
  target (`KeptWithin`); the byte that a file is forced to be given may overdraw the
  target, but no record fits in it. The shares: `Owes(T, S, t, r, c)` says that
  the target left, t, is but for c bytes the exact part of the bytes left, r.
  Rounding favours the later files and only a forced byte raises c; the third file
  can find two of them taken, and then its exact part is small enough
  (`SharesOfThree`). The suffixes and the record that the cut goes through come from
  the running sums (`Ends`) being increasing.
* `FieldsReplay`: at every moment the seventeen fields of `Rebuilt` in memory equal
  those of `Load(kept)`. This is the first conjunct of `Faithful` in
  `ReplayFaithful`, here without the latter's bound on the number of sessions. Events
  arrive interleaved and are replayed log by log, so the two sides never take the
  same steps. The invariant `Replayed` therefore compares both with what each log
  gives by itself: ten fields depend on one log only (`HttpLike`, `SSHLike`: every
  other event leaves them alone and its own acts on them as if alone), and the
  profile's sums are the *join* of the two (`Joined`: union of protocols, maximum of
  risk and depth, the stronger class, the sum of the engagement, each protocol's own
  wall and last times). An event of one protocol moves both joins alike
  (`JoinStep`), which needs that maximum and `strongerClassification` may be
  regrouped; a replay ends in such a join (`LoadIsJoined`); and a join is
  determined by its parts (`JoinedOnce`).
* The attempt to prove the earlier form of `HighlightsKept` (a shown highlight
  stays, without exception) failed on the score's step at ten commands, which the
  run's sessions did not reach (section 6).

`SessionEvidenceProofs`, for any sessions, web workers, scripts, retention period and
windows (`EvidenceAssumption`):

* `EvidenceInvariant`: `EvidenceInv` is inductive. A transcript is judged by
  counters and by its first and last moment, and a view reads the files after it
  released the lock, so the invariant says why these are enough: stamps and places are
  unique over rings, files and the records that are stamped and not yet stored
  (`TodoOK`, `LogsOK`); what retention has not taken is in the file (`StoredOK`); what
  the ring has of a session are the records it stored last (`Suffix`, by places, not
  by stamps); a session that was not removed began no later than its first record
  (`FirstOK`), also after a restart; and between its two
  reads a view has every due record that is not older than a row it has
  (`ViewOK`). `TranscriptsWhole` is `TranscriptWhole`. The first moment of a session is that of
  its earliest stamp, the ring drops the lowest place: only where one record is first
  by both (`HasFirst`, its connect record) does having the first moment mean having
  everything.
* `TracesAreFound`: `TracesFound` in every state. `Ranks` shows that counting the
  earlier rows numbers a finite set of rows with different stamps from 0 without
  gaps, so `chronological` is a bijection onto the set and increasing
  (`ChronologicalIsOrdered`).
  `LatestFound`: a scan from the end of an ordered sequence that stops at rows which
  are too old finds the latest row that fits. Each of the three searches is an
  instance; what remains is that no trace of one kind counts as another, and the
  order in which a trace shows its two ends (`CanarySeen`, `CausesBefore`).

Induction over data. The library's induction theorems take an operator as a
parameter, which the installed provers cannot instantiate. Where a proof needs one
(the loads and the cleanup) it is by the least counterexample: `UpTo` says that a
*set* that has 0 and is closed under successor below n holds 0 .. n, by
well-foundedness of `<` on the natural numbers (`WFMin`), and each use gives the set
of the numbers of rows up to which the claim holds. That a recursive function obeys
its equation rests on a function that does, built one argument at a time by the
same induction (`LoadRun`, `Iteration`).

Only model-checked:

* All liveness properties: they need fairness and `ENABLED`.
* Of `ReplayFaithful`, the counters, fingerprints, the peak and the actor, first and
  last moment and the timelines: `TablesMatch` and the fields of `Rebuilt` are
  proved. These parts depend on events of both protocols, on counters capped by
  arrival, and on sessions open at the same time, with exceptions that compare
  histories; each would need a join of its own.
* `QuotaKept`, `ImmutableKept`, `JobsExclusive` and `RelationSound`
  (`VirtualHost`): `VirtualShell` interprets syntax trees with `RECURSIVE`
  operators, which the prover does not accept.

## 5. What disagrees with the documentation

Shown by a run of its own:

* **A session goroutine waits for itself** (`trap_ssh_extra.go:33`,
  `SECURITY.md:28`): `applyCompoundCredentialState` locks the mutex `Execute`'s
  caller holds. The source's later sessions wait behind it. A recovered panic in
  an interactive command leaves the same mutex locked (`trap_ssh.go:528`), so
  `SessionsEnd` is checked with panics in exec commands and in the connection
  only.

Stated in a module, and refuted when the run of that module is changed as described:

* **Promotion is undone** (`trap.go:335`, `docs/SCORING.md:66`): the worker's copy
  overwrites what `PromoteHTTPAutomation` wrote. To see it, add `PromotionKept` to the
  invariants of `WebSession.cfg` and `"boost"` to its `Evidence`, which the run leaves
  out to keep its state space small: a second request of a session, whose actor-wide
  evidence promotes its own stored session while its own score stays below 65, writes
  back a copy that was not promoted. A promotion by another worker between the refresh
  and the upsert is undone in the same way.

Met while translating:

* **A cause later than its effect** (`attack_traces.go:179`, the comment at 169):
  `recordSSHCommand` stamps the command before its canary signal and the search
  goes by the signal, so a web response served in between becomes the confirmed
  cause of the command before it. `ShownInOrder`, a part of `TracesFound`, requires
  of every trace that its cause comes first and excepts this one case, by less than
  the five seconds the command is searched in; without its second disjunct TLC
  finds the case in `session_evidence`.
* **A claim is judged without a comparison** (`trap.go:168`, `docs/SCORING.md:64`):
  `Verify` and `HasProvider` are separate critical sections; when the first lists
  of a provider arrive in between, a genuine crawler is called spoofed.

## 6. Limits of the code the properties except

Each is in the model and is the reason for an exception in a property, or was met
while translating and is left as it is.

Logs and credentials
* A failed Close leaves a closed file in the store (`retention.go:240`): every
  later sweep fails on it and never reaches the files behind it. `ExpiredRemoved`
  is checked without that failure.
* Status and binding of a password are separate critical sections and the result
  of the binding is ignored (`trap_ssh_auth_policy.go:91`), so two attempts of a
  source that race may both be accepted with different passwords. `BindingSticks`
  speaks of the binding, not of the answers.

SSH sessions and the virtual host
* A shell request handled after the disconnect, a recovered panic of the
  connection and an event that cannot be written leave a session in the live list
  (`LiveListTruthful`).
* Editors, `top` and `recordSSHCommand` use the shared maps without the mutex:
  the quotas may be exceeded by one file per session (`QuotaKept`, `raced`), an
  editor that checked before a file became immutable still stores it
  (`ImmutableKept`), and the runtime may end the process (`Fatal`).
* A background job can belong to two shells in two ways, which `JobsExclusive`
  excepts: vim's `:!` looks at a process's job number and assigns one without the
  mutex (`trap_ssh_process.go:90`, `grabbed`), and a recognised clean-up line, which
  kills only what uses much of the CPU, finds the process of a service alive and
  numbers it for its own session (`trap_ssh_resource_reality.go:85`, `quiet`).
* Evidence is recorded after the mutex was released, so two sessions' records may
  be in the other order than their effects. A `cat >` that failed for the quota is
  still recorded as a staged payload.
* `pkill` in one session forgets that session's own job of the same number;
  `gzip` removes the original although its result could not be stored; `mv`, SFTP
  removal and the cleanup of resources ignore the immutable flag; renaming a file
  onto itself by SFTP removes it; an emptied host is seeded again at the next
  login; an SFTP offset of 2^63 or more ends in a recovered panic
  (`SftpWriteNegative`).
* A host's mutex is held through a whole SCP transfer.

Settings and administration
* A host that is not trusted resolves to a blank reality even when its state is
  locked. A save of the administrator between a request's resolve and its commit
  can leave a served claim uncommitted (`ClaimsAgree` speaks of claims that were
  committed). `ObserveTargetReality` ignores failed writes, a reset has no
  rollback, and states grow with every host that is asked for.
* A row that a failed check created has no trust and is never promoted; a failed
  check marks its row as saved even when the write failed.
* The settings are replaced as whole lists: two administrators overwrite each
  other. A WebSocket is not checked again after a sign-out. The console has no
  deadline after its handshake. No file is synced before it is renamed.

Derived state
* After a restart the sessions of earlier lives whose end is not in the log count
  as concurrent (`ssh.go:21`): `carried` in `ReplayFaithful`.
* What `HTTPBehavior` concludes without an event, and the "scripted-recon" signal
  which listing highlights writes into the shared map under a read lock
  (`ssh_highlights.go:198`), are lost at a restart; the latter is also a data
  race.
* A full timeline keeps its SSH rows after a restart and drops newer HTTP rows,
  because the SSH log is read last; `ReplayFaithful` compares timelines that are
  not full. The behaviour summary keeps the 24 names that came first
  (`actors.go:103`), which are others after a start. A source's country becomes that of its last SSH event.
* Ten commands of a session count 20 points and eleven count 18
  (`ssh_highlights.go:207`), so a session that is listed as a highlight with 50 or
  51 points vanishes from the list with its eleventh command, and is not kept in
  the history when it is pruned then: `NearTheEdge` in `HighlightsKept`.
* A session whose end could not be logged, whose connection ended by a recovered
  panic, or whose shell was recorded after the disconnect stays open in the store
  until the next start and raises the peak (`ghosts` in `PeakIsReal`). Sessions are pruned to `maxSessions - 1000`
  while the process runs and above `maxSessions + 1000` during replay, so replay
  is compared up to `maxSessions` sessions.

Views
* A session rebuilt from a log that retention has cut is compared with itself and
  called "retained"; "partial" is left for files that cannot be read or have no
  row of it. After a restart the session in memory is such a one as well
  (`ssh.go:34`), and is called complete from memory. `TranscriptWhole` therefore
  speaks of what retention has left, or had left when the process started.
* The goroutines of a session store rows out of the order of their stamps. If the
  row with the earliest stamp is not the first in the ring, which takes a session
  without its connect record, the ring can lose a row that the completeness test does
  not miss (`HasFirst`).
* A session that is pruned from memory and goes on starts anew there, and its
  later rows alone are called complete (`resumed`).
* An upload whose record is stored between the two halves of a view can give one
  execution two causes, one from each half.
* `ScanBursts` stops at the first quiet group, in the order of creation, so an
  older group that is still active is split.

## 7. Not modelled, and the plan

The inventory is covered but for the following.

* `AssessAt`'s score of one request and the classification of its path: a table of
  patterns and weights without state. The models take the outcome as an input, and
  `ActorEvidence` has what behaviour adds to it.
* The tables of response text, lures and probes, and the text that commands print.
* Bot verification: address ranges fetched over the network by one goroutine and
  replaced as a whole; the verdict is an input.
* More than one session channel per SSH connection; packages and users a virtual
  session believes in; the choice of candidates by hash in the credential policy.
* Bursts, cross-protocol observations, IP intelligence and exports: views computed
  from the rings under `store.mu` that keep nothing.
* The geo database, the terminal view and the support export (presentation and
  pure I/O); configuration parsing (sequential; its validated limits are the
  constants of the modules).

Next, as far as the prover goes: the remaining parts of `ReplayFaithful`, beginning
with the first and last moment (a join by minimum and maximum of all three logs),
and the mutex of `VirtualHost` on its own, apart from the interpreter.
