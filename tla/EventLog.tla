------------------------------ MODULE EventLog ------------------------------
(***************************************************************************)
(* The three append-only JSONL files of the store (events, ssh-events,     *)
(* intel-events): AddEvent and its twins, the retention goroutine that     *)
(* rewrites the files while the process runs (internal/store/retention.go, *)
(* durability.go), Close, and the recovery of NewWithRetention             *)
(* (internal/store/store.go).                                              *)
(*                                                                         *)
(* Every operation holds store.mu, so operations do not interleave; the    *)
(* process can die, and the power can fail, between any two file           *)
(* operations of a rewrite, and each file operation can fail.              *)
(*                                                                         *)
(* A file is the set of its complete records plus its tail: what a failed  *)
(* write left after the last newline.  Lines that do not parse are skipped *)
(* by every reader and are left out.                                       *)
(***************************************************************************)
EXTENDS Integers, FiniteSets

CONSTANTS
  Events,      \* the records that are logged, each once
  NFiles,      \* the files, in the order the retention sweep visits them
  Retention,   \* retentionDays, in clock units
  Critical,    \* storagePressureCritBytes, in records
  FaultKinds,  \* the file operations that may fail
  MaxFaults,   \* bound on failed file operations
  MaxCrashes,  \* bound on crashes and power failures
  MaxTime,     \* bound on the clock
  Clean, Garbage \* tails: nothing, or a piece that does not parse

Files == 1..NFiles
Tails == Events \cup {Clean, Garbage}
AllFaults == {"write", "sync", "close", "copy", "rename", "reopen"}

ASSUME LogAssumption ==
  /\ NFiles \in Nat \ {0} /\ Retention \in Nat /\ Critical \in Nat
  /\ MaxFaults \in Nat /\ MaxCrashes \in Nat /\ MaxTime \in Nat
  /\ FaultKinds \subseteq AllFaults
  /\ Clean \notin Events /\ Garbage \notin Events /\ Clean # Garbage

VARIABLES
  clock,
  proc,     \* the process: down, up, closing (Close waits), closed
  started,  \* when it was started, 0 while it is down
  handle,   \* the *os.File of each file: open, nil, or dead (not nil, but closed)
  disk,     \* complete records of each file
  tail,     \* what follows its last newline
  synced,   \* records a power failure cannot take
  home, stamp, pos, \* file, time and position of each record
  sweep,    \* the retention goroutine
  faults, crashes,
  \* history
  used,     \* records handed to AddEvent
  acked,    \* records AddEvent accepted
  unlogged, \* accepted while the file was not open
  glued,    \* accepted but written onto the tail of a failed write
  pressed,  \* files that storage pressure has shortened
  lost      \* taken by a power failure

files == <<disk, tail, synced>>
labels == <<home, stamp, pos>>
history == <<used, acked, unlogged, glued, pressed, lost>>
vars == <<clock, proc, started, handle, files, labels, sweep, faults, crashes, history>>

\* The retention goroutine waits in its select, works on one file, or has left.
Idle == [at |-> "select", mode |-> "retention", file |-> 1, cutoff |-> 0]
Busy == sweep.at \in {"begin", "closed", "copied", "renamed"}
Left == [Idle EXCEPT !.at = "done"]

\* Running: the process is there to execute store methods, and no sweep holds mu.
Running == proc # "down" /\ ~Busy

Fails(kind) == kind \in FaultKinds /\ faults < MaxFaults /\ faults' = faults + 1
Works == UNCHANGED faults

Init ==
  /\ clock = 0 /\ proc = "down" /\ started = 0
  /\ handle = [f \in Files |-> "nil"]
  /\ disk = [f \in Files |-> {}] /\ tail = [f \in Files |-> Clean]
  /\ synced = [f \in Files |-> {}]
  /\ home = [e \in Events |-> 1] /\ stamp = [e \in Events |-> 0]
  /\ pos = [e \in Events |-> 0]
  /\ sweep = Left /\ faults = 0 /\ crashes = 0
  /\ used = {} /\ acked = {} /\ unlogged = {} /\ glued = {} /\ pressed = {} /\ lost = {}

Tick ==
  /\ clock < MaxTime /\ clock' = clock + 1
  /\ UNCHANGED <<proc, started, handle, files, labels, sweep, faults, crashes, history>>

----------------------------------------------------------------------------
(* AddEvent, AddSSHEvent, AddIntelSignal *)

\* e is written to f.  Its stamp is the time its request or its command arrived,
\* read before any lock was taken, so the order of the stamps need not be the
\* order in which the records are written, pos.
Label(f, e) ==
  /\ used' = used \cup {e}
  /\ home' = [home EXCEPT ![e] = f]
  /\ \E at \in started..clock : stamp' = [stamp EXCEPT ![e] = at]
  /\ pos' = [pos EXCEPT ![e] = Cardinality(used) + 1]

\* With a nil handle the record lives in memory only.
AddUnlogged(f, e) ==
  /\ Running /\ e \notin used /\ handle[f] = "nil"
  /\ Label(f, e) /\ acked' = acked \cup {e}
  /\ unlogged' = unlogged \cup {e}
  /\ UNCHANGED <<clock, started, proc, handle, files, sweep, faults, crashes, glued, pressed, lost>>

\* The record and its newline are written.  After a failed write they continue
\* its tail, and the line that results does not parse.
AddWritten(f, e) ==
  /\ Running /\ e \notin used /\ handle[f] = "open"
  /\ Label(f, e) /\ acked' = acked \cup {e}
  /\ IF tail[f] = Clean
     THEN /\ disk' = [disk EXCEPT ![f] = @ \cup {e}] /\ UNCHANGED glued
     ELSE /\ glued' = glued \cup {e} /\ UNCHANGED disk
  /\ tail' = [tail EXCEPT ![f] = Clean]
  /\ UNCHANGED <<clock, started, proc, handle, synced, sweep, faults, crashes, unlogged, pressed, lost>>

\* The write fails after none, a part, or all but the newline of the record.
AddFailed(f, e) ==
  /\ Running /\ e \notin used
  /\ Label(f, e)
  /\ \/ /\ handle[f] = "dead" /\ Works /\ UNCHANGED tail
     \/ /\ handle[f] = "open" /\ Fails("write")
        /\ \E left \in {tail[f], Garbage} \cup (IF tail[f] = Clean THEN {e} ELSE {}) :
             tail' = [tail EXCEPT ![f] = left]
  /\ UNCHANGED <<clock, started, proc, handle, disk, synced, sweep, crashes,
                 acked, unlogged, glued, pressed, lost>>

----------------------------------------------------------------------------
(* retentionLoop: every case of its select *)

\* syncEventFiles; a dead or failing file does not stop the others.
SyncFiles ==
  /\ proc # "down" /\ sweep.at = "select"
  /\ \E bad \in SUBSET {f \in Files : handle[f] = "open"} :
       /\ IF bad = {} THEN Works ELSE Fails("sync")
       /\ synced' = [f \in Files |-> IF handle[f] = "open" /\ f \notin bad
                                     THEN disk[f] ELSE synced[f]]
  /\ UNCHANGED <<clock, started, proc, handle, disk, tail, labels, sweep, crashes, history>>

StartSweep ==
  /\ proc # "down" /\ sweep.at = "select"
  /\ sweep' = [at |-> "begin", mode |-> "retention", file |-> 1,
               cutoff |-> clock - Retention]
  /\ UNCHANGED <<clock, started, proc, handle, files, labels, faults, crashes, history>>

\* A mutant: the goroutine leaves only after the files were closed.
StopSweepLate ==
  /\ proc = "closed" /\ sweep.at = "select"
  /\ sweep' = Left
  /\ UNCHANGED <<clock, started, proc, handle, files, labels, faults, crashes, history>>

StopSweep ==
  /\ proc = "closing" /\ sweep.at = "select"
  /\ sweep' = Left
  /\ UNCHANGED <<clock, started, proc, handle, files, labels, faults, crashes, history>>

----------------------------------------------------------------------------
(* compactJSONL and compactJSONLTail, one file operation after the other *)

Abort == sweep' = Idle

\* A mutant: a file that is not open ends the sweep.
CloseActiveNeedsFile ==
  LET f == sweep.file IN
  /\ sweep.at = "begin" /\ Works
  /\ IF handle[f] = "open"
     THEN /\ handle' = [handle EXCEPT ![f] = "nil"]
          /\ synced' = [synced EXCEPT ![f] = disk[f]]
          /\ sweep' = [sweep EXCEPT !.at = "closed"]
     ELSE Abort /\ UNCHANGED <<handle, synced>>
  /\ UNCHANGED <<clock, started, proc, disk, tail, labels, crashes, history>>

\* The active file is synced and closed.  A failure ends the whole sweep, and a
\* failed Close leaves a handle that is not nil and can no longer be written.
CloseActive ==
  LET f == sweep.file IN
  /\ sweep.at = "begin"
  /\ \/ /\ handle[f] = "nil" /\ Works
        /\ sweep' = [sweep EXCEPT !.at = "closed"]
        /\ UNCHANGED <<handle, synced>>
     \/ /\ handle[f] = "dead" /\ Works /\ Abort
        /\ UNCHANGED <<handle, synced>>
     \/ /\ handle[f] = "open" /\ Fails("sync") /\ Abort
        /\ UNCHANGED <<handle, synced>>
     \/ /\ handle[f] = "open" /\ Fails("close") /\ Abort
        /\ handle' = [handle EXCEPT ![f] = "dead"]
        /\ synced' = [synced EXCEPT ![f] = disk[f]]
     \/ /\ handle[f] = "open" /\ Works
        /\ handle' = [handle EXCEPT ![f] = "nil"]
        /\ synced' = [synced EXCEPT ![f] = disk[f]]
        /\ sweep' = [sweep EXCEPT !.at = "closed"]
  /\ UNCHANGED <<clock, started, proc, disk, tail, labels, crashes, history>>

\* Every failure after that reopens the file and ends the sweep.  The reopening
\* may fail as well, and then the handle stays nil.
ReopenAndAbort ==
  /\ Abort
  /\ \/ handle' = [handle EXCEPT ![sweep.file] = "open"]
     \/ "reopen" \in FaultKinds /\ UNCHANGED handle

\* The kept records go to a temporary file, which is synced and closed.
CopyKept ==
  /\ sweep.at = "closed"
  /\ \/ Works /\ sweep' = [sweep EXCEPT !.at = "copied"] /\ UNCHANGED handle
     \/ Fails("copy") /\ ReopenAndAbort
  /\ UNCHANGED <<clock, started, proc, files, labels, crashes, history>>

Parsed(f) == disk[f] \cup ({tail[f]} \cap Events)
Held == UNION {Parsed(f) : f \in Files}

\* Mutants: the record at the cutoff goes; records stay a day longer; pressure
\* drops the largest records, wherever they are.
KeptStrict(f, cutoff) == {e \in Parsed(f) : stamp[e] > cutoff}
KeptDayLonger(f, cutoff) == {e \in Parsed(f) : stamp[e] >= cutoff - 1}
Smallest(S) == SUBSET S

\* What a rewrite of f keeps: retention exactly the records not before the
\* cutoff, storage pressure the newest ones (how many, StorageBudget says).
Kept(f, cutoff) == {e \in Parsed(f) : stamp[e] >= cutoff}
Newest(S) == {K \in SUBSET S : \A e \in K, d \in S \ K : pos[d] < pos[e]}
Rewrites(f) ==
  IF sweep.mode = "retention" THEN {Kept(f, sweep.cutoff)} ELSE Newest(disk[f])

\* A mutant: the temporary file is renamed without having been synced.
InstallUnsynced(f, K) ==
  /\ disk' = [disk EXCEPT ![f] = K]
  /\ synced' = [synced EXCEPT ![f] = {}]
  /\ tail' = [tail EXCEPT ![f] = Clean]

Install(f, K) ==
  /\ disk' = [disk EXCEPT ![f] = K]
  /\ synced' = [synced EXCEPT ![f] = K]
  /\ tail' = [tail EXCEPT ![f] = Clean]

\* os.Rename replaces the file by complete, synced lines.  (The pressure pass
\* copies bytes, but it follows a retention pass that has just left no tail.)
RenameOver ==
  LET f == sweep.file IN
  /\ sweep.at = "copied"
  /\ \/ /\ Works
        /\ \E K \in Rewrites(f) : Install(f, K)
        /\ pressed' = IF sweep.mode = "pressure" THEN pressed \cup {f} ELSE pressed
        /\ sweep' = [sweep EXCEPT !.at = "renamed"]
        /\ UNCHANGED handle
     \/ /\ Fails("rename") /\ ReopenAndAbort
        /\ UNCHANGED <<files, pressed>>
  /\ UNCHANGED <<clock, started, proc, labels, crashes, used, acked, unlogged, glued, lost>>

\* The next file, the pressure pass when the files are still too large, or done.
NextFile ==
  IF sweep.file < NFiles
  THEN [sweep EXCEPT !.at = "begin", !.file = @ + 1]
  ELSE IF sweep.mode = "retention" /\ Cardinality(UNION {disk[f] : f \in Files}) >= Critical
       THEN [sweep EXCEPT !.at = "begin", !.file = 1, !.mode = "pressure"]
       ELSE Idle

ReopenActive ==
  /\ sweep.at = "renamed"
  /\ \/ /\ Works /\ sweep' = NextFile
        /\ handle' = [handle EXCEPT ![sweep.file] = "open"]
     \/ /\ Fails("reopen") /\ Abort /\ UNCHANGED handle
  /\ UNCHANGED <<clock, started, proc, files, labels, crashes, history>>

----------------------------------------------------------------------------
(* Close, crashes and recovery *)

\* Close closes retentionStop, waits for the goroutine, then closes the files.
BeginClose ==
  /\ proc = "up" /\ proc' = "closing"
  /\ UNCHANGED <<clock, started, handle, files, labels, sweep, faults, crashes, history>>

EndClose ==
  /\ proc = "closing" /\ sweep.at = "done"
  /\ proc' = "closed"
  /\ handle' = [f \in Files |-> IF handle[f] = "nil" THEN "nil" ELSE "dead"]
  /\ UNCHANGED <<clock, started, files, labels, sweep, faults, crashes, history>>

Gone ==
  /\ proc' = "down" /\ started' = 0 /\ sweep' = Left
  /\ handle' = [f \in Files |-> "nil"]

Exit ==
  /\ proc = "closed" /\ Gone
  /\ UNCHANGED <<clock, files, labels, faults, crashes, history>>

\* The process dies; what was written stays with the operating system.
Crash ==
  /\ proc # "down" /\ crashes < MaxCrashes /\ crashes' = crashes + 1
  /\ Gone
  /\ UNCHANGED <<clock, files, labels, faults, history>>

\* A power failure also takes a suffix of the records that were not synced; the
\* first of them may survive in part or without its newline.
PowerFailure ==
  /\ crashes < MaxCrashes /\ crashes' = crashes + 1
  /\ Gone
  /\ \E K \in [Files -> SUBSET Events] :
       /\ \A f \in Files : K[f] \in Newest(disk[f]) /\ K[f] \cap synced[f] = {}
       /\ disk' = [f \in Files |-> disk[f] \ K[f]]
       /\ tail' \in [Files -> Tails]
       /\ \A f \in Files :
            \/ tail'[f] \in {Clean, Garbage}
            \/ K[f] = {} /\ tail'[f] = tail[f]
            \/ tail'[f] \in K[f] /\ \A e \in K[f] : pos[tail'[f]] <= pos[e]
  /\ lost' = lost \cup (Held \ Held')
  /\ UNCHANGED <<clock, synced, labels, faults, used, acked, unlogged, glued, pressed>>

\* NewWithRetention prunes the files in order before it loads them, and shortens
\* them when they are still too large.
Replace(new) ==
  /\ disk' = [f \in Files |-> IF f \in DOMAIN new THEN new[f] ELSE disk[f]]
  /\ synced' = [f \in Files |-> IF f \in DOMAIN new THEN new[f] ELSE synced[f]]
  /\ tail' = [f \in Files |-> IF f \in DOMAIN new THEN Clean ELSE tail[f]]

Pruned(upto) == [f \in 1..upto |-> Kept(f, clock - Retention)]
Records(content) == UNION {content[f] : f \in DOMAIN content}

Pressure == Cardinality(Records(Pruned(NFiles))) >= Critical

\* The first n files shortened, the others pruned only.
Shortened(n, new) ==
  \A f \in Files : new[f] \in IF f <= n THEN Newest(Pruned(NFiles)[f]) ELSE {Pruned(NFiles)[f]}

\* A failure or a crash ends the start with some of the files pruned or shortened.
StartFails ==
  /\ proc = "down" /\ Fails("copy")
  /\ \E n \in Files :
       \/ Replace(Pruned(n - 1)) /\ UNCHANGED pressed
       \/ /\ Pressure /\ pressed' = pressed \cup 1..n
          /\ \E new \in [Files -> SUBSET Events] : Shortened(n, new) /\ Replace(new)
  /\ UNCHANGED <<clock, started, proc, handle, labels, sweep, crashes, used, acked, unlogged, glued, lost>>

\* Then the files are loaded and opened for append.
Start ==
  /\ proc = "down"
  /\ \/ ~Pressure /\ Replace(Pruned(NFiles)) /\ UNCHANGED pressed
     \/ /\ Pressure /\ pressed' = Files
        /\ \E new \in [Files -> SUBSET Events] : Shortened(NFiles, new) /\ Replace(new)
  /\ proc' = "up" /\ started' = clock /\ sweep' = Idle
  /\ handle' = [f \in Files |-> "open"]
  /\ UNCHANGED <<clock, labels, faults, crashes, used, acked, unlogged, glued, lost>>

----------------------------------------------------------------------------
Sweep == CloseActive \/ CopyKept \/ RenameOver \/ ReopenActive
Add == \E f \in Files, e \in Events : AddUnlogged(f, e) \/ AddWritten(f, e) \/ AddFailed(f, e)

Next ==
  \/ Tick \/ Add \/ SyncFiles \/ StartSweep \/ StopSweep \/ Sweep
  \/ BeginClose \/ EndClose \/ Exit \/ Crash \/ PowerFailure \/ StartFails \/ Start

\* The retention goroutine keeps running: its ticker fires again and again, a
\* sweep that began goes on, and Close follows when the goroutine has left.
Fairness ==
  /\ SF_vars(StartSweep) /\ SF_vars(StopSweep) /\ WF_vars(Sweep) /\ WF_vars(EndClose)

Spec == Init /\ [][Next]_vars
FairSpec == Spec /\ Fairness

----------------------------------------------------------------------------
(* Properties *)

\* The type invariant.
TypeOK ==
  /\ clock \in Nat /\ started \in 0..clock /\ faults \in Nat /\ crashes \in Nat
  /\ proc \in {"down", "up", "closing", "closed"}
  /\ handle \in [Files -> {"open", "nil", "dead"}]
  /\ disk \in [Files -> SUBSET Events] /\ tail \in [Files -> Tails]
  /\ synced \in [Files -> SUBSET Events]
  /\ home \in [Events -> Files] /\ stamp \in [Events -> Nat] /\ pos \in [Events -> Nat]
  /\ sweep \in [at : {"select", "begin", "closed", "copied", "renamed", "done"},
                mode : {"retention", "pressure"}, file : Files, cutoff : Int]
  /\ used \subseteq Events /\ acked \subseteq used /\ unlogged \subseteq acked
  /\ glued \subseteq acked /\ lost \subseteq used /\ pressed \subseteq Files

Written(f) == {e \in acked \ (unlogged \cup glued) : home[e] = f}
Expired(e) == stamp[e] < clock - Retention

\* A record AddEvent wrote and accepted is in its file until it is older than
\* the retention period: no failed or interrupted rewrite, crash or restart
\* takes it.  Storage pressure and unsynced power failures are the exceptions,
\* and records written onto the tail of a failed write, one for each failure.
AcceptedKept ==
  /\ Cardinality(glued) <= faults
  /\ \A f \in Files : f \notin pressed =>
       \A e \in Written(f) \ lost : e \in Parsed(f) \/ Expired(e)

\* Pressure, failed rewrites, crashes and power failures shorten a file at its
\* ends only: of what was accepted between two records it holds, nothing is
\* missing but records older than the retention period.  Those may be gone from
\* the middle: a request that arrived early and was logged late is cut by its
\* own stamp (retention.go, line 293), not by its place in the file.
NoHoles ==
  \A f \in Files : \A a, c \in Parsed(f), b \in Written(f) \ lost :
    (pos[a] < pos[b] /\ pos[b] < pos[c]) => b \in Parsed(f) \/ Expired(b)

\* What syncEventFiles or a rewrite has made durable leaves the disk only by
\* retention or storage pressure.
SyncedStays ==
  [][\A f \in Files : \A e \in synced[f] :
       e \in synced'[f] \/ Expired(e) \/ f \in pressed']_vars

\* Close does return.
CloseReturns == proc = "closing" ~> proc # "closing"

\* "ZentLoop never retains the three persistent event logs beyond the 30-day
\* hard cap" (README.md, line 245): while the process runs, an expired record is
\* removed by some sweep.
ExpiredRemoved ==
  \A e \in Events :
    (proc = "up" /\ e \in disk[home[e]] /\ Expired(e)) ~>
      (proc # "up" \/ e \notin disk[home[e]])

\* A file that could not be reopened after a rewrite is opened by a later sweep:
\* the store does not stay memory-only.
LoggingResumes ==
  \A f \in Files :
    (proc = "up" /\ handle[f] = "nil") ~> (proc # "up" \/ handle[f] = "open")
=============================================================================
