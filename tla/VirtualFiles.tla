---------------------------- MODULE VirtualFiles ----------------------------
(***************************************************************************)
(* The state that all SSH sessions of one source share: the files and      *)
(* directories of the simulated host, its process table, its user services *)
(* and the record of the payloads that were staged on it                   *)
(* (virtualSSHSharedState in trap_ssh_shell.go).                           *)
(*                                                                         *)
(* The content of a file is abstracted to its length; two contents are the *)
(* same exactly when their lengths are, so a length also stands for the    *)
(* SHA-256 of a content.  A process id is the position of the process in   *)
(* the table: nextPID only ever grows.                                     *)
(***************************************************************************)
EXTENDS Naturals, Sequences, FiniteSets, FiniteSetsExt, Functions, TLC

CONSTANTS Paths,          \* the names of files
          Dirs,           \* the names of directories
          NoPath,         \* no file
          Base,           \* Base[p]: path.Base(p)
          Under,          \* Under[d]: the files below directory d
          StagingPaths,   \* the paths in /tmp, /var/tmp and /dev/shm
          TempDirs,       \* /tmp and /var/tmp
          Miners,         \* the base names of known miners
          SeedFiles,      \* the files seedFilesystem makes, with their sizes
          SeedDirs,
          Lures,          \* the files adaptToBehavior adds, with their sizes
          SystemFiles,    \* the files the server writes without asking quotas
          MaxFiles, MaxDirs, MaxFileBytes, MaxTotalBytes

Fresh == [files |-> SeedFiles, dirs |-> SeedDirs, exec |-> {}, immutable |-> {},
          procs |-> << >>, services |-> [enabled |-> FALSE, active |-> FALSE, pid |-> 0],
          staged |-> << >>, attempts |-> [p \in Paths |-> 0]]

Files(s) == DOMAIN s.files

Bytes(s) == MapThenSumSet(LAMBDA p : s.files[p], Files(s))

SizeOf(s, p) == IF p \in Files(s) THEN s.files[p] ELSE 0

limitVirtualContent(n) == IF n > MaxFileBytes THEN MaxFileBytes ELSE n

(* A mutant: the attribute is not asked for. *)
canStoreImmutable(s, p, n) ==
    /\ p \in Files(s) \/ Cardinality(Files(s)) < MaxFiles
    /\ Bytes(s) - SizeOf(s, p) + limitVirtualContent(n) <= MaxTotalBytes

(* The checks of setVirtualFile and appendVirtualFile, in their order.  The
   total is taken without the old content of the file.                     *)
canStore(s, p, n) ==
    /\ p \notin s.immutable
    /\ p \in Files(s) \/ Cardinality(Files(s)) < MaxFiles
    /\ Bytes(s) - SizeOf(s, p) + limitVirtualContent(n) <= MaxTotalBytes

setVirtualFile(s, p, n) ==
    IF canStore(s, p, n)
    THEN [s EXCEPT !.files = (p :> limitVirtualContent(n)) @@ @]
    ELSE s

appendVirtualFile(s, p, n) == setVirtualFile(s, p, SizeOf(s, p) + n)

(* Every process has a directory in /proc, which startVirtualProcess adds
   without asking for the quota.                                           *)
HasDirRoom(s, d) == d \in s.dirs \/ Cardinality(s.dirs) + Len(s.procs) < MaxDirs

setVirtualDir(s, d) ==
    IF HasDirRoom(s, d) THEN [s EXCEPT !.dirs = @ \cup {d}] ELSE s

deleteVirtualFile(s, p) ==
    [s EXCEPT !.files = Restrict(@, DOMAIN @ \ {p}),
              !.exec = @ \ {p}, !.immutable = @ \ {p}]

DeleteAll(s, ps) ==
    [s EXCEPT !.files = Restrict(@, DOMAIN @ \ ps),
              !.exec = @ \ ps, !.immutable = @ \ ps]

(* rm: the file itself, or the directory with what is below it that is not
   immutable.                                                              *)
removeVirtualPattern(s, p) ==
    IF p \in Paths
    THEN IF p \in s.immutable THEN s ELSE deleteVirtualFile(s, p)
    ELSE [DeleteAll(s, Under[p] \ s.immutable) EXCEPT !.dirs = @ \ {p}]

(* Files the server writes into the maps directly: the accounts of a user
   that logs in, a changed password, the deeper seed after a probe.  No
   quota is asked.                                                         *)
WriteDirect(s, fs) == [s EXCEPT !.files = fs @@ @]

seedDeepReality(s, fs) == WriteDirect(s, Restrict(fs, DOMAIN fs \ Files(s)))

(* The lures a session that shows an interest is given; each goes through
   setVirtualFile, failures are ignored and an edited lure is restored.    *)
SeedLures(s) ==
    FoldSet(LAMBDA p, t : setVirtualFile(t, p, Lures[p]), s, DOMAIN Lures)

(* Those of a recognised clean-up sequence are only added where missing. *)
seedMinerCleanupLures(s) ==
    FoldSet(LAMBDA p, t : setVirtualFile(t, p, Lures[p]), s, DOMAIN Lures \ Files(s))

---------------------------------------------------------------------------
(* Processes and user services *)

Alive(s) == {i \in DOMAIN s.procs : s.procs[i].alive}

startVirtualProcess(s, p, job, nohup) ==
    [s EXCEPT !.procs = Append(@, [path |-> p, job |-> job, nohup |-> nohup, alive |-> TRUE,
                                   quiet |-> FALSE, disowned |-> FALSE])]

Named(s, p) == {i \in Alive(s) : Base[s.procs[i].path] = Base[p]}

(* A payload of the same base name that still runs is not started again;
   the first word of a command started with nohup is nohup.                *)
PayloadPids(s, p) == {i \in Named(s, p) : ~ s.procs[i].nohup}

ensureVirtualPayloadProcess(s, p) ==
    IF PayloadPids(s, p) # {} THEN s ELSE startVirtualProcess(s, p, 0, FALSE)

PayloadPid(s, p) == Min(PayloadPids(s, p))

KillPids(s, pids) ==
    [s EXCEPT !.procs = [i \in DOMAIN @ |-> IF i \in pids THEN [@[i] EXCEPT !.alive = FALSE]
                                                         ELSE @[i]]]

(* The process of a service is one that runs already, if there is one of the
   name.  It takes less of the processor from now on than any other.       *)
startVirtualUserService(s, p) ==
    LET t == ensureVirtualPayloadProcess(s, p)
        pid == PayloadPid(t, p)
    IN  CASE s.services.active -> s
          [] ~ s.services.active /\ p \notin Files(s) -> [s EXCEPT !.services.active = TRUE]
          [] OTHER -> [t EXCEPT !.services.active = TRUE, !.services.pid = pid,
                                !.procs[pid] = [@ EXCEPT !.path = p, !.quiet = TRUE]]

stopVirtualUserService(s) ==
    [KillPids(s, {s.services.pid}) EXCEPT !.services.active = FALSE,
                                          !.services.pid = 0]

---------------------------------------------------------------------------
(* Staged payloads *)

(* A mutant: only what this session staged is compared. *)
RelationOwnOnly(own, s, p, n) ==
    CASE p \in DOMAIN own /\ own[p] = n -> "same-path-retry"
      [] p \in DOMAIN own -> "payload-replacement"
      [] \E q \in DOMAIN own : own[q] = n -> "payload-relocation"
      [] DOMAIN own # {} -> "companion-payload"
      [] OTHER -> "new-payload"

(* How an upload of content n to p relates to what this session (its own
   map of staged contents) and the source (the shared map) staged before.  *)
Relation(own, s, p, n) ==
    CASE p \in DOMAIN own /\ own[p] = n -> "same-path-retry"
      [] p \in DOMAIN own -> "payload-replacement"
      [] \E q \in DOMAIN own : own[q] = n -> "payload-relocation"
      [] DOMAIN own # {} -> "companion-payload"
      [] p \in DOMAIN s.staged /\ s.staged[p] = n -> "recurring-campaign-payload"
      [] \E q \in DOMAIN s.staged \ {p} : s.staged[q] = n -> "recurring-payload-relocation"
      [] OTHER -> "new-payload"

StageOf(relation) == IF relation = "same-path-retry" THEN "retry" ELSE "completed"

MarkStaged(s, p, n) ==
    [s EXCEPT !.staged = (p :> n) @@ @,
              !.attempts[p] = IF @ < 2 THEN @ + 1 ELSE @]
=============================================================================
