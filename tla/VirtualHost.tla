---------------------------- MODULE VirtualHost -----------------------------
(***************************************************************************)
(* The SSH sessions of one source on the simulated host they share         *)
(* (handleTrapSSHSession and runVirtualSSHShell in trap_ssh.go, the SFTP   *)
(* server, the SCP sink, the editors): which of their steps hold the mutex *)
(* of the shared state, which do not, and what they leave there.           *)
(*                                                                         *)
(* A job is what a client asks for: a command line of an interactive shell *)
(* or of an exec request, or an SCP upload.  Its fields cats and runs are  *)
(* the paths that the expressions of trap_ssh_intelligence.go find in its  *)
(* text (cats only if the input is a script or a program).  Taking the     *)
(* mutex and working under it are separate steps.  The command that takes  *)
(* the mutex twice is SshConn's and not among the lines here.              *)
(***************************************************************************)
EXTENDS VirtualShell

CONSTANTS Sessions, User,
          Scenes,       \* by name: the command lines each session may send (lines), and
                        \* how many requests the sessions make together (requests)
          Uploads,      \* the SCP and SFTP uploads: path and length
          Edits,        \* the lengths an edited buffer may get
          MaxJobs,      \* MaxJobs[s]: what session s may ask for (shell, exec, sftp),
                        \* with a bound on its requests
          NoOne, NoJob

VARIABLES
  host,         \* the shared state
  mutex,        \* who holds shared.mu
  pc, op,       \* where the session is; what it wants to do under the mutex
  kind,         \* what the channel was asked for: shell, exec, sftp
  se,           \* the session's own part of the world
  job, res,     \* the request, and the result of its execution
  buf,          \* the buffer of an editor, or of an open SFTP handle
  left,         \* requests each session, and all of them (NoOne), may still make
  scene,        \* its name; it stays
  deeds,        \* history: the uploads and executions noted, in order
  raced,        \* history: an editor stored on files that it had not checked
  grabbed,      \* history: the processes that became jobs without the mutex
  dead          \* the process ended in a fatal error of the runtime

state == <<host, mutex, pc, op, kind, se, job, res, buf, left, deeds, raced, grabbed, dead>>
vars == <<state, scene>>
mine == <<kind, se, job, res, buf, left>>
ghosts == <<deeds, raced, grabbed, dead>>

NoBuf == [path |-> NoPath, n |-> 0, write |-> FALSE, mod |-> FALSE]

Init ==
  /\ host = [Fresh EXCEPT !.files = << >>, !.dirs = {}]
  /\ mutex = NoOne
  /\ pc = [s \in Sessions |-> "new"] /\ op = [s \in Sessions |-> ""]
  /\ kind = [s \in Sessions |-> ""]
  /\ se = [s \in Sessions |-> NewSession(User)]
  /\ job = [s \in Sessions |-> NoJob] /\ res = [s \in Sessions |-> OK(0)]
  /\ buf = [s \in Sessions |-> NoBuf]
  /\ scene \in DOMAIN Scenes
  /\ left = [s \in Sessions |-> 0] @@ NoOne :> Scenes[scene].requests
  /\ deeds = << >> /\ raced = FALSE /\ grabbed = {} /\ dead = FALSE

Goto(s, p) == pc' = [pc EXCEPT ![s] = p]
Wants(s, o) == Goto(s, "wait") /\ op' = [op EXCEPT ![s] = o]
Set(f, s, v) == f' = [f EXCEPT ![s] = v]

\* The session goes on at p with its own state v; what it does not need any
\* more is forgotten.
Settle(s, p, v) ==
  /\ Goto(s, p) /\ Set(job, s, NoJob)
  /\ Set(res, s, IF p \in {"ready", "over"} THEN OK(0) ELSE res[s])
  /\ Set(se, s, IF p = "over" THEN NewSession(User) ELSE v)
  /\ Set(kind, s, IF p = "over" THEN "" ELSE kind[s])
  /\ Set(left, s, IF p = "over" THEN 0 ELSE left[s])

----------------------------------------------------------------------------
(* The mutex *)

\* The channel is opened; whether it will be asked for a shell, a command or
\* SFTP is the client's choice.
OpenSession(s) ==
  /\ pc[s] = "new" /\ ~ dead /\ Wants(s, "login")
  /\ \E k \in DOMAIN MaxJobs[s] : Set(kind, s, k) /\ Set(left, s, MaxJobs[s][k])
  /\ UNCHANGED <<host, mutex, se, job, res, buf, ghosts>>

Lock(s) ==
  /\ pc[s] = "wait" /\ mutex = NoOne /\ mutex' = s /\ Goto(s, "hold")
  /\ UNCHANGED <<host, op, mine, ghosts>>

Holds(s, o) == pc[s] = "hold" /\ op[s] = o

Unlock(s, p) == mutex' = NoOne /\ Goto(s, p) /\ Set(op, s, "")

\* newVirtualSSHWorldForSourceShared: a host without any file is seeded (again).
Login(s) ==
  LET seeded == [host EXCEPT !.files = SeedFiles @@ @, !.dirs = @ \cup SeedDirs]
  IN  /\ Holds(s, "login") /\ Unlock(s, "ready")
      /\ host' = WriteDirect(IF Files(host) = {} THEN seeded ELSE host, SystemFiles)
      /\ UNCHANGED <<mine, ghosts>>

----------------------------------------------------------------------------
(* Requests *)

Counted(s) ==
  /\ left[s] > 0 /\ left[NoOne] > 0
  /\ left' = [left EXCEPT ![s] = @ - 1, ![NoOne] = @ - 1]

Ready(s) == pc[s] = "ready" /\ Counted(s)

\* The command lines session s may send.
Lines(s) == Scenes[scene].lines[s]

\* A line is read and only then waits for the mutex; the input of an exec
\* request is read before, too.
Send(s) ==
  /\ Ready(s) /\ kind[s] \in {"shell", "exec"}
  /\ \E j \in Lines(s) : Set(job, s, j)
  /\ Wants(s, "line")
  /\ UNCHANGED <<host, mutex, kind, se, res, buf, ghosts>>

Remembered(s, t) ==
  LET new == {p \in DOMAIN t.staged : p \notin DOMAIN host.staged \/ host.staged[p] # t.staged[p]}
  IN  SetToSeq({[who |-> s, path |-> p, n |-> t.staged[p], rel |-> "", kept |-> TRUE] : p \in new})

Execute(s) ==
  /\ Holds(s, "line") /\ Unlock(s, "record")
  /\ \E g \in {exec([sh |-> host, se |-> se[s]], job[s].line,
                     IF kind[s] = "exec" THEN job[s].in ELSE 0)} :
       /\ host' = g.w.sh /\ Set(se, s, g.w.se) /\ Set(res, s, g.r)
       /\ deeds' = deeds \o Remembered(s, g.w.sh)
  /\ UNCHANGED <<kind, job, buf, left, raced, grabbed, dead>>

----------------------------------------------------------------------------
(* recordSSHCommand, after the mutex was released.  It reads and may write
   the record of staged payloads.                                          *)

Deed(s, p, n, rel, kept) == [who |-> s, path |-> p, n |-> n, rel |-> rel, kept |-> kept]

\* classifyVirtualPayloadStage forgets nothing: also an upload that then
\* cannot be stored counts as one of the session.
Own(s, p, n) == [se[s] EXCEPT !.own = (p :> n) @@ @]

\* observeImplicitPayloadStage: the input of `cat > p`, if executing the line
\* did not already say what became of it.
Implicit(s) ==
  /\ res[s].stage = "" /\ job[s].cats \in StagingPaths
  /\ kind[s] = "exec" /\ job[s].in > 0

\* confirmPreviouslyStagedExecution
Confirmed(s) ==
  /\ res[s].stage = "" /\ ~ Implicit(s) /\ job[s].runs \in DOMAIN host.staged

AfterRecord(s) ==
  CASE kind[s] = "sftp" -> "ready"
    [] kind[s] = "exec" -> "over"
    [] kind[s] = "shell" /\ res[s].mode \in {"vim", "nano", "crontab-edit", "top", "passwd"} ->
         res[s].mode
    [] OTHER -> IF res[s].exit THEN "over" ELSE "ready"

recordSSHCommand(s) ==
  /\ pc[s] = "record"
  /\ \/ /\ Implicit(s)
        /\ LET p == job[s].cats
               n == job[s].in
           IN  /\ deeds' = Append(deeds, Deed(s, p, n, Relation(se[s].own, host, p, n), TRUE))
               /\ host' = MarkStaged(host, p, n) /\ Settle(s, AfterRecord(s), Own(s, p, n))
     \/ /\ Confirmed(s) /\ UNCHANGED host /\ Settle(s, AfterRecord(s), se[s])
        /\ deeds' = Append(deeds, Deed(s, job[s].runs, 0, "staged-payload-execution", FALSE))
     \/ /\ ~ Implicit(s) /\ ~ Confirmed(s) /\ UNCHANGED <<host, deeds>>
        /\ Settle(s, AfterRecord(s), se[s])
  /\ UNCHANGED <<mutex, op, buf, raced, grabbed, dead>>

----------------------------------------------------------------------------
(* Interactive programs.  Only passwd takes the mutex, for its last step. *)

Editing(s) == pc[s] \in {"vim", "nano", "crontab-edit"}

\* Back to the shell, which ends if the line asked for that; after `crontab -e`
\* the spool file becomes the crontab.
Leave(s) ==
  /\ Set(buf, s, NoBuf)
  /\ Settle(s, IF res[s].exit THEN "over" ELSE "ready",
            [se[s] EXCEPT !.cron = @ \/ (pc[s] = "crontab-edit" /\ Spool \in Files(host))])

\* runVirtualVim and runVirtualNano read the file without the mutex ...
OpenFile(s) ==
  /\ Editing(s) /\ buf[s].path = NoPath
  /\ Set(buf, s, [NoBuf EXCEPT !.path = res[s].target, !.n = SizeOf(host, res[s].target)])
  /\ UNCHANGED <<host, mutex, pc, op, kind, se, job, res, left, ghosts>>

Edit(s) ==
  /\ Editing(s) /\ buf[s].path # NoPath /\ ~ buf[s].mod
  /\ \E n \in Edits : Set(buf, s, [buf[s] EXCEPT !.n = n, !.mod = TRUE])
  /\ UNCHANGED <<host, mutex, pc, op, kind, se, job, res, left, ghosts>>

\* ... and store the buffer without it: setVirtualFile checks, then assigns.
CheckFile(s) ==
  /\ Editing(s) /\ buf[s].mod /\ canStore(host, buf[s].path, buf[s].n)
  /\ Goto(s, "put") /\ Set(op, s, pc[s])
  /\ UNCHANGED <<host, mutex, mine, ghosts>>

\* A mutant: the length is not limited.
PutUnlimited(s) ==
  /\ pc[s] = "put" /\ Goto(s, op[s])
  /\ host' = [host EXCEPT !.files = (buf[s].path :> buf[s].n) @@ @]
  /\ raced' = (raced \/ ~ canStore(host, buf[s].path, buf[s].n))
  /\ Set(buf, s, [buf[s] EXCEPT !.mod = FALSE])
  /\ UNCHANGED <<mutex, op, kind, se, job, res, left, deeds, grabbed, dead>>

PutFile(s) ==
  /\ pc[s] = "put" /\ Goto(s, op[s])
  /\ host' = [host EXCEPT !.files = (buf[s].path :> limitVirtualContent(buf[s].n)) @@ @]
  /\ raced' = (raced \/ ~ canStore(host, buf[s].path, buf[s].n))
  /\ Set(buf, s, [buf[s] EXCEPT !.mod = FALSE])
  /\ UNCHANGED <<mutex, op, kind, se, job, res, left, deeds, grabbed, dead>>

\* `:!command` executes a line without the mutex, and records nothing.  While it
\* does, the job is what is left of the line, the result so far, and for `cmd &` the
\* process that is to become a job; other sessions go on between its commands.  A
\* line that is recognised as a whole, and what one command does, is one step.
Bang(s) ==
  /\ pc[s] = "vim" /\ buf[s].path # NoPath /\ Counted(s)
  /\ \E j \in Lines(s) :
       Set(job, s, [parts |-> IF j.line.kind = "chain" THEN j.line.parts
                              ELSE <<[before |-> ";", cmd |-> j.line, bg |-> FALSE]>>,
                    r |-> OK(0), pid |-> 0])
  /\ Goto(s, "bang")
  /\ UNCHANGED <<host, mutex, op, kind, se, res, buf, ghosts>>

\* A command is done: the next one, or back to vim.
Proceed(s, st) ==
  LET rest == Tail(job[s].parts)
      over == st.stop \/ rest = << >>
  IN  /\ host' = st.w.sh /\ Set(se, s, st.w.se) /\ deeds' = deeds \o Remembered(s, st.w.sh)
      /\ Set(job, s, IF over THEN NoJob ELSE [parts |-> rest, r |-> st.r, pid |-> 0])
      /\ Goto(s, IF over THEN "vim" ELSE "bang")

\* One command of the line; one for the background only starts, or finds its process
\* and looks whether that is a job already.
BangCommand(s) ==
  /\ pc[s] = "bang" /\ job[s].pid = 0
  /\ \E part \in {Head(job[s].parts)} : \E acc \in {job[s].r} :
       \E g \in {exec([sh |-> host, se |-> se[s]], part.cmd, 0)} :
         LET b == startInBackground(g.w, part.cmd.stages[1].do, g.r)
             v == [g.w EXCEPT !.sh = b.sh]
         IN  CASE Skipped(part, acc.status) ->
                    Proceed(s, State([sh |-> host, se |-> se[s]], acc, 0, FALSE))
               [] ~ Skipped(part, acc.status) /\ ~ GoesToBackground(part) ->
                    Proceed(s, Finished(acc, part.cmd, g))
               [] OTHER ->
                    IF b.mine
                    THEN /\ host' = b.sh /\ Set(se, s, g.w.se) /\ deeds' = deeds \o Remembered(s, b.sh)
                         /\ Set(job, s, [job[s] EXCEPT !.pid = b.pid]) /\ UNCHANGED pc
                    ELSE Proceed(s, Finished(acc, part.cmd, Gives(v, Backgrounded(g.r))))
  /\ UNCHANGED <<mutex, op, kind, res, buf, left, raced, grabbed, dead>>

\* Only now it gets its number.
BangJob(s) ==
  /\ pc[s] = "bang" /\ job[s].pid # 0
  /\ Proceed(s, Finished(job[s].r, Head(job[s].parts).cmd,
                         Gives(becomeJob([sh |-> host, se |-> se[s]], job[s].pid), Backgrounded(OK(0)))))
  /\ grabbed' = grabbed \cup {job[s].pid}
  /\ UNCHANGED <<mutex, op, kind, res, buf, left, raced, dead>>

\* Vim's q refuses to lose changes; q!, and N in nano, do not.
QuitEditor(s) ==
  /\ Editing(s) /\ buf[s].path # NoPath /\ Leave(s)
  /\ UNCHANGED <<host, mutex, op, ghosts>>

\* runVirtualTop shows the process table at every key, until q.
LeaveTop(s) ==
  /\ pc[s] = "top" /\ Leave(s)
  /\ UNCHANGED <<host, mutex, op, ghosts>>

runVirtualPasswd(s) ==
  /\ pc[s] = "passwd"
  /\ \/ Wants(s, "passwd") /\ UNCHANGED <<kind, left, se, buf, job, res>>
     \/ Leave(s) /\ UNCHANGED op
  /\ UNCHANGED <<host, mutex, ghosts>>

UpdatePassword(s) ==
  /\ Holds(s, "passwd") /\ Unlock(s, "ready")
  /\ host' = WriteDirect(host, Restrict(SystemFiles, DOMAIN SystemFiles \cap Files(host)))
  /\ UNCHANGED <<mine, ghosts>>

----------------------------------------------------------------------------
(* scp -t: the mutex is held from before the first byte to after the last *)

SendScp(s) ==
  /\ Ready(s) /\ kind[s] = "exec" /\ Wants(s, "scp")
  /\ \E u \in Uploads : Set(job, s, [line |-> << >>, in |-> u.n, cats |-> NoPath,
                                     runs |-> NoPath, path |-> u.path, x |-> u.x])
  /\ UNCHANGED <<host, mutex, kind, se, res, buf, ghosts>>

\* All the bytes came.  The upload is classified before it is stored.
ScpDone(s) ==
  LET p == job[s].path
      n == job[s].in
      rel == Relation(se[s].own, host, p, n)
      good == canStore(host, p, n)
  IN  /\ Holds(s, "scp") /\ Unlock(s, "record") /\ Set(se, s, Own(s, p, n))
      /\ deeds' = Append(deeds, Deed(s, p, n, rel, good))
      /\ host' = IF good THEN [MarkStaged(setVirtualFile(host, p, n), p, n) EXCEPT
                                  !.exec = IF job[s].x THEN @ \cup {p} ELSE @ \ {p}]
                         ELSE host
      /\ Set(res, s, IF good THEN [OK(6) EXCEPT !.stage = StageOf(rel), !.path = p, !.rel = rel]
                             ELSE Failed(6, 1))
      /\ UNCHANGED <<kind, job, buf, left, raced, grabbed, dead>>

\* A mutant: no deadline is set for the transfer.
ScpNeverCut(s) == Holds(s, "scp") /\ FALSE /\ UNCHANGED vars

\* The client stops sending: the read deadline of the connection, at the
\* latest its longest duration, ends the transfer.
ScpCut(s) ==
  /\ Holds(s, "scp") /\ Unlock(s, "record") /\ Set(res, s, Failed(6, 1))
  /\ UNCHANGED <<host, kind, se, job, buf, left, ghosts>>

----------------------------------------------------------------------------
(* SFTP: one file handle at a time *)

SftpRequest(s) ==
  /\ Ready(s) /\ kind[s] = "sftp"
  /\ \E u \in Uploads :
       /\ Set(job, s, [line |-> << >>, in |-> u.n, cats |-> NoPath, runs |-> NoPath,
                       path |-> u.path])
       /\ \/ buf[s] = NoBuf /\ \E o \in {"read", "trunc"} : Wants(s, o)
          \/ \E o \in {"rename", "remove", "mkdir", "rmdir", "setstat", "stat", "readdir"} : Wants(s, o)
  /\ Set(res, s, OK(5))
  /\ UNCHANGED <<host, mutex, kind, se, buf, ghosts>>

\* SSH_FXP_OPEN reads the file into the handle; O_TRUNC empties it first, and
\* the handle is granted even if that was refused.
SftpOpen(s) ==
  LET p == job[s].path
      trunc == op[s] = "trunc"
  IN  /\ pc[s] = "hold" /\ op[s] \in {"read", "trunc"} /\ Unlock(s, "ready")
      /\ host' = IF trunc THEN setVirtualFile(host, p, 0) ELSE host
      /\ Set(buf, s, IF trunc \/ p \in Files(host)
                     THEN [path |-> p, n |-> IF trunc THEN 0 ELSE host.files[p],
                           write |-> trunc, mod |-> FALSE]
                     ELSE NoBuf)
      /\ Set(job, s, NoJob)
      /\ UNCHANGED <<kind, se, res, left, ghosts>>

Handle(s) == kind[s] = "sftp" /\ pc[s] = "ready" /\ buf[s] # NoBuf

\* SSH_FXP_WRITE fills the handle only.
SftpWrite(s) ==
  /\ Handle(s) /\ buf[s].write /\ ~ buf[s].mod
  /\ \E u \in Uploads : Set(buf, s, [buf[s] EXCEPT !.n = u.n, !.mod = TRUE])
  /\ UNCHANGED <<host, mutex, pc, op, kind, se, job, res, left, ghosts>>

\* An offset of 2^63 or more is negative as int64, passes the checks of the
\* size and panics in the copy; the worker recovers and ends.
SftpWriteNegative(s) ==
  /\ Handle(s) /\ buf[s].write /\ Settle(s, "over", se[s]) /\ Set(buf, s, NoBuf)
  /\ UNCHANGED <<host, mutex, op, ghosts>>

SftpCloseRequest(s) ==
  /\ Handle(s)
  /\ \/ buf[s].write /\ Wants(s, "store") /\ UNCHANGED buf
     \/ ~ buf[s].write /\ Set(buf, s, NoBuf) /\ UNCHANGED <<pc, op>>
  /\ UNCHANGED <<host, mutex, kind, se, job, res, left, ghosts>>

\* SSH_FXP_CLOSE stores the handle ...
SftpStore(s) ==
  LET good == canStore(host, buf[s].path, buf[s].n)
      payload == good /\ buf[s].path \in StagingPaths
  IN  /\ Holds(s, "store") /\ mutex' = NoOne
      /\ host' = setVirtualFile(host, buf[s].path, buf[s].n)
      /\ Goto(s, IF payload THEN "wait" ELSE IF good THEN "record" ELSE "ready")
      /\ Set(op, s, IF payload THEN "classify" ELSE op[s])
      /\ Set(buf, s, IF payload THEN buf[s] ELSE NoBuf)
      /\ UNCHANGED <<kind, se, job, res, left, ghosts>>

\* ... and takes the mutex a second time to classify what it stored.
SftpClassify(s) ==
  LET p == buf[s].path
      n == buf[s].n
      rel == Relation(se[s].own, host, p, n)
  IN  /\ Holds(s, "classify") /\ Unlock(s, "record") /\ Set(se, s, Own(s, p, n))
      /\ deeds' = Append(deeds, Deed(s, p, n, rel, TRUE)) /\ host' = MarkStaged(host, p, n)
      /\ Set(res, s, [OK(6) EXCEPT !.stage = StageOf(rel), !.path = p, !.rel = rel])
      /\ Set(buf, s, NoBuf)
      /\ UNCHANGED <<kind, job, left, raced, grabbed, dead>>

\* The new name gets the attributes of the old; a file renamed to itself is
\* gone.
SftpRename(s) ==
  LET p == job[s].path
      Moved(q) == [setVirtualFile(host, q, SizeOf(host, p)) EXCEPT
                     !.exec = IF p \in @ THEN @ \cup {q} ELSE @ \ {q},
                     !.immutable = IF p \in @ THEN @ \cup {q} ELSE @ \ {q}]
  IN  /\ Holds(s, "rename") /\ Unlock(s, "ready")
      /\ \E u \in Uploads :
           host' = IF p \in Files(host) /\ canStore(host, u.path, SizeOf(host, p))
                   THEN deleteVirtualFile(Moved(u.path), p) ELSE host
      /\ Set(job, s, NoJob)
      /\ UNCHANGED <<kind, se, res, buf, left, ghosts>>

\* Removing does not ask whether the file is immutable.
SftpRemove(s) ==
  /\ Holds(s, "remove") /\ Unlock(s, "ready") /\ host' = deleteVirtualFile(host, job[s].path)
  /\ Set(job, s, NoJob)
  /\ UNCHANGED <<kind, se, res, buf, left, ghosts>>

SftpMkdir(s) ==
  /\ Holds(s, "mkdir") /\ Unlock(s, "ready")
  /\ \E d \in Dirs : host' = setVirtualDir(host, d)
  /\ Set(job, s, NoJob)
  /\ UNCHANGED <<kind, se, res, buf, left, ghosts>>

\* A directory goes without what is in it.
SftpRmdir(s) ==
  /\ Holds(s, "rmdir") /\ Unlock(s, "ready")
  /\ \E d \in Dirs : host' = [host EXCEPT !.dirs = @ \ {d}]
  /\ Set(job, s, NoJob)
  /\ UNCHANGED <<kind, se, res, buf, left, ghosts>>

SftpSetstat(s) ==
  LET p == job[s].path
  IN  /\ Holds(s, "setstat") /\ Unlock(s, "ready")
      /\ host' = [host EXCEPT !.exec = IF p \in Files(host) THEN @ \cup {p} ELSE @]
      /\ Set(job, s, NoJob)
      /\ UNCHANGED <<kind, se, res, buf, left, ghosts>>

\* SSH_FXP_OPENDIR and READDIR list a directory, every time anew.
SftpReaddir(s) ==
  /\ Holds(s, "readdir") /\ Unlock(s, "ready")
  /\ Set(job, s, NoJob)
  /\ UNCHANGED <<host, kind, se, res, buf, left, ghosts>>

\* SSH_FXP_STAT, LSTAT and REALPATH only look, too.
SftpStat(s) ==
  /\ Holds(s, "stat") /\ Unlock(s, "ready")
  /\ Set(job, s, NoJob)
  /\ UNCHANGED <<host, kind, se, res, buf, left, ghosts>>

----------------------------------------------------------------------------
(* Ends *)

\* The connection is gone: whoever reads from it returns.
Disconnect(s) ==
  /\ pc[s] \in {"ready", "vim", "nano", "crontab-edit", "top", "passwd"}
  /\ Settle(s, "over", se[s]) /\ Set(buf, s, NoBuf)
  /\ UNCHANGED <<host, mutex, op, ghosts>>

\* The steps that touch the shared maps without the mutex.
Unlocked(s) == pc[s] \in {"record", "vim", "nano", "crontab-edit", "top", "put", "bang"}

\* The Go runtime ends the process when it sees such a step meet another one;
\* nothing of the simulated host is on disk.
Fatal ==
  /\ \E s \in Sessions : \E t \in Sessions \ {s} :
       Unlocked(s) /\ pc[t] \in {"hold", "record", "put", "bang"}
  /\ dead' = TRUE /\ deeds' = << >> /\ raced' = FALSE /\ grabbed' = {}
  /\ pc' = [s \in Sessions |-> "over"] /\ mutex' = NoOne
  /\ host' = [Fresh EXCEPT !.files = << >>, !.dirs = {}]
  /\ op' = [s \in Sessions |-> ""] /\ kind' = [s \in Sessions |-> ""]
  /\ se' = [s \in Sessions |-> NewSession(User)]
  /\ job' = [s \in Sessions |-> NoJob] /\ res' = [s \in Sessions |-> OK(0)]
  /\ buf' = [s \in Sessions |-> NoBuf] /\ left' = [s \in DOMAIN left |-> 0]

Asking(s) == OpenSession(s) \/ Lock(s) \/ Send(s) \/ SendScp(s) \/ SftpRequest(s)
Running(s) == Login(s) \/ Execute(s) \/ recordSSHCommand(s) \/ Disconnect(s)
Interacting(s) == OpenFile(s) \/ Edit(s) \/ CheckFile(s) \/ PutFile(s)
                  \/ Bang(s) \/ BangCommand(s) \/ BangJob(s) \/ QuitEditor(s) \/ LeaveTop(s) \/ runVirtualPasswd(s) \/ UpdatePassword(s)
Transferring(s) == ScpDone(s) \/ ScpCut(s) \/ SftpOpen(s) \/ SftpWrite(s) \/ SftpWriteNegative(s)
                   \/ SftpCloseRequest(s) \/ SftpStore(s) \/ SftpClassify(s)
Renaming(s) == SftpRename(s) \/ SftpRemove(s) \/ SftpMkdir(s) \/ SftpRmdir(s)
               \/ SftpSetstat(s) \/ SftpStat(s) \/ SftpReaddir(s)

Next == /\ UNCHANGED scene
        /\ \/ Fatal
           \/ \E s \in Sessions : \/ Asking(s) \/ Running(s) \/ Interacting(s)
                                  \/ Transferring(s) \/ Renaming(s)

Spec == Init /\ [][Next]_vars

----------------------------------------------------------------------------
(* Fairness.  A Go mutex passes to a waiter that keeps waiting; what is done
   under it needs the client only for an SCP upload, which is cut off.  No
   client is obliged to send anything.                                     *)

Release(s) ==
  \/ Login(s) \/ UpdatePassword(s) \/ ScpCut(s) \/ SftpOpen(s)
  \/ SftpStore(s) \/ SftpClassify(s) \/ Renaming(s)

\* Execute(s) is enabled while s holds the mutex for a line, and only Execute(s)
\* or the end of the process changes that: the last conjunct is its weak fairness.
Fairness ==
  \A s \in Sessions : SF_state(Lock(s)) /\ WF_state(Release(s)) /\ []<>~ Holds(s, "line")

FairSpec == Spec /\ Fairness

----------------------------------------------------------------------------
(* Properties *)

Stages == {"new", "wait", "hold", "ready", "record", "vim", "nano", "crontab-edit",
           "top", "passwd", "put", "bang", "over"}

(* The variables have their types, one session at most is in its critical
   section, and it is the one that holds the mutex.                        *)
TypeOK ==
  /\ Files(host) \subseteq Paths /\ host.dirs \subseteq Dirs
  /\ host.exec \cup host.immutable \subseteq Paths /\ DOMAIN host.staged \subseteq Paths
  /\ pc \in [Sessions -> Stages]
  /\ \A s \in Sessions : pc[s] = "hold" <=> mutex = s
  /\ \A i \in DOMAIN deeds : deeds[i].who \in Sessions /\ deeds[i].path \in Paths
  /\ raced \in BOOLEAN /\ dead \in BOOLEAN /\ grabbed \subseteq DOMAIN host.procs

OfClient == Files(host) \ DOMAIN SystemFiles
ClientBytes == MapThenSumSet(LAMBDA p : host.files[p], OfClient)

(* setVirtualFile's quotas hold for everything a client can write, whatever
   lines, uploads and edits the sessions mix: no file is longer than the
   limit, and neither the number of files nor their total exceeds its own.
   An editor checks and stores without the mutex: if another session stored
   in between, the total may be over by one file per session, never more.   *)
QuotaKept ==
  LET over == IF raced THEN Cardinality(Sessions) - 1 ELSE 0
  IN  /\ \A p \in OfClient : host.files[p] <= MaxFileBytes
      /\ Cardinality(OfClient) <= MaxFiles + over
      /\ ClientBytes <= MaxTotalBytes + over * MaxFileBytes

(* A file that is immutable keeps its content as long as it is, whichever
   command, upload, rename or editor of another session is in the middle of
   its work when the attribute is set.  Excepted are the accounts, which the
   server writes itself, and what an editor stores that had checked before. *)
ImmutableKept ==
  [][\A p \in (host.immutable \cap host'.immutable) \ DOMAIN SystemFiles :
       \/ p \in Files(host') /\ host'.files[p] = host.files[p]
       \/ \E s \in Sessions : pc[s] = "put" /\ pc'[s] # "put" /\ buf[s].path = p]_vars

(* A background job belongs to one shell: its process has that job number,
   and no two sessions list the same process, though they share the process
   table and find each other's payloads running.  Excepted are a process
   that became a job without the mutex, by a `:!` of vim, because another
   session may take it between the look and the number; and the process of
   a service, which a clean-up line leaves alive and then numbers anew.      *)
JobsExclusive ==
  \A s \in Sessions : \A id \in DOMAIN se[s].jobs :
    LET pid == se[s].jobs[id]
    IN  /\ pid \in DOMAIN host.procs
        /\ \/ pid \in grabbed \/ host.procs[pid].quiet
           \/ /\ host.procs[pid].job = id
              /\ \A t \in Sessions \ {s} : \A k \in DOMAIN se[t].jobs : se[t].jobs[k] # pid

(* What classifyVirtualPayloadStage says of the i-th upload is true of the
   uploads before it: "retry", "replacement" and "relocation" compare with
   this session's own, "recurring" with what the source staged last at a
   path in any session, and a "new" payload was in neither; and an execution
   is only confirmed for a path on which something was staged.              *)
RelationSound ==
  \A i \in DOMAIN deeds :
    LET d == deeds[i]
        own == {j \in 1 .. i - 1 : deeds[j].who = d.who /\ deeds[j].rel \notin {"", "staged-payload-execution"}}
        kept == {j \in 1 .. i - 1 : deeds[j].kept}
        last == {j \in kept : \A k \in kept : k > j => deeds[k].path # deeds[j].path}
        Like(js, samePath, sameContent) ==
          \E j \in js : (deeds[j].path = d.path) = samePath /\ (deeds[j].n = d.n) = sameContent
    IN  CASE d.rel = "same-path-retry" -> Like(own, TRUE, TRUE)
          [] d.rel = "payload-replacement" -> Like(own, TRUE, FALSE)
          [] d.rel = "payload-relocation" -> Like(own, FALSE, TRUE)
          [] d.rel = "companion-payload" -> own # {} /\ ~ Like(own, FALSE, TRUE)
          [] d.rel = "recurring-campaign-payload" -> own = {} /\ Like(last, TRUE, TRUE)
          [] d.rel = "recurring-payload-relocation" -> own = {} /\ Like(last, FALSE, TRUE)
          [] d.rel = "new-payload" -> own = {} /\ \A j \in last : deeds[j].n # d.n
          [] d.rel = "staged-payload-execution" -> \E j \in kept : deeds[j].path = d.path
          [] OTHER -> TRUE

(* A session that waits for the mutex gets it, also behind an SCP upload
   whose client has stopped sending.                                        *)
WaitersServed == \A s \in Sessions : pc[s] = "wait" ~> pc[s] # "wait"
=============================================================================
