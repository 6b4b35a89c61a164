---------------------------- MODULE VirtualShell ----------------------------
(***************************************************************************)
(* The interpreter of the simulated shell (trap_ssh_shell.go,              *)
(* trap_ssh_controlflow.go, trap_ssh_extra.go): what a command line does   *)
(* to the shared host and to its session, and with which status it ends.   *)
(*                                                                         *)
(* Command lines are syntax trees; the text that commands print is kept as *)
(* its length only.  Every operator takes a world w, a record of the       *)
(* shared state (sh) and of the session's own state (se), and returns the  *)
(* world it leaves with the result (w, r).                                 *)
(***************************************************************************)
EXTENDS VirtualFiles, SequencesExt

CONSTANTS Spool, History, NohupOut, Unit, ServiceExec,  \* paths with a role
          MaxOps, MaxFor, MaxWhile, MaxSubst, MaxAlias, MaxSource,
          ScriptOf                            \* ScriptOf[n]: the lines of content n

NewSession(user) ==
    [user |-> user, nested |-> << >>, jobs |-> << >>, nextJob |-> 1, ops |-> 0,
     status |-> 0, depth |-> 0, subst |-> 0, source |-> 0, aliases |-> << >>,
     cron |-> TRUE, own |-> << >>, interest |-> 0]

OK(d) == [status |-> 0, out |-> 0, depth |-> d, exit |-> FALSE, mode |-> "",
          target |-> NoPath, action |-> "", stage |-> "", path |-> NoPath, rel |-> ""]
Failed(d, n) == [OK(d) EXCEPT !.status = n]
Shows(d, n) == [OK(d) EXCEPT !.out = n]
Gives(w, r) == [w |-> w, r |-> r]
AtLeast(r, d) == [r EXCEPT !.depth = Max({@, d})]

Exists(w, p) == p \in Files(w.sh)

(* A command that stores n bytes at p, or fails with the given status. *)
Writes(w, p, n, d, code) ==
    IF canStore(w.sh, p, n) THEN Gives([w EXCEPT !.sh = setVirtualFile(@, p, n)], OK(d))
                            ELSE Gives(w, Failed(d, code))

(* One that ignores whether it could. *)
WritesAnyway(w, p, n, d) == Gives([w EXCEPT !.sh = setVirtualFile(@, p, n)], OK(d))

---------------------------------------------------------------------------
(* Commands that only look.  What they print is given with the command. *)

identity(w, c) == Gives(w, Shows(3, c.out))

hostQuery(w, c) == Gives(w, Shows(4, c.out))

containers(w, c) == Gives(w, Shows(5, c.out))

systemQuery(w, c) == Gives(w, Shows(4, c.out))

networkTools(w, c) == Gives(w, Shows(5, c.out))

(* cat, head, grep, stat and the like need their file, filters their input. *)
readFile(w, c, in) ==
    IF c.path = NoPath THEN Gives(w, Shows(4, in))
    ELSE IF Exists(w, c.path) THEN Gives(w, Shows(4, w.sh.files[c.path]))
         ELSE Gives(w, Failed(4, 1))

textFilter(w, c, in) == Gives(w, IF in = 0 THEN OK(4) ELSE Shows(4, c.out))

pgrep(w, c) ==
    Gives(w, IF Named(w.sh, c.path) = {} THEN Failed(4, 1) ELSE Shows(4, 1))

which(w, c) == Gives(w, IF c.known THEN Shows(3, 1) ELSE Failed(3, 1))

evalVirtualTest(w, c) ==
    (c.path \in Files(w.sh) \/ c.path \in w.sh.dirs) # c.negated

virtualTest(w, c) ==
    Gives(w, IF evalVirtualTest(w, c) THEN OK(3) ELSE Failed(3, 1))

---------------------------------------------------------------------------
(* Commands that change files *)

echo(w, c) == Gives(w, Shows(2, c.out))

chmod(w, c) ==
    IF Exists(w, c.path)
    THEN Gives([w EXCEPT !.sh.exec = IF c.on THEN @ \cup {c.path} ELSE @ \ {c.path}], OK(6))
    ELSE Gives(w, Failed(6, 1))

chattr(w, c) ==
    IF Exists(w, c.path)
    THEN Gives([w EXCEPT !.sh.immutable = IF c.on THEN @ \cup {c.path} ELSE @ \ {c.path}],
               OK(6))
    ELSE Gives(w, Failed(6, 1))

mkdir(w, c) ==
    IF HasDirRoom(w.sh, c.dir) THEN Gives([w EXCEPT !.sh = setVirtualDir(@, c.dir)], OK(4))
                               ELSE Gives(w, Failed(4, 1))

(* touch stores the empty content, also over a file that has some. *)
touch(w, c) == Writes(w, c.path, 0, 4, 1)

rm(w, c) ==
    IF c.path \in w.sh.immutable THEN Gives(w, Failed(5, 1))
    ELSE Gives([w EXCEPT !.sh = removeVirtualPattern(@, c.path)], OK(5))

(* mv removes its source whatever its attributes, also when it is the
   destination.                                                            *)
copyOrMove(w, c) ==
    LET stored == Writes(w, c.to, SizeOf(w.sh, c.path), 5, 1)
    IN  IF ~ Exists(w, c.path) THEN Gives(w, Failed(5, 1))
        ELSE IF c.move /\ stored.r.status = 0
             THEN Gives([stored.w EXCEPT !.sh = deleteVirtualFile(@, c.path)], stored.r)
             ELSE stored

tee(w, c, in) ==
    LET n == IF c.append THEN SizeOf(w.sh, c.path) + in ELSE in
        res == Writes(w, c.path, n, 5, 1)
    IN  Gives(res.w, IF res.r.status = 0 THEN [res.r EXCEPT !.out = in] ELSE res.r)

sedInPlace(w, c) == Writes(w, c.path, SizeOf(w.sh, c.path), 4, 4)

(* gzip does not look whether the compressed file could be stored before it
   removes the original.                                                   *)
gzip(w, c) ==
    IF Exists(w, c.path)
    THEN Gives([w EXCEPT !.sh = deleteVirtualFile(setVirtualFile(@, c.to, w.sh.files[c.path] + 1),
                                                  c.path)], OK(4))
    ELSE Gives(w, Failed(4, 1))

tarExtract(w, c) ==
    Gives([w EXCEPT !.sh = setVirtualFile(setVirtualDir(@, c.dir), c.to,
                                          SizeOf(@, c.path))], OK(5))

compile(w, c) == WritesAnyway(w, c.path, 1, 5)

fakeCurl(w, c) ==
    IF c.path = NoPath THEN Gives(w, Shows(6, c.out)) ELSE Writes(w, c.path, c.out, 6, 23)

fakeWget(w, c) == Writes(w, c.path, c.out, 6, 1)

nohup(w) == WritesAnyway(w, NohupOut, SizeOf(w.sh, NohupOut) + 1, 6)

clearHistory(w) == Gives([w EXCEPT !.sh = deleteVirtualFile(@, History)], OK(6))

crontab(w, c) ==
    CASE c.flag = "-e" ->
           Gives([w EXCEPT !.sh = IF Exists(w, Spool) THEN @ ELSE setVirtualFile(@, Spool, 1)],
                 [OK(6) EXCEPT !.mode = "crontab-edit", !.target = Spool])
      [] c.flag = "-r" ->
           Gives([w EXCEPT !.se.cron = FALSE, !.sh = deleteVirtualFile(@, Spool)], OK(6))
      [] c.flag = "-l" -> Gives(w, IF w.se.cron THEN Shows(6, 1) ELSE Failed(6, 1))
      [] OTHER -> Gives([w EXCEPT !.se.cron = TRUE], OK(6))

---------------------------------------------------------------------------
(* Processes, services and the session's user *)

fakeExecute(w, p) ==
    IF (p \in StagingPaths \/ p \in DOMAIN w.sh.staged) /\ Exists(w, p)
    THEN Gives([w EXCEPT !.sh = ensureVirtualPayloadProcess(@, p)],
               [OK(6) EXCEPT !.stage = "executed", !.path = p])
    ELSE Gives(w, OK(6))

runPath(w, c) ==
    IF SizeOf(w.sh, c.path) = 0 THEN Gives(w, Failed(4, 127))
    ELSE IF c.path \notin w.sh.exec THEN Gives(w, Failed(5, 126))
    ELSE fakeExecute(w, c.path)

(* A mutant: a payload that runs already becomes a job of this session too. *)
startAlwaysMine(w, c, r) ==
    LET reuse == c.op = "run" /\ r.stage = "executed"
        started == IF reuse THEN ensureVirtualPayloadProcess(w.sh, c.path)
                            ELSE startVirtualProcess(w.sh, c.path, 0, c.op = "nohup")
        pid == IF reuse THEN PayloadPid(started, c.path) ELSE Len(started.procs)
    IN  [sh |-> started, pid |-> pid, mine |-> TRUE]

(* `cmd &` of a local program: the process, and whether it will be a job of
   the session.  A payload that runs already is one unless it is a job.    *)
startInBackground(w, c, r) ==
    LET reuse == c.op = "run" /\ r.stage = "executed"
        started == IF reuse THEN ensureVirtualPayloadProcess(w.sh, c.path)
                            ELSE startVirtualProcess(w.sh, c.path, 0, c.op = "nohup")
        pid == IF reuse THEN PayloadPid(started, c.path) ELSE Len(started.procs)
    IN  [sh |-> started, pid |-> pid, mine |-> started.procs[pid].job = 0]

(* It gets the next job number of the session. *)
becomeJob(w, pid) ==
    [w EXCEPT !.sh.procs[pid].job = w.se.nextJob,
              !.se.jobs = (w.se.nextJob :> pid) @@ @, !.se.nextJob = @ + 1]

GoesToBackground(part) ==
    part.bg /\ part.cmd.kind = "pipe" /\ part.cmd.stages[1].do.op \in {"run", "nohup"}

Backgrounded(r) == [AtLeast(r, 7) EXCEPT !.status = 0]

backgroundResult(w, c, r) ==
    LET b == startInBackground(w, c, r)
        v == [w EXCEPT !.sh = b.sh]
    IN  Gives(IF b.mine THEN becomeJob(v, b.pid) ELSE v, Backgrounded(r))

disown(w) ==
    IF DOMAIN w.se.jobs = {} THEN Gives(w, OK(6))
    ELSE LET id == Max(DOMAIN w.se.jobs)
         IN  Gives([w EXCEPT !.sh.procs[w.se.jobs[id]].disowned = TRUE,
                             !.se.jobs = Restrict(@, DOMAIN @ \ {id})], OK(6))

killPid(w, c) ==
    IF c.pid \in Alive(w.sh) THEN Gives([w EXCEPT !.sh = KillPids(@, {c.pid})], OK(5))
                             ELSE Gives(w, Failed(5, 1))

(* pkill forgets the job numbers of what it kills, in the session it runs
   in, whichever session gave them.                                        *)
killVirtualProcesses(w, c) ==
    LET hit == Named(w.sh, c.path)
        gone == {w.sh.procs[i].job : i \in hit}
    IN  Gives([w EXCEPT !.sh = KillPids(@, hit),
                        !.se.jobs = Restrict(@, DOMAIN @ \ gone)],
              IF hit = {} THEN Failed(5, 1) ELSE OK(5))

virtualUserSystemctl(w, c) ==
    LET s == w.sh
        t == CASE c.verb = "start" -> startVirtualUserService(s, ServiceExec)
               [] c.verb = "restart" ->
                    startVirtualUserService(stopVirtualUserService(s), ServiceExec)
               [] c.verb = "stop" -> stopVirtualUserService(s)
               [] c.verb = "enable" -> [s EXCEPT !.services.enabled = TRUE]
               [] c.verb = "enable --now" ->
                    [startVirtualUserService(s, ServiceExec) EXCEPT !.services.enabled = TRUE]
               [] c.verb = "disable" -> [s EXCEPT !.services.enabled = FALSE]
               [] OTHER -> s
        shown == IF c.verb = "is-active" /\ ~ s.services.active THEN Failed(4, 3) ELSE OK(6)
    IN  IF Unit \notin Files(s) /\ c.verb \notin {"stop", "disable"} THEN Gives(w, Failed(6, 5))
        ELSE Gives([w EXCEPT !.sh = t],
                   IF /\ c.verb \in {"enable", "enable --now", "start", "restart"} /\ t.services.active
                      /\ ServiceExec \in DOMAIN s.staged
                   THEN [OK(7) EXCEPT !.stage = "executed", !.path = ServiceExec] ELSE shown)

su(w) == Gives([w EXCEPT !.se.user = "root"], OK(5))

exitShell(w) ==
    IF w.se.nested # << >>
    THEN Gives([w EXCEPT !.se.user = Last(w.se.nested), !.se.nested = Front(@)], OK(7))
    ELSE Gives(w, [OK(2) EXCEPT !.exit = TRUE])

shutdown(w) ==
    Gives(w, IF w.se.user = "root" THEN [OK(6) EXCEPT !.exit = TRUE] ELSE Failed(6, 1))

(* vim, nano, top, ping without a count and passwd go on interactively when
   the line is done.                                                       *)
interactive(w, c) ==
    Gives(w, [OK(5) EXCEPT !.mode = c.mode, !.target = c.path])

loopControl(w, c) == Gives(w, [OK(4) EXCEPT !.action = c.op])

alias(w, c) == Gives([w EXCEPT !.se.aliases = (c.name :> c.as) @@ @], OK(2))

---------------------------------------------------------------------------
(* The interpreter.  in is the length of what the standard input holds;
   exec(w, node, in) runs a line, a command of a line or a simple command.  *)

RECURSIVE exec(_, _, _)

Simple(c) == [kind |-> "simple", do |-> c, depth |-> 0]
Condition(stages) == [kind |-> "pipe", stages |-> stages]

(* Runs step on one element after the other, until one of them stops it. *)
Until(step(_, _), g, elements) ==
    LET Next1(st, e) == IF st.stop THEN st ELSE step(st, e)
    IN  FoldLeft(Next1, g, elements)

State(w, r, in, stop) == [w |-> w, r |-> r, in |-> in, stop |-> stop]
Times(n) == [i \in 1 .. n |-> i]

Skipped(part, status) ==
    \/ part.before = "&&" /\ status # 0
    \/ part.before = "||" /\ status = 0

(* A group, ( ... ) or $( ... ): its exit does not reach the shell around
   it, and neither do payloads and interactive programs.                   *)
executeGrouped(w, parts, r0) ==
    LET step(st, part) ==
          LET g == exec(st.w, part.cmd, 0)
              r == [AtLeast(st.r, g.r.depth) EXCEPT !.status = g.r.status, !.out = @ + g.r.out]
          IN  IF Skipped(part, st.r.status) THEN st
              ELSE State([g.w EXCEPT !.se.status = g.r.status], r, 0, g.r.exit \/ g.r.mode # "")
        end == Until(step, State(w, r0, 0, FALSE), parts)
    IN  Gives(end.w, end.r)

(* A command in a substitution runs as a group, at most MaxSubst deep. *)
expandVirtualLine(w, c) ==
    IF "subst" \in DOMAIN c /\ w.se.subst < MaxSubst
    THEN LET g == executeGrouped([w EXCEPT !.se.subst = @ + 1], c.subst, OK(2))
         IN  [g.w EXCEPT !.se.subst = w.se.subst]
    ELSE w

(* A remote command runs as the other user, on the same files; the Git host
   leaves its notice there.                                                *)
fakeNestedSSH(w, c) ==
    LET v == [w EXCEPT !.se.user = c.user,
                       !.sh = IF c.notice = NoPath THEN @ ELSE setVirtualFile(@, c.notice, 1)]
        g == exec(v, c.line, 0)
    IN  IF ~ c.reachable THEN Gives(w, Failed(7, 255))
        ELSE IF c.line.parts # << >>
        THEN Gives([g.w EXCEPT !.se.user = w.se.user],
                   [OK(7) EXCEPT !.status = g.r.status, !.out = g.r.out])
        ELSE Gives([v EXCEPT !.se.nested = Append(@, w.se.user),
                             !.sh = setVirtualDir(@, c.dir)], OK(7))

(* env, time, xargs and busybox run another command; what env sets for it
   is gone afterwards.                                                     *)
wrapped(w, c, in) == exec(w, Simple(c.inner), in)

sudo(w, c, in) ==
    LET g == exec(w, Simple(c.inner), in) IN Gives(g.w, AtLeast(g.r, 5))

shellInline(w, c, in) ==
    LET g == exec(w, c.line, in) IN Gives(g.w, AtLeast(g.r, 6))

sourceScript(w, c) ==
    LET step(st, line) ==
          LET g == exec(st.w, line, 0)
          IN  State(g.w, [st.r EXCEPT !.status = g.r.status], 0, g.r.exit)
        end == Until(step, State([w EXCEPT !.se.source = @ + 1], OK(6), 0, FALSE),
                     ScriptOf[w.sh.files[c.path]])
    IN  IF w.se.source >= MaxSource \/ ~ Exists(w, c.path) THEN Gives(w, Failed(6, 1))
        ELSE Gives([end.w EXCEPT !.se.source = w.se.source], end.r)

Command(w, c, in) ==
    CASE c.op = "identity" -> identity(w, c)
      [] c.op = "host" -> hostQuery(w, c)
      [] c.op = "containers" -> containers(w, c)
      [] c.op = "system" -> systemQuery(w, c)
      [] c.op = "network" -> networkTools(w, c)
      [] c.op = "cat" -> readFile(w, c, in)
      [] c.op = "filter" -> textFilter(w, c, in)
      [] c.op = "pgrep" -> pgrep(w, c)
      [] c.op = "which" -> which(w, c)
      [] c.op = "test" -> virtualTest(w, c)
      [] c.op = "echo" -> echo(w, c)
      [] c.op = "chmod" -> chmod(w, c)
      [] c.op = "chattr" -> chattr(w, c)
      [] c.op = "mkdir" -> mkdir(w, c)
      [] c.op = "touch" -> touch(w, c)
      [] c.op = "rm" -> rm(w, c)
      [] c.op = "cp" -> copyOrMove(w, c)
      [] c.op = "tee" -> tee(w, c, in)
      [] c.op = "sed" -> sedInPlace(w, c)
      [] c.op = "gzip" -> gzip(w, c)
      [] c.op = "tar" -> tarExtract(w, c)
      [] c.op = "gcc" -> compile(w, c)
      [] c.op = "curl" -> fakeCurl(w, c)
      [] c.op = "wget" -> fakeWget(w, c)
      [] c.op = "nohup" -> nohup(w)
      [] c.op = "history" -> clearHistory(w)
      [] c.op = "crontab" -> crontab(w, c)
      [] c.op = "run" -> runPath(w, c)
      [] c.op = "disown" -> disown(w)
      [] c.op = "kill" -> killPid(w, c)
      [] c.op = "pkill" -> killVirtualProcesses(w, c)
      [] c.op = "systemctl" -> virtualUserSystemctl(w, c)
      [] c.op = "su" -> su(w)
      [] c.op = "sudo" -> sudo(w, c, in)
      [] c.op = "ssh" -> fakeNestedSSH(w, c)
      [] c.op = "env" -> wrapped(w, c, in)
      [] c.op = "sh" -> shellInline(w, c, in)
      [] c.op = "source" -> sourceScript(w, c)
      [] c.op = "exit" -> exitShell(w)
      [] c.op = "shutdown" -> shutdown(w)
      [] c.op = "interactive" -> interactive(w, c)
      [] c.op \in {"break", "continue"} -> loopControl(w, c)
      [] c.op = "alias" -> alias(w, c)
      [] OTHER -> Gives(w, Failed(3, 127))

(* One simple command: groups, aliases, the budget of the session, and then
   the command itself.                                                     *)
executeOne(w, c, in, aliasDepth) ==
    CASE c.op = "group" -> executeGrouped(w, c.parts, OK(Max({2, w.se.depth})))
      [] c.op = "assign" -> Gives(expandVirtualLine(w, c), OK(2))
      [] c.op \in DOMAIN w.se.aliases ->
           IF aliasDepth >= MaxAlias THEN Gives(w, Failed(2, 1))
           ELSE exec(w, [Simple(w.se.aliases[c.op]) EXCEPT !.depth = aliasDepth + 1], in)
      [] c.op \notin DOMAIN w.se.aliases /\ w.se.ops >= MaxOps ->
           Gives([w EXCEPT !.se.ops = MaxOps + 1], [Failed(2, 255) EXCEPT !.exit = TRUE])
      [] OTHER -> Command([w EXCEPT !.se.ops = @ + 1], c, in)

(* A redirected stage stores its output; `cat > p` on a staging path is
   evidence of a payload being staged.                                     *)
Redirected(w, st, r, in) ==
    LET n == IF st.append THEN SizeOf(w.sh, st.to) + r.out ELSE r.out
        t == setVirtualFile(w.sh, st.to, n)
        same == st.to \in DOMAIN t.staged /\ t.staged[st.to] = in
        tried == [t EXCEPT !.attempts[st.to] = IF @ < 2 THEN @ + 1 ELSE @]
        seen == IF in > 0 THEN [tried EXCEPT !.staged = (st.to :> in) @@ @] ELSE tried
        stage == CASE in > 0 /\ same -> "retry"
                   [] in > 0 -> "completed"
                   [] tried.attempts[st.to] > 1 -> "retry"
                   [] OTHER -> "intent"
    IN  IF ~ canStore(w.sh, st.to, n) THEN Gives(w, [r EXCEPT !.status = 1])
        ELSE IF st.do.op = "cat" /\ st.to \in StagingPaths
        THEN Gives([w EXCEPT !.sh = seen],
                   [AtLeast(r, IF in > 0 THEN 6 ELSE 5) EXCEPT !.out = 0, !.stage = stage, !.path = st.to])
        ELSE Gives([w EXCEPT !.sh = t], [AtLeast(r, 4) EXCEPT !.out = 0])

(* The stages of a pipeline; the result is that of the deepest. *)
executePipeline(w, stages, in) ==
    LET step(st, stage) ==
          LET input == IF stage.from = NoPath THEN st.in ELSE SizeOf(st.w.sh, stage.from)
              done == exec(st.w, Simple(stage.do), input)
              g == IF stage.to = NoPath THEN done ELSE Redirected(done.w, stage, done.r, input)
              r == IF g.r.depth >= st.r.depth THEN g.r
                   ELSE [st.r EXCEPT !.status = g.r.status, !.exit = g.r.exit]
          IN  IF stage.from # NoPath /\ ~ Exists(st.w, stage.from)
              THEN State(st.w, Failed(3, 1), 0, TRUE)
              ELSE State(g.w, r, g.r.out, g.r.exit \/ g.r.mode # "")
        end == Until(step, State(w, OK(0), in, FALSE), stages)
    IN  Gives(end.w, [end.r EXCEPT !.out = end.in])

executeIf(w, c, in) ==
    LET g == exec(w, Condition(c.cond), in)
        body == IF (g.r.status = 0) # c.negated THEN c.then ELSE c.else
        b == IF body.parts = << >> THEN Gives(g.w, OK(5)) ELSE exec(g.w, body, in)
        r == AtLeast(b.r, 5)
        tail == exec(b.w, c.suffix, 0)
    IN  IF c.suffix.parts = << >> \/ r.exit THEN Gives(b.w, r)
        ELSE Gives(tail.w, [AtLeast(r, tail.r.depth) EXCEPT !.status = tail.r.status,
                                                           !.exit = tail.r.exit])

(* The body of a loop; break ends the loop, exit the shell. *)
Iteration(st, body) ==
    LET g == exec(st.w, body, 0)
        r == [AtLeast(st.r, g.r.depth) EXCEPT !.status = IF g.r.action # "" THEN 0 ELSE g.r.status]
    IN  State(g.w, [r EXCEPT !.exit = g.r.exit], 0, g.r.action = "break" \/ g.r.exit)

executeFor(w, c) ==
    LET step(st, i) == Iteration(st, c.body)
        end == Until(step, State(w, OK(5), 0, FALSE), Times(Min({c.count, MaxFor})))
    IN  Gives(end.w, end.r)

executeWhile(w, c) ==
    LET step(st, i) ==
          LET cond == exec(st.w, Condition(c.cond), 0)
          IN  IF (cond.r.status = 0) = c.until
              THEN State(cond.w, [st.r EXCEPT !.status = 0], 0, TRUE)
              ELSE Iteration([st EXCEPT !.w = cond.w], c.body)
        end == Until(step, State(w, OK(5), 0, FALSE), Times(MaxWhile))
    IN  Gives(end.w, end.r)

executeCase(w, c) ==
    LET g == exec(w, c.body, 0)
    IN  IF c.matches THEN Gives(g.w, AtLeast(g.r, 4)) ELSE Gives(w, OK(4))

(* What a command of the line teaches the host about its visitor. *)
adaptToBehavior(w, c) ==
    LET n == IF "interest" \in DOMAIN c /\ w.se.interest < 2 THEN w.se.interest + 1
             ELSE w.se.interest
    IN  [w EXCEPT !.se.interest = n, !.sh = IF n >= 2 THEN SeedLures(@) ELSE @]

(* The result of the line takes over everything but a payload that a later
   command does not replace, and the depth.                                *)
Merged(acc, r) ==
    [r EXCEPT !.out = acc.out + r.out, !.depth = Max({acc.depth, r.depth}),
              !.stage = IF r.stage = "" THEN acc.stage ELSE @,
              !.path = IF r.stage = "" THEN acc.path ELSE @,
              !.rel = IF r.stage = "" THEN acc.rel ELSE @]

ConsumesInput(c) == c.kind = "pipe" /\ c.stages[1].do.op \in {"cat", "tee", "sh", "crontab"}

(* After a command of a line, in the fore- or background. *)
Finished(acc, c, g) ==
    LET v == [adaptToBehavior(g.w, c) EXCEPT !.se.status = g.r.status,
                                             !.se.depth = Max({@, g.r.depth})]
        r == Merged(acc, g.r)
    IN  State(v, r, 1, r.exit \/ r.mode # "" \/ r.action \in {"break", "continue"})

(* The commands of a line, one after the other.  The first one gets the
   input, and later ones that consume it.                                  *)
RunParts(w, parts, in) ==
    LET step(st, part) ==
          LET c == part.cmd
              g == exec(st.w, c, IF st.in = 0 \/ ConsumesInput(c) THEN in ELSE 0)
          IN  IF Skipped(part, st.r.status) THEN st
              ELSE Finished(st.r, c, IF GoesToBackground(part)
                                     THEN backgroundResult(g.w, c.stages[1].do, g.r) ELSE g)
        end == Until(step, State(w, OK(0), 0, FALSE), parts)
    IN  Gives(end.w, end.r)

(* A recognised collector is answered at once, without running its commands. *)
executeKnownEnvironmentCollector(w, line) == Gives(w, Shows(6, 1))

(* What a clean-up of competitors removes, whatever its attributes, and what
   it kills: all but the processes of services, unless they have the name of
   a miner.                                                                *)
Competitors == UNION {Under[d] : d \in TempDirs} \cup {p \in Paths : Base[p] \in Miners}
Greedy(s) ==
    {i \in Alive(s) : ~ s.procs[i].quiet
                       \/ (~ s.procs[i].nohup /\ Base[s.procs[i].path] \in Miners)}

(* The local program of a recognised clean-up line, if it names one.  A
   process of that name that was left alive is taken for it, and with `&` it
   gets a number of this session, whatever number it had.                  *)
CleanupPayload(w, line) ==
    LET p == line.starts
        stored == IF Exists(w, p) THEN w.sh ELSE setVirtualFile(w.sh, p, 1)
        t == ensureVirtualPayloadProcess([stored EXCEPT !.exec = IF line.chmod THEN @ \cup {p} ELSE @], p)
        pid == PayloadPid(t, p)
        v == [w EXCEPT !.sh = [t EXCEPT !.procs[pid].disowned = line.disown]]
        numbered == becomeJob(v, pid)
    IN  CASE p = NoPath -> w
          [] p # NoPath /\ ~ line.bg -> v
          [] p # NoPath /\ line.bg /\ line.disown -> [numbered EXCEPT !.se.jobs = w.se.jobs]
          [] OTHER -> numbered

executeKnownResourceCleanup(w, line) ==
    LET swept == KillPids(DeleteAll(w.sh, Competitors \cup {Spool}), Greedy(w.sh))
        v == CleanupPayload([w EXCEPT !.sh = swept, !.se.cron = FALSE], line)
    IN  Gives(IF line.history THEN [v EXCEPT !.sh = deleteVirtualFile(@, History)] ELSE v,
              IF line.starts = NoPath THEN OK(7)
              ELSE [OK(7) EXCEPT !.stage = "executed", !.path = line.starts])

Recognised(w, line) ==
    IF line.kind = "collector" THEN executeKnownEnvironmentCollector(w, line)
                               ELSE executeKnownResourceCleanup(w, line)

(* A whole line.  What a clean-up sequence looks for is seeded first; an `if`
   in the middle of a line splits it in two.                               *)
executeWithInput(w, line, in) ==
    LET v == IF line.kind \in {"cleanup", "resources"} THEN [w EXCEPT !.sh = seedMinerCleanupLures(@)]
             ELSE IF line.kind \in {"probe", "collector"} THEN [w EXCEPT !.sh = seedDeepReality(@, SystemFiles)]
             ELSE w
        g == Recognised(v, line)
        pre == exec(v, line.pre, 0)
    IN  CASE line.kind \in {"collector", "resources"} ->
               Gives([adaptToBehavior(g.w, line) EXCEPT !.se.status = g.r.status], g.r)
          [] line.kind = "embedded" ->
               IF line.op = "&&" /\ pre.r.status # 0 THEN pre ELSE exec(pre.w, line.if, in)
          [] OTHER -> RunParts(v, line.parts, in)

exec(w, node, in) ==
    CASE node.kind = "simple" -> executeOne(w, node.do, in, node.depth)
      [] node.kind = "pipe" -> executePipeline(expandVirtualLine(w, node), node.stages, in)
      [] node.kind = "for" -> executeFor(w, node)
      [] node.kind = "while" -> executeWhile(w, node)
      [] node.kind = "if" -> executeIf(w, node, in)
      [] node.kind = "case" -> executeCase(w, node)
      [] OTHER -> executeWithInput(w, node, in)
=============================================================================
