--------------------------- MODULE MCVirtualHost ----------------------------
(* Two sessions of one source, s1 and s2, on a host with few names and small
   quotas.  Session s1 works through the commands, s2 interferes.           *)
EXTENDS VirtualHost

CONSTANTS s1, s2

MCPaths == {"/tmp/x", "/tmp/y", "/etc/shadow", "script", "spool", "history", "nohup.out",
            "unit", "lure"}
MCDirs == {"/tmp", "/home"}
MCBase == [p \in MCPaths |-> p]
MCUnder == [d \in MCDirs |-> IF d = "/tmp" THEN {"/tmp/x", "/tmp/y"} ELSE {}]
MCStaging == {"/tmp/x", "/tmp/y"}
MCSeedFiles == "script" :> 2 @@ "history" :> 1
MCSeedDirs == {"/tmp"}
MCLures == "lure" :> 1
MCMiners == {"lure"}
MCSystemFiles == "/etc/shadow" :> 1

----------------------------------------------------------------------------
(* Lines *)

Stage(c) == [do |-> c, from |-> NoPath, to |-> NoPath, append |-> FALSE]
To(c, p) == [Stage(c) EXCEPT !.to = p]
Pipe(stages) == [kind |-> "pipe", stages |-> stages]
Cmd(c) == Pipe(<<Stage(c)>>)
Part(before, cmd) == [before |-> before, cmd |-> cmd, bg |-> FALSE]
Bg(c) == [before |-> ";", cmd |-> Cmd(c), bg |-> TRUE]
Then(c) == Part(";", Cmd(c))
And(c) == Part("&&", Cmd(c))
Or(c) == Part("||", Cmd(c))
Line(parts) == [kind |-> "chain", parts |-> parts]
Job(line) == [line |-> line, in |-> 0, cats |-> NoPath, runs |-> NoPath]

On(o, p) == [op |-> o, path |-> p]
Do(o) == [op |-> o]
Out(o, n) == [op |-> o, out |-> n]
Flag(o, p, f) == [op |-> o, path |-> p, on |-> f]
Copy(p, q, m) == [op |-> "cp", path |-> p, to |-> q, move |-> m]
Test(p, neg) == [op |-> "test", path |-> p, negated |-> neg]
Verb(v) == [op |-> "systemctl", verb |-> v]
Remote(line, up) == [op |-> "ssh", user |-> "git", reachable |-> up, notice |-> "lure",
                     line |-> line, dir |-> "/home"]
Empty == Line(<< >>)

\* cat > p, with input n; and the same in a group, which hides what it staged.
CatTo(p, n) == [Job(Line(<<Part(";", Pipe(<<To(On("cat", NoPath), p)>>))>>))
                  EXCEPT !.in = n, !.cats = p]
HiddenCatTo(p, n) ==
  [Job(Line(<<Part(";", Cmd([op |-> "group", parts |-> <<Part(";", Pipe(<<To(On("cat", NoPath), p)>>))>>]))>>))
     EXCEPT !.in = n, !.cats = p]

Runs(p) == [Job(Line(<<Then(Test(p, FALSE)), Or([op |-> "curl", path |-> p, out |-> 2]),
                       Then(Flag("chmod", p, TRUE)), And(On("run", p)), Bg(On("run", p))>>))
              EXCEPT !.runs = p]

MCScriptOf == [n \in 0 .. 3 |->
  IF n < 2 THEN << >> ELSE <<Line(<<Then(On("touch", "/tmp/y"))>>), Line(<<Then(On("source", "script"))>>)>>]

Looking == Line(<<Then(Out("identity", 1)), Then(Out("host", 1)), Then(Out("containers", 1)),
                  Then(Out("system", 1)), Then(Out("network", 1)), Then(On("cat", "history")),
                  Then([op |-> "which", known |-> FALSE]), Or(On("pgrep", "/tmp/x")),
                  Part(";", Pipe(<<Stage(Out("echo", 2)), Stage(Out("filter", 1)), To([op |-> "tee", path |-> "/tmp/y", append |-> FALSE], "/tmp/x")>>))>>)
Attributes == Line(<<Then(Flag("chattr", "/tmp/x", TRUE)), Or(On("touch", "/tmp/x")),
                     Then(On("rm", "/tmp/x")), Then(Copy("/tmp/x", "/tmp/y", TRUE))>>)
Moving == Line(<<Then(Copy("script", "/tmp/x", FALSE)), And([op |-> "gzip", path |-> "/tmp/x", to |-> "/tmp/y"]),
                 Then([op |-> "tar", path |-> "/tmp/y", dir |-> "/home", to |-> "/tmp/x"]),
                 Then(On("sed", "/tmp/x")), Then(On("gcc", "/tmp/y"))>>)
Fetching == <<Then([op |-> "curl", path |-> "/tmp/x", out |-> 3]),
                   Then([op |-> "wget", path |-> "/tmp/y", out |-> 3]),
                   Then([op |-> "curl", path |-> "unit", out |-> 2])>>
Persisting == Line(Fetching \o <<Then([op |-> "crontab", flag |-> "-r"]), Then([op |-> "crontab", flag |-> "-"]),
                     Then(Do("history")), Then(Verb("enable --now")), Then(Verb("restart")), Then(Verb("is-active"))>>)
Stopping == Line(<<Then(Verb("stop")), Then(Verb("disable")), Then(On("pkill", "/tmp/x")),
                   Then([op |-> "kill", pid |-> 1]), Then(Do("disown"))>>)
Spawning == Line(<<Bg([op |-> "nohup", path |-> "/tmp/x"]), Bg(On("run", "/tmp/x"))>>)
Looping == Line(<<Part(";", [kind |-> "for", count |-> 3, body |-> Line(<<Then(Test("/tmp/x", TRUE)), And(Do("break"))>>)]),
                  Part(";", [kind |-> "while", cond |-> <<Stage(Test("/home", FALSE))>>, until |-> TRUE,
                             body |-> Line(<<Then([op |-> "mkdir", dir |-> "/home"])>>)]),
                  Part(";", [kind |-> "case", matches |-> TRUE, body |-> Line(<<Then(Do("continue"))>>)])>>)
Branching == [kind |-> "embedded", op |-> "&&", pre |-> Line(<<Then(Test("/tmp/x", FALSE))>>), parts |-> << >>,
              if |-> [kind |-> "if", cond |-> <<Stage(Test("/tmp/y", FALSE))>>, negated |-> TRUE, then |-> Line(<<Then(On("touch", "/tmp/y"))>>),
                      else |-> Empty, suffix |-> Line(<<Then(On("rm", "/tmp"))>>)]]
Nesting == Line(<<Then([op |-> "sudo", inner |-> Do("su")]), Then(Remote(Looking, TRUE)), Then(Remote(Empty, TRUE)),
                  Then(Do("exit")), Then([op |-> "alias", name |-> "ll", as |-> Do("ll")]), Then(Do("ll")),
                  Then([op |-> "env", inner |-> [op |-> "sh", line |-> Line(<<Then(On("source", "script"))>>)]]),
                  Part(";", [kind |-> "pipe", stages |-> <<Stage([op |-> "assign", subst |-> <<Then(Do("shutdown"))>>])>>, interest |-> TRUE]),
                  Part(";", [kind |-> "pipe", stages |-> <<Stage(Do("nosuch"))>>, interest |-> TRUE])>>)
Probing == [kind |-> "probe", parts |-> <<Then(Remote(Empty, FALSE))>>]
Collecting == [kind |-> "collector", interest |-> TRUE]
Sweeping == [kind |-> "resources", starts |-> "/tmp/x", chmod |-> TRUE, bg |-> TRUE,
             disown |-> FALSE, history |-> TRUE]
Cleaning == [kind |-> "cleanup", parts |-> <<Then(On("rm", "/tmp"))>>]
Opens(m, p) == Job(Line(<<Then([op |-> "interactive", mode |-> m, path |-> p])>>))
CronEdit == Job(Line(<<Then([op |-> "crontab", flag |-> "-e"])>>))

\* Short lines, for the races.
Launching == Line(<<Then([op |-> "curl", path |-> "/tmp/x", out |-> 2]),
                    Then(Flag("chmod", "/tmp/x", TRUE)), Bg(On("run", "/tmp/x"))>>)
Serving == Line(<<Then([op |-> "curl", path |-> "unit", out |-> 2]), Then(Verb("start"))>>)
Locking == Line(<<Then(Flag("chattr", "/tmp/x", TRUE))>>)

MixedLines == s1 :> ({CatTo("/tmp/x", 2), HiddenCatTo("/tmp/x", 1), Runs("/tmp/x")}
                  \cup {Job(l) : l \in {Looking, Attributes, Moving, Persisting, Stopping,
                                        Spawning, Looping, Branching, Nesting, Probing, Cleaning, Collecting}}
                  \cup {Job(Sweeping), Job([Sweeping EXCEPT !.disown = TRUE]), Job([Sweeping EXCEPT !.bg = FALSE])}
                  \cup {Opens("nano", "/tmp/y"), Opens("passwd", NoPath), CronEdit})
        @@ s2 :> {Job(Spawning), Runs("/tmp/x"), HiddenCatTo("/tmp/y", 1), Opens("vim", "/tmp/x"), Opens("top", NoPath)}
RacingLines == s1 :> {Job(Launching), Job(Serving), Job(Locking)}
            @@ s2 :> {Job(Launching), Job(Sweeping), Opens("vim", "/tmp/x")}
MCScenes == [mixed |-> [lines |-> MixedLines, requests |-> 2],
             racing |-> [lines |-> RacingLines, requests |-> 3]]
MCMaxJobs == s1 :> [shell |-> 2, exec |-> 1] @@ s2 :> [shell |-> 2, exec |-> 1, sftp |-> 2]
MCUploads == {[path |-> "/tmp/x", n |-> 2, x |-> FALSE], [path |-> "/tmp/y", n |-> 2, x |-> TRUE],
              [path |-> "/tmp/x", n |-> 1, x |-> TRUE]}
=============================================================================
