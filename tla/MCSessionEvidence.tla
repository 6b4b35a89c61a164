------------------------- MODULE MCSessionEvidence -------------------------
(* Two scenes: one SSH session is viewed while it goes on; and two web     *)
(* workers and two SSH sessions record causes and effects.                 *)
EXTENDS SessionEvidence, TLC

CONSTANTS w1, w2

Page(path, ref, bait, canaries) ==
  [log |-> "http", at |-> 0, n |-> 0, sid |-> "h", path |-> path, ref |-> ref, bait |-> bait, canaries |-> canaries]
Bait == Page("bait", "", TRUE, {"backup"})
Followed == Page("next", "bait", FALSE, {})

Ssh(sid, type, canaries) == [log |-> "ssh", at |-> 0, n |-> 0, sid |-> sid, type |-> type, canaries |-> canaries]
Signal(sid, kind, label) ==
  [log |-> "intel", at |-> 0, n |-> 0, sid |-> sid, kind |-> kind, label |-> label, completed |-> TRUE]

Connect(s) == <<Ssh(s, "connect", {})>>
Login(s) == Connect(s) \o <<Ssh(s, "auth", {})>>
Shell(s) == <<Ssh(s, "shell", {}), Ssh(s, "command", {})>>
Exec(s) == <<Ssh(s, "exec", {})>>
Request(s) == <<Ssh(s, "request", {})>>
Touch(s) == <<Ssh(s, "command", {"backup"}), Signal(s, "canary", "backup")>>
Upload(s) == <<Ssh(s, "exec", {}), Signal(s, "staging", "/tmp/x")>>
Execute(s) == <<Ssh(s, "exec", {}), Signal(s, "execution", "/tmp/x")>>

TraceScripts ==
  [a \in Actors |->
     CASE a \in Workers -> {<<Bait>>, <<Followed>>}
       [] a \in Sids \X {"conn"} -> {Connect(a[1])}
       [] a = <<"s1", "chan">> -> {Touch("s1"), Execute("s1")}
       [] a = <<"s2", "chan">> -> {Upload("s2")}]

ViewScripts ==
  [a \in Actors |-> CASE a = <<"s1", "conn">> -> {Connect("s1"), Login("s1"), Request("s1")}
                       [] a = <<"s1", "chan">> -> {Shell("s1"), Exec("s1")}
                       [] OTHER -> {}]

Bounds(scripts, faults, views, losses, restarts) ==
  [scripts |-> scripts, faults |-> faults, views |-> views, losses |-> losses, restarts |-> restarts]

MCScenes ==
  [view |-> [scripts |-> ViewScripts, retention |-> 2, bounds |-> Bounds(3, 1, 1, 2, 1)],
   traces |-> [scripts |-> TraceScripts, retention |-> MaxTime, bounds |-> Bounds(4, 0, 0, 1, 0)]]

Symmetry == Permutations(Workers)
=============================================================================
