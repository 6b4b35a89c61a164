--------------------------- MODULE MCAdminServer ---------------------------
(* A small instance of AdminServer: one site with a subdomain, two browsers, *)
(* three console connections from two addresses, one proxy with one key.    *)
EXTENDS AdminServer, TLC

MCBelow == {<<"shop", "site">>}
MCConsoleIP == [c \in Consoles |-> IF c = "c3" THEN "y" ELSE "x"]

Plain(c) == [candidate |-> c, owner |-> "", cloud |-> "", follow |-> FALSE,
             success |-> TRUE, gate |-> "pass"]
MCStoryRequests ==
    {Plain("laravel"), Plain("wordpress"),
     [Plain("php") EXCEPT !.follow = TRUE],
     [Plain("laravel") EXCEPT !.gate = "redirect", !.owner = "php", !.cloud = "aws"]}

Guided == [mode |-> "guided", apps |-> {"wordpress"}, infra |-> {"docker"}, inherit |-> TRUE]
MCDomainLists == {{}, {"site"}, {"bad name"}}
MCProfileLists == {<<>>, ([host |-> "site", wild |-> FALSE] :> Guided)
                         @@ ([host |-> "shop", wild |-> TRUE] :> Guided)}

\* The console, the proxies' checks, failed sign-ins and the rest share no
\* state but the restart: they are exercised one at a time.
OneAtATime ==
    LET used == {p \in {"console", "peers", "failures", "story"} :
                   CASE p = "console"  -> consoleSem > 0
                     [] p = "peers"    -> persistMark # <<>> \/ peersFailed
                     [] p = "failures" -> failures # <<>>
                     [] p = "story"    -> realityStates # <<>> \/ \E w \in Workers : story[w] # Idle}
    IN  /\ Cardinality(used) <= 1
        /\ used \cap {"console", "peers"} # {} => drawn = 0
        /\ "story" \in used => now = 1

Symmetry == Permutations(Workers) \cup Permutations(Browsers)
============================================================================
