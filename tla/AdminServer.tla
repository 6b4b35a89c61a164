----------------------------- MODULE AdminServer -----------------------------
(***************************************************************************)
(* The administration interface: sign-in with back-off, sessions held in   *)
(* memory, the guard in front of every handler, the settings handlers, the *)
(* release lookup and the SSH console (server/admin.go, admin_auth.go,     *)
(* admin_update.go, admin_ssh.go), composed with what the handlers change  *)
(* (TargetReality) and with the trap requests and peer checks that touch   *)
(* the same store.                                                         *)
(*                                                                         *)
(* A token is the number of the sign-in that drew it; a request either     *)
(* carries the CSRF value of its session or it does not.  A request is     *)
(* admitted in one step and handled in a later one.                        *)
(***************************************************************************)
EXTENDS TargetReality, IntegrationPeers

CONSTANTS
    Browsers,         \* administrators' browsers, each with its address
    MaxSessions,      \* maxAdminSessions
    SessionLifetime,  \* adminSessionLifetime
    FailureWindow,    \* ten minutes without a failure forget the count
    MaxFailureRows,   \* addresses whose failures are kept
    UpdateInterval,   \* zentLoopUpdateInterval
    Consoles,         \* TCP connections to the SSH console
    ConsoleIP,        \* the address each of them comes from
    MaxConsoles,      \* adminSSHMaxConcurrent
    MaxPerIP,         \* adminSSHMaxPerIP
    DomainLists,      \* bodies of PUT trusted-domains
    ProfileLists,     \* bodies of PUT target-realities
    MaxTime,          \* bound on the clock
    MaxInputs,        \* bound on what the outside does
    MaxFaults         \* bound on failed writes

ASSUME AdminAssumption ==
    /\ MaxSessions \in Nat \ {0} /\ MaxFailureRows \in Nat \ {0}
    /\ MaxConsoles \in Nat \ {0} /\ MaxPerIP \in Nat \ {0}
    /\ SessionLifetime \in Nat \ {0}
    /\ \A n \in {FailureWindow, UpdateInterval, MaxTime, MaxInputs, MaxFaults} : n \in Nat
    /\ DOMAIN ConsoleIP = Consoles
    /\ \A p \in ProfileLists : \A k \in DOMAIN p :
          k = [host |-> k.host, wild |-> k.wild] /\ k.wild \in BOOLEAN

VARIABLES
    now,          \* the clock
    sessions,     \* adminSessions: token -> time it was created
    drawn,        \* tokens drawn so far
    cookie,       \* the token each browser holds, 0 for none
    failures,     \* authFailures: browser -> count and time of the last
    calls,        \* the request each browser is waiting for
    update,       \* updateState: Checking, its start, CheckedAt (0: never)
    console,      \* how far each console connection got
    consoleSem,   \* slots taken of sem
    perIP,        \* perIP
    inputs,       \* what the outside has done so far
    faults        \* failed writes so far

adminVars == <<now, sessions, drawn, cookie, failures, calls, update,
               console, consoleSem, perIP, inputs, faults>>
vars == <<realityVars, peerVars, adminVars>>

NoCall == [op |-> "none", arg |-> ""]

-----------------------------------------------------------------------------
(***************************************************************************)
(* Sessions                                                                *)
(***************************************************************************)

sessionLive(t) == t \in DOMAIN sessions /\ sessions[t] + SessionLifetime > now

\* A lookup with an expired token removes the session.
adminSessionFromRequest(b) ==
    sessions' = [t \in {u \in DOMAIN sessions : u = cookie[b] => sessionLive(u)} |-> sessions[t]]

\* Mutant: the newest session is evicted instead of the oldest.
createAdminSessionNewest(t) ==
    LET live  == {u \in DOMAIN sessions : sessionLive(u)}
        extra == Cardinality(live) - (MaxSessions - 1)
    IN  \E evicted \in SUBSET live :
          /\ Cardinality(evicted) = IF extra > 0 THEN extra ELSE 0
          /\ \A e \in evicted, k \in live \ evicted : sessions[e] >= sessions[k]
          /\ sessions' = Put([u \in live \ evicted |-> sessions[u]], t, now)

\* Expired sessions go, then the oldest while there is no room.
createAdminSession(t) ==
    LET live  == {u \in DOMAIN sessions : sessionLive(u)}
        extra == Cardinality(live) - (MaxSessions - 1)
    IN  \E evicted \in SUBSET live :
          /\ Cardinality(evicted) = IF extra > 0 THEN extra ELSE 0
          /\ \A e \in evicted, k \in live \ evicted : sessions[e] <= sessions[k]
          /\ sessions' = Put([u \in live \ evicted |-> sessions[u]], t, now)

(***************************************************************************)
(* Failed sign-ins: a count per address, forgotten after a quiet window    *)
(***************************************************************************)
stale(row) == now - row.last > FailureWindow

\* Over the limit the forgotten rows go first, then any row but this one.
recordAdminAuthFailure(b) ==
    LET old   == IF b \in DOMAIN failures /\ ~stale(failures[b]) THEN failures[b].count ELSE 0
        all   == Put(failures, b, [count |-> old + 1, last |-> now])
        fresh == {c \in DOMAIN all : ~stale(all[c])}
    IN  IF Cardinality(DOMAIN all) <= MaxFailureRows
        THEN failures' = all
        ELSE \E kept \in SUBSET fresh :
               /\ b \in kept
               /\ Cardinality(kept) = IF Cardinality(fresh) < MaxFailureRows
                                      THEN Cardinality(fresh) ELSE MaxFailureRows
               /\ failures' = [c \in kept |-> all[c]]

clearAdminAuthFailures(b) == failures' = Delete(failures, b)

\* kickAdminUpdateCheck: one lookup at a time and per interval.
kickAdminUpdateCheck ==
    update' = IF update.checking \/ (update.checkedAt # 0 /\ now - update.checkedAt < UpdateInterval)
              THEN update
              ELSE [update EXCEPT !.checking = TRUE, !.started = now]

-----------------------------------------------------------------------------
(***************************************************************************)
(* What the outside does                                                   *)
(***************************************************************************)
\* Refused requests change nothing and are not counted.
Input == inputs < MaxInputs /\ inputs' = inputs + 1

DiskWrite(ok) ==
    /\ ok \in BOOLEAN
    /\ faults' = IF ok THEN faults ELSE faults + 1
    /\ faults' <= MaxFaults

quietConsole == UNCHANGED <<console, consoleSem, perIP>>

\* POST /api/auth/login with the right credentials.
adminLogin(b) ==
    /\ Input /\ calls[b] = NoCall
    /\ clearAdminAuthFailures(b)
    /\ drawn' = drawn + 1
    /\ createAdminSession(drawn')
    /\ cookie' = [cookie EXCEPT ![b] = drawn']
    /\ kickAdminUpdateCheck
    /\ quietConsole
    /\ UNCHANGED <<realityVars, peerVars, now, calls, faults>>

\* ... with wrong ones: counted, and answered after the back-off.
adminLoginRefused(b) ==
    /\ Input /\ calls[b] = NoCall
    /\ recordAdminAuthFailure(b)
    /\ calls' = [calls EXCEPT ![b] = [op |-> "refused", arg |-> ""]]
    /\ quietConsole
    /\ UNCHANGED <<realityVars, peerVars, now, sessions, drawn, cookie, update, faults>>

\* POST /api/auth/logout with the session's CSRF value.
adminLogout(b, csrf) ==
    /\ calls[b] = NoCall /\ sessionLive(cookie[b]) /\ csrf
    /\ Input
    /\ sessions' = Delete(sessions, cookie[b])
    /\ cookie' = [cookie EXCEPT ![b] = 0]
    /\ quietConsole
    /\ UNCHANGED <<realityVars, peerVars, now, drawn, failures, calls, update, faults>>

\* The requests behind adminSessionAuth.
AdminOps == {[op |-> "info", arg |-> ""]}
            \cup {[op |-> "domains", arg |-> d] : d \in DomainLists}
            \cup {[op |-> "profiles", arg |-> p] : p \in ProfileLists}
            \cup {[op |-> "reset", arg |-> h] : h \in Hosts}

\* adminSessionAuth: a live session, and its CSRF value for a change.
adminSessionAuth(b, call, csrf) ==
    /\ calls[b] = NoCall /\ sessionLive(cookie[b])
    /\ call.op = "info" \/ csrf
    /\ Input
    /\ calls' = [calls EXCEPT ![b] = call]
    /\ quietConsole
    /\ UNCHANGED <<realityVars, peerVars, now, sessions, drawn, cookie, failures, update, faults>>

\* The terminal dashboard reads with Basic credentials and no session.
adminBasicAuth(b) ==
    /\ calls[b] = NoCall /\ ~sessionLive(cookie[b])
    /\ Input
    /\ adminSessionFromRequest(b)
    /\ clearAdminAuthFailures(b)
    /\ calls' = [calls EXCEPT ![b] = [op |-> "info", arg |-> ""]]
    /\ quietConsole
    /\ UNCHANGED <<realityVars, peerVars, now, drawn, cookie, update, faults>>

\* Any request or sign-out without a live session is refused: an expired
\* session is dropped, and the sign-out also takes the cookie.  A change or
\* a sign-out with a wrong CSRF value is refused without any effect.
adminRefused(b, signOut) ==
    /\ calls[b] = NoCall /\ ~sessionLive(cookie[b])
    /\ adminSessionFromRequest(b)
    /\ cookie' = IF signOut THEN [cookie EXCEPT ![b] = 0] ELSE cookie
    /\ quietConsole
    /\ UNCHANGED <<realityVars, peerVars, now, drawn, failures, calls, update, inputs, faults>>

Returns(b) == calls' = [calls EXCEPT ![b] = NoCall]

\* The back-off is over, or the client went away.
loginAnswered(b) ==
    /\ calls[b].op = "refused" /\ Returns(b)
    /\ quietConsole
    /\ UNCHANGED <<realityVars, peerVars, now, sessions, drawn, cookie, failures, update, inputs, faults>>

\* GET /api/info asks for a release lookup.
info(b) ==
    /\ calls[b].op = "info" /\ Returns(b)
    /\ kickAdminUpdateCheck
    /\ quietConsole
    /\ UNCHANGED <<realityVars, peerVars, now, sessions, drawn, cookie, failures, inputs, faults>>

\* PUT trusted-domains, PUT and DELETE target-realities.
changeSettings(b, ok) ==
    /\ DiskWrite(ok) /\ Returns(b)
    /\ \/ calls[b].op = "domains"  /\ SetManualTrustedDomains(calls[b].arg, ok)
       \/ calls[b].op = "profiles" /\ SetTargetRealityProfiles(calls[b].arg, ok)
       \/ calls[b].op = "reset"    /\ ResetTargetRealityState(calls[b].arg, ok)
    /\ quietConsole
    /\ UNCHANGED <<peerVars, now, sessions, drawn, cookie, failures, update, inputs>>

\* refreshAdminUpdateState: an answer or the timeout; the time of the check
\* is the time it was asked for.  Which version came back is left out.
refreshAdminUpdateState ==
    /\ update.checking
    /\ update' = [checking |-> FALSE, started |-> update.started, checkedAt |-> update.started]
    /\ quietConsole
    /\ UNCHANGED <<realityVars, peerVars, now, sessions, drawn, cookie, failures, calls, inputs, faults>>

-----------------------------------------------------------------------------
(***************************************************************************)
(* The SSH console: a slot, then a slot of the address, a handshake with a *)
(* deadline, one dashboard per channel; both slots return at the end       *)
(***************************************************************************)
quietWeb == UNCHANGED <<realityVars, peerVars, now, sessions, drawn, cookie, failures, calls,
                        update, faults>>

\* acceptConn: refused at once when all slots are taken.
acceptConn(c) ==
    /\ console[c] = "away" /\ consoleSem < MaxConsoles
    /\ Input
    /\ consoleSem' = consoleSem + 1
    /\ console' = [console EXCEPT ![c] = "slot"]
    /\ UNCHANGED perIP /\ quietWeb

count(ip) == IF ip \in DOMAIN perIP THEN perIP[ip] ELSE 0

\* Mutant: a connection refused for its address keeps its slot.
acquireIPLeaks(c) ==
    /\ console[c] = "slot"
    /\ IF count(ConsoleIP[c]) >= MaxPerIP
       THEN console' = [console EXCEPT ![c] = "away"] /\ UNCHANGED <<perIP, consoleSem>>
       ELSE /\ perIP' = Put(perIP, ConsoleIP[c], count(ConsoleIP[c]) + 1)
            /\ console' = [console EXCEPT ![c] = "handshake"]
            /\ UNCHANGED consoleSem
    /\ UNCHANGED inputs /\ quietWeb

acquireIP(c) ==
    /\ console[c] = "slot"
    /\ IF count(ConsoleIP[c]) >= MaxPerIP
       THEN console' = [console EXCEPT ![c] = "leaving"] /\ UNCHANGED perIP
       ELSE /\ perIP' = Put(perIP, ConsoleIP[c], count(ConsoleIP[c]) + 1)
            /\ console' = [console EXCEPT ![c] = "handshake"]
    /\ UNCHANGED <<consoleSem, inputs>> /\ quietWeb

\* handleConn: the handshake succeeds, or fails, or runs into its deadline.
handleConn(c) ==
    /\ console[c] = "handshake"
    /\ \E next \in {"open", "closed"} : console' = [console EXCEPT ![c] = next]
    /\ UNCHANGED <<consoleSem, perIP, inputs>> /\ quietWeb

\* handleAdminSSHSession: a shell starts once; its end closes the channel
\* but not the connection, which has no deadline any more.
handleAdminSSHSession(c) ==
    /\ \/ console[c] = "open"  /\ console' = [console EXCEPT ![c] = "shell"]
       \/ console[c] = "shell" /\ console' = [console EXCEPT ![c] = "done"]
       \/ console[c] \in {"open", "shell", "done"} /\ console' = [console EXCEPT ![c] = "closed"]
    /\ UNCHANGED <<consoleSem, perIP, inputs>> /\ quietWeb

releaseIP(c) ==
    /\ console[c] = "closed"
    /\ perIP' = IF count(ConsoleIP[c]) <= 1
                THEN Delete(perIP, ConsoleIP[c])
                ELSE [perIP EXCEPT ![ConsoleIP[c]] = @ - 1]
    /\ console' = [console EXCEPT ![c] = "leaving"]
    /\ UNCHANGED <<consoleSem, inputs>> /\ quietWeb

\* The deferred return of the slot.
releaseSlot(c) ==
    /\ console[c] = "leaving"
    /\ consoleSem' = consoleSem - 1
    /\ console' = [console EXCEPT ![c] = "away"]
    /\ UNCHANGED <<perIP, inputs>> /\ quietWeb

-----------------------------------------------------------------------------
(***************************************************************************)
(* The trap's side of the store, time and restarts                         *)
(***************************************************************************)
quietAdmin == UNCHANGED <<now, sessions, drawn, cookie, failures, calls, update>>

TrapRequest(w, h, r) ==
    /\ Input /\ storyBegin(w, h, r)
    /\ quietAdmin /\ quietConsole /\ UNCHANGED <<peerVars, faults>>

TrapAnswer(w, ok) ==
    /\ DiskWrite(ok) /\ ObserveTargetReality(w, ok)
    /\ quietAdmin /\ quietConsole /\ UNCHANGED <<peerVars, inputs>>

\* integrationMeta: signed by a configured key, or unsigned from a private
\* address when no secret is configured.
integrationValid(source, id) ==
    IF SigningKeys = {} THEN id = "" /\ source \in PrivateSources ELSE id \in SigningKeys

\* A check on the integration path.
PeerVerified(source, id, ok) ==
    /\ integrationValid(source, id)
    /\ Input /\ DiskWrite(ok)
    /\ RecordIntegrationVerified(source, id, ok, now)
    /\ quietAdmin /\ quietConsole /\ UNCHANGED realityVars

PeerFailed(source, ok) ==
    /\ Input /\ DiskWrite(ok)
    /\ RecordIntegrationFailure(source, ok, now)
    /\ quietAdmin /\ quietConsole /\ UNCHANGED realityVars

Tick ==
    /\ now < MaxTime /\ now' = now + 1
    /\ quietConsole
    /\ UNCHANGED <<realityVars, peerVars, sessions, drawn, cookie, failures, calls, update, inputs, faults>>

\* Sessions, failures, lookups and consoles live in memory; browsers keep
\* their cookies.
Restart ==
    /\ Input
    /\ RealityRestart /\ PeersRestart
    /\ sessions' = <<>> /\ failures' = <<>>
    /\ calls' = [b \in Browsers |-> NoCall]
    /\ update' = [checking |-> FALSE, started |-> 0, checkedAt |-> 0]
    /\ console' = [c \in Consoles |-> "away"]
    /\ consoleSem' = 0 /\ perIP' = <<>>
    /\ UNCHANGED <<now, drawn, cookie, faults>>

\* What a version without key ids left in integration-peers.json.
LegacyRow == [trust |-> "signed", verified |-> 0, failing |-> FALSE]

Init ==
    /\ \E domains \in DomainLists : domains \subseteq Hosts /\ RealityInit(domains, <<>>)
    /\ \E old \in SUBSET Sources : PeersInit([k \in old \X {""} |-> LegacyRow])
    /\ now = 1
    /\ sessions = <<>> /\ drawn = 0
    /\ cookie = [b \in Browsers |-> 0]
    /\ failures = <<>>
    /\ calls = [b \in Browsers |-> NoCall]
    /\ update = [checking |-> FALSE, started |-> 0, checkedAt |-> 0]
    /\ console = [c \in Consoles |-> "away"]
    /\ consoleSem = 0 /\ perIP = <<>>
    /\ inputs = 0 /\ faults = 0

Next ==
    \/ \E b \in Browsers : \/ adminLogin(b) \/ adminLoginRefused(b)
                           \/ loginAnswered(b) \/ info(b)
                           \/ adminBasicAuth(b)
                           \/ \E signOut \in BOOLEAN : adminRefused(b, signOut)
                           \/ \E csrf \in BOOLEAN : adminLogout(b, csrf)
                           \/ \E call \in AdminOps, csrf \in BOOLEAN :
                                 adminSessionAuth(b, call, csrf)
                           \/ \E ok \in BOOLEAN : changeSettings(b, ok)
    \/ refreshAdminUpdateState
    \/ \E c \in Consoles : \/ acceptConn(c) \/ acquireIP(c) \/ handleConn(c)
                           \/ handleAdminSSHSession(c) \/ releaseIP(c) \/ releaseSlot(c)
    \/ \E w \in Workers : \/ \E h \in Hosts, r \in StoryRequests : TrapRequest(w, h, r)
                          \/ \E ok \in BOOLEAN : TrapAnswer(w, ok)
    \/ \E s \in Sources, ok \in BOOLEAN : \/ PeerFailed(s, ok)
                                          \/ \E id \in SigningKeys \cup {""} : PeerVerified(s, id, ok)
    \/ Tick
    \/ Restart

Spec == Init /\ [][Next]_vars

-----------------------------------------------------------------------------
(***************************************************************************)
(* Types and limits: createAdminSession and recordAdminAuthFailure keep    *)
(* their tables within their caps however sign-ins, failures and expiry    *)
(* follow each other.                                                      *)
(***************************************************************************)
TypeOK ==
    /\ RealityTypeOK /\ PeersTypeOK
    /\ DOMAIN sessions \subseteq 1..drawn
    /\ Cardinality(DOMAIN sessions) <= MaxSessions
    /\ Cardinality(DOMAIN failures) <= MaxFailureRows
    /\ \A b \in Browsers : cookie[b] \in 0..drawn
    /\ update.checkedAt \in 0..now
    /\ consoleSem \in 0..MaxConsoles
    /\ \A ip \in DOMAIN perIP : perIP[ip] \in 1..MaxPerIP

(***************************************************************************)
(* An administrator who signed in stays signed in.  A session that is      *)
(* still valid goes away only when the browser that holds it signs out, at *)
(* a restart, or when MaxSessions others that are at least as recent are   *)
(* valid: sign-ins elsewhere, failed sign-ins, expiry of other sessions    *)
(* and requests forged without the CSRF value never end it.                *)
(***************************************************************************)
SessionsKept ==
    [][\A t \in DOMAIN sessions \ DOMAIN sessions' : sessionLive(t) =>
          \/ \E b \in Browsers : cookie[b] = t /\ cookie'[b] = 0
          \/ sessions' = <<>> /\ console' = [c \in Consoles |-> "away"]
          \/ Cardinality({u \in DOMAIN sessions' : sessions'[u] >= sessions[t]}) >= MaxSessions]_vars

(***************************************************************************)
(* The console gives back what it took: the slots taken are those of the   *)
(* connections between acceptance and their deferred return, and every     *)
(* address is charged for exactly its own, refused connections included.   *)
(***************************************************************************)
ConsoleAccounted ==
    /\ consoleSem = Cardinality({c \in Consoles : console[c] # "away"})
    /\ \A ip \in {ConsoleIP[c] : c \in Consoles} :
          count(ip) = Cardinality({c \in Consoles :
                         ConsoleIP[c] = ip /\ console[c] \notin {"away", "slot", "leaving"}})
=============================================================================
