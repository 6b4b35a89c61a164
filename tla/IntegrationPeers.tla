--------------------------- MODULE IntegrationPeers ---------------------------
(***************************************************************************)
(* The reverse proxies that vouch for requests (store/integrations.go).    *)
(* A peer reports in on a check path; the trap records a verified or a     *)
(* failed check and saves the list, a verified one at most once every      *)
(* PersistEvery.  One integration name is modelled: a peer is a source     *)
(* address and the signing key it used, "" for none.                       *)
(***************************************************************************)
EXTENDS Integers, Tables

CONSTANTS
    Sources,       \* addresses of peers
    PrivateSources,\* the ones in a private or loopback range
    SigningKeys,   \* key ids of the configured secrets
    PersistEvery   \* five minutes between routine saves of one peer

ASSUME PeersAssumption ==
    /\ PrivateSources \subseteq Sources
    /\ "" \notin SigningKeys
    /\ PersistEvery \in Nat

VARIABLES
    peers,         \* integrationPeers: <<source, key id>> -> row
    persistMark,   \* integrationPersist: <<source, key id>> -> time
    peersDisk,     \* integration-peers.json
    peersSavedAt,  \* history: time of the last write that worked
    peersFailed    \* history: the last write failed

peerVars == <<peers, persistMark, peersDisk, peersSavedAt, peersFailed>>

PeerRows(times) == [trust : {"", "signed", "private-peer"}, verified : times, failing : BOOLEAN]

\* persistIntegrationPeersLocked
persistPeers(new, ok, now) ==
    IF ok THEN peersDisk' = new /\ peersSavedAt' = now /\ peersFailed' = FALSE
          ELSE peersFailed' = TRUE /\ UNCHANGED <<peersDisk, peersSavedAt>>

\* A row from a version without key ids becomes the row of the key that
\* verified it; every other new row starts empty.
promoted(source, key) ==
    LET legacy == <<source, "">>
    IN  key # "" /\ <<source, key>> \notin DOMAIN peers
        /\ legacy \in DOMAIN peers /\ peers[legacy].trust = "signed"

\* Mutant: a routine save looks only at whether the row changed.
persistDueNever(changed, key, now) == changed

persistDue(changed, key, now) ==
    \/ changed
    \/ key \notin DOMAIN persistMark
    \/ now - persistMark[key] >= PersistEvery

\* RecordIntegrationVerified: a valid check.  Without secrets the trust is
\* "private-peer" and there is no key.
RecordIntegrationVerified(source, id, ok, now) ==
    LET key     == <<source, id>>
        drop    == IF promoted(source, id) THEN {<<source, "">>} ELSE {}
        trust   == IF id = "" THEN "private-peer" ELSE "signed"
        new     == Put([k \in DOMAIN peers \ drop |-> peers[k]], key,
                       [trust |-> trust, verified |-> now, failing |-> FALSE])
        marks   == [k \in DOMAIN persistMark \ drop |-> persistMark[k]]
        changed == key \notin DOMAIN peers \/ peers[key].trust # trust
    IN  /\ peers' = new
        /\ IF persistDue(changed, key, now)
           THEN /\ persistPeers(new, ok, now)
                /\ persistMark' = IF ok THEN Put(marks, key, now) ELSE marks
           ELSE ok /\ persistMark' = marks /\ UNCHANGED <<peersDisk, peersSavedAt, peersFailed>>

\* RecordIntegrationFailure: charged to some row of that source; only a
\* private source gets a row of its own.  The write's result is ignored and
\* the mark set in any case.
RecordIntegrationFailure(source, ok, now) ==
    LET known == {k \in DOMAIN peers : k[1] = source}
        fresh == IF known = {} /\ source \in PrivateSources THEN {<<source, "">>} ELSE {}
        row(k) == IF k \in known THEN [peers[k] EXCEPT !.failing = TRUE]
                                 ELSE [trust |-> "", verified |-> 0, failing |-> TRUE]
    IN  \E key \in known \cup fresh :
          /\ peers' = Put(peers, key, row(key))
          /\ persistPeers(peers', ok, now)
          /\ persistMark' = Put(persistMark, key, now)

\* A new process reads the file and has marked nothing as saved.
PeersRestart ==
    /\ peers' = peersDisk
    /\ persistMark' = <<>>
    /\ peersFailed' = FALSE
    /\ UNCHANGED <<peersDisk, peersSavedAt>>

PeersInit(rows) ==
    /\ peers = rows /\ peersDisk = rows
    /\ persistMark = <<>>
    /\ peersSavedAt = 0
    /\ peersFailed = FALSE

PeersTypeOK ==
    LET keys == Sources \X (SigningKeys \cup {""})
    IN  /\ DOMAIN peers \subseteq keys
        /\ DOMAIN persistMark \subseteq DOMAIN peers
        /\ \A k \in DOMAIN peers : peers[k] \in PeerRows(Nat)

(***************************************************************************)
(* Saving is throttled per peer, and a check may rename a row, add one or  *)
(* only move its time.  Unless the last write failed, the file still lists *)
(* the peers that are known, with their trust, and a restart loses at most *)
(* PersistEvery of verifications.                                          *)
(***************************************************************************)
PeersSaved ==
    peersFailed \/
    /\ DOMAIN peersDisk = DOMAIN peers
    /\ \A k \in DOMAIN peers :
          /\ peersDisk[k].trust = peers[k].trust
          /\ peersDisk[k].verified = peers[k].verified \/ peers[k].verified < peersSavedAt + PersistEvery
=============================================================================
