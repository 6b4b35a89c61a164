-------------------------- MODULE AdminServerProofs --------------------------
(***************************************************************************)
(* Proofs about AdminServer and the parts of the store it composes, for    *)
(* every set of browsers, console connections, hosts, technologies,        *)
(* profiles and peers, and any number of requests, failures and restarts.  *)
(***************************************************************************)
EXTENDS AdminServer, FiniteSetTheorems, TLAPS

-----------------------------------------------------------------------------
(* Tables *)

LEMMA PutEntry ==
  ASSUME NEW f, NEW k, NEW v
  PROVE  /\ DOMAIN Put(f, k, v) = DOMAIN f \cup {k}
         /\ Put(f, k, v)[k] = v
         /\ \A x \in DOMAIN f : x # k => Put(f, k, v)[x] = f[x]
BY DEF Put

LEMMA DeleteEntry ==
  ASSUME NEW f, NEW k
  PROVE  /\ DOMAIN Delete(f, k) = DOMAIN f \ {k}
         /\ \A x \in DOMAIN f \ {k} : Delete(f, k)[x] = f[x]
BY DEF Delete

LEMMA EmptyTable == DOMAIN <<>> = {}
OBVIOUS

-----------------------------------------------------------------------------
(* Integration peers *)

\* Marks are times at which a write was tried, and while the last one has not
\* failed none is later than the last one that worked.
MarksOK ==
  /\ now \in Nat /\ peersSavedAt \in Nat /\ peersSavedAt <= now
  /\ \A k \in DOMAIN persistMark : persistMark[k] \in Nat /\ persistMark[k] <= now
  /\ peersFailed \/ \A k \in DOMAIN persistMark : persistMark[k] <= peersSavedAt

RowsOK == \A k \in DOMAIN peers : peers[k].verified \in Nat

DiskRowsOK == \A k \in DOMAIN peersDisk : peersDisk[k].verified \in Nat

PeersInv == MarksOK /\ RowsOK /\ DiskRowsOK /\ PeersSaved

\* A row that is not due was verified less than PersistEvery after the last write.
LEMMA NotDue ==
  \A n, mark, saved, every \in Nat :
    mark <= saved /\ ~(n - mark >= every) => n < saved + every
OBVIOUS

\* What a step of the server does to the peers.
PeersStep ==
  \/ \E s \in Sources, id \in SigningKeys \cup {""}, ok \in BOOLEAN :
       RecordIntegrationVerified(s, id, ok, now) /\ UNCHANGED now
  \/ \E s \in Sources, ok \in BOOLEAN : RecordIntegrationFailure(s, ok, now) /\ UNCHANGED now
  \/ PeersRestart /\ UNCHANGED now
  \/ UNCHANGED peerVars /\ now' \in Nat /\ now <= now'

\* After a write that worked the file is what is in memory.
LEMMA SavedPeers ==
  ASSUME PeersInv, UNCHANGED now, RowsOK', NEW ok \in BOOLEAN, persistPeers(peers', ok, now),
         \A k \in DOMAIN persistMark' : persistMark'[k] = now \/
            (k \in DOMAIN persistMark /\ persistMark'[k] = persistMark[k])
  PROVE  PeersInv'
<1>0. now \in Nat /\ peersSavedAt \in Nat /\ peersSavedAt <= now
      /\ \A k \in DOMAIN persistMark : persistMark[k] \in Nat /\ persistMark[k] <= now
  BY DEF PeersInv, MarksOK
<1>1. \A k \in DOMAIN persistMark' : persistMark'[k] \in Nat /\ persistMark'[k] <= now
  BY <1>0
<1>2. CASE ok
  <2>1. peersDisk' = peers' /\ peersSavedAt' = now /\ peersFailed' = FALSE
    BY <1>2 DEF persistPeers
  <2>2. MarksOK'
    BY <1>0, <1>1, <2>1 DEF MarksOK
  <2>3. DiskRowsOK' /\ PeersSaved'
    BY <2>1 DEF RowsOK, DiskRowsOK, PeersSaved
  <2> QED BY <2>2, <2>3 DEF PeersInv
<1>3. CASE ~ok
  <2>1. peersFailed' = TRUE /\ UNCHANGED <<peersDisk, peersSavedAt>>
    BY <1>3 DEF persistPeers
  <2>2. MarksOK'
    BY <1>0, <1>1, <2>1 DEF MarksOK
  <2>3. DiskRowsOK' /\ PeersSaved'
    BY <2>1 DEF PeersInv, DiskRowsOK, PeersSaved
  <2> QED BY <2>2, <2>3 DEF PeersInv
<1> QED BY <1>2, <1>3

LEMMA PeersInvStep == ASSUME PeersInv, PeersStep PROVE PeersInv'
<1>0. now \in Nat /\ peersSavedAt \in Nat /\ peersSavedAt <= now /\ PersistEvery \in Nat
      /\ \A k \in DOMAIN persistMark : persistMark[k] \in Nat /\ persistMark[k] <= now
  BY PeersAssumption DEF PeersInv, MarksOK
<1>1. ASSUME NEW s \in Sources, NEW id \in SigningKeys \cup {""}, NEW ok \in BOOLEAN,
             RecordIntegrationVerified(s, id, ok, now), UNCHANGED now
      PROVE  PeersInv'
  <2> DEFINE key == <<s, id>>
             drop == IF promoted(s, id) THEN {<<s, "">>} ELSE {}
             trust == IF id = "" THEN "private-peer" ELSE "signed"
             kept == [k \in DOMAIN peers \ drop |-> peers[k]]
             row == [trust |-> trust, verified |-> now, failing |-> FALSE]
             new == Put(kept, key, row)
             marks == [k \in DOMAIN persistMark \ drop |-> persistMark[k]]
             changed == key \notin DOMAIN peers \/ peers[key].trust # trust
  <2>1. /\ peers' = new
        /\ IF persistDue(changed, key, now)
           THEN /\ persistPeers(new, ok, now)
                /\ persistMark' = IF ok THEN Put(marks, key, now) ELSE marks
           ELSE ok /\ persistMark' = marks /\ UNCHANGED <<peersDisk, peersSavedAt, peersFailed>>
    BY <1>1 DEF RecordIntegrationVerified
  <2>2. DOMAIN kept = DOMAIN peers \ drop /\ \A k \in DOMAIN kept : kept[k] = peers[k]
    OBVIOUS
  <2>3. DOMAIN marks = DOMAIN persistMark \ drop /\ \A k \in DOMAIN marks : marks[k] = persistMark[k]
    OBVIOUS
  <2>4. row.verified = now /\ row.trust = trust
    OBVIOUS
  <2>5. promoted(s, id) => key \notin DOMAIN peers
    BY DEF promoted
  <2>6. ~promoted(s, id) => drop = {}
    OBVIOUS
  <2> HIDE DEF key, drop, kept, row, marks
  <2>7. DOMAIN new = DOMAIN kept \cup {key} /\ new[key] = row
        /\ \A k \in DOMAIN kept : k # key => new[k] = kept[k]
    BY DEF Put
  <2>8. RowsOK'
    BY <1>0, <2>1, <2>2, <2>4, <2>7 DEF RowsOK, PeersInv
  <2> HIDE DEF new
  <2>9. CASE persistDue(changed, key, now)
    <3>1. persistPeers(peers', ok, now)
      BY <2>1, <2>9
    <3>2. DOMAIN Put(marks, key, now) = DOMAIN marks \cup {key} /\ Put(marks, key, now)[key] = now
          /\ \A k \in DOMAIN marks : k # key => Put(marks, key, now)[k] = marks[k]
      BY DEF Put
    <3>3. persistMark' = Put(marks, key, now) \/ persistMark' = marks
      BY <2>1, <2>9
    <3>4. \A k \in DOMAIN persistMark' : persistMark'[k] = now \/
            (k \in DOMAIN persistMark /\ persistMark'[k] = persistMark[k])
      BY <2>3, <3>2, <3>3
    <3> QED BY <1>1, <2>8, <3>1, <3>4, SavedPeers
  <2>10. CASE ~persistDue(changed, key, now)
    <3>1. /\ key \in DOMAIN peers /\ peers[key].trust = trust
          /\ key \in DOMAIN persistMark /\ ~(now - persistMark[key] >= PersistEvery)
      BY <2>10 DEF persistDue
    <3>2. peers' = new /\ persistMark' = marks /\ UNCHANGED <<peersDisk, peersSavedAt, peersFailed>>
      BY <2>1, <2>10
    <3>3. drop = {}
      BY <2>5, <2>6, <3>1
    <3>4. DOMAIN peers' = DOMAIN peers /\ peers'[key] = row
          /\ \A k \in DOMAIN peers : k # key => peers'[k] = peers[k]
      BY <2>2, <2>7, <3>1, <3>2, <3>3
    <3>5. MarksOK'
      BY <1>0, <1>1, <2>3, <3>2 DEF MarksOK, PeersInv
    <3>6. PeersSaved'
      <4>1. CASE peersFailed
        BY <4>1, <3>2 DEF PeersSaved
      <4>2. CASE ~peersFailed
        <5>1. persistMark[key] <= peersSavedAt
          BY <3>1, <4>2 DEF PeersInv, MarksOK
        <5>2. persistMark[key] \in Nat
          BY <1>0, <3>1
        <5>3. now < peersSavedAt + PersistEvery
          <6>1. now \in Nat /\ peersSavedAt \in Nat /\ PersistEvery \in Nat
            BY <1>0
          <6> QED BY <3>1, <5>1, <5>2, <6>1, NotDue
        <5> QED BY <2>4, <3>1, <3>2, <3>4, <4>2, <5>3 DEF PeersSaved, PeersInv
      <4> QED BY <4>1, <4>2
    <3>7. DiskRowsOK'
      BY <3>2 DEF PeersInv, DiskRowsOK
    <3> QED BY <2>8, <3>5, <3>6, <3>7 DEF PeersInv
  <2> QED BY <2>9, <2>10
<1>2. ASSUME NEW s \in Sources, NEW ok \in BOOLEAN, RecordIntegrationFailure(s, ok, now), UNCHANGED now
      PROVE  PeersInv'
  <2> DEFINE known == {k \in DOMAIN peers : k[1] = s}
             row(k) == IF k \in known THEN [peers[k] EXCEPT !.failing = TRUE]
                                      ELSE [trust |-> "", verified |-> 0, failing |-> TRUE]
  <2>1. PICK key : /\ peers' = Put(peers, key, row(key))
                   /\ persistPeers(peers', ok, now)
                   /\ persistMark' = Put(persistMark, key, now)
    BY <1>2 DEF RecordIntegrationFailure
  <2>2. row(key).verified \in Nat
    <3>1. CASE key \in known
      <4>1. peers[key].verified \in Nat
        BY <3>1 DEF PeersInv, RowsOK
      <4>2. [peers[key] EXCEPT !.failing = TRUE].verified = peers[key].verified
        OBVIOUS
      <4> QED BY <3>1, <4>1, <4>2
    <3>2. CASE key \notin known
      BY <3>2
    <3> QED BY <3>1, <3>2
  <2> HIDE DEF row
  <2>3. RowsOK'
    <3>1. DOMAIN peers' = DOMAIN peers \cup {key} /\ peers'[key] = row(key)
          /\ \A k \in DOMAIN peers : k # key => peers'[k] = peers[k]
      BY <2>1 DEF Put
    <3> QED BY <2>2, <3>1 DEF PeersInv, RowsOK
  <2>4. \A k \in DOMAIN persistMark' : persistMark'[k] = now \/
            (k \in DOMAIN persistMark /\ persistMark'[k] = persistMark[k])
    BY <2>1 DEF Put
  <2> QED BY <1>2, <2>1, <2>3, <2>4, SavedPeers
<1>3. CASE PeersRestart /\ UNCHANGED now
  <2>1. DOMAIN persistMark' = {}
    BY <1>3, EmptyTable DEF PeersRestart
  <2>2. /\ peers' = peersDisk /\ peersFailed' = FALSE
        /\ UNCHANGED <<peersDisk, peersSavedAt, now>>
    BY <1>3 DEF PeersRestart
  <2>3. MarksOK'
    BY <1>0, <2>1, <2>2 DEF MarksOK
  <2> QED BY <2>2, <2>3 DEF PeersInv, RowsOK, DiskRowsOK, PeersSaved
<1>4. CASE UNCHANGED peerVars /\ now' \in Nat /\ now <= now'
  <2>1. UNCHANGED <<peers, persistMark, peersDisk, peersSavedAt, peersFailed>>
    BY <1>4 DEF peerVars
  <2>2. MarksOK'
    BY <1>0, <1>4, <2>1 DEF PeersInv, MarksOK
  <2> QED BY <2>1, <2>2 DEF PeersInv, RowsOK, DiskRowsOK, PeersSaved
<1> QED BY <1>1, <1>2, <1>3, <1>4 DEF PeersStep

-----------------------------------------------------------------------------
(* Settings *)

\* What a step of the server does to trusted domains, profiles and learned states.
RealityStep ==
  \/ \E w \in Workers, h \in Hosts, r \in StoryRequests : storyBegin(w, h, r)
  \/ \E w \in Workers, ok \in BOOLEAN : ObserveTargetReality(w, ok)
  \/ \E d \in DomainLists, ok \in BOOLEAN : SetManualTrustedDomains(d, ok)
  \/ \E p \in ProfileLists, ok \in BOOLEAN : SetTargetRealityProfiles(p, ok)
  \/ \E h \in Hosts, ok \in BOOLEAN : ResetTargetRealityState(h, ok)
  \/ RealityRestart
  \/ UNCHANGED realityVars

RecordsOK ==
  /\ told = [domains |-> told.domains, profiles |-> told.profiles]
  /\ realityDisk = [profiles |-> realityDisk.profiles, states |-> realityDisk.states]

SettingsInv == RecordsOK /\ SettingsAsTold

LEMMA SettingsStep == ASSUME SettingsInv, RealityStep PROVE SettingsInv'
<1> USE DEF SettingsInv, RecordsOK, SettingsAsTold
<1>1. ASSUME NEW w \in Workers, NEW h \in Hosts, NEW r \in StoryRequests, storyBegin(w, h, r)
      PROVE  SettingsInv'
  BY <1>1 DEF storyBegin
<1>2. ASSUME NEW w \in Workers, NEW ok \in BOOLEAN, ObserveTargetReality(w, ok) PROVE SettingsInv'
  <2>1. UNCHANGED <<trusted, trustedDisk, told, realityProfiles>>
    BY <1>2 DEF ObserveTargetReality
  <2>2. realityDisk' = realityDisk \/
        realityDisk' = [profiles |-> realityProfiles', states |-> realityStates']
    BY <1>2 DEF ObserveTargetReality, persistTargetRealities
  <2> QED BY <2>1, <2>2
<1>3. ASSUME NEW d \in DomainLists, NEW ok \in BOOLEAN, SetManualTrustedDomains(d, ok)
      PROVE  SettingsInv'
  BY <1>3 DEF SetManualTrustedDomains
<1>4. ASSUME NEW p \in ProfileLists, NEW ok \in BOOLEAN, SetTargetRealityProfiles(p, ok)
      PROVE  SettingsInv'
  <2> DEFINE kept == {k \in DOMAIN realityProfiles : ~realityTargetTrusted(k.host)}
             next == Over(p, [k \in kept |-> realityProfiles[k]])
  <2>1. UNCHANGED <<trusted, trustedDisk>>
    BY <1>4 DEF SetTargetRealityProfiles
  <2>2. \/ UNCHANGED <<realityProfiles, realityDisk, told>>
        \/ /\ realityProfiles' = next /\ told' = [told EXCEPT !.profiles = next]
           /\ realityDisk' = [profiles |-> realityProfiles', states |-> realityStates']
    BY <1>4 DEF SetTargetRealityProfiles, persistTargetRealities
  <2> HIDE DEF next
  <2> QED BY <2>1, <2>2
<1>5. ASSUME NEW h \in Hosts, NEW ok \in BOOLEAN, ResetTargetRealityState(h, ok) PROVE SettingsInv'
  <2>1. UNCHANGED <<trusted, trustedDisk, told, realityProfiles>>
    BY <1>5 DEF ResetTargetRealityState
  <2>2. realityDisk' = realityDisk \/
        realityDisk' = [profiles |-> realityProfiles', states |-> realityStates']
    BY <1>5 DEF ResetTargetRealityState, persistTargetRealities
  <2> QED BY <2>1, <2>2
<1>6. CASE RealityRestart
  BY <1>6 DEF RealityRestart
<1>7. CASE UNCHANGED realityVars
  BY <1>7 DEF realityVars
<1> QED BY <1>1, <1>2, <1>3, <1>4, <1>5, <1>6, <1>7 DEF RealityStep

-----------------------------------------------------------------------------
(* The console *)

\* The connections that hold a slot, and those charged to an address.
Taken == {c \in Consoles : console[c] # "away"}
Charged(ip) == {c \in Consoles : ConsoleIP[c] = ip /\ console[c] \notin {"away", "slot", "leaving"}}

Stages == {"away", "slot", "handshake", "open", "shell", "done", "closed", "leaving"}

\* The slots as numbers, within their limits; an address in the table has one at least.
ConsoleInv ==
  /\ console \in [Consoles -> Stages]
  /\ IsFiniteSet(Taken) /\ consoleSem = Cardinality(Taken) /\ consoleSem <= MaxConsoles
  /\ \A ip \in {ConsoleIP[c] : c \in Consoles} : count(ip) = Cardinality(Charged(ip))
  /\ \A ip \in DOMAIN perIP : perIP[ip] \in 1..MaxPerIP

ConsoleStep ==
  \/ \E c \in Consoles :
       acceptConn(c) \/ acquireIP(c) \/ handleConn(c) \/ handleAdminSSHSession(c)
         \/ releaseIP(c) \/ releaseSlot(c)
  \/ console' = [c \in Consoles |-> "away"] /\ consoleSem' = 0 /\ perIP' = <<>>
  \/ quietConsole

\* What an address is charged for is a part of what is taken.
LEMMA ChargedFinite ==
  ASSUME ConsoleInv, NEW ip PROVE IsFiniteSet(Charged(ip)) /\ Cardinality(Charged(ip)) \in Nat
<1>1. Charged(ip) \subseteq Taken
  BY DEF Charged, Taken
<1> QED BY <1>1, FS_Subset, FS_CardinalityType DEF ConsoleInv

\* A connection moves: what is taken and charged follows its stage.
LEMMA ConsoleMoves ==
  ASSUME ConsoleInv, NEW c \in Consoles, NEW s \in Stages, console' = [console EXCEPT ![c] = s]
  PROVE  /\ console' \in [Consoles -> Stages]
         /\ Taken' = IF s = "away" THEN Taken \ {c} ELSE Taken \cup {c}
         /\ Charged(ConsoleIP[c])' = IF s \in {"away", "slot", "leaving"}
                                     THEN Charged(ConsoleIP[c]) \ {c} ELSE Charged(ConsoleIP[c]) \cup {c}
         /\ \A ip : ip # ConsoleIP[c] => Charged(ip)' = Charged(ip)
<1>0. console \in [Consoles -> Stages]
  BY DEF ConsoleInv
<1>1. console'[c] = s /\ \A d \in Consoles : d # c => console'[d] = console[d]
  BY <1>0
<1>2. console' \in [Consoles -> Stages]
  BY <1>0
<1>3. Taken' = IF s = "away" THEN Taken \ {c} ELSE Taken \cup {c}
  BY <1>1 DEF Taken
<1>4. Charged(ConsoleIP[c])' = IF s \in {"away", "slot", "leaving"}
                               THEN Charged(ConsoleIP[c]) \ {c} ELSE Charged(ConsoleIP[c]) \cup {c}
  BY <1>1 DEF Charged
<1>5. \A ip : ip # ConsoleIP[c] => Charged(ip)' = Charged(ip)
  BY <1>1 DEF Charged
<1> QED BY <1>2, <1>3, <1>4, <1>5


\* A move that leaves the counters alone is one between stages that are counted alike.
LEMMA ConsoleKeeps ==
  ASSUME ConsoleInv, NEW c \in Consoles, NEW s \in Stages, console' = [console EXCEPT ![c] = s],
         s # "away", console[c] # "away", UNCHANGED <<consoleSem, perIP>>,
         console[c] \in {"slot", "leaving"} <=> s \in {"slot", "leaving"}
  PROVE  ConsoleInv'
<1>1. c \in Taken /\ (c \in Charged(ConsoleIP[c]) <=> s \notin {"slot", "leaving"})
  BY DEF Taken, Charged
<1>a. Taken' = Taken \cup {c} /\ console' \in [Consoles -> Stages]
  BY ConsoleMoves
<1>2. Taken' = Taken
  BY <1>1, <1>a
<1>b. Charged(ConsoleIP[c])' = IF s \in {"slot", "leaving"}
                               THEN Charged(ConsoleIP[c]) \ {c} ELSE Charged(ConsoleIP[c]) \cup {c}
  BY ConsoleMoves
<1>3. Charged(ConsoleIP[c])' = Charged(ConsoleIP[c])
  BY <1>1, <1>b
<1>4. \A ip : Charged(ip)' = Charged(ip)
  BY <1>3, ConsoleMoves
<1>5. \A ip : count(ip)' = count(ip)
  BY DEF count
<1> QED BY <1>a, <1>2, <1>4, <1>5 DEF ConsoleInv

LEMMA ConsoleInvStep == ASSUME ConsoleInv, ConsoleStep PROVE ConsoleInv'
<1>0. MaxConsoles \in Nat /\ MaxPerIP \in Nat /\ consoleSem \in Nat /\ IsFiniteSet(Taken)
      /\ console \in [Consoles -> Stages] /\ consoleSem = Cardinality(Taken) /\ consoleSem <= MaxConsoles
  BY AdminAssumption, FS_CardinalityType DEF ConsoleInv
<1>1. ASSUME NEW c \in Consoles, acceptConn(c) PROVE ConsoleInv'
  <2>1. console[c] = "away" /\ consoleSem < MaxConsoles /\ consoleSem' = consoleSem + 1
        /\ console' = [console EXCEPT ![c] = "slot"] /\ perIP' = perIP
    BY <1>1 DEF acceptConn
  <2>2. "slot" \in Stages /\ "slot" # "away"
    BY DEF Stages
  <2>3. c \notin Taken /\ c \notin Charged(ConsoleIP[c])
    BY <2>1 DEF Taken, Charged
  <2>4. Taken' = Taken \cup {c} /\ console' \in [Consoles -> Stages]
    BY <2>1, <2>2, ConsoleMoves
  <2>a. Charged(ConsoleIP[c])' = Charged(ConsoleIP[c]) \ {c}
    BY <2>1, <2>2, ConsoleMoves
  <2>5. Charged(ConsoleIP[c])' = Charged(ConsoleIP[c])
    BY <2>3, <2>a
  <2>6. \A ip : Charged(ip)' = Charged(ip)
    BY <2>1, <2>2, <2>5, ConsoleMoves
  <2>7. \A ip : count(ip)' = count(ip)
    BY <2>1 DEF count
  <2>8. IsFiniteSet(Taken') /\ Cardinality(Taken') = Cardinality(Taken) + 1
    BY <1>0, <2>3, <2>4, FS_AddElement
  <2>9. consoleSem' = Cardinality(Taken') /\ consoleSem' <= MaxConsoles
    BY <1>0, <2>1, <2>8
  <2> QED BY <2>1, <2>4, <2>6, <2>7, <2>8, <2>9 DEF ConsoleInv
<1>2. ASSUME NEW c \in Consoles, acquireIP(c) PROVE ConsoleInv'
  <2>1. console[c] = "slot" /\ consoleSem' = consoleSem
    BY <1>2 DEF acquireIP
  <2>2. {"leaving", "handshake"} \subseteq Stages
    BY DEF Stages
  <2>3. CASE console' = [console EXCEPT ![c] = "leaving"] /\ perIP' = perIP
    BY <2>1, <2>2, <2>3, ConsoleKeeps
  <2>4. CASE /\ console' = [console EXCEPT ![c] = "handshake"]
             /\ perIP' = Put(perIP, ConsoleIP[c], count(ConsoleIP[c]) + 1)
             /\ ~(count(ConsoleIP[c]) >= MaxPerIP)
    <3>1. c \in Taken /\ c \notin Charged(ConsoleIP[c])
      BY <2>1 DEF Taken, Charged
    <3>a. Taken' = Taken \cup {c} /\ console' \in [Consoles -> Stages]
      BY <2>2, <2>4, ConsoleMoves
    <3>2. Taken' = Taken
      BY <3>1, <3>a
    <3>3. Charged(ConsoleIP[c])' = Charged(ConsoleIP[c]) \cup {c}
      BY <2>2, <2>4, ConsoleMoves
    <3>4. \A ip : ip # ConsoleIP[c] => Charged(ip)' = Charged(ip)
      BY <2>2, <2>4, ConsoleMoves
    <3>5. Cardinality(Charged(ConsoleIP[c])') = Cardinality(Charged(ConsoleIP[c])) + 1
      BY <3>1, <3>3, ChargedFinite, FS_AddElement
    <3>6. count(ConsoleIP[c]) = Cardinality(Charged(ConsoleIP[c])) /\ count(ConsoleIP[c]) \in Nat
      BY ChargedFinite DEF ConsoleInv
    <3>7. /\ DOMAIN perIP' = DOMAIN perIP \cup {ConsoleIP[c]}
          /\ perIP'[ConsoleIP[c]] = count(ConsoleIP[c]) + 1
          /\ \A ip \in DOMAIN perIP : ip # ConsoleIP[c] => perIP'[ip] = perIP[ip]
      BY <2>4 DEF Put
    <3>8. count(ConsoleIP[c])' = count(ConsoleIP[c]) + 1
      BY <3>7 DEF count
    <3>9. \A ip : ip # ConsoleIP[c] => count(ip)' = count(ip)
      BY <3>7 DEF count
    <3>10. \A ip \in {ConsoleIP[d] : d \in Consoles} : count(ip)' = Cardinality(Charged(ip)')
      BY <3>4, <3>5, <3>6, <3>8, <3>9 DEF ConsoleInv
    <3>11. count(ConsoleIP[c]) + 1 \in 1..MaxPerIP
      BY <1>0, <2>4, <3>6
    <3>12. \A ip \in DOMAIN perIP' : perIP'[ip] \in 1..MaxPerIP
      BY <3>7, <3>11 DEF ConsoleInv
    <3> QED BY <1>0, <2>1, <3>a, <3>2, <3>10, <3>12 DEF ConsoleInv
  <2> QED BY <1>2, <2>3, <2>4 DEF acquireIP
<1>3. ASSUME NEW c \in Consoles, handleConn(c) PROVE ConsoleInv'
  <2>1. PICK s \in {"open", "closed"} : console' = [console EXCEPT ![c] = s]
    BY <1>3 DEF handleConn
  <2>2. console[c] = "handshake" /\ UNCHANGED <<consoleSem, perIP>>
    BY <1>3 DEF handleConn
  <2>3. s \in Stages
    BY DEF Stages
  <2> QED BY <2>1, <2>2, <2>3, ConsoleKeeps
<1>4. ASSUME NEW c \in Consoles, handleAdminSSHSession(c) PROVE ConsoleInv'
  <2>1. PICK s \in {"shell", "done", "closed"} : console' = [console EXCEPT ![c] = s]
    BY <1>4 DEF handleAdminSSHSession
  <2>2. console[c] \in {"open", "shell", "done"} /\ UNCHANGED <<consoleSem, perIP>>
    BY <1>4 DEF handleAdminSSHSession
  <2>3. s \in Stages
    BY DEF Stages
  <2> QED BY <2>1, <2>2, <2>3, ConsoleKeeps
<1>5. ASSUME NEW c \in Consoles, releaseIP(c) PROVE ConsoleInv'
  <2>1. /\ console[c] = "closed" /\ consoleSem' = consoleSem
        /\ console' = [console EXCEPT ![c] = "leaving"]
        /\ perIP' = IF count(ConsoleIP[c]) <= 1 THEN Delete(perIP, ConsoleIP[c])
                    ELSE [perIP EXCEPT ![ConsoleIP[c]] = @ - 1]
    BY <1>5 DEF releaseIP
  <2>2. "leaving" \in Stages /\ "leaving" # "away"
    BY DEF Stages
  <2>3. c \in Taken /\ c \in Charged(ConsoleIP[c])
    BY <2>1 DEF Taken, Charged
  <2>a. Taken' = Taken \cup {c} /\ console' \in [Consoles -> Stages]
    BY <2>1, <2>2, ConsoleMoves
  <2>4. Taken' = Taken
    BY <2>3, <2>a
  <2>5. Charged(ConsoleIP[c])' = Charged(ConsoleIP[c]) \ {c}
    BY <2>1, <2>2, ConsoleMoves
  <2>6. \A ip : ip # ConsoleIP[c] => Charged(ip)' = Charged(ip)
    BY <2>1, <2>2, ConsoleMoves
  <2>7. Cardinality(Charged(ConsoleIP[c])') = Cardinality(Charged(ConsoleIP[c])) - 1
        /\ Cardinality(Charged(ConsoleIP[c])') \in Nat
    <3>1. IsFiniteSet(Charged(ConsoleIP[c])) /\ IsFiniteSet(Charged(ConsoleIP[c]) \ {c})
      BY ChargedFinite, FS_RemoveElement
    <3> QED BY <2>3, <2>5, <3>1, FS_RemoveElement, FS_CardinalityType
  <2>8. count(ConsoleIP[c]) = Cardinality(Charged(ConsoleIP[c])) /\ count(ConsoleIP[c]) \in Nat
    BY ChargedFinite DEF ConsoleInv
  <2>9. count(ConsoleIP[c]) >= 1
    BY <2>7, <2>8
  <2>10. ConsoleIP[c] \in DOMAIN perIP /\ count(ConsoleIP[c]) = perIP[ConsoleIP[c]]
    BY <2>9 DEF count
  <2>11. count(ConsoleIP[c])' = count(ConsoleIP[c]) - 1
    <3>1. CASE count(ConsoleIP[c]) <= 1
      <4>d. perIP' = Delete(perIP, ConsoleIP[c])
        BY ONLY <2>1, <3>1
      <4>1. ConsoleIP[c] \notin DOMAIN perIP'
        BY ONLY <4>d DEF Delete
      <4>2. count(ConsoleIP[c])' = 0
        BY ONLY <4>1 DEF count
      <4> QED BY <2>8, <2>9, <3>1, <4>2
    <3>2. CASE ~(count(ConsoleIP[c]) <= 1)
      <4>1. DOMAIN perIP' = DOMAIN perIP /\ perIP'[ConsoleIP[c]] = perIP[ConsoleIP[c]] - 1
        BY <2>1, <2>10, <3>2
      <4> QED BY <2>10, <4>1 DEF count
    <3> QED BY <3>1, <3>2
  <2>12. \A ip : ip # ConsoleIP[c] => (ip \in DOMAIN perIP' <=> ip \in DOMAIN perIP)
                    /\ (ip \in DOMAIN perIP => perIP'[ip] = perIP[ip])
    BY <2>1 DEF Delete
  <2>13. \A ip : ip # ConsoleIP[c] => count(ip)' = count(ip)
    BY <2>12 DEF count
  <2>14. \A ip \in {ConsoleIP[d] : d \in Consoles} : count(ip)' = Cardinality(Charged(ip)')
    BY <2>6, <2>7, <2>8, <2>11, <2>13 DEF ConsoleInv
  <2>15. \A ip \in DOMAIN perIP' : perIP'[ip] \in 1..MaxPerIP
    <3> SUFFICES ASSUME NEW ip \in DOMAIN perIP' PROVE perIP'[ip] \in 1..MaxPerIP
      OBVIOUS
    <3>1. CASE ip # ConsoleIP[c]
      BY <2>12, <3>1 DEF ConsoleInv
    <3>2. CASE ip = ConsoleIP[c]
      <4>1. ~(count(ConsoleIP[c]) <= 1)
        <5>1. SUFFICES ASSUME count(ConsoleIP[c]) <= 1 PROVE FALSE
          OBVIOUS
        <5>2. perIP' = Delete(perIP, ConsoleIP[c])
          BY ONLY <2>1, <5>1
        <5>3. ConsoleIP[c] \notin DOMAIN perIP'
          BY ONLY <5>2 DEF Delete
        <5> QED BY ONLY <3>2, <5>3, ip \in DOMAIN perIP'
      <4>2. perIP'[ip] = perIP[ip] - 1 /\ perIP[ip] \in 1..MaxPerIP
        BY <2>1, <2>10, <3>2, <4>1 DEF ConsoleInv
      <4> QED BY <1>0, <2>10, <3>2, <4>1, <4>2
    <3> QED BY <3>1, <3>2
  <2> QED BY <1>0, <2>1, <2>a, <2>4, <2>14, <2>15 DEF ConsoleInv
<1>6. ASSUME NEW c \in Consoles, releaseSlot(c) PROVE ConsoleInv'
  <2>1. /\ console[c] = "leaving" /\ consoleSem' = consoleSem - 1 /\ perIP' = perIP
        /\ console' = [console EXCEPT ![c] = "away"]
    BY <1>6 DEF releaseSlot
  <2>2. "away" \in Stages
    BY DEF Stages
  <2>3. c \in Taken /\ c \notin Charged(ConsoleIP[c])
    BY <2>1 DEF Taken, Charged
  <2>4. Taken' = Taken \ {c} /\ console' \in [Consoles -> Stages]
    BY <2>1, <2>2, ConsoleMoves
  <2>a. Charged(ConsoleIP[c])' = Charged(ConsoleIP[c]) \ {c}
    BY <2>1, <2>2, ConsoleMoves
  <2>5. Charged(ConsoleIP[c])' = Charged(ConsoleIP[c])
    BY <2>3, <2>a
  <2>6. \A ip : Charged(ip)' = Charged(ip)
    BY <2>1, <2>2, <2>5, ConsoleMoves
  <2>7. \A ip : count(ip)' = count(ip)
    BY <2>1 DEF count
  <2>8. IsFiniteSet(Taken') /\ Cardinality(Taken') = Cardinality(Taken) - 1
    BY <1>0, <2>3, <2>4, FS_RemoveElement
  <2>9. consoleSem' = Cardinality(Taken') /\ consoleSem' <= MaxConsoles
    BY <1>0, <2>1, <2>8
  <2> QED BY <2>1, <2>4, <2>6, <2>7, <2>8, <2>9 DEF ConsoleInv
<1>7. CASE console' = [c \in Consoles |-> "away"] /\ consoleSem' = 0 /\ perIP' = <<>>
  <2>1. Taken' = {} /\ \A ip : Charged(ip)' = {}
    BY <1>7 DEF Taken, Charged
  <2>2. DOMAIN perIP' = {} /\ \A ip : count(ip)' = 0
    BY <1>7, EmptyTable DEF count
  <2>3. console' \in [Consoles -> Stages]
    BY <1>7 DEF Stages
  <2>4. IsFiniteSet(Taken') /\ consoleSem' = Cardinality(Taken') /\ consoleSem' <= MaxConsoles
    BY <1>0, <1>7, <2>1, FS_EmptySet
  <2>5. \A ip : count(ip)' = Cardinality(Charged(ip)')
    BY <2>1, <2>2, FS_EmptySet
  <2> QED BY <2>2, <2>3, <2>4, <2>5 DEF ConsoleInv
<1>8. CASE quietConsole
  <2>1. UNCHANGED <<console, consoleSem, perIP>>
    BY <1>8 DEF quietConsole
  <2>2. Taken' = Taken /\ \A ip : Charged(ip)' = Charged(ip) /\ count(ip)' = count(ip)
    BY <2>1 DEF Taken, Charged, count
  <2> QED BY <2>1, <2>2 DEF ConsoleInv
<1> QED BY <1>1, <1>2, <1>3, <1>4, <1>5, <1>6, <1>7, <1>8 DEF ConsoleStep


-----------------------------------------------------------------------------
(* Sessions and failures *)

\* Tokens are drawn once; a session was created in the past.
SessionsInv ==
  /\ now \in Nat /\ drawn \in Nat
  /\ DOMAIN sessions \subseteq 1..drawn
  /\ \A t \in DOMAIN sessions : sessions[t] \in Nat /\ sessions[t] <= now
  /\ Cardinality(DOMAIN sessions) <= MaxSessions
  /\ cookie \in [Browsers -> Nat] /\ \A b \in Browsers : cookie[b] <= drawn

\* What SessionsKept says of one step.
KeptStep ==
  \A t \in DOMAIN sessions \ DOMAIN sessions' : sessionLive(t) =>
     \/ \E b \in Browsers : cookie[b] = t /\ cookie'[b] = 0
     \/ sessions' = <<>> /\ console' = [c \in Consoles |-> "away"]
     \/ Cardinality({u \in DOMAIN sessions' : sessions'[u] >= sessions[t]}) >= MaxSessions

SessionStep ==
  /\ now' \in Nat /\ now <= now'
  /\ \/ /\ drawn' = drawn + 1 /\ createAdminSession(drawn') /\ UNCHANGED now
        /\ \E b \in Browsers : cookie' = [cookie EXCEPT ![b] = drawn']
     \/ /\ UNCHANGED <<drawn, now>>
        /\ \E b \in Browsers : sessions' = Delete(sessions, cookie[b]) /\ cookie' = [cookie EXCEPT ![b] = 0]
     \/ /\ UNCHANGED <<drawn, now>>
        /\ \E b \in Browsers : /\ adminSessionFromRequest(b)
                               /\ cookie' = cookie \/ cookie' = [cookie EXCEPT ![b] = 0]
     \/ UNCHANGED <<drawn, cookie>> /\ sessions' = <<>> /\ console' = [c \in Consoles |-> "away"]
     \/ UNCHANGED <<drawn, cookie, sessions>>

LEMMA SessionsFinite ==
  ASSUME SessionsInv
  PROVE  /\ IsFiniteSet(DOMAIN sessions) /\ Cardinality(DOMAIN sessions) \in Nat
         /\ \A S \in SUBSET DOMAIN sessions :
              IsFiniteSet(S) /\ Cardinality(S) \in Nat /\ Cardinality(S) <= Cardinality(DOMAIN sessions)
<1>1. IsFiniteSet(1..drawn)
  BY FS_Interval DEF SessionsInv
<1>2. IsFiniteSet(DOMAIN sessions)
  BY <1>1, FS_Subset DEF SessionsInv
<1> QED BY <1>2, FS_Subset, FS_CardinalityType

\* A sign-in keeps the most recent MaxSessions - 1 of the valid sessions.
LEMMA CreateSession ==
  ASSUME SessionsInv, createAdminSession(drawn + 1)
  PROVE  /\ DOMAIN sessions' \subseteq DOMAIN sessions \cup {drawn + 1}
         /\ \A u \in DOMAIN sessions' : sessions'[u] = now \/ (u \in DOMAIN sessions /\ sessions'[u] = sessions[u])
         /\ Cardinality(DOMAIN sessions') <= MaxSessions
         /\ \A t \in DOMAIN sessions \ DOMAIN sessions' : sessionLive(t) =>
              Cardinality({u \in DOMAIN sessions' : sessions'[u] >= sessions[t]}) >= MaxSessions
<1>0. now \in Nat /\ drawn \in Nat /\ MaxSessions \in Nat /\ MaxSessions >= 1 /\ drawn + 1 \notin DOMAIN sessions
      /\ \A t \in DOMAIN sessions : sessions[t] \in Nat /\ sessions[t] <= now
  BY AdminAssumption DEF SessionsInv
<1> DEFINE live == {u \in DOMAIN sessions : sessionLive(u)}
           extra == Cardinality(live) - (MaxSessions - 1)
<1>1. PICK evicted \in SUBSET live :
          /\ Cardinality(evicted) = IF extra > 0 THEN extra ELSE 0
          /\ \A e \in evicted, k \in live \ evicted : sessions[e] <= sessions[k]
          /\ sessions' = Put([u \in live \ evicted |-> sessions[u]], drawn + 1, now)
  BY DEF createAdminSession
<1> DEFINE rest == live \ evicted
<1>2. /\ DOMAIN sessions' = rest \cup {drawn + 1}
      /\ sessions'[drawn + 1] = now
      /\ \A u \in rest : u # drawn + 1 => sessions'[u] = sessions[u]
  BY <1>1 DEF Put
<1>3. live \subseteq DOMAIN sessions /\ evicted \subseteq live /\ rest \subseteq DOMAIN sessions
  OBVIOUS
<1>4. IsFiniteSet(live) /\ IsFiniteSet(evicted) /\ IsFiniteSet(rest)
      /\ Cardinality(live) \in Nat /\ Cardinality(evicted) \in Nat /\ Cardinality(rest) \in Nat
  BY <1>3, SessionsFinite, Zenon
<1>5. Cardinality(rest) = Cardinality(live) - Cardinality(evicted)
  <2>1. live \cap evicted = evicted
    OBVIOUS
  <2> QED BY <1>4, <2>1, FS_Difference
<1>6. \A t \in DOMAIN sessions : t \notin DOMAIN sessions' /\ sessionLive(t) => t \in evicted
  BY <1>2
<1>7. \A e \in evicted, k \in rest : sessions[e] <= sessions[k]
  BY <1>1
<1> HIDE DEF live, rest
<1>8. drawn + 1 \notin rest
  BY <1>0, <1>3
<1>9. Cardinality(rest \cup {drawn + 1}) = Cardinality(rest) + 1 /\ IsFiniteSet(rest \cup {drawn + 1})
  BY <1>4, <1>8, FS_AddElement
<1>10. Cardinality(DOMAIN sessions') <= MaxSessions
  <2>1. Cardinality(rest) + 1 <= MaxSessions
    BY <1>0, <1>1, <1>4, <1>5
  <2> QED BY <1>2, <1>9, <2>1
<1>11. ASSUME NEW t \in DOMAIN sessions \ DOMAIN sessions', sessionLive(t)
       PROVE  Cardinality({u \in DOMAIN sessions' : sessions'[u] >= sessions[t]}) >= MaxSessions
  <2>1. t \in evicted /\ sessions[t] \in Nat /\ sessions[t] <= now
    BY <1>0, <1>6, <1>11
  <2>2. Cardinality(evicted) # 0
    BY <1>4, <2>1, FS_EmptySet
  <2>3. Cardinality(rest) = MaxSessions - 1
    BY <1>0, <1>1, <1>4, <1>5, <2>2
  <2>4. \A u \in DOMAIN sessions' : sessions'[u] >= sessions[t]
    <3> SUFFICES ASSUME NEW u \in DOMAIN sessions' PROVE sessions'[u] >= sessions[t]
      OBVIOUS
    <3>1. CASE u = drawn + 1
      BY <1>0, <1>2, <2>1, <3>1
    <3>2. CASE u \in rest
      <4>1. sessions'[u] = sessions[u] /\ sessions[u] \in Nat /\ sessions[t] <= sessions[u]
        BY <1>0, <1>2, <1>3, <1>7, <1>8, <2>1, <3>2
      <4> QED BY <2>1, <4>1
    <3> QED BY <1>2, <3>1, <3>2
  <2>5. {u \in DOMAIN sessions' : sessions'[u] >= sessions[t]} = rest \cup {drawn + 1}
    BY <1>2, <2>4
  <2>6. Cardinality(rest \cup {drawn + 1}) >= MaxSessions
    BY <1>0, <1>9, <2>3
  <2> QED BY <2>5, <2>6
<1>12. DOMAIN sessions' \subseteq DOMAIN sessions \cup {drawn + 1}
       /\ \A u \in DOMAIN sessions' : sessions'[u] = now \/ (u \in DOMAIN sessions /\ sessions'[u] = sessions[u])
  BY <1>2, <1>3, <1>8
<1> QED BY <1>10, <1>11, <1>12


\* A step that only drops sessions keeps the table in order.
LEMMA DropSessions ==
  ASSUME SessionsInv, now' \in Nat, now <= now', UNCHANGED drawn,
         DOMAIN sessions' \subseteq DOMAIN sessions,
         \A t \in DOMAIN sessions' : sessions'[t] = sessions[t],
         cookie' \in [Browsers -> Nat], \A b \in Browsers : cookie'[b] <= drawn
  PROVE  SessionsInv'
<1>1. Cardinality(DOMAIN sessions') <= Cardinality(DOMAIN sessions)
      /\ Cardinality(DOMAIN sessions') \in Nat /\ Cardinality(DOMAIN sessions) \in Nat
  BY SessionsFinite
<1>2. now \in Nat /\ MaxSessions \in Nat /\ Cardinality(DOMAIN sessions) <= MaxSessions
  BY AdminAssumption DEF SessionsInv
<1>3. Cardinality(DOMAIN sessions') <= MaxSessions
  BY <1>1, <1>2
<1>4. \A t \in DOMAIN sessions' : sessions'[t] \in Nat /\ sessions'[t] <= now'
  <2> SUFFICES ASSUME NEW t \in DOMAIN sessions' PROVE sessions'[t] \in Nat /\ sessions'[t] <= now'
    OBVIOUS
  <2>1. sessions'[t] = sessions[t] /\ sessions[t] \in Nat /\ sessions[t] <= now
    BY DEF SessionsInv
  <2> QED BY <1>2, <2>1
<1> QED BY <1>3, <1>4 DEF SessionsInv

LEMMA SessionsInvStep == ASSUME SessionsInv, SessionStep PROVE SessionsInv' /\ KeptStep
<1>0. now \in Nat /\ drawn \in Nat /\ now' \in Nat /\ now <= now' /\ DOMAIN sessions \subseteq 1..drawn
      /\ cookie \in [Browsers -> Nat] /\ \A b \in Browsers : cookie[b] <= drawn
  BY DEF SessionsInv, SessionStep
<1>1. ASSUME NEW b \in Browsers, drawn' = drawn + 1, createAdminSession(drawn'), UNCHANGED now,
             cookie' = [cookie EXCEPT ![b] = drawn']
      PROVE  SessionsInv' /\ KeptStep
  <2>1. createAdminSession(drawn + 1)
    BY <1>1
  <2>2. /\ DOMAIN sessions' \subseteq DOMAIN sessions \cup {drawn + 1}
        /\ \A u \in DOMAIN sessions' : sessions'[u] = now \/ (u \in DOMAIN sessions /\ sessions'[u] = sessions[u])
        /\ Cardinality(DOMAIN sessions') <= MaxSessions
    BY <2>1, CreateSession
  <2>3. KeptStep
    BY <2>1, CreateSession DEF KeptStep
  <2>4. DOMAIN sessions' \subseteq 1..drawn'
    BY <1>0, <1>1, <2>2
  <2>5. \A u \in DOMAIN sessions' : sessions'[u] \in Nat /\ sessions'[u] <= now'
    BY <1>0, <1>1, <2>2 DEF SessionsInv
  <2>6. cookie' \in [Browsers -> Nat] /\ \A a \in Browsers : cookie'[a] <= drawn'
    <3>1. cookie' \in [Browsers -> Nat] /\ cookie'[b] = drawn + 1
          /\ \A a \in Browsers : a # b => cookie'[a] = cookie[a]
      BY <1>0, <1>1
    <3> QED BY <1>0, <1>1, <3>1
  <2> QED BY <1>0, <1>1, <2>2, <2>3, <2>4, <2>5, <2>6 DEF SessionsInv
<1>2. ASSUME NEW b \in Browsers, UNCHANGED <<drawn, now>>, sessions' = Delete(sessions, cookie[b]),
             cookie' = [cookie EXCEPT ![b] = 0]
      PROVE  SessionsInv' /\ KeptStep
  <2>1. DOMAIN sessions' = DOMAIN sessions \ {cookie[b]}
        /\ \A t \in DOMAIN sessions' : sessions'[t] = sessions[t]
    BY <1>2 DEF Delete
  <2>2. cookie' \in [Browsers -> Nat] /\ cookie'[b] = 0
        /\ \A a \in Browsers : a # b => cookie'[a] = cookie[a]
    BY <1>0, <1>2
  <2>3. \A a \in Browsers : cookie'[a] <= drawn
    BY <1>0, <2>2
  <2>4. KeptStep
    BY <2>1, <2>2 DEF KeptStep
  <2> QED BY <1>0, <1>2, <2>1, <2>2, <2>3, <2>4, DropSessions
<1>3. ASSUME NEW b \in Browsers, UNCHANGED <<drawn, now>>, adminSessionFromRequest(b),
             cookie' = cookie \/ cookie' = [cookie EXCEPT ![b] = 0]
      PROVE  SessionsInv' /\ KeptStep
  <2>1. DOMAIN sessions' = {u \in DOMAIN sessions : u = cookie[b] => sessionLive(u)}
        /\ \A t \in DOMAIN sessions' : sessions'[t] = sessions[t]
    BY <1>3 DEF adminSessionFromRequest
  <2>2. cookie' \in [Browsers -> Nat] /\ \A a \in Browsers : cookie'[a] = cookie[a] \/ cookie'[a] = 0
    BY <1>0, <1>3
  <2>3. \A a \in Browsers : cookie'[a] <= drawn
    BY <1>0, <2>2
  <2>4. KeptStep
    BY <2>1 DEF KeptStep
  <2> QED BY <1>0, <1>3, <2>1, <2>2, <2>3, <2>4, DropSessions
<1>4. CASE UNCHANGED <<drawn, cookie>> /\ sessions' = <<>> /\ console' = [c \in Consoles |-> "away"]
  <2>1. DOMAIN sessions' = {}
    BY <1>4, EmptyTable
  <2>2. KeptStep
    BY <1>4 DEF KeptStep
  <2> QED BY <1>0, <1>4, <2>1, <2>2, DropSessions
<1>5. CASE UNCHANGED <<drawn, cookie, sessions>>
  <2>1. KeptStep
    BY <1>5 DEF KeptStep
  <2> QED BY <1>0, <1>5, <2>1, DropSessions
<1> QED BY <1>1, <1>2, <1>3, <1>4, <1>5 DEF SessionStep

\* The table of failed sign-ins stays within its cap, and the time of a release
\* lookup is past.
LimitsInv ==
  /\ now \in Nat
  /\ IsFiniteSet(DOMAIN failures) /\ Cardinality(DOMAIN failures) <= MaxFailureRows
  /\ update \in [checking : BOOLEAN, started : Nat, checkedAt : Nat]
  /\ update.started <= now /\ update.checkedAt <= now

LimitsStep ==
  /\ now' \in Nat /\ now <= now'
  /\ \/ \E b \in Browsers : recordAdminAuthFailure(b) \/ clearAdminAuthFailures(b)
     \/ failures' = <<>> \/ failures' = failures
  /\ \/ kickAdminUpdateCheck \/ update' = update
     \/ update' = [checking |-> FALSE, started |-> 0, checkedAt |-> 0]
     \/ update' = [checking |-> FALSE, started |-> update.started, checkedAt |-> update.started]

\* A failed sign-in adds a row, and over the cap rows go until there is room.
LEMMA FailureRows ==
  ASSUME LimitsInv, NEW b \in Browsers, recordAdminAuthFailure(b)
  PROVE  IsFiniteSet(DOMAIN failures') /\ Cardinality(DOMAIN failures') <= MaxFailureRows
<1> DEFINE old == IF b \in DOMAIN failures /\ ~stale(failures[b]) THEN failures[b].count ELSE 0
           all == Put(failures, b, [count |-> old + 1, last |-> now])
           fresh == {c \in DOMAIN all : ~stale(all[c])}
<1>1. IF Cardinality(DOMAIN all) <= MaxFailureRows
      THEN failures' = all
      ELSE \E kept \in SUBSET fresh :
             /\ Cardinality(kept) = IF Cardinality(fresh) < MaxFailureRows
                                    THEN Cardinality(fresh) ELSE MaxFailureRows
             /\ failures' = [c \in kept |-> all[c]]
  BY DEF recordAdminAuthFailure
<1>2. DOMAIN all = DOMAIN failures \cup {b}
  BY DEF Put
<1>3. IsFiniteSet(DOMAIN all)
  BY <1>2, FS_AddElement DEF LimitsInv
<1>4. fresh \subseteq DOMAIN all
  OBVIOUS
<1>5. IsFiniteSet(fresh) /\ Cardinality(fresh) \in Nat /\ MaxFailureRows \in Nat
  BY <1>3, <1>4, FS_Subset, FS_CardinalityType, AdminAssumption
<1> HIDE DEF all, fresh
<1>6. CASE Cardinality(DOMAIN all) <= MaxFailureRows
  BY <1>1, <1>3, <1>6
<1>7. CASE ~(Cardinality(DOMAIN all) <= MaxFailureRows)
  <2>1. PICK kept \in SUBSET fresh :
             /\ Cardinality(kept) = IF Cardinality(fresh) < MaxFailureRows
                                    THEN Cardinality(fresh) ELSE MaxFailureRows
             /\ failures' = [c \in kept |-> all[c]]
    BY <1>1, <1>7
  <2>2. DOMAIN failures' = kept /\ IsFiniteSet(kept)
    BY <1>5, <2>1, FS_Subset
  <2>3. Cardinality(kept) <= MaxFailureRows
    BY <1>5, <2>1
  <2> QED BY <2>2, <2>3
<1> QED BY <1>6, <1>7

LEMMA LimitsInvStep == ASSUME LimitsInv, LimitsStep PROVE LimitsInv'
<1>0. now \in Nat /\ now' \in Nat /\ now <= now' /\ MaxFailureRows \in Nat
      /\ update.started \in Nat /\ update.started <= now
      /\ update.checkedAt \in Nat /\ update.checkedAt <= now
      /\ IsFiniteSet(DOMAIN failures) /\ Cardinality(DOMAIN failures) <= MaxFailureRows
  BY AdminAssumption DEF LimitsInv, LimitsStep
<1>1. IsFiniteSet(DOMAIN failures') /\ Cardinality(DOMAIN failures') <= MaxFailureRows
  <2>1. ASSUME NEW b \in Browsers, recordAdminAuthFailure(b)
        PROVE  IsFiniteSet(DOMAIN failures') /\ Cardinality(DOMAIN failures') <= MaxFailureRows
    BY <2>1, FailureRows
  <2>2. ASSUME NEW b \in Browsers, clearAdminAuthFailures(b)
        PROVE  IsFiniteSet(DOMAIN failures') /\ Cardinality(DOMAIN failures') <= MaxFailureRows
    <3>1. DOMAIN failures' \subseteq DOMAIN failures
      BY <2>2 DEF clearAdminAuthFailures, Delete
    <3>2. IsFiniteSet(DOMAIN failures') /\ Cardinality(DOMAIN failures') <= Cardinality(DOMAIN failures)
          /\ Cardinality(DOMAIN failures') \in Nat /\ Cardinality(DOMAIN failures) \in Nat
      BY <1>0, <3>1, FS_Subset, FS_CardinalityType
    <3> QED BY <1>0, <3>2
  <2>3. CASE failures' = <<>>
    BY <1>0, <2>3, EmptyTable, FS_EmptySet
  <2>4. CASE failures' = failures
    BY <1>0, <2>4
  <2> QED BY <2>1, <2>2, <2>3, <2>4 DEF LimitsStep
<1>2. /\ update' \in [checking : BOOLEAN, started : Nat, checkedAt : Nat]
      /\ update'.started <= now' /\ update'.checkedAt <= now'
  <2>1. update \in [checking : BOOLEAN, started : Nat, checkedAt : Nat]
    BY DEF LimitsInv
  <2>2. CASE update' = update
    BY <1>0, <2>1, <2>2
  <2>3. CASE update' = [update EXCEPT !.checking = TRUE, !.started = now]
    <3>1. update' \in [checking : BOOLEAN, started : Nat, checkedAt : Nat]
      BY <1>0, <2>1, <2>3
    <3>2. update'.started = now /\ update'.checkedAt = update.checkedAt
      BY <2>1, <2>3
    <3> QED BY <1>0, <3>1, <3>2
  <2>4. CASE update' = [checking |-> FALSE, started |-> 0, checkedAt |-> 0]
    BY <1>0, <2>4
  <2>5. CASE update' = [checking |-> FALSE, started |-> update.started, checkedAt |-> update.started]
    BY <1>0, <2>5
  <2> QED BY <2>2, <2>3, <2>4, <2>5 DEF LimitsStep, kickAdminUpdateCheck
<1> QED BY <1>0, <1>1, <1>2 DEF LimitsInv


-----------------------------------------------------------------------------
(* Learning *)

\* What a table of learned states says of a host.
At(states, h) == IF h \in DOMAIN states THEN states[h] ELSE Unlearned

Lockable(st) == st \in StateType /\ (st.locked => st.technology # "")

OpenProfile(p) == p.mode = "automatic" \/ p.apps = {}

LEMMA UnlearnedState == Lockable(Unlearned) /\ ~Unlearned.locked
BY DEF Unlearned, Lockable, StateType

LEMMA WeightOf ==
  ASSUME NEW r \in ClassifiedRequests
  PROVE  storyWeight(r) \in Nat /\ (storyWeight(r) # 0 => r.candidate \in Technologies)
<1>1. r.candidate \in Technologies \cup {""}
  BY DEF ClassifiedRequests
<1>2. CASE r.candidate = ""
  BY <1>2 DEF storyWeight
<1>3. CASE r.candidate # ""
  <2>1. PICK a \in {2, 3}, b \in {0, 3} : storyWeight(r) = a + b
    BY <1>3 DEF storyWeight
  <2>2. a \in Nat /\ b \in Nat
    OBVIOUS
  <2>3. storyWeight(r) \in Nat
    BY <2>1, <2>2
  <2> QED BY <1>1, <1>3, <2>3
<1> QED BY <1>2, <1>3

\* A locked state keeps its technology, and a served, specific answer in an open
\* profile locks one that is not locked yet.
LEMMA LearnTechnology ==
  ASSUME NEW st, Lockable(st), NEW p, NEW r \in ClassifiedRequests,
         NEW n \in learnTechnology(st, p, r)
  PROVE  /\ Lockable(n)
         /\ st.locked => n.locked /\ n.technology = st.technology
         /\ OpenProfile(p) /\ storySuccess(r) /\ storyWeight(r) >= 3 /\ ~st.locked =>
              n.locked /\ n.technology = r.candidate
<1> DEFINE weight == storyWeight(r)
           seen == [st EXCEPT !.evidence[r.candidate] = @ + weight]
           best == {t \in Technologies : \A u \in Technologies : seen.evidence[t] >= seen.evidence[u]}
           score == seen.evidence[CHOOSE t \in best : TRUE]
           take(ts, lock) == {[seen EXCEPT !.technology = t, !.locked = lock] : t \in ts}
<1>1. n \in IF weight = 0 THEN {st}
            ELSE IF OpenProfile(p)
            THEN IF st.locked                            THEN {seen}
                 ELSE IF storySuccess(r) /\ weight >= 3  THEN take({r.candidate}, TRUE)
                 ELSE IF score >= 5                      THEN take(best, TRUE)
                 ELSE IF score >= 3                      THEN take(best, FALSE)
                 ELSE {seen}
            ELSE IF r.candidate \in p.apps /\ st.technology = ""
            THEN take({r.candidate}, st.locked \/ Cardinality(p.apps) = 1)
            ELSE {seen}
  BY DEF learnTechnology, OpenProfile
<1>2. weight \in Nat /\ (weight # 0 => r.candidate \in Technologies)
  BY WeightOf
<1>3. "" \notin Technologies
  BY RealityAssumption
<1>4. best \subseteq Technologies
  OBVIOUS
<1> HIDE DEF weight, best, score, seen, take
<1>5. CASE weight = 0
  <2>1. n = st
    BY <1>1, <1>5
  <2>2. ~(weight >= 3)
    BY <1>2, <1>5
  <2> QED BY <2>1, <2>2 DEF weight
<1>6. CASE weight # 0
  <2>1. seen \in StateType /\ seen.locked = st.locked /\ seen.technology = st.technology
    <3> DEFINE ev == [st.evidence EXCEPT ![r.candidate] = @ + weight]
    <3>1. st \in StateType /\ st.evidence \in [Technologies -> Nat]
      BY DEF Lockable, StateType
    <3>4. r.candidate \in Technologies /\ st.evidence[r.candidate] \in Nat /\ weight \in Nat
      BY <1>2, <1>6, <3>1
    <3>5. st.evidence[r.candidate] + weight \in Nat
      BY <3>4
    <3>2. ev \in [Technologies -> Nat]
      BY <3>1, <3>4, <3>5
    <3>3. seen = [st EXCEPT !.evidence = ev]
      BY <3>1 DEF StateType, seen
    <3> HIDE DEF ev
    <3> QED BY <3>1, <3>2, <3>3 DEF StateType
  <2>2. \/ n = seen /\ (OpenProfile(p) /\ storySuccess(r) /\ weight >= 3 => st.locked)
        \/ \E t \in Technologies, lock \in BOOLEAN :
             /\ n = [seen EXCEPT !.technology = t, !.locked = lock]
             /\ st.locked => st.technology = "" /\ ~OpenProfile(p)
             /\ OpenProfile(p) /\ storySuccess(r) /\ weight >= 3 => t = r.candidate /\ lock
    <3>1. CASE OpenProfile(p) /\ st.locked
      BY <1>1, <1>6, <3>1
    <3>2. CASE OpenProfile(p) /\ ~st.locked /\ storySuccess(r) /\ weight >= 3
      BY <1>1, <1>2, <1>6, <3>2 DEF take
    <3>3. CASE OpenProfile(p) /\ ~st.locked /\ ~(storySuccess(r) /\ weight >= 3)
      <4>1. n = seen \/ n \in take(best, TRUE) \/ n \in take(best, FALSE)
        BY <1>1, <1>6, <3>3
      <4> QED BY <1>4, <3>3, <4>1 DEF take
    <3>4. CASE ~OpenProfile(p)
      <4>1. st.locked \in BOOLEAN
        BY DEF Lockable, StateType
      <4>2. n = seen \/ (n \in take({r.candidate}, st.locked \/ Cardinality(p.apps) = 1) /\ st.technology = "")
        BY <1>1, <1>6, <3>4
      <4> QED BY <1>2, <1>6, <3>4, <4>1, <4>2 DEF take
    <3> QED BY <3>1, <3>2, <3>3, <3>4
  <2>3. CASE n = seen /\ (OpenProfile(p) /\ storySuccess(r) /\ weight >= 3 => st.locked)
    BY <2>1, <2>3 DEF Lockable, weight
  <2>4. CASE \E t \in Technologies, lock \in BOOLEAN :
               /\ n = [seen EXCEPT !.technology = t, !.locked = lock]
               /\ st.locked => st.technology = "" /\ ~OpenProfile(p)
               /\ OpenProfile(p) /\ storySuccess(r) /\ weight >= 3 => t = r.candidate /\ lock
    <3>1. PICK t \in Technologies, lock \in BOOLEAN :
               /\ n = [seen EXCEPT !.technology = t, !.locked = lock]
               /\ st.locked => st.technology = "" /\ ~OpenProfile(p)
               /\ OpenProfile(p) /\ storySuccess(r) /\ weight >= 3 => t = r.candidate /\ lock
      BY <2>4
    <3>2. n \in StateType /\ n.technology = t /\ n.locked = lock
      BY <2>1, <3>1 DEF StateType
    <3>3. ~st.locked
      BY <3>1 DEF Lockable
    <3>4. t # ""
      BY <1>3
    <3> QED BY <3>1, <3>2, <3>3, <3>4 DEF Lockable, weight
  <2> QED BY <2>2, <2>3, <2>4
<1> QED BY <1>5, <1>6

\* The cloud is learned next to the technology.
LEMMA LearnCloud ==
  ASSUME NEW st, Lockable(st), NEW p, NEW r \in ClassifiedRequests
  PROVE  /\ Lockable(learnCloud(st, p, r))
         /\ learnCloud(st, p, r).locked = st.locked
         /\ learnCloud(st, p, r).technology = st.technology
<1>1. r.cloud \in CloudNames \cup {""}
  BY DEF ClassifiedRequests
<1>2. learnCloud(st, p, r) = st \/ learnCloud(st, p, r) = [st EXCEPT !.cloud = r.cloud]
  BY DEF learnCloud
<1>3. /\ [st EXCEPT !.cloud = r.cloud] \in StateType
      /\ [st EXCEPT !.cloud = r.cloud].locked = st.locked
      /\ [st EXCEPT !.cloud = r.cloud].technology = st.technology
  BY <1>1 DEF Lockable, StateType
<1> QED BY <1>2, <1>3 DEF Lockable


-----------------------------------------------------------------------------
(* Claims *)

\* At most one response is being decided on, and it fits what its host is locked to.
StoriesOK ==
  /\ story \in [Workers -> {Idle} \cup [host : Hosts, request : StoryRequests, trusted : BOOLEAN]]
  /\ \A v, w \in Workers : story[v] # Idle /\ story[w] # Idle => v = w

PendingOK ==
  \A w \in Workers : story[w] # Idle /\ story[w].trusted /\ learnedState(story[w].host).locked =>
    \/ story[w].request.candidate = ""
    \/ storyCompatible(learnedState(story[w].host).technology, story[w].request.candidate)

StatesOK(states) == DOMAIN states \subseteq Hosts /\ \A h \in DOMAIN states : Lockable(states[h])

\* Two tables agree on what hosts are committed to.
Agree(a, b) ==
  \A h \in Hosts : At(a, h).locked = At(b, h).locked /\ At(a, h).technology = At(b, h).technology

ClaimsInv ==
  /\ StoriesOK /\ PendingOK
  /\ StatesOK(realityStates) /\ StatesOK(realityDisk.states)
  /\ claims \in [Hosts -> SUBSET Technologies]
  /\ statesSaved \in BOOLEAN /\ (statesSaved => Agree(realityDisk.states, realityStates))
  /\ ClaimsAgree

LEMMA LearnedLockable ==
  ASSUME NEW states, StatesOK(states), NEW h PROVE Lockable(At(states, h))
BY UnlearnedState DEF StatesOK, At

\* Steps that learn nothing: claims and states stay, what is on disk may be saved.
LEMMA ClaimsKeep ==
  ASSUME ClaimsInv, UNCHANGED <<realityStates, story, claims>>,
         \/ UNCHANGED <<statesSaved, realityDisk>>
         \/ statesSaved' = TRUE /\ realityDisk'.states = realityStates
  PROVE  ClaimsInv'
<1>1. \A h : learnedState(h)' = learnedState(h)
  BY DEF learnedState
<1>2. StoriesOK' /\ PendingOK' /\ ClaimsAgree'
  BY <1>1 DEF ClaimsInv, StoriesOK, PendingOK, ClaimsAgree
<1>3. StatesOK(realityDisk'.states) /\ statesSaved' \in BOOLEAN
      /\ (statesSaved' => Agree(realityDisk'.states, realityStates'))
  <2>1. CASE UNCHANGED <<statesSaved, realityDisk>>
    BY <2>1 DEF ClaimsInv
  <2>2. CASE statesSaved' = TRUE /\ realityDisk'.states = realityStates
    <3>1. Agree(realityStates, realityStates)
      BY DEF Agree
    <3> QED BY <2>2, <3>1 DEF ClaimsInv
  <2> QED BY <2>1, <2>2
<1> QED BY <1>2, <1>3 DEF ClaimsInv

\* The gates compare the candidate with what the host is locked to.
LEMMA BeginClaims ==
  ASSUME ClaimsInv, NEW w \in Workers, NEW h \in Hosts, NEW r \in StoryRequests, storyBegin(w, h, r)
  PROVE  ClaimsInv'
<1> DEFINE s == [host |-> h, request |-> r, trusted |-> realityTargetTrusted(h)]
<1>1. /\ \A v \in Workers : story[v] = Idle
      /\ story' = [story EXCEPT ![w] = s]
      /\ UNCHANGED <<trusted, realityProfiles, realityStates, trustedDisk, realityDisk, claims, told, statesSaved>>
  BY DEF storyBegin
<1>2. realityTargetTrusted(h) /\ learnedState(h).locked =>
        r.candidate = "" \/ storyCompatible(learnedState(h).technology, r.candidate)
  <2>1. storyAccepts(r, ResolveTargetReality(h))
    BY DEF storyBegin
  <2>2. PICK configured \in BOOLEAN : candidateAllowed(r, ResolveTargetReality(h), configured)
    BY <2>1 DEF storyAccepts
  <2>3. realityTargetTrusted(h) => ResolveTargetReality(h).state = learnedState(h)
    BY DEF ResolveTargetReality
  <2> QED BY <2>2, <2>3 DEF candidateAllowed
<1>3. story \in [Workers -> {Idle} \cup [host : Hosts, request : StoryRequests, trusted : BOOLEAN]]
  BY DEF ClaimsInv, StoriesOK
<1>4. s \in [host : Hosts, request : StoryRequests, trusted : BOOLEAN]
      /\ s.host = h /\ s.request = r /\ s.trusted = realityTargetTrusted(h)
  BY DEF realityTargetTrusted
<1> HIDE DEF s
<1>5. story'[w] = s /\ \A v \in Workers : v # w => story'[v] = Idle
  BY <1>1, <1>3
<1>6. StoriesOK'
  <2>1. story' \in [Workers -> {Idle} \cup [host : Hosts, request : StoryRequests, trusted : BOOLEAN]]
    BY <1>1, <1>3, <1>4
  <2> QED BY <1>5, <2>1 DEF StoriesOK
<1>7. \A g : learnedState(g)' = learnedState(g)
  BY <1>1 DEF learnedState
<1>8. PendingOK'
  BY <1>2, <1>4, <1>5, <1>7 DEF PendingOK
<1>9. ClaimsAgree'
  BY <1>1, <1>7 DEF ClaimsInv, ClaimsAgree
<1> QED BY <1>1, <1>6, <1>8, <1>9 DEF ClaimsInv


\* What was learned keeps every claim, and a new claim is one the gates let through.
LEMMA ObserveClaims ==
  ASSUME ClaimsInv, NEW w \in Workers, NEW ok \in BOOLEAN, ObserveTargetReality(w, ok)
  PROVE  ClaimsInv'
<1>h. PICK h \in Hosts, r \in StoryRequests :
        story[w] # Idle /\ story[w].host = h /\ story[w].request = r
  BY DEF ObserveTargetReality, ClaimsInv, StoriesOK
<1>p. PICK p, st : p = realityProfileFor(h) /\ st = learnedState(h)
  OBVIOUS
<1>r. r \in ClassifiedRequests
  BY RealityAssumption
<1>1. PICK n \in learnTechnology(st, p, r) :
        LET new == learnCloud(n, p, r)
            changed == [new EXCEPT !.evidence = st.evidence] # st
        IN  /\ realityStates' = Put(realityStates, h, new)
            /\ IF changed
               THEN persistTargetRealities(ok) /\ statesSaved' = ok
               ELSE ok /\ UNCHANGED <<realityDisk, statesSaved>>
            /\ claims' = IF isClaim(story[w], p)
                         THEN [claims EXCEPT ![h] = @ \cup {r.candidate}]
                         ELSE claims
  BY <1>h, <1>p DEF ObserveTargetReality
<1>2. PICK new : new = learnCloud(n, p, r)
  OBVIOUS
<1>3. story' = [story EXCEPT ![w] = Idle]
  BY DEF ObserveTargetReality
<1>4. st = At(realityStates, h) /\ Lockable(st)
  BY <1>h, <1>p, LearnedLockable DEF learnedState, At, ClaimsInv
<1>5. /\ Lockable(new)
      /\ st.locked => new.locked /\ new.technology = st.technology
      /\ OpenProfile(p) /\ storySuccess(r) /\ storyWeight(r) >= 3 /\ ~st.locked =>
           new.locked /\ new.technology = r.candidate
  <2>1. /\ Lockable(n)
        /\ st.locked => n.locked /\ n.technology = st.technology
        /\ OpenProfile(p) /\ storySuccess(r) /\ storyWeight(r) >= 3 /\ ~st.locked =>
             n.locked /\ n.technology = r.candidate
    BY <1>1, <1>4, <1>r, LearnTechnology
  <2>2. Lockable(new) /\ new.locked = n.locked /\ new.technology = n.technology
    BY <1>2, <1>r, <2>1, LearnCloud
  <2> QED BY <2>1, <2>2
<1>6. realityStates' = Put(realityStates, h, new)
  BY <1>1, <1>2
<1>7. /\ DOMAIN realityStates' = DOMAIN realityStates \cup {h}
      /\ realityStates'[h] = new
      /\ \A g \in DOMAIN realityStates : g # h => realityStates'[g] = realityStates[g]
  BY <1>6 DEF Put
<1>8. At(realityStates', h) = new /\ \A g : g # h => At(realityStates', g) = At(realityStates, g)
  BY <1>7 DEF At
<1>9. StatesOK(realityStates')
  BY <1>5, <1>7 DEF ClaimsInv, StatesOK
<1>10. \A g : learnedState(g)' = At(realityStates', g) /\ learnedState(g) = At(realityStates, g)
  BY DEF learnedState, At
<1>11. StoriesOK' /\ PendingOK'
  <2>1. story \in [Workers -> {Idle} \cup [host : Hosts, request : StoryRequests, trusted : BOOLEAN]]
    BY DEF ClaimsInv, StoriesOK
  <2>2. \A v \in Workers : story'[v] = Idle
    BY <1>3, <1>h, <1>p, <2>1 DEF ClaimsInv, StoriesOK
  <2>3. story' \in [Workers -> {Idle} \cup [host : Hosts, request : StoryRequests, trusted : BOOLEAN]]
    BY <1>3, <2>1
  <2> QED BY <2>2, <2>3 DEF StoriesOK, PendingOK
<1>12. StatesOK(realityDisk'.states) /\ statesSaved' \in BOOLEAN
       /\ (statesSaved' => Agree(realityDisk'.states, realityStates'))
  <2>1. CASE [new EXCEPT !.evidence = st.evidence] # st
    <3>1. persistTargetRealities(ok) /\ statesSaved' = ok
      BY <1>1, <1>2, <2>1
    <3>2. CASE ok
      <4>1. realityDisk'.states = realityStates'
        BY <3>1, <3>2 DEF persistTargetRealities
      <4>2. Agree(realityStates', realityStates')
        BY DEF Agree
      <4> QED BY <1>9, <3>1, <4>1, <4>2
    <3>3. CASE ~ok
      BY <3>1, <3>3 DEF persistTargetRealities, ClaimsInv
    <3> QED BY <3>2, <3>3
  <2>2. CASE [new EXCEPT !.evidence = st.evidence] = st
    <3>1. UNCHANGED <<realityDisk, statesSaved>>
      BY <1>1, <1>2, <2>2
    <3>2. new.locked = st.locked /\ new.technology = st.technology
      <4>1. /\ [new EXCEPT !.evidence = st.evidence].locked = new.locked
            /\ [new EXCEPT !.evidence = st.evidence].technology = new.technology
        BY <1>5 DEF Lockable, StateType
      <4> QED BY <2>2, <4>1
    <3>3. ASSUME statesSaved PROVE Agree(realityDisk.states, realityStates')
      <4> SUFFICES ASSUME NEW g \in Hosts
                   PROVE  /\ At(realityDisk.states, g).locked = At(realityStates', g).locked
                          /\ At(realityDisk.states, g).technology = At(realityStates', g).technology
        BY DEF Agree
      <4>1. /\ At(realityDisk.states, g).locked = At(realityStates, g).locked
            /\ At(realityDisk.states, g).technology = At(realityStates, g).technology
        BY <3>3 DEF ClaimsInv, Agree
      <4>2. At(realityStates', g).locked = At(realityStates, g).locked
            /\ At(realityStates', g).technology = At(realityStates, g).technology
        BY <1>4, <1>8, <3>2
      <4> QED BY <4>1, <4>2
    <3> QED BY <3>1, <3>3 DEF ClaimsInv
  <2> QED BY <2>1, <2>2
<1>13. claims \in [Hosts -> SUBSET Technologies]
  BY DEF ClaimsInv
<1>14. claims[h] # {} => st.locked /\ \A c \in claims[h] : storyCompatible(st.technology, c)
  BY <1>h, <1>p DEF ClaimsInv, ClaimsAgree
<1>15. /\ claims' \in [Hosts -> SUBSET Technologies]
       /\ \A g \in Hosts : g # h => claims'[g] = claims[g]
       /\ claims'[h] # {} => new.locked /\ \A c \in claims'[h] : storyCompatible(new.technology, c)
  <2>1. CASE isClaim(story[w], p)
    <3>1. claims' = [claims EXCEPT ![h] = @ \cup {r.candidate}]
      BY <1>1, <2>1
    <3>2. story[w].trusted /\ OpenProfile(p) /\ storySuccess(r) /\ storyWeight(r) >= 3
      BY <1>h, <1>p, <2>1 DEF isClaim, OpenProfile
    <3>3. r.candidate \in Technologies /\ r.candidate # ""
      <4>1. storyWeight(r) # 0
        BY <1>r, <3>2, WeightOf
      <4>2. r.candidate \in Technologies
        BY <1>r, <4>1, WeightOf
      <4> QED BY <4>2, RealityAssumption
    <3>4. new.locked /\ storyCompatible(new.technology, r.candidate)
      <4>1. CASE st.locked
        <5>1. storyCompatible(st.technology, r.candidate)
          BY <1>h, <1>p, <3>2, <3>3, <4>1 DEF ClaimsInv, PendingOK
        <5> QED BY <1>5, <4>1, <5>1
      <4>2. CASE ~st.locked
        BY <1>5, <3>2, <4>2 DEF storyCompatible
      <4> QED BY <4>1, <4>2
    <3>5. \A c \in claims[h] : storyCompatible(new.technology, c)
      BY <1>5, <1>14
    <3>6. claims'[h] = claims[h] \cup {r.candidate} /\ \A g \in Hosts : g # h => claims'[g] = claims[g]
      BY <1>13, <3>1
    <3>7. claims' \in [Hosts -> SUBSET Technologies]
      BY <1>13, <3>1, <3>3
    <3> QED BY <3>4, <3>5, <3>6, <3>7
  <2>2. CASE ~isClaim(story[w], p)
    <3>1. claims' = claims
      BY <1>1, <2>2
    <3> QED BY <1>5, <1>13, <1>14, <3>1
  <2> QED BY <2>1, <2>2
<1>16. ClaimsAgree'
  <2> SUFFICES ASSUME NEW g \in Hosts, claims'[g] # {}
               PROVE  /\ At(realityStates', g).locked
                      /\ \A c \in claims'[g] : storyCompatible(At(realityStates', g).technology, c)
    BY <1>10 DEF ClaimsAgree
  <2>1. CASE g = h
    BY <1>8, <1>15, <2>1
  <2>2. CASE g # h
    BY <1>8, <1>10, <1>15, <2>2 DEF ClaimsInv, ClaimsAgree
  <2> QED BY <2>1, <2>2
<1> QED BY <1>9, <1>11, <1>12, <1>15, <1>16 DEF ClaimsInv

\* A reset takes the claims with the commitment; one that is not saved is remembered.
LEMMA ResetClaims ==
  ASSUME ClaimsInv, NEW h \in Hosts, NEW ok \in BOOLEAN, ResetTargetRealityState(h, ok)
  PROVE  ClaimsInv'
<1>1. /\ realityStates' = Delete(realityStates, h)
      /\ persistTargetRealities(ok) /\ statesSaved' = ok
      /\ claims' = [claims EXCEPT ![h] = {}]
      /\ story' = story
  BY DEF ResetTargetRealityState
<1>2. /\ DOMAIN realityStates' = DOMAIN realityStates \ {h}
      /\ \A g \in DOMAIN realityStates' : realityStates'[g] = realityStates[g]
  BY <1>1 DEF Delete
<1>3. At(realityStates', h) = Unlearned /\ \A g : g # h => At(realityStates', g) = At(realityStates, g)
  BY <1>2 DEF At
<1>4. StatesOK(realityStates')
  BY <1>2 DEF ClaimsInv, StatesOK
<1>5. \A g : learnedState(g)' = At(realityStates', g) /\ learnedState(g) = At(realityStates, g)
  BY DEF learnedState, At
<1>6. ~At(realityStates', h).locked
  BY <1>3, UnlearnedState
<1>7. StoriesOK'
  BY <1>1 DEF ClaimsInv, StoriesOK
<1>8. PendingOK'
  <2> SUFFICES ASSUME NEW w \in Workers, story[w] # Idle, story[w].trusted,
                      At(realityStates', story[w].host).locked
               PROVE  \/ story[w].request.candidate = ""
                      \/ storyCompatible(At(realityStates', story[w].host).technology, story[w].request.candidate)
    BY <1>1, <1>5 DEF PendingOK
  <2>1. At(realityStates', story[w].host) = learnedState(story[w].host)
    BY <1>3, <1>5, <1>6
  <2> QED BY <2>1 DEF ClaimsInv, PendingOK
<1>9. StatesOK(realityDisk'.states) /\ statesSaved' \in BOOLEAN
      /\ (statesSaved' => Agree(realityDisk'.states, realityStates'))
  <2>1. CASE ok
    <3>1. realityDisk'.states = realityStates'
      BY <1>1, <2>1 DEF persistTargetRealities
    <3>2. Agree(realityStates', realityStates')
      BY DEF Agree
    <3> QED BY <1>1, <1>4, <3>1, <3>2
  <2>2. CASE ~ok
    BY <1>1, <2>2 DEF persistTargetRealities, ClaimsInv
  <2> QED BY <2>1, <2>2
<1>10. claims \in [Hosts -> SUBSET Technologies]
  BY DEF ClaimsInv
<1>11. /\ claims' \in [Hosts -> SUBSET Technologies] /\ claims'[h] = {}
       /\ \A g \in Hosts : g # h => claims'[g] = claims[g]
  BY <1>1, <1>10
<1>12. ClaimsAgree'
  <2> SUFFICES ASSUME NEW g \in Hosts, claims'[g] # {}
               PROVE  /\ At(realityStates', g).locked
                      /\ \A c \in claims'[g] : storyCompatible(At(realityStates', g).technology, c)
    BY <1>5 DEF ClaimsAgree
  <2>1. g # h
    BY <1>11
  <2> QED BY <1>3, <1>5, <1>11, <2>1 DEF ClaimsInv, ClaimsAgree
<1> QED BY <1>4, <1>7, <1>8, <1>9, <1>11, <1>12 DEF ClaimsInv

\* A restart brings back the states that were saved; with one that was not, the
\* claims are forgotten.
LEMMA RestartClaims == ASSUME ClaimsInv, RealityRestart PROVE ClaimsInv'
<1>1. /\ realityStates' = realityDisk.states /\ realityDisk' = realityDisk
      /\ story' = [w \in Workers |-> Idle]
      /\ claims' = IF statesSaved THEN claims ELSE [h \in Hosts |-> {}]
      /\ statesSaved' = TRUE
  BY DEF RealityRestart
<1>2. StoriesOK' /\ PendingOK'
  <2>1. story' \in [Workers -> {Idle} \cup [host : Hosts, request : StoryRequests, trusted : BOOLEAN]]
        /\ \A w \in Workers : story'[w] = Idle
    BY <1>1
  <2> QED BY <2>1 DEF StoriesOK, PendingOK
<1>3. Agree(realityDisk'.states, realityStates')
  BY <1>1 DEF Agree
<1>4. claims' \in [Hosts -> SUBSET Technologies]
  BY <1>1 DEF ClaimsInv
<1>5. \A g : learnedState(g)' = At(realityDisk.states, g) /\ learnedState(g) = At(realityStates, g)
  BY <1>1 DEF learnedState, At
<1>6. ClaimsAgree'
  <2> SUFFICES ASSUME NEW g \in Hosts, claims'[g] # {}
               PROVE  /\ At(realityDisk.states, g).locked
                      /\ \A c \in claims'[g] : storyCompatible(At(realityDisk.states, g).technology, c)
    BY <1>5 DEF ClaimsAgree
  <2>1. statesSaved /\ claims' = claims
    BY <1>1
  <2>2. /\ At(realityDisk.states, g).locked = At(realityStates, g).locked
        /\ At(realityDisk.states, g).technology = At(realityStates, g).technology
    BY <2>1 DEF ClaimsInv, Agree
  <2> QED BY <1>5, <2>1, <2>2 DEF ClaimsInv, ClaimsAgree
<1> QED BY <1>1, <1>2, <1>3, <1>4, <1>6 DEF ClaimsInv

LEMMA ClaimsInvStep == ASSUME ClaimsInv, RealityStep PROVE ClaimsInv'
<1>1. ASSUME NEW w \in Workers, NEW h \in Hosts, NEW r \in StoryRequests, storyBegin(w, h, r)
      PROVE  ClaimsInv'
  BY <1>1, BeginClaims
<1>2. ASSUME NEW w \in Workers, NEW ok \in BOOLEAN, ObserveTargetReality(w, ok) PROVE ClaimsInv'
  BY <1>2, ObserveClaims
<1>3. ASSUME NEW d \in DomainLists, NEW ok \in BOOLEAN, SetManualTrustedDomains(d, ok)
      PROVE  ClaimsInv'
  BY <1>3, ClaimsKeep DEF SetManualTrustedDomains
<1>4. ASSUME NEW p \in ProfileLists, NEW ok \in BOOLEAN, SetTargetRealityProfiles(p, ok)
      PROVE  ClaimsInv'
  <2>1. UNCHANGED <<realityStates, story, claims>>
    BY <1>4 DEF SetTargetRealityProfiles
  <2>2. \/ UNCHANGED <<statesSaved, realityDisk>>
        \/ statesSaved' = TRUE /\ realityDisk'.states = realityStates
    BY <1>4, <2>1 DEF SetTargetRealityProfiles, persistTargetRealities
  <2> QED BY <2>1, <2>2, ClaimsKeep
<1>5. ASSUME NEW h \in Hosts, NEW ok \in BOOLEAN, ResetTargetRealityState(h, ok) PROVE ClaimsInv'
  BY <1>5, ResetClaims
<1>6. CASE RealityRestart
  BY <1>6, RestartClaims
<1>7. CASE UNCHANGED realityVars
  BY <1>7, ClaimsKeep DEF realityVars
<1> QED BY <1>1, <1>2, <1>3, <1>4, <1>5, <1>6, <1>7 DEF RealityStep

-----------------------------------------------------------------------------
(* Types *)

PeerKeys == Sources \X (SigningKeys \cup {""})

Rows(table) == DOMAIN table \subseteq PeerKeys /\ \A k \in DOMAIN table : table[k] \in PeerRows(Nat)

\* A mark belongs to a row.
PeerTypes == Rows(peers) /\ Rows(peersDisk) /\ DOMAIN persistMark \subseteq DOMAIN peers

LEMMA PeerKey == ASSUME NEW s \in Sources, NEW id \in SigningKeys \cup {""} PROVE <<s, id>> \in PeerKeys
BY DEF PeerKeys

LEMMA PeerTypesStep == ASSUME PeersInv, PeerTypes, PeersStep PROVE PeerTypes'
<1>0. now \in Nat
  BY DEF PeersInv, MarksOK
<1>d. ASSUME NEW ok \in BOOLEAN, persistPeers(peers', ok, now), Rows(peers') PROVE Rows(peersDisk')
  BY <1>d DEF persistPeers, PeerTypes
<1>1. ASSUME NEW s \in Sources, NEW id \in SigningKeys \cup {""}, NEW ok \in BOOLEAN,
             RecordIntegrationVerified(s, id, ok, now), UNCHANGED now
      PROVE  PeerTypes'
  <2>1. PICK key \in PeerKeys, drop \in SUBSET PeerKeys, row \in PeerRows(Nat) :
          /\ peers' = Put([k \in DOMAIN peers \ drop |-> peers[k]], key, row)
          /\ \/ persistMark' = [k \in DOMAIN persistMark \ drop |-> persistMark[k]]
             \/ persistMark' = Put([k \in DOMAIN persistMark \ drop |-> persistMark[k]], key, now)
          /\ persistPeers(peers', ok, now) \/ UNCHANGED peersDisk
    <3> DEFINE key == <<s, id>>
               drop == IF promoted(s, id) THEN {<<s, "">>} ELSE {}
               trust == IF id = "" THEN "private-peer" ELSE "signed"
               row == [trust |-> trust, verified |-> now, failing |-> FALSE]
               marks == [k \in DOMAIN persistMark \ drop |-> persistMark[k]]
               changed == key \notin DOMAIN peers \/ peers[key].trust # trust
    <3>k. key \in PeerKeys /\ <<s, "">> \in PeerKeys
      BY PeerKey
    <3>d. drop \in SUBSET PeerKeys
      BY <3>k
    <3>r. row \in PeerRows(Nat)
      BY <1>0 DEF PeerRows
    <3>1. key \in PeerKeys /\ drop \in SUBSET PeerKeys /\ row \in PeerRows(Nat)
      BY <3>k, <3>d, <3>r
    <3>2. /\ peers' = Put([k \in DOMAIN peers \ drop |-> peers[k]], key, row)
          /\ IF persistDue(changed, key, now)
             THEN /\ persistPeers(peers', ok, now)
                  /\ persistMark' = IF ok THEN Put(marks, key, now) ELSE marks
             ELSE ok /\ persistMark' = marks /\ UNCHANGED <<peersDisk, peersSavedAt, peersFailed>>
      BY <1>1 DEF RecordIntegrationVerified
    <3> HIDE DEF key, drop, row, changed
    <3> QED BY <3>1, <3>2
  <2>2. /\ DOMAIN peers' = (DOMAIN peers \ drop) \cup {key} /\ peers'[key] = row
        /\ \A k \in DOMAIN peers \ drop : k # key => peers'[k] = peers[k]
    BY <2>1 DEF Put
  <2>3. DOMAIN persistMark' \subseteq (DOMAIN persistMark \ drop) \cup {key}
    BY <2>1 DEF Put
  <2>4. Rows(peers')
    BY <2>1, <2>2 DEF PeerTypes, Rows
  <2>5. Rows(peersDisk')
    BY <1>d, <2>1, <2>4 DEF PeerTypes
  <2> QED BY <2>2, <2>3, <2>4, <2>5 DEF PeerTypes
<1>2. ASSUME NEW s \in Sources, NEW ok \in BOOLEAN, RecordIntegrationFailure(s, ok, now), UNCHANGED now
      PROVE  PeerTypes'
  <2> DEFINE known == {k \in DOMAIN peers : k[1] = s}
             fresh == IF known = {} /\ s \in PrivateSources THEN {<<s, "">>} ELSE {}
             row(k) == IF k \in known THEN [peers[k] EXCEPT !.failing = TRUE]
                                      ELSE [trust |-> "", verified |-> 0, failing |-> TRUE]
  <2>1. PICK key \in known \cup fresh : /\ peers' = Put(peers, key, row(key))
                                        /\ persistPeers(peers', ok, now)
                                        /\ persistMark' = Put(persistMark, key, now)
    BY <1>2 DEF RecordIntegrationFailure
  <2>2. key \in PeerKeys
    <3>1. <<s, "">> \in PeerKeys
      BY PeerKey
    <3>2. known \subseteq PeerKeys
      BY DEF PeerTypes, Rows
    <3> QED BY <2>1, <3>1, <3>2
  <2>3. row(key) \in PeerRows(Nat)
    <3>1. CASE key \in known
      <4>1. peers[key] \in PeerRows(Nat)
        BY <3>1 DEF PeerTypes, Rows
      <4>2. [peers[key] EXCEPT !.failing = TRUE] \in PeerRows(Nat)
        BY <4>1 DEF PeerRows
      <4> QED BY <3>1, <4>2
    <3>2. CASE key \notin known
      BY <3>2 DEF PeerRows
    <3> QED BY <3>1, <3>2
  <2> HIDE DEF row, known, fresh
  <2>4. /\ DOMAIN peers' = DOMAIN peers \cup {key} /\ peers'[key] = row(key)
        /\ \A k \in DOMAIN peers : k # key => peers'[k] = peers[k]
    BY <2>1 DEF Put
  <2>5. DOMAIN persistMark' = DOMAIN persistMark \cup {key}
    BY <2>1 DEF Put
  <2>6. Rows(peers')
    BY <2>2, <2>3, <2>4 DEF PeerTypes, Rows
  <2> QED BY <1>d, <2>1, <2>4, <2>5, <2>6 DEF PeerTypes
<1>3. CASE PeersRestart /\ UNCHANGED now
  <2>1. DOMAIN persistMark' = {}
    BY <1>3, EmptyTable DEF PeersRestart
  <2> QED BY <1>3, <2>1 DEF PeersRestart, PeerTypes
<1>4. CASE UNCHANGED peerVars /\ now' \in Nat /\ now <= now'
  BY <1>4 DEF peerVars, PeerTypes
<1> QED BY <1>1, <1>2, <1>3, <1>4 DEF PeersStep

\* The settings name hosts only: a list with another name is refused.
SettingsTypes ==
  /\ trusted \subseteq Hosts /\ trustedDisk \subseteq Hosts
  /\ DOMAIN realityProfiles \subseteq Keys /\ DOMAIN realityDisk.profiles \subseteq Keys

LEMMA SettingsTypesStep == ASSUME SettingsTypes, RealityStep PROVE SettingsTypes'
<1> USE DEF SettingsTypes
<1>1. ASSUME NEW w \in Workers, NEW h \in Hosts, NEW r \in StoryRequests, storyBegin(w, h, r)
      PROVE  SettingsTypes'
  BY <1>1 DEF storyBegin
<1>2. ASSUME NEW w \in Workers, NEW ok \in BOOLEAN, ObserveTargetReality(w, ok) PROVE SettingsTypes'
  <2>1. UNCHANGED <<trusted, trustedDisk, realityProfiles>>
    BY <1>2 DEF ObserveTargetReality
  <2>2. realityDisk' = realityDisk \/ realityDisk'.profiles = realityProfiles'
    BY <1>2 DEF ObserveTargetReality, persistTargetRealities
  <2> QED BY <2>1, <2>2
<1>3. ASSUME NEW d \in DomainLists, NEW ok \in BOOLEAN, SetManualTrustedDomains(d, ok)
      PROVE  SettingsTypes'
  BY <1>3 DEF SetManualTrustedDomains
<1>4. ASSUME NEW p \in ProfileLists, NEW ok \in BOOLEAN, SetTargetRealityProfiles(p, ok)
      PROVE  SettingsTypes'
  <2> DEFINE kept == {k \in DOMAIN realityProfiles : ~realityTargetTrusted(k.host)}
             next == Over(p, [k \in kept |-> realityProfiles[k]])
  <2>1. UNCHANGED <<trusted, trustedDisk>>
    BY <1>4 DEF SetTargetRealityProfiles
  <2>2. \/ UNCHANGED <<realityProfiles, realityDisk>>
        \/ /\ \A k \in DOMAIN p : realityTargetTrusted(k.host)
           /\ realityProfiles' = next /\ realityDisk'.profiles = realityProfiles'
    BY <1>4 DEF SetTargetRealityProfiles, persistTargetRealities
  <2>3. DOMAIN next = DOMAIN p \cup kept
    BY DEF Over
  <2>4. kept \subseteq Keys
    OBVIOUS
  <2>5. ASSUME \A k \in DOMAIN p : realityTargetTrusted(k.host) PROVE DOMAIN p \subseteq Keys
    <3> SUFFICES ASSUME NEW k \in DOMAIN p PROVE k \in Keys
      OBVIOUS
    <3>1. k.host \in Hosts
      BY <2>5, RealityAssumption DEF realityTargetTrusted
    <3>2. k = [host |-> k.host, wild |-> k.wild] /\ k.wild \in BOOLEAN
      BY AdminAssumption
    <3> QED BY <3>1, <3>2 DEF Keys
  <2> HIDE DEF next, kept
  <2> QED BY <2>1, <2>2, <2>3, <2>4, <2>5
<1>5. ASSUME NEW h \in Hosts, NEW ok \in BOOLEAN, ResetTargetRealityState(h, ok) PROVE SettingsTypes'
  <2>1. UNCHANGED <<trusted, trustedDisk, realityProfiles>>
    BY <1>5 DEF ResetTargetRealityState
  <2>2. realityDisk' = realityDisk \/ realityDisk'.profiles = realityProfiles'
    BY <1>5 DEF ResetTargetRealityState, persistTargetRealities
  <2> QED BY <2>1, <2>2
<1>6. CASE RealityRestart
  BY <1>6 DEF RealityRestart
<1>7. CASE UNCHANGED realityVars
  BY <1>7 DEF realityVars
<1> QED BY <1>1, <1>2, <1>3, <1>4, <1>5, <1>6, <1>7 DEF RealityStep

-----------------------------------------------------------------------------
(* The server: every step is a step of each part *)

Refused == [op |-> "refused", arg |-> ""]

\* A browser waits for one of the requests the server knows.
CallsOK == calls \in [Browsers -> AdminOps \cup {NoCall, Refused}]

\* The arguments of an admitted change come from its request.
LEMMA AdmittedArg ==
  ASSUME NEW call \in AdminOps \cup {NoCall, Refused}
  PROVE  /\ call.op = "domains" => call.arg \in DomainLists
         /\ call.op = "profiles" => call.arg \in ProfileLists
         /\ call.op = "reset" => call.arg \in Hosts
<1>1. CASE call = NoCall \/ call = Refused \/ call = [op |-> "info", arg |-> ""]
  <2>1. ASSUME call = NoCall PROVE call.op = "none"
    BY <2>1 DEF NoCall
  <2>2. ASSUME call = Refused PROVE call.op = "refused"
    BY <2>2 DEF Refused
  <2>3. ASSUME call = [op |-> "info", arg |-> ""] PROVE call.op = "info"
    BY <2>3
  <2>4. call.op # "domains" /\ call.op # "profiles" /\ call.op # "reset"
    BY <1>1, <2>1, <2>2, <2>3
  <2> QED BY <2>4
<1>2. CASE \E d \in DomainLists : call = [op |-> "domains", arg |-> d]
  BY <1>2
<1>3. CASE \E p \in ProfileLists : call = [op |-> "profiles", arg |-> p]
  BY <1>3
<1>4. CASE \E h \in Hosts : call = [op |-> "reset", arg |-> h]
  BY <1>4
<1>5. \/ call = NoCall \/ call = Refused \/ call = [op |-> "info", arg |-> ""]
      \/ \E d \in DomainLists : call = [op |-> "domains", arg |-> d]
      \/ \E p \in ProfileLists : call = [op |-> "profiles", arg |-> p]
      \/ \E h \in Hosts : call = [op |-> "reset", arg |-> h]
  BY DEF AdminOps
<1> QED BY <1>1, <1>2, <1>3, <1>4, <1>5

Clock == now' \in Nat /\ now <= now'

Parts == PeersStep /\ RealityStep /\ ConsoleStep /\ SessionStep /\ LimitsStep /\ CallsOK'

\* What a step leaves alone.
LEMMA QuietReality == UNCHANGED realityVars => RealityStep
BY DEF RealityStep

LEMMA QuietPeers == UNCHANGED peerVars /\ Clock => PeersStep
BY DEF PeersStep, Clock

LEMMA QuietSessions == UNCHANGED <<drawn, cookie, sessions>> /\ Clock => SessionStep
BY DEF SessionStep, Clock

LEMMA QuietLimits == UNCHANGED <<failures, update>> /\ Clock => LimitsStep
BY DEF LimitsStep, Clock

LEMMA QuietConsole == quietConsole => ConsoleStep
BY DEF ConsoleStep

LEMMA NewCall ==
  ASSUME CallsOK, NEW b \in Browsers, NEW call \in AdminOps \cup {NoCall, Refused},
         calls' = [calls EXCEPT ![b] = call]
  PROVE  CallsOK'
BY DEF CallsOK, AdminOps

\* Sign-in, sign-out and the guard in front of the handlers.
LEMMA BrowserParts ==
  ASSUME CallsOK, now \in Nat, NEW b \in Browsers,
         \/ adminLogin(b) \/ adminLoginRefused(b) \/ loginAnswered(b) \/ info(b) \/ adminBasicAuth(b)
         \/ \E signOut \in BOOLEAN : adminRefused(b, signOut)
         \/ \E csrf \in BOOLEAN : adminLogout(b, csrf)
         \/ \E call \in AdminOps, csrf \in BOOLEAN : adminSessionAuth(b, call, csrf)
  PROVE  Parts
<1>0. ASSUME UNCHANGED now PROVE Clock
  BY <1>0 DEF Clock
<1>c. NoCall \in AdminOps \cup {NoCall, Refused} /\ Refused \in AdminOps \cup {NoCall, Refused}
      /\ [op |-> "info", arg |-> ""] \in AdminOps \cup {NoCall, Refused}
  BY DEF AdminOps
<1>k. ASSUME UNCHANGED calls PROVE CallsOK'
  BY <1>k DEF CallsOK, AdminOps
<1>1. CASE adminLogin(b)
  <2>1. UNCHANGED realityVars /\ UNCHANGED peerVars /\ UNCHANGED now /\ UNCHANGED calls /\ quietConsole
    BY <1>1 DEF adminLogin
  <2>2. SessionStep
    BY <1>0, <1>1, <2>1 DEF adminLogin, SessionStep, Clock
  <2>3. LimitsStep
    BY <1>0, <1>1, <2>1 DEF adminLogin, LimitsStep, Clock
  <2> QED BY <1>0, <1>k, <2>1, <2>2, <2>3, QuietReality, QuietPeers, QuietConsole DEF Parts
<1>2. CASE adminLoginRefused(b)
  <2>1. UNCHANGED realityVars /\ UNCHANGED peerVars /\ UNCHANGED now /\ UNCHANGED <<drawn, cookie, sessions>>
        /\ UNCHANGED update /\ quietConsole
    BY <1>2 DEF adminLoginRefused
  <2>2. calls' = [calls EXCEPT ![b] = Refused]
    BY <1>2 DEF adminLoginRefused, Refused
  <2>3. LimitsStep
    BY <1>0, <1>2, <2>1 DEF adminLoginRefused, LimitsStep, Clock
  <2>4. CallsOK'
    BY <1>c, <2>2, NewCall
  <2> QED BY <1>0, <2>1, <2>3, <2>4, QuietReality, QuietPeers, QuietConsole, QuietSessions DEF Parts
<1>3. CASE loginAnswered(b)
  <2>1. UNCHANGED realityVars /\ UNCHANGED peerVars /\ UNCHANGED now /\ UNCHANGED <<drawn, cookie, sessions>>
        /\ UNCHANGED <<failures, update>> /\ quietConsole
    BY <1>3 DEF loginAnswered
  <2>2. CallsOK'
    BY <1>c, <1>3, NewCall DEF loginAnswered, Returns
  <2> QED BY <1>0, <2>1, <2>2, QuietReality, QuietPeers, QuietConsole, QuietSessions, QuietLimits DEF Parts
<1>4. CASE info(b)
  <2>1. UNCHANGED realityVars /\ UNCHANGED peerVars /\ UNCHANGED now /\ UNCHANGED <<drawn, cookie, sessions>>
        /\ UNCHANGED failures /\ quietConsole
    BY <1>4 DEF info
  <2>2. CallsOK'
    BY <1>c, <1>4, NewCall DEF info, Returns
  <2>3. LimitsStep
    BY <1>0, <1>4, <2>1 DEF info, LimitsStep, Clock
  <2> QED BY <1>0, <2>1, <2>2, <2>3, QuietReality, QuietPeers, QuietConsole, QuietSessions DEF Parts
<1>5. CASE adminBasicAuth(b)
  <2>1. UNCHANGED realityVars /\ UNCHANGED peerVars /\ UNCHANGED now /\ UNCHANGED <<drawn, cookie>>
        /\ UNCHANGED update /\ quietConsole
    BY <1>5 DEF adminBasicAuth
  <2>2. CallsOK'
    BY <1>c, <1>5, NewCall DEF adminBasicAuth
  <2>3. LimitsStep
    BY <1>0, <1>5, <2>1 DEF adminBasicAuth, LimitsStep, Clock
  <2>4. SessionStep
    BY <1>0, <1>5, <2>1 DEF adminBasicAuth, SessionStep, Clock
  <2> QED BY <1>0, <2>1, <2>2, <2>3, <2>4, QuietReality, QuietPeers, QuietConsole DEF Parts
<1>6. ASSUME NEW signOut \in BOOLEAN, adminRefused(b, signOut) PROVE Parts
  <2>1. UNCHANGED realityVars /\ UNCHANGED peerVars /\ UNCHANGED now /\ UNCHANGED drawn /\ UNCHANGED calls
        /\ UNCHANGED <<failures, update>> /\ quietConsole
    BY <1>6 DEF adminRefused
  <2>2. SessionStep
    BY <1>0, <1>6, <2>1 DEF adminRefused, SessionStep, Clock
  <2> QED BY <1>0, <1>k, <2>1, <2>2, QuietReality, QuietPeers, QuietConsole, QuietLimits DEF Parts
<1>7. ASSUME NEW csrf \in BOOLEAN, adminLogout(b, csrf) PROVE Parts
  <2>1. UNCHANGED realityVars /\ UNCHANGED peerVars /\ UNCHANGED now /\ UNCHANGED drawn /\ UNCHANGED calls
        /\ UNCHANGED <<failures, update>> /\ quietConsole
    BY <1>7 DEF adminLogout
  <2>2. SessionStep
    BY <1>0, <1>7, <2>1 DEF adminLogout, SessionStep, Clock
  <2> QED BY <1>0, <1>k, <2>1, <2>2, QuietReality, QuietPeers, QuietConsole, QuietLimits DEF Parts
<1>8. ASSUME NEW call \in AdminOps, NEW csrf \in BOOLEAN, adminSessionAuth(b, call, csrf) PROVE Parts
  <2>1. UNCHANGED realityVars /\ UNCHANGED peerVars /\ UNCHANGED now /\ UNCHANGED <<drawn, cookie, sessions>>
        /\ UNCHANGED <<failures, update>> /\ quietConsole
    BY <1>8 DEF adminSessionAuth
  <2>2. CallsOK'
    BY <1>8, NewCall DEF adminSessionAuth
  <2> QED BY <1>0, <2>1, <2>2, QuietReality, QuietPeers, QuietConsole, QuietSessions, QuietLimits DEF Parts
<1> QED BY <1>1, <1>2, <1>3, <1>4, <1>5, <1>6, <1>7, <1>8

\* An admitted change is the change of the store its request asks for.
LEMMA ChangeParts ==
  ASSUME CallsOK, now \in Nat, NEW b \in Browsers, NEW ok \in BOOLEAN, changeSettings(b, ok)
  PROVE  Parts
<1>1. UNCHANGED peerVars /\ UNCHANGED now /\ UNCHANGED <<drawn, cookie, sessions>>
      /\ UNCHANGED <<failures, update>> /\ quietConsole /\ Returns(b)
  BY DEF changeSettings
<1>2. Clock
  BY <1>1 DEF Clock
<1>3. CallsOK'
  BY <1>1, NewCall DEF Returns
<1>4. PICK call \in AdminOps \cup {NoCall, Refused} : call = calls[b]
  BY DEF CallsOK
<1>5. \/ call.op = "domains"  /\ SetManualTrustedDomains(call.arg, ok)
      \/ call.op = "profiles" /\ SetTargetRealityProfiles(call.arg, ok)
      \/ call.op = "reset"    /\ ResetTargetRealityState(call.arg, ok)
  BY <1>4 DEF changeSettings
<1>6. RealityStep
  BY <1>5, AdmittedArg DEF RealityStep
<1> QED BY <1>1, <1>2, <1>3, <1>6, QuietPeers, QuietConsole, QuietSessions, QuietLimits DEF Parts

\* Every step of the server.
LEMMA StepParts == ASSUME CallsOK, now \in Nat, [Next]_vars PROVE Parts
<1>0. ASSUME UNCHANGED now PROVE Clock
  BY <1>0 DEF Clock
<1>k. ASSUME UNCHANGED calls PROVE CallsOK'
  BY <1>k DEF CallsOK, AdminOps
<1>1. ASSUME NEW b \in Browsers,
         \/ adminLogin(b) \/ adminLoginRefused(b) \/ loginAnswered(b) \/ info(b) \/ adminBasicAuth(b)
         \/ \E signOut \in BOOLEAN : adminRefused(b, signOut)
         \/ \E csrf \in BOOLEAN : adminLogout(b, csrf)
         \/ \E call \in AdminOps, csrf \in BOOLEAN : adminSessionAuth(b, call, csrf)
      PROVE Parts
  BY <1>1, BrowserParts
<1>2. ASSUME NEW b \in Browsers, NEW ok \in BOOLEAN, changeSettings(b, ok) PROVE Parts
  BY <1>2, ChangeParts
<1>3. CASE refreshAdminUpdateState
  <2>1. UNCHANGED realityVars /\ UNCHANGED peerVars /\ UNCHANGED now /\ UNCHANGED <<drawn, cookie, sessions>>
        /\ UNCHANGED failures /\ UNCHANGED calls /\ quietConsole
    BY <1>3 DEF refreshAdminUpdateState
  <2>2. LimitsStep
    BY <1>0, <1>3, <2>1 DEF refreshAdminUpdateState, LimitsStep, Clock
  <2> QED BY <1>0, <1>k, <2>1, <2>2, QuietReality, QuietPeers, QuietConsole, QuietSessions DEF Parts
<1>4. ASSUME NEW c \in Consoles,
             acceptConn(c) \/ acquireIP(c) \/ handleConn(c) \/ handleAdminSSHSession(c)
               \/ releaseIP(c) \/ releaseSlot(c)
      PROVE  Parts
  <2>1. quietWeb
    BY <1>4 DEF acceptConn, acquireIP, handleConn, handleAdminSSHSession, releaseIP, releaseSlot
  <2>2. UNCHANGED realityVars /\ UNCHANGED peerVars /\ UNCHANGED now /\ UNCHANGED <<drawn, cookie, sessions>>
        /\ UNCHANGED <<failures, update>> /\ UNCHANGED calls
    BY <2>1 DEF quietWeb
  <2>3. ConsoleStep
    BY <1>4 DEF ConsoleStep
  <2> QED BY <1>0, <1>k, <2>2, <2>3, QuietReality, QuietPeers, QuietSessions, QuietLimits DEF Parts
<1>5. ASSUME NEW w \in Workers, NEW h \in Hosts, NEW r \in StoryRequests, TrapRequest(w, h, r)
      PROVE  Parts
  <2>1. storyBegin(w, h, r) /\ quietAdmin /\ quietConsole /\ UNCHANGED peerVars
    BY <1>5 DEF TrapRequest
  <2>2. UNCHANGED now /\ UNCHANGED <<drawn, cookie, sessions>> /\ UNCHANGED <<failures, update>> /\ UNCHANGED calls
    BY <2>1 DEF quietAdmin
  <2>3. RealityStep
    BY <2>1 DEF RealityStep
  <2> QED BY <1>0, <1>k, <2>1, <2>2, <2>3, QuietPeers, QuietConsole, QuietSessions, QuietLimits DEF Parts
<1>6. ASSUME NEW w \in Workers, NEW ok \in BOOLEAN, TrapAnswer(w, ok) PROVE Parts
  <2>1. ObserveTargetReality(w, ok) /\ quietAdmin /\ quietConsole /\ UNCHANGED peerVars
    BY <1>6 DEF TrapAnswer
  <2>2. UNCHANGED now /\ UNCHANGED <<drawn, cookie, sessions>> /\ UNCHANGED <<failures, update>> /\ UNCHANGED calls
    BY <2>1 DEF quietAdmin
  <2>3. RealityStep
    BY <2>1 DEF RealityStep
  <2> QED BY <1>0, <1>k, <2>1, <2>2, <2>3, QuietPeers, QuietConsole, QuietSessions, QuietLimits DEF Parts
<1>7. ASSUME NEW s \in Sources, NEW ok \in BOOLEAN,
             PeerFailed(s, ok) \/ \E id \in SigningKeys \cup {""} : PeerVerified(s, id, ok)
      PROVE  Parts
  <2>1. /\ \/ RecordIntegrationFailure(s, ok, now)
           \/ \E id \in SigningKeys \cup {""} : RecordIntegrationVerified(s, id, ok, now)
        /\ quietAdmin /\ quietConsole /\ UNCHANGED realityVars
    BY <1>7 DEF PeerFailed, PeerVerified
  <2>2. UNCHANGED now /\ UNCHANGED <<drawn, cookie, sessions>> /\ UNCHANGED <<failures, update>> /\ UNCHANGED calls
    BY <2>1 DEF quietAdmin
  <2>3. PeersStep
    BY <2>1, <2>2 DEF PeersStep
  <2> QED BY <1>0, <1>k, <2>1, <2>2, <2>3, QuietReality, QuietConsole, QuietSessions, QuietLimits DEF Parts
<1>8. CASE Tick
  <2>1. UNCHANGED realityVars /\ UNCHANGED peerVars /\ UNCHANGED <<drawn, cookie, sessions>>
        /\ UNCHANGED <<failures, update>> /\ UNCHANGED calls /\ quietConsole /\ now' = now + 1
    BY <1>8 DEF Tick
  <2>2. Clock
    BY <2>1 DEF Clock
  <2> QED BY <1>k, <2>1, <2>2, QuietReality, QuietPeers, QuietConsole, QuietSessions, QuietLimits DEF Parts
<1>9. CASE Restart
  <2>1. UNCHANGED now /\ RealityRestart /\ PeersRestart /\ Clock
    BY <1>0, <1>9 DEF Restart
  <2>2. RealityStep /\ PeersStep
    BY <2>1 DEF RealityStep, PeersStep
  <2>3. ConsoleStep
    BY <1>9 DEF Restart, ConsoleStep
  <2>4. SessionStep
    BY <1>9, <2>1 DEF Restart, SessionStep, Clock
  <2>5. LimitsStep
    BY <1>9, <2>1 DEF Restart, LimitsStep, Clock
  <2>6. CallsOK'
    BY <1>9 DEF Restart, CallsOK, AdminOps
  <2> QED BY <2>2, <2>3, <2>4, <2>5, <2>6 DEF Parts
<1>10. CASE UNCHANGED vars
  <2>1. UNCHANGED realityVars /\ UNCHANGED peerVars /\ UNCHANGED adminVars
    BY <1>10 DEF vars
  <2>2. UNCHANGED now /\ UNCHANGED <<drawn, cookie, sessions>> /\ UNCHANGED <<failures, update>> /\ UNCHANGED calls
        /\ quietConsole
    BY <2>1 DEF adminVars, quietConsole
  <2> QED BY <1>0, <1>k, <2>1, <2>2, QuietReality, QuietPeers, QuietConsole, QuietSessions, QuietLimits DEF Parts
<1> QED BY <1>1, <1>2, <1>3, <1>4, <1>5, <1>6, <1>7, <1>8, <1>9, <1>10 DEF Next

-----------------------------------------------------------------------------
(* The inductive invariant and what it gives *)

AdminInv == /\ PeersInv /\ PeerTypes
            /\ SettingsInv /\ SettingsTypes /\ ClaimsInv
            /\ ConsoleInv /\ SessionsInv /\ LimitsInv /\ CallsOK

LEMMA InitParts == Init => AdminInv
<1> SUFFICES ASSUME Init PROVE AdminInv
  OBVIOUS
<1>e. DOMAIN <<>> = {}
  BY EmptyTable
<1>1. PeersInv /\ PeerTypes
  <2>1. PICK old \in SUBSET Sources : PeersInit([k \in old \X {""} |-> LegacyRow])
    BY DEF Init
  <2>2. /\ peersDisk = peers /\ DOMAIN peers = old \X {""} /\ \A k \in DOMAIN peers : peers[k] = LegacyRow
        /\ DOMAIN persistMark = {} /\ peersSavedAt = 0 /\ peersFailed = FALSE
    BY <1>e, <2>1 DEF PeersInit
  <2>3. LegacyRow \in PeerRows(Nat) /\ LegacyRow.verified \in Nat
    BY DEF LegacyRow, PeerRows
  <2>n. now = 1
    BY DEF Init
  <2>4. now \in Nat /\ 0 <= now
    BY <2>n
  <2>5. MarksOK
    BY <2>2, <2>4 DEF MarksOK
  <2>6. DOMAIN peers \subseteq PeerKeys
    BY <2>2 DEF PeerKeys
  <2>7. PeersSaved
    BY <2>2 DEF PeersSaved
  <2> QED BY <2>2, <2>3, <2>5, <2>6, <2>7 DEF PeersInv, RowsOK, DiskRowsOK, PeerTypes, Rows
<1>2. PICK domains \in DomainLists : domains \subseteq Hosts /\ RealityInit(domains, <<>>)
  BY DEF Init
<1>3. SettingsInv /\ SettingsTypes
  BY <1>e, <1>2 DEF RealityInit, SettingsInv, RecordsOK, SettingsAsTold, SettingsTypes
<1>4. ClaimsInv
  <2>1. /\ realityStates = <<>> /\ realityDisk.states = <<>> /\ statesSaved = TRUE
        /\ claims \in [Hosts -> SUBSET Technologies] /\ \A h \in Hosts : claims[h] = {}
        /\ story \in [Workers -> {Idle} \cup [host : Hosts, request : StoryRequests, trusted : BOOLEAN]]
        /\ \A w \in Workers : story[w] = Idle
    BY <1>2 DEF RealityInit
  <2>2. StoriesOK /\ PendingOK /\ ClaimsAgree
    BY <2>1 DEF StoriesOK, PendingOK, ClaimsAgree
  <2>3. StatesOK(<<>>)
    BY <1>e DEF StatesOK
  <2>4. Agree(realityDisk.states, realityStates)
    BY <2>1 DEF Agree
  <2> QED BY <2>1, <2>2, <2>3, <2>4 DEF ClaimsInv
<1>5. ConsoleInv
  <2>1. console = [c \in Consoles |-> "away"] /\ consoleSem = 0 /\ perIP = <<>>
    BY DEF Init
  <2>2. Taken = {} /\ \A ip : Charged(ip) = {}
    BY <2>1 DEF Taken, Charged
  <2>3. DOMAIN perIP = {} /\ \A ip : count(ip) = 0
    BY <1>e, <2>1 DEF count
  <2>4. console \in [Consoles -> Stages]
    BY <2>1 DEF Stages
  <2>5. IsFiniteSet(Taken) /\ consoleSem = Cardinality(Taken) /\ consoleSem <= MaxConsoles
    BY <2>1, <2>2, FS_EmptySet, AdminAssumption
  <2>6. \A ip : count(ip) = Cardinality(Charged(ip))
    BY <2>2, <2>3, FS_EmptySet
  <2> QED BY <2>3, <2>4, <2>5, <2>6 DEF ConsoleInv
<1>6. SessionsInv
  <2>1. DOMAIN sessions = {} /\ now = 1 /\ drawn = 0 /\ cookie = [b \in Browsers |-> 0]
    BY <1>e DEF Init
  <2>2. Cardinality(DOMAIN sessions) <= MaxSessions
    BY <2>1, FS_EmptySet, AdminAssumption
  <2> QED BY <2>1, <2>2 DEF SessionsInv
<1>7. LimitsInv
  <2>1. DOMAIN failures = {} /\ now = 1 /\ update = [checking |-> FALSE, started |-> 0, checkedAt |-> 0]
    BY <1>e DEF Init
  <2>2. IsFiniteSet(DOMAIN failures) /\ Cardinality(DOMAIN failures) <= MaxFailureRows
    BY <2>1, FS_EmptySet, AdminAssumption
  <2> QED BY <2>1, <2>2 DEF LimitsInv
<1>8. CallsOK
  BY DEF Init, CallsOK, AdminOps
<1> QED BY <1>1, <1>3, <1>4, <1>5, <1>6, <1>7, <1>8 DEF AdminInv

LEMMA NextParts == AdminInv /\ [Next]_vars => AdminInv' /\ KeptStep
<1> SUFFICES ASSUME AdminInv, [Next]_vars PROVE AdminInv' /\ KeptStep
  OBVIOUS
<1>1. PeersInv /\ PeerTypes /\ SettingsInv /\ SettingsTypes /\ ClaimsInv /\ ConsoleInv
      /\ SessionsInv /\ LimitsInv /\ CallsOK
  BY DEF AdminInv
<1>2. now \in Nat
  BY <1>1 DEF SessionsInv
<1>3. Parts
  BY <1>1, <1>2, StepParts
<1>4. PeersStep /\ RealityStep /\ ConsoleStep /\ SessionStep /\ LimitsStep /\ CallsOK'
  BY <1>3 DEF Parts
<1>5. PeersInv' /\ PeerTypes'
  BY <1>1, <1>4, PeersInvStep, PeerTypesStep
<1>6. SettingsInv' /\ SettingsTypes' /\ ClaimsInv'
  BY <1>1, <1>4, SettingsStep, SettingsTypesStep, ClaimsInvStep
<1>7. ConsoleInv' /\ LimitsInv'
  BY <1>1, <1>4, ConsoleInvStep, LimitsInvStep
<1>8. SessionsInv' /\ KeptStep
  BY <1>1, <1>4, SessionsInvStep
<1> QED BY <1>4, <1>5, <1>6, <1>7, <1>8 DEF AdminInv

LEMMA AdminInvariant == Spec => []AdminInv
BY InitParts, NextParts, PTL DEF Spec

\* The tables of the administration interface stay within their caps (sessions by
\* createAdminSession, failed sign-ins by recordAdminAuthFailure, console slots by
\* acceptConn and acquireIP), and every part keeps its types.
THEOREM TypeCorrect == Spec => []TypeOK
<1>1. AdminInv => TypeOK
  <2> SUFFICES ASSUME AdminInv PROVE TypeOK
    OBVIOUS
  <2>1. RealityTypeOK
    <3>1. /\ \A h \in DOMAIN realityStates : realityStates[h] \in StateType
          /\ \A h \in DOMAIN realityDisk.states : realityDisk.states[h] \in StateType
          /\ DOMAIN realityStates \subseteq Hosts
      BY DEF AdminInv, ClaimsInv, StatesOK, Lockable
    <3>2. \A w \in Workers : story[w] = Idle \/ story[w].host \in Hosts
      BY DEF AdminInv, ClaimsInv, StoriesOK
    <3> QED BY <3>1, <3>2 DEF AdminInv, ClaimsInv, SettingsTypes, RealityTypeOK
  <2>2. PeersTypeOK
    BY DEF AdminInv, PeerTypes, Rows, PeerKeys, PeersTypeOK
  <2>3. \A b \in Browsers : cookie[b] \in 0..drawn
    <3> SUFFICES ASSUME NEW b \in Browsers PROVE cookie[b] \in 0..drawn
      OBVIOUS
    <3>1. cookie[b] \in Nat /\ drawn \in Nat /\ cookie[b] <= drawn
      BY DEF AdminInv, SessionsInv
    <3> QED BY <3>1
  <2>4. update.checkedAt \in 0..now
    <3>1. update.checkedAt \in Nat /\ now \in Nat /\ update.checkedAt <= now
      BY DEF AdminInv, LimitsInv
    <3> QED BY <3>1
  <2>5. consoleSem \in 0..MaxConsoles
    <3>1. consoleSem \in Nat /\ consoleSem <= MaxConsoles /\ MaxConsoles \in Nat
      BY FS_CardinalityType, AdminAssumption DEF AdminInv, ConsoleInv
    <3> QED BY <3>1
  <2>6. /\ DOMAIN sessions \subseteq 1..drawn /\ Cardinality(DOMAIN sessions) <= MaxSessions
        /\ Cardinality(DOMAIN failures) <= MaxFailureRows
        /\ \A ip \in DOMAIN perIP : perIP[ip] \in 1..MaxPerIP
    BY DEF AdminInv, SessionsInv, LimitsInv, ConsoleInv
  <2> QED BY <2>1, <2>2, <2>3, <2>4, <2>5, <2>6 DEF TypeOK
<1> QED BY <1>1, AdminInvariant, PTL

\* What storyBegin and ObserveTargetReality served as a claim agrees with what the host
\* is locked to: the gates and the commitment are two steps, whatever a second worker,
\* a changed setting, a reset, a failed write or a restart does between them.
THEOREM ClaimsHold == Spec => []ClaimsAgree
<1>1. AdminInv => ClaimsAgree
  BY DEF AdminInv, ClaimsInv
<1> QED BY <1>1, AdminInvariant, PTL

\* The settings in force, on disk and reported as saved are the same through refused
\* and failed changes, the story's own writes of the file, and restarts.
THEOREM SettingsKept == Spec => []SettingsAsTold
<1>1. AdminInv => SettingsAsTold
  BY DEF AdminInv, SettingsInv
<1> QED BY <1>1, AdminInvariant, PTL

\* integration-peers.json lists the known peers with their trust, and its times lag by
\* less than PersistEvery, unless the last write failed.
THEOREM PeersKept == Spec => []PeersSaved
<1>1. AdminInv => PeersSaved
  BY DEF AdminInv, PeersInv
<1> QED BY <1>1, AdminInvariant, PTL

\* acceptConn, acquireIP, releaseIP and the deferred return of the slot balance: the
\* counters are the connections, for every order of their ends and for restarts.
THEOREM ConsoleKept == Spec => []ConsoleAccounted
<1>1. AdminInv => ConsoleAccounted
  BY DEF AdminInv, ConsoleInv, ConsoleAccounted, Taken, Charged
<1> QED BY <1>1, AdminInvariant, PTL

\* A valid session goes only when its browser signs out, at a restart, or when
\* MaxSessions others at least as recent are valid.
THEOREM SessionsStay == Spec => SessionsKept
<1>1. AdminInv /\ [Next]_vars => [KeptStep]_vars
  BY NextParts
<1>2. [KeptStep]_vars =>
      [\A t \in DOMAIN sessions \ DOMAIN sessions' : sessionLive(t) =>
          \/ \E b \in Browsers : cookie[b] = t /\ cookie'[b] = 0
          \/ sessions' = <<>> /\ console' = [c \in Consoles |-> "away"]
          \/ Cardinality({u \in DOMAIN sessions' : sessions'[u] >= sessions[t]}) >= MaxSessions]_vars
  BY DEF KeptStep
<1> QED BY <1>1, <1>2, AdminInvariant, PTL DEF Spec, SessionsKept

=============================================================================
