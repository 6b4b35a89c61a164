---------------------------- MODULE TargetReality ----------------------------
(***************************************************************************)
(* What a trap host pretends to be.  The store keeps the domains the       *)
(* administrator trusts, the profiles configured for them and what each    *)
(* host has learned about itself (store/trusted_domains.go,                *)
(* store/target_realities.go); the web story (engine/deception_story.go)   *)
(* resolves that reality before it answers and commits the answer after    *)
(* its gates accepted it.  Both files are replaced as a whole, and a write *)
(* may fail.                                                               *)
(*                                                                         *)
(* Text is abstracted: a host is a model value and Below is the "ends in   *)
(* a dot and this name" relation; a request is the outcome of classifying  *)
(* its path and label.  Confidence, facts, revisions and times follow the  *)
(* fields kept here and are left out.                                      *)
(***************************************************************************)
EXTENDS Integers, FiniteSets, Tables

CONSTANTS
    Hosts,          \* canonical host names
    Below,          \* pairs <<host, root>>: host is a subdomain of root
    Workers,        \* goroutines that answer trap requests
    Technologies,   \* candidates the story knows
    CloudNames,     \* "aws", "azure", "gcp"
    StoryRequests,  \* classified requests: candidate technology, owner of the
                    \* artifact, cloud, followed link, 2xx, verdict of the gates
    MaxEvidence     \* bound on the evidence of one technology

\* What the story reads off a path and a label: the technology it points to,
\* the one an artifact belongs to, the cloud, whether it follows a link the
\* trap served, the status of the prepared answer, and the verdict of the
\* gates that decide by hash.
ClassifiedRequests ==
    [candidate : Technologies \cup {""}, owner : Technologies \cup {""},
     cloud : CloudNames \cup {""}, follow : BOOLEAN, success : BOOLEAN,
     gate : {"pass", "surface", "alias", "sensitive", "artifact", "redirect"}]

ASSUME RealityAssumption ==
    /\ Below \subseteq Hosts \X Hosts
    /\ \A h \in Hosts : <<h, h>> \notin Below
    /\ "" \notin Technologies \cup CloudNames
    /\ MaxEvidence \in Nat
    /\ StoryRequests \subseteq ClassifiedRequests

VARIABLES
    trusted,          \* trustedManual
    realityProfiles,  \* realityProfiles: key -> profile
    realityStates,    \* realityStates: host -> learned state
    trustedDisk,      \* trusted-domains.json
    realityDisk,      \* target-realities.json: profiles and states
    story,            \* the response each worker is deciding on
    claims,           \* history: technologies claimed to visitors of a host
    told,             \* history: settings the administrator was told are saved
    statesSaved       \* history: the last write of the learned states worked

realityVars == <<trusted, realityProfiles, realityStates, trustedDisk, realityDisk,
                 story, claims, told, statesSaved>>

Keys == [host : Hosts, wild : BOOLEAN]

Idle == [host |-> "", request |-> "", trusted |-> FALSE]

Unlearned == [technology |-> "", locked |-> FALSE, cloud |-> "",
              evidence |-> [t \in Technologies |-> 0]]

Automatic == [mode |-> "automatic", apps |-> {}, infra |-> {}, inherit |-> FALSE]

-----------------------------------------------------------------------------
(***************************************************************************)
(* Resolution                                                              *)
(***************************************************************************)

\* A host belongs to a trusted root on a label boundary.
realityTargetTrusted(h) == \E d \in trusted : h = d \/ <<h, d>> \in Below

\* Of several suffixes of one host, the longest is a subdomain of the others.
Longest(keys) == CHOOSE k \in keys : \A j \in keys : j = k \/ <<k.host, j.host>> \in Below

\* The profile that applies to a host: exact, then wildcard, then inherited.
realityProfileFor(h) ==
    LET exact   == {k \in DOMAIN realityProfiles : ~k.wild /\ k.host = h}
        wild    == {k \in DOMAIN realityProfiles : k.wild /\ <<h, k.host>> \in Below}
        parents == {k \in DOMAIN realityProfiles : /\ ~k.wild
                                                   /\ realityProfiles[k].inherit
                                                   /\ <<h, k.host>> \in Below}
        layer   == IF exact # {} THEN exact ELSE IF wild # {} THEN wild ELSE parents
    IN  IF ~realityTargetTrusted(h) \/ layer = {}
        THEN Automatic
        ELSE realityProfiles[Longest(layer)]

learnedState(h) == IF h \in DOMAIN realityStates THEN realityStates[h] ELSE Unlearned

\* An untrusted host resolves to a blank reality whatever it has learned.
ResolveTargetReality(h) ==
    [profile |-> realityProfileFor(h),
     state   |-> IF realityTargetTrusted(h) THEN learnedState(h) ELSE Unlearned]

-----------------------------------------------------------------------------
(***************************************************************************)
(* The story's gates                                                       *)
(***************************************************************************)

normalizedRealityApp(t) == CASE t = "php" -> "generic-php"
                             [] t = "asp" -> "aspnet"
                             [] OTHER     -> t

realityHas(values, want) ==
    \E v \in values : normalizedRealityApp(v) = normalizedRealityApp(want)

storyCompatible(locked, requested) ==
    \/ locked = "" \/ requested = "" \/ locked = requested
    \/ locked = "wordpress" /\ normalizedRealityApp(requested) = "generic-php"

\* How specific a classified path is; a followed link adds three.
storyWeight(r) ==
    IF r.candidate = "" THEN 0
    ELSE (IF r.candidate \in {"php", "asp", "embedded-appliance"} THEN 2 ELSE 3)
         + (IF r.follow THEN 3 ELSE 0)

\* The candidate agrees with the commitment and with the configured set.
candidateAllowed(r, res, configured) ==
    r.candidate = "" \/
    /\ res.state.locked => storyCompatible(res.state.technology, r.candidate)
    /\ configured => realityHas(res.profile.apps, r.candidate)

cloudAllowed(r, res) ==
    LET configured == res.profile.infra \cap CloudNames
    IN  \/ r.cloud = ""
        \/ IF configured # {} THEN r.cloud \in configured
                              ELSE res.state.cloud \in {"", r.cloud}

\* An artifact of another technology is not served next to the current one.
ownerAllowed(r, res, configured) ==
    r.success /\ r.owner # "" =>
        /\ storyCompatible(res.state.technology, r.owner)
        /\ configured => realityHas(res.profile.apps, r.owner)

\* A surface is thinned out by the host's seed: repository roots, debug
\* pages and management consoles exist on some hosts and not on others.
storySurfaceAllowed(r) == r.success => r.gate # "surface"

\* Aliases of one secret share a small budget.
storySensitiveAliasAllowed(r) == r.success => r.gate # "alias"

\* Not every host exposes every class of secret.
storySensitiveExposureAllowed(r) == r.success => r.gate # "sensitive"

\* Nor every artifact of a family.
storyArtifactAllowed(r) == r.success => r.gate # "artifact"

\* A management page other than the workspace turns into a redirect.
storySuccess(r) == r.success /\ r.gate # "redirect"

\* The gates together: the answer is kept, or becomes a plain 404.
storyAccepts(r, res) ==
    LET configured == res.profile.mode # "automatic" /\ res.profile.apps # {}
    IN  /\ candidateAllowed(r, res, configured)
        /\ cloudAllowed(r, res)
        /\ ownerAllowed(r, res, configured)
        /\ storySurfaceAllowed(r)
        /\ storySensitiveAliasAllowed(r)
        /\ storySensitiveExposureAllowed(r)
        /\ storyArtifactAllowed(r)

-----------------------------------------------------------------------------
(***************************************************************************)
(* Learning                                                                *)
(***************************************************************************)

\* The technology a host commits to; ties in the evidence fall to the order
\* of a Go map.  Only an open profile learns from evidence, and a locked
\* state no longer moves.
learnTechnology(st, p, r) ==
    LET weight == storyWeight(r)
        seen   == [st EXCEPT !.evidence[r.candidate] = @ + weight]
        best   == {t \in Technologies : \A u \in Technologies : seen.evidence[t] >= seen.evidence[u]}
        score  == seen.evidence[CHOOSE t \in best : TRUE]
        open   == p.mode = "automatic" \/ p.apps = {}
        take(ts, lock) == {[seen EXCEPT !.technology = t, !.locked = lock] : t \in ts}
    IN  IF weight = 0 THEN {st}
        ELSE IF open
        THEN IF st.locked                            THEN {seen}
             ELSE IF storySuccess(r) /\ weight >= 3  THEN take({r.candidate}, TRUE)
             ELSE IF score >= 5                      THEN take(best, TRUE)
             ELSE IF score >= 3                      THEN take(best, FALSE)
             ELSE {seen}
        ELSE IF r.candidate \in p.apps /\ st.technology = ""
        THEN take({r.candidate}, st.locked \/ Cardinality(p.apps) = 1)
        ELSE {seen}

learnCloud(st, p, r) ==
    IF /\ r.cloud # "" /\ storySuccess(r) /\ st.cloud = ""
       /\ p.infra = {} \/ r.cloud \in p.infra
    THEN [st EXCEPT !.cloud = r.cloud]
    ELSE st

\* A served, specific answer in an open profile of a trusted host is a claim.
isClaim(s, p) ==
    /\ s.trusted
    /\ p.mode = "automatic" \/ p.apps = {}
    /\ storySuccess(s.request)
    /\ storyWeight(s.request) >= 3

\* persistTargetRealitiesLocked: a temporary file renamed over the old one.
persistTargetRealities(ok) ==
    realityDisk' = IF ok THEN [profiles |-> realityProfiles', states |-> realityStates']
                         ELSE realityDisk

-----------------------------------------------------------------------------
(***************************************************************************)
(* A trap request.  The story mutex is held from the resolution to the     *)
(* commit; the store's mutex is not, so settings can change in between.    *)
(***************************************************************************)

EvidenceBounded(h, r) ==
    r.candidate # "" => learnedState(h).evidence[r.candidate] + storyWeight(r) <= MaxEvidence

\* Mutant: the story does not hold its mutex between resolution and commit.
storyBeginUnlocked(w, h, r) ==
    /\ story[w] = Idle
    /\ EvidenceBounded(h, r)
    /\ storyAccepts(r, ResolveTargetReality(h))
    /\ story' = [story EXCEPT ![w] = [host |-> h, request |-> r, trusted |-> realityTargetTrusted(h)]]
    /\ UNCHANGED <<trusted, realityProfiles, realityStates, trustedDisk, realityDisk,
                   claims, told, statesSaved>>

\* Resolve the reality and pass the gates; a miss changes nothing.
storyBegin(w, h, r) ==
    /\ \A v \in Workers : story[v] = Idle
    /\ EvidenceBounded(h, r)
    /\ storyAccepts(r, ResolveTargetReality(h))
    /\ story' = [story EXCEPT ![w] = [host |-> h, request |-> r, trusted |-> realityTargetTrusted(h)]]
    /\ UNCHANGED <<trusted, realityProfiles, realityStates, trustedDisk, realityDisk,
                   claims, told, statesSaved>>

\* ObserveTargetReality: learn, and write the file when the commitment moved.
\* The result of the write is ignored.
ObserveTargetReality(w, ok) ==
    /\ story[w] # Idle
    /\ LET h  == story[w].host
           r  == story[w].request
           p  == realityProfileFor(h)
           st == learnedState(h)
       IN  \E new \in {learnCloud(n, p, r) : n \in learnTechnology(st, p, r)} :
             LET changed == [new EXCEPT !.evidence = st.evidence] # st
             IN  /\ realityStates' = Put(realityStates, h, new)
                 /\ UNCHANGED realityProfiles
                 /\ IF changed
                    THEN persistTargetRealities(ok) /\ statesSaved' = ok
                    ELSE ok /\ UNCHANGED <<realityDisk, statesSaved>>
                 /\ claims' = IF isClaim(story[w], p)
                              THEN [claims EXCEPT ![h] = @ \cup {r.candidate}]
                              ELSE claims
    /\ story' = [story EXCEPT ![w] = Idle]
    /\ UNCHANGED <<trusted, trustedDisk, told>>

-----------------------------------------------------------------------------
(***************************************************************************)
(* The administrator's changes; each runs under the store's mutex          *)
(***************************************************************************)

\* Mutant: a failed write keeps the new domains in memory.
SetManualTrustedDomainsKept(domains, ok) ==
    /\ domains \subseteq Hosts
    /\ trusted' = domains
    /\ trustedDisk' = IF ok THEN domains ELSE trustedDisk
    /\ told' = IF ok THEN [told EXCEPT !.domains = domains] ELSE told
    /\ UNCHANGED <<realityProfiles, realityStates, realityDisk, story, claims, statesSaved>>

\* Replaces the list; an invalid name refuses it, a failed write undoes it.
SetManualTrustedDomains(domains, ok) ==
    /\ IF domains \subseteq Hosts /\ ok
       THEN /\ trusted' = domains
            /\ trustedDisk' = domains
            /\ told' = [told EXCEPT !.domains = domains]
       ELSE UNCHANGED <<trusted, trustedDisk, told>>
    /\ UNCHANGED <<realityProfiles, realityStates, realityDisk, story, claims, statesSaved>>

\* Replaces the profiles of trusted targets and keeps the others.
SetTargetRealityProfiles(profiles, ok) ==
    LET kept == {k \in DOMAIN realityProfiles : ~realityTargetTrusted(k.host)}
        next == Over(profiles, [k \in kept |-> realityProfiles[k]])
    IN  /\ IF (\A k \in DOMAIN profiles : realityTargetTrusted(k.host)) /\ ok
           THEN /\ realityProfiles' = next
                /\ UNCHANGED realityStates
                /\ persistTargetRealities(TRUE)
                /\ statesSaved' = TRUE
                /\ told' = [told EXCEPT !.profiles = next]
           ELSE UNCHANGED <<realityProfiles, realityStates, realityDisk, statesSaved, told>>
        /\ UNCHANGED <<trusted, trustedDisk, story, claims>>

\* Forgets what a host learned; a failed write does not bring it back.
ResetTargetRealityState(h, ok) ==
    /\ realityStates' = Delete(realityStates, h)
    /\ UNCHANGED realityProfiles
    /\ persistTargetRealities(ok)
    /\ statesSaved' = ok
    /\ claims' = [claims EXCEPT ![h] = {}]
    /\ UNCHANGED <<trusted, trustedDisk, story, told>>

\* The process starts again from its two files.  What the last write did
\* not save is forgotten, and visitors' claims with it.
RealityRestart ==
    /\ trusted' = trustedDisk
    /\ realityProfiles' = realityDisk.profiles
    /\ realityStates' = realityDisk.states
    /\ story' = [w \in Workers |-> Idle]
    /\ claims' = IF statesSaved THEN claims ELSE [h \in Hosts |-> {}]
    /\ statesSaved' = TRUE
    /\ UNCHANGED <<trustedDisk, realityDisk, told>>

\* An installation that was configured before.
RealityInit(domains, profiles) ==
    /\ trusted = domains /\ trustedDisk = domains
    /\ realityProfiles = profiles
    /\ realityStates = <<>>
    /\ realityDisk = [profiles |-> profiles, states |-> <<>>]
    /\ story = [w \in Workers |-> Idle]
    /\ claims = [h \in Hosts |-> {}]
    /\ told = [domains |-> domains, profiles |-> profiles]
    /\ statesSaved = TRUE

-----------------------------------------------------------------------------
StateType == [technology : Technologies \cup {""}, locked : BOOLEAN, cloud : CloudNames \cup {""},
              evidence : [Technologies -> Nat]]

RealityTypeOK ==
    /\ trusted \subseteq Hosts /\ trustedDisk \subseteq Hosts
    /\ DOMAIN realityProfiles \subseteq Keys
    /\ DOMAIN realityStates \subseteq Hosts
    /\ \A h \in DOMAIN realityStates : realityStates[h] \in StateType
    /\ \A h \in DOMAIN realityDisk.states : realityDisk.states[h] \in StateType
    /\ \A w \in Workers : story[w] = Idle \/ story[w].host \in Hosts
    /\ claims \in [Hosts -> SUBSET Technologies]

(***************************************************************************)
(* "A successful high-specificity response is itself a public claim.       *)
(* Commit it atomically so a later scanner cannot turn an already-served   *)
(* ... surface into another primary technology": whatever has been served  *)
(* as a claim on a trusted host is compatible with the technology the host *)
(* is locked to, across concurrent requests, changed settings and restarts *)
(* (until an explicit reset, or a restart after a write that failed).      *)
(***************************************************************************)
ClaimsAgree ==
    \A h \in Hosts : claims[h] # {} =>
        /\ learnedState(h).locked
        /\ \A c \in claims[h] : storyCompatible(learnedState(h).technology, c)

(***************************************************************************)
(* The settings in force, the ones on disk and the ones the administrator  *)
(* was last told are saved are the same: a refused or failed change leaves *)
(* no trace, and what a visitor makes the story write never undoes one.    *)
(***************************************************************************)
SettingsAsTold ==
    /\ trusted = told.domains /\ trustedDisk = told.domains
    /\ realityProfiles = told.profiles /\ realityDisk.profiles = told.profiles
=============================================================================
