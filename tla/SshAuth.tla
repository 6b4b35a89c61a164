------------------------------ MODULE SshAuth ------------------------------
(***************************************************************************)
(* The acceptance policy of the SSH trap: trapCredentialDecision           *)
(* (internal/server/trap_ssh_auth_policy.go) over the credential pools and *)
(* the source bindings of the store (internal/store/ssh_auth_reality.go).  *)
(*                                                                         *)
(* A decision calls the store several times, and every call takes and      *)
(* returns store.mu: the decisions of parallel connections interleave      *)
(* between the calls.  A connection makes one attempt here; a rejected     *)
(* attempt changes nothing that a later one depends on but its number,     *)
(* which the choice of candidates leaves open.                             *)
(***************************************************************************)
EXTENDS Integers, FiniteSets

CONSTANTS
  Conns,        \* connections, one attempt each
  Sources,      \* client addresses
  Users,        \* accounts of the virtual host
  Unknown,      \* any other user name
  Passwords,    \* up to their HMAC fingerprint
  PoolSize,     \* sshCredentialPoolSize
  RotateAfter,  \* sshCredentialRotateAfter, in clock units
  BindingTTL,   \* 30 days, in clock units
  MaxBindings,  \* 4096
  MaxTime, MaxRestarts, MaxFaults,  \* bounds
  None

ASSUME AuthAssumption ==
  /\ PoolSize \in Nat \ {0} /\ MaxBindings \in Nat \ {0}
  /\ RotateAfter \in Nat /\ BindingTTL \in Nat
  /\ MaxTime \in Nat /\ MaxRestarts \in Nat /\ MaxFaults \in Nat
  /\ Unknown \notin Users /\ None \notin Users /\ None \notin Conns

VARIABLES
  clock, restarts, faults,
  pc,        \* the store call each decision makes next, or where it ended
  req,       \* source, user and password of each attempt
  sticky,    \* stickyUser, as the profile gave it
  bound,     \* sourceBound
  slotAt,    \* history: when the decision found or made its slot
  pools,     \* sshCredentialPools: the slots of each account
  bindings,  \* sshCredentialBindings
  saved,     \* ssh-auth-reality.json
  sessions   \* the stored sessions with an accepted login

decision == <<pc, req, sticky, bound, slotAt>>
vars == <<clock, restarts, faults, decision, pools, bindings, saved, sessions>>

Request == [src : Sources, user : Users \cup {Unknown}, pw : Passwords]
Slot == [pw : Passwords, last : Nat]
Session == [src : Sources, user : Users, active : BOOLEAN, last : Nat]
Stages == {"idle", "source", "credential", "policy", "establish", "bind",
           "accepted", "in", "left", "rejected"}

Key(c) == <<req[c].src, req[c].user>>
Pool(c) == pools[req[c].user]
Goto(c, stage) == pc' = [pc EXCEPT ![c] = stage]

Init ==
  /\ clock = 0 /\ restarts = 0 /\ faults = 0
  /\ pc = [c \in Conns |-> "idle"] /\ req \in [Conns -> Request]
  /\ sticky = [c \in Conns |-> None] /\ bound = [c \in Conns |-> FALSE]
  /\ slotAt = [c \in Conns |-> 0]
  /\ pools = [u \in Users |-> {}] /\ bindings = << >>
  /\ saved = [pools |-> pools, bindings |-> bindings]
  /\ sessions = << >>

Tick ==
  /\ clock < MaxTime /\ clock' = clock + 1
  /\ UNCHANGED <<restarts, faults, decision, pools, bindings, saved, sessions>>

\* persistSSHCredentialRealityLocked writes the whole state, or fails.
Save ==
  /\ saved' = [pools |-> pools', bindings |-> bindings']
  /\ UNCHANGED faults
SaveFails == faults < MaxFaults /\ faults' = faults + 1 /\ UNCHANGED saved

----------------------------------------------------------------------------
(* The calls of trapCredentialDecision, in order *)

LoginsOf(src) == {x \in DOMAIN sessions : sessions[x].src = src}

\* The user of the session that was seen last, of several either one.
StickyUsers(src) ==
  IF LoginsOf(src) = {} THEN {None}
  ELSE {sessions[x].user : x \in {y \in LoginsOf(src) :
          \A z \in LoginsOf(src) : sessions[z].last <= sessions[y].last}}

\* SSHAuthProfile: unknown accounts, another account than the source's last one
\* and another account than one it is logged in to are rejected.
ReadProfile(c) ==
  /\ pc[c] = "idle"
  /\ \E u \in StickyUsers(req[c].src) :
       /\ sticky' = [sticky EXCEPT ![c] = u]
       /\ \/ /\ \/ req[c].user = Unknown
                \/ u # None /\ u # req[c].user
                \/ \E x \in LoginsOf(req[c].src) :
                     sessions[x].active /\ sessions[x].user # req[c].user
             /\ Goto(c, "rejected")
          \/ /\ req[c].user # Unknown
             /\ u = None \/ u = req[c].user
             /\ \A x \in LoginsOf(req[c].src) :
                  sessions[x].active => sessions[x].user = req[c].user
             /\ Goto(c, "source")
  /\ UNCHANGED <<clock, restarts, faults, req, bound, slotAt, pools, bindings, saved, sessions>>

\* SSHSourceCredentialStatus: a source keeps the password it got in with.
SourceStatus(c) ==
  LET k == Key(c) IN
  /\ pc[c] = "source"
  /\ UNCHANGED pools
  /\ bound' = [bound EXCEPT ![c] = k \in DOMAIN bindings]
  /\ \/ /\ k \notin DOMAIN bindings
        /\ Goto(c, "credential")
        /\ UNCHANGED <<bindings, saved, faults>>
     \/ /\ k \in DOMAIN bindings /\ bindings[k].pw # req[c].pw
        /\ Goto(c, "rejected")
        /\ UNCHANGED <<bindings, saved, faults>>
     \/ /\ k \in DOMAIN bindings /\ bindings[k].pw = req[c].pw
        /\ bindings' = [bindings EXCEPT ![k].last = clock]
        /\ Save \/ SaveFails
        /\ Goto(c, "credential")
  /\ UNCHANGED <<clock, restarts, req, sticky, slotAt, sessions>>

HasSlot(c) == \E slot \in Pool(c) : slot.pw = req[c].pw
Others(c) == {slot \in Pool(c) : slot.pw # req[c].pw}

\* The slot of the attempt's password is new or seen again, next to the slots in keep.
Touch(c, keep) ==
  /\ pools' = [pools EXCEPT ![req[c].user] = keep \cup {[pw |-> req[c].pw, last |-> clock]}]
  /\ slotAt' = [slotAt EXCEPT ![c] = clock]

\* A source that had reached the account before may make its first slot.
LegacySticky(c) == sticky[c] = req[c].user /\ Pool(c) = {}

\* A mutant: the matching slot is not marked as seen.
CredentialStatusUnseen(c) ==
  /\ pc[c] = "credential"
  /\ \/ /\ HasSlot(c) /\ UNCHANGED <<pools, saved, faults>>
        /\ slotAt' = [slotAt EXCEPT ![c] = clock]
        /\ Goto(c, IF bound[c] THEN "accepted" ELSE "bind")
     \/ /\ ~HasSlot(c)
        /\ Goto(c, IF LegacySticky(c) THEN "establish" ELSE "policy")
        /\ UNCHANGED <<slotAt, pools, saved, faults>>
  /\ UNCHANGED <<clock, restarts, req, sticky, bound, bindings, sessions>>

\* SSHCredentialStatus: a password of the pool is accepted, and bound to the
\* source if it was not.
CredentialStatus(c) ==
  /\ pc[c] = "credential"
  /\ UNCHANGED bindings
  /\ \/ /\ HasSlot(c)
        /\ Touch(c, Others(c))
        /\ Save \/ SaveFails
        /\ Goto(c, IF bound[c] THEN "accepted" ELSE "bind")
     \/ /\ ~HasSlot(c)
        /\ Goto(c, IF LegacySticky(c) THEN "establish" ELSE "policy")
        /\ UNCHANGED <<slotAt, pools, saved, faults>>
  /\ UNCHANGED <<clock, restarts, req, sticky, bound, sessions>>

\* An attempt that is chosen as a candidate may become a new slot.  The limit on
\* sprayed names, the number of the attempt and hashes decide which; any may.
Policy(c) ==
  /\ pc[c] = "policy"
  /\ Goto(c, "establish") \/ Goto(c, "rejected")
  /\ UNCHANGED <<clock, restarts, faults, req, sticky, bound, slotAt, pools, bindings, saved, sessions>>

Oldest(c) == {slot \in Pool(c) : \A other \in Pool(c) : slot.last <= other.last}

Full(c) == Cardinality(Pool(c)) >= PoolSize
IdleEnough(slot) == clock - slot.last >= RotateAfter

\* EstablishSSHCredential: another free slot, or that of a password that was
\* not used for long.  The slot is used even when it cannot be saved, but then
\* the attempt is rejected.
Establish(c) ==
  /\ pc[c] = "establish"
  /\ UNCHANGED bindings
  /\ \/ /\ \/ HasSlot(c) /\ Touch(c, Others(c))
           \/ ~HasSlot(c) /\ ~Full(c) /\ Touch(c, Pool(c))
           \/ \E slot \in Oldest(c) : /\ ~HasSlot(c) /\ Full(c) /\ IdleEnough(slot)
                                      /\ Touch(c, Pool(c) \ {slot})
        /\ (Save /\ Goto(c, "bind")) \/ (SaveFails /\ Goto(c, "rejected"))
     \/ /\ ~HasSlot(c) /\ Full(c) /\ \A slot \in Oldest(c) : ~IdleEnough(slot)
        /\ Goto(c, "rejected")
        /\ UNCHANGED <<slotAt, pools, saved, faults>>
  /\ UNCHANGED <<clock, restarts, req, sticky, bound, sessions>>

\* What BindSSHSourceCredential keeps: the bindings that are not too old, and of
\* those the most recent.
Retained(bs) ==
  LET young == {k \in DOMAIN bs : clock - bs[k].last <= BindingTTL} IN
  {K \in SUBSET young :
     /\ Cardinality(K) = IF Cardinality(young) > MaxBindings
                         THEN MaxBindings ELSE Cardinality(young)
     /\ \A k \in K, d \in young \ K : bs[d].last <= bs[k].last}

\* The bindings with the attempt's.
Bound(c) == [k \in DOMAIN bindings \cup {Key(c)} |->
               IF k = Key(c) THEN [pw |-> req[c].pw, last |-> clock] ELSE bindings[k]]

\* A mutant: another password that got in meanwhile is replaced.
MayBindAny(c) == TRUE

MayBind(c) == Key(c) \in DOMAIN bindings => bindings[Key(c)].pw = req[c].pw

\* BindSSHSourceCredential never replaces another password; its result is
\* ignored, and the attempt is accepted in any case.
Bind(c) ==
  /\ pc[c] = "bind"
  /\ UNCHANGED pools
  /\ \/ ~MayBind(c) /\ UNCHANGED <<bindings, saved, faults>>
     \/ /\ MayBind(c)
        /\ \E K \in Retained(Bound(c)) : bindings' = [k \in K |-> Bound(c)[k]]
        /\ Save \/ SaveFails
  /\ Goto(c, "accepted")
  /\ UNCHANGED <<clock, restarts, req, sticky, bound, slotAt, sessions>>

\* recordSSHAuth makes the login part of the profile.
Record(c) ==
  /\ pc[c] = "accepted"
  /\ sessions' = [x \in DOMAIN sessions \cup {c} |->
       IF x = c THEN [src |-> req[c].src, user |-> req[c].user,
                      active |-> TRUE, last |-> clock]
                ELSE sessions[x]]
  /\ Goto(c, "in")
  /\ UNCHANGED <<clock, restarts, faults, req, sticky, bound, slotAt, pools, bindings, saved>>

Disconnect(c) ==
  /\ pc[c] = "in"
  /\ sessions' = [sessions EXCEPT ![c].active = FALSE, ![c].last = clock]
  /\ Goto(c, "left")
  /\ UNCHANGED <<clock, restarts, faults, req, sticky, bound, slotAt, pools, bindings, saved>>

\* initSSHCredentialReality reads the file back; the logins come from the log,
\* and none of them is active any more.
Restart ==
  /\ restarts < MaxRestarts /\ restarts' = restarts + 1
  /\ pools' = saved.pools /\ bindings' = saved.bindings
  /\ sessions' = [x \in DOMAIN sessions |-> [sessions[x] EXCEPT !.active = FALSE]]
  /\ pc' = [c \in Conns |-> IF pc[c] = "idle" THEN "idle"
                            ELSE IF pc[c] \in {"in", "left"} THEN "left" ELSE "rejected"]
  /\ UNCHANGED <<clock, faults, req, sticky, bound, slotAt, saved>>

Step(c) == ReadProfile(c) \/ SourceStatus(c) \/ CredentialStatus(c) \/ Policy(c)
           \/ Establish(c) \/ Bind(c) \/ Record(c) \/ Disconnect(c)

Next == Tick \/ Restart \/ \E c \in Conns : Step(c)
Spec == Init /\ [][Next]_vars

----------------------------------------------------------------------------
(* Properties *)

Keys == Sources \X Users
Binding == [pw : Passwords, last : Nat]

\* The type invariant.
TypeOK ==
  /\ clock \in Nat /\ restarts \in Nat /\ faults \in Nat
  /\ pc \in [Conns -> Stages] /\ req \in [Conns -> Request]
  /\ sticky \in [Conns -> Users \cup {None}] /\ bound \in [Conns -> BOOLEAN]
  /\ slotAt \in [Conns -> Nat]
  /\ pools \in [Users -> SUBSET Slot]
  /\ DOMAIN bindings \subseteq Keys /\ \A k \in DOMAIN bindings : bindings[k] \in Binding
  /\ DOMAIN sessions \subseteq Conns /\ \A c \in DOMAIN sessions : sessions[c] \in Session

\* Decisions that found or made a slot for their password.
WithSlot == {c \in Conns : pc[c] \in {"bind", "accepted", "in", "left"}}

\* "only a slot that has been idle long enough may rotate out. This keeps recent
\* actor continuity" (line 146): a password that got in less than
\* sshCredentialRotateAfter ago still has its slot, unless a restart has read
\* back a state whose successor could not be saved.
RecentKeepSlot ==
  (faults = 0 \/ restarts = 0) =>
    \A c \in WithSlot : clock - slotAt[c] < RotateAfter => HasSlot(c)

\* A binding keeps its password as long as it is there, and while it is younger
\* than its 30 days it goes only when 4096 others are more recent.  A restart does
\* not touch it either, unless a save has failed.
BindingSticks ==
  [][(restarts' = restarts \/ faults = 0) =>
       \A k \in DOMAIN bindings :
         IF k \in DOMAIN bindings' THEN bindings'[k].pw = bindings[k].pw
         ELSE \/ clock - bindings[k].last > BindingTTL
              \/ Cardinality({j \in DOMAIN bindings' :
                   bindings'[j].last >= bindings[k].last}) >= MaxBindings]_vars
=============================================================================
