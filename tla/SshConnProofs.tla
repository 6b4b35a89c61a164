--------------------------- MODULE SshConnProofs ---------------------------
(***************************************************************************)
(* Proofs about SshConn, for every set of connections and sources, every   *)
(* limit and every place where a panic may be recovered.                   *)
(***************************************************************************)
EXTENDS SshConn, FiniteSetTheorems, TLAPS

----------------------------------------------------------------------------
(* Types *)

\* What AddSSHEvent may change keeps its type, whatever the event.
LEMMA EventTypes ==
  ASSUME TypeOK, NEW c \in Conns, NEW type, AddSSHEvent(c, type)
  PROVE  /\ live' \in [Conns -> {"none", "active", "left"}]
         /\ late' \subseteq Conns /\ unwritten' \subseteq Conns /\ faults' \in Nat
BY ConnAssumption DEF TypeOK, AddSSHEvent, Applied

\* The deferred calls keep the types of the slots.
LEMMA FinishTypes ==
  ASSUME TypeOK, NEW c \in Conns, Finish(c)
  PROVE  /\ sem' \in Int /\ perIP' \in [IPs -> Int] /\ net' \in [Conns -> BOOLEAN]
         /\ pc' \in [Conns -> Stages]
<1>1. sem' \in Int /\ net' \in [Conns -> BOOLEAN] /\ pc' \in [Conns -> Stages]
  BY DEF TypeOK, Finish, Goto, Stages
<1>2. perIP' \in [IPs -> Int]
  BY DEF TypeOK, Finish
<1> QED BY <1>1, <1>2

\* A connection that is authenticated has a world, and the map of worlds keeps its type.
LEMMA AuthenticateTypes ==
  ASSUME TypeOK, NEW c \in Conns, Authenticate(c)
  PROVE  /\ DOMAIN reality' \subseteq IPs
         /\ \A i \in DOMAIN reality' : reality'[i] \in [world : Conns, last : Nat]
         /\ world' \in [Conns -> Conns \cup {None}] /\ evicted' \subseteq Conns
         /\ WorldOf(c) \in Conns
<1>1. Unexpired \subseteq DOMAIN reality /\ DOMAIN reality \subseteq IPs
  BY DEF Unexpired, TypeOK
<1>2. \A keep \in Keeps(ip[c]) : keep \subseteq Unexpired
  BY DEF Keeps
<1>3. WorldOf(c) \in Conns /\ ip[c] \in IPs /\ clock \in Nat
  BY <1>1 DEF WorldOf, TypeOK
<1>4. PICK keep \in Keeps(ip[c]) :
        /\ reality' = [i \in keep \cup {ip[c]} |->
             IF i = ip[c] THEN [world |-> WorldOf(c), last |-> clock] ELSE reality[i]]
        /\ evicted' = evicted \cup {reality[i].world : i \in DOMAIN reality \ keep}
  BY DEF Authenticate
<1>5. keep \subseteq DOMAIN reality
  BY <1>1, <1>2
<1>6. DOMAIN reality' = keep \cup {ip[c]}
  BY <1>4
<1>7. \A i \in DOMAIN reality' : reality'[i] \in [world : Conns, last : Nat]
  <2> SUFFICES ASSUME NEW i \in keep \cup {ip[c]} PROVE reality'[i] \in [world : Conns, last : Nat]
    BY <1>6
  <2>1. CASE i = ip[c]
    BY <2>1, <1>3, <1>4
  <2>2. CASE i # ip[c]
    <3>1. reality'[i] = reality[i]
      BY <2>2, <1>4
    <3>2. i \in DOMAIN reality
      BY <2>2, <1>5
    <3> QED BY <3>1, <3>2 DEF TypeOK
  <2> QED BY <2>1, <2>2
<1>8. evicted' \subseteq Conns
  <2>1. \A i \in DOMAIN reality : reality[i].world \in Conns
    BY DEF TypeOK
  <2> QED BY <1>4, <2>1 DEF TypeOK
<1>9. world' \in [Conns -> Conns \cup {None}]
  BY <1>3 DEF Authenticate, TypeOK
<1> QED BY <1>1, <1>3, <1>5, <1>6, <1>7, <1>8, <1>9

\* acceptConn keeps the types.
LEMMA AcceptingTypes == ASSUME TypeOK, NEW c \in Conns, Accepting(c) PROVE TypeOK'
<1>1. CASE AcquireSlot(c)
  BY <1>1 DEF TypeOK, AcquireSlot, Goto, Stages, worlds
<1>2. CASE acquireIP(c)
  BY <1>2 DEF TypeOK, acquireIP, Goto, Stages, worlds
<1>3. CASE Connect(c)
  <2>1. pc' \in [Conns -> Stages]
    BY <1>3 DEF TypeOK, Connect, Goto, Stages
  <2> QED BY <1>3, <2>1, EventTypes DEF TypeOK, Connect, limits, worlds
<1>4. CASE Delay(c)
  BY <1>4 DEF TypeOK, Delay, Goto, Stages, worlds
<1>5. CASE EndDelay(c)
  BY <1>5 DEF TypeOK, EndDelay, Goto, Stages, worlds
<1> QED BY <1>1, <1>2, <1>3, <1>4, <1>5 DEF Accepting

\* handleConn keeps the types.
LEMMA ServingTypes == ASSUME TypeOK, NEW c \in Conns, Serving(c) PROVE TypeOK'
<1>1. CASE HandshakeError(c)
  BY <1>1, EventTypes, FinishTypes DEF TypeOK, HandshakeError, worlds
<1>2. CASE Authenticate(c)
  <2>1. pc' \in [Conns -> Stages]
    BY <1>2 DEF TypeOK, Authenticate, Goto, Stages
  <2> QED BY <1>2, <2>1, AuthenticateTypes DEF TypeOK, Authenticate, limits
<1>3. CASE OpenSession(c)
  BY <1>3 DEF TypeOK, OpenSession, WorkerTo, WorkerStages, limits, worlds
<1>4. CASE CloseNet(c)
  BY <1>4 DEF TypeOK, CloseNet, limits, worlds
<1>5. CASE Disconnect(c)
  BY <1>5, EventTypes, FinishTypes DEF TypeOK, Disconnect, worlds
<1>6. CASE Panic(c)
  BY <1>6, FinishTypes DEF TypeOK, Panic, worlds
<1> QED BY <1>1, <1>2, <1>3, <1>4, <1>5, <1>6 DEF Serving

\* What a step of the goroutine of the session channel may change.
LEMMA WorkingFrame ==
  ASSUME TypeOK, NEW c \in Conns, Working(c)
  PROVE  /\ UNCHANGED <<clock, ip, pc, net, sem, perIP, tarpit, reality, world, evicted>>
         /\ worker' = worker
            \/ \E s \in WorkerStages \ {"none"} : worker' = [worker EXCEPT ![c] = s]
         /\ \/ UNCHANGED <<faults, live, late, unwritten>>
            \/ worker[c] = "idle" /\ AddSSHEvent(c, "shell")
            \/ \E type \in {"exec", "command", "request"} : AddSSHEvent(c, type)
         /\ worker[c] # "none" \/ (pc[c] \in {"handshake", "up"} /\ worker' = worker)
<1> USE DEF WorkerTo, WorkerStages, limits, worlds
<1>1. CASE SeedWorld(c) \/ Exec(c) \/ ReadLine(c) \/ EndWorker(c)
  BY <1>1 DEF SeedWorld, Exec, ReadLine, EndWorker
<1>2. CASE LockWorld(c) \/ FinishCommand(c)
  BY <1>2 DEF LockWorld, FinishCommand
<1>3. CASE Relock(c) \/ PanicInCommand(c)
  BY <1>3 DEF Relock, PanicInCommand
<1>4. CASE Shell(c) \/ Note(c)
  BY <1>4 DEF Shell, Note
<1>5. CASE recordSSHCommand(c)
  BY <1>5 DEF recordSSHCommand
<1>6. CASE Bang(c) \/ EndBang(c) \/ CloseEditor(c)
  BY <1>6 DEF Bang, EndBang, CloseEditor
<1> QED BY <1>1, <1>2, <1>3, <1>4, <1>5, <1>6 DEF Working

\* The goroutine of the session channel keeps the types.
LEMMA WorkingTypes == ASSUME TypeOK, NEW c \in Conns, Working(c) PROVE TypeOK'
<1>1. worker' \in [Conns -> WorkerStages]
  BY WorkingFrame DEF TypeOK
<1>2. /\ live' \in [Conns -> {"none", "active", "left"}]
      /\ late' \subseteq Conns /\ unwritten' \subseteq Conns /\ faults' \in Nat
  BY WorkingFrame, EventTypes DEF TypeOK
<1>3. lock' \in [Conns -> Conns \cup {None}]
  <2>1. \/ lock' = lock \/ lock' = [lock EXCEPT ![world[c]] = c]
        \/ lock' = [lock EXCEPT ![world[c]] = None]
    BY DEF Working, SeedWorld, Shell, Exec, ReadLine, EndWorker, LockWorld, FinishCommand,
           Relock, recordSSHCommand, Note, PanicInCommand, Unlock, Bang, EndBang, CloseEditor
  <2> QED BY <2>1 DEF TypeOK
<1>4. panicked' \subseteq Conns
  <2>1. panicked' = panicked \/ panicked' = panicked \cup {c}
    BY DEF Working, SeedWorld, Shell, Exec, ReadLine, EndWorker, LockWorld, FinishCommand,
           Relock, recordSSHCommand, Note, PanicInCommand, Bang, EndBang, CloseEditor
  <2> QED BY <2>1 DEF TypeOK
<1> QED BY <1>1, <1>2, <1>3, <1>4, WorkingFrame DEF TypeOK

\* The type invariant, for connections, slots, worlds and workers.
THEOREM TypeCorrect == Spec => []TypeOK
<1>1. Init => TypeOK
  BY ConnAssumption DEF Init, TypeOK, Stages, WorkerStages
<1>2. ASSUME TypeOK, [Next]_vars PROVE TypeOK'
  <2>1. CASE UNCHANGED vars
    BY <1>2, <2>1 DEF TypeOK, vars, limits, worlds
  <2>2. CASE Tick
    BY <1>2, <2>2, ConnAssumption DEF TypeOK, Tick, limits, worlds
  <2> QED BY <1>2, <2>1, <2>2, AcceptingTypes, ServingTypes, WorkingTypes DEF Next
<1> QED BY <1>1, <1>2, PTL DEF Spec

----------------------------------------------------------------------------
(* Slots *)

Served == At(Stages \ {"new", "done"})
ServedFrom(i) == {c \in At(Stages \ {"new", "slot", "done"}) : ip[c] = i}
Tarpitted == At({"tarpit"})

\* The limits that the slots are there to keep, and what their proof needs: only
\* finitely many connections are served at a time.
LimitsKept ==
  /\ IsFiniteSet(Served)
  /\ Cardinality(Served) <= MaxConcurrent
  /\ \A i \in IPs : Cardinality(ServedFrom(i)) <= MaxPerIP
  /\ Cardinality(Tarpitted) <= TarpitSlots

One(b) == IF b THEN 1 ELSE 0

\* Counting two sets that differ in one element at most.
LEMMA OneElement ==
  ASSUME NEW S, NEW T, NEW x, IsFiniteSet(S), T \ {x} = S \ {x}
  PROVE  /\ IsFiniteSet(T) /\ Cardinality(S) \in Nat
         /\ Cardinality(T) = Cardinality(S) - One(x \in S) + One(x \in T)
<1> DEFINE U == S \ {x}
<1>1. /\ IsFiniteSet(U) /\ Cardinality(S) \in Nat /\ Cardinality(U) \in Nat
      /\ Cardinality(U) = Cardinality(S) - One(x \in S)
  BY FS_RemoveElement, FS_CardinalityType DEF One
<1>2. CASE x \in T
  <2>1. T = U \cup {x} /\ x \notin U
    BY <1>2
  <2>2. IsFiniteSet(T) /\ Cardinality(T) = Cardinality(U) + 1
    BY <1>1, <2>1, FS_AddElement
  <2> QED BY <1>1, <1>2, <2>2 DEF One
<1>3. CASE x \notin T
  <2>1. T = U
    BY <1>3
  <2> QED BY <1>1, <1>3, <2>1 DEF One
<1> QED BY <1>2, <1>3

\* A connection that moves from one stage to another moves between the sets whose
\* sizes the counters keep, and no other connection does.
LEMMA StageMove ==
  ASSUME TypeOK, LimitsKept, NEW c \in Conns, NEW s \in Stages,
         pc' = [pc EXCEPT ![c] = s], ip' = ip
  PROVE  /\ IsFiniteSet(Served') /\ Cardinality(Served) \in Nat
         /\ Cardinality(Tarpitted) \in Nat
         /\ \A i \in IPs : Cardinality(ServedFrom(i)) \in Nat
         /\ Cardinality(Served') = Cardinality(Served)
              - One(pc[c] \notin {"new", "done"}) + One(s \notin {"new", "done"})
         /\ Cardinality(Tarpitted') = Cardinality(Tarpitted)
              - One(pc[c] = "tarpit") + One(s = "tarpit")
         /\ \A i \in IPs : i # ip[c] => Cardinality(ServedFrom(i)') = Cardinality(ServedFrom(i))
         /\ Cardinality(ServedFrom(ip[c])') = Cardinality(ServedFrom(ip[c]))
              - One(pc[c] \notin {"new", "slot", "done"}) + One(s \notin {"new", "slot", "done"})
<1>1. pc[c] \in Stages /\ pc'[c] = s /\ ip[c] \in IPs /\ (\A d \in Conns \ {c} : pc'[d] = pc[d])
  BY DEF TypeOK
<1>2. /\ Served' \ {c} = Served \ {c}
      /\ (c \in Served <=> pc[c] \notin {"new", "done"})
      /\ (c \in Served' <=> s \notin {"new", "done"})
  BY <1>1 DEF Served, At
<1>3. /\ Tarpitted' \ {c} = Tarpitted \ {c}
      /\ (c \in Tarpitted <=> pc[c] = "tarpit") /\ (c \in Tarpitted' <=> s = "tarpit")
  BY <1>1 DEF Tarpitted, At
<1>4. ASSUME NEW i \in IPs
      PROVE  /\ ServedFrom(i)' \ {c} = ServedFrom(i) \ {c}
             /\ i # ip[c] => ServedFrom(i)' = ServedFrom(i)
             /\ (i = ip[c] => (c \in ServedFrom(i) <=> pc[c] \notin {"new", "slot", "done"}))
             /\ (i = ip[c] => (c \in ServedFrom(i)' <=> s \notin {"new", "slot", "done"}))
  BY <1>1 DEF ServedFrom, At
<1>5. IsFiniteSet(Served) /\ IsFiniteSet(Tarpitted) /\ (\A i \in IPs : IsFiniteSet(ServedFrom(i)))
  <2>1. Tarpitted \in SUBSET Served /\ (\A i \in IPs : ServedFrom(i) \in SUBSET Served)
    BY DEF Tarpitted, Served, ServedFrom, At, Stages
  <2> QED BY <2>1, FS_Subset DEF LimitsKept
<1>6. /\ IsFiniteSet(Served') /\ Cardinality(Served) \in Nat
      /\ Cardinality(Served') = Cardinality(Served)
           - One(pc[c] \notin {"new", "done"}) + One(s \notin {"new", "done"})
  <2>1. /\ IsFiniteSet(Served') /\ Cardinality(Served) \in Nat
        /\ Cardinality(Served') = Cardinality(Served) - One(c \in Served) + One(c \in Served')
    BY <1>2, <1>5, OneElement
  <2> QED BY <2>1, <1>2 DEF One
<1>7. /\ Cardinality(Tarpitted) \in Nat
      /\ Cardinality(Tarpitted') = Cardinality(Tarpitted) - One(pc[c] = "tarpit") + One(s = "tarpit")
  <2>1. /\ Cardinality(Tarpitted) \in Nat
        /\ Cardinality(Tarpitted')
             = Cardinality(Tarpitted) - One(c \in Tarpitted) + One(c \in Tarpitted')
    BY <1>3, <1>5, OneElement
  <2> QED BY <2>1, <1>3 DEF One
<1>8. \A i \in IPs : Cardinality(ServedFrom(i)) \in Nat
  BY <1>5, FS_CardinalityType
<1>9. Cardinality(ServedFrom(ip[c])') = Cardinality(ServedFrom(ip[c]))
        - One(pc[c] \notin {"new", "slot", "done"}) + One(s \notin {"new", "slot", "done"})
  <2>1. /\ Cardinality(ServedFrom(ip[c])') = Cardinality(ServedFrom(ip[c]))
             - One(c \in ServedFrom(ip[c])) + One(c \in ServedFrom(ip[c])')
    BY <1>1, <1>4, <1>5, OneElement
  <2> QED BY <2>1, <1>1, <1>4 DEF One
<1> QED BY <1>4, <1>6, <1>7, <1>8, <1>9

SlotInv == SlotsAccounted /\ LimitsKept

\* A step that moves no connection and leaves the counters alone.
LEMMA SameSlots ==
  ASSUME SlotInv, UNCHANGED <<pc, ip, sem, perIP, tarpit>>
  PROVE  SlotInv'
BY DEF SlotInv, SlotsAccounted, LimitsKept, Served, ServedFrom, Tarpitted, At

\* A connection changes its stage, and every counter changes by as much as the set of
\* connections it counts, within its limit.
Moves(c, s) ==
  /\ pc' = [pc EXCEPT ![c] = s] /\ ip' = ip
  /\ sem' = sem - One(pc[c] \notin {"new", "done"}) + One(s \notin {"new", "done"})
  /\ tarpit' = tarpit - One(pc[c] = "tarpit") + One(s = "tarpit")
  /\ \A i \in IPs : i # ip[c] => perIP'[i] = perIP[i]
  /\ perIP'[ip[c]] = perIP[ip[c]] - One(pc[c] \notin {"new", "slot", "done"})
                        + One(s \notin {"new", "slot", "done"})
  /\ sem' <= MaxConcurrent /\ tarpit' <= TarpitSlots /\ perIP'[ip[c]] <= MaxPerIP

\* Such a step keeps the counters right.
LEMMA MovedSlots ==
  ASSUME TypeOK, SlotInv, NEW c \in Conns, NEW s \in Stages, Moves(c, s)
  PROVE  SlotInv'
<1> USE DEF Moves
<1>1. ip[c] \in IPs /\ LimitsKept
  BY DEF TypeOK, SlotInv
<1>2. /\ sem = Cardinality(Served) /\ tarpit = Cardinality(Tarpitted)
      /\ \A j \in IPs : perIP[j] = Cardinality(ServedFrom(j))
  BY DEF SlotInv, SlotsAccounted, Served, ServedFrom, Tarpitted
<1>3. IsFiniteSet(Served') /\ sem' = Cardinality(Served') /\ tarpit' = Cardinality(Tarpitted')
  BY <1>1, <1>2, StageMove
<1>4. ASSUME NEW j \in IPs
      PROVE  perIP'[j] = Cardinality(ServedFrom(j)') /\ perIP'[j] <= MaxPerIP
  <2>1. CASE j = ip[c]
    <3>1. Cardinality(ServedFrom(ip[c])') = Cardinality(ServedFrom(ip[c]))
            - One(pc[c] \notin {"new", "slot", "done"}) + One(s \notin {"new", "slot", "done"})
      BY <1>1, StageMove
    <3>2. perIP'[ip[c]] = Cardinality(ServedFrom(ip[c])')
      BY <3>1, <1>1, <1>2
    <3>3. ip'[c] = j
      BY <2>1
    <3> QED BY <2>1, <3>2, <3>3
  <2>2. CASE j # ip[c]
    <3>1. Cardinality(ServedFrom(j)') = Cardinality(ServedFrom(j))
      BY <2>2, <1>1, StageMove
    <3> QED BY <2>2, <3>1, <1>1, <1>2 DEF LimitsKept
  <2> QED BY <2>1, <2>2
<1>5. SlotsAccounted'
  BY <1>3, <1>4 DEF SlotsAccounted, Served, ServedFrom, Tarpitted
<1>6. LimitsKept'
  BY <1>3, <1>4 DEF LimitsKept
<1> QED BY <1>5, <1>6 DEF SlotInv

\* The counters are within the limits and what they count is not negative.
LEMMA SlotBounds ==
  ASSUME TypeOK, SlotInv
  PROVE  /\ sem \in Int /\ tarpit \in Int /\ (\A i \in IPs : perIP[i] \in Int)
         /\ sem <= MaxConcurrent /\ tarpit <= TarpitSlots /\ (\A i \in IPs : perIP[i] <= MaxPerIP)
         /\ MaxConcurrent \in Int /\ TarpitSlots \in Int /\ MaxPerIP \in Int
         /\ \A c \in Conns : ip[c] \in IPs
<1>1. /\ sem \in Int /\ tarpit \in Int /\ (\A i \in IPs : perIP[i] \in Int)
      /\ \A c \in Conns : ip[c] \in IPs
  BY DEF TypeOK
<1>2. sem <= MaxConcurrent /\ tarpit <= TarpitSlots /\ (\A i \in IPs : perIP[i] <= MaxPerIP)
  BY DEF SlotInv, SlotsAccounted, LimitsKept, Served, ServedFrom, Tarpitted
<1> QED BY <1>1, <1>2, ConnAssumption

\* acceptConn takes and returns its slots.
LEMMA AcceptingSlots ==
  ASSUME TypeOK, SlotInv, NEW c \in Conns, Accepting(c)
  PROVE  SlotInv'
<1>a. DOMAIN perIP = IPs
  BY DEF TypeOK
<1>1. CASE AcquireSlot(c)
  <2>1. pc[c] = "new" /\ UNCHANGED <<ip, perIP, tarpit>>
        /\ \/ sem < MaxConcurrent /\ sem' = sem + 1 /\ pc' = [pc EXCEPT ![c] = "slot"]
           \/ sem' = sem /\ pc' = [pc EXCEPT ![c] = "done"]
    BY <1>1 DEF AcquireSlot, Goto
  <2>2. CASE sem < MaxConcurrent /\ sem' = sem + 1 /\ pc' = [pc EXCEPT ![c] = "slot"]
    <3>1. Moves(c, "slot")
      BY <2>1, <2>2, SlotBounds DEF Moves, One
    <3> QED BY <3>1, MovedSlots DEF Stages
  <2>3. CASE sem' = sem /\ pc' = [pc EXCEPT ![c] = "done"]
    <3>1. Moves(c, "done")
      BY <2>1, <2>3, SlotBounds DEF Moves, One
    <3> QED BY <3>1, MovedSlots DEF Stages
  <2> QED BY <2>1, <2>2, <2>3
<1>2. CASE acquireIP(c)
  <2>1. pc[c] = "slot" /\ UNCHANGED <<ip, tarpit>>
        /\ \/ /\ perIP[ip[c]] < MaxPerIP /\ perIP' = [perIP EXCEPT ![ip[c]] = perIP[ip[c]] + 1]
              /\ sem' = sem /\ pc' = [pc EXCEPT ![c] = "counted"]
           \/ sem' = sem - 1 /\ perIP' = perIP /\ pc' = [pc EXCEPT ![c] = "done"]
    BY <1>2 DEF acquireIP, Goto
  <2>2. CASE /\ perIP[ip[c]] < MaxPerIP /\ perIP' = [perIP EXCEPT ![ip[c]] = perIP[ip[c]] + 1]
             /\ sem' = sem /\ pc' = [pc EXCEPT ![c] = "counted"]
    <3>1. perIP'[ip[c]] = perIP[ip[c]] + 1 /\ (\A i \in IPs : i # ip[c] => perIP'[i] = perIP[i])
      BY <2>2, <1>a, SlotBounds
    <3>2. perIP[ip[c]] \in Int
      BY SlotBounds
    <3>m. Moves(c, "counted")
      BY <2>1, <2>2, <3>1, <3>2, SlotBounds DEF Moves, One
    <3> QED BY <3>m, MovedSlots DEF Stages
  <2>3. CASE sem' = sem - 1 /\ perIP' = perIP /\ pc' = [pc EXCEPT ![c] = "done"]
    <3>1. Moves(c, "done")
      BY <2>1, <2>3, SlotBounds DEF Moves, One
    <3> QED BY <3>1, MovedSlots DEF Stages
  <2> QED BY <2>1, <2>2, <2>3
<1>3. CASE Connect(c)
  <2>1. pc[c] = "counted" /\ pc' = [pc EXCEPT ![c] = "opened"]
        /\ UNCHANGED <<ip, sem, perIP, tarpit>>
    BY <1>3 DEF Connect, Goto, limits
  <2>m. Moves(c, "opened")
    BY <2>1, SlotBounds DEF Moves, One
  <2> QED BY <2>m, MovedSlots DEF Stages
<1>4. CASE Delay(c)
  <2>1. pc[c] = "opened" /\ UNCHANGED <<ip, sem, perIP>>
        /\ \/ tarpit < TarpitSlots /\ tarpit' = tarpit + 1 /\ pc' = [pc EXCEPT ![c] = "tarpit"]
           \/ tarpit' = tarpit /\ pc' = [pc EXCEPT ![c] = "handshake"]
    BY <1>4 DEF Delay, Goto
  <2>2. CASE tarpit < TarpitSlots /\ tarpit' = tarpit + 1 /\ pc' = [pc EXCEPT ![c] = "tarpit"]
    <3>1. Moves(c, "tarpit")
      BY <2>1, <2>2, SlotBounds DEF Moves, One
    <3> QED BY <3>1, MovedSlots DEF Stages
  <2>3. CASE tarpit' = tarpit /\ pc' = [pc EXCEPT ![c] = "handshake"]
    <3>1. Moves(c, "handshake")
      BY <2>1, <2>3, SlotBounds DEF Moves, One
    <3> QED BY <3>1, MovedSlots DEF Stages
  <2> QED BY <2>1, <2>2, <2>3
<1>5. CASE EndDelay(c)
  <2>1. pc[c] = "tarpit" /\ pc' = [pc EXCEPT ![c] = "handshake"]
        /\ tarpit' = tarpit - 1 /\ UNCHANGED <<ip, sem, perIP>>
    BY <1>5 DEF EndDelay, Goto
  <2>m. Moves(c, "handshake")
    BY <2>1, SlotBounds DEF Moves, One
  <2> QED BY <2>m, MovedSlots DEF Stages
<1> QED BY <1>1, <1>2, <1>3, <1>4, <1>5 DEF Accepting

\* The deferred calls give back exactly what a connection past acquireIP holds:
\* its source is counted, so the test against one never swallows a release.
LEMMA FinishSlots ==
  ASSUME TypeOK, SlotInv, NEW c \in Conns, pc[c] \in {"handshake", "up"}, Finish(c),
         UNCHANGED <<ip, tarpit>>
  PROVE  SlotInv'
<1>1. pc' = [pc EXCEPT ![c] = "done"] /\ sem' = sem - 1
      /\ perIP' = [perIP EXCEPT ![ip[c]] = IF perIP[ip[c]] <= 1 THEN 0 ELSE perIP[ip[c]] - 1]
  BY DEF Finish, Goto
<1>2. perIP[ip[c]] \in Int /\ perIP[ip[c]] >= 1
  <2>1. c \in ServedFrom(ip[c])
    BY DEF ServedFrom, At, Stages
  <2>2. ServedFrom(ip[c]) \in SUBSET Served /\ IsFiniteSet(Served)
    BY DEF Served, ServedFrom, At, Stages, SlotInv, LimitsKept
  <2>3. IsFiniteSet(ServedFrom(ip[c]))
    BY <2>2, FS_Subset
  <2>4. Cardinality(ServedFrom(ip[c])) \in Nat /\ Cardinality(ServedFrom(ip[c])) # 0
    BY <2>1, <2>3, FS_CardinalityType, FS_EmptySet
  <2>5. perIP[ip[c]] = Cardinality(ServedFrom(ip[c]))
    BY SlotBounds DEF SlotInv, SlotsAccounted, ServedFrom
  <2> QED BY <2>4, <2>5
<1>3. DOMAIN perIP = IPs /\ ip[c] \in IPs
  BY DEF TypeOK
<1>4. perIP'[ip[c]] = IF perIP[ip[c]] <= 1 THEN 0 ELSE perIP[ip[c]] - 1
  BY <1>1, <1>3
<1>5. \A i \in IPs : i # ip[c] => perIP'[i] = perIP[i]
  BY <1>1, <1>3
<1>6. perIP'[ip[c]] = perIP[ip[c]] - 1
  BY <1>2, <1>4
<1>m. Moves(c, "done")
  BY <1>1, <1>2, <1>5, <1>6, SlotBounds DEF Moves, One
<1> QED BY <1>m, MovedSlots DEF Stages

\* handleConn keeps or gives back what the connection holds.
LEMMA ServingSlots == ASSUME TypeOK, SlotInv, NEW c \in Conns, Serving(c) PROVE SlotInv'
<1>1. CASE HandshakeError(c) \/ Disconnect(c) \/ Panic(c)
  <2>1. pc[c] \in {"handshake", "up"} /\ Finish(c) /\ UNCHANGED <<ip, tarpit>>
    BY <1>1 DEF HandshakeError, Disconnect, Panic
  <2> QED BY <2>1, FinishSlots
<1>2. CASE Authenticate(c)
  <2>1. pc[c] = "handshake" /\ pc' = [pc EXCEPT ![c] = "up"] /\ UNCHANGED <<ip, sem, perIP, tarpit>>
    BY <1>2 DEF Authenticate, Goto, limits
  <2>2. /\ Served' = Served /\ Tarpitted' = Tarpitted
        /\ \A i \in IPs : ServedFrom(i)' = ServedFrom(i)
    BY <2>1 DEF Served, Tarpitted, ServedFrom, At, Stages, TypeOK
  <2> QED BY <2>1, <2>2 DEF SlotInv, SlotsAccounted, LimitsKept, Served, Tarpitted, ServedFrom
<1>3. CASE OpenSession(c) \/ CloseNet(c)
  BY <1>3, SameSlots DEF OpenSession, CloseNet, limits
<1> QED BY <1>1, <1>2, <1>3 DEF Serving

\* Every counter of slots agrees with the connections that are being served, and
\* the limits of the configuration hold: at most SSHMaxConcurrent connections at a
\* time, at most SSHMaxPerIP of one source, at most as many delayed as the tarpit has slots.
LEMMA SlotInvariance == Spec => []SlotInv
<1>1. ASSUME Init PROVE SlotInv
  <2>1. Served = {} /\ Tarpitted = {}
    BY <1>1 DEF Init, Served, Tarpitted, At
  <2>2. \A i \in IPs : ServedFrom(i) = {}
    BY <1>1 DEF Init, ServedFrom, At
  <2>3. sem = 0 /\ tarpit = 0 /\ (\A i \in IPs : perIP[i] = 0)
    BY <1>1 DEF Init
  <2>4. IsFiniteSet({}) /\ Cardinality({}) = 0
    BY FS_EmptySet
  <2>5. /\ sem = Cardinality(Served) /\ tarpit = Cardinality(Tarpitted)
        /\ \A i \in IPs : perIP[i] = Cardinality(ServedFrom(i))
    BY <2>1, <2>2, <2>3, <2>4
  <2>6. SlotsAccounted
    BY ONLY <2>5 DEF SlotsAccounted, Served, ServedFrom, Tarpitted
  <2>7. 0 <= MaxConcurrent /\ 0 <= MaxPerIP /\ 0 <= TarpitSlots
    BY ConnAssumption
  <2>8. LimitsKept
    BY ONLY <2>1, <2>2, <2>4, <2>7 DEF LimitsKept
  <2> QED BY <2>6, <2>8 DEF SlotInv
<1>2. ASSUME TypeOK, SlotInv, [Next]_vars PROVE SlotInv'
  <2>1. CASE UNCHANGED vars \/ Tick
    BY <1>2, <2>1, SameSlots DEF vars, limits, Tick
  <2>2. ASSUME NEW c \in Conns, Working(c) PROVE SlotInv'
    BY <1>2, <2>2, SameSlots, WorkingFrame
  <2> QED BY <1>2, <2>1, <2>2, AcceptingSlots, ServingSlots DEF Next
<1> QED BY <1>1, <1>2, TypeCorrect, PTL DEF Spec

\* Every slot that is taken, of the global limit, of the limit of a source and of the
\* tarpit, belongs to a connection that acceptConn or handleConn is still serving: no
\* early return, failed handshake or recovered panic leaks one or returns one twice.
THEOREM SlotsKept == Spec => []SlotsAccounted
<1>1. SlotInv => SlotsAccounted
  BY DEF SlotInv
<1> QED BY <1>1, SlotInvariance, PTL

\* SSHMaxConcurrent, SSHMaxPerIP and the capacity of tarpitSem bound the connections
\* that are really there, not only the counters that acceptConn compares with them.
THEOREM LimitsHold == Spec => []LimitsKept
<1>1. SlotInv => LimitsKept
  BY DEF SlotInv
<1> QED BY <1>1, SlotInvariance, PTL

----------------------------------------------------------------------------
(* Worlds *)

\* A connection that is up has the world its source has in the map, unless that
\* entry was removed in between.
WorldKnown(c) ==
  pc[c] = "up" =>
    \/ world[c] \in evicted
    \/ ip[c] \in DOMAIN reality /\ reality[ip[c]].world = world[c]

WorldInv ==
  /\ IsFiniteSet(DOMAIN reality) /\ Cardinality(DOMAIN reality) <= MaxRealities
  /\ \A c \in Conns : WorldKnown(c)

\* sharedRealityForSource drops an entry only when it has expired or the map is full,
\* and never that of the source it serves: the map stays within its bound.
LEMMA KeepsBounded ==
  ASSUME TypeOK, WorldInv, NEW i \in IPs, NEW keep \in Keeps(i)
  PROVE  /\ keep \subseteq Unexpired /\ (i \in Unexpired => keep = Unexpired)
         /\ IsFiniteSet(keep \cup {i}) /\ Cardinality(keep \cup {i}) <= MaxRealities
<1> DEFINE r == [j \in Unexpired |-> reality[j]]
<1>1. /\ IsFiniteSet(Unexpired) /\ Cardinality(Unexpired) \in Nat
      /\ Cardinality(Unexpired) <= MaxRealities
  <2>1. Unexpired \in SUBSET DOMAIN reality
    BY DEF Unexpired
  <2>2. /\ IsFiniteSet(Unexpired) /\ Cardinality(Unexpired) \in Nat
        /\ Cardinality(DOMAIN reality) \in Nat
        /\ Cardinality(Unexpired) <= Cardinality(DOMAIN reality)
    BY <2>1, FS_Subset, FS_CardinalityType DEF WorldInv
  <2> QED BY <2>2, ConnAssumption DEF WorldInv
<1>2. CASE i \in Unexpired
  <2>1. keep = Unexpired
    BY <1>2 DEF Keeps
  <2>2. keep \cup {i} = Unexpired
    BY <1>2, <2>1
  <2> QED BY <1>1, <2>1, <2>2
<1>3. CASE i \notin Unexpired /\ ~Full(r)
  <2>1. keep = Unexpired
    BY <1>3 DEF Keeps
  <2>2. Cardinality(Unexpired) < MaxRealities
    BY <1>1, <1>3, ConnAssumption DEF Full
  <2>3. IsFiniteSet(keep \cup {i}) /\ Cardinality(keep \cup {i}) = Cardinality(Unexpired) + 1
    BY <1>1, <1>3, <2>1, FS_AddElement
  <2> QED BY <1>1, <1>3, <2>1, <2>2, <2>3, ConnAssumption
<1>4. CASE i \notin Unexpired /\ Full(r)
  <2>1. PICK o \in Unexpired : keep = Unexpired \ {o}
    BY <1>4 DEF Keeps
  <2>2. IsFiniteSet(keep) /\ Cardinality(keep) = Cardinality(Unexpired) - 1
    BY <1>1, <2>1, FS_RemoveElement
  <2>3. IsFiniteSet(keep \cup {i}) /\ Cardinality(keep \cup {i}) = Cardinality(keep) + 1
    BY <1>4, <2>1, <2>2, FS_AddElement
  <2> QED BY <1>1, <1>4, <2>1, <2>2, <2>3, ConnAssumption
<1> QED BY <1>2, <1>3, <1>4

\* A connection that logs in joins the world of its source or gets a new one, and
\* every other connection keeps its world or sees it evicted.
LEMMA AuthenticateWorlds ==
  ASSUME TypeOK, WorldInv, NEW c \in Conns, Authenticate(c)
  PROVE  WorldInv'
<1>1. ip[c] \in IPs /\ ip' = ip /\ c \in DOMAIN world
  BY DEF TypeOK, Authenticate
<1>2. PICK keep \in Keeps(ip[c]) :
        /\ reality' = [i \in keep \cup {ip[c]} |->
             IF i = ip[c] THEN [world |-> WorldOf(c), last |-> clock] ELSE reality[i]]
        /\ evicted' = evicted \cup {reality[i].world : i \in DOMAIN reality \ keep}
  BY DEF Authenticate
<1>3. /\ keep \subseteq Unexpired /\ (ip[c] \in Unexpired => keep = Unexpired)
      /\ IsFiniteSet(keep \cup {ip[c]}) /\ Cardinality(keep \cup {ip[c]}) <= MaxRealities
  BY <1>1, KeepsBounded
<1>4. DOMAIN reality' = keep \cup {ip[c]} /\ reality'[ip[c]].world = WorldOf(c)
      /\ \A i \in keep : i # ip[c] => reality'[i] = reality[i]
  BY <1>2
<1>5. Unexpired \subseteq DOMAIN reality
  BY DEF Unexpired
<1>6. ASSUME NEW d \in Conns PROVE WorldKnown(d)'
  <2>1. CASE d = c
    <3>1. world'[c] = WorldOf(c)
      BY <1>1 DEF Authenticate
    <3> QED BY <2>1, <3>1, <1>1, <1>4 DEF WorldKnown
  <2>2. CASE d # c
    <3>1. pc'[d] = pc[d] /\ world'[d] = world[d] /\ ip'[d] = ip[d]
      BY <2>2 DEF Authenticate, Goto, TypeOK
    <3>2. CASE pc[d] # "up" \/ world[d] \in evicted
      BY <3>1, <3>2, <1>2 DEF WorldKnown
    <3>3. CASE pc[d] = "up" /\ world[d] \notin evicted
      <4>1. ip[d] \in DOMAIN reality /\ reality[ip[d]].world = world[d]
        BY <3>3 DEF WorldInv, WorldKnown
      <4>2. CASE ip[d] \notin keep
        BY <3>1, <4>1, <4>2, <1>2 DEF WorldKnown
      <4>3. CASE ip[d] \in keep /\ ip[d] # ip[c]
        BY <3>1, <4>1, <4>3, <1>4 DEF WorldKnown
      <4>4. CASE ip[d] \in keep /\ ip[d] = ip[c]
        <5>1. WorldOf(c) = world[d]
          BY <4>1, <4>4, <1>3 DEF WorldOf
        <5> QED BY <3>1, <4>4, <5>1, <1>4 DEF WorldKnown
      <4> QED BY <4>2, <4>3, <4>4
    <3> QED BY <3>2, <3>3
  <2> QED BY <2>1, <2>2
<1> QED BY <1>3, <1>4, <1>6 DEF WorldInv

\* No other step touches the worlds, and no other step brings a connection up.
LEMMA OtherWorlds ==
  ASSUME TypeOK, WorldInv, UNCHANGED <<ip, worlds>>,
         \A d \in Conns : pc'[d] = "up" => pc[d] = "up"
  PROVE  WorldInv'
BY DEF WorldInv, WorldKnown, worlds

\* The worlds that the connections of a source share.
LEMMA WorldInvariance == Spec => []WorldInv
<1>1. Init => WorldInv
  <2>1. Init => DOMAIN reality = {} /\ (\A c \in Conns : pc[c] = "new")
    BY DEF Init
  <2> QED BY <2>1, FS_EmptySet, ConnAssumption DEF WorldInv, WorldKnown
<1>2. ASSUME TypeOK, WorldInv, [Next]_vars PROVE WorldInv'
  <2>1. CASE UNCHANGED vars \/ Tick
    BY <1>2, <2>1, OtherWorlds DEF vars, Tick
  <2>2. ASSUME NEW c \in Conns, Accepting(c) PROVE WorldInv'
    <3>1. UNCHANGED <<ip, worlds>> /\ \E s \in Stages \ {"up"} : pc' = [pc EXCEPT ![c] = s]
      BY <2>2 DEF Accepting, AcquireSlot, acquireIP, Connect, Delay, EndDelay, Goto, Stages
    <3> QED BY <1>2, <3>1, OtherWorlds DEF TypeOK
  <2>3. ASSUME NEW c \in Conns, Serving(c) PROVE WorldInv'
    <3>1. CASE Authenticate(c)
      BY <1>2, <3>1, AuthenticateWorlds
    <3>2. CASE ~Authenticate(c)
      <4>1. UNCHANGED <<ip, worlds>> /\ (pc' = pc \/ pc' = [pc EXCEPT ![c] = "done"])
        BY <2>3, <3>2 DEF Serving, HandshakeError, OpenSession, CloseNet, Disconnect, Panic,
                          Finish, Goto
      <4> QED BY <1>2, <4>1, OtherWorlds DEF TypeOK
    <3> QED BY <3>1, <3>2
  <2>4. ASSUME NEW c \in Conns, Working(c) PROVE WorldInv'
    BY <1>2, <2>4, OtherWorlds, WorkingFrame DEF worlds
  <2> QED BY <1>2, <2>1, <2>2, <2>3, <2>4 DEF Next
<1> QED BY <1>1, <1>2, TypeCorrect, PTL DEF Spec

\* Connections of one source that are up together see one virtual world unless its
\* entry was evicted or expired in between, and sharedRealityForSource keeps the map
\* of worlds within maxVirtualSSHSourceRealities.
THEOREM WorldsShared == Spec => []OneWorldPerSource
<1>1. WorldInv => OneWorldPerSource
  BY DEF WorldInv, WorldKnown, OneWorldPerSource, At
<1> QED BY <1>1, WorldInvariance, PTL

----------------------------------------------------------------------------
(* Workers, the locks of the worlds and the list of live sessions *)

\* The goroutine of a session channel starts when the connection is up, in a world.
WorkerStarted ==
  \A c \in Conns : /\ worker[c] # "none" => pc[c] \in {"up", "done"} /\ world[c] \in Conns
                   /\ pc[c] = "up" => world[c] \in Conns

\* A command of an exec request or of a shell holds the mutex of its world while it runs,
\* one that waits for itself included.
UnderMutex == {"inExec", "inShell", "stuck"}
CommandsLocked == \A c \in Conns : worker[c] \in UnderMutex => lock[world[c]] = c

WorkInv == WorkerStarted /\ CommandsLocked /\ LiveListTruthful

\* When two commands run in one world at the same time, one of them was given to an
\* editor with ":!", which does not ask for the mutex.
CommandsExclusive ==
  \A c, d \in Conns :
    /\ c # d /\ world[c] = world[d]
    /\ worker[c] \in UnderMutex \cup {"bang"} /\ worker[d] \in UnderMutex \cup {"bang"}
    => "bang" \in {worker[c], worker[d]}

Open == {"opened", "tarpit", "handshake", "up"}

\* What one event does to the list of live sessions.
LEMMA EventEffect ==
  ASSUME TypeOK, NEW c \in Conns, NEW type, AddSSHEvent(c, type)
  PROVE  /\ \A d \in Conns \ {c} : live'[d] = live[d]
         /\ late \subseteq late' /\ unwritten \subseteq unwritten'
         /\ c \in unwritten' \/ live'[c] = Applied(live[c], type)
         /\ type = "shell" /\ pc[c] = "done" => c \in late' \cup unwritten'
<1>1. CASE /\ live' = [live EXCEPT ![c] = Applied(@, type)]
           /\ late' = IF type = "shell" /\ pc[c] = "done" THEN late \cup {c} ELSE late
           /\ UNCHANGED <<faults, unwritten>>
  BY <1>1 DEF TypeOK
<1>2. CASE unwritten' = unwritten \cup {c} /\ UNCHANGED <<live, late>>
  BY <1>2
<1> QED BY <1>1, <1>2 DEF AddSSHEvent

\* The list stays truthful when it is so for the connection that moves.
LEMMA LiveStep ==
  ASSUME TypeOK, LiveListTruthful, NEW c \in Conns,
         \A d \in Conns \ {c} : live'[d] = live[d] /\ (pc'[d] \in Open <=> pc[d] \in Open),
         late \subseteq late', panicked \subseteq panicked', unwritten \subseteq unwritten',
         c \in late' \cup panicked' \cup unwritten' \/ (live'[c] = "active" <=> pc'[c] \in Open)
  PROVE  LiveListTruthful'
BY DEF LiveListTruthful, Open

\* A step of one connection that leaves its worker, the locks and the worlds of
\* the connections with a worker alone.
LEMMA SameWork ==
  ASSUME TypeOK, WorkerStarted, CommandsLocked, UNCHANGED <<worker, lock>>,
         \A d \in Conns : worker[d] # "none" => world'[d] = world[d] /\ pc'[d] \in {"up", "done"},
         \A d \in Conns : pc'[d] = "up" => world'[d] \in Conns
  PROVE  (WorkerStarted /\ CommandsLocked)'
BY DEF WorkerStarted, CommandsLocked, UnderMutex

\* acceptConn starts no worker, and lists the session when it records its connect event.
LEMMA AcceptingWork == ASSUME TypeOK, WorkInv, NEW c \in Conns, Accepting(c) PROVE WorkInv'
<1>1. /\ UNCHANGED <<worker, lock, world, panicked>> /\ pc[c] \notin {"up", "done"}
      /\ \E s \in Stages : pc' = [pc EXCEPT ![c] = s]
  BY DEF Accepting, AcquireSlot, acquireIP, Connect, Delay, EndDelay, Goto, Stages, worlds
<1>2. \A d \in Conns \ {c} : pc'[d] = pc[d]
  BY <1>1 DEF TypeOK
<1>3. worker[c] = "none"
  BY <1>1 DEF WorkInv, WorkerStarted
<1>4. (WorkerStarted /\ CommandsLocked)'
  <2>1. \A d \in Conns : worker[d] # "none" => world'[d] = world[d] /\ pc'[d] \in {"up", "done"}
    BY <1>1, <1>2, <1>3 DEF WorkInv, WorkerStarted
  <2>2. \A d \in Conns : pc'[d] = "up" => world'[d] \in Conns
    <3>1. pc'[c] # "up"
      BY DEF Accepting, AcquireSlot, acquireIP, Connect, Delay, EndDelay, Goto, TypeOK
    <3> QED BY <1>1, <1>2, <3>1 DEF WorkInv, WorkerStarted
  <2> QED BY <1>1, <2>1, <2>2, SameWork DEF WorkInv
<1>5. LiveListTruthful'
  <2>1. CASE Connect(c)
    <3>1. pc'[c] = "opened" /\ AddSSHEvent(c, "connect")
      BY <2>1 DEF Connect, Goto, TypeOK
    <3>2. c \in unwritten' \/ live'[c] = "active"
      BY <3>1, EventEffect DEF Applied
    <3> QED BY <3>1, <3>2, <1>1, <1>2, EventEffect, LiveStep DEF WorkInv, Open
  <2>2. CASE ~Connect(c)
    <3>1. /\ UNCHANGED <<live, late, unwritten>>
          /\ pc[c] \in Open <=> pc'[c] \in Open
      BY <2>2 DEF Accepting, AcquireSlot, acquireIP, Delay, EndDelay, Goto, TypeOK, Open
    <3> QED BY <3>1, <1>1, <1>2, LiveStep DEF WorkInv, LiveListTruthful, Open
  <2> QED BY <2>1, <2>2
<1> QED BY <1>4, <1>5 DEF WorkInv

\* handleConn keeps the list truthful: what ends without an event is a recovered panic.
LEMMA ServingWork == ASSUME TypeOK, WorkInv, NEW c \in Conns, Serving(c) PROVE WorkInv'
<1>1. CASE HandshakeError(c) \/ Disconnect(c)
  <2>1. /\ UNCHANGED <<worker, lock, world, panicked>>
        /\ pc' = [pc EXCEPT ![c] = "done"]
        /\ \E type \in {"handshake_error", "disconnect"} : AddSSHEvent(c, type)
    BY <1>1 DEF HandshakeError, Disconnect, Finish, Goto, worlds
  <2>2. pc'[c] = "done" /\ \A d \in Conns \ {c} : pc'[d] = pc[d]
    BY <2>1 DEF TypeOK
  <2>3. (WorkerStarted /\ CommandsLocked)'
    <3>1. \A d \in Conns : worker[d] # "none" => world'[d] = world[d] /\ pc'[d] \in {"up", "done"}
      BY <2>1, <2>2 DEF WorkInv, WorkerStarted
    <3>2. \A d \in Conns : pc'[d] = "up" => world'[d] \in Conns
      BY <2>1, <2>2 DEF WorkInv, WorkerStarted
    <3> QED BY <2>1, <3>1, <3>2, SameWork DEF WorkInv
  <2>4. c \in unwritten' \/ live'[c] = "left"
    BY <2>1, EventEffect DEF Applied
  <2>5. LiveListTruthful'
    BY <2>1, <2>2, <2>4, EventEffect, LiveStep DEF WorkInv, Open
  <2> QED BY <2>3, <2>5 DEF WorkInv
<1>2. CASE Panic(c)
  <2>1. /\ UNCHANGED <<worker, lock, world, live, late, unwritten>>
        /\ pc' = [pc EXCEPT ![c] = "done"] /\ panicked' = panicked \cup {c}
    BY <1>2 DEF Panic, Finish, Goto, worlds
  <2>2. pc'[c] = "done" /\ \A d \in Conns \ {c} : pc'[d] = pc[d]
    BY <2>1 DEF TypeOK
  <2>3. (WorkerStarted /\ CommandsLocked)'
    <3>1. \A d \in Conns : worker[d] # "none" => world'[d] = world[d] /\ pc'[d] \in {"up", "done"}
      BY <2>1, <2>2 DEF WorkInv, WorkerStarted
    <3>2. \A d \in Conns : pc'[d] = "up" => world'[d] \in Conns
      BY <2>1, <2>2 DEF WorkInv, WorkerStarted
    <3> QED BY <2>1, <3>1, <3>2, SameWork DEF WorkInv
  <2>4. LiveListTruthful'
    BY <2>1, <2>2, LiveStep DEF WorkInv, Open
  <2> QED BY <2>3, <2>4 DEF WorkInv
<1>3. CASE Authenticate(c)
  <2>1. /\ UNCHANGED <<worker, lock, live, late, panicked, unwritten>>
        /\ pc[c] = "handshake" /\ pc' = [pc EXCEPT ![c] = "up"]
        /\ world'[c] \in Conns /\ \A d \in Conns \ {c} : world'[d] = world[d]
    BY <1>3, AuthenticateTypes DEF Authenticate, Goto, TypeOK
  <2>2. pc'[c] = "up" /\ \A d \in Conns \ {c} : pc'[d] = pc[d]
    BY <2>1 DEF TypeOK
  <2>3. worker[c] = "none"
    BY <2>1 DEF WorkInv, WorkerStarted
  <2>4. (WorkerStarted /\ CommandsLocked)'
    <3>1. \A d \in Conns : worker[d] # "none" => world'[d] = world[d] /\ pc'[d] \in {"up", "done"}
      BY <2>1, <2>2, <2>3 DEF WorkInv, WorkerStarted
    <3>2. \A d \in Conns : pc'[d] = "up" => world'[d] \in Conns
      BY <2>1, <2>2 DEF WorkInv, WorkerStarted
    <3> QED BY <2>1, <3>1, <3>2, SameWork DEF WorkInv
  <2>5. LiveListTruthful'
    BY <2>1, <2>2 DEF WorkInv, LiveListTruthful
  <2> QED BY <2>4, <2>5 DEF WorkInv
<1>4. CASE OpenSession(c)
  <2>1. /\ UNCHANGED <<pc, lock, world, live, late, panicked, unwritten>>
        /\ pc[c] = "up" /\ worker' = [worker EXCEPT ![c] = "seeding"]
    BY <1>4 DEF OpenSession, WorkerTo, worlds
  <2>2. (WorkerStarted /\ CommandsLocked)'
    BY <2>1 DEF WorkInv, WorkerStarted, CommandsLocked, UnderMutex, TypeOK
  <2>3. LiveListTruthful'
    BY <2>1 DEF WorkInv, LiveListTruthful
  <2> QED BY <2>2, <2>3 DEF WorkInv
<1>5. CASE CloseNet(c)
  BY <1>5 DEF CloseNet, WorkInv, WorkerStarted, CommandsLocked, LiveListTruthful, worlds
<1> QED BY <1>1, <1>2, <1>3, <1>4, <1>5 DEF Serving

\* The goroutine of the channel takes the mutex of its world before a command runs and
\* only gives back a mutex it holds.
LEMMA WorkingLocks ==
  ASSUME TypeOK, WorkInv, NEW c \in Conns, Working(c)
  PROVE  CommandsLocked'
<1>1. world' = world /\ lock \in [Conns -> Conns \cup {None}] /\ worker \in [Conns -> WorkerStages]
  BY WorkingFrame DEF TypeOK
<1> SUFFICES ASSUME NEW d \in Conns, worker'[d] \in UnderMutex
             PROVE  lock'[world[d]] = d
  BY <1>1 DEF CommandsLocked
<1>2. worker[d] \in UnderMutex => lock[world[d]] = d
  BY DEF WorkInv, CommandsLocked
<1>3. CASE LockWorld(c)
  <2>1. /\ lock[world[c]] = None /\ lock' = [lock EXCEPT ![world[c]] = c]
        /\ \A e \in Conns \ {c} : worker'[e] = worker[e]
    BY <1>3, <1>1 DEF LockWorld, WorkerTo
  <2>2. CASE d = c
    <3>1. world[c] \in Conns
      <4>1. worker[c] # "none"
        BY <1>3 DEF LockWorld
      <4> QED BY <4>1 DEF WorkInv, WorkerStarted
    <3> QED BY <2>1, <2>2, <3>1, <1>1
  <2>3. CASE d # c
    <3>1. lock[world[d]] = d /\ d # None
      BY <2>1, <2>3, <1>2, ConnAssumption
    <3>2. world[d] # world[c]
      BY <2>1, <3>1
    <3>3. world[d] \in Conns
      <4>1. worker[d] # "none"
        BY <2>1, <2>3 DEF UnderMutex
      <4> QED BY <4>1 DEF WorkInv, WorkerStarted
    <3> QED BY <2>1, <3>1, <3>2, <3>3, <1>1
  <2> QED BY <2>2, <2>3
<1>4. CASE FinishCommand(c) \/ PanicInCommand(c)
  <2>1. /\ worker'[c] \notin UnderMutex /\ (\A e \in Conns \ {c} : worker'[e] = worker[e])
        /\ lock' = lock \/ (lock' = [lock EXCEPT ![world[c]] = None] /\ worker[c] \in UnderMutex)
    BY <1>4, <1>1 DEF FinishCommand, PanicInCommand, Unlock, WorkerTo, UnderMutex
  <2>2. d # c /\ lock[world[d]] = d
    BY <2>1, <1>2
  <2>3. CASE lock' = lock
    BY <2>2, <2>3
  <2>4. CASE lock' = [lock EXCEPT ![world[c]] = None] /\ worker[c] \in UnderMutex
    <3>1. lock[world[c]] = c
      BY <2>4 DEF WorkInv, CommandsLocked
    <3>2. world[d] # world[c]
      BY <2>2, <3>1
    <3>3. world[d] \in Conns
      <4>1. worker[d] # "none"
        BY <2>1, <2>2 DEF UnderMutex
      <4> QED BY <4>1 DEF WorkInv, WorkerStarted
    <3> QED BY <2>2, <2>4, <3>2, <3>3, <1>1
  <2> QED BY <2>1, <2>3, <2>4
<1>5. CASE ~(LockWorld(c) \/ FinishCommand(c) \/ PanicInCommand(c))
  <2>1. /\ lock' = lock /\ \A e \in Conns \ {c} : worker'[e] = worker[e]
        /\ worker'[c] \in UnderMutex => worker[c] \in UnderMutex
    BY <1>5, <1>1 DEF Working, SeedWorld, Shell, Exec, ReadLine, EndWorker, Relock,
                      recordSSHCommand, Bang, EndBang, CloseEditor, Note, WorkerTo, UnderMutex
  <2> QED BY <2>1, <1>2
<1> QED BY <1>3, <1>4, <1>5

\* The goroutine of the session channel keeps the list truthful but for a shell request
\* it handles after the disconnect.
LEMMA WorkingWork == ASSUME TypeOK, WorkInv, NEW c \in Conns, Working(c) PROVE WorkInv'
<1>1. WorkerStarted'
  <2>1. pc' = pc /\ world' = world /\ (\A d \in Conns \ {c} : worker'[d] = worker[d])
        /\ (worker'[c] = worker[c] \/ worker[c] # "none")
    BY WorkingFrame DEF TypeOK
  <2> QED BY <2>1 DEF WorkInv, WorkerStarted
<1>2. CommandsLocked'
  BY WorkingLocks
<1>3. LiveListTruthful'
  <2>1. pc' = pc /\ panicked \subseteq panicked'
        /\ (worker[c] # "none" \/ pc[c] \in {"handshake", "up"})
    <3>1. panicked' = panicked \/ panicked' = panicked \cup {c}
      BY DEF Working, SeedWorld, Shell, Exec, ReadLine, EndWorker, LockWorld, FinishCommand,
             Relock, recordSSHCommand, Note, PanicInCommand, Bang, EndBang, CloseEditor
    <3> QED BY <3>1, WorkingFrame
  <2>2. pc[c] \in {"handshake", "up", "done"}
    BY <2>1 DEF WorkInv, WorkerStarted
  <2>3. CASE UNCHANGED <<live, late, unwritten>>
    BY <2>1, <2>3 DEF WorkInv, LiveListTruthful
  <2>4. CASE worker[c] = "idle" /\ AddSSHEvent(c, "shell")
    <3>1. c \in late' \cup unwritten' \/ (live'[c] = "active" /\ pc[c] \in Open)
      BY <2>2, <2>4, EventEffect DEF Applied, Open
    <3> QED BY <2>1, <2>4, <3>1, EventEffect, LiveStep DEF WorkInv
  <2>5. ASSUME NEW type \in {"exec", "command", "request"}, AddSSHEvent(c, type)
        PROVE  LiveListTruthful'
    <3>1. c \in unwritten' \/ (live'[c] = "active" <=> live[c] = "active")
      BY <2>5, EventEffect DEF Applied
    <3>2. \/ c \in late' \cup panicked' \cup unwritten'
          \/ live'[c] = "active" <=> pc'[c] \in Open
      BY <2>1, <2>5, <3>1, EventEffect DEF WorkInv, LiveListTruthful, Open
    <3> QED BY <2>1, <2>5, <3>2, EventEffect, LiveStep DEF WorkInv
  <2> QED BY <2>3, <2>4, <2>5, WorkingFrame
<1> QED BY <1>1, <1>2, <1>3 DEF WorkInv

\* Workers, locks and the list of live sessions.
LEMMA WorkInvariance == Spec => []WorkInv
<1>1. Init => WorkInv
  BY DEF Init, WorkInv, WorkerStarted, CommandsLocked, UnderMutex, LiveListTruthful
<1>2. ASSUME TypeOK, WorkInv, [Next]_vars PROVE WorkInv'
  <2>1. CASE UNCHANGED vars \/ Tick
    BY <1>2, <2>1 DEF vars, Tick, worlds, WorkInv, WorkerStarted, CommandsLocked, LiveListTruthful
  <2> QED BY <1>2, <2>1, AcceptingWork, ServingWork, WorkingWork DEF Next
<1> QED BY <1>1, <1>2, TypeCorrect, PTL DEF Spec

\* The live list of the console shows exactly the connections that are open, but for a
\* shell request handled after the disconnect, a recovered panic and unwritten events.
THEOREM LiveListKept == Spec => []LiveListTruthful
<1>1. WorkInv => LiveListTruthful
  BY DEF WorkInv
<1> QED BY <1>1, WorkInvariance, PTL

\* The mutex of a world excludes the commands that ask for it: two commands of exec
\* requests or of interactive shells never run in one world at the same time, not even
\* after a recovered panic released or kept the mutex.  Only a command that vim's ":!"
\* runs, which does not ask for it, may run beside another.
THEOREM CommandsExclude == Spec => []CommandsExclusive
<1>1. WorkInv => CommandsExclusive
  BY ConnAssumption DEF WorkInv, CommandsLocked, CommandsExclusive
<1> QED BY <1>1, WorkInvariance, PTL

=============================================================================
