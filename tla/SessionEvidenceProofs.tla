----------------------- MODULE SessionEvidenceProofs -----------------------
(***************************************************************************)
(* Proofs about SessionEvidence, for every set of sessions, goroutines and *)
(* workers, every scene and every window: what a transcript that claims to *)
(* be whole has, and that the scans for attack traces find the latest      *)
(* cause.                                                                  *)
(***************************************************************************)
EXTENDS SessionEvidence, WellFoundedInduction, FiniteSetTheorems, SequenceTheorems, TLAPS

----------------------------------------------------------------------------
(* The inductive invariant *)

\* The records of the scripts, and what they are once they are stamped and stored.
Scripted ==
  UNION {UNION {UNION {Range(script) : script \in Scenes[n].scripts[a]} : a \in Actors}
         : n \in DOMAIN Scenes}
AsMade(r, t, k) == [r EXCEPT !.at = t, !.n = k]
Evidence == {AsMade(r, t, k) : r \in Scripted, t \in 0 .. MaxTime, k \in Nat}

\* A session has a first moment.
Begun(ss) == "first" \in DOMAIN ss /\ ss.first \in Nat

Types ==
  /\ clock \in 0 .. MaxTime /\ scene \in DOMAIN Scenes /\ written \in Nat
  /\ todo \in [Actors -> Seq(Evidence)] /\ stored \in [Sids -> SUBSET Evidence]
  /\ ring \in [Logs -> SUBSET Evidence] /\ file \in [Logs -> SUBSET Evidence]
  /\ \A log \in Logs : IsFiniteSet(ring[log]) /\ IsFiniteSet(file[log])
  /\ DOMAIN sessions \subseteq Sids /\ \A s \in DOMAIN sessions : Begun(sessions[s])

\* An actor has stamped the record that it stores next.
Pending(a) == todo[a] # << >> /\ todo[a][1].at # 0

\* What an actor has yet to record is its own, and stamped one record at a time; its
\* stamp is nobody else's.
TodoOK ==
  /\ \A a \in Actors : \A i \in DOMAIN todo[a] :
       todo[a][i].at <= clock /\ (i # 1 => todo[a][i].at = 0) /\ Owns(a, todo[a][i])
  /\ \A a, b \in Actors : (a # b /\ Pending(a) /\ Pending(b)) => todo[a][1].at # todo[b][1].at

Kept(log) == ring[log] \cup file[log]

\* Records are told apart by their stamps and by their places, in all of the rings and
\* files, and from the ones that are still to be stored.
LogsOK ==
  /\ \A log \in Logs : \A e \in Kept(log) : /\ e.log = log /\ e.at \in 1 .. clock /\ e.n \in 1 .. written
                                            /\ log = "ssh" => e.sid \in Sids
  /\ \A l, m \in Logs : \A e \in Kept(l), d \in Kept(m) : (e.at = d.at \/ e.n = d.n) => e = d
  /\ \A a \in Actors : Pending(a) => \A log \in Logs : \A e \in Kept(log) : e.at # todo[a][1].at

\* Retention leaves what is not older than it.
StoredOK ==
  \A s \in Sids : \A e \in stored[s] :
    /\ e.sid = s /\ e.n \in 1 .. written
    /\ e.at + Scenes[scene].retention >= clock => e \in file["ssh"]

\* The ring has, of every session, the records that were stored last.
Suffix ==
  \A r \in ring["ssh"] : /\ r \in stored[r.sid]
                         /\ \A e \in stored[r.sid] : r.n <= e.n => e \in ring["ssh"]

\* A session that was not removed meanwhile began no later than any of its records.
FirstOK == \A s \in DOMAIN sessions \ resumed : \A e \in stored[s] : sessions[s].first <= e.at

\* What the first half of a view read is still as it says when the second half runs.
ViewOK ==
  /\ view.stage \in {"none", "memory", "shown"}
  /\ view.stage # "none" => view.sid \in Sids /\ view.due \subseteq stored[view.sid]
  /\ view.stage = "memory" =>
       /\ view.rows \subseteq view.due
       /\ \A r \in view.rows : \A e \in view.due : r.n <= e.n => e \in view.rows
       /\ \A ss \in view.session :
            Begun(ss) /\ (view.sid \notin resumed => \A e \in view.due : ss.first <= e.at)

EvidenceInv == Types /\ TodoOK /\ LogsOK /\ StoredOK /\ Suffix /\ FirstOK /\ ViewOK /\ TranscriptWhole

----------------------------------------------------------------------------
(* Records and rows *)

\* The records of a script have no stamp and no place yet.
LEMMA ScriptedFields ==
  ASSUME NEW r \in Scripted
  PROVE  {"at", "n", "log", "sid"} \subseteq DOMAIN r /\ r.log \in Logs /\ r.at = 0
<1>1. PICK n \in DOMAIN Scenes : \E a \in Actors : \E script \in Scenes[n].scripts[a] : r \in Range(script)
  BY DEF Scripted
<1>2. PICK a \in Actors : \E script \in Scenes[n].scripts[a] : r \in Range(script)
  BY <1>1
<1>3. PICK script \in Scenes[n].scripts[a] : r \in Range(script)
  BY <1>2
<1>4. IsScript(a, script)
  BY EvidenceAssumption
<1>5. {"at", "n", "log", "sid"} \subseteq DOMAIN r /\ r.log \in Logs /\ r = [r EXCEPT !.at = 0, !.n = 0]
  BY <1>3, <1>4 DEF IsScript
<1>6. [r EXCEPT !.at = 0, !.n = 0].at = 0
  BY <1>5
<1> QED BY <1>5, <1>6

\* A record of a script as it is later.
LEMMA Made ==
  ASSUME NEW r \in Scripted, NEW t, NEW k
  PROVE  LET e == AsMade(r, t, k) IN
         e.at = t /\ e.n = k /\ e.log = r.log /\ e.sid = r.sid
BY ScriptedFields DEF AsMade

\* Stamping a record changes its stamp only.
LEMMA Stamping ==
  ASSUME NEW e \in Evidence, NEW t \in 0 .. MaxTime
  PROVE  /\ [e EXCEPT !.at = t] \in Evidence /\ [e EXCEPT !.at = t].at = t
         /\ [e EXCEPT !.at = t].log = e.log /\ [e EXCEPT !.at = t].sid = e.sid
<1>1. PICK r \in Scripted, u \in 0 .. MaxTime, k \in Nat : e = AsMade(r, u, k)
  BY DEF Evidence
<1>2. {"at", "n", "log", "sid"} \subseteq DOMAIN r
  BY ScriptedFields
<1>3. [e EXCEPT !.at = t] = AsMade(r, t, k)
  BY <1>1 DEF AsMade
<1>4. [e EXCEPT !.at = t] \in Evidence
  BY <1>3 DEF Evidence
<1>5. DOMAIN e = DOMAIN r
  BY <1>1 DEF AsMade
<1> QED BY <1>2, <1>4, <1>5

\* Storing it changes its place only.
LEMMA Placing ==
  ASSUME NEW e \in Evidence, NEW k \in Nat
  PROVE  /\ [e EXCEPT !.n = k] \in Evidence /\ [e EXCEPT !.n = k].n = k
         /\ [e EXCEPT !.n = k].log = e.log /\ [e EXCEPT !.n = k].sid = e.sid
         /\ [e EXCEPT !.n = k].at = e.at
<1>1. PICK r \in Scripted, u \in 0 .. MaxTime, m \in Nat : e = AsMade(r, u, m)
  BY DEF Evidence
<1>2. {"at", "n", "log", "sid"} \subseteq DOMAIN r
  BY ScriptedFields
<1>3. [e EXCEPT !.n = k] = AsMade(r, u, k)
  BY <1>1 DEF AsMade
<1>4. [e EXCEPT !.n = k] \in Evidence
  BY <1>3 DEF Evidence
<1>5. DOMAIN e = DOMAIN r
  BY <1>1 DEF AsMade
<1> QED BY <1>2, <1>4, <1>5

LEMMA EvidenceFields ==
  ASSUME NEW e \in Evidence PROVE e.at \in 0 .. MaxTime /\ e.at \in Nat /\ e.n \in Nat /\ e.log \in Logs
<1>1. PICK r \in Scripted, u \in 0 .. MaxTime, k \in Nat : e = AsMade(r, u, k)
  BY DEF Evidence
<1>2. {"at", "n", "log", "sid"} \subseteq DOMAIN r /\ r.log \in Logs
  BY ScriptedFields
<1>3. e.at = u /\ e.n = k /\ e.log = r.log
  BY <1>1, <1>2 DEF AsMade
<1>4. u \in Nat
  BY EvidenceAssumption
<1> QED BY <1>1, <1>2, <1>3, <1>4

\* A script is a sequence of records without stamps.
LEMMA Scripting ==
  ASSUME NEW n \in DOMAIN Scenes, NEW a \in Actors, NEW script \in Scenes[n].scripts[a]
  PROVE  /\ script \in Seq(Evidence)
         /\ \A i \in DOMAIN script : script[i].at = 0 /\ Owns(a, script[i])
<1>1. IsScript(a, script)
  BY EvidenceAssumption
<1>2. Range(script) \subseteq Scripted
  BY DEF Scripted
<1>3. Range(script) \subseteq Evidence
  <2>1. 0 \in 0 .. MaxTime /\ 0 \in Nat
    BY EvidenceAssumption
  <2>2. \A e \in Range(script) : e = AsMade(e, 0, 0)
    BY <1>1 DEF IsScript, AsMade
  <2> QED BY <1>2, <2>1, <2>2 DEF Evidence
<1>4. script \in Seq(Evidence)
  <2>1. script \in Seq(Range(script))
    BY <1>1 DEF IsScript
  <2> QED BY <1>3, <2>1, SeqMonotonic
<1>5. \A i \in DOMAIN script : script[i] \in Range(script)
  BY DEF Range
<1>6. \A e \in Range(script) : e.at = 0 /\ Owns(a, e)
  BY <1>1, <1>2, ScriptedFields DEF IsScript
<1> QED BY <1>4, <1>5, <1>6

\* What an actor has left when it has stored a record.
LEMMA TailOf ==
  ASSUME NEW S, NEW s \in Seq(S), s # << >>
  PROVE  /\ Tail(s) \in Seq(S) /\ Len(s) \in Nat \ {0}
         /\ DOMAIN Tail(s) = 1 .. Len(s) - 1 /\ \A i \in DOMAIN Tail(s) : Tail(s)[i] = s[i + 1]
<1>1. /\ Tail(s) \in Seq(S) /\ Len(Tail(s)) = Len(s) - 1 /\ Len(s) \in Nat \ {0}
      /\ \A i \in 1 .. Len(Tail(s)) : Tail(s)[i] = s[i + 1]
  BY HeadTailProperties, EmptySeq, LenProperties
<1>2. DOMAIN Tail(s) = 1 .. Len(s) - 1
  BY <1>1
<1> QED BY <1>1, <1>2

\* The smallest of some numbers.
Below == {ss \in Nat \X Nat : ss[1] < ss[2]}

LEMMA MinOf == ASSUME NEW S \in SUBSET Nat, S # {} PROVE Min(S) \in S /\ \A x \in S : Min(S) <= x
<1>1. IsWellFoundedOn(Below, Nat)
  BY NatLessThanWellFounded DEF OpToRel, Below
<1>2. PICK m \in S : \A x \in S : ~(<<x, m>> \in Below)
  BY <1>1, WFMin
<1>3. ASSUME NEW x \in S PROVE m <= x
  <2>1. x \in Nat /\ m \in Nat
    OBVIOUS
  <2>2. x < m => <<x, m>> \in Below
    BY <2>1 DEF Below
  <2> QED BY <1>2, <2>1, <2>2
<1>4. \E m1 \in S : \A x \in S : m1 <= x
  BY <1>3
<1> QED BY <1>4 DEF Min

----------------------------------------------------------------------------
(* Scripts and stamps *)

\* Nothing but the scripts and the clock changes, and whoever has a stamp had it
\* before or got a later one than every record so far.
Calm ==
  /\ UNCHANGED <<ring, written, stored, sessions, resumed, view, file, scene>>
  /\ clock' \in 0 .. MaxTime /\ clock <= clock'
  /\ todo' \in [Actors -> Seq(Evidence)]
  /\ \A a \in Actors : Pending(a)' =>
       \/ Pending(a) /\ todo'[a][1].at = todo[a][1].at
       \/ todo'[a][1].at > clock

\* What is within retention later is so now.
LEMMA Ageing ==
  ASSUME NEW at \in Nat, NEW r \in Nat, NEW c \in Nat, NEW d \in Nat, c <= d, at + r >= d
  PROVE  at + r >= c
OBVIOUS

LEMMA CalmInv == ASSUME EvidenceInv, Calm, TodoOK' PROVE EvidenceInv'
<1>0. clock \in Nat /\ clock' \in Nat /\ clock <= clock' /\ Scenes[scene].retention \in Nat
      /\ scene' = scene
  BY EvidenceAssumption DEF EvidenceInv, Types, Calm
<1>1. Types'
  BY DEF EvidenceInv, Types, Calm
<1>r. \A log \in Logs : Kept(log)' = Kept(log)
  BY DEF Calm, Kept
<1>2. LogsOK'
  <2>1. \A log \in Logs : \A e \in Kept(log) : e.at \in 1 .. clock'
    BY <1>0 DEF EvidenceInv, LogsOK
  <2>2. ASSUME NEW a \in Actors, Pending(a)', NEW log \in Logs, NEW e \in Kept(log)
        PROVE  e.at # todo'[a][1].at
    <3>1. e.at \in 1 .. clock
      BY DEF EvidenceInv, LogsOK
    <3>2. CASE Pending(a) /\ todo'[a][1].at = todo[a][1].at
      BY <3>2 DEF EvidenceInv, LogsOK
    <3>3. CASE todo'[a][1].at > clock
      BY <1>0, <3>1, <3>3
    <3> QED BY <2>2, <3>2, <3>3 DEF Calm
  <2>3. /\ written' = written
        /\ \A log \in Logs : \A e \in Kept(log) : /\ e.log = log /\ e.n \in 1 .. written
                                                  /\ log = "ssh" => e.sid \in Sids
        /\ \A l, m \in Logs : \A e \in Kept(l), d \in Kept(m) : (e.at = d.at \/ e.n = d.n) => e = d
    BY DEF EvidenceInv, LogsOK, Calm
  <2> QED BY <1>r, <2>1, <2>2, <2>3 DEF LogsOK
<1>a. \A s \in Sids : \A e \in stored[s] :
        e.at + Scenes[scene].retention >= clock' => e.at + Scenes[scene].retention >= clock
  <2> SUFFICES ASSUME NEW s \in Sids, NEW e \in stored[s], e.at + Scenes[scene].retention >= clock'
               PROVE  e.at + Scenes[scene].retention >= clock
    OBVIOUS
  <2>1. e.at \in Nat
    <3>1. e \in Evidence
      BY DEF EvidenceInv, Types
    <3> QED BY <3>1, EvidenceFields
  <2> QED BY ONLY <1>0, <2>1, Ageing, e.at + Scenes[scene].retention >= clock'
<1>3. StoredOK'
  <2>1. stored' = stored /\ file' = file /\ written' = written /\ scene' = scene
    BY DEF Calm
  <2>2. StoredOK
    BY DEF EvidenceInv
  <2> QED BY ONLY <1>a, <2>1, <2>2 DEF StoredOK
<1>4. (Suffix /\ FirstOK)'
  BY DEF EvidenceInv, Suffix, FirstOK, Calm
<1>5. ViewOK'
  BY DEF EvidenceInv, ViewOK, Calm
<1>6. TranscriptWhole'
  <2>1. view' = view /\ resumed' = resumed /\ scene' = scene /\ TranscriptWhole
    BY DEF EvidenceInv, Calm
  <2>2. view.stage = "shown" => \A e \in view.due :
          e.at + Scenes[scene].retention >= clock' => e.at + Scenes[scene].retention >= clock
    BY <1>a DEF EvidenceInv, ViewOK
  <2> QED BY ONLY <2>1, <2>2 DEF TranscriptWhole
<1> QED BY <1>1, <1>2, <1>3, <1>4, <1>5, <1>6 DEF EvidenceInv

\* An actor goes on to a script.
LEMMA BeginInv ==
  ASSUME EvidenceInv, NEW a \in Actors, NEW script \in Scenes[scene].scripts[a], Begin(a, script)
  PROVE  EvidenceInv'
<1>1. todo' = [todo EXCEPT ![a] = script] /\ clock' = clock
      /\ UNCHANGED <<ring, written, stored, sessions, resumed, view, file, scene>>
  BY DEF Begin, Spend
<1>2. /\ script \in Seq(Evidence)
      /\ \A i \in DOMAIN script : script[i].at = 0 /\ Owns(a, script[i])
  BY Scripting DEF EvidenceInv, Types
<1>3. clock \in 0 .. MaxTime /\ todo \in [Actors -> Seq(Evidence)]
  BY DEF EvidenceInv, Types
<1>4. todo' \in [Actors -> Seq(Evidence)] /\ todo'[a] = script /\ \A b \in Actors \ {a} : todo'[b] = todo[b]
  BY <1>1, <1>2, <1>3
<1>5. ~Pending(a)'
  BY <1>2, <1>4 DEF Pending
<1>6. \A b \in Actors : Pending(b)' => b # a /\ Pending(b) /\ todo'[b] = todo[b]
  BY <1>4, <1>5 DEF Pending
<1>7. TodoOK'
  <2>1. ASSUME NEW b \in Actors, NEW i \in DOMAIN todo'[b]
        PROVE  todo'[b][i].at <= clock' /\ (i # 1 => todo'[b][i].at = 0) /\ Owns(b, todo'[b][i])
    <3>1. CASE b = a
      BY <1>1, <1>2, <1>3, <1>4, <2>1, <3>1, EvidenceAssumption
    <3>2. CASE b # a
      BY <1>1, <1>4, <2>1, <3>2 DEF EvidenceInv, TodoOK
    <3> QED BY <3>1, <3>2
  <2>2. \A b, c \in Actors : (b # c /\ Pending(b)' /\ Pending(c)') => todo'[b][1].at # todo'[c][1].at
    BY <1>6 DEF EvidenceInv, TodoOK
  <2> QED BY <2>1, <2>2 DEF TodoOK, Owns
<1>8. clock <= clock'
  BY <1>1, <1>3, EvidenceAssumption
<1>9. Calm
  BY <1>1, <1>3, <1>4, <1>6, <1>8 DEF Calm
<1> QED BY <1>7, <1>9, CalmInv

\* A record gets a stamp that is later than every other.
LEMMA StampInv == ASSUME EvidenceInv, NEW a \in Actors, Stamp(a) PROVE EvidenceInv'
<1>1. /\ todo[a] # << >> /\ clock < MaxTime /\ clock' = clock + 1
      /\ todo' = [todo EXCEPT ![a][1].at = clock']
      /\ UNCHANGED <<ring, written, stored, sessions, resumed, view, file, scene>>
  BY DEF Stamp
<1>2. clock \in 0 .. MaxTime /\ todo \in [Actors -> Seq(Evidence)] /\ MaxTime \in Nat
  BY EvidenceAssumption DEF EvidenceInv, Types
<1>3. clock' \in 0 .. MaxTime /\ clock' \in Nat \ {0} /\ clock <= clock' /\ clock < clock' /\ clock \in Nat
  BY <1>1, <1>2
<1> DEFINE e == todo[a][1]
           f == [e EXCEPT !.at = clock']
<1>4. todo[a] \in Seq(Evidence) /\ 1 \in DOMAIN todo[a] /\ e \in Evidence
  BY <1>1, <1>2
<1>5. f \in Evidence /\ f.at = clock' /\ f.log = e.log /\ f.sid = e.sid
  BY <1>3, <1>4, Stamping
<1>6. todo' = [todo EXCEPT ![a] = [todo[a] EXCEPT ![1] = f]]
  BY <1>1
<1> HIDE DEF e, f
<1>7. [todo[a] EXCEPT ![1] = f] \in Seq(Evidence)
  BY <1>4, <1>5
<1>8. /\ todo' \in [Actors -> Seq(Evidence)] /\ todo'[a] = [todo[a] EXCEPT ![1] = f]
      /\ \A b \in Actors \ {a} : todo'[b] = todo[b]
  BY <1>2, <1>6, <1>7
<1>9. /\ DOMAIN todo'[a] = DOMAIN todo[a] /\ todo'[a][1] = f
      /\ \A i \in DOMAIN todo[a] : i # 1 => todo'[a][i] = todo[a][i]
  BY <1>4, <1>8
<1>10. \A b \in Actors : Pending(b)' => (b = a \/ (Pending(b) /\ todo'[b] = todo[b]))
  BY <1>8 DEF Pending
<1>11. \A b \in Actors : Pending(b) => todo[b][1].at <= clock
  <2> SUFFICES ASSUME NEW b \in Actors, Pending(b) PROVE todo[b][1].at <= clock
    OBVIOUS
  <2>1. todo[b] \in Seq(Evidence) /\ todo[b] # << >>
    BY <1>2 DEF Pending
  <2>2. 1 \in DOMAIN todo[b]
    BY <2>1
  <2> QED BY <2>2 DEF EvidenceInv, TodoOK
<1>12. TodoOK'
  <2>1. ASSUME NEW b \in Actors, NEW i \in DOMAIN todo'[b]
        PROVE  todo'[b][i].at <= clock' /\ (i # 1 => todo'[b][i].at = 0) /\ Owns(b, todo'[b][i])
    <3>1. CASE b = a /\ i = 1
      <4>1. Owns(a, e)
        BY <1>4 DEF EvidenceInv, TodoOK, e
      <4>2. Owns(a, f)
        BY <1>5, <4>1 DEF Owns
      <4> QED BY <1>3, <1>5, <1>9, <3>1, <4>2
    <3>2. CASE ~(b = a /\ i = 1)
      <4>1. i \in DOMAIN todo[b] /\ todo'[b][i] = todo[b][i]
        BY <1>8, <1>9, <2>1, <3>2
      <4>2. todo[b][i].at <= clock /\ (i # 1 => todo[b][i].at = 0) /\ Owns(b, todo[b][i])
        BY <4>1 DEF EvidenceInv, TodoOK
      <4>3. todo[b][i].at \in Nat
        BY <1>2, <4>1, EvidenceFields
      <4> QED BY <1>3, <4>1, <4>2, <4>3
    <3> QED BY <3>1, <3>2
  <2>2. ASSUME NEW b \in Actors, NEW c \in Actors, b # c, Pending(b)', Pending(c)'
        PROVE  todo'[b][1].at # todo'[c][1].at
    <3>1. CASE b = a
      <4>1. Pending(c) /\ todo'[c] = todo[c] /\ todo'[b][1].at = clock'
        BY <1>5, <1>9, <1>10, <2>2, <3>1
      <4>2. todo[c][1].at <= clock
        BY <1>11, <4>1
      <4> QED BY <1>3, <4>1, <4>2
    <3>2. CASE c = a
      <4>1. Pending(b) /\ todo'[b] = todo[b] /\ todo'[c][1].at = clock'
        BY <1>5, <1>9, <1>10, <2>2, <3>2
      <4>2. todo[b][1].at <= clock
        BY <1>11, <4>1
      <4> QED BY <1>3, <4>1, <4>2
    <3>3. CASE b # a /\ c # a
      BY <1>10, <2>2, <3>3 DEF EvidenceInv, TodoOK
    <3> QED BY <3>1, <3>2, <3>3
  <2> QED BY <2>1, <2>2 DEF TodoOK, Owns
<1>13. Calm
  BY <1>1, <1>3, <1>5, <1>8, <1>9, <1>10 DEF Calm
<1> QED BY <1>12, <1>13, CalmInv

----------------------------------------------------------------------------
(* Storing *)

\* The actor that stores its record has no stamp any more.
LEMMA Popped ==
  ASSUME EvidenceInv, NEW a \in Actors, todo[a] # << >>, clock' = clock,
         todo' = [todo EXCEPT ![a] = Tail(@)]
  PROVE  /\ todo' \in [Actors -> Seq(Evidence)] /\ TodoOK' /\ todo[a][1] \in Evidence
         /\ \A b \in Actors : Pending(b)' => b # a /\ Pending(b) /\ todo'[b] = todo[b]
<1>1. todo \in [Actors -> Seq(Evidence)]
  BY DEF EvidenceInv, Types
<1>2. /\ Tail(todo[a]) \in Seq(Evidence) /\ Len(todo[a]) \in Nat \ {0}
      /\ DOMAIN Tail(todo[a]) = 1 .. Len(todo[a]) - 1
      /\ \A i \in DOMAIN Tail(todo[a]) : Tail(todo[a])[i] = todo[a][i + 1]
  BY <1>1, TailOf
<1>3. DOMAIN todo[a] = 1 .. Len(todo[a])
  BY <1>1
<1>4. /\ todo' \in [Actors -> Seq(Evidence)] /\ todo'[a] = Tail(todo[a])
      /\ \A b \in Actors \ {a} : todo'[b] = todo[b]
  BY <1>1, <1>2
<1>5. ASSUME NEW i \in DOMAIN todo'[a]
      PROVE  i + 1 \in DOMAIN todo[a] /\ i + 1 # 1 /\ todo'[a][i] = todo[a][i + 1]
  BY <1>2, <1>3, <1>4, <1>5
<1>6. \A i \in DOMAIN todo'[a] : todo'[a][i].at = 0 /\ Owns(a, todo'[a][i])
  BY <1>5 DEF EvidenceInv, TodoOK
<1>7. ~Pending(a)'
  <2> SUFFICES ASSUME todo'[a] # << >> PROVE todo'[a][1].at = 0
    BY DEF Pending
  <2>1. 1 \in DOMAIN todo'[a]
    BY <1>4
  <2> QED BY <1>6, <2>1
<1>8. \A b \in Actors : Pending(b)' => b # a /\ Pending(b) /\ todo'[b] = todo[b]
  BY <1>4, <1>7 DEF Pending
<1>9. TodoOK'
  <2>0. 0 <= clock
    BY EvidenceAssumption DEF EvidenceInv, Types
  <2>1. ASSUME NEW b \in Actors, NEW i \in DOMAIN todo'[b]
        PROVE  todo'[b][i].at <= clock' /\ (i # 1 => todo'[b][i].at = 0) /\ Owns(b, todo'[b][i])
    <3>1. CASE b = a
      BY <1>6, <2>0, <2>1, <3>1
    <3>2. CASE b # a
      BY <1>4, <2>1, <3>2 DEF EvidenceInv, TodoOK
    <3> QED BY <3>1, <3>2
  <2>2. \A b, c \in Actors : (b # c /\ Pending(b)' /\ Pending(c)') => todo'[b][1].at # todo'[c][1].at
    BY <1>8 DEF EvidenceInv, TodoOK
  <2> QED BY <2>1, <2>2 DEF TodoOK, Owns
<1>10. todo[a][1] \in Evidence
  BY <1>1, <1>3, <1>2
<1> QED BY <1>4, <1>8, <1>9, <1>10

\* A session counts a record, and begins no later than it.
LEMMA Applying ==
  ASSUME NEW ss, Begun(ss), NEW e, e.at \in Nat
  PROVE  /\ Begun(applySSHEvent(ss, e))
         /\ applySSHEvent(ss, e).first <= ss.first /\ applySSHEvent(ss, e).first <= e.at
<1> DEFINE first == Min({ss.first, e.at})
           last == Max({ss.last, e.at})
<1>1. ss.first \in Nat /\ "first" \in DOMAIN ss
  BY DEF Begun
<1>2. first \in Nat /\ first <= ss.first /\ first <= e.at
  BY <1>1 DEF Min
<1> HIDE DEF first, last
<1>3. /\ "first" \in DOMAIN applySSHEvent(ss, e) /\ applySSHEvent(ss, e).first = first
  BY <1>1 DEF applySSHEvent, first
<1> QED BY <1>2, <1>3 DEF Begun

LEMMA NewSession ==
  ASSUME NEW t \in Nat PROVE Begun(NoSession(t)) /\ NoSession(t).first = t
BY DEF NoSession, Begun

\* The record that an actor stores.
Placed(a) == [todo[a][1] EXCEPT !.n = written + 1]

\* AddEvent, AddSSHEvent and AddIntelSignal: what every log sees of it.
LEMMA StoreLogs ==
  ASSUME EvidenceInv, NEW a \in Actors, Store(a, TRUE), NEW e, e = Placed(a)
  PROVE  /\ e \in Evidence /\ e.at \in 1 .. clock /\ e.n = written + 1 /\ e.log \in Logs
         /\ e.log = "ssh" => e.sid \in Sids
         /\ todo' \in [Actors -> Seq(Evidence)] /\ TodoOK'
         /\ ring' = [ring EXCEPT ![e.log] = @ \cup {e}]
         /\ file' = [file EXCEPT ![e.log] = @ \cup {e}]
         /\ ring' \in [Logs -> SUBSET Evidence] /\ file' \in [Logs -> SUBSET Evidence]
         /\ \A log \in Logs : IsFiniteSet(ring'[log]) /\ IsFiniteSet(file'[log])
         /\ LogsOK' /\ written' = written + 1 /\ UNCHANGED <<clock, view, scene>>
<1>1. /\ todo[a] # << >> /\ todo[a][1].at # 0 /\ todo' = [todo EXCEPT ![a] = Tail(@)]
      /\ ring' = [ring EXCEPT ![e.log] = @ \cup {e}]
      /\ file' = [file EXCEPT ![e.log] = @ \cup {e}]
      /\ written' = written + 1 /\ UNCHANGED <<clock, view, scene>>
  BY DEF Store, Free, Placed
<1>2. /\ todo' \in [Actors -> Seq(Evidence)] /\ TodoOK' /\ todo[a][1] \in Evidence
      /\ \A b \in Actors : Pending(b)' => b # a /\ Pending(b) /\ todo'[b] = todo[b]
  BY <1>1, Popped
<1>3. Pending(a) /\ 1 \in DOMAIN todo[a]
  BY <1>1 DEF Pending, EvidenceInv, Types
<1>w. written \in Nat /\ written + 1 \in Nat
  BY DEF EvidenceInv, Types
<1>4. /\ e \in Evidence /\ e.n = written + 1 /\ e.log = todo[a][1].log /\ e.sid = todo[a][1].sid
      /\ e.at = todo[a][1].at
  BY <1>2, <1>w, Placing DEF Placed
<1>5. e.at \in 1 .. clock /\ e.log \in Logs /\ (e.log = "ssh" => e.sid \in Sids)
  <2>1. e.at <= clock /\ Owns(a, todo[a][1])
    BY <1>3, <1>4 DEF EvidenceInv, TodoOK
  <2>2. e.log = "ssh" => e.sid \in Sids
    BY <1>4, <2>1 DEF Owns
  <2>3. clock \in Nat /\ e.at \in Nat /\ e.at # 0 /\ e.log \in Logs
    BY <1>1, <1>4, EvidenceFields, EvidenceAssumption DEF EvidenceInv, Types
  <2> QED BY <2>1, <2>2, <2>3
<1>6. /\ ring \in [Logs -> SUBSET Evidence] /\ file \in [Logs -> SUBSET Evidence]
      /\ \A log \in Logs : IsFiniteSet(ring[log]) /\ IsFiniteSet(file[log])
  BY DEF EvidenceInv, Types
<1>7. /\ ring' \in [Logs -> SUBSET Evidence] /\ file' \in [Logs -> SUBSET Evidence]
      /\ \A log \in Logs : /\ ring'[log] = IF log = e.log THEN ring[log] \cup {e} ELSE ring[log]
                           /\ file'[log] = IF log = e.log THEN file[log] \cup {e} ELSE file[log]
  BY <1>1, <1>4, <1>5, <1>6
<1>8. \A log \in Logs : IsFiniteSet(ring'[log]) /\ IsFiniteSet(file'[log])
  <2>1. IsFiniteSet(ring[e.log] \cup {e}) /\ IsFiniteSet(file[e.log] \cup {e})
    BY <1>4, <1>5, <1>6, FS_AddElement
  <2> QED BY <1>6, <1>7, <2>1
<1>9. \A log \in Logs : Kept(log)' \subseteq Kept(log) \cup (IF log = e.log THEN {e} ELSE {})
  BY <1>7 DEF Kept
<1>10. \A log \in Logs : \A d \in Kept(log) :
         /\ d.at # e.at /\ d.n # e.n /\ d.log = log /\ d.at \in 1 .. clock /\ d.n \in 1 .. written + 1
         /\ log = "ssh" => d.sid \in Sids
  <2>1. \A log \in Logs : \A d \in Kept(log) :
          /\ d.at # todo[a][1].at /\ d.log = log /\ d.at \in 1 .. clock /\ d.n \in 1 .. written
          /\ log = "ssh" => d.sid \in Sids
    BY <1>3 DEF EvidenceInv, LogsOK
  <2>2. \A k \in 1 .. written : k # written + 1 /\ k \in 1 .. written + 1
    BY <1>w
  <2> QED BY <1>4, <2>1, <2>2
<1>11. LogsOK'
  <2>1. ASSUME NEW log \in Logs, NEW d \in Kept(log)'
        PROVE  /\ d.log = log /\ d.at \in 1 .. clock' /\ d.n \in 1 .. written'
               /\ log = "ssh" => d.sid \in Sids
    <3>1. CASE d = e /\ log = e.log
      <4>1. e.n \in 1 .. written'
        BY <1>1, <1>4, <1>w
      <4> QED BY <1>1, <1>5, <3>1, <4>1
    <3>2. CASE d \in Kept(log)
      BY <1>1, <1>10, <3>2
    <3> QED BY <1>9, <2>1, <3>1, <3>2
  <2>2. ASSUME NEW l \in Logs, NEW m \in Logs, NEW c \in Kept(l)', NEW d \in Kept(m)',
               c.at = d.at \/ c.n = d.n
        PROVE  c = d
    <3>1. c = e \/ c \in Kept(l)
      BY <1>9, <2>2
    <3>2. d = e \/ d \in Kept(m)
      BY <1>9, <2>2
    <3>3. CASE c \in Kept(l) /\ d \in Kept(m)
      BY <2>2, <3>3 DEF EvidenceInv, LogsOK
    <3> QED BY <1>10, <2>2, <3>1, <3>2, <3>3
  <2>3. ASSUME NEW b \in Actors, Pending(b)', NEW log \in Logs, NEW d \in Kept(log)'
        PROVE  d.at # todo'[b][1].at
    <3>1. b # a /\ Pending(b) /\ todo'[b] = todo[b]
      BY <1>2, <2>3
    <3>2. CASE d \in Kept(log)
      BY <3>1, <3>2 DEF EvidenceInv, LogsOK
    <3>3. CASE d = e
      BY <1>3, <1>4, <3>1, <3>3 DEF EvidenceInv, TodoOK
    <3> QED BY <1>9, <2>3, <3>2, <3>3
  <2> QED BY <2>1, <2>2, <2>3 DEF LogsOK
<1> QED BY <1>1, <1>2, <1>4, <1>5, <1>7, <1>8, <1>11

\* The records of the sessions see only that others are written.
LEMMA StoredBefore ==
  ASSUME EvidenceInv, NEW s \in Sids, NEW d \in stored[s]
  PROVE  /\ d.sid = s /\ d \in Evidence /\ d.n \in 1 .. written /\ d.n \in 1 .. written + 1
         /\ d.n < written + 1
         /\ d.at + Scenes[scene].retention >= clock => d \in file["ssh"]
<1>1. /\ d.sid = s /\ d.n \in 1 .. written /\ d \in Evidence /\ written \in Nat
      /\ d.at + Scenes[scene].retention >= clock => d \in file["ssh"]
  BY DEF EvidenceInv, StoredOK, Types
<1>2. d.n \in 1 .. written + 1 /\ d.n < written + 1
  BY <1>1
<1> QED BY <1>1, <1>2

\* A record of the web or an intelligence signal concerns no session.
LEMMA StoreOther ==
  ASSUME EvidenceInv, NEW a \in Actors, Store(a, TRUE), NEW e, e = Placed(a), e.log # "ssh"
  PROVE  EvidenceInv'
<1>1. /\ todo' \in [Actors -> Seq(Evidence)] /\ TodoOK'
      /\ ring' = [ring EXCEPT ![e.log] = @ \cup {e}]
      /\ file' = [file EXCEPT ![e.log] = @ \cup {e}]
      /\ ring' \in [Logs -> SUBSET Evidence] /\ file' \in [Logs -> SUBSET Evidence]
      /\ \A log \in Logs : IsFiniteSet(ring'[log]) /\ IsFiniteSet(file'[log])
      /\ LogsOK' /\ written' = written + 1 /\ UNCHANGED <<clock, view, scene>>
  BY StoreLogs
<1>2. UNCHANGED <<sessions, stored, resumed>>
  BY DEF Store, Placed
<1>3. ring'["ssh"] = ring["ssh"] /\ file'["ssh"] = file["ssh"]
  BY <1>1 DEF EvidenceInv, Types, Logs
<1>4. Types'
  <2>1. written' \in Nat
    BY <1>1 DEF EvidenceInv, Types
  <2> QED BY <1>1, <1>2, <2>1 DEF EvidenceInv, Types
<1>5. StoredOK'
  BY <1>1, <1>2, <1>3, StoredBefore DEF StoredOK
<1>6. (Suffix /\ FirstOK)'
  BY <1>2, <1>3 DEF EvidenceInv, Suffix, FirstOK
<1>7. (ViewOK /\ TranscriptWhole)'
  BY <1>1, <1>2 DEF EvidenceInv, ViewOK, TranscriptWhole
<1> QED BY <1>1, <1>4, <1>5, <1>6, <1>7 DEF EvidenceInv

\* A record of a session comes after every other of it in the log.
LEMMA StoreSsh ==
  ASSUME EvidenceInv, NEW a \in Actors, Store(a, TRUE), NEW e, e = Placed(a), e.log = "ssh"
  PROVE  EvidenceInv'
<1> DEFINE sid == e.sid
           old == IF sid \in DOMAIN sessions THEN sessions[sid] ELSE NoSession(e.at)
           new == applySSHEvent(old, e)
<1>1. /\ e \in Evidence /\ e.at \in 1 .. clock /\ e.n = written + 1 /\ sid \in Sids
      /\ todo' \in [Actors -> Seq(Evidence)] /\ TodoOK'
      /\ ring' = [ring EXCEPT ![e.log] = @ \cup {e}]
      /\ file' = [file EXCEPT ![e.log] = @ \cup {e}]
      /\ ring' \in [Logs -> SUBSET Evidence] /\ file' \in [Logs -> SUBSET Evidence]
      /\ \A log \in Logs : IsFiniteSet(ring'[log]) /\ IsFiniteSet(file'[log])
      /\ LogsOK' /\ written' = written + 1 /\ UNCHANGED <<clock, view, scene>>
  BY StoreLogs
<1>2. /\ sessions' = Put(sessions, sid, new) /\ stored' = [stored EXCEPT ![sid] = @ \cup {e}]
      /\ resumed' = IF stored[sid] # {} /\ sid \notin DOMAIN sessions THEN resumed \cup {sid} ELSE resumed
  BY DEF Store, Observe, Placed
<1>3. /\ written \in Nat /\ stored \in [Sids -> SUBSET Evidence]
      /\ DOMAIN sessions \subseteq Sids /\ \A s \in DOMAIN sessions : Begun(sessions[s])
      /\ ring["ssh"] \in SUBSET Evidence /\ file["ssh"] \in SUBSET Evidence
      /\ ring \in [Logs -> SUBSET Evidence] /\ file \in [Logs -> SUBSET Evidence]
  BY DEF EvidenceInv, Types, Logs
<1>4. ring'["ssh"] = ring["ssh"] \cup {e} /\ file'["ssh"] = file["ssh"] \cup {e}
  BY <1>1, <1>3 DEF Logs
<1>5. e.at \in Nat
  BY <1>1, EvidenceFields
<1> HIDE DEF sid
<1>6. Begun(old)
  BY <1>3, <1>5, NewSession
<1>7. Begun(new) /\ new.first <= old.first /\ new.first <= e.at
  BY <1>5, <1>6, Applying
<1> HIDE DEF new
<1>8. /\ stored' \in [Sids -> SUBSET Evidence] /\ stored'[sid] = stored[sid] \cup {e}
      /\ \A s \in Sids \ {sid} : stored'[s] = stored[s]
  BY <1>1, <1>2, <1>3
<1>9. /\ DOMAIN sessions' = DOMAIN sessions \cup {sid} /\ sessions'[sid] = new
      /\ \A s \in DOMAIN sessions \ {sid} : sessions'[s] = sessions[s]
  BY <1>2 DEF Put
<1>10. Types'
  <2>1. DOMAIN sessions' \subseteq Sids /\ \A s \in DOMAIN sessions' : Begun(sessions'[s])
    BY <1>1, <1>3, <1>7, <1>9
  <2>2. written' \in Nat
    BY <1>1, <1>3
  <2> QED BY <1>1, <1>8, <2>1, <2>2 DEF EvidenceInv, Types, Begun
<1>11. \A s \in Sids : \A d \in stored'[s] : d \in stored[s] \/ (d = e /\ s = sid)
  BY <1>1, <1>8
<1>12. StoredOK'
  <2> SUFFICES ASSUME NEW s \in Sids, NEW d \in stored'[s]
               PROVE  /\ d.sid = s /\ d.n \in 1 .. written'
                      /\ d.at + Scenes[scene].retention >= clock => d \in file'["ssh"]
    BY <1>1 DEF StoredOK
  <2>1. CASE d \in stored[s]
    BY <1>1, <1>4, <2>1, StoredBefore
  <2>2. CASE d = e /\ s = sid
    <3>1. e.n \in 1 .. written'
      BY <1>1, <1>3
    <3> QED BY <1>4, <2>2, <3>1 DEF sid
  <2> QED BY <1>11, <2>1, <2>2
<1>13. ASSUME NEW r \in ring'["ssh"]
       PROVE  /\ r \in stored'[r.sid]
              /\ \A d \in stored'[r.sid] : r.n <= d.n => d \in ring'["ssh"]
  <2>1. CASE r = e
    <3>1. ASSUME NEW d \in stored[sid] PROVE ~(r.n <= d.n)
      <4>1. d.n < written + 1 /\ d.n \in Nat
        BY <1>1, <3>1, StoredBefore, EvidenceFields
      <4> QED BY ONLY <1>1, <1>3, <2>1, <4>1
    <3> QED BY <1>4, <1>8, <2>1, <3>1 DEF sid
  <2>2. CASE r \in ring["ssh"]
    <3>1. /\ r.sid \in Sids /\ r \in stored[r.sid]
          /\ \A d \in stored[r.sid] : r.n <= d.n => d \in ring["ssh"]
      BY <2>2 DEF EvidenceInv, Suffix, LogsOK, Kept, Logs
    <3>2. stored[r.sid] \subseteq stored'[r.sid]
      BY <1>8, <3>1
    <3> QED BY <1>4, <1>11, <3>1, <3>2
  <2> QED BY <1>4, <1>13, <2>1, <2>2
<1>14. Suffix'
  BY <1>13 DEF Suffix
<1>15. FirstOK'
  <2> SUFFICES ASSUME NEW s \in DOMAIN sessions', s \notin resumed', NEW d \in stored'[s]
               PROVE  sessions'[s].first <= d.at
    BY DEF FirstOK
  <2>1. s \notin resumed /\ s \in Sids
    BY <1>1, <1>2, <1>3, <1>9
  <2>2. CASE s # sid
    <3>1. s \in DOMAIN sessions /\ sessions'[s] = sessions[s]
      BY <1>9, <2>2
    <3>2. stored'[s] = stored[s]
      BY <1>8, <2>1, <2>2
    <3> QED BY <2>1, <3>1, <3>2 DEF EvidenceInv, FirstOK
  <2>3. CASE s = sid /\ d = e
    BY <1>7, <1>9, <2>3
  <2>4. CASE s = sid /\ d \in stored[sid]
    <3>1. sid \in DOMAIN sessions
      BY <1>2, <2>4
    <3>2. sessions[sid].first <= d.at /\ old = sessions[sid]
      BY <2>1, <2>4, <3>1 DEF EvidenceInv, FirstOK
    <3>3. d.at \in Nat
      BY <1>1, <1>3, <2>4, EvidenceFields
    <3>4. new.first \in Nat /\ old.first \in Nat /\ new.first <= old.first
      BY <1>6, <1>7 DEF Begun
    <3>5. new.first <= d.at
      BY ONLY <3>2, <3>3, <3>4
    <3> QED BY <1>9, <2>4, <3>5
  <2> QED BY <1>8, <2>2, <2>3, <2>4
<1>16. \A s \in Sids : stored[s] \subseteq stored'[s]
  BY <1>1, <1>8
<1>17. resumed \subseteq resumed' /\ view' = view /\ clock' = clock /\ scene' = scene
  BY <1>1, <1>2
<1>18. ViewOK'
  <2>1. view.stage # "none" => view.sid \in Sids /\ view.due \subseteq stored'[view.sid]
    BY <1>16 DEF EvidenceInv, ViewOK
  <2> QED BY <1>17, <2>1 DEF EvidenceInv, ViewOK
<1>19. TranscriptWhole'
  BY <1>17 DEF EvidenceInv, TranscriptWhole
<1> QED BY <1>1, <1>10, <1>12, <1>14, <1>15, <1>18, <1>19 DEF EvidenceInv

LEMMA StoreInv ==
  ASSUME EvidenceInv, NEW a \in Actors, NEW ok \in BOOLEAN, Store(a, ok) PROVE EvidenceInv'
<1>1. CASE ok
  <2>1. ok = TRUE
    BY <1>1
  <2>2. Store(a, TRUE)
    BY <2>1
  <2> QED BY <2>2, StoreOther, StoreSsh
<1>2. CASE ~ok
  <2>1. /\ todo[a] # << >> /\ todo' = [todo EXCEPT ![a] = Tail(@)] /\ clock' = clock
        /\ UNCHANGED <<ring, written, stored, sessions, resumed, view, file, scene>>
    BY <1>2 DEF Store, Spend
  <2>2. /\ todo' \in [Actors -> Seq(Evidence)] /\ TodoOK'
        /\ \A b \in Actors : Pending(b)' => b # a /\ Pending(b) /\ todo'[b] = todo[b]
    BY <2>1, Popped
  <2>3. clock \in 0 .. MaxTime /\ clock <= clock'
    BY <2>1, EvidenceAssumption DEF EvidenceInv, Types
  <2>4. Calm
    BY <2>1, <2>2, <2>3 DEF Calm
  <2> QED BY <2>2, <2>4, CalmInv
<1> QED BY <1>1, <1>2

----------------------------------------------------------------------------
(* What is lost *)

\* Fewer records are in the logs.
LEMMA FewerRecords ==
  ASSUME EvidenceInv, ring' \in [Logs -> SUBSET Evidence], file' \in [Logs -> SUBSET Evidence],
         \A log \in Logs : ring'[log] \subseteq Kept(log) /\ file'[log] \subseteq Kept(log),
         UNCHANGED <<clock, written>>, \A a \in Actors : Pending(a)' => Pending(a) /\ todo'[a] = todo[a]
  PROVE  LogsOK' /\ \A log \in Logs : IsFiniteSet(ring'[log]) /\ IsFiniteSet(file'[log])
<1>1. \A log \in Logs : Kept(log)' \subseteq Kept(log)
  BY DEF Kept
<1>2. LogsOK'
  BY <1>1 DEF EvidenceInv, LogsOK
<1>3. ASSUME NEW log \in Logs PROVE IsFiniteSet(ring'[log]) /\ IsFiniteSet(file'[log])
  <2>1. IsFiniteSet(ring[log]) /\ IsFiniteSet(file[log])
    BY DEF EvidenceInv, Types
  <2>2. IsFiniteSet(Kept(log))
    BY <2>1, FS_Union DEF Kept
  <2> QED BY <2>2, FS_Subset
<1> QED BY <1>2, <1>3

\* The row that a ring drops was stored before the others.
LEMMA DisplaceInv == ASSUME EvidenceInv, NEW log \in Logs, Displace(log) PROVE EvidenceInv'
<1>1. /\ ring' = [ring EXCEPT ![log] = {e \in @ : \E d \in @ : d.n < e.n}]
      /\ UNCHANGED <<clock, todo, file, written, sessions, view, stored, resumed, scene>>
  BY DEF Displace, Spend
<1>2. ring \in [Logs -> SUBSET Evidence] /\ file \in [Logs -> SUBSET Evidence]
  BY DEF EvidenceInv, Types
<1>3. /\ ring' \in [Logs -> SUBSET Evidence] /\ \A l \in Logs : ring'[l] \subseteq ring[l]
      /\ \A l \in Logs : l # log => ring'[l] = ring[l]
      /\ ring'[log] = {e \in ring[log] : \E d \in ring[log] : d.n < e.n}
  BY <1>1, <1>2
<1>4. LogsOK' /\ \A l \in Logs : IsFiniteSet(ring'[l]) /\ IsFiniteSet(file'[l])
  <2>1. \A l \in Logs : ring'[l] \subseteq Kept(l) /\ file'[l] \subseteq Kept(l)
    BY <1>1, <1>3 DEF Kept
  <2>2. \A a \in Actors : Pending(a)' => Pending(a) /\ todo'[a] = todo[a]
    BY <1>1 DEF Pending
  <2>3. file' \in [Logs -> SUBSET Evidence] /\ UNCHANGED <<clock, written>>
    BY <1>1, <1>2
  <2> QED BY <1>3, <2>1, <2>2, <2>3, FewerRecords
<1>5. Types'
  BY <1>1, <1>3, <1>4 DEF EvidenceInv, Types
<1>6. (TodoOK /\ StoredOK /\ FirstOK /\ ViewOK /\ TranscriptWhole)'
  BY <1>1 DEF EvidenceInv, TodoOK, StoredOK, FirstOK, ViewOK, TranscriptWhole, Pending
<1>7. Suffix'
  <2>0. "ssh" \in Logs /\ stored' = stored
    BY <1>1 DEF Logs
  <2>1. CASE log # "ssh"
    BY <1>3, <2>0, <2>1 DEF EvidenceInv, Suffix
  <2>2. CASE log = "ssh"
    <3> SUFFICES ASSUME NEW r \in ring'["ssh"], NEW e \in stored[r.sid], r.n <= e.n
                 PROVE  r \in stored[r.sid] /\ e \in ring'["ssh"]
      BY <1>3, <2>0 DEF EvidenceInv, Suffix
    <3>1. r \in ring["ssh"] /\ \E d \in ring["ssh"] : d.n < r.n
      BY <1>3, <2>2
    <3>2. r \in stored[r.sid] /\ e \in ring["ssh"]
      BY <3>1 DEF EvidenceInv, Suffix
    <3>3. PICK d \in ring["ssh"] : d.n < r.n
      BY <3>1
    <3>4. d.n \in Nat /\ r.n \in Nat /\ e.n \in Nat
      <4>1. d \in Evidence /\ r \in Evidence /\ e \in Evidence
        BY <1>2, <2>0, <3>1, <3>2
      <4> QED BY <4>1, EvidenceFields
    <3>5. d.n < e.n
      BY ONLY <3>3, <3>4, r.n <= e.n
    <3> QED BY <1>3, <2>2, <3>2, <3>5
  <2> QED BY <2>1, <2>2
<1> QED BY <1>4, <1>5, <1>6, <1>7 DEF EvidenceInv

\* A session that is removed from memory leaves its rows.
LEMMA ForgetInv == ASSUME EvidenceInv, NEW sid \in Sids, Forget(sid) PROVE EvidenceInv'
<1>1. /\ sessions' = [s \in DOMAIN sessions \ {sid} |-> sessions[s]]
      /\ UNCHANGED <<clock, todo, ring, file, written, view, stored, resumed, scene>>
  BY DEF Forget, Spend
<1>2. DOMAIN sessions' \subseteq DOMAIN sessions /\ \A s \in DOMAIN sessions' : sessions'[s] = sessions[s]
  BY <1>1
<1>3. Types' /\ FirstOK'
  BY <1>1, <1>2 DEF EvidenceInv, Types, FirstOK, Begun
<1>4. (TodoOK /\ LogsOK)'
  BY <1>1 DEF EvidenceInv, TodoOK, LogsOK, Kept, Pending
<1>5. (StoredOK /\ Suffix)'
  BY <1>1 DEF EvidenceInv, StoredOK, Suffix
<1>6. (ViewOK /\ TranscriptWhole)'
  BY <1>1 DEF EvidenceInv, ViewOK, TranscriptWhole
<1> QED BY <1>3, <1>4, <1>5, <1>6 DEF EvidenceInv

\* Retention only removes, and only what is older than it.
LEMMA ExpireInv == ASSUME EvidenceInv, Expire PROVE EvidenceInv'
<1>1. /\ file' = [log \in Logs |-> {e \in file[log] : e.at + Scenes[scene].retention >= clock}]
      /\ UNCHANGED <<clock, todo, ring, written, sessions, view, stored, resumed, scene>>
  BY DEF Expire
<1>2. ring \in [Logs -> SUBSET Evidence] /\ file \in [Logs -> SUBSET Evidence]
  BY DEF EvidenceInv, Types
<1>3. file' \in [Logs -> SUBSET Evidence] /\ \A log \in Logs : file'[log] \subseteq file[log]
  BY <1>1, <1>2
<1>4. LogsOK' /\ \A l \in Logs : IsFiniteSet(ring'[l]) /\ IsFiniteSet(file'[l])
  <2>1. \A l \in Logs : ring'[l] \subseteq Kept(l) /\ file'[l] \subseteq Kept(l)
    BY <1>1, <1>3 DEF Kept
  <2>2. \A a \in Actors : Pending(a)' => Pending(a) /\ todo'[a] = todo[a]
    BY <1>1 DEF Pending
  <2>3. ring' \in [Logs -> SUBSET Evidence] /\ UNCHANGED <<clock, written>>
    BY <1>1, <1>2
  <2> QED BY <1>3, <2>1, <2>2, <2>3, FewerRecords
<1>5. Types'
  BY <1>1, <1>3, <1>4 DEF EvidenceInv, Types
<1>6. StoredOK'
  <2>1. file'["ssh"] = {e \in file["ssh"] : e.at + Scenes[scene].retention >= clock}
    BY <1>1 DEF Logs
  <2> QED BY <1>1, <2>1 DEF EvidenceInv, StoredOK
<1>7. (TodoOK /\ Suffix /\ FirstOK)'
  BY <1>1 DEF EvidenceInv, TodoOK, Suffix, FirstOK, Pending
<1>8. (ViewOK /\ TranscriptWhole)'
  BY <1>1 DEF EvidenceInv, ViewOK, TranscriptWhole
<1> QED BY <1>4, <1>5, <1>6, <1>7, <1>8 DEF EvidenceInv

\* A restart takes the files for what there was.
LEMMA RestartInv ==
  ASSUME EvidenceInv, NEW sid \in Sids, NEW cut \in 0 .. written, Restart(sid, cut) PROVE EvidenceInv'
<1> DEFINE kept == [s \in Sids |-> {e \in stored'[s] : s = sid => e.n > cut}]
<1>1. /\ todo' = [a \in Actors |-> << >>] /\ view' = NoView /\ ring' = file
      /\ stored' = [s \in Sids |-> Of(file["ssh"], s)]
      /\ UNCHANGED <<clock, file, written, scene>>
  BY DEF Restart, Spend
<1>2. /\ sessions' = [s \in {t \in Sids : kept[t] # {}} |-> Rebuilt(kept[s])]
      /\ resumed' = {s \in DOMAIN sessions' : kept[s] # stored'[s]}
  BY DEF Restart
<1>3. ring \in [Logs -> SUBSET Evidence] /\ file \in [Logs -> SUBSET Evidence] /\ "ssh" \in Logs
  BY DEF EvidenceInv, Types, Logs
<1>4. \A a \in Actors : todo'[a] = << >> /\ ~Pending(a)'
  BY <1>1 DEF Pending
<1>5. LogsOK' /\ \A l \in Logs : IsFiniteSet(ring'[l]) /\ IsFiniteSet(file'[l])
  <2>1. \A l \in Logs : ring'[l] \subseteq Kept(l) /\ file'[l] \subseteq Kept(l)
    BY <1>1 DEF Kept
  <2>2. ring' \in [Logs -> SUBSET Evidence] /\ file' \in [Logs -> SUBSET Evidence]
        /\ UNCHANGED <<clock, written>>
    BY <1>1, <1>3
  <2> QED BY <1>4, <2>1, <2>2, FewerRecords
<1>6. stored' \in [Sids -> SUBSET Evidence] /\ \A s \in Sids : stored'[s] = {e \in file["ssh"] : e.sid = s}
  BY <1>1, <1>3 DEF Of
<1>7. \A s \in Sids : kept[s] \subseteq stored'[s] /\ kept[s] \subseteq Evidence
  BY <1>6
<1>8. DOMAIN sessions' = {t \in Sids : kept[t] # {}}
      /\ \A s \in DOMAIN sessions' : s \in Sids /\ kept[s] # {} /\ sessions'[s] = Rebuilt(kept[s])
  BY <1>2
<1> HIDE DEF kept
<1>9. ASSUME NEW s \in DOMAIN sessions'
      PROVE  Begun(sessions'[s]) /\ \A e \in kept[s] : sessions'[s].first <= e.at
  <2> DEFINE ats == {e.at : e \in kept[s]}
  <2>1. ats \in SUBSET Nat /\ ats # {}
    BY <1>7, <1>8, EvidenceFields
  <2>2. "first" \in DOMAIN Rebuilt(kept[s]) /\ Rebuilt(kept[s]).first = Min(ats)
    BY DEF Rebuilt
  <2>3. \A e \in kept[s] : e.at \in ats
    OBVIOUS
  <2> HIDE DEF ats
  <2>4. Min(ats) \in ats /\ \A x \in ats : Min(ats) <= x
    BY <2>1, MinOf
  <2>5. sessions'[s] = Rebuilt(kept[s])
    BY <1>8
  <2> QED BY <2>1, <2>2, <2>3, <2>4, <2>5 DEF Begun
<1>10. Types'
  <2>1. todo' \in [Actors -> Seq(Evidence)]
    BY <1>1
  <2>2. ring' \in [Logs -> SUBSET Evidence] /\ file' \in [Logs -> SUBSET Evidence]
    BY <1>1, <1>3
  <2>3. DOMAIN sessions' \subseteq Sids /\ \A s \in DOMAIN sessions' : Begun(sessions'[s])
    BY <1>8, <1>9
  <2>4. clock' \in 0 .. MaxTime /\ scene' \in DOMAIN Scenes /\ written' \in Nat
    BY <1>1 DEF EvidenceInv, Types
  <2> QED BY <1>5, <1>6, <2>1, <2>2, <2>3, <2>4 DEF Types, Begun
<1>11. TodoOK'
  BY <1>4 DEF TodoOK
<1>12. StoredOK'
  <2>1. \A e \in file["ssh"] : e.n \in 1 .. written
    BY <1>3 DEF EvidenceInv, LogsOK, Kept
  <2> QED BY <1>1, <1>6, <2>1 DEF StoredOK
<1>13. Suffix'
  <2>1. \A e \in file["ssh"] : e.sid \in Sids
    BY <1>3 DEF EvidenceInv, LogsOK, Kept
  <2> QED BY <1>1, <1>6, <2>1 DEF Suffix
<1>14. FirstOK'
  BY <1>2, <1>9 DEF FirstOK
<1>15. (ViewOK /\ TranscriptWhole)'
  BY <1>1 DEF NoView, ViewOK, TranscriptWhole
<1> QED BY <1>5, <1>10, <1>11, <1>12, <1>13, <1>14, <1>15 DEF EvidenceInv

----------------------------------------------------------------------------
(* The two halves of a view *)

\* Only the view changes.
Looking == UNCHANGED <<clock, todo, ring, file, written, sessions, stored, resumed, scene>>

LEMMA LookingInv == ASSUME EvidenceInv, Looking, ViewOK', TranscriptWhole' PROVE EvidenceInv'
<1>1. (Types /\ FirstOK)'
  BY DEF EvidenceInv, Types, FirstOK, Looking, Begun
<1>2. (TodoOK /\ LogsOK)'
  BY DEF EvidenceInv, TodoOK, LogsOK, Kept, Pending, Looking
<1>3. (StoredOK /\ Suffix)'
  BY DEF EvidenceInv, StoredOK, Suffix, Looking
<1> QED BY <1>1, <1>2, <1>3 DEF EvidenceInv

LEMMA BeginViewInv == ASSUME EvidenceInv, NEW sid \in Sids, BeginView(sid) PROVE EvidenceInv'
<1>1. /\ view'.stage = "memory" /\ view'.sid = sid /\ view'.rows = Of(ring["ssh"], sid)
      /\ view'.due = stored[sid]
      /\ view'.session = IF sid \in DOMAIN sessions THEN {sessions[sid]} ELSE {}
  BY DEF BeginView
<1>2. Looking
  BY DEF BeginView, Spend, Looking
<1>3. stored' = stored /\ resumed' = resumed
  BY <1>2 DEF Looking
<1>4. Of(ring["ssh"], sid) \subseteq stored[sid]
  BY DEF EvidenceInv, Suffix, Of
<1>5. ASSUME NEW r \in Of(ring["ssh"], sid), NEW e \in stored[sid], r.n <= e.n
      PROVE  e \in Of(ring["ssh"], sid)
  <2>1. e \in ring["ssh"]
    BY <1>5 DEF Of, EvidenceInv, Suffix
  <2>2. e.sid = sid
    BY DEF EvidenceInv, StoredOK
  <2> QED BY <2>1, <2>2 DEF Of
<1>6. \A ss \in view'.session : Begun(ss) /\ (sid \notin resumed => \A e \in stored[sid] : ss.first <= e.at)
  BY <1>1 DEF EvidenceInv, Types, FirstOK
<1>7. ViewOK'
  <2>1. view'.stage \in {"none", "memory", "shown"} /\ view'.sid \in Sids /\ view'.due \subseteq stored'[view'.sid]
    BY <1>1, <1>3
  <2>2. /\ view'.rows \subseteq view'.due
        /\ \A r \in view'.rows : \A e \in view'.due : r.n <= e.n => e \in view'.rows
    BY <1>1, <1>4, <1>5
  <2>3. \A ss \in view'.session :
          Begun(ss) /\ (view'.sid \notin resumed' => \A e \in view'.due : ss.first <= e.at)
    BY <1>1, <1>3, <1>6
  <2> QED BY <2>1, <2>2, <2>3 DEF ViewOK
<1>8. TranscriptWhole'
  BY <1>1 DEF TranscriptWhole
<1> QED BY <1>2, <1>7, <1>8, LookingInv

\* A transcript that memory has in full begins with the session.
LEMMA FromMemoryWhole ==
  ASSUME EvidenceInv, view.stage = "memory", FromMemory(view), view.rows # {}, view.sid \notin resumed,
         HasFirst(view.due)
  PROVE  view.due \subseteq view.rows
<1>1. /\ view.sid \in Sids /\ view.due \subseteq stored[view.sid] /\ view.rows \subseteq view.due
      /\ \A r \in view.rows : \A e \in view.due : r.n <= e.n => e \in view.rows
      /\ \A ss \in view.session : Begun(ss) /\ \A e \in view.due : ss.first <= e.at
  BY DEF EvidenceInv, ViewOK
<1>2. PICK ss \in view.session : sshTranscriptComplete(ss, view.rows)
  BY DEF FromMemory
<1>3. PICK c \in view.due : \A e \in view.due \ {c} : c.at < e.at /\ c.n < e.n
  BY DEF HasFirst
<1>4. view.due \subseteq Evidence
  BY <1>1 DEF EvidenceInv, Types
<1> DEFINE ats == {e.at : e \in view.rows}
<1>5. Min(ats) <= ss.first
  BY <1>2 DEF sshTranscriptComplete
<1>6. ats \in SUBSET Nat /\ ats # {}
  BY <1>1, <1>4, EvidenceFields
<1>7. Min(ats) \in ats
  BY <1>6, MinOf
<1>8. PICK r \in view.rows : r.at = Min(ats)
  BY <1>7
<1> HIDE DEF ats
<1>9. r = c
  <2>1. r \in view.due /\ ss.first <= c.at /\ ss.first \in Nat
    BY <1>1, <1>3 DEF Begun
  <2>2. r.at \in Nat /\ c.at \in Nat
    BY <1>4, <2>1, EvidenceFields
  <2>3. ~(c.at < r.at)
    BY ONLY <1>5, <1>8, <2>1, <2>2
  <2> QED BY <1>3, <2>1, <2>3
<1>10. ASSUME NEW e \in view.due PROVE e \in view.rows
  <2>1. r.n \in Nat /\ e.n \in Nat
    BY <1>1, <1>4, EvidenceFields
  <2>2. e = c \/ r.n < e.n
    BY <1>3, <1>9
  <2>3. e = c \/ r.n <= e.n
    BY ONLY <2>1, <2>2
  <2> QED BY <1>1, <1>9, <2>3
<1> QED BY <1>10

LEMMA EndViewInv ==
  ASSUME EvidenceInv, NEW logs \in SUBSET {"ssh", "intel"}, EndView(logs) PROVE EvidenceInv'
<1> DEFINE disk == Of(Readable(logs, "ssh"), view.sid)
           status1 == IF view.rows = {} THEN "expired" ELSE "memory"
           status2 == IF sshTranscriptComplete(Rebuilt(disk), disk) THEN "retained" ELSE "partial"
           status3 == IF view.rows = {} THEN "expired" ELSE "partial"
           young == {e \in view.due : e.at + Scenes[scene].retention >= clock}
<1>1. Looking
  BY DEF EndView, Looking, Free, Spend
<1>2. stored' = stored /\ resumed' = resumed /\ file' = file /\ clock' = clock /\ scene' = scene
  BY <1>1 DEF Looking
<1>3. view.stage = "memory" /\ view.sid \in Sids /\ view.due \subseteq stored[view.sid]
  BY DEF EndView, EvidenceInv, ViewOK
<1>4. ASSUME NEW st, NEW rows
      PROVE  LET w == Shown(view, logs, st, rows) IN
             w.stage = "shown" /\ w.sid = view.sid /\ w.due = view.due /\ w.rows = rows /\ w.status = st
  BY DEF Shown
<1>5. ASSUME NEW st, NEW rows, view' = Shown(view, logs, st, rows),
             (st = "memory" /\ view.sid \notin resumed /\ HasFirst(view.due)) => view.due \subseteq rows,
             st = "retained" => young \subseteq rows
      PROVE  ViewOK' /\ TranscriptWhole'
  <2>1. view'.stage = "shown" /\ view'.sid = view.sid /\ view'.due = view.due /\ view'.rows = rows
        /\ view'.status = st
    BY <1>4, <1>5
  <2>2. ViewOK'
    BY <1>2, <1>3, <2>1 DEF ViewOK
  <2>3. TranscriptWhole'
    BY <1>2, <1>5, <2>1 DEF TranscriptWhole, HasFirst
  <2> QED BY <2>2, <2>3
<1>6. CASE FromMemory(view)
  <2>1. view' = Shown(view, logs, status1, view.rows)
    BY <1>6 DEF EndView
  <2>2. (status1 = "memory" /\ view.sid \notin resumed /\ HasFirst(view.due)) => view.due \subseteq view.rows
    BY <1>3, <1>6, FromMemoryWhole
  <2>3. status1 # "retained"
    OBVIOUS
  <2> HIDE DEF status1, young
  <2> QED BY <1>1, <1>5, <2>1, <2>2, <2>3, LookingInv
<1>7. CASE ~FromMemory(view) /\ disk # {}
  <2>1. view' = Shown(view, logs, status2, disk)
    BY <1>7 DEF EndView
  <2>2. status2 # "memory"
    OBVIOUS
  <2>3. young \subseteq disk
    <3>1. Readable(logs, "ssh") = file["ssh"]
      BY <1>7 DEF Readable, Of
    <3>2. \A e \in young : e.sid = view.sid /\ e \in file["ssh"]
      BY <1>3 DEF EvidenceInv, StoredOK
    <3> QED BY <3>1, <3>2 DEF Of
  <2> HIDE DEF status2, disk, young
  <2> QED BY <1>1, <1>5, <2>1, <2>2, <2>3, LookingInv
<1>8. CASE ~FromMemory(view) /\ ~(disk # {})
  <2>1. view' = IF view.session = {} THEN NoView ELSE Shown(view, logs, status3, view.rows)
    BY <1>8 DEF EndView
  <2>2. status3 # "memory" /\ status3 # "retained"
    OBVIOUS
  <2> HIDE DEF status3, young
  <2>3. CASE view' = NoView
    <3>1. ViewOK' /\ TranscriptWhole'
      BY <2>3 DEF NoView, ViewOK, TranscriptWhole
    <3> QED BY <1>1, <3>1, LookingInv
  <2>4. CASE view' = Shown(view, logs, status3, view.rows)
    BY <1>1, <1>5, <2>2, <2>4, LookingInv
  <2> QED BY <2>1, <2>3, <2>4
<1> QED BY <1>6, <1>7, <1>8

LEMMA CloseViewInv == ASSUME EvidenceInv, CloseView PROVE EvidenceInv'
<1>1. Looking /\ view' = NoView
  BY DEF CloseView, Looking
<1>2. ViewOK' /\ TranscriptWhole'
  BY <1>1 DEF NoView, ViewOK, TranscriptWhole
<1> QED BY <1>1, <1>2, LookingInv

LEMMA EvidenceInit == ASSUME Init PROVE EvidenceInv
<1>1. /\ clock = 0 /\ todo = [a \in Actors |-> << >>] /\ ring = [log \in Logs |-> {}]
      /\ file = [log \in Logs |-> {}] /\ written = 0 /\ sessions = << >> /\ view = NoView
      /\ scene \in DOMAIN Scenes /\ stored = [s \in Sids |-> {}]
  BY DEF Init
<1>2. DOMAIN sessions = {} /\ \A log \in Logs : ring[log] = {} /\ file[log] = {} /\ Kept(log) = {}
  BY <1>1 DEF Kept
<1>3. \A a \in Actors : todo[a] = << >> /\ ~Pending(a)
  BY <1>1 DEF Pending
<1>4. clock \in 0 .. MaxTime
  BY <1>1, EvidenceAssumption
<1>5. Types
  <2>1. \A log \in Logs : IsFiniteSet(ring[log]) /\ IsFiniteSet(file[log])
    BY <1>2, FS_EmptySet
  <2> QED BY <1>1, <1>2, <1>4, <2>1 DEF Types
<1>6. TodoOK /\ LogsOK
  BY <1>2, <1>3 DEF TodoOK, LogsOK
<1>7. StoredOK /\ FirstOK
  BY <1>1, <1>2 DEF StoredOK, FirstOK
<1>8. Suffix
  BY <1>2 DEF Suffix, Logs
<1>9. ViewOK /\ TranscriptWhole
  BY <1>1 DEF ViewOK, TranscriptWhole, NoView
<1> QED BY <1>5, <1>6, <1>7, <1>8, <1>9 DEF EvidenceInv

LEMMA EvidenceNext == ASSUME EvidenceInv, [Next]_vars PROVE EvidenceInv'
<1>1. CASE Next
  <2>1. ASSUME NEW a \in Actors, NEW script \in Scenes[scene].scripts[a], Begin(a, script)
        PROVE  EvidenceInv'
    BY <2>1, BeginInv
  <2>2. ASSUME NEW a \in Actors, Stamp(a) PROVE EvidenceInv'
    BY <2>2, StampInv
  <2>3. ASSUME NEW a \in Actors, NEW ok \in BOOLEAN, Store(a, ok) PROVE EvidenceInv'
    BY <2>3, StoreInv
  <2>4. ASSUME NEW log \in Logs, Displace(log) PROVE EvidenceInv'
    BY <2>4, DisplaceInv
  <2>5. ASSUME NEW s \in Sids, Forget(s) PROVE EvidenceInv'
    BY <2>5, ForgetInv
  <2>6. ASSUME NEW s \in Sids, BeginView(s) PROVE EvidenceInv'
    BY <2>6, BeginViewInv
  <2>7. ASSUME NEW s \in Sids, NEW cut \in 0 .. written, Restart(s, cut) PROVE EvidenceInv'
    BY <2>7, RestartInv
  <2>8. ASSUME Expire PROVE EvidenceInv'
    BY <2>8, ExpireInv
  <2>9. ASSUME NEW logs \in SUBSET {"ssh", "intel"}, EndView(logs) PROVE EvidenceInv'
    BY <2>9, EndViewInv
  <2>10. ASSUME CloseView PROVE EvidenceInv'
    BY <2>10, CloseViewInv
  <2> QED BY <1>1, <2>1, <2>2, <2>3, <2>4, <2>5, <2>6, <2>7, <2>8, <2>9, <2>10 DEF Next
<1>2. CASE UNCHANGED vars
  <2>1. Looking /\ view' = view
    BY <1>2 DEF vars, Looking
  <2>2. ViewOK' /\ TranscriptWhole'
    BY <2>1 DEF EvidenceInv, ViewOK, TranscriptWhole, Looking
  <2> QED BY <2>1, <2>2, LookingInv
<1> QED BY <1>1, <1>2

\* The evidence stays in order in every interleaving of the goroutines, with failed
\* writes, restarts, retention and views: a stamp and a place name one record, in all
\* of the logs and among what is still to be stored; retention takes nothing young; the
\* SSH ring has of every session the records that were stored last, whatever their
\* stamps; a session that was not removed begins no later than any record of it; and a
\* view between its two halves has of its records whatever was stored after one that
\* it has.
THEOREM EvidenceInvariant == Spec => []EvidenceInv
<1>1. Init => EvidenceInv
  BY EvidenceInit
<1>2. EvidenceInv /\ [Next]_vars => EvidenceInv'
  BY EvidenceNext
<1> QED BY <1>1, <1>2, PTL DEF Spec

\* Memory and disk (sshSessionEvidence, sshTranscriptComplete): a transcript that memory
\* calls whole has every record of the session from its connect record on, but for what
\* retention took before the process started; a retained one has what is within retention.
THEOREM TranscriptsWhole == Spec => []TranscriptWhole
<1>1. EvidenceInv => TranscriptWhole
  BY DEF EvidenceInv
<1> QED BY <1>1, EvidenceInvariant, PTL

----------------------------------------------------------------------------
(* Sorting by stamp *)

\* Finitely many records with stamps of their own.
Stamped(S) == /\ IsFiniteSet(S) /\ \A e \in S : e.at \in Nat
              /\ \A d, e \in S : d.at = e.at => d = e

\* The records of S by their stamps, at the positions 1 .. n.
Ordered(q, n, S) ==
  /\ n \in Nat /\ DOMAIN q = 1 .. n
  /\ \A i \in 1 .. n : q[i] \in S /\ q[i].at \in Nat
  /\ \A e \in S : \E i \in 1 .. n : q[i] = e
  /\ \A i, j \in 1 .. n : i < j => q[i].at < q[j].at

Rank(S, e) == Cardinality({d \in S : d.at < e.at})

\* The rank of a record is smaller than the number of records, and grows with the stamp.
LEMMA Ranks ==
  ASSUME NEW S, Stamped(S), NEW e \in S
  PROVE  /\ Rank(S, e) \in 0 .. Cardinality(S) - 1
         /\ \A c \in S : c.at < e.at => Rank(S, c) < Rank(S, e)
<1> DEFINE R(x) == {d \in S : d.at < x.at}
<1>1. IsFiniteSet(S) /\ Cardinality(S) \in Nat /\ \A d \in S : d.at \in Nat
  BY FS_CardinalityType DEF Stamped
<1>2. \A x : IsFiniteSet(R(x)) /\ Cardinality(R(x)) \in Nat /\ Cardinality(R(x)) <= Cardinality(S)
             /\ (Cardinality(S) = Cardinality(R(x)) => S = R(x))
  <2> SUFFICES ASSUME NEW x
               PROVE  IsFiniteSet(R(x)) /\ Cardinality(R(x)) \in Nat /\ Cardinality(R(x)) <= Cardinality(S)
                      /\ (Cardinality(S) = Cardinality(R(x)) => S = R(x))
    OBVIOUS
  <2>1. R(x) \in SUBSET S
    OBVIOUS
  <2> HIDE DEF R
  <2> QED BY <1>1, <2>1, FS_Subset, FS_CardinalityType
<1>3. e \notin R(e)
  BY <1>1
<1>4. ASSUME NEW c \in S, c.at < e.at PROVE Cardinality(R(c)) < Cardinality(R(e))
  <2>1. R(c) \cup {c} \subseteq R(e)
    BY <1>1, <1>4
  <2>2. c \notin R(c)
    BY <1>1
  <2> HIDE DEF R
  <2>3. IsFiniteSet(R(c) \cup {c}) /\ Cardinality(R(c) \cup {c}) = Cardinality(R(c)) + 1
    BY <1>2, <2>2, FS_AddElement
  <2>4. Cardinality(R(c) \cup {c}) <= Cardinality(R(e))
    BY <1>2, <2>1, FS_Subset
  <2>5. Cardinality(R(c)) \in Nat /\ Cardinality(R(e)) \in Nat
    BY <1>2
  <2> QED BY <2>3, <2>4, <2>5
<1>5. \A x : Rank(S, x) = Cardinality(R(x))
  BY DEF Rank
<1> HIDE DEF R
<1>6. Cardinality(R(e)) # Cardinality(S)
  BY <1>2, <1>3
<1>7. Cardinality(R(e)) \in 0 .. Cardinality(S) - 1
  BY <1>1, <1>2, <1>6
<1> QED BY <1>4, <1>5, <1>7

\* chronological lists every record once, in the order of the stamps: the ranks of n records
\* are all of 0 .. n - 1.
LEMMA SortedInOrder == ASSUME NEW S, Stamped(S) PROVE Ordered(chronological(S), Cardinality(S), S)
<1> DEFINE n == Cardinality(S)
           q == chronological(S)
<1>1. IsFiniteSet(S) /\ n \in Nat /\ \A e \in S : e.at \in Nat
  BY FS_CardinalityType DEF Stamped
<1>2. \A e \in S : Rank(S, e) \in 0 .. n - 1
  BY Ranks
<1>3. \A c, e \in S : c.at < e.at => Rank(S, c) < Rank(S, e)
  BY Ranks
<1>4. \A c, e \in S : Rank(S, c) = Rank(S, e) => c = e
  <2> SUFFICES ASSUME NEW c \in S, NEW e \in S, Rank(S, c) = Rank(S, e) PROVE c = e
    OBVIOUS
  <2>1. Rank(S, c) \in Nat /\ Rank(S, e) \in Nat /\ c.at \in Nat /\ e.at \in Nat
    BY <1>1, <1>2
  <2>2. ~(c.at < e.at) /\ ~(e.at < c.at)
    BY <1>3, <2>1
  <2>3. c.at = e.at
    BY <2>1, <2>2
  <2> QED BY <2>3 DEF Stamped
<1> DEFINE f == [e \in S |-> Rank(S, e)]
<1>5. \A k \in 0 .. n - 1 : \E e \in S : Rank(S, e) = k
  <2>1. f \in Injection(S, 0 .. n - 1)
    BY <1>2, <1>4 DEF Injection, IsInjective
  <2>2. IsFiniteSet(0 .. n - 1) /\ Cardinality(0 .. n - 1) = n
    BY <1>1, FS_Interval
  <2>3. f \in Surjection(S, 0 .. n - 1)
    <3> HIDE DEF f, n
    <3>1. Cardinality(S) = Cardinality(0 .. n - 1)
      BY <2>2 DEF n
    <3> QED BY <2>1, <2>2, <3>1, FS_Injection
  <2> QED BY <2>3 DEF Surjection
<1>6. DOMAIN q = 1 .. n /\ \A i \in 1 .. n : q[i] = CHOOSE e \in S : Rank(S, e) = i - 1
  BY DEF chronological, Rank
<1> HIDE DEF n, q, f
<1>7. ASSUME NEW i \in 1 .. n PROVE q[i] \in S /\ Rank(S, q[i]) = i - 1
  <2>1. i - 1 \in 0 .. n - 1
    BY <1>1
  <2>2. \E e \in S : Rank(S, e) = i - 1
    BY <1>5, <2>1
  <2> QED BY <1>6, <2>2
<1>8. ASSUME NEW e \in S PROVE \E i \in 1 .. n : q[i] = e
  <2>1. Rank(S, e) + 1 \in 1 .. n /\ (Rank(S, e) + 1) - 1 = Rank(S, e)
    BY <1>1, <1>2
  <2>2. q[Rank(S, e) + 1] \in S /\ Rank(S, q[Rank(S, e) + 1]) = Rank(S, e)
    BY <1>7, <2>1
  <2> QED BY <1>4, <2>1, <2>2
<1>9. ASSUME NEW i \in 1 .. n, NEW j \in 1 .. n, i < j PROVE q[i].at < q[j].at
  <2>1. /\ q[i] \in S /\ Rank(S, q[i]) = i - 1 /\ q[i].at \in Nat
        /\ q[j] \in S /\ Rank(S, q[j]) = j - 1 /\ q[j].at \in Nat
    BY <1>1, <1>7
  <2>2. q[i] # q[j]
    BY <1>1, <1>9, <2>1
  <2>3. q[i].at # q[j].at
    BY <2>1, <2>2 DEF Stamped
  <2>4. ~(q[j].at < q[i].at)
    <3>1. q[j].at < q[i].at => j - 1 < i - 1
      BY <1>3, <2>1
    <3> QED BY <1>1, <1>9, <3>1
  <2> QED BY <2>1, <2>3, <2>4
<1>10. Ordered(q, n, S)
  BY <1>1, <1>6, <1>7, <1>8, <1>9 DEF Ordered
<1> QED BY <1>10 DEF n, q

\* The positions of records in order follow from their stamps.
LEMMA OrderedBack ==
  ASSUME NEW q, NEW n, NEW S, Ordered(q, n, S), NEW i \in 1 .. n, NEW j \in 1 .. n
  PROVE  /\ q[i].at < q[j].at => i < j
         /\ q[i].at = q[j].at => i = j
         /\ i <= j => q[i].at <= q[j].at
<1>1. n \in Nat /\ q[i].at \in Nat /\ q[j].at \in Nat
  BY DEF Ordered
<1>2. i < j => q[i].at < q[j].at
  BY DEF Ordered
<1>3. j < i => q[j].at < q[i].at
  BY DEF Ordered
<1> QED BY <1>1, <1>2, <1>3

\* The rows of a ring can be sorted.
LEMMA ChronologicalIsOrdered ==
  ASSUME EvidenceInv, NEW log \in Logs
  PROVE  \E n : Ordered(chronological(ring[log]), n, ring[log])
<1>1. IsFiniteSet(ring[log]) /\ ring[log] \subseteq Evidence
  BY DEF EvidenceInv, Types
<1>2. \A e \in ring[log] : e.at \in Nat
  BY <1>1, EvidenceFields
<1>3. \A d, e \in ring[log] : d.at = e.at => d = e
  BY DEF EvidenceInv, LogsOK, Kept
<1>4. Stamped(ring[log])
  BY <1>1, <1>2, <1>3 DEF Stamped
<1> QED BY <1>4, SortedInOrder

----------------------------------------------------------------------------
(* The scans *)

\* The largest of some positions.
LEMMA MaxOf ==
  ASSUME NEW n \in Nat, NEW T \in SUBSET (0 .. n), T # {}
  PROVE  Max(T) \in T /\ \A x \in T : x <= Max(T)
<1> DEFINE U == {n - x : x \in T}
<1>1. U \in SUBSET Nat /\ U # {}
  <2>1. \A x \in T : n - x \in Nat
    OBVIOUS
  <2> QED BY <2>1
<1>2. Min(U) \in U /\ \A u \in U : Min(U) <= u
  BY <1>1, MinOf
<1>3. PICK m \in T : Min(U) = n - m
  BY <1>2
<1>4. ASSUME NEW x \in T PROVE m >= x
  <2>1. Min(U) <= n - x
    BY <1>2
  <2> HIDE DEF U
  <2>2. x \in Nat /\ m \in Nat
    OBVIOUS
  <2> QED BY ONLY n \in Nat, <1>3, <2>1, <2>2
<1>5. \E m1 \in T : \A x \in T : m1 >= x
  BY <1>4
<1>6. Max(T) \in T /\ \A x \in T : Max(T) >= x
  BY <1>5 DEF Max
<1> QED BY <1>6

\* A scan stops at the latest row that fits, or at 0.
LEMMA Scanned ==
  ASSUME NEW n \in Nat, NEW fit \in SUBSET (1 .. n), NEW stop
  PROVE  LET G == {i \in fit : \A j \in stop : j < i}
             i == LastBefore(fit, stop)
         IN  /\ G = {} => i = 0
             /\ G # {} => i \in G /\ i # 0 /\ \A k \in G : k <= i
<1> DEFINE G == {i \in fit : \A j \in stop : j < i}
           i == LastBefore(fit, stop)
<1>1. i = Max({0} \cup G)
  BY DEF LastBefore
<1>2. G \in SUBSET (1 .. n)
  OBVIOUS
<1> HIDE DEF G, i
<1>3. i \in {0} \cup G /\ \A x \in {0} \cup G : x <= i
  <2>1. {0} \cup G \in SUBSET (0 .. n)
    BY <1>2
  <2> QED BY <1>1, <2>1, MaxOf
<1>4. ASSUME NEW g \in G PROVE i # 0
  <2>1. g \in Nat /\ 1 <= g /\ g <= i
    BY <1>2, <1>3
  <2> QED BY <2>1
<1>5. (G = {} => i = 0) /\ (G # {} => i \in G /\ i # 0 /\ \A k \in G : k <= i)
  BY <1>3, <1>4
<1> QED BY <1>5 DEF G, i

\* The causes of some traces, and the stamps of the latest records.
CausesOf(traces) == {t.cause : t \in traces}
LatestOf(causes) == {c.at : c \in {d \in causes : \A b \in causes : b.at <= d.at}}

\* Where the rows that a scan takes are the causes, it finds the latest of them.
LEMMA LatestFound ==
  ASSUME NEW q, NEW n, NEW S, Ordered(q, n, S), NEW causes \in SUBSET S,
         NEW fit \in SUBSET (1 .. n), NEW stop,
         \A i \in 1 .. n : (i \in fit /\ \A j \in stop : j < i) <=> q[i] \in causes,
         NEW relation, NEW effect, NEW at
  PROVE  CausesOf(Trace(relation, q, LastBefore(fit, stop), effect, at)) = LatestOf(causes)
<1> DEFINE G == {i \in fit : \A j \in stop : j < i}
           m == LastBefore(fit, stop)
           latest == {d \in causes : \A b \in causes : b.at <= d.at}
<1>1. n \in Nat
  BY DEF Ordered
<1>2. (G = {} => m = 0) /\ (G # {} => m \in G /\ m # 0 /\ \A k \in G : k <= m)
  BY <1>1, Scanned
<1>3. \A i \in 1 .. n : i \in G <=> q[i] \in causes
  OBVIOUS
<1>4. G \subseteq 1 .. n
  OBVIOUS
<1>5. \A c \in causes : \E i \in G : q[i] = c
  BY <1>3 DEF Ordered
<1> HIDE DEF G, m
<1>6. CASE G = {}
  <2>1. causes = {} /\ m = 0
    BY <1>2, <1>5, <1>6
  <2>2. Trace(relation, q, m, effect, at) = {}
    BY <2>1 DEF Trace
  <2> QED BY <2>1, <2>2 DEF m, CausesOf, LatestOf
<1>7. CASE G # {}
  <2>1. m \in G /\ m # 0 /\ m \in 1 .. n /\ \A k \in G : k <= m
    BY <1>2, <1>4, <1>7
  <2>2. q[m] \in causes
    BY <1>3, <2>1
  <2>3. ASSUME NEW b \in causes PROVE b.at <= q[m].at
    <3>1. PICK i \in G : q[i] = b
      BY <1>5
    <3>2. i \in 1 .. n /\ i <= m
      BY <1>4, <2>1
    <3> QED BY <2>1, <3>1, <3>2, OrderedBack
  <2>4. ASSUME NEW d \in latest PROVE d.at = q[m].at
    <3>1. d.at <= q[m].at /\ q[m].at <= d.at
      BY <2>2, <2>3
    <3>2. PICK i \in G : q[i] = d
      BY <1>5
    <3>3. d.at \in Nat /\ q[m].at \in Nat
      BY <1>4, <2>1, <3>2 DEF Ordered
    <3> QED BY ONLY <3>1, <3>3
  <2>5. q[m] \in latest
    BY <2>2, <2>3
  <2> HIDE DEF latest
  <2>6. {c.at : c \in latest} = {q[m].at}
    BY <2>4, <2>5
  <2>7. {t.cause : t \in Trace(relation, q, m, effect, at)} = {q[m].at}
    BY <2>1 DEF Trace
  <2> QED BY <2>6, <2>7 DEF m, latest, CausesOf, LatestOf
<1> QED BY <1>6, <1>7

\* A trace names its relation and its effect.
LEMMA TraceFields ==
  ASSUME NEW relation, NEW q, NEW i, NEW effect, NEW at, NEW t \in Trace(relation, q, i, effect, at)
  PROVE  t.relation = relation /\ t.effect = effect.at /\ t.seen = at
BY DEF Trace

\* Differences of stamps.
LEMMA WithinWindow ==
  ASSUME NEW c \in Nat, NEW e \in Nat, NEW w \in Nat
  PROVE  /\ c < e => (e - c <= w <=> ~(e - c > w))
         /\ (e - c <= w) <=> ~(c + w < e)
OBVIOUS

LEMMA OlderStops ==
  ASSUME NEW b \in Nat, NEW c \in Nat, NEW e \in Nat, NEW w \in Nat, e - c <= w
  PROVE  /\ e - b > w => b < c
         /\ b + w < e => b < c
OBVIOUS

LEMMA Earlier ==
  ASSUME NEW n \in Nat, NEW k \in 1 .. n, NEW i PROVE i \in 1 .. k - 1 <=> (i \in 1 .. n /\ i < k)
OBVIOUS

\* The baits that a request may have followed.
FollowedBaits(S, e) == {c \in S : e.ref # "" /\ Leads(c, e) /\ c.at < e.at
                                  /\ e.at - c.at <= ReferrerWindow}

\* The referrer of a request: the latest bait of its session within ten minutes.
LEMMA ReferrerFound ==
  ASSUME NEW q, NEW n, NEW S, Ordered(q, n, S), NEW k \in 1 .. n
  PROVE  CausesOf(referrerTrace(q, k)) = LatestOf(FollowedBaits(S, q[k]))
<1> DEFINE e == q[k]
           fit == {j \in 1 .. k - 1 : Leads(q[j], e)}
           stop == {j \in 1 .. k - 1 : e.at - q[j].at > ReferrerWindow}
           causes == FollowedBaits(S, e)
<1>1. n \in Nat /\ ReferrerWindow \in Nat /\ \A i \in 1 .. n : q[i].at \in Nat /\ q[i] \in S
  BY EvidenceAssumption DEF Ordered
<1>2. \A i : i \in 1 .. k - 1 <=> (i \in 1 .. n /\ i < k)
  BY <1>1, Earlier
<1>3. CASE e.ref = ""
  <2>1. referrerTrace(q, k) = {}
    BY <1>3 DEF referrerTrace
  <2>2. causes = {}
    BY <1>3 DEF FollowedBaits
  <2> QED BY <2>1, <2>2 DEF CausesOf, LatestOf
<1>4. CASE e.ref # ""
  <2>1. referrerTrace(q, k) = Trace("referrer-follow", q, LastBefore(fit, stop), e, e.at)
    BY <1>4 DEF referrerTrace
  <2>2. /\ \A i : i \in fit <=> (i \in 1 .. n /\ i < k /\ Leads(q[i], e))
        /\ \A i : i \in stop <=> (i \in 1 .. n /\ i < k /\ e.at - q[i].at > ReferrerWindow)
    BY <1>2
  <2>3. \A i \in 1 .. n : q[i] \in causes <=> /\ Leads(q[i], e) /\ q[i].at < e.at
                                             /\ e.at - q[i].at <= ReferrerWindow
    BY <1>1, <1>4 DEF FollowedBaits
  <2>4. e.at \in Nat /\ causes \in SUBSET S
    BY <1>1 DEF FollowedBaits
  <2> HIDE DEF fit, stop, causes
  <2>5. \A i \in 1 .. n : i < k <=> q[i].at < e.at
    BY OrderedBack DEF Ordered
  <2> HIDE DEF e
  <2>6. ASSUME NEW i \in 1 .. n PROVE (i \in fit /\ \A j \in stop : j < i) <=> q[i] \in causes
    <3>1. q[i].at \in Nat
      BY <1>1
    <3>2. ASSUME i \in fit, \A j \in stop : j < i PROVE q[i] \in causes
      <4>1. i \notin stop
        BY <3>2
      <4>2. q[i].at < e.at /\ ~(e.at - q[i].at > ReferrerWindow)
        BY <2>2, <2>5, <3>2, <4>1
      <4>3. e.at - q[i].at <= ReferrerWindow
        BY ONLY <1>1, <2>4, <3>1, <4>2, WithinWindow
      <4> QED BY <2>2, <2>3, <3>2, <4>2, <4>3
    <3>3. ASSUME q[i] \in causes, NEW j \in stop PROVE j < i
      <4>1. e.at - q[i].at <= ReferrerWindow /\ e.at - q[j].at > ReferrerWindow /\ j \in 1 .. n
        BY <2>2, <2>3, <3>3
      <4>2. q[j].at \in Nat
        BY <1>1, <4>1
      <4>3. q[j].at < q[i].at
        BY ONLY <1>1, <2>4, <3>1, <4>1, <4>2, OlderStops
      <4> QED BY <4>1, <4>3, OrderedBack
    <3>4. q[i] \in causes => i \in fit
      BY <2>2, <2>3, <2>5
    <3> QED BY <3>2, <3>3, <3>4
  <2>7. fit \in SUBSET (1 .. n)
    BY <2>2
  <2>8. CausesOf(Trace("referrer-follow", q, LastBefore(fit, stop), e, e.at)) = LatestOf(causes)
    BY <2>4, <2>6, <2>7, LatestFound
  <2> QED BY <2>1, <2>8 DEF e, causes
<1> QED BY <1>3, <1>4

\* The responses that may have served the canary of a signal.
ServedCanaries(S, sig) == {c \in S : sig.kind = "canary" /\ sig.label \in c.canaries
                                     /\ c.at < sig.at /\ sig.at - c.at <= Day}

\* A canary in an SSH command: the latest response within a day that served it.
LEMMA CanaryFound ==
  ASSUME NEW q, NEW n, NEW S, Ordered(q, n, S), NEW sshs, NEW sig, sig.at \in Nat,
         \A c \in S : c.at # sig.at
  PROVE  CausesOf(canaryTrace(q, sshs, sig)) = LatestOf(ServedCanaries(S, sig))
<1> DEFINE fit == {j \in DOMAIN q : q[j].at <= sig.at /\ sig.label \in q[j].canaries}
           stop == {j \in DOMAIN q : q[j].at + Day < sig.at}
           causes == ServedCanaries(S, sig)
           at == canaryEffect(sshs, sig)
<1>1. n \in Nat /\ Day \in Nat /\ DOMAIN q = 1 .. n /\ \A i \in 1 .. n : q[i].at \in Nat /\ q[i] \in S
  BY EvidenceAssumption DEF Ordered
<1>2. CASE sig.kind # "canary"
  <2>1. canaryTrace(q, sshs, sig) = {}
    BY <1>2 DEF canaryTrace
  <2>2. causes = {}
    BY <1>2 DEF ServedCanaries
  <2> QED BY <2>1, <2>2 DEF CausesOf, LatestOf
<1>3. CASE sig.kind = "canary"
  <2>1. canaryTrace(q, sshs, sig) = Trace("canary-reuse", q, LastBefore(fit, stop), sig, at)
    BY <1>3 DEF canaryTrace
  <2>2. /\ \A i : i \in fit <=> (i \in 1 .. n /\ q[i].at <= sig.at /\ sig.label \in q[i].canaries)
        /\ \A i : i \in stop <=> (i \in 1 .. n /\ q[i].at + Day < sig.at)
    BY <1>1
  <2>3. \A i \in 1 .. n : q[i] \in causes <=> /\ sig.label \in q[i].canaries /\ q[i].at < sig.at
                                             /\ sig.at - q[i].at <= Day
    BY <1>1, <1>3 DEF ServedCanaries
  <2>4. causes \in SUBSET S
    BY DEF ServedCanaries
  <2> HIDE DEF fit, stop, causes, at
  <2>5. ASSUME NEW i \in 1 .. n PROVE q[i].at <= sig.at <=> q[i].at < sig.at
    <3>1. q[i].at \in Nat /\ q[i].at # sig.at
      BY <1>1
    <3> QED BY <3>1
  <2>6. ASSUME NEW i \in 1 .. n PROVE (i \in fit /\ \A j \in stop : j < i) <=> q[i] \in causes
    <3>1. q[i].at \in Nat
      BY <1>1
    <3>2. (sig.at - q[i].at <= Day) <=> ~(q[i].at + Day < sig.at)
      BY ONLY <1>1, sig.at \in Nat, <3>1, WithinWindow
    <3>3. ASSUME i \in fit, \A j \in stop : j < i PROVE q[i] \in causes
      <4>1. i \notin stop
        BY <3>3
      <4> QED BY <2>2, <2>3, <2>5, <3>2, <3>3, <4>1
    <3>4. ASSUME q[i] \in causes, NEW j \in stop PROVE j < i
      <4>1. sig.at - q[i].at <= Day /\ q[j].at + Day < sig.at /\ j \in 1 .. n
        BY <2>2, <2>3, <3>4
      <4>2. q[j].at \in Nat
        BY <1>1, <4>1
      <4>3. q[j].at < q[i].at
        BY ONLY <1>1, sig.at \in Nat, <3>1, <4>1, <4>2, OlderStops
      <4> QED BY <4>1, <4>3, OrderedBack
    <3>5. q[i] \in causes => i \in fit
      BY <2>2, <2>3, <2>5
    <3> QED BY <3>3, <3>4, <3>5
  <2>7. fit \in SUBSET (1 .. n)
    BY <2>2
  <2>8. CausesOf(Trace("canary-reuse", q, LastBefore(fit, stop), sig, at)) = LatestOf(causes)
    BY <2>4, <2>6, <2>7, LatestFound
  <2> QED BY <2>1, <2>8 DEF causes
<1> QED BY <1>2, <1>3

\* The uploads that an execution may have run.
Uploads(S, e) == {c \in S : e.kind = "execution" /\ IsUpload(c) /\ c.label = e.label
                            /\ c.at < e.at /\ e.at - c.at <= Day}

\* An execution: the latest upload to the same path within a day.
LEMMA PayloadFound ==
  ASSUME NEW q, NEW n, NEW S, Ordered(q, n, S), NEW e \in S, e.at \in Nat,
         \A c \in S : c.at = e.at => c = e
  PROVE  CausesOf(stagedPayloadTrace(q, e)) = LatestOf(Uploads(S, e))
<1> DEFINE same == {j \in DOMAIN q : /\ q[j].at <= e.at /\ q[j].label = e.label
                                      /\ q[j].kind \in {"staging", "execution"}}
           fit == {j \in same : IsUpload(q[j])}
           stop == {j \in same : q[j].at + Day < e.at}
           causes == Uploads(S, e)
<1>1. n \in Nat /\ Day \in Nat /\ DOMAIN q = 1 .. n /\ \A i \in 1 .. n : q[i].at \in Nat /\ q[i] \in S
  BY EvidenceAssumption DEF Ordered
<1>2. CASE e.kind # "execution"
  <2>1. stagedPayloadTrace(q, e) = {}
    BY <1>2 DEF stagedPayloadTrace
  <2>2. causes = {}
    BY <1>2 DEF Uploads
  <2> QED BY <2>1, <2>2 DEF CausesOf, LatestOf
<1>3. CASE e.kind = "execution"
  <2>1. stagedPayloadTrace(q, e) = Trace("staged-payload-execution", q, LastBefore(fit, stop), e, e.at)
    BY <1>3 DEF stagedPayloadTrace
  <2>2. /\ \A i : i \in fit <=> (i \in 1 .. n /\ q[i].at <= e.at /\ q[i].label = e.label /\ IsUpload(q[i]))
        /\ \A i : i \in stop => (i \in 1 .. n /\ q[i].at + Day < e.at)
        /\ \A i \in fit : q[i].at + Day < e.at => i \in stop
    BY <1>1 DEF IsUpload
  <2>3. \A i \in 1 .. n : q[i] \in causes <=> /\ IsUpload(q[i]) /\ q[i].label = e.label
                                             /\ q[i].at < e.at /\ e.at - q[i].at <= Day
    BY <1>1, <1>3 DEF Uploads
  <2>4. causes \in SUBSET S
    BY DEF Uploads
  <2> HIDE DEF fit, stop, causes
  <2>5. ASSUME NEW i \in 1 .. n, IsUpload(q[i]) PROVE q[i].at <= e.at <=> q[i].at < e.at
    <3>1. q[i] # e
      BY <1>3, <2>5 DEF IsUpload
    <3>2. q[i].at \in Nat /\ q[i].at # e.at
      BY <1>1, <3>1
    <3> QED BY <3>2
  <2>6. ASSUME NEW i \in 1 .. n PROVE (i \in fit /\ \A j \in stop : j < i) <=> q[i] \in causes
    <3>1. q[i].at \in Nat
      BY <1>1
    <3>2. (e.at - q[i].at <= Day) <=> ~(q[i].at + Day < e.at)
      BY ONLY <1>1, e.at \in Nat, <3>1, WithinWindow
    <3>3. ASSUME i \in fit, \A j \in stop : j < i PROVE q[i] \in causes
      <4>1. i \notin stop
        BY <3>3
      <4> QED BY <2>2, <2>3, <2>5, <3>2, <3>3, <4>1
    <3>4. ASSUME q[i] \in causes, NEW j \in stop PROVE j < i
      <4>1. e.at - q[i].at <= Day /\ q[j].at + Day < e.at /\ j \in 1 .. n
        BY <2>2, <2>3, <3>4
      <4>2. q[j].at \in Nat
        BY <1>1, <4>1
      <4>3. q[j].at < q[i].at
        BY ONLY <1>1, e.at \in Nat, <3>1, <4>1, <4>2, OlderStops
      <4> QED BY <4>1, <4>3, OrderedBack
    <3>5. q[i] \in causes => i \in fit
      BY <2>2, <2>3, <2>5
    <3> QED BY <3>3, <3>4, <3>5
  <2>7. fit \in SUBSET (1 .. n)
    BY <2>2
  <2>8. CausesOf(Trace("staged-payload-execution", q, LastBefore(fit, stop), e, e.at)) = LatestOf(causes)
    BY <2>4, <2>6, <2>7, LatestFound
  <2> QED BY <2>1, <2>8 DEF causes
<1> QED BY <1>2, <1>3

----------------------------------------------------------------------------
(* All of the traces *)

\* The traces of one relation to one effect.
TracesTo(relation, effect) == {u \in attackTraces(ring) : u.relation = relation /\ u.effect = effect.at}

\* A scan that finds a row takes one that fits and does not stop it.
LEMMA ScanFits ==
  ASSUME NEW n \in Nat, NEW fit \in SUBSET (1 .. n), NEW stop, LastBefore(fit, stop) # 0
  PROVE  LastBefore(fit, stop) \in fit \ stop
<1> DEFINE G == {i \in fit : \A j \in stop : j < i}
           m == LastBefore(fit, stop)
<1>1. (G = {} => m = 0) /\ (G # {} => m \in G /\ m # 0 /\ \A k \in G : k <= m)
  BY Scanned
<1>2. m \in G
  BY <1>1
<1>3. m \in fit /\ m \in 1 .. n /\ \A j \in stop : j < m
  BY <1>2
<1> HIDE DEF m
<1>4. ~(m < m)
  BY <1>3
<1> QED BY <1>3, <1>4 DEF m

\* The moment of a canary's reuse is not long before its signal.
LEMMA CanarySeen ==
  ASSUME NEW q, NEW n, NEW S, Ordered(q, n, S), NEW sig, sig.at \in Nat
  PROVE  canaryEffect(q, sig) \in Nat /\ sig.at <= canaryEffect(q, sig) + EffectBefore
<1> DEFINE near == {j \in DOMAIN q : q[j].sid = sig.sid /\ q[j].at <= sig.at + EffectAfter}
           fit == {j \in near : sig.label \in q[j].canaries}
           stop == {j \in near : q[j].at + EffectBefore < sig.at}
           i == LastBefore(fit, stop)
<1>1. n \in Nat /\ EffectBefore \in Nat /\ DOMAIN q = 1 .. n /\ \A j \in 1 .. n : q[j].at \in Nat
  BY EvidenceAssumption DEF Ordered
<1>2. canaryEffect(q, sig) = IF i = 0 THEN sig.at ELSE q[i].at
  BY DEF canaryEffect
<1>3. fit \in SUBSET (1 .. n) /\ \A j \in fit : j \notin stop => ~(q[j].at + EffectBefore < sig.at)
  BY <1>1
<1> HIDE DEF fit, stop
<1>4. i # 0 => i \in fit \ stop
  BY <1>1, <1>3, ScanFits
<1> HIDE DEF i
<1>5. CASE i = 0
  BY <1>1, <1>2, <1>5
<1>6. CASE i # 0
  <2>1. i \in fit /\ i \notin stop
    BY <1>4, <1>6
  <2>2. i \in 1 .. n
    BY <1>3, <2>1
  <2>3. canaryEffect(q, sig) = q[i].at /\ q[i].at \in Nat /\ ~(q[i].at + EffectBefore < sig.at)
    BY <1>1, <1>2, <1>3, <1>6, <2>1, <2>2
  <2> QED BY <1>1, <2>3
<1> QED BY <1>5, <1>6

\* Causes that are all before some moment.
LEMMA CausesBefore ==
  ASSUME NEW traces, NEW causes, CausesOf(traces) = LatestOf(causes),
         NEW moment, \A c \in causes : c.at \in Nat /\ c.at < moment, NEW t \in traces
  PROVE  t.cause \in Nat /\ t.cause < moment
<1>1. t.cause \in CausesOf(traces)
  BY DEF CausesOf
<1>2. \E c \in causes : t.cause = c.at
  BY <1>1 DEF LatestOf
<1> QED BY <1>2

\* What each kind of trace says of itself.
LEMMA KindsOfTraces ==
  /\ \A q, k : \A t \in referrerTrace(q, k) :
       t.relation = "referrer-follow" /\ t.effect = q[k].at /\ t.seen = q[k].at
  /\ \A q, sshs, sig : \A t \in canaryTrace(q, sshs, sig) :
       t.relation = "canary-reuse" /\ t.effect = sig.at /\ t.seen = canaryEffect(sshs, sig)
  /\ \A q, e : \A t \in stagedPayloadTrace(q, e) :
       t.relation = "staged-payload-execution" /\ t.effect = e.at /\ t.seen = e.at
<1>1. ASSUME NEW q, NEW k, NEW t \in referrerTrace(q, k)
      PROVE  t.relation = "referrer-follow" /\ t.effect = q[k].at /\ t.seen = q[k].at
  <2>1. \E i : t \in Trace("referrer-follow", q, i, q[k], q[k].at)
    BY DEF referrerTrace
  <2> QED BY <2>1, TraceFields
<1>2. ASSUME NEW q, NEW sshs, NEW sig, NEW t \in canaryTrace(q, sshs, sig)
      PROVE  t.relation = "canary-reuse" /\ t.effect = sig.at /\ t.seen = canaryEffect(sshs, sig)
  <2>1. \E i : t \in Trace("canary-reuse", q, i, sig, canaryEffect(sshs, sig))
    BY DEF canaryTrace
  <2> QED BY <2>1, TraceFields
<1>3. ASSUME NEW q, NEW e, NEW t \in stagedPayloadTrace(q, e)
      PROVE  t.relation = "staged-payload-execution" /\ t.effect = e.at /\ t.seen = e.at
  <2>1. \E i : t \in Trace("staged-payload-execution", q, i, e, e.at)
    BY DEF stagedPayloadTrace
  <2> QED BY <2>1, TraceFields
<1> QED BY <1>1, <1>2, <1>3

\* Every effect in the rings is traced to the latest cause, and to no other.
LEMMA TracesFoundInv == ASSUME EvidenceInv PROVE TracesFound
<1> DEFINE https == chronological(ring["http"])
           sshs == chronological(ring["ssh"])
           intel == chronological(ring["intel"])
<1>1. PICK n : Ordered(https, n, ring["http"])
  BY ChronologicalIsOrdered DEF Logs
<1>2. PICK m : Ordered(intel, m, ring["intel"])
  BY ChronologicalIsOrdered DEF Logs
<1>3. PICK k : Ordered(sshs, k, ring["ssh"])
  BY ChronologicalIsOrdered DEF Logs
<1>4. DOMAIN https = 1 .. n /\ \A e \in ring["http"] : \E i \in 1 .. n : https[i] = e
  BY <1>1 DEF Ordered
<1>5. Range(intel) = ring["intel"]
  <2>1. DOMAIN intel = 1 .. m /\ (\A i \in 1 .. m : intel[i] \in ring["intel"])
        /\ \A e \in ring["intel"] : \E i \in 1 .. m : intel[i] = e
    BY <1>2 DEF Ordered
  <2> HIDE DEF intel
  <2> QED BY <2>1 DEF Range
<1>6. ASSUME NEW t
      PROVE  t \in attackTraces(ring) <=>
               \/ \E i \in 1 .. n : t \in referrerTrace(https, i)
               \/ \E sig \in ring["intel"] : t \in canaryTrace(https, sshs, sig)
               \/ \E e \in ring["intel"] : t \in stagedPayloadTrace(intel, e)
  <2>1. t \in attackTraces(ring) <=> \/ t \in referrerTraces(https)
                                     \/ t \in canaryTraces(https, sshs, intel)
                                     \/ t \in stagedPayloadTracesFromIntel(intel)
    BY DEF attackTraces
  <2> HIDE DEF https, sshs, intel
  <2>2. t \in referrerTraces(https) <=> \E i \in 1 .. n : t \in referrerTrace(https, i)
    BY <1>4 DEF referrerTraces
  <2>3. t \in canaryTraces(https, sshs, intel)
          <=> \E sig \in ring["intel"] : t \in canaryTrace(https, sshs, sig)
    BY <1>5 DEF canaryTraces
  <2>4. t \in stagedPayloadTracesFromIntel(intel)
          <=> \E e \in ring["intel"] : t \in stagedPayloadTrace(intel, e)
    BY <1>5 DEF stagedPayloadTracesFromIntel
  <2> QED BY <2>1, <2>2, <2>3, <2>4
<1> HIDE DEF https, sshs, intel
<1>7. /\ \A e \in ring["http"] : e.at \in Nat
      /\ \A e \in ring["intel"] : e.at \in Nat
      /\ \A d, e \in ring["http"] : d.at = e.at => d = e
      /\ \A d, e \in ring["intel"] : d.at = e.at => d = e
      /\ \A d \in ring["http"], e \in ring["intel"] : d.at # e.at
  <2>1. \A log \in Logs : \A e \in ring[log] : e.at \in Nat /\ e.log = log
    BY EvidenceFields DEF EvidenceInv, LogsOK, Types, Kept
  <2>2. \A l, o \in Logs : \A e \in ring[l], d \in ring[o] : e.at = d.at => e = d
    BY DEF EvidenceInv, LogsOK, Kept
  <2>3. "http" \in Logs /\ "intel" \in Logs
    BY DEF Logs
  <2> QED BY <2>1, <2>2, <2>3
<1>8. ASSUME NEW e \in ring["http"]
      PROVE  CausesOf(TracesTo("referrer-follow", e)) = LatestOf(FollowedBaits(ring["http"], e))
  <2>1. PICK j \in 1 .. n : https[j] = e
    BY <1>4
  <2>2. ASSUME NEW t \in TracesTo("referrer-follow", e) PROVE t \in referrerTrace(https, j)
    <3>1. PICK i \in 1 .. n : t \in referrerTrace(https, i)
      BY <1>6, KindsOfTraces DEF TracesTo
    <3>2. https[i].at = https[j].at
      BY <2>1, <3>1, KindsOfTraces DEF TracesTo
    <3>3. i = j
      BY <1>1, <3>2, OrderedBack
    <3> QED BY <3>1, <3>3
  <2>3. ASSUME NEW t \in referrerTrace(https, j) PROVE t \in TracesTo("referrer-follow", e)
    BY <1>6, <2>1, KindsOfTraces DEF TracesTo
  <2>4. TracesTo("referrer-follow", e) = referrerTrace(https, j)
    BY <2>2, <2>3
  <2> QED BY <1>1, <2>1, <2>4, ReferrerFound
<1>9. ASSUME NEW s \in ring["intel"]
      PROVE  CausesOf(TracesTo("canary-reuse", s)) = LatestOf(ServedCanaries(ring["http"], s))
  <2>1. ASSUME NEW t \in TracesTo("canary-reuse", s) PROVE t \in canaryTrace(https, sshs, s)
    <3>1. PICK sig \in ring["intel"] : t \in canaryTrace(https, sshs, sig)
      BY <1>6, KindsOfTraces DEF TracesTo
    <3>2. sig.at = s.at
      BY <3>1, KindsOfTraces DEF TracesTo
    <3> QED BY <1>7, <3>1, <3>2
  <2>2. ASSUME NEW t \in canaryTrace(https, sshs, s) PROVE t \in TracesTo("canary-reuse", s)
    BY <1>6, KindsOfTraces DEF TracesTo
  <2>3. TracesTo("canary-reuse", s) = canaryTrace(https, sshs, s)
    BY <2>1, <2>2
  <2> QED BY <1>1, <1>7, <2>3, CanaryFound
<1>10. ASSUME NEW s \in ring["intel"]
      PROVE  CausesOf(TracesTo("staged-payload-execution", s)) = LatestOf(Uploads(ring["intel"], s))
  <2>1. ASSUME NEW t \in TracesTo("staged-payload-execution", s) PROVE t \in stagedPayloadTrace(intel, s)
    <3>1. PICK e \in ring["intel"] : t \in stagedPayloadTrace(intel, e)
      BY <1>6, KindsOfTraces DEF TracesTo
    <3>2. e.at = s.at
      BY <3>1, KindsOfTraces DEF TracesTo
    <3> QED BY <1>7, <3>1, <3>2
  <2>2. ASSUME NEW t \in stagedPayloadTrace(intel, s) PROVE t \in TracesTo("staged-payload-execution", s)
    BY <1>6, KindsOfTraces DEF TracesTo
  <2>3. TracesTo("staged-payload-execution", s) = stagedPayloadTrace(intel, s)
    BY <2>1, <2>2
  <2> QED BY <1>2, <1>7, <2>3, PayloadFound
<1>11. \A relation, effect, causes :
         TracedTo(relation, effect, causes) <=> CausesOf(TracesTo(relation, effect)) = LatestOf(causes)
  BY DEF TracedTo, CausesOf, TracesTo, LatestOf
<1>12. ASSUME NEW t \in attackTraces(ring) PROVE ShownInOrder(t)
  <2>1. CASE \E i \in 1 .. n : t \in referrerTrace(https, i)
    <3>1. PICK i \in 1 .. n : t \in referrerTrace(https, i)
      BY <2>1
    <3>2. CausesOf(referrerTrace(https, i)) = LatestOf(FollowedBaits(ring["http"], https[i]))
      BY <1>1, ReferrerFound
    <3>3. \A c \in FollowedBaits(ring["http"], https[i]) : c.at \in Nat /\ c.at < https[i].at
      BY <1>7 DEF FollowedBaits
    <3>4. t.cause < https[i].at
      BY <3>1, <3>2, <3>3, CausesBefore
    <3> QED BY <3>1, <3>4, KindsOfTraces DEF ShownInOrder
  <2>2. CASE \E sig \in ring["intel"] : t \in canaryTrace(https, sshs, sig)
    <3>1. PICK sig \in ring["intel"] : t \in canaryTrace(https, sshs, sig)
      BY <2>2
    <3>2. CausesOf(canaryTrace(https, sshs, sig)) = LatestOf(ServedCanaries(ring["http"], sig))
      BY <1>1, <1>7, CanaryFound
    <3>3. \A c \in ServedCanaries(ring["http"], sig) : c.at \in Nat /\ c.at < sig.at
      BY <1>7 DEF ServedCanaries
    <3>4. t.cause \in Nat /\ t.cause < sig.at
      BY <3>1, <3>2, <3>3, CausesBefore
    <3>5. t.relation = "canary-reuse" /\ t.seen = canaryEffect(sshs, sig)
      BY <3>1, KindsOfTraces
    <3>6. t.seen \in Nat /\ sig.at <= t.seen + EffectBefore /\ sig.at \in Nat
      BY <1>7, <1>3, <3>5, CanarySeen
    <3>7. EffectBefore \in Nat
      BY EvidenceAssumption
    <3>8. t.cause < t.seen + EffectBefore
      BY ONLY <3>4, <3>6, <3>7
    <3> QED BY <3>5, <3>8 DEF ShownInOrder
  <2>3. CASE \E e \in ring["intel"] : t \in stagedPayloadTrace(intel, e)
    <3>1. PICK e \in ring["intel"] : t \in stagedPayloadTrace(intel, e)
      BY <2>3
    <3>2. CausesOf(stagedPayloadTrace(intel, e)) = LatestOf(Uploads(ring["intel"], e))
      BY <1>2, <1>7, PayloadFound
    <3>3. \A c \in Uploads(ring["intel"], e) : c.at \in Nat /\ c.at < e.at
      BY <1>7 DEF Uploads
    <3>4. t.cause < e.at
      BY <3>1, <3>2, <3>3, CausesBefore
    <3> QED BY <3>1, <3>4, KindsOfTraces DEF ShownInOrder
  <2> QED BY <1>6, <2>1, <2>2, <2>3
<1> QED BY <1>8, <1>9, <1>10, <1>11, <1>12 DEF TracesFound, FollowedBaits, ServedCanaries, Uploads

\* attackTracesLocked, for rows stored in whatever order: the scans backwards find the
\* latest cause in the window of every effect.
THEOREM TracesAreFound == Spec => []TracesFound
<1>1. EvidenceInv => TracesFound
  BY TracesFoundInv
<1> QED BY <1>1, EvidenceInvariant, PTL
=============================================================================
