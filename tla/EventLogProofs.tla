--------------------------- MODULE EventLogProofs ---------------------------
(***************************************************************************)
(* Proofs about EventLog, for every set of records, any number of files,   *)
(* every retention period and every number of faults, crashes and power    *)
(* failures.                                                               *)
(***************************************************************************)
EXTENDS EventLog, FiniteSetTheorems, TLAPS

\* Records are numbered in the order they are written, and stamped no later.
LabelsOK ==
  /\ IsFiniteSet(used)
  /\ \A e \in used : pos[e] <= Cardinality(used) /\ stamp[e] <= clock

\* A file holds records that were written to it, and what is synced is there.
FilesOK ==
  \A f \in Files : /\ Parsed(f) \subseteq used
                   /\ \A e \in Parsed(f) : home[e] = f
                   /\ synced[f] \subseteq disk[f]

\* A sweep runs in a process, with the cutoff of the time it began.
SweepOK == Busy => proc # "down" /\ sweep.cutoff <= clock - Retention

\* While the process runs, the tail of a file is what a failed write left.
TailsOK == proc # "down" => \A f \in Files : tail[f] \notin acked

Dirty == {f \in Files : tail[f] # Clean}

\* Every record that was glued to a tail, and every tail that is there while the
\* process runs, stands for a failed write.
GluedOK ==
  /\ Cardinality(glued) <= faults
  /\ proc # "down" => Cardinality(glued) + Cardinality(Dirty) <= faults

\* What a file holds is upward closed but for expired records: everything else
\* accepted after a record it holds is there too.
UpClosed ==
  \A f \in Files : \A a \in Parsed(f), b \in Written(f) \ lost :
    pos[a] < pos[b] => b \in Parsed(f) \/ Expired(b)

\* The second part of AcceptedKept.
Accepted ==
  \A f \in Files : f \notin pressed =>
    \A e \in Written(f) \ lost : e \in Parsed(f) \/ Expired(e)

LogInv == TypeOK /\ LabelsOK /\ FilesOK /\ SweepOK /\ TailsOK /\ GluedOK /\ UpClosed /\ Accepted

----------------------------------------------------------------------------
(* Facts about the operators *)

\* What a file holds, without a tail that is a record.
LEMMA ParsedClean ==
  ASSUME NEW f \in Files, tail[f] \in {Clean, Garbage} PROVE Parsed(f) = disk[f]
BY LogAssumption DEF Parsed

\* Retention takes expired records only.
LEMMA KeptRecent ==
  ASSUME TypeOK, LabelsOK, FilesOK, NEW f \in Files, NEW cutoff \in Int, cutoff <= clock - Retention
  PROVE  /\ Kept(f, cutoff) \subseteq Parsed(f)
         /\ \A e \in Parsed(f) : e \in Kept(f, cutoff) \/ Expired(e)
<1>1. Parsed(f) \subseteq Events
  BY DEF Parsed, TypeOK
<1>2. \A e \in Parsed(f) : stamp[e] \in Nat
  BY <1>1 DEF TypeOK
<1>3. clock \in Nat /\ Retention \in Nat
  BY LogAssumption DEF TypeOK
<1>4. Kept(f, cutoff) \subseteq Parsed(f)
  BY DEF Kept
<1>5. \A e \in Parsed(f) : e \in Kept(f, cutoff) \/ Expired(e)
  BY <1>2, <1>3 DEF Kept, Expired
<1> QED BY <1>4, <1>5

\* Storage pressure keeps the newest records.
LEMMA NewestClosed ==
  ASSUME TypeOK, NEW S \in SUBSET Events, NEW K \in Newest(S)
  PROVE  K \subseteq S /\ \A a \in K, b \in S : pos[a] < pos[b] => b \in K
<1>1. K \in SUBSET S /\ \A e \in K, d \in S \ K : pos[d] < pos[e]
  BY DEF Newest
<1>2. \A e \in S : pos[e] \in Nat
  BY DEF TypeOK
<1> QED BY <1>1, <1>2

\* Files stays finite, and so does the set of those with a tail.
LEMMA DirtyFinite == IsFiniteSet(Dirty) /\ Cardinality(Dirty) \in Nat
<1>1. IsFiniteSet(Files)
  BY FS_Interval, LogAssumption DEF Files
<1>2. Dirty \in SUBSET Files
  BY DEF Dirty
<1>3. IsFiniteSet(Dirty)
  BY <1>1, <1>2, FS_Subset
<1> QED BY <1>3, FS_CardinalityType

----------------------------------------------------------------------------
(* Steps that rewrite no file *)

\* The frame of such a step: records, labels and tails stay, time may pass, what is
\* on the disk may be synced, and no process starts.
Quiet ==
  /\ UNCHANGED <<disk, tail, labels, used, acked, unlogged, glued, pressed, lost>>
  /\ clock' \in Nat /\ clock <= clock' /\ faults' \in Nat /\ faults <= faults'
  /\ synced' \in [Files -> SUBSET Events]
  /\ \A f \in Files : synced'[f] = synced[f] \/ synced'[f] = disk[f]
  /\ proc = "down" => proc' = "down"

\* Such a step keeps all of the invariant but the types and the sweep.
LEMMA QuietStep ==
  ASSUME LogInv, Quiet
  PROVE  (LabelsOK /\ FilesOK /\ TailsOK /\ GluedOK /\ UpClosed /\ Accepted)'
<1> USE DEF LogInv, Quiet, labels
<1>0. clock \in Nat /\ clock' \in Nat /\ clock <= clock' /\ faults \in Nat /\ Retention \in Nat
      /\ used \subseteq Events
  BY LogAssumption DEF TypeOK
<1>1. \A f \in Files : Parsed(f)' = Parsed(f) /\ Written(f)' = Written(f)
  BY DEF Parsed, Written
<1>2. LabelsOK'
  <2>1. \A e \in used : stamp[e] <= clock'
    <3> SUFFICES ASSUME NEW e \in used PROVE stamp[e] <= clock'
      OBVIOUS
    <3>1. stamp[e] \in Nat /\ stamp[e] <= clock
      BY <1>0 DEF LabelsOK, TypeOK
    <3> QED BY <3>1, <1>0
  <2> QED BY <2>1 DEF LabelsOK
<1>3. FilesOK'
  BY <1>1 DEF FilesOK
<1>4. TailsOK'
  BY DEF TailsOK
<1>5. GluedOK'
  <2>1. Dirty' = Dirty
    BY DEF Dirty
  <2>2. Cardinality(glued) \in Nat
    <3>1. glued \in SUBSET used
      BY DEF TypeOK
    <3> QED BY <3>1, FS_Subset, FS_CardinalityType DEF LabelsOK
  <2> QED BY <2>1, <2>2, <1>0, DirtyFinite DEF GluedOK
<1>8. ASSUME NEW e \in used, Expired(e) PROVE Expired(e)'
  <2>1. stamp[e] \in Nat
    BY <1>0 DEF TypeOK
  <2> QED BY <2>1, <1>0, <1>8 DEF Expired
<1>9. \A f \in Files : Written(f) \subseteq used
  BY DEF Written, TypeOK
<1>6. UpClosed'
  BY <1>1, <1>8, <1>9 DEF UpClosed
<1>7. Accepted'
  BY <1>1, <1>8, <1>9 DEF Accepted
<1> QED BY <1>2, <1>3, <1>4, <1>5, <1>6, <1>7

SweepType == [at : {"select", "begin", "closed", "copied", "renamed", "done"},
              mode : {"retention", "pressure"}, file : Files, cutoff : Int]

\* The states of the goroutine that a step of a sweep leads to.
LEMMA SweepStates ==
  ASSUME LogInv
  PROVE  /\ Idle \in SweepType /\ Left \in SweepType /\ NextFile \in SweepType
         /\ \A at \in {"closed", "copied", "renamed"} : [sweep EXCEPT !.at = at] \in SweepType
         /\ NextFile.at \in {"begin", "select"} /\ (NextFile.at = "begin" => NextFile.cutoff = sweep.cutoff)
         /\ \A at \in {"closed", "copied", "renamed"} :
              [sweep EXCEPT !.at = at].at = at /\ [sweep EXCEPT !.at = at].cutoff = sweep.cutoff
         /\ Idle.at = "select" /\ Left.at = "done" /\ sweep.file \in Files
<1> USE DEF SweepType
<1>1. sweep \in SweepType /\ NFiles \in Nat \ {0}
  BY LogAssumption DEF LogInv, TypeOK
<1>2. Idle \in SweepType /\ Left \in SweepType /\ Idle.at = "select" /\ Left.at = "done"
  BY <1>1 DEF Idle, Left, Files
<1>3. /\ \A at \in {"closed", "copied", "renamed"} : [sweep EXCEPT !.at = at] \in SweepType
      /\ \A at \in {"closed", "copied", "renamed"} :
           [sweep EXCEPT !.at = at].at = at /\ [sweep EXCEPT !.at = at].cutoff = sweep.cutoff
  BY <1>1
<1>4. /\ NextFile \in SweepType /\ NextFile.at \in {"begin", "select"}
      /\ NextFile.at = "begin" => NextFile.cutoff = sweep.cutoff
  <2>1. CASE sweep.file < NFiles
    <3>1. sweep.file + 1 \in Files
      BY <1>1, <2>1 DEF Files
    <3>2. NextFile = [sweep EXCEPT !.at = "begin", !.file = sweep.file + 1]
      BY <2>1 DEF NextFile
    <3> QED BY <1>1, <3>1, <3>2
  <2>2. CASE ~(sweep.file < NFiles)
    <3>1. NextFile = Idle \/ NextFile = [sweep EXCEPT !.at = "begin", !.file = 1, !.mode = "pressure"]
      BY <2>2 DEF NextFile
    <3>2. 1 \in Files
      BY <1>1 DEF Files
    <3> QED BY <1>1, <1>2, <3>1, <3>2
  <2> QED BY <2>1, <2>2
<1> QED BY <1>1, <1>2, <1>3, <1>4

\* The handles and the position of a sweep may change in a quiet step.
LEMMA QuietSweep ==
  ASSUME LogInv, Quiet, UNCHANGED <<clock, started, crashes, proc>>,
         handle' \in [Files -> {"open", "nil", "dead"}], sweep' \in SweepType,
         Busy' => Busy /\ sweep'.cutoff = sweep.cutoff
  PROVE  LogInv'
<1>1. TypeOK'
  BY DEF LogInv, TypeOK, Quiet, labels, SweepType
<1>2. SweepOK'
  BY DEF LogInv, SweepOK
<1> QED BY <1>1, <1>2, QuietStep DEF LogInv

\* The clock, the goroutine's select and Close.
LEMMA CalmInv ==
  ASSUME LogInv, Tick \/ SyncFiles \/ StartSweep \/ StopSweep \/ BeginClose \/ EndClose
  PROVE  LogInv'
<1> USE LogAssumption DEF LogInv, files, history, labels
<1>0. clock \in Nat /\ faults \in Nat /\ Retention \in Nat /\ sweep.cutoff \in Int
  BY DEF TypeOK
<1>1. CASE Tick
  <2>1. TypeOK' /\ Quiet
    BY <1>1 DEF Tick, TypeOK, Quiet
  <2>2. SweepOK'
    BY <1>0, <1>1 DEF Tick, SweepOK, Busy
  <2> QED BY <2>1, <2>2, QuietStep
<1>2. CASE SyncFiles
  <2>1. faults' = faults \/ faults' = faults + 1
    BY <1>2 DEF SyncFiles, Works, Fails
  <2>2. synced' \in [Files -> SUBSET Events]
        /\ \A f \in Files : synced'[f] = synced[f] \/ synced'[f] = disk[f]
    BY <1>2 DEF SyncFiles, TypeOK
  <2>3. UNCHANGED <<clock, started, proc, handle, disk, tail, labels, sweep, crashes, history>>
    BY <1>2 DEF SyncFiles
  <2>4. TypeOK' /\ Quiet
    BY <1>0, <2>1, <2>2, <2>3 DEF TypeOK, Quiet
  <2>5. SweepOK'
    BY <2>3 DEF SweepOK, Busy
  <2> QED BY <2>4, <2>5, QuietStep
<1>3. CASE StartSweep
  <2>1. sweep' = [at |-> "begin", mode |-> "retention", file |-> 1, cutoff |-> clock - Retention]
        /\ UNCHANGED <<clock, started, proc, handle, files, labels, faults, crashes, history>>
        /\ proc # "down"
    BY <1>3 DEF StartSweep
  <2>2. sweep' \in [at : {"select", "begin", "closed", "copied", "renamed", "done"},
                    mode : {"retention", "pressure"}, file : Files, cutoff : Int]
    BY <2>1, <1>0 DEF Files
  <2>3. TypeOK' /\ Quiet
    BY <1>0, <2>1, <2>2 DEF TypeOK, Quiet
  <2>4. SweepOK'
    BY <1>0, <2>1 DEF SweepOK, Busy
  <2> QED BY <2>3, <2>4, QuietStep
<1>4. CASE StopSweep
  <2>1. sweep' = Left /\ UNCHANGED <<clock, started, proc, handle, files, labels, faults, crashes, history>>
    BY <1>4 DEF StopSweep
  <2>2. Quiet
    BY <1>0, <2>1 DEF Quiet, TypeOK
  <2>3. sweep' \in SweepType /\ ~Busy'
    BY <2>1, SweepStates DEF Busy
  <2>4. handle' \in [Files -> {"open", "nil", "dead"}]
    BY <2>1 DEF TypeOK
  <2> QED BY ONLY LogInv, <2>1, <2>2, <2>3, <2>4, QuietSweep
<1>5. CASE BeginClose
  <2>1. TypeOK' /\ Quiet
    BY <1>0, <1>5 DEF BeginClose, TypeOK, Quiet
  <2>2. SweepOK'
    BY <1>5 DEF BeginClose, SweepOK, Busy
  <2> QED BY <2>1, <2>2, QuietStep
<1>6. CASE EndClose
  <2>1. TypeOK' /\ Quiet
    BY <1>0, <1>6 DEF EndClose, TypeOK, Quiet
  <2>2. SweepOK'
    BY <1>6 DEF EndClose, SweepOK, Busy
  <2> QED BY <2>1, <2>2, QuietStep
<1> QED BY <1>1, <1>2, <1>3, <1>4, <1>5, <1>6

\* compactJSONL up to the rename and after it: the file itself is not touched.
LEMMA CompactInv ==
  ASSUME LogInv, CloseActive \/ CopyKept \/ ReopenActive
  PROVE  LogInv'
<1> USE DEF files, history, labels
<1>0. clock \in Nat /\ faults \in Nat /\ sweep.file \in Files
      /\ handle \in [Files -> {"open", "nil", "dead"}] /\ synced \in [Files -> SUBSET Events]
      /\ disk \in [Files -> SUBSET Events]
  BY DEF LogInv, TypeOK
<1>1. Busy
  BY DEF CloseActive, CopyKept, ReopenActive, Busy
<1>2. /\ handle' = handle \/ \E h \in {"open", "nil", "dead"} : handle' = [handle EXCEPT ![sweep.file] = h]
      /\ faults' = faults \/ faults' = faults + 1
      /\ synced' = synced \/ synced' = [synced EXCEPT ![sweep.file] = disk[sweep.file]]
      /\ \/ sweep' = Idle \/ sweep' = NextFile
         \/ \E at \in {"closed", "copied", "renamed"} : sweep' = [sweep EXCEPT !.at = at]
      /\ UNCHANGED <<clock, started, proc, disk, tail, labels, crashes, history>>
  <2>1. CASE CloseActive
    BY <2>1 DEF CloseActive, Works, Fails, Abort
  <2>2. CASE CopyKept
    BY <2>2 DEF CopyKept, Works, Fails, Abort, ReopenAndAbort
  <2>3. CASE ReopenActive
    BY <2>3 DEF ReopenActive, Works, Fails, Abort
  <2> QED BY <2>1, <2>2, <2>3
<1>3. handle' \in [Files -> {"open", "nil", "dead"}]
  BY <1>0, <1>2
<1>4. synced' \in [Files -> SUBSET Events]
      /\ \A f \in Files : synced'[f] = synced[f] \/ synced'[f] = disk[f]
  BY <1>0, <1>2
<1>5. Quiet
  BY <1>0, <1>2, <1>4 DEF Quiet
<1>6. sweep' \in SweepType /\ (Busy' => sweep'.cutoff = sweep.cutoff)
  <2>1. CASE sweep' = Idle \/ sweep' = NextFile
    BY ONLY LogInv, <2>1, SweepStates DEF Busy
  <2>2. CASE \E at \in {"closed", "copied", "renamed"} : sweep' = [sweep EXCEPT !.at = at]
    <3>1. PICK at \in {"closed", "copied", "renamed"} : sweep' = [sweep EXCEPT !.at = at]
      BY ONLY <2>2
    <3> QED BY ONLY LogInv, <3>1, SweepStates
  <2> QED BY ONLY <1>2, <2>1, <2>2
<1> QED BY <1>1, <1>2, <1>3, <1>5, <1>6, QuietSweep

\* The end of the process leaves the files as they are.
LEMMA GoneInv == ASSUME LogInv, Exit \/ Crash PROVE LogInv'
<1> USE DEF files, history, labels
<1>1. /\ proc' = "down" /\ sweep' = Left /\ handle' = [f \in Files |-> "nil"]
      /\ (crashes' = crashes \/ crashes' = crashes + 1) /\ started' = 0
      /\ UNCHANGED <<clock, disk, tail, synced, labels, faults, history>>
  BY DEF Exit, Crash, Gone
<1>2. Quiet
  BY <1>1 DEF Quiet, LogInv, TypeOK
<1>5. started' \in 0..clock'
  BY <1>1 DEF LogInv, TypeOK
<1>3. TypeOK'
  BY <1>1, <1>5, SweepStates DEF LogInv, TypeOK, SweepType
<1>4. SweepOK'
  BY <1>1, SweepStates DEF SweepOK, Busy
<1> QED BY <1>2, <1>3, <1>4, QuietStep DEF LogInv

----------------------------------------------------------------------------
(* Steps that shorten files *)

\* The frame of such a step, and what it must not take.
Shortens ==
  /\ UNCHANGED <<clock, home, stamp, pos, used, acked, unlogged, glued>>
  /\ pressed \subseteq pressed' /\ lost \subseteq lost'
  /\ \A f \in Files :
       /\ Parsed(f)' \subseteq Parsed(f) /\ synced'[f] \subseteq disk'[f]
       /\ \A a \in Parsed(f)', b \in (Parsed(f) \cap Written(f)) \ lost' :
            pos[a] < pos[b] => b \in Parsed(f)' \/ Expired(b)
       /\ f \notin pressed' =>
            \A e \in (Parsed(f) \cap Written(f)) \ lost' : e \in Parsed(f)' \/ Expired(e)

\* What SyncedStays says of one step.
SyncedStep ==
  \A f \in Files : \A e \in synced[f] : e \in synced'[f] \/ Expired(e) \/ f \in pressed'

\* Such a step keeps what the files must hold.
LEMMA ShorterFiles ==
  ASSUME LogInv, Shortens
  PROVE  (LabelsOK /\ FilesOK /\ UpClosed /\ Accepted)'
<1> USE DEF LogInv, Shortens
<1>1. \A f \in Files : Written(f)' = Written(f)
  BY DEF Written
<1>2. LabelsOK'
  BY DEF LabelsOK
<1>3. FilesOK'
  BY DEF FilesOK
<1>4. UpClosed'
  <2> SUFFICES ASSUME NEW f \in Files, NEW a \in Parsed(f)', NEW b \in Written(f) \ lost', pos[a] < pos[b]
               PROVE  b \in Parsed(f)' \/ Expired(b)'
    BY <1>1 DEF UpClosed
  <2>1. a \in Parsed(f) /\ b \in Written(f) \ lost
    OBVIOUS
  <2>2. b \in Parsed(f) \/ Expired(b)
    BY <2>1 DEF UpClosed
  <2>3. Expired(b)' <=> Expired(b)
    BY DEF Expired
  <2> QED BY <2>1, <2>2, <2>3
<1>5. Accepted'
  <2> SUFFICES ASSUME NEW f \in Files, f \notin pressed', NEW e \in Written(f) \ lost'
               PROVE  e \in Parsed(f)' \/ Expired(e)'
    BY <1>1 DEF Accepted
  <2>1. Expired(e)' <=> Expired(e)
    BY DEF Expired
  <2>2. e \in Parsed(f) \/ Expired(e)
    BY DEF Accepted
  <2> QED BY <2>1, <2>2
<1> QED BY <1>2, <1>3, <1>4, <1>5

\* Renaming the rewritten file over the old one.
LEMMA RenameShortens ==
  ASSUME LogInv, RenameOver
  PROVE  /\ Shortens /\ SyncedStep /\ Dirty' \subseteq Dirty
         /\ \A f \in Files : tail'[f] \in {Clean, tail[f]}
<1> USE DEF LogInv
<1>p. PICK g \in Files : g = sweep.file
  BY DEF TypeOK
<1>0. disk \in [Files -> SUBSET Events] /\ tail \in [Files -> Tails]
      /\ synced \in [Files -> SUBSET Events] /\ sweep.cutoff \in Int
  BY DEF TypeOK
<1>1. Busy /\ UNCHANGED <<clock, home, stamp, pos, used, acked, unlogged, glued, lost>>
  BY DEF RenameOver, Busy, labels
<1>2. CASE UNCHANGED <<files, pressed>>
  <2>1. UNCHANGED <<disk, tail, synced, pressed>>
    BY <1>2 DEF files
  <2>2. \A f \in Files : Parsed(f)' = Parsed(f)
    BY <2>1 DEF Parsed
  <2>3. Dirty' = Dirty
    BY <2>1 DEF Dirty
  <2> QED BY <1>1, <2>1, <2>2, <2>3 DEF Shortens, FilesOK, SyncedStep
<1>3. ASSUME NEW K \in Rewrites(g), Install(g, K),
             pressed' = IF sweep.mode = "pressure" THEN pressed \cup {g} ELSE pressed
      PROVE  /\ Shortens /\ SyncedStep /\ Dirty' \subseteq Dirty
             /\ \A f \in Files : tail'[f] \in {Clean, tail[f]}
  <2>1. /\ K \subseteq Parsed(g)
        /\ \A a \in K, b \in Parsed(g) \cap Written(g) : pos[a] < pos[b] => b \in K \/ Expired(b)
        /\ g \notin pressed' => \A e \in Parsed(g) : e \in K \/ Expired(e)
    <3>1. CASE sweep.mode = "retention"
      <4>1. K = Kept(g, sweep.cutoff)
        BY <1>3, <1>p, <3>1 DEF Rewrites
      <4>2. sweep.cutoff <= clock - Retention
        BY <1>1 DEF SweepOK
      <4> QED BY <1>0, <4>1, <4>2, KeptRecent
    <3>2. CASE sweep.mode # "retention"
      <4>1. K \in Newest(disk[g]) /\ sweep.mode = "pressure"
        BY <1>3, <1>p, <3>2 DEF Rewrites, TypeOK
      <4>2. g \in pressed'
        BY <1>3, <4>1
      <4>3. Parsed(g) \cap Written(g) \subseteq disk[g] /\ disk[g] \subseteq Parsed(g)
        <5>1. tail[g] \notin acked
          BY <1>0, <1>1 DEF SweepOK, TailsOK
        <5> QED BY <5>1 DEF Parsed, Written
      <4> QED BY <1>0, <4>1, <4>2, <4>3, NewestClosed
    <3> QED BY <3>1, <3>2
  <2>2. disk' = [disk EXCEPT ![g] = K] /\ synced' = [synced EXCEPT ![g] = K]
        /\ tail' = [tail EXCEPT ![g] = Clean]
    BY <1>3 DEF Install
  <2>3. disk'[g] = K /\ synced'[g] = K /\ tail'[g] = Clean
    BY <1>0, <2>2
  <2>4. \A f \in Files \ {g} : disk'[f] = disk[f] /\ synced'[f] = synced[f] /\ tail'[f] = tail[f]
    BY <1>0, <2>2
  <2>5. Parsed(g)' = K
    BY <2>3, LogAssumption DEF Parsed
  <2>6. \A f \in Files \ {g} : Parsed(f)' = Parsed(f)
    BY <2>4 DEF Parsed
  <2>7. Dirty' \subseteq Dirty
    BY <2>3, <2>4 DEF Dirty
  <2>8. pressed \subseteq pressed'
    BY <1>3
  <2>9. \A f \in Files :
          /\ Parsed(f)' \subseteq Parsed(f) /\ synced'[f] \subseteq disk'[f]
          /\ \A a \in Parsed(f)', b \in (Parsed(f) \cap Written(f)) \ lost' :
               pos[a] < pos[b] => b \in Parsed(f)' \/ Expired(b)
          /\ f \notin pressed' =>
               \A e \in (Parsed(f) \cap Written(f)) \ lost' : e \in Parsed(f)' \/ Expired(e)
    <3> SUFFICES ASSUME NEW f \in Files
                 PROVE  /\ Parsed(f)' \subseteq Parsed(f) /\ synced'[f] \subseteq disk'[f]
                        /\ \A a \in Parsed(f)', b \in (Parsed(f) \cap Written(f)) \ lost' :
                             pos[a] < pos[b] => b \in Parsed(f)' \/ Expired(b)
                        /\ f \notin pressed' =>
                             \A e \in (Parsed(f) \cap Written(f)) \ lost' : e \in Parsed(f)' \/ Expired(e)
      OBVIOUS
    <3>1. CASE f = g
      <4>1. Parsed(f)' = K /\ synced'[f] = disk'[f]
        BY <2>3, <2>5, <3>1
      <4> QED BY <2>1, <3>1, <4>1
    <3>2. CASE f # g
      BY <2>4, <2>6, <3>2 DEF FilesOK
    <3> QED BY <3>1, <3>2
  <2>10. SyncedStep
    <3>1. synced[g] \subseteq Parsed(g)
      BY DEF FilesOK, Parsed
    <3> QED BY <2>1, <2>3, <2>4, <3>1 DEF SyncedStep
  <2> QED BY <1>1, <2>3, <2>4, <2>7, <2>8, <2>9, <2>10 DEF Shortens
<1> QED BY <1>p, <1>2, <1>3 DEF RenameOver

\* The number of glued records and of tails are numbers.
LEMMA GluedFinite == ASSUME TypeOK, LabelsOK PROVE IsFiniteSet(glued) /\ Cardinality(glued) \in Nat
<1>1. glued \in SUBSET used /\ IsFiniteSet(used)
  BY DEF TypeOK, LabelsOK
<1> QED BY <1>1, FS_Subset, FS_CardinalityType

\* A shortened file stays typed: what it holds are records.
LEMMA RenameType == ASSUME LogInv, RenameOver PROVE TypeOK'
<1> USE DEF LogInv
<1>p. PICK g \in Files : g = sweep.file
  BY DEF TypeOK
<1>0. disk \in [Files -> SUBSET Events] /\ tail \in [Files -> Tails]
      /\ synced \in [Files -> SUBSET Events] /\ handle \in [Files -> {"open", "nil", "dead"}]
      /\ faults \in Nat /\ pressed \subseteq Files
  BY DEF TypeOK
<1>1. UNCHANGED <<clock, started, proc, labels, crashes, used, acked, unlogged, glued, lost>>
  BY DEF RenameOver
<1>2. faults' \in Nat
  BY <1>0 DEF RenameOver, Works, Fails
<1>3. sweep' \in SweepType
  BY SweepStates DEF RenameOver, ReopenAndAbort, Abort
<1>4. handle' \in [Files -> {"open", "nil", "dead"}]
  BY <1>0 DEF RenameOver, ReopenAndAbort
<1>5. pressed' \subseteq Files
  BY <1>0, <1>p DEF RenameOver
<1>6. disk' \in [Files -> SUBSET Events] /\ synced' \in [Files -> SUBSET Events]
      /\ tail' \in [Files -> Tails]
  <2>1. CASE UNCHANGED files
    BY <1>0, <2>1 DEF files
  <2>2. ASSUME NEW K \in Rewrites(g), Install(g, K)
        PROVE  disk' \in [Files -> SUBSET Events] /\ synced' \in [Files -> SUBSET Events]
               /\ tail' \in [Files -> Tails]
    <3>1. Parsed(g) \subseteq Events /\ disk[g] \subseteq Events
      BY <1>0 DEF Parsed
    <3>2. K \subseteq Events
      BY <2>2, <3>1, <1>p DEF Rewrites, Kept, Newest
    <3> QED BY <1>0, <2>2, <3>2 DEF Install, Tails
  <2> QED BY <1>p, <2>1, <2>2 DEF RenameOver
<1> QED BY <1>1, <1>2, <1>3, <1>4, <1>5, <1>6 DEF TypeOK, SweepType, labels

LEMMA RenameInv == ASSUME LogInv, RenameOver PROVE LogInv'
<1> USE DEF LogInv
<1>1. TypeOK' /\ (LabelsOK /\ FilesOK /\ UpClosed /\ Accepted)'
  BY RenameType, RenameShortens, ShorterFiles
<1>2. UNCHANGED <<clock, started, proc, acked, glued>> /\ (faults' = faults \/ faults' = faults + 1)
  BY DEF RenameOver, Works, Fails
<1>3. SweepOK'
  <2>1. sweep' = [sweep EXCEPT !.at = "renamed"] \/ sweep' = Idle
    BY DEF RenameOver, ReopenAndAbort, Abort
  <2>2. Busy /\ (Busy' => sweep'.cutoff = sweep.cutoff)
    BY <2>1, SweepStates DEF Busy, RenameOver
  <2> QED BY <1>2, <2>2 DEF SweepOK
<1>4. TailsOK'
  <2>1. Clean \notin acked
    BY LogAssumption DEF TypeOK
  <2> QED BY <1>2, <2>1, RenameShortens DEF TailsOK
<1>5. GluedOK'
  <2>1. Cardinality(Dirty') <= Cardinality(Dirty) /\ Cardinality(Dirty') \in Nat
    BY RenameShortens, DirtyFinite, FS_Subset, FS_CardinalityType
  <2>2. faults \in Nat
    BY DEF TypeOK
  <2> QED BY <1>2, <2>1, <2>2, DirtyFinite, GluedFinite DEF GluedOK
<1> QED BY <1>1, <1>3, <1>4, <1>5

----------------------------------------------------------------------------
(* Power failures *)

\* What a power failure takes from the end of a file, it takes from no other place.
LEMMA PowerShortens == ASSUME LogInv, PowerFailure PROVE Shortens
<1> USE DEF LogInv
<1>0. disk \in [Files -> SUBSET Events] /\ tail \in [Files -> Tails]
  BY DEF TypeOK
<1>1. PICK K \in [Files -> SUBSET Events] :
        /\ \A f \in Files : K[f] \in Newest(disk[f]) /\ K[f] \cap synced[f] = {}
        /\ disk' = [f \in Files |-> disk[f] \ K[f]]
        /\ \A f \in Files :
             \/ tail'[f] \in {Clean, Garbage}
             \/ K[f] = {} /\ tail'[f] = tail[f]
             \/ tail'[f] \in K[f] /\ \A e \in K[f] : pos[tail'[f]] <= pos[e]
  BY DEF PowerFailure
<1>a. lost' = lost \cup (Held \ Held')
  BY DEF PowerFailure
<1>2. UNCHANGED <<clock, synced, home, stamp, pos, used, acked, unlogged, glued, pressed>>
  BY DEF PowerFailure, labels
<1>3. \A f \in Files : K[f] \subseteq disk[f] /\ disk'[f] = disk[f] \ K[f]
  BY <1>0, <1>1 DEF Newest
<1>4. ASSUME NEW f \in Files PROVE Parsed(f)' \subseteq Parsed(f)
  <2>1. tail'[f] \in {Clean, Garbage} \/ tail'[f] = tail[f] \/ tail'[f] \in disk[f]
    BY <1>1, <1>3
  <2> QED BY <1>3, <2>1, LogAssumption DEF Parsed
<1>5. ASSUME NEW f \in Files PROVE synced'[f] \subseteq disk'[f]
  BY <1>1, <1>2, <1>3 DEF FilesOK
<1>6. ASSUME NEW f \in Files, NEW b \in Parsed(f) \ lost' PROVE b \in Parsed(f)'
  <2>0. b \in Held /\ b \in Held'
    BY <1>a DEF Held
  <2>1. PICK g \in Files : b \in Parsed(g)'
    BY <2>0 DEF Held
  <2>2. b \in Parsed(g)
    BY <1>4, <2>1
  <2>3. g = f
    BY <2>2 DEF FilesOK
  <2> QED BY <2>1, <2>3
<1> QED BY <1>a, <1>2, <1>4, <1>5, <1>6 DEF Shortens

LEMMA PowerInv == ASSUME LogInv, PowerFailure PROVE LogInv'
<1> USE DEF LogInv
<1>0. disk \in [Files -> SUBSET Events] /\ crashes \in Nat
  BY DEF TypeOK
<1>1. (LabelsOK /\ FilesOK /\ UpClosed /\ Accepted)'
  BY PowerShortens, ShorterFiles
<1>2. /\ UNCHANGED <<clock, synced, labels, faults, used, acked, unlogged, glued, pressed>>
      /\ proc' = "down" /\ sweep' = Left /\ handle' = [f \in Files |-> "nil"]
      /\ crashes' = crashes + 1 /\ tail' \in [Files -> Tails] /\ started' = 0
  BY DEF PowerFailure, Gone
<1>3. disk' \in [Files -> SUBSET Events]
  BY <1>0 DEF PowerFailure
<1>4. lost' \subseteq used
  <2>1. \A f \in Files : Parsed(f) \subseteq used
    BY DEF FilesOK
  <2> QED BY <2>1 DEF PowerFailure, TypeOK, Held
<1>8. started' \in 0..clock'
  BY <1>2 DEF TypeOK
<1>5. TypeOK'
  BY <1>0, <1>2, <1>3, <1>4, <1>8, SweepStates DEF TypeOK, SweepType, labels
<1>6. SweepOK'
  BY <1>2, SweepStates DEF SweepOK, Busy
<1>7. TailsOK' /\ GluedOK'
  BY <1>2 DEF TailsOK, GluedOK
<1> QED BY <1>1, <1>5, <1>6, <1>7

----------------------------------------------------------------------------
(* Recovery *)

\* What the start of a process leaves of some files: after a record it leaves, all
\* that are not expired, and before it too unless storage pressure shortens the file.
Suffixes(new) ==
  /\ DOMAIN new \subseteq Files
  /\ \A f \in DOMAIN new :
       /\ new[f] \subseteq Parsed(f)
       /\ \A a \in new[f], b \in Parsed(f) : pos[a] < pos[b] => b \in new[f] \/ Expired(b)
       /\ f \notin pressed' => \A e \in Parsed(f) : e \in new[f] \/ Expired(e)

LEMMA PrunedSuffixes ==
  ASSUME LogInv, NEW n \in 0..NFiles PROVE Suffixes(Pruned(n))
<1>1. TypeOK /\ LabelsOK /\ FilesOK /\ clock - Retention \in Int /\ clock - Retention <= clock - Retention
  BY LogAssumption DEF LogInv, TypeOK
<1>2. 1..n \subseteq Files
  BY LogAssumption DEF Files
<1>3. DOMAIN Pruned(n) = 1..n /\ \A f \in 1..n : Pruned(n)[f] = Kept(f, clock - Retention)
  BY DEF Pruned
<1>4. ASSUME NEW f \in Files
      PROVE  /\ Kept(f, clock - Retention) \subseteq Parsed(f)
             /\ \A e \in Parsed(f) : e \in Kept(f, clock - Retention) \/ Expired(e)
  BY <1>1, KeptRecent
<1> QED BY <1>2, <1>3, <1>4 DEF Suffixes

LEMMA ShortenedSuffixes ==
  ASSUME LogInv, NEW n \in Files, NEW new \in [Files -> SUBSET Events],
         Shortened(n, new), 1..n \subseteq pressed'
  PROVE  Suffixes(new)
<1>1. TypeOK /\ DOMAIN new = Files /\ n \in Nat /\ NFiles \in 0..NFiles
  BY LogAssumption DEF LogInv, Files
<1>2. Suffixes(Pruned(NFiles)) /\ DOMAIN Pruned(NFiles) = Files
  BY <1>1, PrunedSuffixes DEF Pruned, Files
<1>3. ASSUME NEW f \in Files
      PROVE  /\ new[f] \subseteq Parsed(f)
             /\ \A a \in new[f], b \in Parsed(f) : pos[a] < pos[b] => b \in new[f] \/ Expired(b)
             /\ f \notin pressed' => \A e \in Parsed(f) : e \in new[f] \/ Expired(e)
  <2> DEFINE S == Pruned(NFiles)[f]
  <2>1. /\ S \subseteq Parsed(f)
        /\ \A a \in S, b \in Parsed(f) : pos[a] < pos[b] => b \in S \/ Expired(b)
        /\ f \notin pressed' => \A e \in Parsed(f) : e \in S \/ Expired(e)
    BY <1>2 DEF Suffixes
  <2>2. S \in SUBSET Events
    BY <2>1 DEF LogInv, TypeOK, Parsed
  <2>3. new[f] \in IF f <= n THEN Newest(S) ELSE {S}
    BY DEF Shortened
  <2> HIDE DEF S
  <2>4. CASE f <= n
    <3>1. f \in pressed'
      BY <1>1, <2>4 DEF Files
    <3>2. new[f] \subseteq S /\ \A a \in new[f], b \in S : pos[a] < pos[b] => b \in new[f]
      BY <1>1, <2>2, <2>3, <2>4, NewestClosed
    <3> QED BY <2>1, <3>1, <3>2
  <2>5. CASE ~(f <= n)
    <3>1. new[f] = S
      BY <2>3, <2>5
    <3> QED BY <2>1, <3>1
  <2> QED BY <2>4, <2>5
<1> QED BY <1>1, <1>3 DEF Suffixes

\* Replacing files by such suffixes.
LEMMA ReplaceShortens ==
  ASSUME LogInv, NEW new, Suffixes(new), Replace(new), pressed \subseteq pressed',
         UNCHANGED <<clock, labels, used, acked, unlogged, glued, lost>>
  PROVE  /\ Shortens /\ SyncedStep
         /\ disk' \in [Files -> SUBSET Events] /\ synced' \in [Files -> SUBSET Events]
         /\ tail' \in [Files -> Tails]
         /\ \A f \in DOMAIN new : tail'[f] = Clean
<1>0. disk \in [Files -> SUBSET Events] /\ synced \in [Files -> SUBSET Events]
      /\ tail \in [Files -> Tails] /\ DOMAIN new \subseteq Files
  BY DEF LogInv, TypeOK, Suffixes
<1>1. \A f \in DOMAIN new : disk'[f] = new[f] /\ synced'[f] = new[f] /\ tail'[f] = Clean
  BY <1>0 DEF Replace
<1>2. \A f \in Files \ DOMAIN new : disk'[f] = disk[f] /\ synced'[f] = synced[f] /\ tail'[f] = tail[f]
  BY <1>0 DEF Replace
<1>3. \A f \in DOMAIN new : new[f] \subseteq Events
  <2>1. \A f \in Files : Parsed(f) \subseteq Events
    BY <1>0 DEF Parsed
  <2> QED BY <2>1, <1>0 DEF Suffixes
<1>4. disk' \in [Files -> SUBSET Events] /\ synced' \in [Files -> SUBSET Events]
      /\ tail' \in [Files -> Tails]
  BY <1>0, <1>3 DEF Replace, Tails
<1>5. \A f \in DOMAIN new : Parsed(f)' = new[f]
  BY <1>1, LogAssumption DEF Parsed
<1>6. \A f \in Files \ DOMAIN new : Parsed(f)' = Parsed(f)
  BY <1>2 DEF Parsed
<1>7. ASSUME NEW f \in Files
      PROVE  /\ Parsed(f)' \subseteq Parsed(f) /\ synced'[f] \subseteq disk'[f]
             /\ \A a \in Parsed(f)', b \in (Parsed(f) \cap Written(f)) \ lost' :
                  pos[a] < pos[b] => b \in Parsed(f)' \/ Expired(b)
             /\ f \notin pressed' =>
                  \A e \in (Parsed(f) \cap Written(f)) \ lost' : e \in Parsed(f)' \/ Expired(e)
  <2>1. CASE f \in DOMAIN new
    BY <1>1, <1>5, <2>1 DEF Suffixes
  <2>2. CASE f \notin DOMAIN new
    BY <1>2, <1>6, <2>2 DEF LogInv, FilesOK
  <2> QED BY <2>1, <2>2
<1>8. SyncedStep
  <2> SUFFICES ASSUME NEW f \in Files, NEW e \in synced[f]
               PROVE  e \in synced'[f] \/ Expired(e) \/ f \in pressed'
    BY DEF SyncedStep
  <2>1. e \in Parsed(f)
    BY DEF LogInv, FilesOK, Parsed
  <2>2. CASE f \in DOMAIN new
    BY <1>1, <2>1, <2>2 DEF Suffixes
  <2>3. CASE f \notin DOMAIN new
    BY <1>2, <2>3
  <2> QED BY <2>2, <2>3
<1> QED BY <1>1, <1>4, <1>7, <1>8 DEF Shortens, labels

\* A start that fails leaves the process down and some files shortened.
LEMMA StartFailsInv == ASSUME LogInv, StartFails PROVE LogInv' /\ SyncedStep
<1>1. /\ proc = "down" /\ faults' = faults + 1
      /\ UNCHANGED <<clock, started, proc, handle, labels, sweep, crashes, used, acked, unlogged, glued, lost>>
  BY DEF StartFails, Fails
<1>2. PICK n \in Files :
        \/ Replace(Pruned(n - 1)) /\ UNCHANGED pressed
        \/ /\ pressed' = pressed \cup 1..n
           /\ \E new \in [Files -> SUBSET Events] : Shortened(n, new) /\ Replace(new)
  BY DEF StartFails
<1>3. pressed \subseteq pressed' /\ pressed' \subseteq Files
  <2>1. 1..n \subseteq Files /\ pressed \subseteq Files
    BY LogAssumption DEF Files, LogInv, TypeOK
  <2> QED BY <1>2, <2>1
<1>4. \E new : Suffixes(new) /\ Replace(new)
  <2>1. CASE Replace(Pruned(n - 1))
    <3>1. n - 1 \in 0..NFiles
      BY LogAssumption DEF Files
    <3> QED BY <2>1, <3>1, PrunedSuffixes
  <2>2. CASE /\ pressed' = pressed \cup 1..n
             /\ \E new \in [Files -> SUBSET Events] : Shortened(n, new) /\ Replace(new)
    <3>1. PICK new \in [Files -> SUBSET Events] : Shortened(n, new) /\ Replace(new)
      BY <2>2
    <3>2. 1..n \subseteq pressed'
      BY <2>2
    <3>3. Suffixes(new)
      BY <3>1, <3>2, ShortenedSuffixes
    <3> QED BY <3>1, <3>3
  <2> QED BY <1>2, <2>1, <2>2
<1>5. PICK new : Suffixes(new) /\ Replace(new)
  BY <1>4
<1>6. /\ Shortens /\ SyncedStep
      /\ disk' \in [Files -> SUBSET Events] /\ synced' \in [Files -> SUBSET Events]
      /\ tail' \in [Files -> Tails]
  BY <1>1, <1>3, <1>5, ReplaceShortens
<1>7. (LabelsOK /\ FilesOK /\ UpClosed /\ Accepted)'
  BY <1>6, ShorterFiles
<1>8. TypeOK'
  BY <1>1, <1>3, <1>6 DEF LogInv, TypeOK, labels
<1>9. SweepOK' /\ TailsOK'
  BY <1>1 DEF LogInv, SweepOK, TailsOK, Busy
<1>10. GluedOK'
  <2>1. faults \in Nat /\ Cardinality(glued) \in Nat /\ Cardinality(glued) <= faults
    BY GluedFinite DEF LogInv, TypeOK, GluedOK
  <2> QED BY <1>1, <2>1 DEF GluedOK
<1> QED BY <1>6, <1>7, <1>8, <1>9, <1>10 DEF LogInv

\* A start that succeeds leaves no tail in any file.
LEMMA StartInv == ASSUME LogInv, Start PROVE LogInv' /\ SyncedStep
<1>1. /\ proc' = "up" /\ started' = clock /\ sweep' = Idle /\ handle' = [f \in Files |-> "open"]
      /\ UNCHANGED <<clock, labels, faults, crashes, used, acked, unlogged, glued, lost>>
  BY DEF Start
<1>2. pressed \subseteq pressed' /\ pressed' \subseteq Files
  BY DEF Start, LogInv, TypeOK
<1>3. \E new : Suffixes(new) /\ Replace(new) /\ DOMAIN new = Files
  <2>0. NFiles \in 0..NFiles /\ NFiles \in Files /\ Files = 1..NFiles
    BY LogAssumption DEF Files
  <2>1. CASE Replace(Pruned(NFiles))
    BY <2>0, <2>1, PrunedSuffixes DEF Pruned
  <2>2. CASE /\ pressed' = Files
             /\ \E new \in [Files -> SUBSET Events] : Shortened(NFiles, new) /\ Replace(new)
    <3>1. PICK new \in [Files -> SUBSET Events] : Shortened(NFiles, new) /\ Replace(new)
      BY <2>2
    <3>2. 1..NFiles \subseteq pressed'
      BY <2>0, <2>2
    <3>3. Suffixes(new)
      BY <2>0, <3>1, <3>2, ShortenedSuffixes
    <3> QED BY <3>1, <3>3
  <2> QED BY <2>1, <2>2 DEF Start
<1>4. PICK new : Suffixes(new) /\ Replace(new) /\ DOMAIN new = Files
  BY <1>3
<1>5. /\ Shortens /\ SyncedStep
      /\ disk' \in [Files -> SUBSET Events] /\ synced' \in [Files -> SUBSET Events]
      /\ tail' \in [Files -> Tails]
      /\ \A f \in DOMAIN new : tail'[f] = Clean
  BY <1>1, <1>2, <1>4, ReplaceShortens
<1>6. \A f \in Files : tail'[f] = Clean
  BY <1>4, <1>5
<1>7. (LabelsOK /\ FilesOK /\ UpClosed /\ Accepted)'
  BY <1>5, ShorterFiles
<1>a. started' \in 0..clock'
  BY <1>1 DEF LogInv, TypeOK
<1>8. TypeOK'
  BY <1>1, <1>2, <1>5, <1>a, SweepStates DEF LogInv, TypeOK, labels, SweepType
<1>9. SweepOK'
  BY <1>1, SweepStates DEF SweepOK, Busy
<1>10. TailsOK'
  <2>1. Clean \notin acked'
    BY <1>8, LogAssumption DEF TypeOK
  <2> QED BY <1>6, <2>1 DEF TailsOK
<1>11. GluedOK'
  <2>1. Dirty' = {}
    BY <1>6 DEF Dirty
  <2>2. faults \in Nat /\ Cardinality(glued) \in Nat /\ Cardinality(glued) <= faults
    BY GluedFinite DEF LogInv, TypeOK, GluedOK
  <2> QED BY <1>1, <2>1, <2>2, FS_EmptySet DEF GluedOK
<1> QED BY <1>5, <1>7, <1>8, <1>9, <1>10, <1>11 DEF LogInv

----------------------------------------------------------------------------
(* AddEvent and its twins *)

\* A record that is handed to AddEvent is new, and comes after all others.
LEMMA LabelStep ==
  ASSUME LogInv, NEW f \in Files, NEW e \in Events, e \notin used, Label(f, e), UNCHANGED clock
  PROVE  /\ LabelsOK'
         /\ used' = used \cup {e} /\ used \subseteq Events
         /\ home' \in [Events -> Files] /\ stamp' \in [Events -> Nat] /\ pos' \in [Events -> Nat]
         /\ \A d \in used : home'[d] = home[d] /\ stamp'[d] = stamp[d] /\ pos'[d] = pos[d]
         /\ \A d \in used : ~(pos'[e] < pos'[d])
         /\ home'[e] = f /\ \A g \in Files : e \notin Parsed(g) /\ tail[g] # e
<1> USE DEF LogInv
<1>0. home \in [Events -> Files] /\ stamp \in [Events -> Nat] /\ pos \in [Events -> Nat]
      /\ used \subseteq Events /\ clock \in Nat /\ started \in 0..clock
  BY DEF TypeOK
<1>a. PICK at \in started..clock : stamp' = [stamp EXCEPT ![e] = at]
  BY DEF Label
<1>b. at \in Nat /\ at <= clock
  BY <1>0, <1>a
<1>1. Cardinality(used) \in Nat /\ IsFiniteSet(used')
      /\ Cardinality(used') = Cardinality(used) + 1
  BY FS_CardinalityType, FS_AddElement DEF LabelsOK, Label
<1>2. used' = used \cup {e} /\ home' = [home EXCEPT ![e] = f]
      /\ stamp' = [stamp EXCEPT ![e] = at] /\ pos' = [pos EXCEPT ![e] = Cardinality(used) + 1]
  BY <1>a DEF Label
<1>3. home' \in [Events -> Files] /\ stamp' \in [Events -> Nat] /\ pos' \in [Events -> Nat]
  BY <1>0, <1>1, <1>2, <1>b
<1>4. \A d \in used : home'[d] = home[d] /\ stamp'[d] = stamp[d] /\ pos'[d] = pos[d]
  BY <1>0, <1>2
<1>5. home'[e] = f /\ stamp'[e] = at /\ pos'[e] = Cardinality(used) + 1
  BY <1>0, <1>2
<1>6. \A d \in used : pos[d] \in Nat /\ stamp[d] \in Nat /\ pos[d] <= Cardinality(used) /\ stamp[d] <= clock
  BY <1>0 DEF LabelsOK
<1>7. \A d \in used : ~(pos'[e] < pos'[d])
  BY <1>1, <1>4, <1>5, <1>6
<1>8. LabelsOK'
  <2>1. \A d \in used' : pos'[d] <= Cardinality(used') /\ stamp'[d] <= clock
    BY <1>0, <1>b, <1>1, <1>2, <1>4, <1>5, <1>6
  <2> QED BY <1>1, <2>1 DEF LabelsOK
<1>9. \A g \in Files : e \notin Parsed(g) /\ tail[g] # e
  BY DEF FilesOK, Parsed
<1> QED BY <1>0, <1>2, <1>3, <1>4, <1>5, <1>7, <1>8, <1>9

\* The frame of such a step: the file may gain the record, and loses no record that
\* was accepted.
Appends(f, e) ==
  /\ e \notin used /\ Label(f, e) /\ UNCHANGED <<clock, started, proc, handle, synced, sweep, crashes, pressed, lost>>
  /\ acked' \subseteq acked \cup {e}
  /\ \A g \in Files :
       /\ disk[g] \subseteq disk'[g]
       /\ Parsed(g)' \subseteq Parsed(g) \cup (IF g = f THEN {e} ELSE {})
       /\ Parsed(g) \cap acked \subseteq Parsed(g)'
       /\ \A d \in Written(g)' : d \in Written(g) \/ (d = e /\ e \in Parsed(g)')

LEMMA AppendFiles ==
  ASSUME LogInv, NEW f \in Files, NEW e \in Events, Appends(f, e)
  PROVE  (LabelsOK /\ FilesOK /\ SweepOK /\ UpClosed /\ Accepted)'
<1> USE DEF LogInv
<1>1. /\ LabelsOK'
      /\ used' = used \cup {e} /\ used \subseteq Events
      /\ \A d \in used : home'[d] = home[d] /\ stamp'[d] = stamp[d] /\ pos'[d] = pos[d]
      /\ \A d \in used : ~(pos'[e] < pos'[d])
      /\ home'[e] = f
  BY LabelStep DEF Appends
<1>2. \A g \in Files : Parsed(g) \subseteq used /\ Written(g) \subseteq used /\ Written(g) \subseteq acked
  BY DEF FilesOK, Written, TypeOK
<1>3. FilesOK'
  <2> SUFFICES ASSUME NEW g \in Files
               PROVE  /\ Parsed(g)' \subseteq used' /\ \A d \in Parsed(g)' : home'[d] = g
                      /\ synced'[g] \subseteq disk'[g]
    BY DEF FilesOK
  <2>1. Parsed(g)' \subseteq Parsed(g) \cup (IF g = f THEN {e} ELSE {})
    BY DEF Appends
  <2>2. \A d \in Parsed(g) : home'[d] = g
    BY <1>1, <1>2 DEF FilesOK
  <2>3. synced'[g] \subseteq disk'[g]
    BY DEF Appends, FilesOK
  <2> QED BY <1>1, <1>2, <2>1, <2>2, <2>3
<1>4. SweepOK'
  BY DEF SweepOK, Appends, Busy
<1>5. UpClosed'
  <2> SUFFICES ASSUME NEW g \in Files, NEW a \in Parsed(g)', NEW b \in Written(g)' \ lost', pos'[a] < pos'[b]
               PROVE  b \in Parsed(g)' \/ Expired(b)'
    BY DEF UpClosed
  <2>1. b \in Written(g) \/ (b = e /\ e \in Parsed(g)')
    BY DEF Appends
  <2>2. CASE b \in Written(g)
    <3>1. b \in used /\ b \in acked /\ b \notin lost
      BY <1>2, <2>2 DEF Appends
    <3>2. a # e
      BY <1>1, <3>1
    <3>3. a \in Parsed(g)
      BY <3>2 DEF Appends
    <3>4. pos[a] < pos[b]
      BY <1>1, <1>2, <3>1, <3>3
    <3>5. b \in Parsed(g) \/ Expired(b)
      BY <2>2, <3>1, <3>3, <3>4 DEF UpClosed
    <3>6. Expired(b)' <=> Expired(b)
      BY <1>1, <3>1 DEF Expired, Appends
    <3> QED BY <3>1, <3>5, <3>6 DEF Appends
  <2> QED BY <2>1, <2>2
<1>6. Accepted'
  <2> SUFFICES ASSUME NEW g \in Files, g \notin pressed', NEW b \in Written(g)' \ lost'
               PROVE  b \in Parsed(g)' \/ Expired(b)'
    BY DEF Accepted
  <2>1. b \in Written(g) \/ (b = e /\ e \in Parsed(g)')
    BY DEF Appends
  <2>2. CASE b \in Written(g)
    <3>1. b \in used /\ b \in acked /\ b \notin lost /\ g \notin pressed
      BY <1>2, <2>2 DEF Appends
    <3>2. b \in Parsed(g) \/ Expired(b)
      BY <2>2, <3>1 DEF Accepted
    <3>3. Expired(b)' <=> Expired(b)
      BY <1>1, <3>1 DEF Expired, Appends
    <3> QED BY <3>1, <3>2, <3>3 DEF Appends
  <2> QED BY <2>1, <2>2
<1> QED BY <1>1, <1>3, <1>4, <1>5, <1>6

\* The types of what every such step leaves alone or labels.
LEMMA AppendType ==
  ASSUME LogInv, NEW f \in Files, NEW e \in Events, Appends(f, e),
         disk' \in [Files -> SUBSET Events], tail' \in [Files -> Tails], faults' \in Nat,
         acked' \subseteq used', unlogged' \subseteq acked', glued' \subseteq acked'
  PROVE  TypeOK'
<1>1. /\ used' \subseteq Events /\ used \subseteq used'
      /\ home' \in [Events -> Files] /\ stamp' \in [Events -> Nat] /\ pos' \in [Events -> Nat]
  BY LabelStep DEF Appends
<1> QED BY <1>1 DEF LogInv, TypeOK, Appends

LEMMA UnloggedInv ==
  ASSUME LogInv, NEW f \in Files, NEW e \in Events, AddUnlogged(f, e) PROVE LogInv'
<1>1. /\ e \notin used /\ Label(f, e) /\ acked' = acked \cup {e} /\ unlogged' = unlogged \cup {e}
      /\ UNCHANGED <<clock, started, proc, handle, disk, tail, synced, sweep, faults, crashes, glued, pressed, lost>>
  BY DEF AddUnlogged, files
<1>2. /\ used' = used \cup {e} /\ \A d \in used : home'[d] = home[d]
      /\ \A g \in Files : tail[g] # e
  BY <1>1, LabelStep
<1>3. \A g \in Files : Parsed(g)' = Parsed(g)
  BY <1>1 DEF Parsed
<1>4. \A g \in Files : \A d \in Written(g)' : d \in Written(g)
  BY <1>1, <1>2 DEF Written, LogInv, TypeOK
<1>5. Appends(f, e)
  BY <1>1, <1>3, <1>4 DEF Appends
<1>6. TypeOK'
  BY <1>1, <1>2, <1>5, AppendType DEF LogInv, TypeOK
<1>7. TailsOK' /\ GluedOK'
  <2>1. Dirty' = Dirty
    BY <1>1 DEF Dirty
  <2> QED BY <1>1, <1>2, <2>1 DEF LogInv, TailsOK, GluedOK
<1> QED BY <1>5, <1>6, <1>7, AppendFiles DEF LogInv

\* On a clean file the record is in the file; after a failed write it is glued to
\* the tail, and the tail is gone.
LEMMA WrittenInv ==
  ASSUME LogInv, NEW f \in Files, NEW e \in Events, AddWritten(f, e) PROVE LogInv'
<1>0. disk \in [Files -> SUBSET Events] /\ tail \in [Files -> Tails] /\ faults \in Nat
      /\ acked \subseteq used /\ unlogged \subseteq acked /\ glued \subseteq acked
  BY DEF LogInv, TypeOK
<1>1. /\ e \notin used /\ Label(f, e) /\ acked' = acked \cup {e} /\ proc # "down"
      /\ tail' = [tail EXCEPT ![f] = Clean]
      /\ UNCHANGED <<clock, started, proc, handle, synced, sweep, faults, crashes, unlogged, pressed, lost>>
  BY DEF AddWritten, Running
<1>2. /\ used' = used \cup {e} /\ \A d \in used : home'[d] = home[d]
      /\ home'[e] = f /\ \A g \in Files : tail[g] # e
  BY <1>1, LabelStep
<1>3. tail'[f] = Clean /\ \A g \in Files \ {f} : tail'[g] = tail[g]
  BY <1>0, <1>1
<1>4. tail' \in [Files -> Tails] /\ \A g \in Files : tail[g] \notin acked
  BY <1>0, <1>1 DEF Tails, LogInv, TailsOK
<1>5. TailsOK'
  <2>1. Clean \notin acked \cup {e}
    BY <1>0, LogAssumption DEF LogInv, TypeOK
  <2> QED BY <1>1, <1>2, <1>3, <1>4, <2>1 DEF TailsOK
<1>6. CASE tail[f] = Clean
  <2>1. disk' = [disk EXCEPT ![f] = disk[f] \cup {e}] /\ glued' = glued
    BY <1>6 DEF AddWritten
  <2>2. disk'[f] = disk[f] \cup {e} /\ \A g \in Files \ {f} : disk'[g] = disk[g]
    BY <1>0, <2>1
  <2>3. \A g \in Files : tail'[g] = tail[g]
    BY <1>3, <1>6
  <2>4. Parsed(f)' = Parsed(f) \cup {e} /\ \A g \in Files \ {f} : Parsed(g)' = Parsed(g)
    BY <2>2, <2>3 DEF Parsed
  <2>5. \A g \in Files : \A d \in Written(g)' : d \in Written(g) \/ (d = e /\ e \in Parsed(g)')
    <3> SUFFICES ASSUME NEW g \in Files, NEW d \in Written(g)'
                 PROVE  d \in Written(g) \/ (d = e /\ e \in Parsed(g)')
      OBVIOUS
    <3>1. d \in acked \cup {e} /\ d \notin unlogged /\ d \notin glued /\ home'[d] = g
      BY <1>1, <2>1 DEF Written
    <3>2. CASE d = e
      BY <1>2, <2>4, <3>1, <3>2
    <3>3. CASE d # e
      BY <1>0, <1>2, <3>1, <3>3 DEF Written
    <3> QED BY <3>2, <3>3
  <2>6. \A g \in Files : /\ disk[g] \subseteq disk'[g]
                         /\ Parsed(g)' \subseteq Parsed(g) \cup (IF g = f THEN {e} ELSE {})
                         /\ Parsed(g) \cap acked \subseteq Parsed(g)'
    BY <2>2, <2>4
  <2>7. Appends(f, e)
    BY <1>1, <2>5, <2>6 DEF Appends
  <2>8. TypeOK'
    BY <1>0, <1>1, <1>2, <1>4, <2>1, <2>7, AppendType
  <2>9. GluedOK'
    <3>1. Dirty' = Dirty
      BY <2>3 DEF Dirty
    <3> QED BY <1>1, <2>1, <3>1 DEF LogInv, GluedOK
  <2> QED BY <1>5, <2>7, <2>8, <2>9, AppendFiles DEF LogInv
<1>7. CASE tail[f] # Clean
  <2>1. disk' = disk /\ glued' = glued \cup {e}
    BY <1>7 DEF AddWritten
  <2>2. Parsed(f)' = disk[f] /\ \A g \in Files \ {f} : Parsed(g)' = Parsed(g)
    BY <1>3, <2>1, LogAssumption DEF Parsed
  <2>3. \A g \in Files : /\ disk[g] \subseteq disk'[g]
                         /\ Parsed(g)' \subseteq Parsed(g) \cup (IF g = f THEN {e} ELSE {})
                         /\ Parsed(g) \cap acked \subseteq Parsed(g)'
    <3> SUFFICES ASSUME NEW g \in Files
                 PROVE  /\ Parsed(g)' \subseteq Parsed(g)
                        /\ Parsed(g) \cap acked \subseteq Parsed(g)'
      BY <2>1
    <3>1. CASE g = f
      BY <1>4, <2>2, <3>1 DEF Parsed
    <3>2. CASE g # f
      BY <2>2, <3>2
    <3> QED BY <3>1, <3>2
  <2>4. \A g \in Files : \A d \in Written(g)' : d \in Written(g)
    BY <1>0, <1>1, <1>2, <2>1 DEF Written
  <2>5. Appends(f, e)
    BY <1>1, <2>3, <2>4 DEF Appends
  <2>6. TypeOK'
    BY <1>0, <1>1, <1>2, <1>4, <2>1, <2>5, AppendType
  <2>7. GluedOK'
    <3>1. Dirty' = Dirty \ {f} /\ f \in Dirty
      BY <1>3, <1>7 DEF Dirty
    <3>2. Cardinality(Dirty') = Cardinality(Dirty) - 1
      BY <3>1, DirtyFinite, FS_RemoveElement
    <3>3. IsFiniteSet(glued) /\ e \notin glued
      BY <1>0, <1>1, GluedFinite DEF LogInv
    <3>4. Cardinality(glued') = Cardinality(glued) + 1
      BY <2>1, <3>3, FS_AddElement
    <3>5. Cardinality(glued) + Cardinality(Dirty) <= faults
      BY <1>1 DEF LogInv, GluedOK
    <3>6. Cardinality(glued) \in Nat /\ Cardinality(Dirty) \in Nat /\ Cardinality(Dirty') \in Nat
      <4>1. IsFiniteSet(Dirty')
        BY <3>1, DirtyFinite, FS_RemoveElement
      <4> QED BY <4>1, DirtyFinite, GluedFinite, FS_CardinalityType DEF LogInv
    <3> QED BY <1>0, <1>1, <3>2, <3>4, <3>5, <3>6 DEF GluedOK
  <2> QED BY <1>5, <2>5, <2>6, <2>7, AppendFiles DEF LogInv
<1> QED BY <1>6, <1>7

\* A failed write leaves the record out, or whole but without its newline; either
\* way it was not accepted.
LEMMA FailedInv ==
  ASSUME LogInv, NEW f \in Files, NEW e \in Events, AddFailed(f, e) PROVE LogInv'
<1>0. disk \in [Files -> SUBSET Events] /\ tail \in [Files -> Tails] /\ faults \in Nat
      /\ acked \subseteq used /\ unlogged \subseteq acked /\ glued \subseteq acked
  BY DEF LogInv, TypeOK
<1>1. /\ e \notin used /\ Label(f, e) /\ proc # "down"
      /\ UNCHANGED <<clock, started, proc, handle, disk, synced, sweep, crashes, acked, unlogged, glued, pressed, lost>>
  BY DEF AddFailed, Running
<1>2. /\ used' = used \cup {e} /\ \A d \in used : home'[d] = home[d]
      /\ \A g \in Files : tail[g] # e
  BY <1>1, LabelStep
<1>3. \E left \in {tail[f], Garbage, e} :
        /\ tail' = [tail EXCEPT ![f] = left]
        /\ faults' = faults + 1 \/ (faults' = faults /\ left = tail[f])
        /\ left = e => tail[f] = Clean
  <2>1. CASE faults' = faults /\ tail' = tail
    <3>1. tail' = [tail EXCEPT ![f] = tail[f]] /\ tail[f] # e
      BY <1>0, <1>2, <2>1
    <3> QED BY <2>1, <3>1
  <2>2. CASE /\ faults' = faults + 1
             /\ \E left \in {tail[f], Garbage} \cup (IF tail[f] = Clean THEN {e} ELSE {}) :
                  tail' = [tail EXCEPT ![f] = left]
    <3>1. PICK left \in {tail[f], Garbage} \cup (IF tail[f] = Clean THEN {e} ELSE {}) :
                 tail' = [tail EXCEPT ![f] = left]
      BY <2>2
    <3>2. left \in {tail[f], Garbage, e} /\ (left = e => tail[f] = Clean)
      BY <1>2, LogAssumption
    <3> QED BY <2>2, <3>1, <3>2
  <2> QED BY <2>1, <2>2 DEF AddFailed, Works, Fails
<1>4. PICK left \in {tail[f], Garbage, e} :
        /\ tail' = [tail EXCEPT ![f] = left]
        /\ faults' = faults + 1 \/ (faults' = faults /\ left = tail[f])
        /\ left = e => tail[f] = Clean
  BY <1>3
<1>5. tail'[f] = left /\ \A g \in Files \ {f} : tail'[g] = tail[g]
  BY <1>0, <1>4
<1>6. \A g \in Files : tail[g] \notin acked
  BY <1>1 DEF LogInv, TailsOK
<1>7. TailsOK'
  <2>1. Garbage \notin acked /\ e \notin acked
    BY <1>0, <1>1, LogAssumption DEF LogInv, TypeOK
  <2> QED BY <1>1, <1>4, <1>5, <1>6, <2>1 DEF TailsOK
<1>8. \A g \in Files : /\ disk[g] \subseteq disk'[g]
                       /\ Parsed(g)' \subseteq Parsed(g) \cup (IF g = f THEN {e} ELSE {})
                       /\ Parsed(g) \cap acked \subseteq Parsed(g)'
  <2> SUFFICES ASSUME NEW g \in Files
               PROVE  /\ Parsed(g)' \subseteq Parsed(g) \cup (IF g = f THEN {e} ELSE {})
                      /\ Parsed(g) \cap acked \subseteq Parsed(g)'
    BY <1>1
  <2>1. CASE g = f
    BY <1>1, <1>4, <1>5, <1>6, <2>1, LogAssumption DEF Parsed
  <2>2. CASE g # f
    BY <1>1, <1>5, <2>2 DEF Parsed
  <2> QED BY <2>1, <2>2
<1>9. \A g \in Files : \A d \in Written(g)' : d \in Written(g)
  BY <1>0, <1>1, <1>2 DEF Written
<1>10. Appends(f, e)
  BY <1>1, <1>8, <1>9 DEF Appends
<1>11. TypeOK'
  <2>1. tail' \in [Files -> Tails] /\ faults' \in Nat
    BY <1>0, <1>4 DEF Tails
  <2> QED BY <1>0, <1>1, <1>2, <1>10, <2>1, AppendType
<1>12. GluedOK'
  <2>0. /\ Cardinality(glued) \in Nat /\ Cardinality(Dirty) \in Nat
        /\ Cardinality(glued) + Cardinality(Dirty) <= faults
    BY <1>1, DirtyFinite, GluedFinite DEF LogInv, GluedOK
  <2>1. CASE faults' = faults /\ left = tail[f]
    <3>1. Dirty' = Dirty
      BY <1>5, <2>1 DEF Dirty
    <3> QED BY <1>1, <2>0, <2>1, <3>1, <1>0 DEF GluedOK
  <2>2. CASE faults' = faults + 1
    <3>1. Dirty' \subseteq Dirty \cup {f}
      BY <1>5 DEF Dirty
    <3>2. IsFiniteSet(Dirty \cup {f}) /\ Cardinality(Dirty \cup {f}) <= Cardinality(Dirty) + 1
      <4>1. /\ IsFiniteSet(Dirty \cup {f})
            /\ Cardinality(Dirty \cup {f}) = Cardinality(Dirty) \/ Cardinality(Dirty \cup {f}) = Cardinality(Dirty) + 1
        BY DirtyFinite, FS_AddElement
      <4> QED BY <2>0, <4>1
    <3>3. Cardinality(Dirty') <= Cardinality(Dirty \cup {f}) /\ Cardinality(Dirty') \in Nat
          /\ Cardinality(Dirty \cup {f}) \in Nat
      BY <3>1, <3>2, FS_Subset, FS_CardinalityType
    <3> QED BY <1>0, <1>1, <2>0, <2>2, <3>2, <3>3 DEF GluedOK
  <2> QED BY <1>4, <2>1, <2>2
<1> QED BY <1>7, <1>10, <1>11, <1>12, AppendFiles DEF LogInv

----------------------------------------------------------------------------
(* The theorems *)

LEMMA InitInv == ASSUME Init PROVE LogInv
<1> USE LogAssumption DEF Init
<1>1. 1 \in Files
  BY DEF Files
<1>2. TypeOK
  BY <1>1 DEF TypeOK, Tails, Left, Idle
<1>3. \A f \in Files : Parsed(f) = {} /\ Written(f) = {} /\ synced[f] = {}
  BY DEF Parsed, Written
<1>4. LabelsOK /\ FilesOK /\ UpClosed /\ Accepted
  BY <1>3, FS_EmptySet DEF LabelsOK, FilesOK, UpClosed, Accepted
<1>5. SweepOK /\ TailsOK /\ GluedOK
  BY FS_EmptySet DEF SweepOK, Busy, Left, Idle, TailsOK, GluedOK
<1> QED BY <1>2, <1>4, <1>5 DEF LogInv

\* The invariant and SyncedStep, action by action.
LEMMA NextInv == ASSUME LogInv, [Next]_vars PROVE LogInv' /\ SyncedStep
<1>0. ASSUME Quiet PROVE SyncedStep
  BY <1>0 DEF Quiet, SyncedStep, LogInv, FilesOK
<1>1. CASE Tick \/ SyncFiles \/ StartSweep \/ StopSweep \/ BeginClose \/ EndClose
  <2>1. \A f \in Files : synced'[f] = synced[f] \/ synced'[f] = disk[f]
    BY <1>1 DEF Tick, SyncFiles, StartSweep, StopSweep, BeginClose, EndClose, files
  <2>2. SyncedStep
    BY <2>1 DEF SyncedStep, LogInv, FilesOK
  <2> QED BY <1>1, <2>2, CalmInv
<1>2. CASE CloseActive \/ CopyKept \/ ReopenActive
  <2>1. synced' = synced \/ synced' = [synced EXCEPT ![sweep.file] = disk[sweep.file]]
    BY <1>2 DEF CloseActive, CopyKept, ReopenActive, files
  <2>2. \A f \in Files : synced'[f] = synced[f] \/ synced'[f] = disk[f]
    BY <2>1 DEF LogInv, TypeOK
  <2>3. SyncedStep
    BY <2>2 DEF SyncedStep, LogInv, FilesOK
  <2> QED BY <1>2, <2>3, CompactInv
<1>3. CASE RenameOver
  BY <1>3, RenameInv, RenameShortens
<1>4. CASE Exit \/ Crash
  <2>1. synced' = synced
    BY <1>4 DEF Exit, Crash, files
  <2> QED BY <1>4, <2>1, GoneInv DEF SyncedStep
<1>5. CASE PowerFailure
  <2>1. synced' = synced
    BY <1>5 DEF PowerFailure
  <2> QED BY <1>5, <2>1, PowerInv DEF SyncedStep
<1>6. CASE StartFails \/ Start
  BY <1>6, StartFailsInv, StartInv
<1>7. CASE Add
  <2>1. PICK f \in Files, e \in Events : AddUnlogged(f, e) \/ AddWritten(f, e) \/ AddFailed(f, e)
    BY <1>7 DEF Add
  <2>2. synced' = synced
    BY <2>1 DEF AddUnlogged, AddWritten, AddFailed, files
  <2> QED BY <2>1, <2>2, UnloggedInv, WrittenInv, FailedInv DEF SyncedStep
<1>8. CASE UNCHANGED vars
  <2>1. /\ UNCHANGED <<disk, tail, labels, used, acked, unlogged, glued, pressed, lost>>
        /\ UNCHANGED <<clock, started, crashes, proc, handle, synced, sweep, faults>>
    BY <1>8 DEF vars, files, labels, history
  <2>2. Quiet
    BY <2>1 DEF Quiet, LogInv, TypeOK
  <2>3. sweep' \in SweepType /\ handle' \in [Files -> {"open", "nil", "dead"}] /\ (Busy' => Busy)
    BY <2>1 DEF LogInv, TypeOK, SweepType, Busy
  <2> QED BY <1>0, <2>1, <2>2, <2>3, QuietSweep
<1> QED BY <1>1, <1>2, <1>3, <1>4, <1>5, <1>6, <1>7, <1>8 DEF Next, Sweep

LEMMA LogInvariant == Spec => []LogInv
<1>1. Init => LogInv
  BY InitInv
<1>2. LogInv /\ [Next]_vars => LogInv'
  BY NextInv
<1> QED BY <1>1, <1>2, PTL DEF Spec

\* Type correctness of the files, the handles, the sweep and the history.
THEOREM TypeCorrect == Spec => []TypeOK
<1>1. LogInv => TypeOK
  BY DEF LogInv
<1> QED BY <1>1, LogInvariant, PTL

\* A record AddEvent wrote and accepted stays in its file until it expires, whatever
\* rewrites fail and whenever the process dies; glued records are never more than
\* failed file operations.
THEOREM AcceptedStays == Spec => []AcceptedKept
<1>1. LogInv => AcceptedKept
  BY DEF LogInv, GluedOK, Accepted, AcceptedKept
<1> QED BY <1>1, LogInvariant, PTL

\* Of what was accepted between two records of a file, nothing is missing but what
\* retention may take: pressure and failures shorten a file at its ends only.
THEOREM FilesHaveNoHoles == Spec => []NoHoles
<1>1. LogInv => NoHoles
  BY DEF LogInv, UpClosed, NoHoles
<1> QED BY <1>1, LogInvariant, PTL

\* What has been synced leaves the disk by retention or storage pressure only.
THEOREM SyncedKept == Spec => SyncedStays
<1>1. LogInv /\ [Next]_vars => [SyncedStep]_vars
  BY NextInv
<1>2. [SyncedStep]_vars =>
      [\A f \in Files : \A e \in synced[f] : e \in synced'[f] \/ Expired(e) \/ f \in pressed']_vars
  BY DEF SyncedStep
<1> QED BY <1>1, <1>2, LogInvariant, PTL DEF Spec, SyncedStays

=============================================================================
