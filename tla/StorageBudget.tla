--------------------------- MODULE StorageBudget ---------------------------
(***************************************************************************)
(* compactJSONLStorageBudget and compactJSONLTail                          *)
(* (internal/store/retention.go): how emergency cleanup divides the target *)
(* size among the event files and what each file keeps of its records.     *)
(*                                                                         *)
(* A file is the sequence of its records, oldest first, and every record   *)
(* has a size in bytes, its newline included.                              *)
(***************************************************************************)
EXTENDS Integers, Sequences, FiniteSetsExt

\* Where each record ends in the file; 0 is where it begins.
Ends(file) ==
  LET end[i \in 0 .. Len(file)] == IF i = 0 THEN 0 ELSE end[i - 1] + file[i].size
  IN  end

Bytes(file) == Ends(file)[Len(file)]

Total(fs) ==
  LET upto[i \in 0 .. Len(fs)] == IF i = 0 THEN 0 ELSE upto[i - 1] + Bytes(fs[i])
  IN  upto[Len(fs)]

\* The record that the position maxBytes before the end of the file lies in.
Partial(file, maxBytes) ==
  Min({i \in DOMAIN file : Ends(file)[i] > Bytes(file) - maxBytes})

\* A mutant: the record the cut goes through is kept.
compactJSONLTailWhole(file, maxBytes) ==
  IF Bytes(file) <= maxBytes \/ maxBytes < 1 THEN file
  ELSE SubSeq(file, Partial(file, maxBytes), Len(file))

\* The file is read from maxBytes before its end, and what is read up to the
\* first newline is skipped.
compactJSONLTail(file, maxBytes) ==
  IF Bytes(file) <= maxBytes \/ maxBytes < 1 THEN file
  ELSE SubSeq(file, Partial(file, maxBytes) + 1, Len(file))

\* The part of the target for a file of this size, in proportion to what is left
\* of both.
Share(size, remainingTarget, remainingSize) ==
  Min({size, Max({1, (remainingTarget * size) \div remainingSize})})

\* One turn of the loop over the files; an empty file is skipped.
CompactNext(acc, i, size) ==
  LET share == Share(size, acc.target, acc.size)
  IN  IF size = 0 THEN acc
      ELSE [files |-> [acc.files EXCEPT ![i] = compactJSONLTail(@, share)],
            shares |-> [acc.shares EXCEPT ![i] = share],
            target |-> acc.target - share, size |-> acc.size - size]

\* The files, and the share of each, after the cleanup.
Compaction(fs, targetBytes) ==
  LET after[i \in 0 .. Len(fs)] ==
        IF i = 0 THEN [files |-> fs, shares |-> [j \in DOMAIN fs |-> 0],
                       target |-> targetBytes, size |-> Total(fs)]
        ELSE CompactNext(after[i - 1], i, Bytes(fs[i]))
  IN  after[Len(fs)]

compactJSONLStorageBudget(fs, targetBytes) ==
  IF Total(fs) <= targetBytes THEN fs ELSE Compaction(fs, targetBytes).files
============================================================================
