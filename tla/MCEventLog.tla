----------------------------- MODULE MCEventLog -----------------------------
(* Small instances of EventLog for TLC. *)
EXTENDS EventLog, TLC

Symmetry == Permutations(Events)

\* Every operation of a rewrite may fail, except closing the file.
RecoverableFaults == AllFaults \ {"close"}
=============================================================================
