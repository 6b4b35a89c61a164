------------------------------- MODULE Tables -------------------------------
(***************************************************************************)
(* Go maps: a table is a function from the keys that are present to their  *)
(* values.                                                                 *)
(***************************************************************************)

\* m[k] = v
Put(f, k, v) == [x \in DOMAIN f \cup {k} |-> IF x = k THEN v ELSE f[x]]

\* delete(m, k)
Delete(f, k) == [x \in DOMAIN f \ {k} |-> f[x]]

\* The entries of f, and those of g under other keys.
Over(f, g) == [x \in DOMAIN f \cup DOMAIN g |-> IF x \in DOMAIN f THEN f[x] ELSE g[x]]
=============================================================================
