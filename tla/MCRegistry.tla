----------------------------- MODULE MCRegistry -----------------------------
(* Small instances of Registry: two processes, two ids, two records. *)
EXTENDS Registry, TLC

CONSTANTS a, b, r1, r2

\* An older registry that holds the app a.
OneApp == (a :> r1) @@ (b :> Absent)
=============================================================================
