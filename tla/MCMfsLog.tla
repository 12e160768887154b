------------------------------ MODULE MCMfsLog ------------------------------
(* Small instances of MfsLog for TLC. *)
EXTENDS LogInvariant

MCZoneOf == [b \in Blocks |-> IF b = 1 THEN 1 ELSE 2]

\* What the proofs assume of the length of the log holds of these.
ASSUME MCLogLongEnough == Fits(LongestTxn)
=============================================================================
