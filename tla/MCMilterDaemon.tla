--------------------------- MODULE MCMilterDaemon ---------------------------
(* MilterDaemon for TLC: argument lists around the length start expects.   *)
EXTENDS MilterDaemon

(* A call of n well-typed arguments. *)
WellTyped(n) ==
  [i \in 1..n |-> CASE i = 1 -> "string" [] i = 2 -> "number"
                    [] OTHER -> "function"]

(* Thirteen to fifteen arguments, and fifteen with one that is wrong. *)
MCArguments ==
  {WellTyped(n) : n \in 13..15}
    \cup {[WellTyped(15) EXCEPT ![i] = "other"] : i \in 1..15}

=============================================================================
