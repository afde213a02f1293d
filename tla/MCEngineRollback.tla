--------------------------- MODULE MCEngineRollback ---------------------------
(* Two concurrent calls: a late attempt meets the one that took its turn   *)
(* over, and both may be dispatched before the Workspace moves.            *)
EXTENDS EngineRollback, TLC

CONSTANTS w1, w2

Symmetry == Permutations({w1, w2})

(* As the failures, the logout comes before the last fence.               *)
Bounded == session' # session => fence < MaxFence
===============================================================================
