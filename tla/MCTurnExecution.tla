---------------------------- MODULE MCTurnExecution ---------------------------
(* Two concurrent calls, so that a late attempt meets the one that took    *)
(* its turn over.  No symmetry: liveness is checked with it.               *)
EXTENDS TurnExecution

CONSTANTS w1, w2
===============================================================================
