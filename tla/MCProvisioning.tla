---------------------------- MODULE MCProvisioning ----------------------------
(* Three concurrent calls, so that two provision calls and a recovery can  *)
(* meet on one request.                                                    *)
EXTENDS Provisioning, TLC

CONSTANTS w1, w2, w3

Symmetry == Permutations({w1, w2, w3})
===============================================================================
