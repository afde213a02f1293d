-------------------------- MODULE MCWorkspaceDraft --------------------------
(* Two calls at a time on one Workspace: any two of turn, form, submission *)
(* and read.                                                               *)
EXTENDS WorkspaceDraft, TLC

CONSTANTS c1, c2

Symmetry == Permutations({c1, c2})
=============================================================================
