------------------------- MODULE MCRefreshRotation -------------------------
(* Model values and symmetry for the refresh-rotation runs.                *)
EXTENDS RefreshRotation, TLC

Symmetric == Permutations(Procs) \cup Permutations(Tokens) \cup Permutations(Clients)
=============================================================================
