----------------------------- MODULE MCScopeLease -----------------------------
(***************************************************************************)
(* Instances of ScopeLease for TLC.                                        *)
(***************************************************************************)
EXTENDS ScopeLease, TLC

(* Sound without liveness: no definition tells two callers apart.          *)
Symmetric == Permutations(Callers)
=============================================================================
