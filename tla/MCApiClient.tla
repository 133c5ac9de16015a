---------------------------- MODULE MCApiClient ----------------------------
(* Small instances of ApiClient for TLC.                                   *)
EXTENDS ApiClient, TLC

(* Calls are interchangeable.                                              *)
Symmetry == Permutations(Calls)
=============================================================================
