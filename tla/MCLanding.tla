----------------------------- MODULE MCLanding -----------------------------
(* Small instances of Landing for TLC.                                     *)
EXTENDS Landing, TLC

(* Requests, visitors, ids and addresses are interchangeable.              *)
Symmetry ==
  UNION {Permutations(S) : S \in {Requests, Visitors, Ids, Emails}}
=============================================================================
