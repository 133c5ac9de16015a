----------------------------- MODULE MCSessions -----------------------------
(* A small instance of Sessions for TLC.                                   *)
EXTENDS Sessions, TLC

(* Every kind of token has a secret of its own.                            *)
MCKey == [k \in TokenKinds |-> k]

MCFormatName == [n \in Names |-> n]
=============================================================================
