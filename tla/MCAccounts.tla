----------------------------- MODULE MCAccounts -----------------------------
(* Small instances of Accounts for TLC.                                    *)
EXTENDS Accounts, TLC

(* Every kind of token has a secret of its own.                            *)
MCKey == [k \in TokenKinds |-> k]

(* Every name formats to the same one: formatName is not injective.        *)
MCFormatName == [n \in Names |-> CHOOSE m \in Names : TRUE]

(* Requests and user ids are interchangeable.                              *)
Symmetry == Permutations(Requests) \cup Permutations(UserIds)

(* With every user name a slug, addresses and user names are too.          *)
SignUpSymmetry ==
  Symmetry \cup Permutations(Emails) \cup Permutations(Usernames)
=============================================================================
