-------------------------- MODULE AccountLifecycle --------------------------
(***************************************************************************)
(* What the account service promises, without requests, rows or tokens.    *)
(*                                                                         *)
(* An account id is used once: it is registered for an address, may become *)
(* active, and is closed for good.  An address becomes proven when its     *)
(* mailbox receives a confirmation link.  An account becomes active, and a *)
(* session is opened for it, only when its address is proven.              *)
(***************************************************************************)
CONSTANTS Ids,        \* account identifiers
          Addresses,  \* mail addresses
          NoAddress   \* the address of an id that was never registered

VARIABLES stage,    \* stage[i]: where account i is in its life
          address,  \* address[i]: the address i was registered for
          proven,   \* addresses whose mailbox received a confirmation link
          sessions  \* ids a session has been opened for

vars == <<stage, address, proven, sessions>>

Stages == {"free", "pending", "active", "closed"}

Registered(i) == stage[i] # "free"
Open(i)       == stage[i] \in {"pending", "active"}

TypeOK ==
  /\ stage \in [Ids -> Stages]
  /\ address \in [Ids -> Addresses \cup {NoAddress}]
  /\ proven \subseteq Addresses
  /\ sessions \subseteq Ids

Init ==
  /\ stage = [i \in Ids |-> "free"]
  /\ address = [i \in Ids |-> NoAddress]
  /\ proven = {}
  /\ sessions = {}

(* An address belongs to at most one open account.                         *)
Register(i, a) ==
  /\ stage[i] = "free"
  /\ \A j \in Ids : Open(j) => address[j] # a
  /\ stage' = [stage EXCEPT ![i] = "pending"]
  /\ address' = [address EXCEPT ![i] = a]
  /\ UNCHANGED <<proven, sessions>>

(* The link may be late: the account it was sent for may already be closed. *)
Prove(i) ==
  /\ Registered(i)
  /\ proven' = proven \cup {address[i]}
  /\ UNCHANGED <<stage, address, sessions>>

Activate(i) ==
  /\ stage[i] = "pending"
  /\ address[i] \in proven
  /\ stage' = [stage EXCEPT ![i] = "active"]
  /\ UNCHANGED <<address, proven, sessions>>

OpenSession(i) ==
  /\ Registered(i)
  /\ address[i] \in proven
  /\ sessions' = sessions \cup {i}
  /\ UNCHANGED <<stage, address, proven>>

Close(i) ==
  /\ Open(i)
  /\ stage' = [stage EXCEPT ![i] = "closed"]
  /\ UNCHANGED <<address, proven, sessions>>

Next ==
  \E i \in Ids :
    \/ \E a \in Addresses : Register(i, a)
    \/ Prove(i)
    \/ Activate(i)
    \/ OpenSession(i)
    \/ Close(i)

Spec == Init /\ [][Next]_vars
=============================================================================
