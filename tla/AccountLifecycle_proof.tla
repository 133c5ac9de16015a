------------------------ MODULE AccountLifecycle_proof ------------------------
(***************************************************************************)
(* What AccountLifecycle promises, so that the refinement of it says       *)
(* something about the service: for any ids and addresses.                 *)
(***************************************************************************)
EXTENDS AccountLifecycle, TLAPS

USE DEF Stages, Registered, Open

(* An address belongs to at most one open account.                         *)
AddressesExclusive ==
  \A i, j \in Ids : Open(i) /\ Open(j) /\ address[i] = address[j] => i = j

(* An account is active, and has a session, only at a proven address.      *)
OnlyProvenEnter ==
  /\ \A i \in Ids : stage[i] = "active" => address[i] \in proven
  /\ \A i \in sessions : Registered(i) /\ address[i] \in proven

(* A registered account has an address.                                    *)
Addressed == \A i \in Ids : Registered(i) => address[i] \in Addresses

Promises == TypeOK /\ Addressed /\ AddressesExclusive /\ OnlyProvenEnter

(* A closed account stays closed, an active one is never pending again, a  *)
(* registered one keeps its address; nothing proven is forgotten.          *)
MovesForward ==
  /\ \A i \in Ids :
       /\ stage[i] = "closed" => stage'[i] = "closed"
       /\ stage[i] = "active" => stage'[i] \in {"active", "closed"}
       /\ Registered(i) => Registered(i)' /\ address'[i] = address[i]
  /\ proven \subseteq proven'
  /\ sessions \subseteq sessions'

LEMMA InitPromises == Init => Promises
  BY DEF Init, Promises, TypeOK, Addressed, AddressesExclusive, OnlyProvenEnter

LEMMA NextPromises == Promises /\ [Next]_vars => Promises' /\ [MovesForward]_vars
  <1> DEFINE Kept == Promises' /\ MovesForward
  <1> SUFFICES ASSUME Promises, Next PROVE Kept
    BY DEF Promises, TypeOK, Addressed, AddressesExclusive, OnlyProvenEnter, vars
  <1> USE DEF Promises, TypeOK, Addressed
  <1>1. ASSUME NEW i \in Ids, NEW a \in Addresses, Register(i, a) PROVE Kept
    <2>1. /\ \A j \in Ids : stage'[j] = IF j = i THEN "pending" ELSE stage[j]
          /\ \A j \in Ids : address'[j] = IF j = i THEN a ELSE address[j]
          /\ stage[i] = "free" /\ \A j \in Ids : Open(j) => address[j] # a
          /\ UNCHANGED <<proven, sessions>>
      BY <1>1 DEF Register
    <2>2. TypeOK' /\ Addressed'
      BY <1>1 DEF Register
    <2>3. AddressesExclusive'
      BY <2>1 DEF AddressesExclusive
    <2>4. OnlyProvenEnter' /\ MovesForward
      BY <2>1 DEF OnlyProvenEnter, MovesForward
    <2> QED
      BY <2>2, <2>3, <2>4
  <1>2. ASSUME NEW i \in Ids, Prove(i) \/ OpenSession(i) PROVE Kept
    <2>1. TypeOK' /\ Addressed' /\ AddressesExclusive'
      BY <1>2 DEF Prove, OpenSession, AddressesExclusive
    <2>2. OnlyProvenEnter' /\ MovesForward
      BY <1>2 DEF Prove, OpenSession, OnlyProvenEnter, MovesForward
    <2> QED
      BY <2>1, <2>2
  <1>3. ASSUME NEW i \in Ids, Activate(i) \/ Close(i) PROVE Kept
    <2>1. /\ \/ /\ stage[i] = "pending" /\ address[i] \in proven
                /\ stage' = [stage EXCEPT ![i] = "active"]
             \/ Open(i) /\ stage' = [stage EXCEPT ![i] = "closed"]
          /\ UNCHANGED <<address, proven, sessions>>
      BY <1>3 DEF Activate, Close
    <2>2. TypeOK' /\ Addressed' /\ AddressesExclusive'
      BY <2>1 DEF AddressesExclusive
    <2>3. OnlyProvenEnter' /\ MovesForward
      BY <2>1 DEF OnlyProvenEnter, MovesForward
    <2> QED
      BY <2>2, <2>3
  <1> QED
    BY <1>1, <1>2, <1>3 DEF Next

(* In the life of accounts no address is shared by two open accounts, and  *)
(* none is active or has a session without its mailbox's confirmation.     *)
THEOREM LifecyclePromises == Spec => []Promises
  BY InitPromises, NextPromises, PTL DEF Spec

(* Accounts only ever go forward: closed for good, active until closed,    *)
(* with the address they were registered for.                              *)
THEOREM LifecycleForward == Spec => [][MovesForward]_vars
  BY InitPromises, NextPromises, PTL DEF Spec
=============================================================================
