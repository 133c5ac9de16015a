------------------------------ MODULE ApiCall ------------------------------
(***************************************************************************)
(* What ApiService.request promises its callers, without tokens or cache:  *)
(* a call sends its request at most twice, the second time only because    *)
(* the remote turned the first one away; it succeeds only with an answer   *)
(* to a request it sent, and ends once.                                    *)
(***************************************************************************)
CONSTANT Calls

VARIABLES phase,  \* phase[c]: where call c is
          first   \* first[c]: its first request was turned away

vars == <<phase, first>>

Phases == {"idle", "preparing", "sent", "ok", "failed"}

TypeOK ==
  /\ phase \in [Calls -> Phases]
  /\ first \in [Calls -> BOOLEAN]

Init ==
  /\ phase = [c \in Calls |-> "idle"]
  /\ first = [c \in Calls |-> FALSE]

Move(c, from, to) ==
  /\ phase[c] = from
  /\ phase' = [phase EXCEPT ![c] = to]

Begin(c) == Move(c, "idle", "preparing") /\ UNCHANGED first
Send(c)  == Move(c, "preparing", "sent") /\ UNCHANGED first

(* A turned-away request is prepared again, once.                          *)
TurnedAway(c) ==
  /\ ~first[c]
  /\ Move(c, "sent", "preparing")
  /\ first' = [first EXCEPT ![c] = TRUE]

Succeed(c) == Move(c, "sent", "ok") /\ UNCHANGED first

GiveUp(c) ==
  /\ \E from \in {"preparing", "sent"} : Move(c, from, "failed")
  /\ UNCHANGED first

(* The caller takes the outcome and may call again.                        *)
Return(c) ==
  /\ phase[c] \in {"ok", "failed"}
  /\ phase' = [phase EXCEPT ![c] = "idle"]
  /\ first' = [first EXCEPT ![c] = FALSE]

Next ==
  \E c \in Calls :
    \/ Begin(c)
    \/ Send(c)
    \/ TurnedAway(c)
    \/ Succeed(c)
    \/ GiveUp(c)
    \/ Return(c)

Spec == Init /\ [][Next]_vars
=============================================================================
