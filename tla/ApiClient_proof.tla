-------------------------- MODULE ApiClient_proof --------------------------
(***************************************************************************)
(* Proofs about ApiClient, for any number of calls and grants.             *)
(***************************************************************************)
EXTENDS ApiClient, TLAPS

USE DEF Grants, Kinds, Pcs, Ends, Issued, Records, Equipped

(* The empty entry is no issued token.                                     *)
LEMMA NotIssued == ASSUME TypeOK PROVE NoToken \notin Issued /\ granted \in Nat
  BY GrantsAssumption, NoTokenAssumption DEF TypeOK

LEMMA InitIInv == Init => IInv
  BY GrantsAssumption DEF Init, IInv, TypeOK, CallOK, New

(* A step that moves one call to a justified record and changes the cache  *)
(* only to a token already issued keeps the invariant.                     *)
LEMMA CallStep ==
  ASSUME IInv, NEW c \in Calls, NEW x \in Records, CallOK(x),
         call' = [call EXCEPT ![c] = x],
         cache' \in [Kinds -> Issued \cup {NoToken}],
         UNCHANGED <<honoured, granted>>
  PROVE  IInv'
  <1>1. \A d \in Calls : CallOK(call'[d])
    BY DEF IInv, TypeOK
  <1>2. TypeOK'
    BY <1>1 DEF IInv, TypeOK, CallOK
  <1> QED
    BY <1>1, <1>2 DEF IInv, CallOK

(* A grant is newer than whatever its caller was turned away with.         *)
LEMMA GrantStep ==
  ASSUME IInv, NEW c \in Calls, call[c].pc \in {"refresh", "login"}, Grant(c)
  PROVE  IInv'
  <1> DEFINE g == granted + 1
             x == [call[c] EXCEPT !.pc = "writeAccess", !.token = g]
  <1>1. /\ granted \in Nat /\ g \in 1..MaxGrants
        /\ NoToken \notin Issued /\ NoToken \notin 1..MaxGrants
    BY NotIssued, GrantsAssumption, NoTokenAssumption DEF IInv, Grant
  <1>2. call[c] \in Records /\ CallOK(call[c])
    BY DEF IInv, TypeOK
  <1>3. /\ call' = [call EXCEPT ![c] = x] /\ granted' = g
        /\ honoured' = honoured \cup {g} /\ cache' = cache
    BY DEF Grant, GotoWith, IInv, TypeOK
  <1>4. Issued \subseteq Issued' /\ g \in Issued'
    BY <1>1, <1>3
  <1>5. TypeOK'
    <2>1. granted' \in 0..MaxGrants
      BY <1>1, <1>3, GrantsAssumption
    <2>2. cache' \in [Kinds -> Issued' \cup {NoToken}] /\ honoured' \subseteq Issued'
      BY <1>3, <1>4 DEF IInv, TypeOK
    <2>3. Records \subseteq Records'
      BY <1>4
    <2>4. x \in Records'
      BY <1>2, <1>4, <2>3
    <2>5. call' \in [Calls -> Records']
      BY <1>3, <2>3, <2>4 DEF IInv, TypeOK
    <2>6. \A d \in Calls : Equipped(call'[d])
      BY <1>1, <1>3 DEF IInv, TypeOK
    <2> QED
      BY <2>1, <2>2, <2>5, <2>6 DEF TypeOK
  <1>6. CallOK(x)
    BY <1>1, <1>2 DEF CallOK
  <1>7. \A d \in Calls : CallOK(call'[d])
    BY <1>3, <1>6 DEF IInv, TypeOK
  <1> QED
    BY <1>5, <1>7 DEF IInv, CallOK

(* IInv is inductive: one step per action.                                 *)
LEMMA NextIInv == IInv /\ [Next]_vars => IInv'
  <1> SUFFICES ASSUME IInv, [Next]_vars PROVE IInv'
    OBVIOUS
  <1>a. /\ call \in [Calls -> Records] /\ cache \in [Kinds -> Issued \cup {NoToken}]
        /\ \A c \in Calls : CallOK(call[c])
        /\ NoToken \notin Issued /\ granted \in Nat
    BY NotIssued DEF IInv, TypeOK
  <1>1. ASSUME NEW c \in Calls, Begin(c) PROVE IInv'
    <2> DEFINE x == [call[c] EXCEPT !.pc = "readAccess"]
    <2>1. x \in Records /\ CallOK(x)
      BY <1>a, <1>1 DEF Begin, CallOK
    <2>2. call' = [call EXCEPT ![c] = x]
      BY <1>a, <1>1 DEF Begin, Goto
    <2> QED
      BY <1>a, <1>1, <2>1, <2>2, CallStep DEF Begin
  <1>2. ASSUME NEW c \in Calls, ReadAccess(c) PROVE IInv'
    <2> DEFINE t == cache["access_token"]
               x == [call[c] EXCEPT !.pc = "request", !.token = t]
               y == [call[c] EXCEPT !.pc = "readRefresh"]
    <2>1. t # NoToken => x \in Records /\ CallOK(x)
      BY <1>a, <1>2 DEF ReadAccess, CallOK
    <2>2. y \in Records /\ CallOK(y)
      BY <1>a, <1>2 DEF ReadAccess, CallOK
    <2>3. \/ t # NoToken /\ call' = [call EXCEPT ![c] = x]
          \/ call' = [call EXCEPT ![c] = y]
      BY <1>a, <1>2 DEF ReadAccess, Goto, GotoWith
    <2> QED
      BY <1>a, <1>2, <2>1, <2>2, <2>3, CallStep DEF ReadAccess
  <1>3. ASSUME NEW c \in Calls, ReadRefresh(c) PROVE IInv'
    <2> DEFINE t == cache["refresh_token"]
               x == [call[c] EXCEPT !.pc = "refresh", !.token = t]
               y == [call[c] EXCEPT !.pc = "login"]
    <2>1. t # NoToken => x \in Records /\ CallOK(x)
      BY <1>a, <1>3 DEF ReadRefresh, CallOK
    <2>2. y \in Records /\ CallOK(y)
      BY <1>a, <1>3 DEF ReadRefresh, CallOK
    <2>3. \/ t # NoToken /\ call' = [call EXCEPT ![c] = x]
          \/ call' = [call EXCEPT ![c] = y]
      BY <1>a, <1>3 DEF ReadRefresh, Goto, GotoWith
    <2> QED
      BY <1>a, <1>3, <2>1, <2>2, <2>3, CallStep DEF ReadRefresh
  <1>4. ASSUME NEW c \in Calls, NEW end \in Ends, End(c, end),
               UNCHANGED <<cache, honoured, granted>>
        PROVE  IInv'
    <2> DEFINE x == [New EXCEPT !.pc = end, !.retry = call[c].retry]
    <2>1. x \in Records /\ CallOK(x)
      BY <1>a DEF New, CallOK
    <2>2. call' = [call EXCEPT ![c] = x]
      BY <1>4 DEF End
    <2> QED
      BY <1>a, <1>4, <2>1, <2>2, CallStep
  <1>5. ASSUME NEW c \in Calls, Refresh(c) PROVE IInv'
    <2> DEFINE x == [call[c] EXCEPT !.pc = "login", !.token = NoToken]
    <2>1. CASE Grant(c)
      BY <1>5, <2>1, GrantStep DEF Refresh
    <2>2. CASE GotoWith(c, "login", NoToken) /\ UNCHANGED <<cache, honoured, granted>>
      <3>1. x \in Records /\ CallOK(x)
        BY <1>a, <1>5 DEF Refresh, CallOK
      <3>2. call' = [call EXCEPT ![c] = x]
        BY <1>a, <2>2 DEF GotoWith
      <3> QED
        BY <1>a, <2>2, <3>1, <3>2, CallStep
    <2> QED
      BY <1>5, <2>1, <2>2 DEF Refresh
  <1>6. ASSUME NEW c \in Calls, LogIn(c) PROVE IInv'
    BY <1>6, <1>4, GrantStep DEF LogIn, Ends
  <1>7. ASSUME NEW c \in Calls, WriteAccess(c) PROVE IInv'
    <2> DEFINE x == [call[c] EXCEPT !.pc = "writeRefresh"]
    <2>1. x \in Records /\ CallOK(x) /\ call[c].token \in Issued
      BY <1>a, <1>7 DEF WriteAccess, CallOK
    <2>2. call' = [call EXCEPT ![c] = x]
      BY <1>a, <1>7 DEF WriteAccess, Goto
    <2> QED
      BY <1>a, <1>7, <2>1, <2>2, CallStep DEF WriteAccess
  <1>8. ASSUME NEW c \in Calls, WriteRefresh(c) PROVE IInv'
    <2> DEFINE x == [call[c] EXCEPT !.pc = "request"]
    <2>1. x \in Records /\ CallOK(x) /\ call[c].token \in Issued
      BY <1>a, <1>8 DEF WriteRefresh, CallOK
    <2>2. call' = [call EXCEPT ![c] = x]
      BY <1>a, <1>8 DEF WriteRefresh, Goto
    <2> QED
      BY <1>a, <1>8, <2>1, <2>2, CallStep DEF WriteRefresh
  <1>9. ASSUME NEW c \in Calls, Request(c) PROVE IInv'
    <2> DEFINE x == [call[c] EXCEPT !.pc = "readRefresh", !.retry = TRUE,
                                    !.rejected = call[c].token]
    <2>1. CASE Rejected(c)
      <3>1. x \in Records /\ CallOK(x)
        BY <1>a, <1>9 DEF Request, CallOK
      <3>2. call' = [call EXCEPT ![c] = x]
        BY <1>a, <2>1 DEF Rejected
      <3> QED
        BY <1>a, <1>9, <3>1, <3>2, CallStep DEF Request
    <2> QED
      BY <1>9, <1>4, <2>1 DEF Request, TurnAway, Ends
  <1>10. ASSUME NEW c \in Calls, Return(c) PROVE IInv'
    <2>1. New \in Records /\ CallOK(New)
      BY DEF New, CallOK
    <2> QED
      BY <1>a, <1>10, <2>1, CallStep DEF Return
  <1>11. ASSUME NEW k \in Kinds, Expire(k) PROVE IInv'
    BY <1>11 DEF Expire, IInv, TypeOK, CallOK
  <1>12. ASSUME NEW g \in Grants, Revoke(g) PROVE IInv'
    BY <1>12 DEF Revoke, IInv, TypeOK, CallOK
  <1>13. CASE UNCHANGED vars
    BY <1>13 DEF vars, IInv, TypeOK, CallOK
  <1> QED
    BY <1>1, <1>2, <1>3, <1>5, <1>6, <1>7, <1>8, <1>9, <1>10, <1>11, <1>12,
       <1>13
    DEF Next, Proceed

(* Every behaviour of the client satisfies the inductive invariant.        *)
THEOREM Invariance == Spec => []IInv
  BY InitIInv, NextIInv, PTL DEF Spec

(* Whatever is cached, in hand or honoured was issued by the remote.       *)
THEOREM TypeCorrect == Spec => []TypeOK
  <1>1. IInv => TypeOK
    BY DEF IInv
  <1> QED
    BY <1>1, Invariance, PTL

(* For any number of overlapping calls, a retry carries a token issued     *)
(* after the one that was rejected.                                        *)
THEOREM RetryFresh == Spec => []RetryIsFresher
  <1>1. IInv => RetryIsFresher
    BY DEF IInv, CallOK, RetryIsFresher
  <1> QED
    BY <1>1, Invariance, PTL

(* A call is turned away only by the refusal of a token issued for its own *)
(* retry: Request is the one step that ends so.                            *)
THEOREM StaleForgiven == Spec => StaleTokenForgiven
  <1>1. IInv /\ [Next]_vars => [ForgiveStale]_vars
    <2> SUFFICES ASSUME IInv, Next, NEW c \in Calls,
                        call[c].pc # "turnedAway", call'[c].pc = "turnedAway"
                 PROVE  call[c].retry /\ call[c].token > call[c].rejected
      BY DEF ForgiveStale
    <2>1. call \in [Calls -> Records] /\ CallOK(call[c])
      BY DEF IInv, TypeOK
    <2>2. PICK d \in Calls : Begin(d) \/ Proceed(d) \/ Return(d)
      BY DEF Next, Expire, Revoke
    <2>3. CASE Begin(d) \/ Return(d)
      BY <2>1, <2>3 DEF Begin, Return, Goto, New
    <2>4. CASE ReadAccess(d) \/ ReadRefresh(d) \/ WriteAccess(d) \/ WriteRefresh(d)
      BY <2>1, <2>4
      DEF ReadAccess, ReadRefresh, WriteAccess, WriteRefresh, Goto, GotoWith
    <2>5. CASE Refresh(d) \/ LogIn(d)
      BY <2>1, <2>5 DEF Refresh, LogIn, Grant, GotoWith, End, New
    <2>6. CASE Request(d)
      <3>1. d = c
        <4>1. CASE \E end \in Ends : End(d, end)
          BY <2>1, <4>1 DEF End
        <4>2. CASE Rejected(d)
          BY <2>1, <4>2 DEF Rejected
        <4> QED
          BY <2>6, <4>1, <4>2 DEF Request, TurnAway
      <3>2. call[c].retry
        <4>1. \A end \in Ends : End(c, end) => call'[c].pc = end
          BY <2>1 DEF End, New
        <4>2. Rejected(c) => call'[c].pc = "readRefresh"
          BY <2>1 DEF Rejected
        <4> QED
          BY <2>6, <3>1, <4>1, <4>2 DEF Request, TurnAway
      <3> QED
        BY <2>1, <2>6, <3>1, <3>2 DEF Request, CallOK
    <2> QED
      BY <2>2, <2>3, <2>4, <2>5, <2>6 DEF Proceed
  <1> QED
    BY <1>1, InitIInv, NextIInv, PTL DEF Spec, StaleTokenForgiven

-----------------------------------------------------------------------------
(* The client keeps the promise of ApiCall.                                *)

(* How the abstract call changes when a call moves to record x.            *)
LEMMA AbstractMove ==
  ASSUME TypeOK, NEW c \in Calls, NEW x \in Records, call' = [call EXCEPT ![c] = x]
  PROVE  /\ [d \in Calls |-> Phase(call[d].pc)]'
              = [[d \in Calls |-> Phase(call[d].pc)] EXCEPT ![c] = Phase(x.pc)]
         /\ [d \in Calls |-> call[d].retry]'
              = [[d \in Calls |-> call[d].retry] EXCEPT ![c] = x.retry]
  BY DEF TypeOK, Phase

(* A move that keeps its abstract part keeps the abstract variable.        *)
LEMMA AbstractSame ==
  ASSUME TypeOK, NEW c \in Calls, NEW x \in Records, call' = [call EXCEPT ![c] = x]
  PROVE  /\ Phase(x.pc) = Phase(call[c].pc) =>
              [d \in Calls |-> Phase(call[d].pc)]' = [d \in Calls |-> Phase(call[d].pc)]
         /\ x.retry = call[c].retry =>
              [d \in Calls |-> call[d].retry]' = [d \in Calls |-> call[d].retry]
  <1>1. \A d \in Calls : call'[d] = IF d = c THEN x ELSE call[d]
    BY DEF TypeOK
  <1> QED
    BY <1>1

(* The moves of one call that the promise allows.                          *)
LEMMA PromiseMove ==
  ASSUME TypeOK, NEW c \in Calls, NEW x \in Records, call' = [call EXCEPT ![c] = x],
         NEW from, from = Phase(call[c].pc), NEW to, to = Phase(x.pc),
         \/ /\ x.retry = call[c].retry
            /\ \/ from = to
               \/ from = "idle" /\ to = "preparing"
               \/ from = "preparing" /\ to = "sent"
               \/ from = "sent" /\ to = "ok"
               \/ from \in {"preparing", "sent"} /\ to = "failed"
         \/ /\ call[c].retry = FALSE /\ x.retry = TRUE
            /\ from = "sent" /\ to = "preparing"
         \/ x.retry = FALSE /\ from \in {"ok", "failed"} /\ to = "idle"
  PROVE  [Promise!Next]_(Promise!vars)
  <1> DEFINE phase == [d \in Calls |-> Phase(call[d].pc)]
             first == [d \in Calls |-> call[d].retry]
  <1>1. /\ phase' = [phase EXCEPT ![c] = to] /\ phase[c] = from
        /\ first' = [first EXCEPT ![c] = x.retry] /\ first[c] = call[c].retry
        /\ from = to => phase' = phase
        /\ x.retry = call[c].retry => first' = first
    BY AbstractMove, AbstractSame
  <1> SUFFICES ASSUME ~(phase' = phase /\ first' = first) PROVE Promise!Next
    BY DEF Promise!vars
  <1> USE DEF Promise!Next, Promise!Move
  <1>2. CASE x.retry = call[c].retry /\ from = "idle" /\ to = "preparing"
    <2>1. Promise!Begin(c)
      BY <1>1, <1>2 DEF Promise!Begin
    <2> QED
      BY <2>1
  <1>3. CASE x.retry = call[c].retry /\ from = "preparing" /\ to = "sent"
    <2>1. Promise!Send(c)
      BY <1>1, <1>3 DEF Promise!Send
    <2> QED
      BY <2>1
  <1>4. CASE x.retry = call[c].retry /\ from = "sent" /\ to = "ok"
    <2>1. Promise!Succeed(c)
      BY <1>1, <1>4 DEF Promise!Succeed
    <2> QED
      BY <2>1
  <1>5. CASE /\ x.retry = call[c].retry
             /\ from \in {"preparing", "sent"} /\ to = "failed"
    <2>1. Promise!GiveUp(c)
      BY <1>1, <1>5 DEF Promise!GiveUp
    <2> QED
      BY <2>1
  <1>6. CASE /\ call[c].retry = FALSE /\ x.retry = TRUE
             /\ from = "sent" /\ to = "preparing"
    <2>1. Promise!TurnedAway(c)
      BY <1>1, <1>6 DEF Promise!TurnedAway
    <2> QED
      BY <2>1
  <1>7. CASE x.retry = FALSE /\ from \in {"ok", "failed"} /\ to = "idle"
    <2>1. Promise!Return(c)
      BY <1>1, <1>7 DEF Promise!Return
    <2> QED
      BY <2>1
  <1> QED
    BY <1>1, <1>2, <1>3, <1>4, <1>5, <1>6, <1>7

(* Every step of the client is a step of the promise, or none at all: one  *)
(* step per action, with the record the call moves to.                     *)
LEMMA PromiseStep == IInv /\ [Next]_vars => [Promise!Next]_(Promise!vars)
  <1> DEFINE Goal == [Promise!Next]_(Promise!vars)
  <1> SUFFICES ASSUME IInv, [Next]_vars PROVE Goal
    OBVIOUS
  <1>a. TypeOK /\ \A c \in Calls : call[c] \in Records /\ CallOK(call[c])
    BY DEF IInv, TypeOK
  <1>b. cache["access_token"] \in Issued \cup {NoToken}
        /\ cache["refresh_token"] \in Issued \cup {NoToken}
    BY <1>a DEF TypeOK
  <1>c. ASSUME UNCHANGED call PROVE Goal
    BY <1>c DEF Promise!vars
  <1>d. ASSUME NEW c \in Calls, NEW pc \in Pcs, Goto(c, pc),
               \/ Phase(pc) = Phase(call[c].pc)
               \/ call[c].pc = "idle" /\ Phase(pc) = "preparing"
               \/ call[c].pc = "writeRefresh" /\ Phase(pc) = "sent"
        PROVE  Goal
    <2> DEFINE x == [call[c] EXCEPT !.pc = pc]
    <2>1. x \in Records /\ x.pc = pc /\ x.retry = call[c].retry
      BY <1>a
    <2>2. call' = [call EXCEPT ![c] = x]
      BY <1>a, <1>d DEF Goto
    <2>3. /\ call[c].pc = "idle" => Phase(call[c].pc) = "idle"
          /\ call[c].pc = "writeRefresh" => Phase(call[c].pc) = "preparing"
      BY DEF Phase
    <2> HIDE DEF x, Goal
    <2> QED
      BY <1>a, <1>d, <2>1, <2>2, <2>3, PromiseMove DEF Goal
  <1>e. ASSUME NEW c \in Calls, NEW pc \in Pcs, NEW g \in Issued \cup {NoToken},
               GotoWith(c, pc, g), Phase(call[c].pc) = "preparing",
               Phase(pc) \in {"preparing", "sent"}
        PROVE  Goal
    <2> DEFINE x == [call[c] EXCEPT !.pc = pc, !.token = g]
    <2>1. x \in Records /\ x.pc = pc /\ x.retry = call[c].retry
      BY <1>a
    <2>2. call' = [call EXCEPT ![c] = x]
      BY <1>a, <1>e DEF GotoWith
    <2> HIDE DEF x, Goal
    <2> QED
      BY <1>a, <1>e, <2>1, <2>2, PromiseMove DEF Goal
  <1>f. ASSUME NEW c \in Calls, NEW end \in Ends, End(c, end),
               \/ Phase(call[c].pc) = "sent"
               \/ Phase(call[c].pc) = "preparing" /\ end # "ok"
        PROVE  Goal
    <2> DEFINE x == [New EXCEPT !.pc = end, !.retry = call[c].retry]
    <2>1. x \in Records /\ x.pc = end /\ x.retry = call[c].retry
      BY <1>a DEF New
    <2>2. call' = [call EXCEPT ![c] = x]
      BY <1>f DEF End
    <2>3. IF end = "ok" THEN Phase(end) = "ok" ELSE Phase(end) = "failed"
      BY DEF Phase
    <2> HIDE DEF x, Goal
    <2> QED
      BY <1>a, <1>f, <2>1, <2>2, <2>3, PromiseMove DEF Goal
  <1>g. ASSUME NEW c \in Calls, call[c].pc = "request", ~call[c].retry, Rejected(c)
        PROVE  Goal
    <2> DEFINE x == [call[c] EXCEPT !.pc = "readRefresh", !.retry = TRUE,
                                    !.rejected = call[c].token]
    <2>1. x \in Records /\ x.pc = "readRefresh"
          /\ x.retry = TRUE /\ call[c].retry = FALSE
      BY <1>a, <1>g
    <2>2. call' = [call EXCEPT ![c] = x]
      BY <1>a, <1>g DEF Rejected
    <2>3. Phase(call[c].pc) = "sent" /\ Phase("readRefresh") = "preparing"
      BY <1>g DEF Phase
    <2> HIDE DEF x, Goal
    <2>4. /\ call[c].retry = FALSE /\ x.retry = TRUE
          /\ Phase(call[c].pc) = "sent" /\ Phase(x.pc) = "preparing"
      BY <2>1, <2>3
    <2>5. TypeOK /\ c \in Calls /\ x \in Records
      BY <1>a, <1>g, <2>1
    <2> QED
      BY <2>2, <2>4, <2>5, PromiseMove, Zenon DEF Goal
  <1>h. ASSUME NEW c \in Calls, Return(c) PROVE Goal
    <2>1. New \in Records /\ call' = [call EXCEPT ![c] = New]
      BY <1>h DEF New, Return
    <2>2. /\ Phase(call[c].pc) \in {"ok", "failed"} /\ Phase(New.pc) = "idle"
          /\ New.retry = FALSE
      BY <1>h DEF Return, Phase, New
    <2> HIDE DEF Goal
    <2> QED
      BY <1>a, <1>h, <2>1, <2>2, PromiseMove DEF Goal
  <1> HIDE DEF Goal
  <1>1. ASSUME NEW c \in Calls, Begin(c) PROVE Goal
    BY <1>1, <1>d DEF Begin, Phase
  <1>2. ASSUME NEW c \in Calls, ReadAccess(c) PROVE Goal
    BY <1>2, <1>b, <1>d, <1>e DEF ReadAccess, Phase
  <1>3. ASSUME NEW c \in Calls, ReadRefresh(c) PROVE Goal
    BY <1>3, <1>b, <1>d, <1>e DEF ReadRefresh, Phase
  <1>4. ASSUME NEW c \in Calls, call[c].pc \in {"refresh", "login"}, Grant(c)
        PROVE  Goal
    <2> DEFINE g == granted + 1
               x == [call[c] EXCEPT !.pc = "writeAccess", !.token = g]
    <2>1. call' = [call EXCEPT ![c] = x]
      BY <1>a, <1>4 DEF Grant, GotoWith
    <2>2. \A d \in Calls : call'[d] = IF d = c THEN x ELSE call[d]
      BY <1>a, <2>1 DEF TypeOK
    <2>3. /\ Phase(x.pc) = Phase(call[c].pc) /\ x.retry = call[c].retry
      BY <1>a, <1>4 DEF Phase
    <2> HIDE DEF x
    <2>4. [d \in Calls |-> Phase(call[d].pc)]' = [d \in Calls |-> Phase(call[d].pc)]
      BY <2>2, <2>3
    <2>5. [d \in Calls |-> call[d].retry]' = [d \in Calls |-> call[d].retry]
      BY <2>2, <2>3
    <2> QED
      BY <2>4, <2>5 DEF Goal, Promise!vars
  <1>5. ASSUME NEW c \in Calls, Refresh(c) PROVE Goal
    BY <1>5, <1>4, <1>e DEF Refresh, Phase
  <1>6. ASSUME NEW c \in Calls, LogIn(c) PROVE Goal
    BY <1>6, <1>4, <1>f DEF LogIn, Phase, Ends
  <1>7. ASSUME NEW c \in Calls, WriteAccess(c) PROVE Goal
    BY <1>7, <1>d DEF WriteAccess, Phase
  <1>8. ASSUME NEW c \in Calls, WriteRefresh(c) PROVE Goal
    BY <1>8, <1>d DEF WriteRefresh, Phase
  <1>9. ASSUME NEW c \in Calls, Request(c) PROVE Goal
    BY <1>9, <1>f, <1>g DEF Request, TurnAway, Phase, Ends
  <1>10. CASE (\E k \in Kinds : Expire(k)) \/ (\E g \in Grants : Revoke(g))
    BY <1>10, <1>c DEF Expire, Revoke
  <1>11. CASE UNCHANGED vars
    BY <1>11, <1>c DEF vars
  <1> QED
    BY <1>1, <1>2, <1>3, <1>5, <1>6, <1>7, <1>8, <1>9, <1>10, <1>11, <1>h
    DEF Next, Proceed

(* The initial states of the client are initial states of the promise.     *)
LEMMA PromiseInit == Init => Promise!Init
  BY DEF Init, Promise!Init, New, Phase

(* For any number of overlapping calls, the client implements ApiCall:     *)
(* each call sends its request at most twice and ends once.                *)
THEOREM KeepsPromise == Spec => PromiseSpec
  BY InitIInv, NextIInv, PromiseInit, PromiseStep, PTL
  DEF Spec, PromiseSpec, Promise!Spec

-----------------------------------------------------------------------------
(* Why a call ends whatever the others do: the awaits it still has before  *)
(* it, six more while it may be turned away once.                          *)
AwaitsFrom ==
  [readAccess |-> 7, readRefresh |-> 6, refresh |-> 5, login |-> 4,
   writeAccess |-> 3, writeRefresh |-> 2, request |-> 1]

Resting == {"idle"} \cup Ends

AwaitsLeft(x) ==
  IF x.pc \in Resting THEN 0 ELSE AwaitsFrom[x.pc] + (IF x.retry THEN 0 ELSE 6)

LEMMA AwaitsType == ASSUME NEW x \in Records PROVE AwaitsLeft(x) \in 0..13
  BY DEF AwaitsLeft, AwaitsFrom, Resting

(* What happens to a call under way brings it nearer to its end.           *)
GetsNearer ==
  \A c \in Calls : call[c].pc \notin Resting /\ call'[c] # call[c]
    => AwaitsLeft(call'[c]) < AwaitsLeft(call[c])

(* A step that moves call c to record x moves no other call.               *)
LEMMA NearerMove ==
  ASSUME TypeOK, NEW c \in Calls, NEW x, call' = [call EXCEPT ![c] = x],
         AwaitsLeft(x) < AwaitsLeft(call[c]) \/ call[c].pc \in Resting
  PROVE  GetsNearer
  BY DEF GetsNearer, TypeOK

LEMMA NearerStep == IInv /\ [Next]_vars => [GetsNearer]_vars
  <1> SUFFICES ASSUME IInv, Next PROVE GetsNearer
    OBVIOUS
  <1>a. TypeOK /\ \A c \in Calls : call[c] \in Records /\ CallOK(call[c])
    BY DEF IInv, TypeOK
  <1>b. ASSUME UNCHANGED call PROVE GetsNearer
    BY <1>b DEF GetsNearer
  <1>c. ASSUME NEW c \in Calls, NEW pc \in Pcs, Goto(c, pc),
               \/ call[c].pc = "idle"
               \/ call[c].pc = "readAccess" /\ pc = "readRefresh"
               \/ call[c].pc = "readRefresh" /\ pc = "login"
               \/ call[c].pc = "writeAccess" /\ pc = "writeRefresh"
               \/ call[c].pc = "writeRefresh" /\ pc = "request"
        PROVE  GetsNearer
    <2> DEFINE x == [call[c] EXCEPT !.pc = pc]
    <2>1. call' = [call EXCEPT ![c] = x]
      BY <1>a, <1>c DEF Goto
    <2>2. AwaitsLeft(x) < AwaitsLeft(call[c]) \/ call[c].pc \in Resting
      BY <1>a, <1>c DEF AwaitsLeft, AwaitsFrom, Resting
    <2> QED
      BY <1>a, <2>1, <2>2, NearerMove
  <1>d. ASSUME NEW c \in Calls, NEW pc \in Pcs, NEW g, GotoWith(c, pc, g),
               \/ call[c].pc = "readAccess" /\ pc = "request"
               \/ call[c].pc = "readRefresh" /\ pc = "refresh"
               \/ call[c].pc = "refresh" /\ pc = "login"
               \/ call[c].pc \in {"refresh", "login"} /\ pc = "writeAccess"
        PROVE  GetsNearer
    <2> DEFINE x == [call[c] EXCEPT !.pc = pc, !.token = g]
    <2>1. call' = [call EXCEPT ![c] = x]
      BY <1>a, <1>d DEF GotoWith
    <2>2. AwaitsLeft(x) < AwaitsLeft(call[c]) \/ call[c].pc \in Resting
      BY <1>a, <1>d DEF AwaitsLeft, AwaitsFrom, Resting
    <2> QED
      BY <1>a, <2>1, <2>2, NearerMove
  <1>e. ASSUME NEW c \in Calls, NEW end \in Ends, End(c, end),
               call[c].pc \in {"login", "request"}
        PROVE  GetsNearer
    <2> DEFINE x == [New EXCEPT !.pc = end, !.retry = call[c].retry]
    <2>1. call' = [call EXCEPT ![c] = x]
      BY <1>e DEF End
    <2>2. AwaitsLeft(x) < AwaitsLeft(call[c])
      BY <1>a, <1>e DEF AwaitsLeft, AwaitsFrom, Resting, New
    <2> QED
      BY <1>a, <2>1, <2>2, NearerMove
  <1>f. ASSUME NEW c \in Calls, call[c].pc = "request", ~call[c].retry, Rejected(c)
        PROVE  GetsNearer
    <2> DEFINE x == [call[c] EXCEPT !.pc = "readRefresh", !.retry = TRUE,
                                    !.rejected = call[c].token]
    <2>1. call' = [call EXCEPT ![c] = x]
      BY <1>a, <1>f DEF Rejected
    <2>2. AwaitsLeft(x) < AwaitsLeft(call[c])
      BY <1>a, <1>f DEF AwaitsLeft, AwaitsFrom, Resting
    <2> QED
      BY <1>a, <2>1, <2>2, NearerMove
  <1>1. ASSUME NEW c \in Calls, Begin(c) PROVE GetsNearer
    BY <1>1, <1>c DEF Begin
  <1>2. ASSUME NEW c \in Calls, ReadAccess(c) PROVE GetsNearer
    BY <1>2, <1>c, <1>d DEF ReadAccess
  <1>3. ASSUME NEW c \in Calls, ReadRefresh(c) PROVE GetsNearer
    BY <1>3, <1>c, <1>d DEF ReadRefresh
  <1>4. ASSUME NEW c \in Calls, Refresh(c) PROVE GetsNearer
    BY <1>4, <1>d DEF Refresh, Grant
  <1>5. ASSUME NEW c \in Calls, LogIn(c) PROVE GetsNearer
    BY <1>5, <1>d, <1>e DEF LogIn, Grant
  <1>6. ASSUME NEW c \in Calls, WriteAccess(c) \/ WriteRefresh(c) PROVE GetsNearer
    BY <1>6, <1>c DEF WriteAccess, WriteRefresh
  <1>7. ASSUME NEW c \in Calls, Request(c) PROVE GetsNearer
    BY <1>7, <1>e, <1>f DEF Request, TurnAway
  <1>8. ASSUME NEW c \in Calls, Return(c) PROVE GetsNearer
    BY <1>a, <1>8, NearerMove DEF Return, Resting
  <1>9. CASE (\E k \in Kinds : Expire(k)) \/ (\E g \in Grants : Revoke(g))
    BY <1>9, <1>b DEF Expire, Revoke
  <1> QED
    BY <1>1, <1>2, <1>3, <1>4, <1>5, <1>6, <1>7, <1>8, <1>9 DEF Next, Proceed

(* However many calls share the cache, and whatever the remote revokes     *)
(* meanwhile, a call passes at most 13 awaits: whatever moves it leaves    *)
(* fewer before it, and nothing sends it back.                             *)
THEOREM AwaitsRunOut ==
  Spec => /\ [](\A c \in Calls : AwaitsLeft(call[c]) \in 0..13)
          /\ [][GetsNearer]_vars
  <1>1. IInv => \A c \in Calls : AwaitsLeft(call[c]) \in 0..13
    BY AwaitsType DEF IInv, TypeOK
  <1> QED
    BY <1>1, InitIInv, NextIInv, NearerStep, PTL DEF Spec
=============================================================================
