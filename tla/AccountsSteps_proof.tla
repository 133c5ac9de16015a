-------------------------- MODULE AccountsSteps_proof --------------------------
(***************************************************************************)
(* What a step of Accounts may do, and that the service implements         *)
(* AccountLifecycle.  All of it rests on one case distinction: most steps  *)
(* leave rows, addresses and tokens alone, and each of the others has one  *)
(* of five effects.                                                        *)
(***************************************************************************)
EXTENDS Accounts_proof

USE DEF MailKinds, SessionKinds, TokenKinds, Token, SavePcs, Row

(* An account is inserted for an address and a name that nobody has.       *)
Registers(i, row) ==
  /\ owner[i] = NoEmail
  /\ row.email # NoEmail /\ ~row.confirmed
  /\ \A j \in Live : users[j].email # row.email
  /\ users' = [users EXCEPT ![i] = row]
  /\ owner' = [owner EXCEPT ![i] = row.email]
  /\ UNCHANGED tokens

(* Session tokens are signed for an account with a proven address.         *)
Signs(i) ==
  /\ owner[i] # NoEmail /\ Proven(owner[i])
  /\ \E r \in Requests : h[r].id = i
  /\ tokens' = tokens \cup [kind : SessionKinds, id : {i}]
  /\ UNCHANGED <<users, owner>>

(* A handler saves the entity it has loaded and changed.                   *)
Writes(r) ==
  /\ h[r].pc \in SavePcs
  /\ users' = Saved(h[r].id, h[r].row, Column[h[r].pc])
  /\ UNCHANGED <<owner, tokens>>

(* The row of an account is removed.                                       *)
Removes(i) ==
  /\ i \in Live
  /\ users' = [users EXCEPT ![i] = NoRow]
  /\ UNCHANGED <<owner, tokens>>

(* A mail reaches its mailbox.                                             *)
Receives(t) ==
  /\ t.kind \in MailKinds /\ owner[t.id] # NoEmail
  /\ tokens' = tokens \cup {t}
  /\ UNCHANGED <<users, owner>>

(* Nothing of the account tables changes.                                  *)
Leaves == UNCHANGED <<users, owner, tokens>>

Effect ==
  \/ Leaves
  \/ \E i \in UserIds, row \in Row : Registers(i, row)
  \/ \E i \in UserIds : Signs(i)
  \/ \E r \in Requests : Writes(r)
  \/ \E i \in UserIds : Removes(i)
  \/ \E t \in Token : Receives(t)

-----------------------------------------------------------------------------
(* An insert that succeeds registers an account: the indexes refused the   *)
(* others.                                                                 *)
LEMMA InsertEffect ==
  ASSUME IInv, NEW r \in Requests, Insert(r)
  PROVE  Effect
  <1>1. CASE UNCHANGED <<users, owner>>
    BY <1>1 DEF Insert, Effect, Leaves
  <1>2. CASE \E i \in FreeIds :
               /\ ~Collides(h[r].row)
               /\ users' = [users EXCEPT ![i] = h[r].row]
               /\ owner' = [owner EXCEPT ![i] = h[r].row.email]
    <2> DEFINE row == h[r].row
    <2>1. PICK i \in FreeIds :
            /\ ~Collides(row)
            /\ users' = [users EXCEPT ![i] = row]
            /\ owner' = [owner EXCEPT ![i] = row.email]
      BY <1>2
    <2>2. row # NoRow /\ ~row.confirmed
      BY DEF Insert, IInv, HandlerOK
    <2>3. row \in Row
      BY <2>2 DEF IInv, TypeOK
    <2>4. \A j \in Live : users[j].email # row.email
      BY <2>1 DEF Collides, WithEmail
    <2>5. i \in UserIds /\ owner[i] = NoEmail
      BY DEF FreeIds
    <2>6. UNCHANGED tokens
      BY DEF Insert
    <2> HIDE DEF row
    <2>7. row.email # NoEmail
      BY <2>3, NullAssumption
    <2> QED
      BY <2>1, <2>2, <2>3, <2>4, <2>5, <2>6, <2>7 DEF Effect, Registers
  <1> QED
    BY <1>1, <1>2 DEF Insert

(* Tokens are signed for the id the handler carries.                       *)
LEMMA MintEffect ==
  ASSUME IInv, NEW r \in Requests, Mint(r)
  PROVE  Effect
  <1>1. /\ h[r].id \in UserIds /\ owner[h[r].id] # NoEmail
        /\ Proven(owner[h[r].id])
    BY Owned DEF Mint, HandlerOK, HandlerRecord
  <1>2. /\ tokens' = tokens \cup [kind : SessionKinds, id : {h[r].id}]
        /\ UNCHANGED <<users, owner>>
    BY DEF Mint
  <1>3. Signs(h[r].id)
    BY <1>1, <1>2 DEF Signs
  <1> QED
    BY <1>1, <1>3 DEF Effect

(* A removal that finds no row changes nothing.                            *)
LEMMA DestroyEffect ==
  ASSUME IInv, NEW r \in Requests, Destroy(r)
  PROVE  Effect
  <1> DEFINE i == h[r].id
  <1>1. /\ i \in UserIds
        /\ users' = [users EXCEPT ![i] = NoRow]
        /\ UNCHANGED <<owner, tokens>>
    BY Owned DEF Destroy, HandlerOK, HandlerRecord
  <1>2. CASE i \in Live
    BY <1>1, <1>2 DEF Effect, Removes
  <1>3. CASE i \notin Live
    BY <1>1, <1>3 DEF Effect, Leaves, Live, IInv, TypeOK
  <1> QED
    BY <1>2, <1>3

(* No two rows have one address, so a removal by address takes one row.    *)
LEMMA DeleteByEmailDevEffect ==
  ASSUME IInv, NEW r \in Requests, NEW e \in Emails, DeleteByEmailDev(r, e)
  PROVE  Effect
  <1>0. CASE UNCHANGED users
    BY <1>0 DEF DeleteByEmailDev, Effect, Leaves
  <1> SUFFICES ASSUME users' = [i \in UserIds |->
                                  IF i \in WithEmail(e) THEN NoRow ELSE users[i]]
               PROVE  Effect
    BY <1>0 DEF DeleteByEmailDev
  <1>1. /\ UNCHANGED <<owner, tokens>>
        /\ users \in [UserIds -> Row \cup {NoRow}]
    BY DEF DeleteByEmailDev, IInv, TypeOK
  <1>2. CASE WithEmail(e) = {}
    BY <1>1, <1>2 DEF Effect, Leaves
  <1>3. CASE WithEmail(e) # {}
    <2>1. PICK i \in WithEmail(e) : TRUE
      BY <1>3
    <2>2. \A j \in WithEmail(e) : j = i
      BY DEF WithEmail, IInv, UniqueAccounts
    <2>3. i \in Live /\ i \in UserIds
      BY DEF WithEmail, Live
    <2>4. users' = [users EXCEPT ![i] = NoRow]
      BY <1>1, <2>2, <2>3
    <2> QED
      BY <1>1, <2>3, <2>4 DEF Effect, Removes
  <1> QED
    BY <1>2, <1>3

(* What reaches a mailbox was mailed for a created id.                     *)
LEMMA DeliverEffect ==
  ASSUME IInv, NEW t \in Token, Deliver(t)
  PROVE  Effect
  <1>1. t.kind \in MailKinds /\ owner[t.id] # NoEmail
    BY Owned DEF Deliver
  <1> QED
    BY <1>1 DEF Deliver, Effect, Receives

(* Every step has one of the effects: one step per group of actions.       *)
LEMMA StepEffect == IInv /\ [Next]_vars => Effect
  <1> SUFFICES ASSUME IInv, [Next]_vars PROVE Effect
    OBVIOUS
  <1>1. ASSUME NEW r \in Requests, Begin(r) PROVE Effect
    <2> USE DEF Effect, Leaves
    <2>1. ASSUME NEW e \in Emails,
                 DeleteByEmailDev(r, e) \/ ForgotPassword(r, e)
          PROVE  Effect
      BY <2>1, DeleteByEmailDevEffect DEF ForgotPassword
    <2>2. ASSUME NEW e, NEW u, NEW p, NEW p1, NEW p2,
                 \/ SignUp(r, e, u, p1, p2)
                 \/ SignInByEmail(r, e, p)
                 \/ SignInByUsername(r, u, p)
          PROVE  Effect
      BY <2>2 DEF SignUp, SignInByEmail, SignInByUsername
    <2>3. ASSUME NEW t, NEW p1, NEW p2,
                 \/ ConfirmEmail(r, t)
                 \/ RefreshAccess(r, t)
                 \/ ResetPassword(r, t, p1, p2)
          PROVE  Effect
      BY <2>3 DEF ConfirmEmail, RefreshAccess, ResetPassword
    <2>4. ASSUME NEW i, NEW t, NEW n, NEW p, NEW p1, NEW p2,
                 \/ Logout(r, i, t)
                 \/ UpdatePassword(r, i, p, p1, p2)
                 \/ UpdateName(r, i, n)
                 \/ DeleteUser(r, i, p)
          PROVE  Effect
      BY <2>4 DEF Logout, UpdatePassword, UpdateName, DeleteUser
    <2>5. CASE Refuse(r)
      BY <2>5 DEF Refuse
    <2> HIDE DEF Effect, Leaves
    <2> QED
      BY <1>1, <2>1, <2>2, <2>3, <2>4, <2>5 DEF Begin, Enter
  <1>2. ASSUME NEW r \in Requests, Resume(r) PROVE Effect
    <2>1. CASE CountUsername(r) \/ SendMail(r) \/ FindConfirmed(r)
      BY <2>1 DEF CountUsername, SendMail, FindConfirmed, Effect, Leaves
    <2>2. CASE Save(r)
      BY <2>2 DEF Save, Effect, Leaves, Writes
    <2> QED
      BY <1>2, <2>1, <2>2, InsertEffect, MintEffect, DestroyEffect DEF Resume
  <1>3. CASE Accident
    BY <1>3, DeliverEffect DEF Accident, Fail, Lose, Crash, Effect, Leaves
  <1>4. CASE UNCHANGED vars
    BY <1>4 DEF vars, Effect, Leaves
  <1> QED
    BY <1>1, <1>2, <1>3, <1>4 DEF Next

-----------------------------------------------------------------------------
(* An id without an address has no row.                                    *)
LEMMA FreeHasNoRow ==
  ASSUME IInv, NEW i \in UserIds, owner[i] = NoEmail
  PROVE  users[i] = NoRow
  <1> SUFFICES ASSUME users[i] # NoRow PROVE FALSE
    OBVIOUS
  <1>1. users[i] \in Row
    BY DEF IInv, TypeOK
  <1>2. users[i].email = NoEmail
    BY DEF IInv, OwnersKnown, Live
  <1> QED
    BY <1>1, <1>2, NullAssumption

(* A row that is there before and after a step is changed by a save only,  *)
(* in the column the handler changed, to the value it loaded or set.       *)
LEMMA ColumnStep ==
  ASSUME IInv, Effect, NEW i \in UserIds, users[i] # NoRow, users'[i] # NoRow,
         NEW c \in DOMAIN users[i], users'[i][c] # users[i][c]
  PROVE  \E r \in Requests :
           /\ h[r].pc \in SavePcs /\ h[r].id = i
           /\ Column[h[r].pc] = c
           /\ users'[i][c] = h[r].row[c]
  <1>1. /\ users \in [UserIds -> Row \cup {NoRow}]
        /\ users[i] \in Row
    BY DEF IInv, TypeOK
  <1>2. ASSUME NEW j \in UserIds, NEW row \in Row, Registers(j, row) PROVE FALSE
    BY <1>1, <1>2, FreeHasNoRow DEF Registers
  <1>3. ASSUME NEW j \in UserIds, Removes(j) PROVE FALSE
    BY <1>1, <1>3 DEF Removes
  <1>4. PICK r \in Requests : Writes(r)
    BY <1>2, <1>3 DEF Effect, Leaves, Signs, Receives
  <1> DEFINE k == Column[h[r].pc]
             v == h[r].row[k]
  <1>5. users[h[r].id] # NoRow
        /\ users' = [users EXCEPT ![h[r].id] = [@ EXCEPT ![k] = v]]
    BY <1>4 DEF Writes, Saved
  <1> HIDE DEF k, v
  <1>6. h[r].id = i
    BY <1>1, <1>5
  <1>7. users'[i] = [users[i] EXCEPT ![k] = v]
    BY <1>1, <1>5, <1>6
  <1>8. k = c /\ users'[i][c] = v
    BY <1>7
  <1> QED
    BY <1>4, <1>6, <1>8 DEF Writes, k, v

(* While an account exists, saves of rows loaded at different times, in any*)
(* order and between any other steps, undo nothing: a column changes only  *)
(* by the save of a request that means that column.  That a save brings no *)
(* removed row back is ForwardOnly below.                                  *)
THEOREM ColumnsKept == Spec => ColumnsIndependent
  <1> DEFINE Kept ==
        \A i \in UserIds : users[i] # NoRow /\ users'[i] # NoRow =>
          \A c \in DOMAIN users[i] : users'[i][c] # users[i][c] =>
            \E r \in Requests :
              /\ h[r].pc \in SavePcs /\ h[r].id = i
              /\ Column[h[r].pc] = c
              /\ users'[i][c] = h[r].row[c]
  <1>1. IInv /\ [Next]_vars => Kept
    BY StepEffect, ColumnStep
  <1> HIDE DEF Kept
  <1>2. IInv /\ [Next]_vars => [Kept]_vars
    BY <1>1
  <1>3. Spec => [][Kept]_vars
    BY <1>2, Invariance, PTL DEF Spec
  <1> QED
    BY <1>3 DEF ColumnsIndependent, Kept

(* A write of the password is the save of a request that carries a link or *)
(* an access token of the account.                                         *)
LEMMA PasswordStep ==
  ASSUME IInv, Effect, NEW i \in UserIds, users[i] # NoRow, users'[i] # NoRow,
         users'[i].password # users[i].password
  PROVE  \E r \in Requests :
           /\ h[r].id = i /\ h[r].pc \in DOMAIN Warrant
           /\ users'[i].password = h[r].row.password
           /\ [kind |-> Warrant[h[r].pc], id |-> i] \in tokens
  <1>1. users[i] \in Row
    BY DEF IInv, TypeOK
  <1>2. PICK r \in Requests : /\ h[r].pc \in SavePcs /\ h[r].id = i
                              /\ Column[h[r].pc] = "password"
                              /\ users'[i].password = h[r].row.password
    BY <1>1, ColumnStep
  <1>3. HandlerOK(h[r])
    BY DEF IInv
  <1>4. CASE h[r].pc = "savePassword"
    <2>1. [kind |-> "access", id |-> i] \in tokens
      BY <1>2, <1>3, <1>4 DEF HandlerOK
    <2>2. h[r].pc \in DOMAIN Warrant /\ Warrant[h[r].pc] = "access"
      BY <1>4 DEF Warrant
    <2> QED
      BY <1>2, <2>1, <2>2
  <1>5. CASE h[r].pc = "saveReset"
    <2>1. [kind |-> "resetPassword", id |-> i] \in tokens
      BY <1>2, <1>3, <1>5 DEF HandlerOK
    <2>2. h[r].pc \in DOMAIN Warrant /\ Warrant[h[r].pc] = "resetPassword"
      BY <1>5 DEF Warrant
    <2> QED
      BY <1>2, <2>1, <2>2
  <1>6. CASE h[r].pc = "saveConfirmed"
    BY <1>2, <1>6 DEF Column
  <1>7. CASE h[r].pc = "saveName"
    BY <1>2, <1>7 DEF Column
  <1> QED
    BY <1>2, <1>4, <1>5, <1>6, <1>7

(* The password of an account changes only by the save of a request that   *)
(* presented a reset link or an access token of it, at however late a      *)
(* moment the save takes place.                                            *)
THEOREM PasswordsAuthorized == Spec => PasswordChangeAuthorized
  <1> DEFINE Authorized ==
               \A i \in UserIds :
                 /\ users[i] # NoRow /\ users'[i] # NoRow
                 /\ users'[i].password # users[i].password
                 => \E r \in Requests :
                      /\ h[r].id = i /\ h[r].pc \in DOMAIN Warrant
                      /\ users'[i].password = h[r].row.password
                      /\ [kind |-> Warrant[h[r].pc], id |-> i] \in tokens
  <1>1. IInv /\ [Next]_vars => Authorized
    BY StepEffect, PasswordStep
  <1> HIDE DEF Authorized
  <1>2. IInv /\ [Next]_vars => [Authorized]_vars
    BY <1>1
  <1>3. Spec => [][Authorized]_vars
    BY <1>2, Invariance, PTL DEF Spec
  <1> QED
    BY <1>3 DEF PasswordChangeAuthorized, Authorized

-----------------------------------------------------------------------------
(* The ids a handler may carry after a step: none, the one it carried, one *)
(* with a row, or one that was never used.                                 *)
Loadable(r) == {NoId, h[r].id} \cup Live \cup FreeIds

LEMMA AnswerIds ==
  ASSUME IInv, NEW r \in Requests, NEW status, Answer(r, status)
  PROVE  \A q \in Requests : h'[q].id \in Loadable(q)
  BY DEF Answer, Idle, Loadable, IInv, TypeOK

LEMMA AwaitIds ==
  ASSUME IInv, NEW r \in Requests, NEW pc, NEW i \in Loadable(r), NEW row,
         Await(r, pc, i, row)
  PROVE  \A q \in Requests : h'[q].id \in Loadable(q)
  <1> DEFINE x == [pc |-> pc, id |-> i, row |-> row]
  <1>1. h' = [h EXCEPT ![r] = x] /\ x.id = i
    BY DEF Await
  <1> HIDE DEF x
  <1> QED
    BY <1>1 DEF Loadable, IInv, TypeOK

(* No action loads an id that has been removed: one step per group.        *)
LEMMA StepIds ==
  ASSUME IInv, [Next]_vars
  PROVE  \A q \in Requests : h'[q].id \in Loadable(q)
  <1> DEFINE Goal == \A q \in Requests : h'[q].id \in Loadable(q)
  <1> SUFFICES Goal
    OBVIOUS
  <1>a. ASSUME NEW r \in Requests, NEW i \in {NoId, h[r].id} \cup Live,
               NEW pc, NEW row, Await(r, pc, i, row)
        PROVE  Goal
    BY <1>a, AwaitIds DEF Loadable
  <1>b. ASSUME NEW r \in Requests, NEW status, Answer(r, status) PROVE Goal
    BY <1>b, AnswerIds
  <1>c. /\ \A e : WithEmail(e) \subseteq Live
        /\ \A u : WithUsername(u) \subseteq Live
    BY DEF WithEmail, WithUsername
  <1>d. UNCHANGED h => Goal
    BY DEF Loadable
  <1> HIDE DEF Goal
  <1>e. ASSUME NEW r \in Requests, NEW found \in SUBSET Live, NEW p,
               SignInWith(r, found, p)
        PROVE  Goal
    BY <1>a, <1>b, <1>e DEF SignInWith
  <1>1. ASSUME NEW r \in Requests, Begin(r) PROVE Goal
    <2>1. ASSUME NEW e, DeleteByEmailDev(r, e) \/ ForgotPassword(r, e)
          PROVE  Goal
      BY <1>a, <1>b, <1>c, <2>1 DEF DeleteByEmailDev, ForgotPassword
    <2>2. ASSUME NEW e, NEW u, NEW p, NEW p1, NEW p2,
                 \/ SignUp(r, e, u, p1, p2)
                 \/ SignInByEmail(r, e, p)
                 \/ SignInByUsername(r, u, p)
          PROVE  Goal
      BY <1>a, <1>b, <1>c, <1>e, <2>2
      DEF SignUp, SignInByEmail, SignInByUsername
    <2>3. ASSUME NEW t, NEW p1, NEW p2,
                 \/ ConfirmEmail(r, t)
                 \/ RefreshAccess(r, t)
                 \/ ResetPassword(r, t, p1, p2)
          PROVE  Goal
      BY <1>a, <1>b, <2>3 DEF ConfirmEmail, RefreshAccess, ResetPassword
    <2>4. ASSUME NEW i, NEW t, NEW n, NEW p, NEW p1, NEW p2,
                 \/ Logout(r, i, t)
                 \/ UpdatePassword(r, i, p, p1, p2)
                 \/ UpdateName(r, i, n)
                 \/ DeleteUser(r, i, p)
          PROVE  Goal
      BY <1>a, <1>b, <2>4 DEF Logout, UpdatePassword, UpdateName, DeleteUser
    <2>5. CASE Refuse(r)
      BY <1>b, <2>5 DEF Refuse
    <2> QED
      BY <1>1, <2>1, <2>2, <2>3, <2>4, <2>5 DEF Begin, Enter
  <1>2. ASSUME NEW r \in Requests, Resume(r) PROVE Goal
    <2>1. CASE Insert(r)
      <3>1. ASSUME NEW i \in FreeIds, Await(r, "mailSignUp", i, NoRow)
            PROVE  Goal
        BY <3>1, AwaitIds DEF Loadable, Goal
      <3> QED
        BY <1>b, <2>1, <3>1 DEF Insert
    <2>2. CASE Save(r)
      BY <1>a, <1>b, <2>2 DEF Save, AfterSave
    <2>3. CASE CountUsername(r) \/ FindConfirmed(r)
      BY <1>a, <1>b, <1>c, <2>3 DEF CountUsername, FindConfirmed
    <2>4. CASE SendMail(r) \/ Mint(r) \/ Destroy(r)
      BY <1>b, <2>4 DEF SendMail, Mint, Destroy
    <2> QED
      BY <1>2, <2>1, <2>2, <2>3, <2>4 DEF Resume
  <1>3. CASE Crash
    BY <1>3 DEF Crash, Idle, Loadable, Goal
  <1>4. CASE Accident /\ ~Crash
    BY <1>b, <1>d, <1>4 DEF Accident, Fail, Deliver, Lose
  <1>5. CASE UNCHANGED vars
    BY <1>d, <1>5 DEF vars
  <1> QED
    BY <1>1, <1>2, <1>3, <1>4, <1>5 DEF Next

(* Removal is final, for the table and for sessions: once no handler works *)
(* for a removed account, none will, and its old tokens, although they     *)
(* verify for ever, get it no new one.                                     *)
THEOREM QuietOnceRemoved == Spec => QuietAfterRemoval
  <1> DEFINE Quiet == \A i \in UserIds :
                        Gone(i) => Gone(i)' /\ Session(i)' = Session(i)
  <1>1. IInv /\ [Next]_vars => Quiet
    <2> SUFFICES ASSUME IInv, [Next]_vars, NEW i \in UserIds, Gone(i)
                 PROVE  Gone(i)' /\ Session(i)' = Session(i)
      OBVIOUS
    <2>1. /\ users[i] = NoRow /\ owner[i] # NoEmail
          /\ \A r \in Requests : h[r].id # i
          /\ users \in [UserIds -> Row \cup {NoRow}]
          /\ owner \in [UserIds -> Emails \cup {NoEmail}]
      BY DEF Gone, Carries, IInv, TypeOK
    <2>2. Carries(i)' = {}
      BY <2>1, StepIds, NullAssumption DEF Carries, Loadable, Live, FreeIds
    <2>3. users'[i] = NoRow /\ owner'[i] # NoEmail /\ Session(i)' = Session(i)
      <3> USE DEF Session
      <3>1. CASE Leaves
        BY <2>1, <3>1 DEF Leaves
      <3>2. ASSUME NEW j \in UserIds, NEW row \in Row, Registers(j, row)
            PROVE  /\ users'[i] = NoRow /\ owner'[i] # NoEmail
                   /\ Session(i)' = Session(i)
        BY <2>1, <3>2 DEF Registers
      <3>3. ASSUME NEW j \in UserIds, Signs(j)
            PROVE  /\ users'[i] = NoRow /\ owner'[i] # NoEmail
                   /\ Session(i)' = Session(i)
        BY <2>1, <3>3 DEF Signs
      <3>4. ASSUME NEW r \in Requests, Writes(r)
            PROVE  /\ users'[i] = NoRow /\ owner'[i] # NoEmail
                   /\ Session(i)' = Session(i)
        BY <2>1, <3>4 DEF Writes, Saved
      <3>5. ASSUME NEW j \in UserIds, Removes(j)
            PROVE  /\ users'[i] = NoRow /\ owner'[i] # NoEmail
                   /\ Session(i)' = Session(i)
        BY <2>1, <3>5 DEF Removes
      <3>6. ASSUME NEW t \in Token, Receives(t)
            PROVE  /\ users'[i] = NoRow /\ owner'[i] # NoEmail
                   /\ Session(i)' = Session(i)
        BY <2>1, <3>6 DEF Receives
      <3> QED
        BY <3>1, <3>2, <3>3, <3>4, <3>5, <3>6, StepEffect DEF Effect
    <2> QED
      BY <2>2, <2>3 DEF Gone
  <1> HIDE DEF Quiet
  <1>2. IInv /\ [Next]_vars => [Quiet]_vars
    BY <1>1
  <1>3. Spec => [][Quiet]_vars
    BY <1>2, Invariance, PTL DEF Spec
  <1> QED
    BY <1>3 DEF QuietAfterRemoval, Quiet

-----------------------------------------------------------------------------
(* No request undoes what another has done to an account: a removed one    *)
(* stays removed, although requests that had loaded its row go on to save  *)
(* it, a confirmed one stays confirmed, and the id, the address and the    *)
(* user name of an account are never given to another.                     *)
NothingUndone ==
  \A i \in UserIds :
    /\ owner[i] # NoEmail => owner'[i] = owner[i]
    /\ owner[i] # NoEmail /\ users[i] = NoRow => users'[i] = NoRow
    /\ users[i] # NoRow /\ users'[i] # NoRow =>
         /\ users'[i].email = users[i].email
         /\ users'[i].username = users[i].username
         /\ users[i].confirmed => users'[i].confirmed

LEMMA NothingUndoneStep == IInv /\ [Next]_vars => NothingUndone
  <1> SUFFICES ASSUME IInv, Effect, NEW i \in UserIds
               PROVE  /\ owner[i] # NoEmail => owner'[i] = owner[i]
                      /\ owner[i] # NoEmail /\ users[i] = NoRow => users'[i] = NoRow
                      /\ users[i] # NoRow /\ users'[i] # NoRow =>
                           /\ users'[i].email = users[i].email
                           /\ users'[i].username = users[i].username
                           /\ users[i].confirmed => users'[i].confirmed
    BY StepEffect DEF NothingUndone
  <1>a. /\ users \in [UserIds -> Row \cup {NoRow}]
        /\ owner \in [UserIds -> Emails \cup {NoEmail}]
    BY DEF IInv, TypeOK
  <1>1. owner[i] # NoEmail => owner'[i] = owner[i]
    BY <1>a DEF Effect, Leaves, Registers, Signs, Writes, Removes, Receives
  <1>2. owner[i] # NoEmail /\ users[i] = NoRow => users'[i] = NoRow
    <2> SUFFICES ASSUME owner[i] # NoEmail, users[i] = NoRow PROVE users'[i] = NoRow
      OBVIOUS
    <2>1. ASSUME NEW r \in Requests, Writes(r) PROVE users'[i] = NoRow
      BY <1>a, <2>1 DEF Writes, Saved
    <2> QED
      BY <1>a, <2>1 DEF Effect, Leaves, Registers, Signs, Removes, Receives
  <1>3. ASSUME users[i] # NoRow, users'[i] # NoRow
        PROVE  /\ users'[i].email = users[i].email
               /\ users'[i].username = users[i].username
               /\ users[i].confirmed => users'[i].confirmed
    <2>1. users[i] \in Row /\ {"email", "username", "confirmed"} \subseteq DOMAIN users[i]
      BY <1>a, <1>3
    <2>2. \A r \in Requests : h[r].pc \in SavePcs =>
            /\ Column[h[r].pc] \in {"confirmed", "name", "password"}
            /\ Column[h[r].pc] = "confirmed" => h[r].row.confirmed
      <3> SUFFICES ASSUME NEW r \in Requests, h[r].pc \in SavePcs
                   PROVE  /\ Column[h[r].pc] \in {"confirmed", "name", "password"}
                          /\ Column[h[r].pc] = "confirmed" => h[r].row.confirmed
        OBVIOUS
      <3>1. CASE h[r].pc = "saveConfirmed"
        <4>1. HandlerOK(h[r])
          BY DEF IInv
        <4>2. h[r].row.confirmed
          BY <3>1, <4>1 DEF HandlerOK
        <4>3. Column[h[r].pc] = "confirmed"
          BY <3>1 DEF Column
        <4> QED
          BY <4>2, <4>3
      <3>2. CASE h[r].pc # "saveConfirmed"
        BY <3>2 DEF Column
      <3> QED
        BY <3>1, <3>2
    <2>3. users'[i].email = users[i].email
      BY <1>3, <2>1, <2>2, ColumnStep
    <2>4. users'[i].username = users[i].username
      BY <1>3, <2>1, <2>2, ColumnStep
    <2>5. users[i].confirmed => users'[i].confirmed
      BY <1>3, <2>1, <2>2, ColumnStep
    <2> QED
      BY <2>3, <2>4, <2>5
  <1> QED
    BY <1>1, <1>2, <1>3

(* Whatever requests interleave, however late the entities they save.      *)
THEOREM ForwardOnly == Spec => [][NothingUndone]_vars
  <1>1. IInv /\ [Next]_vars => [NothingUndone]_vars
    BY NothingUndoneStep
  <1> QED
    BY <1>1, Invariance, PTL DEF Spec

-----------------------------------------------------------------------------
(***************************************************************************)
(* Why Answered holds, short of fairness: only its own continuation and    *)
(* faults move a handler, and always nearer its answer.                    *)
(***************************************************************************)
(* The awaits before a handler, the one it is at included.                 *)
AwaitsFrom ==
  [idle |-> 0, countUsername |-> 3, insert |-> 2, saveConfirmed |-> 3,
   findConfirmed |-> 2, savePassword |-> 2, saveName |-> 1, saveReset |-> 1,
   mint |-> 1, destroy |-> 1, mailSignUp |-> 1, mailSignIn |-> 1, mailReset |-> 1]

OthersStay(r) == \A q \in Requests \ {r} : h'[q] = h[q]

LEMMA AnswerAlone ==
  ASSUME IInv, NEW r \in Requests,
         (\E status : Answer(r, status)) \/ (\E pc, i, row : Await(r, pc, i, row))
  PROVE  OthersStay(r)
  BY DEF Answer, Await, OthersStay, IInv, TypeOK

(* A request that arrives finds no handler of its own, and moves no other. *)
LEMMA BeginAlone ==
  ASSUME IInv, NEW r \in Requests, Begin(r)
  PROVE  h[r] = Idle /\ OthersStay(r)
  <1> DEFINE Goal == h[r] = Idle /\ OthersStay(r)
  <1> SUFFICES Goal
    OBVIOUS
  <1>a. (\E status : Answer(r, status)) => OthersStay(r)
    BY AnswerAlone
  <1>b. (\E pc, i, row : Await(r, pc, i, row)) => OthersStay(r)
    BY AnswerAlone
  <1>c. ASSUME NEW found, NEW p, SignInWith(r, found, p) PROVE OthersStay(r)
    BY <1>a, <1>b, <1>c DEF SignInWith
  <1>1. ASSUME NEW e, DeleteByEmailDev(r, e) \/ ForgotPassword(r, e)
        PROVE  Goal
    BY <1>a, <1>b, <1>1 DEF DeleteByEmailDev, ForgotPassword
  <1>2. ASSUME NEW e, NEW u, NEW p, NEW p1, NEW p2,
               \/ SignUp(r, e, u, p1, p2)
               \/ SignInByEmail(r, e, p)
               \/ SignInByUsername(r, u, p)
        PROVE  Goal
    BY <1>a, <1>b, <1>c, <1>2 DEF SignUp, SignInByEmail, SignInByUsername
  <1>3. ASSUME NEW t, NEW p1, NEW p2,
               \/ ConfirmEmail(r, t)
               \/ RefreshAccess(r, t)
               \/ ResetPassword(r, t, p1, p2)
        PROVE  Goal
    BY <1>a, <1>b, <1>3 DEF ConfirmEmail, RefreshAccess, ResetPassword
  <1>4. ASSUME NEW i, NEW t, NEW n, NEW p, NEW p1, NEW p2,
               \/ Logout(r, i, t)
               \/ UpdatePassword(r, i, p, p1, p2)
               \/ UpdateName(r, i, n)
               \/ DeleteUser(r, i, p)
        PROVE  Goal
    BY <1>a, <1>b, <1>4 DEF Logout, UpdatePassword, UpdateName, DeleteUser
  <1>5. CASE Refuse(r)
    BY <1>a, <1>5 DEF Refuse
  <1> HIDE DEF Goal
  <1> QED
    BY <1>1, <1>2, <1>3, <1>4, <1>5 DEF Begin, Enter

LEMMA ResumeAlone ==
  ASSUME IInv, NEW r \in Requests, Resume(r)
  PROVE  OthersStay(r)
  <1>a. (\E status : Answer(r, status)) => OthersStay(r)
    BY AnswerAlone
  <1>b. (\E pc, i, row : Await(r, pc, i, row)) => OthersStay(r)
    BY AnswerAlone
  <1> QED
    BY <1>a, <1>b DEF Resume, CountUsername, Insert, SendMail, Mint, Save,
       AfterSave, FindConfirmed, Destroy

(* So a pending handler is moved by its continuation or by a fault.        *)
LEMMA MovedBy ==
  ASSUME IInv, [Next]_vars, NEW r \in Requests, h[r].pc # "idle", h'[r] # h[r]
  PROVE  Resume(r) \/ Fail(r) \/ Crash
  <1>1. ASSUME NEW q \in Requests, Begin(q) PROVE FALSE
    BY <1>1, BeginAlone DEF OthersStay, Idle
  <1>2. ASSUME NEW q \in Requests, Resume(q) PROVE q = r
    BY <1>2, ResumeAlone DEF OthersStay
  <1>3. ASSUME NEW q \in Requests, Fail(q) PROVE q = r
    BY <1>3, AnswerAlone DEF OthersStay, Fail
  <1> QED
    BY <1>1, <1>2, <1>3 DEF Next, Accident, Deliver, Lose, vars

NearerAnswer ==
  \A r \in Requests : h[r].pc # "idle" /\ h'[r] # h[r]
    => AwaitsFrom[h'[r].pc] < AwaitsFrom[h[r].pc]

(* Whatever other requests and faults do, a request is at most three       *)
(* awaits from its answer when it begins to wait, and only comes nearer:   *)
(* no handler loops, starts over or is sent back by another.               *)
THEOREM AwaitsRunOut ==
  Spec => [](\A r \in Requests : AwaitsFrom[h[r].pc] \in 0..3) /\ [][NearerAnswer]_vars
  <1>1. IInv => \A r \in Requests : AwaitsFrom[h[r].pc] \in 0..3
    <2> SUFFICES ASSUME IInv, NEW r \in Requests PROVE AwaitsFrom[h[r].pc] \in 0..3
      OBVIOUS
    <2>1. h[r].pc \in Pcs
      BY DEF IInv, TypeOK
    <2> QED
      BY <2>1 DEF AwaitsFrom, Pcs, MailPcs
  <1>2. IInv /\ [Next]_vars => NearerAnswer
    <2> SUFFICES ASSUME IInv, [Next]_vars, NEW r \in Requests,
                        h[r].pc # "idle", h'[r] # h[r]
                 PROVE  AwaitsFrom[h'[r].pc] < AwaitsFrom[h[r].pc]
      BY DEF NearerAnswer
    <2> DEFINE Near == AwaitsFrom[h'[r].pc] < AwaitsFrom[h[r].pc]
    <2> SUFFICES Near
      OBVIOUS
    <2>a. h[r].pc \in Pcs \ {"idle"} /\ AwaitsFrom[h[r].pc] \in 1..3
      <3>1. h[r].pc \in Pcs
        BY DEF IInv, TypeOK
      <3> QED
        BY <3>1 DEF AwaitsFrom, Pcs, MailPcs
    <2>b. ASSUME NEW status, Answer(r, status) PROVE Near
      <3>1. h'[r].pc = "idle"
        BY <2>b DEF Answer, Idle, IInv, TypeOK
      <3> QED
        BY <2>a, <3>1 DEF AwaitsFrom
    <2>c. ASSUME NEW pc, NEW i, NEW row, Await(r, pc, i, row),
                 AwaitsFrom[pc] < AwaitsFrom[h[r].pc]
          PROVE  Near
      <3>1. h'[r].pc = pc
        BY <2>c DEF Await, IInv, TypeOK
      <3> QED
        BY <2>c, <3>1
    <2> HIDE DEF Near
    <2>1. CASE CountUsername(r)
      BY <2>b, <2>c, <2>1 DEF CountUsername, AwaitsFrom
    <2>2. CASE Insert(r)
      BY <2>b, <2>c, <2>2 DEF Insert, AwaitsFrom
    <2>3. CASE Save(r)
      <3>1. CASE h[r].pc = "saveConfirmed"
        <4>1. \/ \E status : Answer(r, status)
              \/ Await(r, "findConfirmed", h[r].id, h[r].row)
          BY <2>3, <3>1 DEF Save, AfterSave
        <4>2. AwaitsFrom["findConfirmed"] < AwaitsFrom[h[r].pc]
          BY <3>1 DEF AwaitsFrom
        <4> QED
          BY <2>b, <2>c, <4>1, <4>2
      <3>2. CASE h[r].pc = "savePassword"
        <4>1. \/ \E status : Answer(r, status)
              \/ Await(r, "mint", h[r].id, NoRow)
          BY <2>3, <3>2 DEF Save, AfterSave
        <4>2. AwaitsFrom["mint"] < AwaitsFrom[h[r].pc]
          BY <3>2 DEF AwaitsFrom
        <4> QED
          BY <2>b, <2>c, <4>1, <4>2
      <3>3. CASE h[r].pc \notin {"saveConfirmed", "savePassword"}
        BY <2>b, <2>3, <3>3 DEF Save, AfterSave
      <3> QED
        BY <3>1, <3>2, <3>3
    <2>4. CASE FindConfirmed(r)
      BY <2>b, <2>c, <2>4 DEF FindConfirmed, AwaitsFrom
    <2>5. CASE SendMail(r) \/ Mint(r) \/ Destroy(r) \/ Fail(r)
      BY <2>b, <2>5 DEF SendMail, Mint, Destroy, Fail
    <2>6. CASE Crash
      <3>1. h'[r].pc = "idle"
        BY <2>6 DEF Crash, Idle
      <3> QED
        BY <2>a, <3>1 DEF AwaitsFrom, Near
    <2> QED
      BY <2>1, <2>2, <2>3, <2>4, <2>5, <2>6, MovedBy DEF Resume
  <1>3. IInv /\ [Next]_vars => [NearerAnswer]_vars
    BY <1>2
  <1> QED
    BY <1>1, <1>3, Invariance, PTL DEF Spec

-----------------------------------------------------------------------------
(* The refinement of AccountLifecycle: each effect is one of its steps or  *)
(* none.                                                                   *)
StageBar    == [i \in UserIds |-> Stage(i)]
ProvenBar   == {e \in Emails : Proven(e)}
SessionsBar == {i \in UserIds : [kind |-> "access", id |-> i] \in tokens}

(* The stages name what the table says of an id.                           *)
LEMMA Stages ==
  ASSUME IInv, NEW i \in UserIds
  PROVE  /\ StageBar[i] = "free" <=> owner[i] = NoEmail
         /\ StageBar[i] \in {"pending", "active"} <=> i \in Live
         /\ i \in Live =>
              StageBar[i] = IF users[i].confirmed THEN "active" ELSE "pending"
         /\ StageBar[i] \in {"free", "pending", "active", "closed"}
         /\ owner[i] = NoEmail => i \notin Live
  BY FreeHasNoRow DEF StageBar, Stage, Live

(* A step that keeps owner and the set of rows, and no confirmation flag   *)
(* of which goes up, keeps every stage.                                    *)
LEMMA SameStages ==
  ASSUME UNCHANGED owner,
         \A i \in UserIds :
           /\ users'[i] = NoRow <=> users[i] = NoRow
           /\ users[i] # NoRow => users'[i].confirmed = users[i].confirmed
  PROVE  StageBar' = StageBar
  BY DEF StageBar, Stage

LEMMA RegisterRefines ==
  ASSUME IInv, NEW i \in UserIds, NEW row \in Row, Registers(i, row)
  PROVE  Lifecycle!Register(i, row.email)
  <1> USE DEF Registers
  <1>1. /\ users \in [UserIds -> Row \cup {NoRow}]
        /\ owner \in [UserIds -> Emails \cup {NoEmail}]
        /\ \A t \in tokens : t.id \in UserIds /\ owner[t.id] # NoEmail
    BY Owned DEF IInv, TypeOK
  <1>2. StageBar[i] = "free"
    BY Stages
  <1>3. \A j \in UserIds : StageBar[j] \in {"pending", "active"}
                             => owner[j] # row.email
    BY Stages, LoadedRow
  <1>4. StageBar' = [StageBar EXCEPT ![i] = "pending"]
    <2>1. users'[i] = row /\ owner'[i] = row.email /\ row # NoRow
      BY <1>1, RowNotNull
    <2>2. Stage(i)' = "pending"
      BY <2>1 DEF Stage
    <2>3. \A j \in UserIds \ {i} : Stage(j)' = Stage(j)
      BY <1>1 DEF Stage
    <2> QED
      BY <2>2, <2>3 DEF StageBar
  <1>5. ProvenBar' = ProvenBar
    <2>1. \A t \in tokens : owner'[t.id] = owner[t.id]
      BY <1>1
    <2> QED
      BY <2>1 DEF ProvenBar, Proven
  <1>6. SessionsBar' = SessionsBar
    BY DEF SessionsBar
  <1> QED
    BY <1>2, <1>3, <1>4, <1>5, <1>6
    DEF Lifecycle!Register, Lifecycle!Open, StageBar, ProvenBar, SessionsBar

LEMMA SignRefines ==
  ASSUME IInv, NEW i \in UserIds, Signs(i)
  PROVE  Lifecycle!OpenSession(i)
  <1> USE DEF Signs
  <1>1. StageBar[i] # "free"
    BY Stages
  <1>2. owner[i] \in ProvenBar
    BY DEF ProvenBar, IInv, TypeOK
  <1>3. StageBar' = StageBar
    BY DEF StageBar, Stage
  <1>4. ProvenBar' = ProvenBar
    <2>1. \A t \in tokens' : t.kind = "confirmation" => t \in tokens
      OBVIOUS
    <2> QED
      BY <2>1 DEF ProvenBar, Proven
  <1>5. SessionsBar' = SessionsBar \cup {i}
    BY DEF SessionsBar
  <1> QED
    BY <1>1, <1>2, <1>3, <1>4, <1>5
    DEF Lifecycle!OpenSession, Lifecycle!Registered, StageBar, ProvenBar,
        SessionsBar

(* A save activates the account when it confirms a row for the first time, *)
(* and is invisible otherwise.                                             *)
LEMMA WriteRefines ==
  ASSUME IInv, NEW r \in Requests, Writes(r)
  PROVE  \/ Lifecycle!Activate(h[r].id)
         \/ UNCHANGED Lifecycle!vars
  <1>0. h[r].id \in UserIds /\ h[r].row \in Row
    BY DEF Writes, IInv, TypeOK, HandlerOK
  <1> PICK i \in UserIds, row \in Row : i = h[r].id /\ row = h[r].row
    BY <1>0
  <1>1. /\ users \in [UserIds -> Row \cup {NoRow}]
        /\ UNCHANGED <<owner, tokens>>
    BY DEF Writes, IInv, TypeOK
  <1>2. ProvenBar' = ProvenBar /\ SessionsBar' = SessionsBar
    BY <1>1 DEF ProvenBar, Proven, SessionsBar
  <1>3. ASSUME StageBar' = StageBar PROVE UNCHANGED Lifecycle!vars
    BY <1>1, <1>2, <1>3 DEF Lifecycle!vars, StageBar, ProvenBar, SessionsBar
  <1>4. CASE users[i] = NoRow
    BY <1>1, <1>3, <1>4, SameStages DEF Writes, Saved
  <1>5. CASE users[i] # NoRow /\ h[r].pc # "saveConfirmed"
    <2> DEFINE k == Column[h[r].pc]
    <2>1. k \in {"name", "password"}
      BY <1>5 DEF Writes, Column
    <2>2. users' = [users EXCEPT ![i] = [@ EXCEPT ![k] = row[k]]]
      BY <1>5 DEF Writes, Saved
    <2> HIDE DEF k
    <2>3. /\ users'[i] = [users[i] EXCEPT ![k] = row[k]]
          /\ \A j \in UserIds \ {i} : users'[j] = users[j]
      BY <1>1, <2>2
    <2>4. users[i] \in Row
      BY <1>1, <1>5
    <2>5. users'[i] \in Row /\ users'[i].confirmed = users[i].confirmed
      BY <1>1, <2>1, <2>3, <2>4
    <2> QED
      BY <1>1, <1>3, <1>5, <2>3, <2>5, RowNotNull, SameStages
  <1>6. CASE users[i] # NoRow /\ h[r].pc = "saveConfirmed"
    <2>1. users' = [users EXCEPT ![i] = [@ EXCEPT !["confirmed"] = row["confirmed"]]]
      BY <1>6 DEF Writes, Saved, Column
    <2>2. row.confirmed /\ ConfirmationReceived(i)
      BY <1>6 DEF IInv, HandlerOK
    <2>3. /\ users[i] \in Row
          /\ users'[i] = [users[i] EXCEPT !.confirmed = row.confirmed]
          /\ \A j \in UserIds \ {i} : users'[j] = users[j]
      BY <1>1, <1>6, <2>1
    <2>4. users'[i] \in Row /\ users'[i].confirmed
      BY <1>1, <2>2, <2>3
    <2>5. i \in Live /\ owner[i] # NoEmail /\ owner[i] \in ProvenBar
      BY <1>1, <1>6, <2>2, LoadedRow, ReceiptProves
      DEF Live, ProvenBar, IInv, TypeOK
    <2>6. CASE users[i].confirmed
      BY <1>1, <1>3, <1>6, <2>3, <2>4, <2>6, RowNotNull, SameStages
    <2>7. CASE ~users[i].confirmed
      <3>1. Stage(i)' = "active"
        BY <1>1, <2>4, <2>5, RowNotNull DEF Stage
      <3>2. \A j \in UserIds \ {i} : Stage(j)' = Stage(j)
        BY <1>1, <2>3 DEF Stage
      <3>3. StageBar' = [StageBar EXCEPT ![i] = "active"]
        BY <1>1, <3>1, <3>2 DEF StageBar
      <3>4. StageBar[i] = "pending"
        BY <1>1, <2>5, <2>7, Stages
      <3>5. Lifecycle!Activate(i)
        BY <1>1, <1>2, <2>5, <3>3, <3>4
        DEF Lifecycle!Activate, StageBar, ProvenBar, SessionsBar
      <3> QED
        BY <3>5
    <2> QED
      BY <2>6, <2>7
  <1> QED
    BY <1>4, <1>5, <1>6

LEMMA RemoveRefines ==
  ASSUME IInv, NEW i \in UserIds, Removes(i)
  PROVE  Lifecycle!Close(i)
  <1> USE DEF Removes
  <1>1. StageBar[i] \in {"pending", "active"} /\ owner[i] # NoEmail
    BY Stages
  <1>2. StageBar' = [StageBar EXCEPT ![i] = "closed"]
    <2>1. users'[i] = NoRow /\ \A j \in UserIds \ {i} : users'[j] = users[j]
      BY DEF IInv, TypeOK
    <2> QED
      BY <1>1, <2>1 DEF StageBar, Stage
  <1>3. ProvenBar' = ProvenBar /\ SessionsBar' = SessionsBar
    BY DEF ProvenBar, Proven, SessionsBar
  <1> QED
    BY <1>1, <1>2, <1>3
    DEF Lifecycle!Close, Lifecycle!Open, StageBar, ProvenBar, SessionsBar

(* A confirmation link proves the address its id was created for, whether  *)
(* the account is still there or not; a reset link shows nothing.          *)
LEMMA ReceiveRefines ==
  ASSUME IInv, NEW t \in Token, Receives(t)
  PROVE  \/ Lifecycle!Prove(t.id)
         \/ UNCHANGED Lifecycle!vars
  <1> USE DEF Receives
  <1>1. StageBar' = StageBar /\ StageBar[t.id] # "free"
    BY Stages DEF StageBar, Stage
  <1>2. SessionsBar' = SessionsBar
    BY DEF SessionsBar
  <1>3. CASE t.kind = "confirmation"
    <2>1. owner[t.id] \in Emails
      BY DEF IInv, TypeOK
    <2>2. ProvenBar' = ProvenBar \cup {owner[t.id]}
      BY <1>3, <2>1 DEF ProvenBar, Proven
    <2> QED
      BY <1>1, <1>2, <2>2
      DEF Lifecycle!Prove, Lifecycle!Registered, StageBar, ProvenBar, SessionsBar
  <1>4. CASE t.kind = "resetPassword"
    <2>1. ProvenBar' = ProvenBar
      BY <1>4 DEF ProvenBar, Proven
    <2> QED
      BY <1>1, <1>2, <2>1 DEF Lifecycle!vars, StageBar, ProvenBar, SessionsBar
  <1> QED
    BY <1>3, <1>4

(* The empty tables are the initial state of the lifecycle.                *)
LEMMA LifecycleInit == Init => Lifecycle!Init
  BY DEF Init, Lifecycle!Init, Stage, Proven

(* Every step of the service is one step of the lifecycle or none.         *)
LEMMA LifecycleStep == IInv /\ [Next]_vars => [Lifecycle!Next]_(Lifecycle!vars)
  <1> SUFFICES ASSUME IInv, Effect
               PROVE  [Lifecycle!Next]_(Lifecycle!vars)
    BY StepEffect
  <1>1. CASE Leaves
    BY <1>1 DEF Leaves, Lifecycle!vars, Stage, Proven
  <1>2. ASSUME NEW i \in UserIds, NEW row \in Row, Registers(i, row)
        PROVE  Lifecycle!Next
    <2>1. row.email \in Emails
      OBVIOUS
    <2> QED
      BY <1>2, <2>1, RegisterRefines DEF Lifecycle!Next
  <1>3. ASSUME NEW i \in UserIds, Signs(i) PROVE Lifecycle!Next
    BY <1>3, SignRefines DEF Lifecycle!Next
  <1>4. ASSUME NEW r \in Requests, Writes(r)
        PROVE  [Lifecycle!Next]_(Lifecycle!vars)
    <2>1. h[r].id \in UserIds
      BY <1>4 DEF Writes, IInv, TypeOK, HandlerOK
    <2> QED
      BY <1>4, <2>1, WriteRefines DEF Lifecycle!Next
  <1>5. ASSUME NEW i \in UserIds, Removes(i) PROVE Lifecycle!Next
    BY <1>5, RemoveRefines DEF Lifecycle!Next
  <1>6. ASSUME NEW t \in Token, Receives(t)
        PROVE  [Lifecycle!Next]_(Lifecycle!vars)
    <2>1. t.id \in UserIds
      OBVIOUS
    <2> QED
      BY <1>6, <2>1, ReceiveRefines DEF Lifecycle!Next
  <1> QED
    BY <1>1, <1>2, <1>3, <1>4, <1>5, <1>6 DEF Effect

(* For any number of requests that interleave at every await, with crashes *)
(* and lost mails, the service implements AccountLifecycle: an account is  *)
(* registered for an address nobody else has, activated and given sessions *)
(* only when the address is proven, and closed for good.                   *)
THEOREM FollowsLifecycle == Spec => LifecycleSpec
  BY Invariance, LifecycleInit, LifecycleStep, PTL
  DEF Spec, LifecycleSpec, Lifecycle!Spec
=============================================================================
