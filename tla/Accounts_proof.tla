--------------------------- MODULE Accounts_proof ---------------------------
(***************************************************************************)
(* Proofs about Accounts, for any number of requests, users and names.     *)
(***************************************************************************)
EXTENDS Accounts, TLAPS

USE DEF MailKinds, SessionKinds, TokenKinds, Token, SavePcs, MailPcs, Pcs,
        NoAnswer, Statuses, Row

(* A row is not the null row, whatever its columns.                        *)
LEMMA RowNotNull == \A x \in Row : x # NoRow
  BY NoRowAssumption

(* The invariant holds initially: no rows, no tokens, idle handlers.       *)
LEMMA InitIInv == Init => IInv
  <1> SUFFICES ASSUME Init PROVE IInv
    OBVIOUS
  <1> USE DEF Init
  <1>1. TypeOK
    BY DEF TypeOK, Idle
  <1>2. Live = {}
    BY DEF Live
  <1>3. UniqueAccounts /\ ConfirmedByMail /\ SessionsProven /\ OwnersKnown
    BY <1>2 DEF UniqueAccounts, ConfirmedByMail, SessionsProven, OwnersKnown
  <1>4. \A r \in Requests : HandlerOK(h[r])
    BY DEF HandlerOK, Idle
  <1> QED
    BY <1>1, <1>3, <1>4 DEF IInv

(* What a handler may carry.                                               *)
HandlerRecord ==
  [pc : Pcs, id : UserIds \cup {NoId}, row : Row \cup {NoRow}]

(* A step that changes only one handler and the answer keeps the invariant *)
(* when what the handler now carries is justified.                         *)
LEMMA HandlerStep ==
  ASSUME IInv, NEW r \in Requests,
         NEW x \in HandlerRecord, HandlerOK(x),
         h' = [h EXCEPT ![r] = x],
         answer' \in Statuses \cup {NoAnswer},
         UNCHANGED <<users, owner, tokens, mails>>
  PROVE  IInv'
  <1>1. TypeOK'
    BY DEF IInv, TypeOK, HandlerRecord
  <1>2. /\ UniqueAccounts' /\ ConfirmedByMail' /\ SessionsProven'
        /\ OwnersKnown'
    BY DEF IInv, UniqueAccounts, ConfirmedByMail, SessionsProven, OwnersKnown,
           Live, Proven
  <1>3. \A q \in Requests : HandlerOK(h[q])'
    <2> SUFFICES ASSUME NEW q \in Requests PROVE HandlerOK(h[q])'
      OBVIOUS
    <2>1. HandlerOK(h[q]) /\ HandlerOK(x)
      BY DEF IInv
    <2>2. h'[q] = h[q] \/ h'[q] = x
      BY DEF IInv, TypeOK
    <2> QED
      BY <2>1, <2>2 DEF HandlerOK, Proven, ConfirmationReceived
  <1> QED
    BY <1>1, <1>2, <1>3 DEF IInv

(* An idle handler carries nothing that needs a justification.             *)
LEMMA IdleOK ==
  /\ Idle \in HandlerRecord
  /\ HandlerOK(Idle)
  BY DEF Idle, HandlerOK, HandlerRecord

(* An answer that changes nothing else keeps the invariant.                *)
LEMMA AnswerStep ==
  ASSUME IInv, NEW r \in Requests, NEW status \in Statuses, Answer(r, status),
         UNCHANGED <<users, owner, tokens, mails>>
  PROVE  IInv'
  <1>1. h' = [h EXCEPT ![r] = Idle] /\ answer' \in Statuses \cup {NoAnswer}
    BY DEF Answer
  <1> QED
    BY <1>1, IdleOK, HandlerStep

(* So does an await whose record is justified.                             *)
LEMMA AwaitStep ==
  ASSUME IInv, NEW r \in Requests, NEW pc \in Pcs,
         NEW i \in UserIds \cup {NoId}, NEW row \in Row \cup {NoRow},
         HandlerOK([pc |-> pc, id |-> i, row |-> row]),
         Await(r, pc, i, row),
         UNCHANGED <<users, owner, tokens, mails>>
  PROVE  IInv'
  <1> DEFINE x == [pc |-> pc, id |-> i, row |-> row]
  <1>1. x \in HandlerRecord
    BY DEF HandlerRecord
  <1>2. h' = [h EXCEPT ![r] = x] /\ answer' \in Statuses \cup {NoAnswer}
    BY DEF Await
  <1> HIDE DEF x
  <1> QED
    BY <1>1, <1>2, HandlerStep DEF x

-----------------------------------------------------------------------------
(* What a request may do on arrival. Each lemma is one operation.          *)

(* Facts about a loaded row that every load of an entity relies on.        *)
LEMMA LoadedRow ==
  ASSUME IInv, NEW i \in Live
  PROVE  /\ i \in UserIds /\ i # NoId /\ users[i] \in Row /\ users[i] # NoRow
         /\ owner[i] # NoEmail /\ users[i].email = owner[i]
         /\ users[i].confirmed => ConfirmationReceived(i)
  BY NullAssumption
  DEF IInv, TypeOK, Live, OwnersKnown, ConfirmedByMail, ConfirmationReceived

(* A received token names a created id.                                    *)
LEMMA ReceivedToken ==
  ASSUME IInv, NEW t \in tokens
  PROVE  /\ t \in Token /\ t.id \in UserIds /\ t.id # NoId
         /\ owner[t.id] # NoEmail
         /\ t.kind = "confirmation" => ConfirmationReceived(t.id)
         /\ t.kind \in SessionKinds => Proven(owner[t.id])
  BY NullAssumption
  DEF IInv, TypeOK, OwnersKnown, ConfirmationReceived, SessionsProven

(* With distinct secrets a token verifies only as its own kind.            *)
LEMMA VerifiedKind ==
  ASSUME NEW t \in Token, NEW kind \in TokenKinds, Verifies(t, kind)
  PROVE  t.kind = kind
  BY KeyAssumption DEF Verifies

(* Hence what verifies is the token of that kind and of its id.            *)
LEMMA VerifiedToken ==
  ASSUME NEW t \in Token, NEW kind \in TokenKinds, Verifies(t, kind)
  PROVE  t = [kind |-> kind, id |-> t.id]
  BY VerifiedKind

(* A confirmed account's address is proven.                                *)
LEMMA ReceiptProves ==
  ASSUME NEW i, ConfirmationReceived(i)
  PROVE  Proven(owner[i])
  BY DEF ConfirmationReceived, Proven

LEMMA SignUpStep ==
  ASSUME IInv, NEW r \in Requests, NEW e \in Emails, NEW u \in Usernames,
         NEW p1 \in Passwords, NEW p2 \in Passwords, SignUp(r, e, u, p1, p2)
  PROVE  IInv'
  <1>1. CASE \E status \in Statuses : Answer(r, status)
    BY <1>1, AnswerStep DEF SignUp
  <1>2. CASE Await(r, "countUsername", NoId, NewRow(e, u, p1))
    <2> DEFINE row == NewRow(e, u, p1)
    <2>1. row \in Row /\ ~row.confirmed
      BY DEF NewRow
    <2>2. row # NoRow
      BY <2>1, RowNotNull
    <2>3. HandlerOK([pc |-> "countUsername", id |-> NoId, row |-> row])
      BY <2>1, <2>2 DEF HandlerOK
    <2> HIDE DEF row
    <2>4. Await(r, "countUsername", NoId, row)
      BY <1>2 DEF row
    <2> QED
      BY <2>1, <2>3, <2>4, AwaitStep DEF SignUp
  <1> QED
    BY <1>1, <1>2 DEF SignUp

LEMMA ConfirmEmailStep ==
  ASSUME IInv, NEW r \in Requests, NEW t \in tokens, ConfirmEmail(r, t)
  PROVE  IInv'
  <1>1. CASE \E status \in Statuses : Answer(r, status)
    BY <1>1, AnswerStep DEF ConfirmEmail
  <1>2. CASE /\ Verifies(t, "confirmation")
             /\ t.id \in Live
             /\ Await(r, "saveConfirmed", t.id,
                      [users[t.id] EXCEPT !.confirmed = TRUE])
    <2> DEFINE row == [users[t.id] EXCEPT !.confirmed = TRUE]
    <2>1. ConfirmationReceived(t.id)
      BY <1>2, ReceivedToken, VerifiedKind
    <2>2. row \in Row /\ row.email = owner[t.id] /\ row.confirmed
      BY <1>2, LoadedRow
    <2>3. row # NoRow
      BY <2>2, RowNotNull
    <2>4. HandlerOK([pc |-> "saveConfirmed", id |-> t.id, row |-> row])
      BY <2>1, <2>2, <2>3, ReceivedToken DEF HandlerOK
    <2>5. Await(r, "saveConfirmed", t.id, row)
      BY <1>2
    <2> HIDE DEF row
    <2> QED
      BY <2>2, <2>4, <2>5, AwaitStep, ReceivedToken DEF ConfirmEmail
  <1> QED
    BY <1>1, <1>2 DEF ConfirmEmail

LEMMA SignInStep ==
  ASSUME IInv, NEW r \in Requests, NEW found \in SUBSET Live, NEW p \in Passwords,
         SignInWith(r, found, p), UNCHANGED <<users, owner, tokens, mails>>
  PROVE  IInv'
  <1>1. CASE \E status \in Statuses : Answer(r, status)
    BY <1>1, AnswerStep
  <1>2. CASE \E i \in found : Await(r, "mailSignIn", i, NoRow)
    <2>1. PICK i \in found : Await(r, "mailSignIn", i, NoRow)
      BY <1>2
    <2>2. HandlerOK([pc |-> "mailSignIn", id |-> i, row |-> NoRow])
      BY LoadedRow DEF HandlerOK
    <2> QED
      BY <2>1, <2>2, AwaitStep, LoadedRow
  <1>3. CASE \E i \in found : users[i].confirmed /\ Await(r, "mint", i, NoRow)
    <2>1. PICK i \in found : users[i].confirmed /\ Await(r, "mint", i, NoRow)
      BY <1>3
    <2>2. HandlerOK([pc |-> "mint", id |-> i, row |-> NoRow])
      BY <2>1, LoadedRow, ReceiptProves DEF HandlerOK
    <2> QED
      BY <2>1, <2>2, AwaitStep, LoadedRow
  <1> QED
    BY <1>1, <1>2, <1>3 DEF SignInWith

LEMMA SignInByEmailStep ==
  ASSUME IInv, NEW r \in Requests, NEW e \in Emails, NEW p \in Passwords,
         SignInByEmail(r, e, p)
  PROVE  IInv'
  BY SignInStep DEF SignInByEmail, WithEmail

LEMMA SignInByUsernameStep ==
  ASSUME IInv, NEW r \in Requests, NEW u \in Usernames, NEW p \in Passwords,
         SignInByUsername(r, u, p)
  PROVE  IInv'
  <1>1. CASE Answer(r, 400)
    BY <1>1, AnswerStep DEF SignInByUsername
  <1>2. CASE SignInWith(r, WithUsername(u), p)
    BY <1>2, SignInStep DEF SignInByUsername, WithUsername
  <1> QED
    BY <1>1, <1>2 DEF SignInByUsername

LEMMA RefreshAccessStep ==
  ASSUME IInv, NEW r \in Requests, NEW t \in tokens, RefreshAccess(r, t)
  PROVE  IInv'
  <1>1. CASE \E status \in Statuses : Answer(r, status)
    BY <1>1, AnswerStep DEF RefreshAccess
  <1>2. CASE Verifies(t, "refresh") /\ Await(r, "mint", t.id, NoRow)
    <2>1. Proven(owner[t.id])
      BY <1>2, ReceivedToken, VerifiedKind
    <2>2. HandlerOK([pc |-> "mint", id |-> t.id, row |-> NoRow])
      BY <2>1, ReceivedToken DEF HandlerOK
    <2> QED
      BY <1>2, <2>2, AwaitStep, ReceivedToken DEF RefreshAccess
  <1> QED
    BY <1>1, <1>2 DEF RefreshAccess

LEMMA LogoutStep ==
  ASSUME IInv, NEW r \in Requests, NEW i \in UserIds, NEW t \in tokens,
         Logout(r, i, t)
  PROVE  IInv'
  BY AnswerStep DEF Logout

LEMMA ForgotPasswordStep ==
  ASSUME IInv, NEW r \in Requests, NEW e \in Emails, ForgotPassword(r, e)
  PROVE  IInv'
  <1>1. CASE Answer(r, 404)
    BY <1>1, AnswerStep DEF ForgotPassword
  <1>2. CASE \E i \in Live : Await(r, "mailReset", i, NoRow)
    <2>1. PICK i \in Live : Await(r, "mailReset", i, NoRow)
      BY <1>2
    <2>2. HandlerOK([pc |-> "mailReset", id |-> i, row |-> NoRow])
      BY LoadedRow DEF HandlerOK
    <2> QED
      BY <2>1, <2>2, AwaitStep, LoadedRow DEF ForgotPassword
  <1> QED
    BY <1>1, <1>2 DEF ForgotPassword, WithEmail

LEMMA ResetPasswordStep ==
  ASSUME IInv, NEW r \in Requests, NEW t \in tokens,
         NEW p1 \in Passwords, NEW p2 \in Passwords, ResetPassword(r, t, p1, p2)
  PROVE  IInv'
  <1>1. CASE \E status \in Statuses : Answer(r, status)
    BY <1>1, AnswerStep DEF ResetPassword
  <1>2. CASE /\ Verifies(t, "resetPassword")
             /\ t.id \in Live
             /\ Await(r, "saveReset", t.id,
                      [users[t.id] EXCEPT !.password = p1])
    <2> DEFINE row == [users[t.id] EXCEPT !.password = p1]
    <2>1. row \in Row
      BY <1>2, LoadedRow
    <2>2. row # NoRow
      BY <2>1, RowNotNull
    <2>3. [kind |-> "resetPassword", id |-> t.id] \in tokens
      BY <1>2, ReceivedToken, VerifiedToken
    <2>4. HandlerOK([pc |-> "saveReset", id |-> t.id, row |-> row])
      BY <2>1, <2>2, <2>3, ReceivedToken DEF HandlerOK
    <2>5. Await(r, "saveReset", t.id, row)
      BY <1>2
    <2> HIDE DEF row
    <2> QED
      BY <2>1, <2>4, <2>5, AwaitStep, ReceivedToken DEF ResetPassword
  <1> QED
    BY <1>1, <1>2 DEF ResetPassword

LEMMA UpdatePasswordStep ==
  ASSUME IInv, NEW r \in Requests, NEW i \in UserIds, NEW p \in Passwords,
         NEW p1 \in Passwords, NEW p2 \in Passwords,
         UpdatePassword(r, i, p, p1, p2)
  PROVE  IInv'
  <1>1. CASE \E status \in Statuses : Answer(r, status)
    BY <1>1, AnswerStep DEF UpdatePassword
  <1>2. CASE /\ i \in Live
             /\ Await(r, "savePassword", i, [users[i] EXCEPT !.password = p1])
    <2> DEFINE row == [users[i] EXCEPT !.password = p1]
    <2>1. row \in Row
      BY <1>2, LoadedRow
    <2>2. row # NoRow
      BY <2>1, RowNotNull
    <2>3. PICK t \in tokens : t.id = i /\ Verifies(t, "access")
      BY DEF UpdatePassword, CurrentUser
    <2>4. Proven(owner[i])
      BY <2>3, ReceivedToken, VerifiedKind
    <2>5. [kind |-> "access", id |-> i] \in tokens
      BY <2>3, ReceivedToken, VerifiedToken
    <2>6. HandlerOK([pc |-> "savePassword", id |-> i, row |-> row])
      BY <1>2, <2>1, <2>2, <2>4, <2>5, LoadedRow DEF HandlerOK
    <2>7. Await(r, "savePassword", i, row)
      BY <1>2
    <2> HIDE DEF row
    <2> QED
      BY <2>1, <2>6, <2>7, AwaitStep DEF UpdatePassword
  <1> QED
    BY <1>1, <1>2 DEF UpdatePassword

LEMMA UpdateNameStep ==
  ASSUME IInv, NEW r \in Requests, NEW i \in UserIds,
         NEW n \in Names \cup {NoName}, UpdateName(r, i, n)
  PROVE  IInv'
  <1>1. CASE \E status \in Statuses : Answer(r, status)
    BY <1>1, AnswerStep DEF UpdateName
  <1>2. CASE /\ i \in Live /\ n \in Names
             /\ Await(r, "saveName", i, [users[i] EXCEPT !.name = FormatName[n]])
    <2> DEFINE row == [users[i] EXCEPT !.name = FormatName[n]]
    <2>1. row \in Row
      <3>1. FormatName[n] \in Names
        BY <1>2, FormatNameAssumption
      <3> QED
        BY <1>2, <3>1, LoadedRow
    <2>2. row # NoRow
      BY <2>1, RowNotNull
    <2>3. HandlerOK([pc |-> "saveName", id |-> i, row |-> row])
      BY <1>2, <2>1, <2>2, LoadedRow DEF HandlerOK
    <2>4. Await(r, "saveName", i, row)
      BY <1>2
    <2> HIDE DEF row
    <2> QED
      BY <2>1, <2>3, <2>4, AwaitStep DEF UpdateName
  <1> QED
    BY <1>1, <1>2 DEF UpdateName

LEMMA DeleteUserStep ==
  ASSUME IInv, NEW r \in Requests, NEW i \in UserIds, NEW p \in Passwords,
         DeleteUser(r, i, p)
  PROVE  IInv'
  <1>1. CASE \E status \in Statuses : Answer(r, status)
    BY <1>1, AnswerStep DEF DeleteUser
  <1>2. CASE i \in Live /\ Await(r, "destroy", i, NoRow)
    <2>1. HandlerOK([pc |-> "destroy", id |-> i, row |-> NoRow])
      BY <1>2, LoadedRow DEF HandlerOK
    <2> QED
      BY <1>2, <2>1, AwaitStep DEF DeleteUser
  <1> QED
    BY <1>1, <1>2 DEF DeleteUser

LEMMA RefuseStep ==
  ASSUME IInv, NEW r \in Requests, Refuse(r)
  PROVE  IInv'
  BY AnswerStep DEF Refuse

-----------------------------------------------------------------------------
(* What a request in flight does at its next await.                        *)

LEMMA CountUsernameStep ==
  ASSUME IInv, NEW r \in Requests, CountUsername(r)
  PROVE  IInv'
  <1>1. CASE Answer(r, 409)
    BY <1>1, AnswerStep DEF CountUsername
  <1>2. CASE Await(r, "insert", NoId, h[r].row)
    <2>1. HandlerOK(h[r]) /\ h[r].row \in Row \cup {NoRow}
      BY DEF IInv, TypeOK
    <2>2. HandlerOK([pc |-> "insert", id |-> NoId, row |-> h[r].row])
      BY <2>1 DEF HandlerOK, CountUsername
    <2> QED
      BY <1>2, <2>1, <2>2, AwaitStep DEF CountUsername
  <1> QED
    BY <1>1, <1>2 DEF CountUsername

LEMMA FindConfirmedStep ==
  ASSUME IInv, NEW r \in Requests, FindConfirmed(r)
  PROVE  IInv'
  <1>1. CASE Answer(r, 401)
    BY <1>1, AnswerStep DEF FindConfirmed
  <1>2. CASE \E i \in WithEmail(h[r].row.email) : Await(r, "mint", i, NoRow)
    <2>1. PICK i \in Live : /\ users[i].email = h[r].row.email
                            /\ Await(r, "mint", i, NoRow)
      BY <1>2 DEF WithEmail
    <2>2. /\ ConfirmationReceived(h[r].id)
          /\ h[r].row.email = owner[h[r].id]
      BY DEF IInv, HandlerOK, FindConfirmed
    <2>3. Proven(owner[i])
      BY <2>1, <2>2, LoadedRow, ReceiptProves
    <2>4. HandlerOK([pc |-> "mint", id |-> i, row |-> NoRow])
      BY <2>3, LoadedRow DEF HandlerOK
    <2> QED
      BY <2>1, <2>4, AwaitStep, LoadedRow DEF FindConfirmed
  <1> QED
    BY <1>1, <1>2 DEF FindConfirmed

(* Receipts and addresses are never revoked, so a step that keeps them     *)
(* keeps what other handlers rely on.                                      *)
LEMMA OthersOK ==
  ASSUME IInv, NEW x, HandlerOK(x), tokens \subseteq tokens',
         \A i \in UserIds : owner[i] # NoEmail => owner'[i] = owner[i]
  PROVE  x.id \in UserIds \cup {NoId} => HandlerOK(x)'
  <1> SUFFICES ASSUME x.id \in UserIds \cup {NoId} PROVE HandlerOK(x)'
    OBVIOUS
  <1>1. CASE x.id = NoId
    BY <1>1 DEF HandlerOK
  <1>2. CASE x.id # NoId
    <2>1. x.id \in UserIds /\ owner'[x.id] = owner[x.id]
      BY <1>2 DEF HandlerOK
    <2>2. Proven(owner[x.id]) => Proven(owner[x.id])'
      <3> SUFFICES ASSUME Proven(owner[x.id]) PROVE Proven(owner[x.id])'
        OBVIOUS
      <3>1. PICK t \in tokens : t.kind = "confirmation"
                               /\ owner[t.id] = owner[x.id]
        BY DEF Proven
      <3>2. owner'[t.id] = owner[t.id]
        BY ReceivedToken
      <3> QED
        BY <2>1, <3>1, <3>2 DEF Proven
    <2> QED
      BY <2>1, <2>2 DEF HandlerOK, ConfirmationReceived
  <1> QED
    BY <1>1, <1>2

(* A step that removes rows, or changes the password, the name or the      *)
(* justified confirmation of rows, keeps the invariant.                    *)
LEMMA RowsStep ==
  ASSUME IInv, NEW r \in Requests,
         NEW x \in HandlerRecord, HandlerOK(x),
         h' = [h EXCEPT ![r] = x],
         answer' \in Statuses \cup {NoAnswer},
         UNCHANGED <<owner, tokens, mails>>,
         users' \in [UserIds -> Row \cup {NoRow}],
         \A j \in UserIds : users'[j] # NoRow =>
           /\ users[j] # NoRow
           /\ users'[j].email = users[j].email
           /\ users'[j].username = users[j].username
           /\ users'[j].confirmed => ConfirmationReceived(j)
  PROVE  IInv'
  <1>1. TypeOK'
    BY DEF IInv, TypeOK, HandlerRecord
  <1>2. UniqueAccounts'
    BY DEF IInv, UniqueAccounts, Live
  <1>3. ConfirmedByMail'
    BY DEF ConfirmedByMail, ConfirmationReceived, Live
  <1>4. SessionsProven'
    BY DEF IInv, SessionsProven, Proven
  <1>5. OwnersKnown'
    BY DEF IInv, OwnersKnown, Live
  <1>6. \A q \in Requests : HandlerOK(h[q])'
    <2> SUFFICES ASSUME NEW q \in Requests PROVE HandlerOK(h[q])'
      OBVIOUS
    <2>1. HandlerOK(h[q]) /\ HandlerOK(x)
      BY DEF IInv
    <2>2. h'[q] = h[q] \/ h'[q] = x
      BY DEF IInv, TypeOK
    <2> QED
      BY <2>1, <2>2 DEF HandlerOK, Proven, ConfirmationReceived
  <1> QED
    BY <1>1, <1>2, <1>3, <1>4, <1>5, <1>6 DEF IInv

(* What a save does to the table: no row appears, and only the saved       *)
(* handler can make its own row confirmed.                                 *)
LEMMA SavedFacts ==
  ASSUME IInv, NEW r \in Requests, h[r].pc \in SavePcs,
         NEW table, table = Saved(h[r].id, h[r].row, Column[h[r].pc])
  PROVE  /\ table \in [UserIds -> Row \cup {NoRow}]
         /\ \A j \in UserIds : table[j] # NoRow =>
              /\ users[j] # NoRow
              /\ table[j].email = users[j].email
              /\ table[j].username = users[j].username
              /\ table[j].confirmed => ConfirmationReceived(j)
  <1> DEFINE i == h[r].id  row == h[r].row
  <1>1. /\ i \in UserIds /\ row \in Row
        /\ h[r].pc = "saveConfirmed" => ConfirmationReceived(i)
    BY DEF IInv, TypeOK, HandlerOK
  <1>2. \A j \in Live : users[j].confirmed => ConfirmationReceived(j)
    BY LoadedRow
  <1>3. CASE users[i] = NoRow
    BY <1>2, <1>3 DEF Saved, IInv, TypeOK, Live
  <1>4. CASE users[i] # NoRow
    <2>1. users \in [UserIds -> Row \cup {NoRow}] /\ users[i] \in Row
      BY <1>1, <1>4 DEF IInv, TypeOK
    <2>2. CASE h[r].pc = "saveConfirmed"
      <3>1. table = [users EXCEPT ![i] = [@ EXCEPT !["confirmed"] = row["confirmed"]]]
        BY <1>4, <2>2 DEF Saved, Column
      <3> HIDE DEF i, row
      <3>2. table = [users EXCEPT ![i] = [@ EXCEPT !.confirmed = row.confirmed]]
        BY <3>1
      <3>3. ConfirmationReceived(i)
        BY <1>1, <2>2
      <3> QED
        BY <1>1, <1>2, <1>4, <2>1, <3>2, <3>3 DEF Live
    <2>3. CASE h[r].pc = "saveName"
      <3>1. table = [users EXCEPT ![i] = [@ EXCEPT !["name"] = row["name"]]]
        BY <1>4, <2>3 DEF Saved, Column
      <3> HIDE DEF i, row
      <3>2. table = [users EXCEPT ![i] = [@ EXCEPT !.name = row.name]]
        BY <3>1
      <3> QED
        BY <1>1, <1>2, <1>4, <2>1, <3>2 DEF Live
    <2>4. CASE h[r].pc \in {"savePassword", "saveReset"}
      <3>0. Column[h[r].pc] = "password"
        BY <2>4 DEF Column
      <3>1. table = [users EXCEPT ![i] = [@ EXCEPT !["password"] = row["password"]]]
        BY <1>4, <3>0 DEF Saved
      <3> HIDE DEF i, row
      <3>2. table = [users EXCEPT ![i] = [@ EXCEPT !.password = row.password]]
        BY <3>1
      <3> QED
        BY <1>1, <1>2, <1>4, <2>1, <3>2 DEF Live
    <2> QED
      BY <2>2, <2>3, <2>4
  <1> QED
    BY <1>3, <1>4

LEMMA SaveStep ==
  ASSUME IInv, NEW r \in Requests, Save(r)
  PROVE  IInv'
  <1>1. CASE Answer(r, 400) /\ UNCHANGED users
    BY <1>1, AnswerStep DEF Save
  <1>2. CASE users' = Saved(h[r].id, h[r].row, Column[h[r].pc]) /\ AfterSave(r)
    <2>1. /\ users' \in [UserIds -> Row \cup {NoRow}]
          /\ \A j \in UserIds : users'[j] # NoRow =>
               /\ users[j] # NoRow
               /\ users'[j].email = users[j].email
               /\ users'[j].username = users[j].username
               /\ users'[j].confirmed => ConfirmationReceived(j)
      BY <1>2, SavedFacts DEF Save
    <2>2. /\ h[r].pc \in SavePcs /\ h[r].id \in UserIds \cup {NoId}
          /\ h[r].row \in Row \cup {NoRow} /\ HandlerOK(h[r])
      BY DEF Save, IInv, TypeOK
    <2>3. PICK x \in {Idle,
                      [pc |-> "findConfirmed", id |-> h[r].id, row |-> h[r].row],
                      [pc |-> "mint", id |-> h[r].id, row |-> NoRow]} :
            /\ h' = [h EXCEPT ![r] = x]
            /\ answer' \in Statuses \cup {NoAnswer}
            /\ x.pc = "findConfirmed" => h[r].pc = "saveConfirmed"
            /\ x.pc = "mint" => h[r].pc = "savePassword"
      BY <1>2 DEF AfterSave, Await, Answer, Idle
    <2>4. x \in HandlerRecord
      BY <2>2, IdleOK DEF HandlerRecord
    <2>5. HandlerOK(x)
      BY <2>2, <2>3, IdleOK DEF HandlerOK, Idle
    <2> QED
      BY <2>1, <2>3, <2>4, <2>5, RowsStep DEF Save
  <1> QED
    BY <1>1, <1>2 DEF Save

LEMMA DestroyStep ==
  ASSUME IInv, NEW r \in Requests, Destroy(r)
  PROVE  IInv'
  <1>1. users' \in [UserIds -> Row \cup {NoRow}]
    BY DEF Destroy, IInv, TypeOK
  <1>2. \A j \in UserIds : users'[j] # NoRow => users'[j] = users[j] /\ j \in Live
    BY DEF Destroy, IInv, TypeOK, Live
  <1>3. /\ h' = [h EXCEPT ![r] = Idle] /\ answer' \in Statuses \cup {NoAnswer}
        /\ UNCHANGED <<owner, tokens, mails>>
    BY DEF Destroy, Answer
  <1> QED
    BY <1>1, <1>2, <1>3, LoadedRow, IdleOK, RowsStep

LEMMA DeleteByEmailDevStep ==
  ASSUME IInv, NEW r \in Requests, NEW e \in Emails, DeleteByEmailDev(r, e)
  PROVE  IInv'
  <1>0. users \in [UserIds -> Row \cup {NoRow}]
    BY DEF IInv, TypeOK
  <1>1. users' \in [UserIds -> Row \cup {NoRow}]
    BY <1>0 DEF DeleteByEmailDev
  <1>2. \A j \in UserIds : users'[j] # NoRow => users'[j] = users[j] /\ j \in Live
    BY DEF DeleteByEmailDev, Live
  <1>3. /\ h' = [h EXCEPT ![r] = Idle] /\ answer' \in Statuses \cup {NoAnswer}
        /\ UNCHANGED <<owner, tokens, mails>>
    BY DEF DeleteByEmailDev, Answer
  <1> QED
    BY <1>1, <1>2, <1>3, LoadedRow, IdleOK, RowsStep

LEMMA InsertStep ==
  ASSUME IInv, NEW r \in Requests, Insert(r)
  PROVE  IInv'
  <1>1. CASE Answer(r, 500) /\ UNCHANGED <<users, owner>>
    BY <1>1, AnswerStep DEF Insert
  <1>2. CASE \E i \in FreeIds :
               /\ ~Collides(h[r].row)
               /\ users' = [users EXCEPT ![i] = h[r].row]
               /\ owner' = [owner EXCEPT ![i] = h[r].row.email]
               /\ Await(r, "mailSignUp", i, NoRow)
    <2>1. PICK i \in FreeIds :
            /\ ~Collides(h[r].row)
            /\ users' = [users EXCEPT ![i] = h[r].row]
            /\ owner' = [owner EXCEPT ![i] = h[r].row.email]
            /\ Await(r, "mailSignUp", i, NoRow)
      BY <1>2
    <2> DEFINE row == h[r].row
               x == [pc |-> "mailSignUp", id |-> i, row |-> NoRow]
    <2>2. /\ i \in UserIds /\ owner[i] = NoEmail /\ i # NoId
          /\ row \in Row /\ ~row.confirmed /\ row.email # NoEmail
          /\ UNCHANGED <<tokens, mails>>
      <3>1. row # NoRow /\ ~row.confirmed
        BY DEF Insert, IInv, HandlerOK
      <3> QED
        BY <3>1, NullAssumption DEF FreeIds, Insert, IInv, TypeOK
    <2>3. /\ users' = [users EXCEPT ![i] = row]
          /\ owner' = [owner EXCEPT ![i] = row.email]
          /\ h' = [h EXCEPT ![r] = x] /\ answer' = NoAnswer
          /\ \A j \in Live : users[j].email # row.email
                           /\ users[j].username # row.username
      BY <2>1 DEF Await, Collides, WithEmail, WithUsername
    <2>4. \A j \in UserIds : owner[j] # NoEmail => owner'[j] = owner[j]
      BY <2>2, <2>3 DEF IInv, TypeOK
    <2> HIDE DEF row
    <2>5. TypeOK'
      BY <2>2, <2>3 DEF IInv, TypeOK
    <2>6. \A j \in UserIds : j # i => users'[j] = users[j]
      BY <2>3 DEF IInv, TypeOK
    <2>7. users'[i] = row /\ owner'[i] = row.email
      BY <2>2, <2>3 DEF IInv, TypeOK
    <2>8. UniqueAccounts'
      BY <2>3, <2>6, <2>7 DEF IInv, UniqueAccounts, Live
    <2>9. ConfirmedByMail'
      BY <2>2, <2>6, <2>7 DEF IInv, ConfirmedByMail, Live
    <2>10. OwnersKnown'
      <3>1. \A j \in Live' : users'[j].email = owner'[j]
        BY <2>4, <2>6, <2>7, LoadedRow DEF Live
      <3>2. \A t \in tokens \cup mails : t.id \in UserIds /\ owner[t.id] # NoEmail
        BY DEF IInv, TypeOK, OwnersKnown
      <3> QED
        BY <2>2, <2>4, <3>1, <3>2 DEF OwnersKnown
    <2>11. SessionsProven'
      <3> SUFFICES ASSUME NEW t \in tokens, t.kind \in SessionKinds
                   PROVE  Proven(owner[t.id])'
        BY <2>2 DEF SessionsProven
      <3>1. PICK c \in tokens : c.kind = "confirmation" /\ owner[c.id] = owner[t.id]
        BY DEF IInv, SessionsProven, Proven
      <3>2. owner'[c.id] = owner[c.id] /\ owner'[t.id] = owner[t.id]
        BY <2>4, ReceivedToken
      <3> QED
        BY <2>2, <3>1, <3>2 DEF Proven
    <2>12. \A q \in Requests : HandlerOK(h[q])'
      <3> SUFFICES ASSUME NEW q \in Requests PROVE HandlerOK(h[q])'
        OBVIOUS
      <3>1. CASE q = r
        BY <2>2, <2>3, <2>7, <3>1 DEF IInv, TypeOK, HandlerOK
      <3>2. CASE q # r
        <4>1. h'[q] = h[q] /\ h[q].id \in UserIds \cup {NoId} /\ HandlerOK(h[q])
          BY <2>3, <3>2 DEF IInv, TypeOK
        <4> DEFINE y == h[q]
        <4>2. HandlerOK(y)'
          BY <4>1, <2>2, <2>4, OthersOK
        <4> QED
          BY <4>1, <4>2
      <3> QED
        BY <3>1, <3>2
    <2> QED
      BY <2>5, <2>8, <2>9, <2>10, <2>11, <2>12 DEF IInv
  <1> QED
    BY <1>1, <1>2 DEF Insert

(* A step that only adds tokens or mails of created ids, or takes mails    *)
(* away, and leaves the handlers as they are or idle, keeps the invariant  *)
(* when the session tokens it adds are proven.                             *)
LEMMA TokensStep ==
  ASSUME IInv, UNCHANGED <<users, owner>>,
         tokens \subseteq tokens', tokens' \subseteq Token,
         mails' \subseteq [kind : MailKinds, id : UserIds],
         \A t \in tokens' \cup mails' : owner[t.id] # NoEmail,
         \A t \in tokens' \ tokens : t.kind \in SessionKinds => Proven(owner[t.id]),
         h' \in [Requests -> HandlerRecord],
         \A q \in Requests : h'[q] = h[q] \/ h'[q] = Idle,
         answer' \in Statuses \cup {NoAnswer}
  PROVE  IInv'
  <1>1. TypeOK'
    BY DEF IInv, TypeOK, HandlerRecord
  <1>2. UniqueAccounts' /\ ConfirmedByMail'
    BY DEF IInv, UniqueAccounts, ConfirmedByMail, Live
  <1>3. SessionsProven'
    BY DEF IInv, SessionsProven, Proven
  <1>4. OwnersKnown'
    BY DEF IInv, OwnersKnown, Live
  <1>5. \A q \in Requests : HandlerOK(h[q])'
    <2> SUFFICES ASSUME NEW q \in Requests PROVE HandlerOK(h[q])'
      OBVIOUS
    <2>1. HandlerOK(h[q]) /\ HandlerOK(Idle)
      BY IdleOK DEF IInv
    <2> QED
      BY <2>1 DEF HandlerOK, Proven, ConfirmationReceived
  <1> QED
    BY <1>1, <1>2, <1>3, <1>4, <1>5 DEF IInv

(* The ids of mails and tokens, and the records of handlers.               *)
LEMMA Owned ==
  ASSUME IInv
  PROVE  /\ \A t \in tokens \cup mails : t \in Token /\ owner[t.id] # NoEmail
         /\ mails \subseteq [kind : MailKinds, id : UserIds]
         /\ \A q \in Requests : HandlerOK(h[q])
         /\ h \in [Requests -> HandlerRecord]
  BY DEF IInv, TypeOK, OwnersKnown, HandlerRecord

LEMMA SendMailStep ==
  ASSUME IInv, NEW r \in Requests, SendMail(r)
  PROVE  IInv'
  <1> DEFINE m == [kind |-> MailKind[h[r].pc], id |-> h[r].id]
  <1>1. h[r].id \in UserIds /\ owner[h[r].id] # NoEmail
    BY Owned DEF SendMail, HandlerOK, HandlerRecord
  <1>2. MailKind[h[r].pc] \in MailKinds /\ MailAnswer[h[r].pc] \in Statuses
    BY DEF SendMail, MailKind, MailAnswer
  <1>3. m \in [kind : MailKinds, id : UserIds] /\ owner[m.id] # NoEmail
    BY <1>1, <1>2
  <1>4. /\ mails' = mails \cup {m} /\ UNCHANGED <<users, owner, tokens>>
        /\ h' = [h EXCEPT ![r] = Idle] /\ answer' \in Statuses
    BY <1>2 DEF SendMail, Answer
  <1> HIDE DEF m
  <1> QED
    BY <1>3, <1>4, Owned, IdleOK, TokensStep

LEMMA MintStep ==
  ASSUME IInv, NEW r \in Requests, Mint(r)
  PROVE  IInv'
  <1> DEFINE pair == [kind : SessionKinds, id : {h[r].id}]
  <1>1. /\ h[r].id \in UserIds /\ owner[h[r].id] # NoEmail
        /\ Proven(owner[h[r].id])
    BY Owned DEF Mint, HandlerOK, HandlerRecord
  <1>2. \A t \in pair : t \in Token /\ t.id = h[r].id
    BY <1>1
  <1>3. /\ tokens' = tokens \cup pair /\ UNCHANGED <<users, owner, mails>>
        /\ h' = [h EXCEPT ![r] = Idle] /\ answer' \in Statuses
    BY DEF Mint, Answer
  <1> HIDE DEF pair
  <1> QED
    BY <1>1, <1>2, <1>3, Owned, IdleOK, TokensStep

LEMMA TransportStep ==
  ASSUME IInv, NEW t \in Token, Deliver(t) \/ Lose(t)
  PROVE  IInv'
  <1>1. CASE Deliver(t)
    BY <1>1, Owned, TokensStep DEF Deliver
  <1>2. CASE Lose(t)
    BY <1>2, Owned, TokensStep DEF Lose
  <1> QED
    BY <1>1, <1>2

LEMMA FailStep ==
  ASSUME IInv, NEW r \in Requests, Fail(r)
  PROVE  IInv'
  BY AnswerStep DEF Fail

LEMMA CrashStep ==
  ASSUME IInv, Crash
  PROVE  IInv'
  <1>1. h' \in [Requests -> HandlerRecord] /\ \A q \in Requests : h'[q] = Idle
    BY IdleOK DEF Crash
  <1> QED
    BY <1>1, Owned, TokensStep DEF Crash

-----------------------------------------------------------------------------
(* IInv is inductive: one step per action.                                 *)
LEMMA NextIInv == IInv /\ [Next]_vars => IInv'
  <1> SUFFICES ASSUME IInv, [Next]_vars PROVE IInv'
    OBVIOUS
  <1>1. ASSUME NEW r \in Requests, Begin(r) PROVE IInv'
    BY <1>1, SignUpStep, ConfirmEmailStep, SignInByEmailStep,
       SignInByUsernameStep, RefreshAccessStep, LogoutStep, ForgotPasswordStep,
       ResetPasswordStep, UpdatePasswordStep, UpdateNameStep, DeleteUserStep,
       DeleteByEmailDevStep, RefuseStep
    DEF Begin, Enter
  <1>2. ASSUME NEW r \in Requests, Resume(r) PROVE IInv'
    BY <1>2, CountUsernameStep, InsertStep, SendMailStep, MintStep, SaveStep,
       FindConfirmedStep, DestroyStep
    DEF Resume
  <1>3. ASSUME NEW r \in Requests, Fail(r) PROVE IInv'
    BY <1>3, FailStep
  <1>4. ASSUME NEW t \in Token, Deliver(t) \/ Lose(t) PROVE IInv'
    BY <1>4, TransportStep
  <1>5. CASE Crash
    BY <1>5, CrashStep
  <1>6. CASE UNCHANGED vars
    BY <1>6 DEF vars, IInv, TypeOK, UniqueAccounts, ConfirmedByMail,
       SessionsProven, OwnersKnown, HandlerOK, Live, Proven,
       ConfirmationReceived
  <1> QED
    BY <1>1, <1>2, <1>3, <1>4, <1>5, <1>6 DEF Next, Accident

(* Every behaviour of the service satisfies the inductive invariant.       *)
THEOREM Invariance == Spec => []IInv
  BY InitIInv, NextIInv, PTL DEF Spec

(* Type correctness, for any number of requests, users and names: handlers *)
(* sign tokens only for ids they have read.                                *)
THEOREM TypeCorrect == Spec => []TypeOK
  <1>1. IInv => TypeOK
    BY DEF IInv
  <1> QED
    BY <1>1, Invariance, PTL

(* No interleaving of sign-ups creates two accounts with one address or    *)
(* one user name.                                                          *)
THEOREM Uniqueness == Spec => []UniqueAccounts
  <1>1. IInv => UniqueAccounts
    BY DEF IInv
  <1> QED
    BY <1>1, Invariance, PTL

(* Only the receipt of its own confirmation link confirms an account.      *)
THEOREM Confirmation == Spec => []ConfirmedByMail
  <1>1. IInv => ConfirmedByMail
    BY DEF IInv
  <1> QED
    BY <1>1, Invariance, PTL

(* Session tokens are signed only for users with a proven address.         *)
THEOREM SessionTokens == Spec => []SessionsProven
  <1>1. IInv => SessionsProven
    BY DEF IInv
  <1> QED
    BY <1>1, Invariance, PTL
=============================================================================
