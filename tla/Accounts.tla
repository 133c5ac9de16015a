------------------------------ MODULE Accounts ------------------------------
(***************************************************************************)
(* The account service: UsersService, AuthService, JwtService, the entity  *)
(* helpers of CommonService, the MailerService and the AuthGuard, as the   *)
(* requests of AuthController and UsersController drive them.              *)
(*                                                                         *)
(* A request is a handler that yields at every await.  One step is one     *)
(* statement on the shared database (or one signing of tokens, or one mail *)
(* handed over) together with the local work that follows it; between two  *)
(* steps of a handler the steps of the others run.  A handler keeps the    *)
(* entity it loaded, with the change it made in memory, until it saves it. *)
(*                                                                         *)
(* Abstractions.  Addresses and user names are classes of spellings that   *)
(* MySQL's collation does not tell apart (create() lower-cases the address *)
(* it stores).  A bcrypt hash is the password it was made from, so compare *)
(* is equality.  A token is its kind and the user id it carries: that is   *)
(* all a verification uses.  Time is not modelled: a token, once issued,   *)
(* may be presented for ever, and any request may be refused as expired.   *)
(***************************************************************************)
EXTENDS Naturals, FiniteSets

CONSTANTS Requests,    \* handlers that may be in flight together
          UserIds,     \* uuids a sign-up can draw (bound on sign-ups)
          Emails,      \* mail addresses
          Usernames,   \* user names
          Slugs,       \* the user names sign-in accepts (SLUG_REGEX)
          Passwords,   \* passwords
          Names,       \* display names a client may send
          FormatName,  \* FormatName[n]: what formatName makes of n
          NoName,      \* the name of a row that never had one
          NoEmail,     \* the address of an id never used
          NoId,        \* the id of a request that concerns no row yet
          NoRow,       \* the absence of a row
          Key,         \* Key[k]: the secret tokens of kind k are signed with
          Accepts,     \* the verdicts entity validation can return
          Faults       \* which of "db", "mail", "crash" may happen

MailKinds    == {"confirmation", "resetPassword"}
SessionKinds == {"access", "refresh"}
TokenKinds   == MailKinds \cup SessionKinds
Token        == [kind : TokenKinds, id : UserIds]

ASSUME SlugsAssumption == Slugs \subseteq Usernames
ASSUME NullAssumption ==
  /\ NoEmail \notin Emails
  /\ NoId \notin UserIds
  /\ NoName \notin Names
ASSUME FormatNameAssumption == FormatName \in [Names -> Names]
(* The configuration schema does not ask for it, and no token carries its  *)
(* kind: without it a token of one kind verifies as another.               *)
ASSUME KeyAssumption ==
  \A k, m \in TokenKinds : Key[k] = Key[m] => k = m
ASSUME AcceptsAssumption == Accepts \subseteq BOOLEAN
ASSUME FaultsAssumption == Faults \subseteq {"db", "mail", "crash"}

(* A row of table users (its id is the index).                             *)
Row == [email : Emails, username : Usernames, password : Passwords,
        confirmed : BOOLEAN, name : Names \cup {NoName}]
ASSUME NoRowAssumption == NoRow \notin Row

VARIABLES users,   \* users[i]: the row with primary key i
          owner,   \* owner[i]: the address id i was created for (history)
          tokens,  \* the tokens someone outside the server has received
          mails,   \* mails handed to the transport and not yet settled
          h,       \* h[r]: the handler of request r
          answer   \* the status answered in the last step, or NoAnswer

vars == <<users, owner, tokens, mails, h, answer>>

(***************************************************************************)
(* Handlers.                                                               *)
(***************************************************************************)
(* The await at which a handler is suspended.                              *)
SavePcs == {"saveConfirmed", "saveName", "savePassword", "saveReset"}
MailPcs == {"mailSignUp", "mailSignIn", "mailReset"}
Pcs     == {"idle", "countUsername", "insert", "findConfirmed", "destroy",
            "mint"} \cup SavePcs \cup MailPcs

NoAnswer == 0
Statuses == {200, 201, 204, 400, 401, 404, 409, 500}

Idle == [pc |-> "idle", id |-> NoId, row |-> NoRow]

Answer(r, status) ==
  /\ h' = [h EXCEPT ![r] = Idle]
  /\ answer' = status

Await(r, pc, i, row) ==
  /\ h' = [h EXCEPT ![r] = [pc |-> pc, id |-> i, row |-> row]]
  /\ answer' = NoAnswer

(***************************************************************************)
(* The database, and what verification and the guard accept.               *)
(***************************************************************************)
Live    == {i \in UserIds : users[i] # NoRow}
FreeIds == {i \in UserIds : owner[i] = NoEmail}

WithEmail(e)    == {i \in Live : users[i].email = e}
WithUsername(u) == {i \in Live : users[i].username = u}

(* Mutant of Collides: table users without the unique index on email.      *)
CollidesOnUsername(row) == WithUsername(row.username) # {}

(* The unique indexes on email and username.                               *)
Collides(row) ==
  WithEmail(row.email) \cup WithUsername(row.username) # {}

(* Mutant of Verifies: one secret for every kind of token.                 *)
VerifiesAnyKind(t, kind) == {t.kind, kind} \subseteq TokenKinds

(* jwt.verify knows the secret and the algorithm, not the kind.            *)
Verifies(t, kind) == Key[t.kind] = Key[kind]

(* AuthGuard lets a request in as user i.                                  *)
CurrentUser(i) == \E t \in tokens : t.id = i /\ Verifies(t, "access")

(* The column a handler has changed in memory when it saves.               *)
Column == [saveConfirmed |-> "confirmed", saveName |-> "name",
           savePassword |-> "password", saveReset |-> "password"]

(* Mutant of Saved: the whole entity is written back.                      *)
SavedWhole(i, row, column) ==
  IF users[i] = NoRow THEN users ELSE [users EXCEPT ![i] = row]

(* Mutant of Saved: an upsert, which brings a removed row back.            *)
SavedUpsert(i, row, column) ==
  IF users[i] = NoRow
  THEN [users EXCEPT ![i] = row]
  ELSE [users EXCEPT ![i] = [@ EXCEPT ![column] = row[column]]]

(* save() of a loaded instance writes the changed column of the row, and   *)
(* nothing at all when the row is gone.                                    *)
Saved(i, row, column) ==
  IF users[i] = NoRow
  THEN users
  ELSE [users EXCEPT ![i] = [@ EXCEPT ![column] = row[column]]]

(***************************************************************************)
(* AuthService.signUp and UsersService.create: two counts, the insert, the *)
(* mail.                                                                   *)
(***************************************************************************)
NewRow(e, u, p) ==
  [email |-> e, username |-> u, password |-> p, confirmed |-> FALSE,
   name |-> NoName]

SigningUp == {r \in Requests : h[r].pc \in {"countUsername", "insert"}}

(* Room bounds the sign-ups by the ids left to draw.                       *)
Room == Cardinality(SigningUp) < Cardinality(FreeIds)

SignUp(r, e, u, p1, p2) ==
  /\ h[r] = Idle
  /\ Room
  /\ \/ p1 # p2 /\ Answer(r, 400)
     \/ p1 = p2 /\ WithEmail(e) # {} /\ Answer(r, 409)
     \/ /\ p1 = p2
        /\ WithEmail(e) = {}
        /\ Await(r, "countUsername", NoId, NewRow(e, u, p1))
  /\ UNCHANGED <<users, owner, tokens, mails>>

CountUsername(r) ==
  /\ h[r].pc = "countUsername"
  /\ IF WithUsername(h[r].row.username) # {}
     THEN Answer(r, 409)
     ELSE Await(r, "insert", NoId, h[r].row)
  /\ UNCHANGED <<users, owner, tokens, mails>>

(* The insert is not wrapped by throwDuplicateError: a duplicate escapes   *)
(* as an internal error.                                                   *)
Insert(r) ==
  /\ h[r].pc = "insert"
  /\ \/ /\ Collides(h[r].row)
        /\ Answer(r, 500)
        /\ UNCHANGED <<users, owner>>
     \/ \E i \in FreeIds :
          /\ ~Collides(h[r].row)
          /\ users' = [users EXCEPT ![i] = h[r].row]
          /\ owner' = [owner EXCEPT ![i] = h[r].row.email]
          /\ Await(r, "mailSignUp", i, NoRow)
  /\ UNCHANGED <<tokens, mails>>

(***************************************************************************)
(* Signing a mail token and handing the mail over, not awaited; then the   *)
(* answer of the handler that asked for it.                                *)
(***************************************************************************)
MailKind   == [mailSignUp |-> "confirmation", mailSignIn |-> "confirmation",
               mailReset |-> "resetPassword"]
MailAnswer == [mailSignUp |-> 201, mailSignIn |-> 401, mailReset |-> 200]

(* Mutant of SendMail: the handler waits for the transport to be free.     *)
SendMailAwaited(r) ==
  /\ h[r].pc \in MailPcs
  /\ mails = {}
  /\ mails' = {[kind |-> MailKind[h[r].pc], id |-> h[r].id]}
  /\ Answer(r, MailAnswer[h[r].pc])
  /\ UNCHANGED <<users, owner, tokens>>

SendMail(r) ==
  /\ h[r].pc \in MailPcs
  /\ mails' = mails \cup {[kind |-> MailKind[h[r].pc], id |-> h[r].id]}
  /\ Answer(r, MailAnswer[h[r].pc])
  /\ UNCHANGED <<users, owner, tokens>>

(* generateAuthTokens, and the answer that carries the pair.               *)
Mint(r) ==
  /\ h[r].pc = "mint"
  /\ tokens' = tokens \cup [kind : SessionKinds, id : {h[r].id}]
  /\ Answer(r, 200)
  /\ UNCHANGED <<users, owner, mails>>

(***************************************************************************)
(* saveEntity: validation, then the UPDATE; what follows it.               *)
(***************************************************************************)
AfterSave(r) ==
  CASE h[r].pc = "saveConfirmed" -> Await(r, "findConfirmed", h[r].id, h[r].row)
    [] h[r].pc = "savePassword"  -> Await(r, "mint", h[r].id, NoRow)
    [] OTHER                     -> Answer(r, 200)

Save(r) ==
  /\ h[r].pc \in SavePcs
  /\ \/ FALSE \in Accepts /\ Answer(r, 400) /\ UNCHANGED users
     \/ /\ TRUE \in Accepts
        /\ users' = Saved(h[r].id, h[r].row, Column[h[r].pc])
        /\ AfterSave(r)
  /\ UNCHANGED <<owner, tokens, mails>>

(***************************************************************************)
(* AuthService.confirmEmail: verify, load, save, then look the user up     *)
(* again by address and sign tokens for the row found.                     *)
(***************************************************************************)
ConfirmEmail(r, t) ==
  /\ h[r] = Idle
  /\ \/ ~Verifies(t, "confirmation") /\ Answer(r, 400)
     \/ /\ Verifies(t, "confirmation")
        /\ users[t.id] = NoRow
        /\ Answer(r, 401)
     \/ /\ Verifies(t, "confirmation")
        /\ t.id \in Live
        /\ users[t.id].confirmed
        /\ Answer(r, 400)
     \/ /\ Verifies(t, "confirmation")
        /\ t.id \in Live
        /\ ~users[t.id].confirmed
        /\ Await(r, "saveConfirmed", t.id,
                 [users[t.id] EXCEPT !.confirmed = TRUE])
  /\ UNCHANGED <<users, owner, tokens, mails>>

(* Mutant of FindConfirmed: the row found is not checked for null.         *)
FindConfirmedUnchecked(r) ==
  /\ h[r].pc = "findConfirmed"
  /\ \/ WithEmail(h[r].row.email) = {} /\ Await(r, "mint", NoId, NoRow)
     \/ \E i \in WithEmail(h[r].row.email) : Await(r, "mint", i, NoRow)
  /\ UNCHANGED <<users, owner, tokens, mails>>

FindConfirmed(r) ==
  /\ h[r].pc = "findConfirmed"
  /\ \/ WithEmail(h[r].row.email) = {} /\ Answer(r, 401)
     \/ \E i \in WithEmail(h[r].row.email) : Await(r, "mint", i, NoRow)
  /\ UNCHANGED <<users, owner, tokens, mails>>

(***************************************************************************)
(* AuthService.signIn: by address or by user name.                         *)
(***************************************************************************)
(* Mutant of SignInWith: tokens whether the account is confirmed or not.   *)
SignInUnconfirmed(r, found, p) ==
  \/ found = {} /\ Answer(r, 401)
  \/ \E i \in found :
       IF users[i].password = p THEN Await(r, "mint", i, NoRow)
                                ELSE Answer(r, 401)

SignInWith(r, found, p) ==
  \/ found = {} /\ Answer(r, 401)
  \/ \E i \in found :
       \/ users[i].password # p /\ Answer(r, 401)
       \/ /\ users[i].password = p
          /\ ~users[i].confirmed
          /\ Await(r, "mailSignIn", i, NoRow)
       \/ /\ users[i].password = p
          /\ users[i].confirmed
          /\ Await(r, "mint", i, NoRow)

SignInByEmail(r, e, p) ==
  /\ h[r] = Idle
  /\ SignInWith(r, WithEmail(e), p)
  /\ UNCHANGED <<users, owner, tokens, mails>>

SignInByUsername(r, u, p) ==
  /\ h[r] = Idle
  /\ IF u \in Slugs
     THEN SignInWith(r, WithUsername(u), p)
     ELSE Answer(r, 400)
  /\ UNCHANGED <<users, owner, tokens, mails>>

(***************************************************************************)
(* AuthService.refreshTokenAccess and logout: neither remembers anything.  *)
(***************************************************************************)
(* Mutant of RefreshAccess: the token is believed, the user not looked up. *)
RefreshUnchecked(r, t) ==
  /\ h[r] = Idle
  /\ IF Verifies(t, "refresh") THEN Await(r, "mint", t.id, NoRow)
                               ELSE Answer(r, 400)
  /\ UNCHANGED <<users, owner, tokens, mails>>

RefreshAccess(r, t) ==
  /\ h[r] = Idle
  /\ \/ ~Verifies(t, "refresh") /\ Answer(r, 400)
     \/ Verifies(t, "refresh") /\ users[t.id] = NoRow /\ Answer(r, 401)
     \/ /\ Verifies(t, "refresh")
        /\ t.id \in Live
        /\ Await(r, "mint", t.id, NoRow)
  /\ UNCHANGED <<users, owner, tokens, mails>>

Logout(r, i, t) ==
  /\ h[r] = Idle
  /\ CurrentUser(i)
  /\ Answer(r, IF Verifies(t, "refresh") THEN 200 ELSE 400)
  /\ UNCHANGED <<users, owner, tokens, mails>>

(***************************************************************************)
(* AuthService.resetPasswordEmail, resetPassword and updatePassword.       *)
(***************************************************************************)
ForgotPassword(r, e) ==
  /\ h[r] = Idle
  /\ \/ WithEmail(e) = {} /\ Answer(r, 404)
     \/ \E i \in WithEmail(e) : Await(r, "mailReset", i, NoRow)
  /\ UNCHANGED <<users, owner, tokens, mails>>

ResetPassword(r, t, p1, p2) ==
  /\ h[r] = Idle
  /\ \/ ~Verifies(t, "resetPassword") /\ Answer(r, 400)
     \/ Verifies(t, "resetPassword") /\ p1 # p2 /\ Answer(r, 400)
     \/ /\ Verifies(t, "resetPassword")
        /\ p1 = p2
        /\ users[t.id] = NoRow
        /\ Answer(r, 401)
     \/ /\ Verifies(t, "resetPassword")
        /\ p1 = p2
        /\ t.id \in Live
        /\ Await(r, "saveReset", t.id, [users[t.id] EXCEPT !.password = p1])
  /\ UNCHANGED <<users, owner, tokens, mails>>

UpdatePassword(r, i, p, p1, p2) ==
  /\ h[r] = Idle
  /\ CurrentUser(i)
  /\ \/ p1 # p2 /\ Answer(r, 400)
     \/ p1 = p2 /\ users[i] = NoRow /\ Answer(r, 401)
     \/ /\ p1 = p2
        /\ i \in Live
        /\ p # users[i].password \/ p1 = users[i].password
        /\ Answer(r, 400)
     \/ /\ p1 = p2
        /\ i \in Live
        /\ p = users[i].password /\ p1 # users[i].password
        /\ Await(r, "savePassword", i, [users[i] EXCEPT !.password = p1])
  /\ UNCHANGED <<users, owner, tokens, mails>>

(***************************************************************************)
(* UsersService.update, delete and deleteByEmailDev.                       *)
(***************************************************************************)
(* A request without a name (NoName), or with one that formats to the one  *)
(* loaded, leaves nothing to write: the save only validates.               *)
UpdateName(r, i, n) ==
  /\ h[r] = Idle
  /\ CurrentUser(i)
  /\ \/ users[i] = NoRow /\ Answer(r, 401)
     \/ i \in Live /\ n \in Names /\ n = users[i].name /\ Answer(r, 400)
     \/ /\ i \in Live
        /\ n \in Names => n # users[i].name /\ FormatName[n] = users[i].name
        /\ \E ok \in Accepts : Answer(r, IF ok THEN 200 ELSE 400)
     \/ /\ i \in Live
        /\ n \in Names /\ n # users[i].name /\ FormatName[n] # users[i].name
        /\ Await(r, "saveName", i, [users[i] EXCEPT !.name = FormatName[n]])
  /\ UNCHANGED <<users, owner, tokens, mails>>

DeleteUser(r, i, p) ==
  /\ h[r] = Idle
  /\ CurrentUser(i)
  /\ \/ users[i] = NoRow /\ Answer(r, 401)
     \/ i \in Live /\ p # users[i].password /\ Answer(r, 400)
     \/ i \in Live /\ p = users[i].password /\ Await(r, "destroy", i, NoRow)
  /\ UNCHANGED <<users, owner, tokens, mails>>

Destroy(r) ==
  /\ h[r].pc = "destroy"
  /\ users' = [users EXCEPT ![h[r].id] = NoRow]
  /\ Answer(r, 204)
  /\ UNCHANGED <<owner, tokens, mails>>

(* A DELETE that fails is caught and logged: 204 all the same.             *)
DeleteByEmailDev(r, e) ==
  /\ h[r] = Idle
  /\ \/ users' = [i \in UserIds |-> IF i \in WithEmail(e) THEN NoRow ELSE users[i]]
     \/ "db" \in Faults /\ UNCHANGED users
  /\ Answer(r, 204)
  /\ UNCHANGED <<owner, tokens, mails>>

(***************************************************************************)
(* Refusals that read nothing: the guard without a valid access token, and *)
(* a token that has expired.                                               *)
(***************************************************************************)
Refuse(r) ==
  /\ h[r] = Idle
  /\ \E status \in {400, 401} : Answer(r, status)
  /\ UNCHANGED <<users, owner, tokens, mails>>

(***************************************************************************)
(* The transport, and faults.                                              *)
(***************************************************************************)
Deliver(t) ==
  /\ t \in mails
  /\ mails' = mails \ {t}
  /\ tokens' = tokens \cup {t}
  /\ answer' = NoAnswer
  /\ UNCHANGED <<users, owner, h>>

(* sendMail's rejection is only logged.                                    *)
Lose(t) ==
  /\ "mail" \in Faults
  /\ t \in mails
  /\ mails' = mails \ {t}
  /\ answer' = NoAnswer
  /\ UNCHANGED <<users, owner, tokens, h>>

(* A statement or a signature fails: throwDuplicateError makes a failed    *)
(* save a 400, everything else ends as a 500.                              *)
Fail(r) ==
  /\ "db" \in Faults
  /\ h[r] # Idle
  /\ Answer(r, IF h[r].pc \in SavePcs THEN 400 ELSE 500)
  /\ UNCHANGED <<users, owner, tokens, mails>>

(* The process dies and is restarted: only the database is left.           *)
Crash ==
  /\ "crash" \in Faults
  /\ \E r \in Requests : h[r] # Idle
  /\ h' = [r \in Requests |-> Idle]
  /\ mails' = {}
  /\ answer' = NoAnswer
  /\ UNCHANGED <<users, owner, tokens>>

Init ==
  /\ users = [i \in UserIds |-> NoRow]
  /\ owner = [i \in UserIds |-> NoEmail]
  /\ tokens = {}
  /\ mails = {}
  /\ h = [r \in Requests |-> Idle]
  /\ answer = NoAnswer

(* A request arrives that presents no refresh token.                       *)
Enter(r) ==
  \/ \E e \in Emails, u \in Usernames, p1, p2 \in Passwords :
       SignUp(r, e, u, p1, p2)
  \/ \E t \in tokens : ConfirmEmail(r, t)
  \/ \E e \in Emails, p \in Passwords : SignInByEmail(r, e, p)
  \/ \E u \in Usernames, p \in Passwords : SignInByUsername(r, u, p)
  \/ \E e \in Emails : ForgotPassword(r, e)
  \/ \E t \in tokens, p1, p2 \in Passwords : ResetPassword(r, t, p1, p2)
  \/ \E i \in UserIds, p, p1, p2 \in Passwords : UpdatePassword(r, i, p, p1, p2)
  \/ \E i \in UserIds, n \in Names \cup {NoName} : UpdateName(r, i, n)
  \/ \E i \in UserIds, p \in Passwords : DeleteUser(r, i, p)
  \/ \E e \in Emails : DeleteByEmailDev(r, e)
  \/ Refuse(r)

Begin(r) ==
  \/ Enter(r)
  \/ \E t \in tokens : RefreshAccess(r, t)
  \/ \E i \in UserIds, t \in tokens : Logout(r, i, t)

(* A request in flight passes its next await.                              *)
Resume(r) ==
  \/ CountUsername(r)
  \/ Insert(r)
  \/ SendMail(r)
  \/ Mint(r)
  \/ Save(r)
  \/ FindConfirmed(r)
  \/ Destroy(r)

(* What no handler does: faults, and the transport's work.                 *)
Accident ==
  \/ \E r \in Requests : Fail(r)
  \/ \E t \in Token : Deliver(t) \/ Lose(t)
  \/ Crash

Next ==
  \/ \E r \in Requests : Begin(r) \/ Resume(r)
  \/ Accident

Spec == Init /\ [][Next]_vars

(* The event loop runs every pending continuation.  Nothing is assumed of  *)
(* clients, of the mail transport or of faults.                            *)
FairSpec == Spec /\ \A r \in Requests : WF_vars(Resume(r))

-----------------------------------------------------------------------------
(***************************************************************************)
(* Properties.                                                             *)
(***************************************************************************)
(* Every variable keeps its type; in particular a handler signs a token    *)
(* only for a user id it has read.                                         *)
TypeOK ==
  /\ users \in [UserIds -> Row \cup {NoRow}]
  /\ owner \in [UserIds -> Emails \cup {NoEmail}]
  /\ tokens \subseteq Token
  /\ mails \subseteq [kind : MailKinds, id : UserIds]
  /\ h \in [Requests -> [pc : Pcs, id : UserIds \cup {NoId},
                         row : Row \cup {NoRow}]]
  /\ answer \in Statuses \cup {NoAnswer}

(* Two accounts never share an address or a user name, however many        *)
(* sign-ups pass their two counts together: the unique indexes decide.     *)
UniqueAccounts ==
  \A i, j \in Live :
    i # j => /\ users[i].email # users[j].email
             /\ users[i].username # users[j].username

(* An account is confirmed only if its own confirmation link was received  *)
(* in the mailbox it was registered for.                                   *)
ConfirmedByMail ==
  \A i \in Live : users[i].confirmed =>
    [kind |-> "confirmation", id |-> i] \in tokens

Proven(e) ==
  \E t \in tokens : t.kind = "confirmation" /\ owner[t.id] = e

(* Access and refresh tokens exist only for users whose address received a *)
(* confirmation link: along every path that signs them (sign-in,           *)
(* confirmation, refresh, change of password).                             *)
SessionsProven ==
  \A t \in tokens : t.kind \in SessionKinds => Proven(owner[t.id])

(***************************************************************************)
(* The inductive strengthening of the four invariants above: what a        *)
(* suspended handler may rely on although others run.                      *)
(***************************************************************************)
ConfirmationReceived(i) == [kind |-> "confirmation", id |-> i] \in tokens

(* A suspended handler x carries a user id that was created, and what its  *)
(* checks established still holds: nothing revokes a receipt or an address.*)
HandlerOK(x) ==
  /\ x.id # NoId => owner[x.id] # NoEmail
  /\ x.pc \in {"findConfirmed", "destroy", "mint"} \cup SavePcs \cup MailPcs
       => x.id # NoId
  /\ x.pc \in {"countUsername", "insert", "findConfirmed"} \cup SavePcs
       => x.row # NoRow
  /\ x.pc \in {"countUsername", "insert"} => ~x.row.confirmed
  /\ x.pc \in {"saveConfirmed", "findConfirmed"}
       => /\ ConfirmationReceived(x.id)
          /\ x.row.email = owner[x.id] /\ x.row.confirmed
  /\ x.pc \in {"mint", "savePassword"} => Proven(owner[x.id])
  /\ x.pc = "savePassword" => [kind |-> "access", id |-> x.id] \in tokens
  /\ x.pc = "saveReset" => [kind |-> "resetPassword", id |-> x.id] \in tokens

(* A row keeps the address its id was created for, and only ids that were  *)
(* created have tokens.                                                    *)
OwnersKnown ==
  /\ \A i \in Live : users[i].email = owner[i]
  /\ \A t \in tokens \cup mails : owner[t.id] # NoEmail

(* Inductive: the four invariants, the history of addresses and the        *)
(* handlers' facts together survive every step.                            *)
IInv ==
  /\ TypeOK
  /\ UniqueAccounts
  /\ ConfirmedByMail
  /\ SessionsProven
  /\ OwnersKnown
  /\ \A r \in Requests : HandlerOK(h[r])

(* A save touches the column its handler changed and no other, so requests *)
(* that load the same row and save it in any order lose no update: a       *)
(* confirmed account stays confirmed when a name or a password is saved    *)
(* from a row loaded before the confirmation.                              *)
ColumnsIndependent ==
  [][\A i \in UserIds : users[i] # NoRow /\ users'[i] # NoRow =>
       \A c \in DOMAIN users[i] : users'[i][c] # users[i][c] =>
         \E r \in Requests :
           /\ h[r].pc \in SavePcs /\ h[r].id = i
           /\ Column[h[r].pc] = c
           /\ users'[i][c] = h[r].row[c]]_vars

(* The token that a request which saves a password has been let in with.   *)
Warrant == [saveReset |-> "resetPassword", savePassword |-> "access"]

(* A password changes only by the save of a request for that very account  *)
(* which got past its checks on a reset link, or on an access token, that  *)
(* the account's holder had received; no other request's save, of an entity*)
(* loaded before or after, changes it.                                     *)
PasswordChangeAuthorized ==
  [][\A i \in UserIds :
       /\ users[i] # NoRow /\ users'[i] # NoRow
       /\ users'[i].password # users[i].password
       => \E r \in Requests :
            /\ h[r].id = i /\ h[r].pc \in DOMAIN Warrant
            /\ users'[i].password = h[r].row.password
            /\ [kind |-> Warrant[h[r].pc], id |-> i] \in tokens]_vars

Carries(i) == {r \in Requests : h[r].id = i}
Gone(i)    == users[i] = NoRow /\ owner[i] # NoEmail /\ Carries(i) = {}
Session(i) == {t \in tokens : t.id = i /\ t.kind \in SessionKinds}

(* Once an account is removed and the requests that had loaded it are      *)
(* answered, no request works for it again and no session token is signed  *)
(* for it, although its old tokens still verify.                           *)
QuietAfterRemoval ==
  [][\A i \in UserIds :
       Gone(i) => Gone(i)' /\ Session(i)' = Session(i)]_vars

(* Every request in flight is answered.                                    *)
Answered == \A r \in Requests : h[r] # Idle ~> h[r] = Idle

(***************************************************************************)
(* The service implements AccountLifecycle.                                *)
(***************************************************************************)
Stage(i) ==
  CASE owner[i] = NoEmail -> "free"
    [] owner[i] # NoEmail /\ users[i] = NoRow -> "closed"
    [] OTHER -> IF users[i].confirmed THEN "active" ELSE "pending"

Lifecycle == INSTANCE AccountLifecycle WITH
  Ids       <- UserIds,
  Addresses <- Emails,
  NoAddress <- NoEmail,
  stage     <- [i \in UserIds |-> Stage(i)],
  address   <- owner,
  proven    <- {e \in Emails : Proven(e)},
  sessions  <- {i \in UserIds : [kind |-> "access", id |-> i] \in tokens}

(* Seen from outside, requests that interleave at every await only ever    *)
(* register, prove, activate, open sessions of and close accounts, one     *)
(* account at a time, as AccountLifecycle allows.                          *)
LifecycleSpec == Lifecycle!Spec

-----------------------------------------------------------------------------
(***************************************************************************)
(* What the documentation says and the code does not do.                   *)
(***************************************************************************)
(* auth.controller.ts documents 409 for an address already in use: a       *)
(* sign-up whose address or name is taken is answered 409.                 *)
ConflictReported ==
  [][\A r \in Requests :
       h[r].pc = "insert" /\ Collides(h[r].row) /\ h'[r] = Idle
         => answer' = 409]_vars

(* common.service.ts documents that saveEntity validates the entity and    *)
(* flushes it into the database: the row, when it is there, has the value. *)
SaveFlushes ==
  [][\A r \in Requests :
       LET c == Column[h[r].pc]
       IN  h[r].pc \in SavePcs /\ h'[r] # h[r] /\ users[h[r].id] # NoRow
             => users'[h[r].id][c] = h[r].row[c]]_vars
=============================================================================
