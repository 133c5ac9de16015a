--------------------------- MODULE Sessions_proof ---------------------------
(***************************************************************************)
(* Proofs about Sessions: browsers and server together implement Accounts, *)
(* so that what is proved of the service alone holds behind any browsers,  *)
(* and the refresh cookie is handled as it should be.                      *)
(***************************************************************************)
EXTENDS Sessions, AccountsSteps_proof

(* A request has a handler just while it is held.                          *)
Held(r) == h[r] # Idle <=> trip[r] # NoTrip /\ trip[r].at = "held"

(* Nothing of a browser that is out can bring the cookie back.             *)
Harmless(r) ==
  /\ trip[r].what # "enter"
  /\ trip[r].cookie = NoCookie
  /\ trip[r].at # "held"
  /\ trip[r].setCookie = Keep

(* A logout is answered at once, and its answer 200 clears the cookie.     *)
Clears(r) ==
  trip[r] # NoTrip /\ trip[r].what = "logout" =>
    /\ trip[r].at # "held"
    /\ trip[r].status = 200 => trip[r].setCookie = NoCookie

(* The inductive invariant of the browsers.                                *)
BInv ==
  /\ BrowsersTypeOK
  /\ \A r \in Requests : Held(r) /\ Clears(r)
  /\ LogoutHolds
  /\ \A b \in Browsers : out[b] => \A r \in Of(b) : Harmless(r)

LEMMA InitBInv == BrowsersInit => BInv
  BY DEF BrowsersInit, Init, BInv, BrowsersTypeOK, Held, Clears, LogoutHolds, Of

(* A step that starts a handler and does nothing to others or to tokens.   *)
Alone(r) ==
  /\ tokens' = tokens /\ h[r] = Idle
  /\ \A q \in Requests : q # r => h'[q] = h[q]

(* A request that arrives changes its own handler and no token.            *)
LEMMA EnterStep ==
  ASSUME NEW r \in Requests, Enter(r) \/ Refuse(r), TypeOK
  PROVE  Alone(r)
  <1> USE DEF TypeOK, Answer, Await, Alone
  <1>1. ASSUME NEW e \in Emails, NEW u \in Usernames, NEW p1 \in Passwords,
               NEW p2 \in Passwords, SignUp(r, e, u, p1, p2)
        PROVE  Alone(r)
    BY <1>1 DEF SignUp
  <1>2. ASSUME NEW t \in tokens, ConfirmEmail(r, t)
        PROVE  Alone(r)
    BY <1>2 DEF ConfirmEmail
  <1>3. ASSUME NEW found, NEW p \in Passwords, SignInWith(r, found, p)
        PROVE  \A q \in Requests : q # r => h'[q] = h[q]
    BY <1>3 DEF SignInWith
  <1>4. ASSUME NEW e \in Emails, NEW p \in Passwords, SignInByEmail(r, e, p)
        PROVE  Alone(r)
    BY <1>3, <1>4 DEF SignInByEmail
  <1>5. ASSUME NEW u \in Usernames, NEW p \in Passwords, SignInByUsername(r, u, p)
        PROVE  Alone(r)
    BY <1>3, <1>5 DEF SignInByUsername
  <1>6. ASSUME NEW e \in Emails, ForgotPassword(r, e)
        PROVE  Alone(r)
    BY <1>6 DEF ForgotPassword
  <1>7. ASSUME NEW t \in tokens, NEW p1 \in Passwords, NEW p2 \in Passwords,
               ResetPassword(r, t, p1, p2)
        PROVE  Alone(r)
    BY <1>7 DEF ResetPassword
  <1>8. ASSUME NEW i \in UserIds, NEW p \in Passwords, NEW p1 \in Passwords,
               NEW p2 \in Passwords, UpdatePassword(r, i, p, p1, p2)
        PROVE  Alone(r)
    BY <1>8 DEF UpdatePassword
  <1>9. ASSUME NEW i \in UserIds, NEW n \in Names \cup {NoName},
               UpdateName(r, i, n)
        PROVE  Alone(r)
    BY <1>9 DEF UpdateName
  <1>10. ASSUME NEW i \in UserIds, NEW p \in Passwords, DeleteUser(r, i, p)
         PROVE  Alone(r)
    BY <1>10 DEF DeleteUser
  <1>11. ASSUME NEW e \in Emails, DeleteByEmailDev(r, e)
         PROVE  Alone(r)
    BY <1>11 DEF DeleteByEmailDev
  <1>12. ASSUME Refuse(r)
         PROVE  Alone(r)
    BY <1>12 DEF Refuse
  <1> QED
    BY <1>1, <1>2, <1>4, <1>5, <1>6, <1>7, <1>8, <1>9, <1>10, <1>11, <1>12
    DEF Enter

(* So does one that presents its cookie, and a step of a browser that is   *)
(* out is answered without a word on the cookie.                           *)
LEMMA CookieStep ==
  ASSUME NEW r \in Requests, TypeOK, BrowsersTypeOK, trip[r] # NoTrip,
         RefreshCookie(r) \/ LogoutCookie(r)
  PROVE  /\ Alone(r)
         /\ Begin(r)
         /\ trip[r].cookie = NoCookie => h'[r] = Idle /\ answer' = 401
  <1> USE DEF TypeOK, Answer, Await, Alone
  <1>1. trip[r].cookie # NoCookie => trip[r].cookie \in tokens
    BY DEF BrowsersTypeOK
  <1>2. CASE trip[r].cookie = NoCookie
    <2>1. h[r] = Idle /\ Answer(r, 401) /\ UNCHANGED <<users, owner, tokens, mails>>
      BY <1>2 DEF RefreshCookie, LogoutCookie
    <2>2. Refuse(r)
      BY <2>1 DEF Refuse
    <2> QED
      BY <2>1, <2>2, <1>2 DEF Begin, Enter
  <1>3. CASE trip[r].cookie # NoCookie /\ RefreshCookie(r)
    <2>1. RefreshAccess(r, trip[r].cookie)
      BY <1>3 DEF RefreshCookie
    <2>2. Begin(r)
      BY <2>1, <1>1, <1>3 DEF Begin
    <2> QED
      BY <2>1, <2>2, <1>3 DEF RefreshAccess
  <1>4. CASE trip[r].cookie # NoCookie /\ LogoutCookie(r)
    <2>1. PICK i \in UserIds : Logout(r, i, trip[r].cookie)
      BY <1>4 DEF LogoutCookie
    <2>2. Begin(r)
      BY <2>1, <1>1, <1>4 DEF Begin
    <2> QED
      BY <2>1, <2>2, <1>4 DEF Logout
  <1> QED
    BY <1>2, <1>3, <1>4

(* A request t answered with status s and an order c about the cookie.     *)
Back(t, s, c) == [t EXCEPT !.at = "back", !.status = s, !.setCookie = c]

LEMMA BackTrip ==
  ASSUME NEW t \in Trips, NEW s \in Statuses \cup {NoAnswer},
         NEW c \in RefreshTokens \cup {NoCookie, Keep}
  PROVE  /\ Back(t, s, c) \in Trips /\ Back(t, s, c).at = "back"
         /\ Back(t, s, c).status = s /\ Back(t, s, c).setCookie = c
         /\ Back(t, s, c).browser = t.browser /\ Back(t, s, c).what = t.what
         /\ Back(t, s, c).cookie = t.cookie
  BY DEF Trips, Back

(* A handler that signs tokens has them signed when it answers.            *)
Signing(r) ==
  h[r].pc = "mint" /\ h'[r] = Idle /\ answer' = 200 =>
    [kind |-> "refresh", id |-> h[r].id] \in RefreshTokens \cap tokens'

(* A step of the handler of r, whichever it is.                            *)
LEMMA AdvanceStep ==
  ASSUME NEW r \in Requests, IInv, Resume(r) \/ Fail(r)
  PROVE  /\ tokens \subseteq tokens' /\ h[r] # Idle /\ Signing(r)
         /\ \A q \in Requests : q # r => h'[q] = h[q]
  <1>1. h \in [Requests -> [pc : Pcs, id : UserIds \cup {NoId}, row : Row \cup {NoRow}]]
    BY DEF IInv, TypeOK
  <1> USE DEF Answer, Await, Idle, Signing, Statuses
  <1>2. CASE CountUsername(r)
    BY <1>1, <1>2 DEF CountUsername
  <1>3. CASE Insert(r)
    BY <1>1, <1>3 DEF Insert
  <1>4. CASE SendMail(r)
    BY <1>1, <1>4 DEF SendMail, MailPcs
  <1>5. CASE Mint(r)
    <2>1. h[r].id \in UserIds
      BY <1>1, <1>5 DEF Mint, IInv, HandlerOK
    <2>2. tokens' = tokens \cup [kind : SessionKinds, id : {h[r].id}]
      BY <1>1, <1>5 DEF Mint
    <2>3. [kind |-> "refresh", id |-> h[r].id] \in [kind : SessionKinds, id : {h[r].id}]
      BY DEF SessionKinds
    <2>4. h[r] # Idle /\ \A q \in Requests : q # r => h'[q] = h[q]
      BY <1>1, <1>5 DEF Mint
    <2>5. [kind |-> "refresh", id |-> h[r].id] \in RefreshTokens
      BY <2>1 DEF RefreshTokens
    <2>6. Signing(r)
      BY <2>2, <2>3, <2>5 DEF Signing
    <2>7. tokens \subseteq tokens'
      BY <2>2
    <2> QED
      BY <2>4, <2>6, <2>7
  <1>6. CASE Save(r)
    <2>1. h[r].pc \in SavePcs /\ tokens' = tokens
      BY <1>6 DEF Save
    <2>2. \A q \in Requests : q # r => h'[q] = h[q]
      <3>1. CASE Answer(r, 400)
        BY <1>1, <3>1
      <3>2. CASE AfterSave(r) /\ h[r].pc = "saveConfirmed"
        BY <1>1, <3>2 DEF AfterSave
      <3>3. CASE AfterSave(r) /\ h[r].pc = "savePassword"
        BY <1>1, <3>3 DEF AfterSave
      <3>4. CASE AfterSave(r) /\ h[r].pc \notin {"saveConfirmed", "savePassword"}
        BY <1>1, <3>4 DEF AfterSave
      <3> QED
        BY <1>6, <3>1, <3>2, <3>3, <3>4 DEF Save
    <2> QED
      BY <1>1, <2>1, <2>2 DEF SavePcs
  <1>7. CASE FindConfirmed(r)
    BY <1>1, <1>7 DEF FindConfirmed
  <1>8. CASE Destroy(r)
    BY <1>1, <1>8 DEF Destroy
  <1>9. CASE Fail(r)
    BY <1>1, <1>9 DEF Fail, SavePcs
  <1>10. \/ CountUsername(r) \/ Insert(r) \/ SendMail(r) \/ Mint(r) \/ Save(r)
         \/ FindConfirmed(r) \/ Destroy(r) \/ Fail(r)
    BY DEF Resume
  <1> QED
    BY <1>2, <1>3, <1>4, <1>5, <1>6, <1>7, <1>8, <1>9, <1>10

(* The answers that leave the server in a step of its handlers.            *)
LEMMA HandlingStep ==
  ASSUME BInv, IInv, TypeOK', tokens \subseteq tokens', Handling,
         \A r \in Requests : h[r] = Idle => h'[r] = Idle,
         \A r \in Requests : h[r] # Idle => Signing(r)
  PROVE  BInv'
  <1> USE DEF Handling
  <1>1. ASSUME NEW r \in Requests, h[r] # Idle
        PROVE  /\ trip[r] \in Trips /\ trip[r].at = "held"
               /\ trip'[r] = Handled(r)
    BY <1>1 DEF BInv, Held, BrowsersTypeOK
  <1>2. ASSUME NEW r \in Requests, h[r] # Idle, h'[r] # Idle
        PROVE  trip'[r] = trip[r]
    BY <1>1, <1>2 DEF Handled, Trips
  <1>3. ASSUME NEW r \in Requests, h[r] # Idle, h'[r] = Idle
        PROVE  /\ trip'[r] \in Trips /\ trip'[r].at = "back"
               /\ trip'[r].browser = trip[r].browser
               /\ trip'[r].what = trip[r].what
               /\ trip'[r].cookie = trip[r].cookie
               /\ trip'[r].setCookie \in (RefreshTokens \cap tokens') \cup {NoCookie, Keep}
    <2> DEFINE c == IF answer' = 200 THEN SetCookie(r) ELSE Keep
    <2>1. c \in (RefreshTokens \cap tokens') \cup {NoCookie, Keep}
      BY <1>3 DEF Signing, SetCookie
    <2>2. trip'[r] = [trip[r] EXCEPT !.at = "back", !.status = answer', !.setCookie = c]
      BY <1>1, <1>3 DEF Handled
    <2>3. answer' \in Statuses \cup {NoAnswer}
      BY DEF TypeOK
    <2> HIDE DEF c
    <2> QED
      BY <1>1, <1>3, <2>1, <2>2, <2>3 DEF Trips
  <1>4. ASSUME NEW r \in Requests, h[r] = Idle
        PROVE  trip'[r] = trip[r]
    BY <1>4
  <1>5. BrowsersTypeOK'
    <2>1. jar' \in [Browsers -> (RefreshTokens \cap tokens') \cup {NoCookie}]
      BY DEF BInv, BrowsersTypeOK
    <2>2. ASSUME NEW r \in Requests
          PROVE  /\ trip'[r] \in Trips \cup {NoTrip}
                 /\ trip'[r] # NoTrip =>
                     /\ trip'[r].cookie \in (RefreshTokens \cap tokens') \cup {NoCookie}
                     /\ trip'[r].setCookie \in (RefreshTokens \cap tokens') \cup {NoCookie, Keep}
      <3>1. /\ trip[r] \in Trips \cup {NoTrip}
            /\ trip[r] # NoTrip =>
                /\ trip[r].cookie \in (RefreshTokens \cap tokens') \cup {NoCookie}
                /\ trip[r].setCookie \in (RefreshTokens \cap tokens') \cup {NoCookie, Keep}
        BY DEF BInv, BrowsersTypeOK
      <3>2. CASE h[r] # Idle /\ h'[r] = Idle
        BY <3>1, <3>2, <1>1, <1>3, NoTripAssumption
      <3>3. CASE h[r] = Idle \/ h'[r] # Idle
        BY <3>1, <3>3, <1>2, <1>4
      <3> QED
        BY <3>2, <3>3
    <2>3. trip' \in [Requests -> Trips \cup {NoTrip}]
      BY <2>2
    <2>4. out' \in [Browsers -> BOOLEAN]
      BY DEF BInv, BrowsersTypeOK
    <2> QED
      BY <2>1, <2>2, <2>3, <2>4 DEF BrowsersTypeOK
  <1>6. \A r \in Requests : Held(r)' /\ Clears(r)'
    <2> TAKE r \in Requests
    <2>1. CASE h[r] # Idle /\ h'[r] = Idle
      <3>1. trip[r].what # "logout"
        BY <2>1, <1>1, NoTripAssumption DEF BInv, Clears
      <3> QED
        BY <3>1, <2>1, <1>3 DEF Held, Clears
    <2>2. CASE h[r] # Idle /\ h'[r] # Idle
      BY <2>2, <1>1, <1>2, NoTripAssumption DEF Held, Clears, BInv
    <2>3. CASE h[r] = Idle
      BY <2>3, <1>4 DEF Held, Clears, BInv
    <2> QED
      BY <2>1, <2>2, <2>3
  <1>7. LogoutHolds'
    BY DEF BInv, LogoutHolds
  <1>8. \A b \in Browsers : out'[b] => \A r \in Of(b)' : Harmless(r)'
    <2> SUFFICES ASSUME NEW b \in Browsers, out[b], NEW r \in Requests,
                        trip'[r] # NoTrip, trip'[r].browser = b
                 PROVE  Harmless(r)'
      BY DEF Of
    <2>1. h[r] = Idle
      <3> SUFFICES ASSUME h[r] # Idle
                   PROVE  FALSE
        OBVIOUS
      <3>1. trip[r].browser = b
        BY <1>1, <1>2, <1>3
      <3>2. r \in Of(b)
        BY <3>1, <1>1, NoTripAssumption DEF Of
      <3> QED
        BY <3>2, <1>1 DEF BInv, Harmless
    <2> QED
      BY <2>1, <1>4 DEF BInv, Harmless, Of
  <1> QED
    BY <1>5, <1>6, <1>7, <1>8 DEF BInv

(* A request arrives: what its handler does at once.                       *)
LEMMA ArriveBegins ==
  ASSUME BInv, IInv, NEW r \in Requests, Arrive(r)
  PROVE  /\ Alone(r) /\ Begin(r)
         /\ trip[r].what # "enter" /\ trip[r].cookie = NoCookie
              => h'[r] = Idle /\ answer' # 200
         /\ trip[r].what = "logout" => h'[r] = Idle
  <1>1. trip[r] # NoTrip
    BY DEF Arrive, At
  <1>2. TypeOK /\ BrowsersTypeOK
    BY DEF IInv, BInv
  <1>3. CASE Refuse(r)
    <2>1. h'[r] = Idle /\ answer' # 200
      BY <1>2, <1>3 DEF Refuse, Answer, TypeOK
    <2> QED
      BY <1>2, <1>3, <2>1, EnterStep DEF Begin, Enter
  <1>4. CASE trip[r].what = "enter" /\ Enter(r)
    BY <1>2, <1>4, EnterStep DEF Begin
  <1>5. CASE trip[r].what = "refresh" /\ RefreshCookie(r)
    BY <1>2, <1>5, <1>1, CookieStep
  <1>6. CASE trip[r].what = "logout" /\ LogoutCookie(r)
    <2>1. h'[r] = Idle
      BY <1>2, <1>6 DEF LogoutCookie, Logout, Answer, TypeOK
    <2> QED
      BY <1>2, <1>6, <2>1, <1>1, CookieStep
  <1> QED
    BY <1>3, <1>4, <1>5, <1>6 DEF Arrive

(* A request arrives and is answered at once, or is held from now on.      *)
LEMMA ArriveStep ==
  ASSUME BInv, IInv, TypeOK', NEW r \in Requests, Arrive(r)
  PROVE  BInv'
  <1>1. /\ trip[r] \in Trips /\ trip[r] # NoTrip /\ trip[r].at = "sent"
        /\ trip' = [trip EXCEPT ![r] = Handled(r)] /\ UNCHANGED <<jar, out>>
    BY DEF Arrive, At, BInv, BrowsersTypeOK
  <1>2. /\ Alone(r) /\ Begin(r)
        /\ trip[r].what # "enter" /\ trip[r].cookie = NoCookie
             => h'[r] = Idle /\ answer' # 200
        /\ trip[r].what = "logout" => h'[r] = Idle
    BY ArriveBegins
  <1>3. /\ tokens' = tokens /\ h[r] = Idle
        /\ \A q \in Requests : q # r => h'[q] = h[q] /\ trip'[q] = trip[q]
    BY <1>1, <1>2 DEF Alone, BInv, BrowsersTypeOK
  <1>4. trip'[r] = Handled(r)
    BY <1>1 DEF BInv, BrowsersTypeOK
  <1> DEFINE c == IF answer' = 200 THEN SetCookie(r) ELSE Keep
  <1>5. /\ c \in {NoCookie, Keep} /\ (answer' # 200 => c = Keep)
        /\ answer' = 200 /\ trip[r].what = "logout" => c = NoCookie
    BY <1>3 DEF SetCookie, Idle
  <1>6. /\ trip'[r] \in Trips
        /\ trip'[r].at = IF h'[r] = Idle THEN "back" ELSE "held"
        /\ trip'[r].browser = trip[r].browser
        /\ trip'[r].what = trip[r].what
        /\ trip'[r].cookie = trip[r].cookie
        /\ trip'[r].setCookie \in {trip[r].setCookie, c}
        /\ h'[r] = Idle => trip'[r].setCookie = c /\ trip'[r].status = answer'
    <2>1. answer' \in Statuses \cup {NoAnswer}
      BY DEF TypeOK
    <2>2. trip'[r] = IF h'[r] # Idle THEN [trip[r] EXCEPT !.at = "held"]
                     ELSE [trip[r] EXCEPT !.at = "back", !.status = answer', !.setCookie = c]
      BY <1>4 DEF Handled
    <2>3. c \in {NoCookie, Keep}
      BY <1>5
    <2> HIDE DEF c
    <2>4. CASE h'[r] = Idle
      <3>1. trip'[r] = Back(trip[r], answer', c)
        BY <2>2, <2>4 DEF Back
      <3>2. /\ trip'[r] \in Trips /\ trip'[r].at = "back"
            /\ trip'[r].browser = trip[r].browser
            /\ trip'[r].what = trip[r].what
            /\ trip'[r].cookie = trip[r].cookie
            /\ trip'[r].setCookie = c /\ trip'[r].status = answer'
        BY <1>1, <2>1, <2>3, <3>1, BackTrip
      <3> QED
        BY <3>2, <2>4
    <2>5. CASE h'[r] # Idle
      <3>1. trip'[r] = [trip[r] EXCEPT !.at = "held"]
        BY <2>2, <2>5
      <3>2. /\ trip'[r] \in Trips /\ trip'[r].at = "held"
            /\ trip'[r].browser = trip[r].browser
            /\ trip'[r].what = trip[r].what
            /\ trip'[r].cookie = trip[r].cookie
            /\ trip'[r].setCookie = trip[r].setCookie
        BY <1>1, <3>1 DEF Trips
      <3> QED
        BY <3>2, <2>5
    <2> QED
      BY <2>4, <2>5
  <1> HIDE DEF c
  <1>7. BrowsersTypeOK'
    <2>1. trip' \in [Requests -> Trips \cup {NoTrip}]
      BY <1>1, <1>4, <1>6 DEF BInv, BrowsersTypeOK
    <2>2. ASSUME NEW q \in Requests, trip'[q] # NoTrip
          PROVE  /\ trip'[q].cookie \in (RefreshTokens \cap tokens) \cup {NoCookie}
                 /\ trip'[q].setCookie \in (RefreshTokens \cap tokens) \cup {NoCookie, Keep}
      <3>1. CASE q = r
        BY <3>1, <1>1, <1>5, <1>6 DEF BInv, BrowsersTypeOK
      <3>2. CASE q # r
        BY <3>2, <2>2, <1>3 DEF BInv, BrowsersTypeOK
      <3> QED
        BY <3>1, <3>2
    <2>3. UNCHANGED <<jar, out, tokens>>
      BY <1>1, <1>3
    <2> QED
      BY <2>1, <2>2, <2>3 DEF BInv, BrowsersTypeOK
  <1>8. \A q \in Requests : Held(q)' /\ Clears(q)'
    <2>1. Held(r)' /\ Clears(r)'
      BY <1>2, <1>5, <1>6, NoTripAssumption DEF Held, Clears
    <2>2. \A q \in Requests : q # r => Held(q)' /\ Clears(q)'
      BY <1>3 DEF Held, Clears, BInv
    <2> QED
      BY <2>1, <2>2
  <1>9. LogoutHolds'
    BY <1>1 DEF BInv, LogoutHolds
  <1>10. \A b \in Browsers : out'[b] => \A q \in Of(b)' : Harmless(q)'
    <2> SUFFICES ASSUME NEW b \in Browsers, out[b], NEW q \in Requests,
                        trip'[q] # NoTrip, trip'[q].browser = b
                 PROVE  Harmless(q)'
      BY <1>1 DEF Of
    <2>1. CASE q = r
      <3>1. Harmless(r)
        BY <2>1, <1>1, <1>6 DEF BInv, Of
      <3> QED
        BY <2>1, <3>1, <1>2, <1>5, <1>6 DEF Harmless
    <2>2. CASE q # r
      BY <2>2, <1>3 DEF BInv, Of, Harmless
    <2> QED
      BY <2>1, <2>2
  <1> QED
    BY <1>2, <1>7, <1>8, <1>9, <1>10 DEF BInv

(* The steps of browsers and of the network.                               *)
LEMMA BrowserStep ==
  ASSUME BInv, UNCHANGED vars,
         \/ \E r \in Requests, b \in Browsers, w \in Endpoints : Send(r, b, w)
         \/ \E r \in Requests : Receive(r) \/ Break(r)
         \/ \E b \in Browsers : Lapse(b)
  PROVE  BInv'
  <1> USE DEF vars
  <1>1. ASSUME NEW r \in Requests, NEW b \in Browsers, NEW w \in Endpoints,
               Send(r, b, w)
        PROVE  BInv'
    <2> DEFINE t == [browser |-> b, what |-> w, at |-> "sent", cookie |-> jar[b],
                     status |-> NoAnswer, setCookie |-> Keep]
    <2>1. /\ t \in Trips /\ t # NoTrip
          /\ t.browser = b /\ t.what = w /\ t.at = "sent" /\ t.cookie = jar[b]
          /\ t.setCookie = Keep /\ t.status # 200
      BY NoTripAssumption DEF Trips, BInv, BrowsersTypeOK, NoAnswer
    <2>2. /\ trip' = [trip EXCEPT ![r] = t] /\ trip[r] = NoTrip
          /\ out' = IF w = "enter" THEN [out EXCEPT ![b] = FALSE] ELSE out
          /\ UNCHANGED jar
      BY <1>1 DEF Send
    <2> HIDE DEF t
    <2>3. BrowsersTypeOK'
      BY <2>1, <2>2 DEF BInv, BrowsersTypeOK
    <2>4. \A q \in Requests : Held(q)' /\ Clears(q)'
      BY <2>1, <2>2 DEF BInv, BrowsersTypeOK, Held, Clears
    <2>5. LogoutHolds'
      BY <2>2 DEF BInv, BrowsersTypeOK, LogoutHolds
    <2>6. \A d \in Browsers : out'[d] => \A q \in Of(d)' : Harmless(q)'
      <3> SUFFICES ASSUME NEW d \in Browsers, out'[d], NEW q \in Requests,
                          trip'[q] # NoTrip, trip'[q].browser = d
                   PROVE  Harmless(q)'
        BY DEF Of
      <3>1. out[d] /\ (d = b => w # "enter")
        BY <2>2 DEF BInv, BrowsersTypeOK
      <3>2. CASE q = r
        <4>1. trip'[q] = t /\ d = b /\ jar[b] = NoCookie
          BY <3>1, <3>2, <2>1, <2>2 DEF BInv, BrowsersTypeOK, LogoutHolds
        <4> QED
          BY <3>1, <4>1, <2>1 DEF Harmless
      <3>3. CASE q # r
        <4>1. trip'[q] = trip[q]
          BY <3>3, <2>2 DEF BInv, BrowsersTypeOK
        <4> QED
          BY <3>1, <4>1 DEF BInv, Of, Harmless
      <3> QED
        BY <3>2, <3>3
    <2> QED
      BY <2>3, <2>4, <2>5, <2>6 DEF BInv
  <1>2. ASSUME NEW r \in Requests, Receive(r) \/ Break(r)
        PROVE  BInv'
    <2> DEFINE b == trip[r].browser
    <2>1. /\ trip[r] \in Trips /\ trip[r] # NoTrip /\ trip[r].at # "held"
          /\ trip' = [trip EXCEPT ![r] = NoTrip] /\ b \in Browsers /\ r \in Of(b)
      BY <1>2 DEF Receive, Break, At, BInv, BrowsersTypeOK, Of, Trips
    <2>2. /\ jar' \in {jar, [jar EXCEPT ![b] = trip[r].setCookie]}
          /\ trip[r].setCookie = Keep => jar' = jar
          /\ out' \in {out, [out EXCEPT ![b] = TRUE]}
          /\ out' # out => Of(b) = {r} /\ trip[r].what = "logout" /\ Receive(r)
      BY <1>2 DEF Receive, Break
    <2> HIDE DEF b
    <2>3. \A q \in Requests : q # r => trip'[q] = trip[q]
      BY <2>1 DEF BInv, BrowsersTypeOK
    <2>4. BrowsersTypeOK'
      <3>1. jar' \in [Browsers -> (RefreshTokens \cap tokens) \cup {NoCookie}]
        BY <2>1, <2>2 DEF BInv, BrowsersTypeOK
      <3> QED
        BY <3>1, <2>1, <2>2, <2>3 DEF BInv, BrowsersTypeOK
    <2>5. \A q \in Requests : Held(q)' /\ Clears(q)'
      BY <2>1, <2>3 DEF BInv, BrowsersTypeOK, Held, Clears
    <2>6. \A d \in Browsers : out'[d] => \A q \in Of(d)' : Harmless(q)'
      <3> SUFFICES ASSUME NEW d \in Browsers, out'[d], NEW q \in Requests,
                          trip'[q] # NoTrip, trip'[q].browser = d
                   PROVE  Harmless(q)'
        BY DEF Of
      <3>1. q # r /\ trip'[q] = trip[q] /\ q \in Of(d)
        BY <2>1, <2>3 DEF BInv, BrowsersTypeOK, Of
      <3>2. out[d]
        BY <3>1, <2>2 DEF BInv, BrowsersTypeOK
      <3> QED
        BY <3>1, <3>2 DEF BInv, Harmless
    <2>7. LogoutHolds'
      <3> SUFFICES ASSUME NEW d \in Browsers, out'[d]
                   PROVE  jar'[d] = NoCookie
        BY DEF LogoutHolds
      <3>1. CASE out[d]
        <4>1. jar[d] = NoCookie
          BY <3>1 DEF BInv, LogoutHolds
        <4>2. d = b => trip[r].setCookie = Keep
          BY <3>1, <2>1 DEF BInv, Harmless
        <4> QED
          BY <4>1, <4>2, <2>1, <2>2 DEF BInv, BrowsersTypeOK
      <3>2. CASE ~out[d]
        <4>1. d = b /\ trip[r].what = "logout" /\ Receive(r) /\ trip[r].status = 200
          BY <3>2, <2>1, <2>2, <1>2 DEF BInv, BrowsersTypeOK, Receive, b
        <4>2. trip[r].setCookie = NoCookie
          BY <4>1, <2>1 DEF BInv, Clears
        <4>3. jar' = [jar EXCEPT ![b] = NoCookie]
          BY <4>1, <4>2, CookieAssumption DEF Receive, b
        <4> QED
          BY <4>1, <4>3, <2>1 DEF BInv, BrowsersTypeOK
      <3> QED
        BY <3>1, <3>2
    <2> QED
      BY <2>4, <2>5, <2>6, <2>7 DEF BInv
  <1>3. ASSUME NEW b \in Browsers, Lapse(b)
        PROVE  BInv'
    <2> USE <1>3 DEF Lapse
    <2>1. BrowsersTypeOK' /\ LogoutHolds'
      BY DEF BInv, BrowsersTypeOK, LogoutHolds
    <2>2. \A q \in Requests : Held(q)' /\ Clears(q)'
      BY DEF BInv, Held, Clears
    <2>3. \A d \in Browsers : out'[d] => \A q \in Of(d)' : Harmless(q)'
      BY DEF BInv, Of, Harmless
    <2> QED
      BY <2>1, <2>2, <2>3 DEF BInv
  <1> QED
    BY <1>1, <1>2, <1>3

-----------------------------------------------------------------------------
(* A step of browsers and server together: both invariants hold after it,  *)
(* and the server has taken a step of Accounts or none.                    *)
LEMMA BrowsersStep ==
  ASSUME IInv, BInv, [BrowsersNext]_allVars
  PROVE  IInv' /\ BInv' /\ [Next]_vars
  <1> DEFINE Promised == IInv' /\ BInv' /\ [Next]_vars
  <1>1. ASSUME [Next]_vars PROVE IInv' /\ TypeOK'
    BY <1>1, NextIInv DEF IInv
  <1>2. ASSUME UNCHANGED vars, BInv' PROVE Promised
    BY <1>1, <1>2
  <1>3. ASSUME NEW r \in Requests, NEW b \in Browsers, NEW w \in Endpoints,
               Send(r, b, w)
        PROVE  Promised
    <2>1. UNCHANGED vars
      BY <1>3 DEF Send, vars
    <2> QED
      BY <2>1, <1>2, <1>3, BrowserStep
  <1>4. ASSUME NEW r \in Requests, Receive(r) \/ Break(r) PROVE Promised
    <2>1. UNCHANGED vars
      BY <1>4 DEF Receive, Break, vars
    <2> QED
      BY <2>1, <1>2, <1>4, BrowserStep
  <1>5. ASSUME NEW b \in Browsers, Lapse(b) PROVE Promised
    <2>1. UNCHANGED vars
      BY <1>5 DEF Lapse, vars
    <2> QED
      BY <2>1, <1>2, <1>5, BrowserStep
  <1>6. ASSUME NEW r \in Requests, Arrive(r) PROVE Promised
    <2>1. Begin(r)
      BY <1>6, ArriveBegins
    <2>2. [Next]_vars
      BY <2>1 DEF Next
    <2> QED
      BY <1>1, <1>6, <2>2, ArriveStep
  <1>7. ASSUME NEW r \in Requests, Resume(r) \/ Fail(r), Handling PROVE Promised
    <2>1. [Next]_vars
      BY <1>7 DEF Next, Accident
    <2>2. /\ tokens \subseteq tokens' /\ h[r] # Idle /\ Signing(r)
          /\ \A q \in Requests : q # r => h'[q] = h[q]
      BY <1>7, AdvanceStep
    <2>3. \A q \in Requests : h[q] = Idle => h'[q] = Idle
      BY <2>2
    <2>4. \A q \in Requests : h[q] # Idle => Signing(q)
      BY <2>2 DEF Signing
    <2> QED
      BY <1>1, <1>7, <2>1, <2>2, <2>3, <2>4, HandlingStep
  <1>8. ASSUME NEW t \in Token, Deliver(t) \/ Lose(t), Handling PROVE Promised
    <2>1. [Next]_vars
      BY <1>8 DEF Next, Accident
    <2>2. tokens \subseteq tokens' /\ h' = h
      BY <1>8 DEF Deliver, Lose
    <2>3. \A q \in Requests : h[q] # Idle => Signing(q)
      BY <2>2 DEF Signing
    <2> QED
      BY <1>1, <1>8, <2>1, <2>2, <2>3, HandlingStep
  <1>9. ASSUME Crash, Handling PROVE Promised
    <2>1. [Next]_vars
      BY <1>9 DEF Next, Accident
    <2>2. tokens' = tokens /\ answer' = NoAnswer /\ \A q \in Requests : h'[q] = Idle
      BY <1>9 DEF Crash
    <2>3. \A q \in Requests : Signing(q)
      BY <2>2 DEF Signing, NoAnswer
    <2> QED
      BY <1>1, <1>9, <2>1, <2>2, <2>3, HandlingStep
  <1>10. ASSUME UNCHANGED allVars PROVE Promised
    <2>1. UNCHANGED vars /\ UNCHANGED <<tokens, h, jar, trip, out>>
      BY <1>10 DEF allVars, vars
    <2>2. BInv'
      BY <2>1 DEF BInv, BrowsersTypeOK, Held, Clears, LogoutHolds, Of, Harmless
    <2> QED
      BY <2>1, <2>2, <1>2
  <1> HIDE DEF Promised
  <1>11. ASSUME Accident, Handling PROVE Promised
    BY <1>7, <1>8, <1>9, <1>11 DEF Accident
  <1>12. ASSUME NEW r \in Requests, Arrive(r) \/ Continue(r) \/ Receive(r) \/ Break(r)
         PROVE  Promised
    BY <1>4, <1>6, <1>7, <1>12 DEF Continue
  <1>13. Promised
    BY <1>3, <1>5, <1>10, <1>11, <1>12 DEF BrowsersNext
  <1> QED
    BY <1>13 DEF Promised

(* Along every behaviour of browsers and server.                           *)
LEMMA BrowsersInvariance == BrowsersSpec => [](IInv /\ BInv)
  <1>1. BrowsersInit => IInv /\ BInv
    BY InitIInv, InitBInv DEF BrowsersInit
  <1>2. IInv /\ BInv /\ [BrowsersNext]_allVars => (IInv /\ BInv)'
    BY BrowsersStep
  <1> QED
    BY <1>1, <1>2, PTL DEF BrowsersSpec

(* Browsers that carry cookies to the server, in any number and with any   *)
(* requests overlapping, only ever make it do what Accounts allows: every  *)
(* safety theorem about Accounts holds of the two together.                *)
THEOREM Implements == BrowsersSpec => Spec
  <1>1. BrowsersInit => Init
    BY DEF BrowsersInit
  <1>2. IInv /\ BInv /\ [BrowsersNext]_allVars => [Next]_vars
    BY BrowsersStep
  <1> QED
    BY <1>1, <1>2, BrowsersInvariance, PTL DEF BrowsersSpec, Spec

(* What the service alone promises it promises behind browsers: accounts   *)
(* unique and confirmed by mail, sessions only at proven addresses, the    *)
(* life of an account, changes of a password, and silence about accounts   *)
(* that are gone.                                                           *)
THEOREM BehindBrowsers ==
  BrowsersSpec => /\ [](UniqueAccounts /\ ConfirmedByMail /\ SessionsProven)
                  /\ LifecycleSpec
                  /\ ColumnsIndependent
                  /\ PasswordChangeAuthorized
                  /\ QuietAfterRemoval
                  /\ [][NothingUndone]_vars
  BY Implements, Uniqueness, Confirmation, SessionTokens, FollowsLifecycle,
     ColumnsKept, PasswordsAuthorized, QuietOnceRemoved, ForwardOnly, PTL

(* Jars, requests and answers only ever carry refresh tokens that the      *)
(* server signed.                                                          *)
THEOREM CookiesSigned == BrowsersSpec => []BrowsersTypeOK
  <1>1. IInv /\ BInv => BrowsersTypeOK
    BY DEF BInv
  <1> QED
    BY <1>1, BrowsersInvariance, PTL

(* A browser that logged out with nothing else under way has no refresh    *)
(* cookie until it enters again.                                           *)
THEOREM LoggedOut == BrowsersSpec => []LogoutHolds
  <1>1. IInv /\ BInv => LogoutHolds
    BY DEF BInv
  <1> QED
    BY <1>1, BrowsersInvariance, PTL
=============================================================================
