------------------------------ MODULE Sessions ------------------------------
(***************************************************************************)
(* Accounts and the browsers in front of it: the refresh cookie that       *)
(* AuthController sets and clears.                                         *)
(*                                                                         *)
(* A browser attaches the cookie it holds when it sends a request, and     *)
(* obeys an answer when it receives it.  In between the request travels,   *)
(* is handled (a handler of Accounts) and its answer travels back, so that *)
(* several requests of one browser overtake each other anywhere.           *)
(***************************************************************************)
EXTENDS Accounts

CONSTANTS Browsers,
          NoCookie,  \* an empty cookie jar, and the cookie cleared
          Keep,      \* an answer that leaves the cookie alone
          NoTrip     \* no request under way

RefreshTokens == [kind : {"refresh"}, id : UserIds]

ASSUME CookieAssumption ==
  /\ NoCookie # Keep
  /\ {NoCookie, Keep} \cap [kind : TokenKinds, id : UserIds] = {}

(* What a request is: GET /auth/refresh-access, POST /auth/logout, or any  *)
(* other, which reads no cookie.                                           *)
Endpoints == {"refresh", "logout", "enter"}

(* A request under way: sent with a cookie, held by its handler, or        *)
(* answered with a status and what it does to the cookie.                  *)
Trips == [browser : Browsers, what : Endpoints, at : {"sent", "held", "back"},
          cookie : RefreshTokens \cup {NoCookie},
          status : Statuses \cup {NoAnswer},
          setCookie : RefreshTokens \cup {NoCookie, Keep}]
ASSUME NoTripAssumption == NoTrip \notin Trips

VARIABLES jar,  \* jar[b]: the refresh cookie browser b holds
          trip, \* trip[r]: the request that occupies r, or NoTrip
          out   \* out[b]: b has logged out, with nothing else under way,
                \* and has not tried to enter since (history)

allVars == <<vars, jar, trip, out>>

Of(b) == {r \in Requests : trip[r] # NoTrip /\ trip[r].browser = b}
At(s) == {r \in Requests : trip[r] # NoTrip /\ trip[r].at = s}

-----------------------------------------------------------------------------
(* A browser sends a request.                                              *)
Send(r, b, w) ==
  /\ trip[r] = NoTrip
  /\ trip' = [trip EXCEPT ![r] =
       [browser |-> b, what |-> w, at |-> "sent", cookie |-> jar[b],
        status |-> NoAnswer, setCookie |-> Keep]]
  /\ out' = IF w = "enter" THEN [out EXCEPT ![b] = FALSE] ELSE out
  /\ UNCHANGED <<vars, jar>>

(* Mutant of SetCookie: the cookie gets the access token.                  *)
SetAccessCookie(r) ==
  IF h[r].pc = "mint" THEN [kind |-> "access", id |-> h[r].id]
  ELSE IF trip[r].what = "logout" THEN NoCookie ELSE Keep

(* Mutant of SetCookie: the cookie is cleared under another path, which    *)
(* clears nothing (as the two handlers of UsersController do it).          *)
ClearElsewhere(r) ==
  IF h[r].pc = "mint" THEN [kind |-> "refresh", id |-> h[r].id] ELSE Keep

(* What answer 200 of handler r does to the cookie: saveRefreshCookie      *)
(* wherever tokens are signed, clearCookie for a logout.  A removal of the *)
(* account clears a cookie of another path and no name: it stays.          *)
SetCookie(r) ==
  IF h[r].pc = "mint" THEN [kind |-> "refresh", id |-> h[r].id]
  ELSE IF trip[r].what = "logout" THEN NoCookie ELSE Keep

(* Request r after a step of its handler: held, or on its way back.        *)
Handled(r) ==
  IF h'[r] # Idle
  THEN [trip[r] EXCEPT !.at = "held"]
  ELSE [trip[r] EXCEPT !.at = "back", !.status = answer',
                       !.setCookie = IF answer' = 200 THEN SetCookie(r) ELSE Keep]

(* refreshTokenFromReq: a request without the cookie is refused.           *)
RefreshCookie(r) ==
  IF trip[r].cookie = NoCookie
  THEN /\ h[r] = Idle
       /\ Answer(r, 401)
       /\ UNCHANGED <<users, owner, tokens, mails>>
  ELSE RefreshAccess(r, trip[r].cookie)

LogoutCookie(r) ==
  \E i \in UserIds :
    /\ CurrentUser(i)
    /\ IF trip[r].cookie = NoCookie
       THEN /\ h[r] = Idle
            /\ Answer(r, 401)
            /\ UNCHANGED <<users, owner, tokens, mails>>
       ELSE Logout(r, i, trip[r].cookie)

(* The server gets the request; the guard or an expired token may refuse.  *)
Arrive(r) ==
  /\ r \in At("sent")
  /\ \/ trip[r].what = "refresh" /\ RefreshCookie(r)
     \/ trip[r].what = "logout" /\ LogoutCookie(r)
     \/ trip[r].what = "enter" /\ Enter(r)
     \/ Refuse(r)
  /\ trip' = [trip EXCEPT ![r] = Handled(r)]
  /\ UNCHANGED <<jar, out>>

(* A handler that ends in a step of Accounts gives its answer.             *)
Handling ==
  /\ trip' = [r \in Requests |-> IF h[r] # Idle THEN Handled(r) ELSE trip[r]]
  /\ UNCHANGED <<jar, out>>

Continue(r) == Resume(r) /\ Handling

(* The browser gets the answer and does what it says.                      *)
Receive(r) ==
  /\ r \in At("back")
  /\ LET b == trip[r].browser
     IN  /\ jar' = IF trip[r].setCookie = Keep THEN jar
                   ELSE [jar EXCEPT ![b] = trip[r].setCookie]
         /\ out' = IF trip[r].what = "logout" /\ trip[r].status = 200 /\ Of(b) = {r}
                   THEN [out EXCEPT ![b] = TRUE] ELSE out
  /\ trip' = [trip EXCEPT ![r] = NoTrip]
  /\ UNCHANGED vars

(* The connection breaks before the request arrives, or after the answer   *)
(* was given.                                                              *)
Break(r) ==
  /\ r \in At("sent") \cup At("back")
  /\ trip' = [trip EXCEPT ![r] = NoTrip]
  /\ UNCHANGED <<vars, jar, out>>

(* The cookie expires.                                                     *)
Lapse(b) ==
  /\ jar[b] # NoCookie
  /\ jar' = [jar EXCEPT ![b] = NoCookie]
  /\ UNCHANGED <<vars, trip, out>>

BrowsersInit ==
  /\ Init
  /\ jar = [b \in Browsers |-> NoCookie]
  /\ trip = [r \in Requests |-> NoTrip]
  /\ out = [b \in Browsers |-> FALSE]

BrowsersNext ==
  \/ \E r \in Requests, b \in Browsers, w \in Endpoints : Send(r, b, w)
  \/ \E r \in Requests : Arrive(r) \/ Continue(r) \/ Receive(r) \/ Break(r)
  \/ Accident /\ Handling
  \/ \E b \in Browsers : Lapse(b)

BrowsersSpec == BrowsersInit /\ [][BrowsersNext]_allVars

(* As in Accounts: pending continuations run.  Nothing is assumed of the   *)
(* network or of browsers.                                                 *)
FairBrowsersSpec ==
  BrowsersSpec /\ \A r \in Requests : WF_allVars(Continue(r))

-----------------------------------------------------------------------------
(* The variables keep their types, and wherever a cookie is, in a jar, a   *)
(* request or an answer, it is a refresh token that the server has signed. *)
BrowsersTypeOK ==
  LET signed == RefreshTokens \cap tokens
  IN  /\ jar \in [Browsers -> signed \cup {NoCookie}]
      /\ trip \in [Requests -> Trips \cup {NoTrip}]
      /\ \A r \in Requests : trip[r] # NoTrip =>
           /\ trip[r].cookie \in signed \cup {NoCookie}
           /\ trip[r].setCookie \in signed \cup {NoCookie, Keep}
      /\ out \in [Browsers -> BOOLEAN]

(* A browser that logged out with nothing else under way holds no refresh  *)
(* cookie until it signs in, confirms an address or changes a password:    *)
(* only a request that overlapped the logout can bring the cookie back.    *)
LogoutHolds == \A b \in Browsers : out[b] => jar[b] = NoCookie
=============================================================================
