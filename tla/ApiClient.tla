------------------------------ MODULE ApiClient ------------------------------
(***************************************************************************)
(* ApiService: the authenticated client of the remote model service.       *)
(*                                                                         *)
(* Calls share two cache entries, access_token and refresh_token, which    *)
(* expire on their own and are written one after the other.  A token is    *)
(* the number of the grant (an answer to POST /token or POST /refresh) it  *)
(* came with.  A call yields at every await: a cache read, a cache write,  *)
(* an HTTP exchange.  The remote service is external: it may refuse any    *)
(* refresh, stop honouring an access token at any time and fail any        *)
(* exchange.                                                               *)
(***************************************************************************)
EXTENDS Naturals

CONSTANTS Calls,      \* calls of get() and post() that may overlap
          MaxGrants,  \* bound: grants the remote issues
          NoToken,    \* an empty cache entry, and a call without a token
          Faults      \* which of "exchange", "revoke", "expire" may happen

ASSUME GrantsAssumption == MaxGrants \in Nat
ASSUME NoTokenAssumption == NoToken \notin 1..MaxGrants
ASSUME FaultsAssumption == Faults \subseteq {"exchange", "revoke", "expire"}

Grants == 1..MaxGrants
Kinds  == {"access_token", "refresh_token"}

VARIABLES cache,    \* cache[k]: the cached token of kind k
          honoured, \* the grants whose access token is still good
          granted,  \* the number of grants issued
          call      \* call[c]: the state of call c

vars == <<cache, honoured, granted, call>>

(* How a call ends: answered, turned away by the remote, or by any other   *)
(* error.                                                                  *)
Ends == {"ok", "turnedAway", "failed"}

(* The await at which a call is suspended, or its end.                     *)
Pcs == {"idle", "readAccess", "readRefresh", "refresh", "login",
        "writeAccess", "writeRefresh", "request"} \cup Ends

(* token: the one in hand.  rejected: the one the first request was turned *)
(* away with.  retry: the call is past its first request.                  *)
New == [pc |-> "idle", token |-> NoToken, rejected |-> NoToken, retry |-> FALSE]

Goto(c, pc) == call' = [call EXCEPT ![c].pc = pc]

(* A call that ends holds no token any more.                               *)
End(c, pc) ==
  call' = [call EXCEPT ![c] = [New EXCEPT !.pc = pc, !.retry = call[c].retry]]

GotoWith(c, pc, g) == call' = [call EXCEPT ![c].pc = pc, ![c].token = g]

-----------------------------------------------------------------------------
(* request(): getAccessToken() first.                                      *)
Begin(c) ==
  /\ call[c].pc = "idle"
  /\ Goto(c, "readAccess")
  /\ UNCHANGED <<cache, honoured, granted>>

(* getAccessToken: a cached token is used as it is.                        *)
ReadAccess(c) ==
  /\ call[c].pc = "readAccess"
  /\ IF cache["access_token"] # NoToken
     THEN GotoWith(c, "request", cache["access_token"])
     ELSE Goto(c, "readRefresh")
  /\ UNCHANGED <<cache, honoured, granted>>

(* Mutant of ReadRefresh: a call without a refresh token waits for another *)
(* call to bring one.                                                      *)
ReadRefreshWaiting(c) ==
  /\ call[c].pc = "readRefresh"
  /\ cache["refresh_token"] # NoToken
  /\ GotoWith(c, "refresh", cache["refresh_token"])
  /\ UNCHANGED <<cache, honoured, granted>>

(* refreshAccessToken: without a refresh token, log in.                    *)
ReadRefresh(c) ==
  /\ call[c].pc = "readRefresh"
  /\ IF cache["refresh_token"] # NoToken
     THEN GotoWith(c, "refresh", cache["refresh_token"])
     ELSE Goto(c, "login")
  /\ UNCHANGED <<cache, honoured, granted>>

(* The remote issues a new pair of tokens to call c.                       *)
Grant(c) ==
  /\ granted < MaxGrants
  /\ granted' = granted + 1
  /\ honoured' = honoured \cup {granted + 1}
  /\ GotoWith(c, "writeAccess", granted + 1)
  /\ UNCHANGED cache

(* POST /refresh: the remote grants or refuses. Whatever goes wrong, log   *)
(* in.                                                                     *)
Refresh(c) ==
  /\ call[c].pc = "refresh"
  /\ \/ Grant(c)
     \/ GotoWith(c, "login", NoToken) /\ UNCHANGED <<cache, honoured, granted>>

(* Mutant of LogIn: a failed login is logged, and the request sent anyway. *)
LogInSwallowed(c) ==
  /\ call[c].pc = "login"
  /\ \/ Grant(c)
     \/ Goto(c, "request") /\ UNCHANGED <<cache, honoured, granted>>

(* POST /token. A failure is an UnauthorizedException, whose response has  *)
(* no status: request() does not retry it.                                 *)
LogIn(c) ==
  /\ call[c].pc = "login"
  /\ \/ Grant(c)
     \/ /\ "exchange" \in Faults \/ granted = MaxGrants
        /\ End(c, "failed")
        /\ UNCHANGED <<cache, honoured, granted>>

(* The two writes that follow a grant, each awaited.                       *)
WriteAccess(c) ==
  /\ call[c].pc = "writeAccess"
  /\ cache' = [cache EXCEPT !["access_token"] = call[c].token]
  /\ Goto(c, "writeRefresh")
  /\ UNCHANGED <<honoured, granted>>

WriteRefresh(c) ==
  /\ call[c].pc = "writeRefresh"
  /\ cache' = [cache EXCEPT !["refresh_token"] = call[c].token]
  /\ Goto(c, "request")
  /\ UNCHANGED <<honoured, granted>>

(* The answer to the request itself: success, 401 or 307 for a token that  *)
(* is not honoured (the first time: refresh and send again), or another    *)
(* error, which is rethrown.                                               *)
Rejected(c) ==
  call' = [call EXCEPT ![c].pc = "readRefresh", ![c].retry = TRUE,
                       ![c].rejected = call[c].token]

(* Mutant of TurnAway: the retry takes the token from the cache again.     *)
TurnAwayToCache(c) ==
  IF call[c].retry
  THEN End(c, "turnedAway")
  ELSE call' = [call EXCEPT ![c].pc = "readAccess", ![c].retry = TRUE,
                            ![c].rejected = call[c].token]

(* Mutant of TurnAway: every rejection is answered by another retry.       *)
TurnAwayForEver(c) == Rejected(c)

(* Mutant of TurnAway: a rejection is rethrown like any other error.       *)
TurnAwayAtOnce(c) == End(c, "turnedAway")

TurnAway(c) == IF call[c].retry THEN End(c, "turnedAway") ELSE Rejected(c)

Request(c) ==
  /\ call[c].pc = "request"
  /\ \/ call[c].token \in honoured /\ End(c, "ok")
     \/ /\ \/ call[c].token \notin honoured
           \/ "exchange" \in Faults
        /\ TurnAway(c)
     \/ "exchange" \in Faults /\ End(c, "failed")
  /\ UNCHANGED <<cache, honoured, granted>>

(* The caller has its answer and may call again.                           *)
Return(c) ==
  /\ call[c].pc \in Ends
  /\ call' = [call EXCEPT ![c] = New]
  /\ UNCHANGED <<cache, honoured, granted>>

-----------------------------------------------------------------------------
(* The environment: a cache entry reaches its TTL or is evicted; the       *)
(* remote stops honouring a token.                                         *)
Expire(k) ==
  /\ "expire" \in Faults
  /\ cache[k] # NoToken
  /\ cache' = [cache EXCEPT ![k] = NoToken]
  /\ UNCHANGED <<honoured, granted, call>>

Revoke(g) ==
  /\ "revoke" \in Faults
  /\ g \in honoured
  /\ honoured' = honoured \ {g}
  /\ UNCHANGED <<cache, granted, call>>

Init ==
  /\ cache = [k \in Kinds |-> NoToken]
  /\ honoured = {}
  /\ granted = 0
  /\ call = [c \in Calls |-> New]

(* What an awaiting call does next: its own steps and the answers to it.   *)
Proceed(c) ==
  \/ ReadAccess(c)
  \/ ReadRefresh(c)
  \/ Refresh(c)
  \/ LogIn(c)
  \/ WriteAccess(c)
  \/ WriteRefresh(c)
  \/ Request(c)

Next ==
  \/ \E c \in Calls : Begin(c) \/ Proceed(c) \/ Return(c)
  \/ \E k \in Kinds : Expire(k)
  \/ \E g \in Grants : Revoke(g)

Spec == Init /\ [][Next]_vars

(* Continuations run, and the remote answers or breaks every exchange (no  *)
(* timeout is set on the HTTP client, so a silent remote stalls the call). *)
FairSpec == Spec /\ \A c \in Calls : WF_vars(Proceed(c))

-----------------------------------------------------------------------------
Issued == 1..granted

(* A call that is about to present or to cache a token has one.            *)
Equipped(x) ==
  x.pc \in {"refresh", "writeAccess", "writeRefresh", "request"}
    => x.token # NoToken

Records == [pc : Pcs, token : Issued \cup {NoToken},
            rejected : Issued \cup {NoToken}, retry : BOOLEAN]

(* Every variable keeps its type; whatever is cached, in hand or honoured  *)
(* was issued by the remote, and nothing is sent or cached without a token.*)
TypeOK ==
  /\ granted \in 0..MaxGrants
  /\ cache \in [Kinds -> Issued \cup {NoToken}]
  /\ honoured \subseteq Issued
  /\ call \in [Calls -> Records]
  /\ \A c \in Calls : Equipped(call[c])

(* A request is never sent again with the token it was turned away with,   *)
(* nor with an older one that other calls left in the cache: the retry     *)
(* carries a grant issued after the rejected token's.                      *)
RetryIsFresher ==
  \A c \in Calls : call[c].retry /\ call[c].pc = "request" =>
    call[c].token > call[c].rejected

(* The inductive strengthening: a call past its first request remembers    *)
(* what it was turned away with, and holds a newer token from the grant on.*)
CallOK(x) ==
  /\ Equipped(x)
  /\ x.pc \in {"idle", "readAccess"} => ~x.retry
  /\ x.retry /\ x.pc \notin Ends => x.rejected # NoToken
  /\ x.retry /\ x.pc \in {"writeAccess", "writeRefresh", "request"}
       => x.token > x.rejected

IInv == TypeOK /\ \A c \in Calls : CallOK(call[c])

ForgiveStale ==
  \A c \in Calls :
    call[c].pc # "turnedAway" /\ call'[c].pc = "turnedAway"
      => call[c].retry /\ call[c].token > call[c].rejected

(* A cached token that went stale costs a call a second request, never its *)
(* success: a call ends turned away only if a token issued for its own     *)
(* retry is refused too.                                                   *)
StaleTokenForgiven == [][ForgiveStale]_vars

(***************************************************************************)
(* The client implements ApiCall.                                          *)
(***************************************************************************)
Phase(pc) ==
  CASE pc \in {"idle", "ok"} -> pc
    [] pc \in {"turnedAway", "failed"} -> "failed"
    [] pc = "request" -> "sent"
    [] OTHER -> "preparing"

Promise == INSTANCE ApiCall WITH
  phase <- [c \in Calls |-> Phase(call[c].pc)],
  first <- [c \in Calls |-> call[c].retry]

(* However calls interleave on the cache, each of them sends its request   *)
(* at most twice, again only after a rejection, and ends once.             *)
PromiseSpec == Promise!Spec

(* Every call ends, whatever the remote revokes or breaks meanwhile, as    *)
(* long as it answers or breaks every exchange (FairSpec): one that stays  *)
(* silent holds its call for ever, since no timeout is set.                *)
Completed ==
  \A c \in Calls : call[c].pc = "readAccess" ~> call[c].pc \in Ends
=============================================================================
