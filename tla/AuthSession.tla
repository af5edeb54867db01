---------------------------- MODULE AuthSession ----------------------------
(***************************************************************************)
(* The session of a browser (shared/api/client.ts and                      *)
(* shared/lib/authSessionStorage.ts).  Each tab keeps an access token in   *)
(* memory; the refresh token is a cookie of all tabs, and the server       *)
(* replaces it at each refresh.  A request that is answered with 401 asks  *)
(* for a refresh, which the requests of the tab share and the tabs do one  *)
(* after the other, and is then sent once more.  A login is numbered; so   *)
(* are the refresh tokens of a login.                                      *)
(***************************************************************************)
EXTENDS Integers, Sequences, FiniteSets

CONSTANTS
  Tabs,
  Requests,
  MaxLogins,     (* Bounds the logins.                                       *)
  Rounds,        (* Refresh tokens of a login are numbered modulo this.      *)
  MaxSends,      (* Bounds the requests.                                     *)
  MaxOutages,    (* Bounds the refreshes that neither succeed nor are refused. *)
  WebLocks       (* Whether the browser has navigator.locks.                 *)

ASSUME AuthSessionAssumption ==
  /\ MaxLogins \in Nat \ {0}
  /\ Rounds \in Nat \ {0, 1}
  /\ MaxSends \in Nat
  /\ MaxOutages \in Nat
  /\ WebLocks \in BOOLEAN

VARIABLES
  token,      (* accessToken of a tab: the login it belongs to (0: none) and *)
              (* whether it has not run out.                                 *)
  notified,   (* hasNotifiedSessionExpired of a tab.                         *)
  signedOut,  (* hasSignedOutByUser of a tab.                                *)
  leaving,    (* A tab that awaits logout().                                 *)
  request,    (* The requests in progress, see AuthTypeOK; overtaken is a    *)
              (* history: there was a login since the request was made.      *)
  refresh,    (* refreshPromise of a tab: what became of it so far.          *)
  lockQueue,  (* The tabs in line for the refresh lock; the first holds it.  *)
  cookie,     (* The refresh token of the browser: its login and its number. *)
  newest,     (* Server: the number of the refresh token a login may use.    *)
  ended,      (* Server: the logins that were signed out or revoked.         *)
  lost,       (* The logins whose newest refresh token never arrived.        *)
  logins,     (* How many logins there were.                                 *)
  sends,      (* How many requests were sent.                                *)
  outages     (* How many refreshes failed for a while.                      *)

authVars == <<token, notified, signedOut, leaving, request, refresh, lockQueue,
              cookie, newest, ended, lost, logins, sends, outages>>

serverVars == <<newest, ended, lost, logins, sends, outages>>
tabVars == <<token, notified, signedOut, leaving>>

Logins == 1..MaxLogins
RefreshNumbers == 0..(Rounds - 1)
NoToken == [login |-> 0, fresh |-> FALSE]
Idle == [stage |-> "idle", tab |-> CHOOSE t \in Tabs : TRUE, had |-> FALSE, sent |-> NoToken, overtaken |-> FALSE]
NoCookie == [login |-> 0, number |-> 0]
NoRefresh == [stage |-> "none", login |-> 0, number |-> 0]

AuthTypeOK ==
  /\ token \in [Tabs -> [login : 0..MaxLogins, fresh : BOOLEAN]]
  /\ notified \in [Tabs -> BOOLEAN]
  /\ signedOut \in [Tabs -> BOOLEAN]
  /\ leaving \in [Tabs -> BOOLEAN]
  /\ \A r \in Requests :
       /\ request[r].stage \in {"idle", "sent", "waits", "again"}
       /\ request[r].tab \in Tabs
       /\ request[r].had \in BOOLEAN /\ request[r].overtaken \in BOOLEAN
       /\ request[r].sent \in [login : 0..MaxLogins, fresh : BOOLEAN]
  /\ \A t \in Tabs :
       /\ refresh[t].stage \in {"none", "queued", "sent", "refreshed", "rejected", "unavailable"}
       /\ refresh[t].login \in 0..MaxLogins
       /\ refresh[t].number \in RefreshNumbers
  /\ lockQueue \in Seq(Tabs)
  /\ \A t \in Tabs : Cardinality({n \in DOMAIN lockQueue : lockQueue[n] = t}) =
       (IF WebLocks /\ refresh[t].stage # "none" THEN 1 ELSE 0)
  /\ cookie \in [login : 0..MaxLogins, number : RefreshNumbers]
  /\ newest \in [Logins -> RefreshNumbers]
  /\ ended \subseteq Logins
  /\ lost \subseteq Logins
  /\ logins \in 0..MaxLogins
  /\ sends \in 0..MaxSends
  /\ outages \in 0..MaxOutages

AuthInit ==
  /\ token = [t \in Tabs |-> NoToken]
  /\ notified = [t \in Tabs |-> FALSE]
  /\ signedOut = [t \in Tabs |-> FALSE]
  /\ leaving = [t \in Tabs |-> FALSE]
  /\ request = [r \in Requests |-> Idle]
  /\ refresh = [t \in Tabs |-> NoRefresh]
  /\ lockQueue = <<>>
  /\ cookie = NoCookie
  /\ newest = [l \in Logins |-> 0]
  /\ ended = {}
  /\ lost = {}
  /\ logins = 0
  /\ sends = 0
  /\ outages = 0

(* The login can no longer be refreshed from this browser.                   *)
Dead(l) == l = 0 \/ l \in ended \union lost

(* saveAccessToken: the next expiry is told anew, and the mark of signing    *)
(* out is gone, whether the token comes from a login or from a refresh.      *)
SaveAccessToken(t, l) ==
  /\ token' = [token EXCEPT ![t] = [login |-> l, fresh |-> TRUE]]
  /\ notified' = [notified EXCEPT ![t] = FALSE]
  /\ signedOut' = [signedOut EXCEPT ![t] = FALSE]

InProgress(r) == request[r].stage \in {"sent", "waits", "again"}

-----------------------------------------------------------------------------
(* The user, and the server at its own pace.                                 *)

Login(t) ==
  /\ token[t].login = 0
  /\ ~leaving[t]
  /\ logins < MaxLogins
  /\ logins' = logins + 1
  /\ cookie' = [login |-> logins + 1, number |-> 0]
  /\ SaveAccessToken(t, logins + 1)
  /\ request' = [r \in Requests |-> IF InProgress(r) THEN [request[r] EXCEPT !.overtaken = TRUE] ELSE request[r]]
  /\ UNCHANGED <<leaving, refresh, lockQueue, newest, ended, lost, sends, outages>>

(* logout() reaches the server, which takes back the cookie, or fails.       *)
AskLogout(t) ==
  /\ token[t].login # 0
  /\ ~leaving[t]
  /\ leaving' = [leaving EXCEPT ![t] = TRUE]
  /\ \/ /\ ended' = ended \union ({cookie.login} \ {0})
        /\ cookie' = NoCookie
     \/ UNCHANGED <<ended, cookie>>
  /\ UNCHANGED <<token, notified, signedOut, request, refresh, lockQueue, newest, lost, logins, sends, outages>>

(* The rest of signOut: clearAuth and, as the user chose to leave, the mark. *)
SignOut(t) ==
  /\ leaving[t]
  /\ leaving' = [leaving EXCEPT ![t] = FALSE]
  /\ token' = [token EXCEPT ![t] = NoToken]
  /\ signedOut' = [signedOut EXCEPT ![t] = TRUE]
  /\ UNCHANGED <<notified, request, refresh, lockQueue, cookie>> /\ UNCHANGED serverVars

(* The notice of the expired session: log in again, which clears the tab.    *)
LogInAgain(t) ==
  /\ notified[t]
  /\ token' = [token EXCEPT ![t] = NoToken]
  /\ UNCHANGED <<notified, signedOut, leaving, request, refresh, lockQueue, cookie>> /\ UNCHANGED serverVars

AccessTokenRunsOut(t) ==
  /\ token[t].fresh
  /\ token' = [token EXCEPT ![t].fresh = FALSE]
  /\ UNCHANGED <<notified, signedOut, leaving, request, refresh, lockQueue, cookie>> /\ UNCHANGED serverVars

Revoke(l) ==
  /\ l <= logins
  /\ ended' = ended \union {l}
  /\ UNCHANGED tabVars
  /\ UNCHANGED <<request, refresh, lockQueue, cookie, newest, lost, logins, sends, outages>>

-----------------------------------------------------------------------------
(* A request: apiFetch.                                                      *)

Send(r, t) ==
  /\ ~InProgress(r)
  /\ ~signedOut[t]
  /\ sends < MaxSends
  /\ sends' = sends + 1
  /\ request' = [request EXCEPT ![r] = [stage |-> "sent", tab |-> t, had |-> token[t].login # 0,
                                        sent |-> token[t], overtaken |-> FALSE]]
  /\ UNCHANGED tabVars /\ UNCHANGED <<refresh, lockQueue, cookie>> /\ UNCHANGED <<newest, ended, lost, logins, outages>>

(* The server accepts a token until it runs out; of a login that has ended   *)
(* it may already refuse it.                                                 *)
Accepted(r) == request[r].sent.fresh
TokenRefused(r) == ~request[r].sent.fresh \/ request[r].sent.login \in ended

(* The call to apiFetch is over.                                             *)
Ends(r) == request' = [request EXCEPT ![r] = Idle]

Succeeds(r) ==
  /\ request[r].stage \in {"sent", "again"}
  /\ Accepted(r)
  /\ Ends(r)
  /\ UNCHANGED tabVars /\ UNCHANGED <<refresh, lockQueue, cookie>> /\ UNCHANGED serverVars

(* refreshPromise is null.                                                   *)
NoRefreshYet(t) == refresh[t].stage = "none"

(* tryRefreshTokens: join the refresh of the tab, or start one.              *)
AskRefresh(r) ==
  LET t == request[r].tab IN
  /\ request[r].stage = "sent"
  /\ TokenRefused(r)
  /\ request' = [request EXCEPT ![r].stage = "waits", ![r].sent = NoToken]
  /\ IF NoRefreshYet(t)
     THEN /\ refresh' = [refresh EXCEPT ![t] = [NoRefresh EXCEPT !.stage = "queued"]]
          /\ lockQueue' = IF WebLocks THEN Append(lockQueue, t) ELSE lockQueue
     ELSE UNCHANGED <<refresh, lockQueue>>
  /\ UNCHANGED tabVars /\ UNCHANGED cookie /\ UNCHANGED serverVars

(* 401 again, with the token the refresh brought: notifySessionExpired.      *)
RefusedAgain(r) ==
  /\ request[r].stage = "again"
  /\ TokenRefused(r)
  /\ Ends(r)
  /\ notified' = [notified EXCEPT ![request[r].tab] = TRUE]
  /\ UNCHANGED <<token, signedOut, leaving, refresh, lockQueue, cookie>> /\ UNCHANGED serverVars

-----------------------------------------------------------------------------
(* A refresh: withAuthRefreshLock and tryRefreshTokens.                      *)

HoldsLock_Always(t) == TRUE  \* Mutant: refreshes of two tabs at once.

(* A browser without Web Locks refreshes without a lock (:109).              *)
HoldsLock(t) == WebLocks => Head(lockQueue) = t

(* The lock is granted and the refresh sent, with the cookie of this moment. *)
SendRefresh(t) ==
  /\ refresh[t].stage = "queued"
  /\ HoldsLock(t)
  /\ refresh' = [refresh EXCEPT ![t] = [stage |-> "sent", login |-> cookie.login, number |-> cookie.number]]
  /\ UNCHANGED tabVars /\ UNCHANGED <<request, lockQueue, cookie>> /\ UNCHANGED serverVars

Following(number) == (number + 1) % Rounds

(* The server replaces the newest refresh token and refuses any other.       *)
ServerRefreshes(t) ==
  LET l == refresh[t].login
      isNewest == l # 0 /\ l \notin ended /\ refresh[t].number = newest[l]
  IN
  /\ refresh[t].stage = "sent"
  /\ \/ /\ isNewest
        /\ newest' = [newest EXCEPT ![l] = Following(@)]
        /\ refresh' = [refresh EXCEPT ![t].stage = "refreshed", ![t].number = Following(@)]
        /\ UNCHANGED <<outages, lost>>
     \/ /\ ~isNewest
        /\ refresh' = [refresh EXCEPT ![t].stage = "rejected"]
        /\ UNCHANGED <<newest, outages, lost>>
     \/ /\ outages < MaxOutages
        /\ outages' = outages + 1
        /\ refresh' = [refresh EXCEPT ![t].stage = "unavailable"]
        /\ \/ UNCHANGED <<newest, lost>>
           \/ /\ isNewest
              /\ newest' = [newest EXCEPT ![l] = Following(@)]
              /\ lost' = lost \union {l}
  /\ UNCHANGED tabVars /\ UNCHANGED <<request, lockQueue, cookie, ended, logins, sends>>

(* The holder of the lock, the first in line, releases it.                   *)
LeavesLine == IF WebLocks THEN Tail(lockQueue) ELSE lockQueue

WaitsIn(t) == {r \in Requests : request[r].tab = t /\ request[r].stage = "waits"}

(* What a request does that waited for the refresh: it is sent once more, or *)
(* is over.                                                                  *)
AfterRefresh(r, outcome, newToken) ==
  IF outcome = "refreshed" THEN [request[r] EXCEPT !.stage = "again", !.sent = newToken] ELSE Idle

RefreshEnds(t) ==
  LET outcome == refresh[t].stage
      l == refresh[t].login
  IN
  /\ outcome \in {"refreshed", "rejected", "unavailable"}
  /\ request' = [r \in Requests |->
       IF r \in WaitsIn(t) THEN AfterRefresh(r, outcome, [login |-> l, fresh |-> TRUE]) ELSE request[r]]
  /\ refresh' = [refresh EXCEPT ![t] = NoRefresh]
  /\ lockQueue' = LeavesLine
  /\ IF outcome = "refreshed"
     THEN SaveAccessToken(t, l) /\ cookie' = [login |-> l, number |-> refresh[t].number]
     ELSE /\ notified' = [notified EXCEPT ![t] = @ \/ (outcome = "rejected" /\ \E r \in WaitsIn(t) : request[r].had)]
          /\ UNCHANGED <<token, signedOut, cookie>>
  /\ UNCHANGED leaving /\ UNCHANGED serverVars

-----------------------------------------------------------------------------

(* A request of the tab that ends in this step, and the login that it was    *)
(* refused.                                                                  *)
Ending(t) == {r \in Requests : request[r].tab = t /\ InProgress(r) /\ ~InProgress(r)'}
RefusedLogin(r) == IF request[r].stage = "again" THEN request[r].sent.login ELSE refresh[request[r].tab].login

(* A tab tells that the session expired only when the session that its       *)
(* request was refused has ended, not when a refresh failed for a while or   *)
(* another tab refreshed at the same time (withAuthRefreshLock, apiFetch);   *)
(* and only when the session that the browser has by now has ended too.  The *)
(* exception is a login while the request was under way: the late answer     *)
(* then ends the newer session as well (client.ts:181).                      *)
NoFalseExpiry ==
  [][\A t \in Tabs : ~notified[t] /\ notified'[t] =>
       \E r \in Ending(t) : Dead(RefusedLogin(r)) /\ (Dead(cookie.login) \/ request[r].overtaken)]_authVars

(* A user who signed out stays signed out in this tab until the next login   *)
(* (the comment at authSessionStorage.ts:64 says so of the mark).            *)
SignedOutStays ==
  [][\A t \in Tabs : signedOut[t] /\ ~signedOut'[t] => logins' = logins + 1]_authVars

RequestStep(r) == Succeeds(r) \/ AskRefresh(r) \/ RefusedAgain(r)
RefreshStep(t) == SendRefresh(t) \/ ServerRefreshes(t) \/ RefreshEnds(t)

AuthNext ==
  \/ \E t \in Tabs : \/ Login(t) \/ AskLogout(t) \/ SignOut(t) \/ LogInAgain(t) \/ AccessTokenRunsOut(t)
                     \/ RefreshStep(t)
  \/ \E l \in Logins : Revoke(l)
  \/ \E r \in Requests : RequestStep(r) \/ \E t \in Tabs : Send(r, t)

AuthSpec == AuthInit /\ [][AuthNext]_authVars

(* The network answers and a lock that is free is granted in turn.           *)
AuthFairness ==
  /\ \A r \in Requests : WF_authVars(RequestStep(r))
  /\ \A t \in Tabs : WF_authVars(RefreshStep(t))

AuthFairSpec == AuthSpec /\ AuthFairness

(* All requests come to an end, whatever becomes of the refresh they wait    *)
(* for, of the other tabs and of the sessions: nobody waits for a refresh    *)
(* that is not on its way.                                                   *)
RequestsEnd == (\E r \in Requests : InProgress(r)) ~> (\A r \in Requests : ~InProgress(r))
=============================================================================
