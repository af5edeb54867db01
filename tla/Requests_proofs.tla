--------------------------- MODULE Requests_proofs ---------------------------
(***************************************************************************)
(* Proofs about requests that are repeated: those of a session             *)
(* (AuthSession), and what is sent to the store in pieces, a file in parts *)
(* (MultipartUpload) and a Notion export item by item (NotionImport).      *)
(***************************************************************************)
EXTENDS AuthSession, MultipartUpload, NotionImport, FiniteSetTheorems, TLAPS

-----------------------------------------------------------------------------
(***************************************************************************)
(* AuthSession calls no session expired that lives, for any number of tabs, *)
(* requests, logins and refreshes, in a browser that has Web Locks.        *)
(*                                                                         *)
(* A 401 is final when a refresh was refused, and a refresh is refused when *)
(* its cookie is not the newest of its login.  So the proof is about the   *)
(* cookie: the lock lets one tab refresh at a time, and what that tab sends *)
(* or brings is the newest, or its login is dead.  And it is about the     *)
(* session that the browser has by then: it is the one that was refused,   *)
(* or none, unless a login overtook a request of the tab.                  *)
(***************************************************************************)

Tokens == [login : 0..MaxLogins, fresh : BOOLEAN]
Stages == {"none", "queued", "sent", "refreshed", "rejected", "unavailable"}
TabsOrNone == Tabs \union {Idle.tab}

RequestRec ==
  [stage : {"idle", "sent", "waits", "again"}, tab : TabsOrNone, had : BOOLEAN, sent : Tokens, overtaken : BOOLEAN]

\* The records the variables hold.
AuthFields ==
  /\ token \in [Tabs -> Tokens]
  /\ request \in [Requests -> RequestRec]
  /\ refresh \in [Tabs -> [stage : Stages, login : 0..MaxLogins, number : RefreshNumbers]]
  /\ lockQueue \in Seq(Tabs)
  /\ cookie \in [login : 0..MaxLogins, number : RefreshNumbers]
  /\ newest \in [Logins -> RefreshNumbers]
  /\ logins \in 0..MaxLogins

\* A tab that refreshes is in line, and past the first stage it is the first.
InLine(t) == \E n \in 1..Len(lockQueue) : lockQueue[n] = t
OneAtATime ==
  \A t \in Tabs : /\ refresh[t].stage # "none" => InLine(t)
                  /\ refresh[t].stage \notin {"none", "queued"} => Head(lockQueue) = t

\* Logins are numbered as they come.
LoginsInOrder ==
  /\ cookie.login <= logins
  /\ \A t \in Tabs : refresh[t].login <= logins
  /\ \A l \in Logins : l > logins => newest[l] = 0

\* The cookie is the newest of its login, unless it is on its way; so is what a refresh sends, and what it brings.
Newest(l, number) == Dead(l) \/ (l \in Logins /\ number = newest[l])
CookieIsNewest ==
  \/ Newest(cookie.login, cookie.number)
  \/ \E t \in Tabs : refresh[t].stage = "refreshed" /\ refresh[t].login = cookie.login
RefreshIsOfNewest ==
  \A t \in Tabs :
    /\ refresh[t].stage = "sent" => Newest(refresh[t].login, refresh[t].number)
    /\ refresh[t].stage = "refreshed" => Newest(refresh[t].login, refresh[t].number)
    /\ refresh[t].stage = "rejected" => Dead(refresh[t].login)

\* A token that a refresh brought has not run out when it is sent.
RequestsAreSent ==
  \A r \in Requests : /\ request[r].stage = "again" => request[r].sent.fresh
                      /\ request[r].stage = "sent" => request[r].tab \in Tabs

\* A refresh that is sent, and a token that it brought, are of the session that the browser has, or it has none; unless
\* a login overtook what waits for the refresh, or is sent again with the token.
Past(t) == refresh[t].stage \notin {"none", "queued"}
Waited == \A t \in Tabs : refresh[t].stage # "none" => WaitsIn(t) # {}
RefreshIsOfSession ==
  \A t \in Tabs : Past(t) => cookie.login \in {0, refresh[t].login} \/ \E r \in WaitsIn(t) : request[r].overtaken
TokenIsOfSession ==
  \A r \in Requests : request[r].stage = "again" /\ ~request[r].overtaken =>
    /\ cookie.login \in {0, request[r].sent.login}
    /\ \A t \in Tabs : Past(t) => refresh[t].login \in {0, request[r].sent.login}
OfSession == RequestsAreSent /\ Waited /\ RefreshIsOfSession /\ TokenIsOfSession

AuthInv ==
  WebLocks /\ AuthFields /\ OneAtATime /\ LoginsInOrder /\ CookieIsNewest /\ RefreshIsOfNewest /\ OfSession

LEMMA IdleLemma == Idle \in RequestRec /\ Idle.stage = "idle" /\ Idle.sent = NoToken /\ NoToken \in Tokens
<1>1. 0 \in 0..MaxLogins
  BY AuthSessionAssumption
<1> QED  BY <1>1 DEF Idle, NoToken, Tokens, TabsOrNone, RequestRec

LEMMA AuthInvInit == ASSUME WebLocks, AuthInit  PROVE AuthInv
<1>1. 0 \in RefreshNumbers /\ 0 \in 0..MaxLogins
  BY AuthSessionAssumption DEF RefreshNumbers
<1>2. AuthFields
  <2>1. Idle \in RequestRec
    BY IdleLemma
  <2>2. NoRefresh \in [stage : Stages, login : 0..MaxLogins, number : RefreshNumbers]
    BY <1>1 DEF NoRefresh, Stages
  <2>3. NoToken \in Tokens /\ NoCookie \in [login : 0..MaxLogins, number : RefreshNumbers]
    BY <1>1 DEF NoToken, Tokens, NoCookie
  <2>4. <<>> \in Seq(Tabs)
    OBVIOUS
  <2> QED  BY <1>1, <2>1, <2>2, <2>3, <2>4 DEF AuthInit, AuthFields
<1>3. /\ \A t \in Tabs : refresh[t].stage = "none" /\ refresh[t].login = 0
      /\ \A r \in Requests : request[r].stage = "idle"
      /\ cookie.login = 0
  BY DEF AuthInit, NoRefresh, Idle, NoCookie
<1>4. OneAtATime /\ LoginsInOrder
  BY <1>3 DEF AuthInit, OneAtATime, LoginsInOrder
<1>5. OfSession
  BY <1>3 DEF OfSession, RequestsAreSent, Waited, RefreshIsOfSession, TokenIsOfSession, Past
<1> QED  BY <1>2, <1>3, <1>4, <1>5 DEF AuthInv, CookieIsNewest, RefreshIsOfNewest, Newest, Dead

\* What may not be refreshed any more stays so.
LEMMA DeadStays ==
  ASSUME ended \subseteq ended', lost \subseteq lost', NEW l, Dead(l)  PROVE Dead(l)'
BY DEF Dead

\* A step of the user, of the server by itself or of a request keeps what the refreshes and the line of tabs are.
Apart ==
  /\ UNCHANGED <<refresh, lockQueue, newest>>
  /\ logins \in Nat /\ logins' \in Nat /\ logins <= logins' /\ ended \subseteq ended' /\ lost \subseteq lost'

LEMMA ApartLemma ==
  ASSUME AuthInv, Apart
  PROVE  OneAtATime' /\ RefreshIsOfNewest'
<1>1. OneAtATime'
  BY DEF AuthInv, Apart, OneAtATime, InLine
<1>2. \A l : Dead(l) => Dead(l)'
  BY DeadStays DEF Apart
<1>3. \A l, n : Newest(l, n) => Newest(l, n)'
  BY <1>2 DEF Newest, Apart, Logins
<1>4. RefreshIsOfNewest'
  BY <1>2, <1>3 DEF AuthInv, Apart, RefreshIsOfNewest
<1> QED  BY <1>1, <1>4

\* A step that leaves the cookie and the numbers of the logins alone, too.
ApartFromAll ==
  Apart /\ UNCHANGED <<cookie, logins>>

LEMMA ApartFromAllLemma ==
  ASSUME AuthInv, ApartFromAll
  PROVE  OneAtATime' /\ RefreshIsOfNewest' /\ LoginsInOrder' /\ CookieIsNewest'
<1>1. LoginsInOrder'
  BY DEF AuthInv, ApartFromAll, Apart, LoginsInOrder, Logins
<1>2. \A l : Dead(l) => Dead(l)'
  BY DeadStays DEF Apart, ApartFromAll
<1>3. \A l, n : Newest(l, n) => Newest(l, n)'
  BY <1>2 DEF Newest, Apart, ApartFromAll, Logins
<1>4. CookieIsNewest'
  BY <1>3 DEF AuthInv, ApartFromAll, Apart, CookieIsNewest
<1> QED  BY <1>1, <1>4, ApartLemma DEF ApartFromAll

\* A step that leaves the requests alone: a refresh is sent with the login of the cookie, and nothing else is.
LEMMA SameRequests ==
  ASSUME AuthInv, request' = request, cookie'.login \in {0, cookie.login},
         \A t \in Tabs : refresh'[t].stage # "none" => refresh[t].stage # "none",
         \A t \in Tabs : Past(t)' => refresh'[t].login = cookie.login \/ (Past(t) /\ refresh'[t].login = refresh[t].login)
  PROVE  OfSession'
<1>1. RequestsAreSent' /\ Waited'
  BY DEF AuthInv, OfSession, RequestsAreSent, Waited, WaitsIn
<1>2. RefreshIsOfSession'
  <2> SUFFICES ASSUME NEW t \in Tabs, Past(t)'
               PROVE  (cookie.login \in {0, refresh[t].login} \/ \E r \in WaitsIn(t) : request[r].overtaken)'
    BY DEF RefreshIsOfSession
  <2>1. CASE refresh'[t].login = cookie.login
    BY <2>1
  <2>2. CASE Past(t) /\ refresh'[t].login = refresh[t].login
    BY <2>2 DEF AuthInv, OfSession, RefreshIsOfSession, WaitsIn
  <2> QED  BY <2>1, <2>2
<1>3. TokenIsOfSession'
  BY DEF AuthInv, OfSession, TokenIsOfSession
<1> QED  BY <1>1, <1>2, <1>3 DEF OfSession

LEMMA LoginStep == ASSUME AuthInv, NEW t \in Tabs, Login(t)  PROVE AuthInv'
<1>1. /\ logins < MaxLogins /\ logins' = logins + 1 /\ cookie' = [login |-> logins + 1, number |-> 0]
      /\ token' = [token EXCEPT ![t] = [login |-> logins + 1, fresh |-> TRUE]]
      /\ request' = [r \in Requests |-> IF InProgress(r) THEN [request[r] EXCEPT !.overtaken = TRUE] ELSE request[r]]
      /\ UNCHANGED <<refresh, lockQueue, newest, ended, lost>>
  BY DEF Login, SaveAccessToken
<1>2. logins \in Nat /\ logins + 1 \in 0..MaxLogins /\ logins + 1 \in Logins /\ 0 \in RefreshNumbers
  BY <1>1, AuthSessionAssumption DEF AuthInv, AuthFields, Logins, RefreshNumbers
<1>3. Apart
  BY <1>1, <1>2 DEF Apart
<1>7. ASSUME NEW r \in Requests
      PROVE  /\ request'[r] \in RequestRec /\ request'[r].stage = request[r].stage /\ request'[r].tab = request[r].tab
             /\ request'[r].sent = request[r].sent /\ (request[r].stage \in {"waits", "again"} => request'[r].overtaken)
  <2>1. request[r] \in RequestRec
    BY DEF AuthInv, AuthFields
  <2>2. [request[r] EXCEPT !.overtaken = TRUE] \in RequestRec /\ [request[r] EXCEPT !.overtaken = TRUE].overtaken
    BY <2>1, ZenonT(40) DEF RequestRec
  <2>3. CASE InProgress(r)
    BY <1>1, <2>1, <2>2, <2>3 DEF RequestRec
  <2>4. CASE ~InProgress(r)
    BY <1>1, <2>1, <2>4 DEF InProgress
  <2> QED  BY <2>3, <2>4
<1>4. AuthFields'
  <2>1. request' \in [Requests -> RequestRec]
    BY <1>1, <1>7
  <2>2. token' \in [Tabs -> Tokens]
    BY <1>1, <1>2 DEF AuthInv, AuthFields, Tokens
  <2> QED  BY <1>1, <1>2, <2>1, <2>2 DEF AuthInv, AuthFields, Logins
<1>8. OfSession'
  <2>1. RequestsAreSent' /\ TokenIsOfSession'
    BY <1>7 DEF AuthInv, OfSession, RequestsAreSent, TokenIsOfSession
  <2>2. \A u \in Tabs : WaitsIn(u)' = WaitsIn(u) /\ \A r \in WaitsIn(u) : request'[r].overtaken
    BY <1>7 DEF WaitsIn
  <2>3. Waited' /\ RefreshIsOfSession'
    BY <1>1, <2>2 DEF AuthInv, OfSession, Waited, RefreshIsOfSession, Past
  <2> QED  BY <2>1, <2>3 DEF OfSession
<1>5. LoginsInOrder'
  <2>1. \A u \in Tabs : refresh[u].login \in 0..MaxLogins
    BY DEF AuthInv, AuthFields
  <2> QED  BY <1>1, <1>2, <2>1 DEF AuthInv, LoginsInOrder, Logins
<1>6. CookieIsNewest'
  <2>1. newest[logins + 1] = 0
    BY <1>2 DEF AuthInv, LoginsInOrder
  <2> QED  BY <1>1, <1>2, <2>1 DEF CookieIsNewest, Newest, Logins
<1> QED  BY <1>3, <1>4, <1>5, <1>6, <1>8, ApartLemma DEF AuthInv

LEMMA AskLogoutStep == ASSUME AuthInv, NEW t \in Tabs, AskLogout(t)  PROVE AuthInv'
<1>1. /\ UNCHANGED <<token, request, refresh, lockQueue, newest, lost, logins>>
      /\ ended \subseteq ended' /\ (cookie' = NoCookie \/ cookie' = cookie)
  BY DEF AskLogout
<1>2. logins \in Nat /\ 0 \in 0..MaxLogins /\ 0 \in RefreshNumbers
  BY AuthSessionAssumption DEF AuthInv, AuthFields, RefreshNumbers
<1>3. Apart
  BY <1>1, <1>2 DEF Apart
<1>4. AuthFields'
  BY <1>1, <1>2 DEF AuthInv, AuthFields, NoCookie, Logins
<1>7. OfSession'
  <2>1. cookie'.login \in {0, cookie.login}
    BY <1>1 DEF NoCookie
  <2> QED  BY <1>1, <2>1, SameRequests DEF Past
<1>5. CASE cookie' = cookie
  <2>1. ApartFromAll
    BY <1>1, <1>3, <1>5 DEF ApartFromAll
  <2> QED  BY <1>4, <1>7, <2>1, ApartFromAllLemma DEF AuthInv
<1>6. CASE cookie' = NoCookie
  <2>1. LoginsInOrder'
    BY <1>1, <1>2, <1>6 DEF AuthInv, LoginsInOrder, NoCookie, Logins
  <2>2. CookieIsNewest'
    BY <1>6 DEF CookieIsNewest, Newest, Dead, NoCookie
  <2> QED  BY <1>3, <1>4, <1>7, <2>1, <2>2, ApartLemma DEF AuthInv
<1> QED  BY <1>1, <1>5, <1>6

\* Signing out, the notice, a token that runs out, and the server that ends a login.
LEMMA OutsideLemma ==
  ASSUME AuthInv, token' \in [Tabs -> Tokens], ended \subseteq ended',
         UNCHANGED <<request, refresh, lockQueue, cookie, newest, lost, logins>>
  PROVE  AuthInv'
<1>1. logins \in Nat
  BY AuthSessionAssumption DEF AuthInv, AuthFields
<1>2. ApartFromAll
  BY <1>1 DEF ApartFromAll, Apart
<1>3. AuthFields'
  BY DEF AuthInv, AuthFields, Logins
<1>4. OfSession'
  BY SameRequests DEF Past
<1> QED  BY <1>2, <1>3, <1>4, ApartFromAllLemma DEF AuthInv

LEMMA RevokeStep == ASSUME AuthInv, NEW l \in Logins, Revoke(l)  PROVE AuthInv'
BY OutsideLemma DEF AuthInv, AuthFields, Revoke, tabVars

LEMMA TokenStep ==
  ASSUME AuthInv, NEW t \in Tabs, SignOut(t) \/ LogInAgain(t) \/ AccessTokenRunsOut(t)  PROVE AuthInv'
<1>1. token \in [Tabs -> Tokens] /\ NoToken \in Tokens /\ token[t] \in Tokens
  <2>1. 0 \in 0..MaxLogins
    BY AuthSessionAssumption
  <2> QED  BY <2>1 DEF AuthInv, AuthFields, NoToken, Tokens
<1>2. CASE token' = [token EXCEPT ![t] = NoToken]
  BY <1>1, <1>2, OutsideLemma DEF SignOut, LogInAgain, AccessTokenRunsOut, serverVars
<1>3. CASE token' = [token EXCEPT ![t].fresh = FALSE]
  <2>1. [token[t] EXCEPT !.fresh = FALSE] \in Tokens
    BY <1>1 DEF Tokens
  <2>2. token' = [token EXCEPT ![t] = [token[t] EXCEPT !.fresh = FALSE]]
    BY <1>3
  <2>3. token' \in [Tabs -> Tokens]
    BY <1>1, <2>1, <2>2
  <2> QED  BY <2>3, OutsideLemma DEF SignOut, LogInAgain, AccessTokenRunsOut, serverVars
<1> QED  BY <1>2, <1>3 DEF SignOut, LogInAgain, AccessTokenRunsOut

\* A request alone: it is sent, succeeds or is refused again.
LEMMA AuthRequestLemma ==
  ASSUME AuthInv, NEW r \in Requests,
         NEW q \in RequestRec,
         request' = [request EXCEPT ![r] = q], q.stage # "again", q.stage = "sent" => q.tab \in Tabs,
         request[r].stage # "waits",
         UNCHANGED <<token, refresh, lockQueue, cookie, newest, ended, lost, logins>>
  PROVE  AuthInv'
<1>1. logins \in Nat
  BY AuthSessionAssumption DEF AuthInv, AuthFields
<1>2. ApartFromAll
  BY <1>1 DEF ApartFromAll, Apart
<1>3. AuthFields'
  BY DEF AuthInv, AuthFields, Logins
<1>4. \A o \in Requests : request'[o] = IF o = r THEN q ELSE request[o]
  BY DEF AuthInv, AuthFields
<1>5. OfSession'
  <2>1. RequestsAreSent' /\ TokenIsOfSession'
    BY <1>4 DEF AuthInv, OfSession, RequestsAreSent, TokenIsOfSession, Past
  <2>2. \A t \in Tabs : \A o \in WaitsIn(t) : o \in WaitsIn(t)' /\ request'[o] = request[o]
    BY <1>4 DEF WaitsIn
  <2>3. Waited'
    BY <2>2 DEF AuthInv, OfSession, Waited
  <2>4. RefreshIsOfSession'
    BY <2>2 DEF AuthInv, OfSession, RefreshIsOfSession, Past
  <2> QED  BY <2>1, <2>3, <2>4 DEF OfSession
<1> QED  BY <1>2, <1>3, <1>5, ApartFromAllLemma DEF AuthInv

LEMMA SendStep == ASSUME AuthInv, NEW r \in Requests, NEW t \in Tabs, Send(r, t)  PROVE AuthInv'
<1> DEFINE q == [stage |-> "sent", tab |-> t, had |-> token[t].login # 0, sent |-> token[t],
                 overtaken |-> FALSE]
<1>1. q \in RequestRec
  BY DEF AuthInv, AuthFields, TabsOrNone, RequestRec
<1>2. request' = [request EXCEPT ![r] = q]
  BY DEF Send
<1>3. q.stage = "sent" /\ q.tab = t
  OBVIOUS
<1> HIDE DEF q
<1>4. request[r].stage # "waits"
  BY DEF Send, InProgress
<1> QED  BY <1>1, <1>2, <1>3, <1>4, AuthRequestLemma DEF Send, tabVars

LEMMA SucceedsStep == ASSUME AuthInv, NEW r \in Requests, Succeeds(r)  PROVE AuthInv'
<1>1. Idle \in RequestRec
  BY IdleLemma
<1>2. request' = [request EXCEPT ![r] = Idle] /\ Idle.stage = "idle"
  BY DEF Succeeds, Ends, Idle
<1> QED  BY <1>1, <1>2, AuthRequestLemma DEF Succeeds, tabVars, serverVars

LEMMA RefusedAgainStep == ASSUME AuthInv, NEW r \in Requests, RefusedAgain(r)  PROVE AuthInv'
<1>1. Idle \in RequestRec
  BY IdleLemma
<1>2. request' = [request EXCEPT ![r] = Idle] /\ Idle.stage = "idle"
  BY DEF RefusedAgain, Ends, Idle
<1> QED  BY <1>1, <1>2, AuthRequestLemma DEF RefusedAgain, serverVars

\* A request joins the refresh of its tab, or begins it at the end of the line.
LEMMA AskRefreshStep == ASSUME AuthInv, NEW r \in Requests, AskRefresh(r)  PROVE AuthInv'
<1> DEFINE q == [request[r] EXCEPT !.stage = "waits", !.sent = NoToken]
<1>0. PICK t : t = request[r].tab
  OBVIOUS
<1>1. request[r] \in RequestRec /\ request \in [Requests -> RequestRec]
  BY DEF AuthInv, AuthFields
<1>2. q \in RequestRec /\ q.stage = "waits"
  BY <1>1, IdleLemma DEF RequestRec
<1>3. request' = [request EXCEPT ![r] = q] /\ UNCHANGED <<token, cookie, newest, ended, lost, logins>>
  BY <1>1 DEF AskRefresh, RequestRec, tabVars, serverVars
<1>6. request[r].stage = "sent"
  BY DEF AskRefresh
<1>4. CASE UNCHANGED <<refresh, lockQueue>>
  BY <1>2, <1>3, <1>4, <1>6, AuthRequestLemma
<1>5. CASE /\ refresh[t].stage = "none" /\ lockQueue' = Append(lockQueue, t)
           /\ refresh' = [refresh EXCEPT ![t] = [NoRefresh EXCEPT !.stage = "queued"]]
  <2>1. t \in Tabs
    BY <1>0, <1>6 DEF AuthInv, OfSession, RequestsAreSent
  <2> DEFINE f == [NoRefresh EXCEPT !.stage = "queued"]
  <2>2. f \in [stage : Stages, login : 0..MaxLogins, number : RefreshNumbers] /\ f.stage = "queued" /\ f.login = 0
    <3>1. 0 \in RefreshNumbers /\ 0 \in 0..MaxLogins
      BY AuthSessionAssumption DEF RefreshNumbers
    <3> QED  BY <3>1 DEF NoRefresh, Stages
  <2> HIDE DEF f
  <2>3. refresh \in [Tabs -> [stage : Stages, login : 0..MaxLogins, number : RefreshNumbers]]
    BY DEF AuthInv, AuthFields
  <2>4. /\ refresh' \in [Tabs -> [stage : Stages, login : 0..MaxLogins, number : RefreshNumbers]]
        /\ refresh'[t] = f /\ \A u \in Tabs \ {t} : refresh'[u] = refresh[u]
    BY <1>5, <2>1, <2>2, <2>3 DEF f
  <2>5. /\ lockQueue \in Seq(Tabs) /\ lockQueue' \in Seq(Tabs) /\ Len(lockQueue') = Len(lockQueue) + 1
        /\ lockQueue'[Len(lockQueue) + 1] = t
        /\ \A n \in 1..Len(lockQueue) : lockQueue'[n] = lockQueue[n]
    BY <1>5, <2>1 DEF AuthInv, AuthFields
  <2>6. AuthFields'
    <3>1. request' \in [Requests -> RequestRec]
      BY <1>1, <1>2, <1>3
    <3> QED  BY <1>3, <2>4, <2>5, <3>1 DEF AuthInv, AuthFields, Logins, RefreshNumbers
  <2>7. OneAtATime'
    <3>1. \A u \in Tabs : InLine(u) => InLine(u)'
      BY <2>5 DEF InLine
    <3>4. \A u \in Tabs : InLine(u) => Head(lockQueue') = Head(lockQueue)
      <4>1. \A u \in Tabs : InLine(u) => Len(lockQueue) >= 1
        BY <2>5 DEF InLine
      <4>2. Len(lockQueue) >= 1 => lockQueue[1] = Head(lockQueue) /\ lockQueue'[1] = Head(lockQueue')
        BY <2>5
      <4>3. Len(lockQueue) >= 1 => lockQueue'[1] = lockQueue[1]
        BY <2>5
      <4> QED  BY <4>1, <4>2, <4>3
    <3>2. InLine(t)'
      <4>1. Len(lockQueue) \in Nat /\ Len(lockQueue) + 1 \in 1..Len(lockQueue')
        BY <2>5
      <4> QED  BY <2>5, <4>1 DEF InLine
    <3>3. \A u \in Tabs : refresh'[u].stage \notin {"none", "queued"} => u # t
      BY <2>2, <2>4
    <3>5. ASSUME NEW u \in Tabs
          PROVE  /\ refresh'[u].stage # "none" => InLine(u)'
                 /\ refresh'[u].stage \notin {"none", "queued"} => Head(lockQueue') = u
      <4>1. /\ refresh[u].stage # "none" => InLine(u)
            /\ refresh[u].stage \notin {"none", "queued"} => Head(lockQueue) = u
        BY DEF AuthInv, OneAtATime
      <4>2. CASE u = t
        BY <2>2, <2>4, <3>2, <4>2
      <4>3. CASE u # t
        BY <2>4, <3>1, <3>4, <4>1, <4>3
      <4> QED  BY <4>2, <4>3
    <3> QED  BY <3>5 DEF OneAtATime
  <2>8. LoginsInOrder'
    <3>1. /\ cookie.login <= logins /\ \A u \in Tabs : refresh[u].login <= logins
          /\ 0 <= logins /\ \A l \in Logins : l > logins => newest[l] = 0
      BY DEF AuthInv, AuthFields, LoginsInOrder
    <3>2. \A u \in Tabs : refresh'[u].login <= logins
      BY <2>2, <2>4, <3>1
    <3> QED  BY <1>3, <3>1, <3>2 DEF LoginsInOrder, Logins
  <2>9. \A l, n : (Newest(l, n) <=> Newest(l, n)') /\ (Dead(l) <=> Dead(l)')
    BY <1>3 DEF Newest, Dead, Logins
  <2>10. CookieIsNewest'
    <3>1. \A u \in Tabs : refresh[u].stage = "refreshed" => u # t
      BY <1>5
    <3> QED  BY <1>3, <2>4, <2>9, <3>1 DEF AuthInv, CookieIsNewest
  <2>11. RefreshIsOfNewest'
    BY <2>2, <2>4, <2>9 DEF AuthInv, RefreshIsOfNewest
  <2>12. OfSession'
    <3>1. \A o \in Requests : request'[o] = IF o = r THEN q ELSE request[o]
      BY <1>1, <1>3
    <3>2. q.tab = t
      BY <1>0, <1>1 DEF RequestRec
    <3>3. r \in WaitsIn(t)' /\ \A u \in Tabs : \A o \in WaitsIn(u) : o \in WaitsIn(u)' /\ request'[o] = request[o]
      BY <1>2, <1>6, <3>1, <3>2 DEF WaitsIn
    <3>4. \A u \in Tabs : Past(u)' => Past(u) /\ refresh'[u] = refresh[u]
      BY <2>2, <2>4 DEF Past
    <3>5. RequestsAreSent'
      BY <1>2, <3>1 DEF AuthInv, OfSession, RequestsAreSent
    <3>6. Waited'
      BY <2>4, <3>3 DEF AuthInv, OfSession, Waited
    <3>7. RefreshIsOfSession'
      BY <1>3, <3>3, <3>4 DEF AuthInv, OfSession, RefreshIsOfSession
    <3>8. TokenIsOfSession'
      BY <1>2, <1>3, <3>1, <3>4 DEF AuthInv, OfSession, TokenIsOfSession
    <3> QED  BY <3>5, <3>6, <3>7, <3>8 DEF OfSession
  <2> QED  BY <2>6, <2>7, <2>8, <2>10, <2>11, <2>12 DEF AuthInv
<1> QED  BY <1>0, <1>4, <1>5 DEF AskRefresh, NoRefreshYet, AuthInv

\* What a refresh may do to its own state: t is the first in line, and only t is.
RefreshRec == [stage : Stages, login : 0..MaxLogins, number : RefreshNumbers]

LEMMA OnlyFirst ==
  ASSUME AuthInv, NEW t \in Tabs, Head(lockQueue) = t
  PROVE  \A u \in Tabs : refresh[u].stage \notin {"none", "queued"} => u = t
BY DEF AuthInv, OneAtATime

\* The line stays, and t, its first, is at another stage.
LEMMA StageLemma ==
  ASSUME AuthInv, NEW t \in Tabs, Head(lockQueue) = t, refresh[t].stage # "none",
         NEW f \in RefreshRec, refresh' = [refresh EXCEPT ![t] = f], f.login <= logins, UNCHANGED lockQueue
  PROVE  /\ refresh' \in [Tabs -> RefreshRec] /\ refresh'[t] = f /\ \A u \in Tabs \ {t} : refresh'[u] = refresh[u]
         /\ OneAtATime' /\ \A u \in Tabs : refresh'[u].login <= logins
<1>1. /\ refresh \in [Tabs -> RefreshRec] /\ refresh' \in [Tabs -> RefreshRec]
      /\ refresh'[t] = f /\ \A u \in Tabs \ {t} : refresh'[u] = refresh[u]
  BY DEF AuthInv, AuthFields, RefreshRec
<1>2. OneAtATime'
  BY <1>1 DEF AuthInv, OneAtATime, InLine
<1>3. \A u \in Tabs : refresh'[u].login <= logins
  BY <1>1 DEF AuthInv, LoginsInOrder
<1> QED  BY <1>1, <1>2, <1>3

LEMMA SendRefreshStep == ASSUME AuthInv, NEW t \in Tabs, SendRefresh(t)  PROVE AuthInv'
<1> DEFINE f == [stage |-> "sent", login |-> cookie.login, number |-> cookie.number]
<1>1. /\ refresh[t].stage = "queued" /\ Head(lockQueue) = t /\ refresh' = [refresh EXCEPT ![t] = f]
      /\ UNCHANGED <<token, request, lockQueue, cookie, newest, ended, lost, logins>>
  BY DEF SendRefresh, HoldsLock, AuthInv, tabVars, serverVars
<1>2. f \in RefreshRec /\ f.login <= logins /\ f.stage = "sent" /\ f.login = cookie.login /\ f.number = cookie.number
  BY DEF AuthInv, AuthFields, RefreshRec, Stages, LoginsInOrder
<1> HIDE DEF f
<1>3. /\ refresh' \in [Tabs -> RefreshRec] /\ refresh'[t] = f /\ \A u \in Tabs \ {t} : refresh'[u] = refresh[u]
      /\ OneAtATime' /\ \A u \in Tabs : refresh'[u].login <= logins
  BY <1>1, <1>2, StageLemma
<1>4. \A u \in Tabs : refresh[u].stage \in {"none", "queued"}
  <2>1. \A u \in Tabs : refresh[u].stage \notin {"none", "queued"} => u = t
    BY <1>1, OnlyFirst
  <2> QED  BY <1>1, <2>1
<1>5. Newest(cookie.login, cookie.number)
  BY <1>4 DEF AuthInv, CookieIsNewest
<1>6. \A l, n : (Newest(l, n) <=> Newest(l, n)') /\ (Dead(l) <=> Dead(l)')
  BY <1>1 DEF Newest, Dead, Logins
<1>7. AuthFields' /\ LoginsInOrder'
  BY <1>1, <1>3 DEF AuthInv, AuthFields, LoginsInOrder, RefreshRec, Logins
<1>8. CookieIsNewest'
  BY <1>1, <1>5, <1>6 DEF CookieIsNewest
<1>9. RefreshIsOfNewest'
  BY <1>2, <1>3, <1>5, <1>6 DEF AuthInv, RefreshIsOfNewest
<1>10. OfSession'
  BY <1>1, <1>2, <1>3, SameRequests DEF Past
<1> QED  BY <1>3, <1>7, <1>8, <1>9, <1>10 DEF AuthInv

LEMMA FollowingLemma == ASSUME NEW n \in RefreshNumbers  PROVE Following(n) \in RefreshNumbers
<1>1. n + 1 \in Int /\ Rounds \in Int /\ Rounds > 0
  BY AuthSessionAssumption DEF RefreshNumbers
<1>2. (n + 1) % Rounds \in 0..(Rounds - 1)
  BY <1>1
<1> QED  BY <1>2 DEF Following, RefreshNumbers

LEMMA ServerRefreshesStep == ASSUME AuthInv, NEW t \in Tabs, ServerRefreshes(t)  PROVE AuthInv'
<1>0. PICK l, number : l = refresh[t].login /\ number = refresh[t].number
  OBVIOUS
<1> DEFINE isNewest == l # 0 /\ l \notin ended /\ number = newest[l]
<1>1. /\ refresh[t].stage = "sent" /\ refresh[t] \in RefreshRec /\ refresh \in [Tabs -> RefreshRec]
      /\ UNCHANGED <<token, request, lockQueue, cookie, ended, logins>>
      /\ l \in 0..MaxLogins /\ number \in RefreshNumbers /\ l <= logins /\ newest \in [Logins -> RefreshNumbers]
  BY <1>0 DEF ServerRefreshes, AuthInv, AuthFields, LoginsInOrder, RefreshRec, tabVars
<1>2. Head(lockQueue) = t /\ \A u \in Tabs \ {t} : refresh[u].stage \in {"none", "queued"}
  <2>1. Head(lockQueue) = t
    BY <1>1 DEF AuthInv, OneAtATime
  <2> QED  BY <2>1, OnlyFirst
<1>3. Newest(l, number)
  BY <1>0, <1>1 DEF AuthInv, RefreshIsOfNewest
<1>4. PICK f \in RefreshRec :
        /\ refresh' = [refresh EXCEPT ![t] = f] /\ f.login = l
        /\ \/ /\ f.stage = "refreshed" /\ isNewest /\ newest' = [newest EXCEPT ![l] = Following(@)]
              /\ f.number = Following(number) /\ lost' = lost
           \/ f.stage = "rejected" /\ ~isNewest /\ UNCHANGED <<newest, lost>>
           \/ /\ f.stage = "unavailable"
              /\ \/ UNCHANGED <<newest, lost>>
                 \/ isNewest /\ newest' = [newest EXCEPT ![l] = Following(@)] /\ lost' = lost \union {l}
  <2> DEFINE g == [refresh[t] EXCEPT !.stage = "refreshed", !.number = Following(number)]
             h(st) == [refresh[t] EXCEPT !.stage = st]
  <2>1. g \in RefreshRec /\ g.stage = "refreshed" /\ g.login = l /\ g.number = Following(number)
    BY <1>0, <1>1, FollowingLemma DEF RefreshRec, Stages
  <2>2. \A st \in {"rejected", "unavailable"} : h(st) \in RefreshRec /\ h(st).stage = st /\ h(st).login = l
    BY <1>0, <1>1 DEF RefreshRec, Stages
  <2>3. CASE /\ isNewest /\ newest' = [newest EXCEPT ![l] = Following(@)] /\ lost' = lost
             /\ refresh' = [refresh EXCEPT ![t] = g]
    BY <2>1, <2>3
  <2>4. CASE ~isNewest /\ refresh' = [refresh EXCEPT ![t] = h("rejected")] /\ UNCHANGED <<newest, lost>>
    BY <2>2, <2>4
  <2>5. CASE /\ refresh' = [refresh EXCEPT ![t] = h("unavailable")]
             /\ \/ UNCHANGED <<newest, lost>>
                \/ isNewest /\ newest' = [newest EXCEPT ![l] = Following(@)] /\ lost' = lost \union {l}
    BY <2>2, <2>5
  <2>6. /\ [refresh EXCEPT ![t].stage = "refreshed", ![t].number = Following(@)] = [refresh EXCEPT ![t] = g]
        /\ [refresh EXCEPT ![t].stage = "rejected"] = [refresh EXCEPT ![t] = h("rejected")]
        /\ [refresh EXCEPT ![t].stage = "unavailable"] = [refresh EXCEPT ![t] = h("unavailable")]
    BY <1>0, <1>1 DEF RefreshRec
  <2> QED  BY <1>0, <2>3, <2>4, <2>5, <2>6 DEF ServerRefreshes
<1>5. /\ refresh' \in [Tabs -> RefreshRec] /\ refresh'[t] = f /\ \A u \in Tabs \ {t} : refresh'[u] = refresh[u]
      /\ OneAtATime' /\ \A u \in Tabs : refresh'[u].login <= logins
  BY <1>1, <1>2, <1>4, StageLemma
<1>6. /\ newest' \in [Logins -> RefreshNumbers]
      /\ \A m \in Logins : m # l => newest'[m] = newest[m]
      /\ newest' # newest => l \in Logins /\ newest'[l] = Following(newest[l])
  <2>1. CASE newest' = newest
    BY <1>1, <2>1
  <2>2. CASE isNewest /\ newest' = [newest EXCEPT ![l] = Following(@)]
    <3>1. l \in Logins
      BY <1>1, <2>2 DEF Logins
    <3>2. Following(newest[l]) \in RefreshNumbers
      BY <1>1, <3>1, FollowingLemma
    <3> QED  BY <1>1, <2>2, <3>1, <3>2
  <2> QED  BY <1>4, <2>1, <2>2
<1>7. ended' = ended /\ lost \subseteq lost' /\ \A m : Dead(m) => Dead(m)'
  <2>1. ended' = ended /\ lost \subseteq lost'
    BY <1>1, <1>4
  <2> QED  BY <2>1, DeadStays
<1>8. AuthFields' /\ LoginsInOrder'
  <2>1. \A m \in Logins : m > logins => newest'[m] = 0
    <3>1. \A m \in Logins : m > logins => newest[m] = 0 /\ m # l
      BY <1>1 DEF AuthInv, AuthFields, LoginsInOrder, Logins
    <3> QED  BY <1>6, <3>1
  <2> QED  BY <1>1, <1>5, <1>6, <2>1 DEF AuthInv, AuthFields, LoginsInOrder, RefreshRec, Logins, RefreshNumbers
<1>9. \A m, n : m # l /\ Newest(m, n) => Newest(m, n)'
  BY <1>6, <1>7 DEF Newest, Logins
<1>10. RefreshIsOfNewest'
  <2>1. f.stage = "refreshed" => Newest(l, f.number)'
    BY <1>1, <1>3, <1>4, <1>6, <1>7 DEF Newest, Dead, Logins
  <2>2. f.stage = "rejected" => Dead(l)'
    BY <1>3, <1>4, <1>7 DEF Newest, Dead
  <2>3. f.stage # "sent"
    BY <1>4
  <2> QED  BY <1>2, <1>4, <1>5, <2>1, <2>2, <2>3 DEF RefreshIsOfNewest
<1>11. CookieIsNewest'
  <2>1. Newest(cookie.login, cookie.number)
    <3>1. \A u \in Tabs : refresh[u].stage # "refreshed"
      BY <1>1, <1>2
    <3> QED  BY <3>1 DEF AuthInv, CookieIsNewest
  <2>2. CASE cookie.login # l
    BY <1>1, <1>9, <2>1, <2>2 DEF CookieIsNewest
  <2>3. CASE cookie.login = l /\ f.stage = "refreshed"
    BY <1>1, <1>4, <1>5, <2>3 DEF CookieIsNewest
  <2>4. CASE cookie.login = l /\ f.stage # "refreshed"
    <3>1. newest' = newest \/ l \in lost'
      BY <1>4, <2>4
    <3> QED  BY <1>1, <1>7, <2>1, <2>4, <3>1 DEF CookieIsNewest, Newest, Dead, Logins
  <2> QED  BY <2>2, <2>3, <2>4
<1>12. OfSession'
  BY <1>0, <1>1, <1>4, <1>5, SameRequests DEF Past
<1> QED  BY <1>5, <1>8, <1>10, <1>11, <1>12 DEF AuthInv

\* What a request becomes that waited for the refresh of its tab.
LEMMA AfterLemma ==
  ASSUME AuthInv, NEW t \in Tabs, NEW r \in WaitsIn(t), NEW outcome, NEW new \in Tokens
  PROVE  LET q == AfterRefresh(r, outcome, new) IN
         /\ q \in RequestRec /\ q.stage \in {"again", "idle"}
         /\ q.stage = "again" => outcome = "refreshed" /\ q.sent = new
<1> DEFINE q == AfterRefresh(r, outcome, new)
<1>1. request[r] \in RequestRec
  BY DEF WaitsIn, AuthInv, AuthFields
<1>2. CASE outcome = "refreshed"
  <2>1. q = [request[r] EXCEPT !.stage = "again", !.sent = new]
    BY <1>2 DEF AfterRefresh
  <2> HIDE DEF q
  <2>2. q \in RequestRec /\ q.stage = "again" /\ q.sent = new
    BY <1>1, <2>1 DEF RequestRec
  <2> QED  BY <1>2, <2>2 DEF q
<1>3. CASE outcome # "refreshed"
  <2>1. q = Idle
    BY <1>3 DEF AfterRefresh
  <2> QED  BY <2>1, IdleLemma
<1> QED  BY <1>2, <1>3

LEMMA RefreshEndsStep == ASSUME AuthInv, NEW t \in Tabs, RefreshEnds(t)  PROVE AuthInv'
<1>0. PICK outcome, l : outcome = refresh[t].stage /\ l = refresh[t].login
  OBVIOUS
<1> DEFINE new == [login |-> l, fresh |-> TRUE]
<1>1. /\ outcome \in {"refreshed", "rejected", "unavailable"}
      /\ request' = [r \in Requests |-> IF r \in WaitsIn(t) THEN AfterRefresh(r, outcome, new) ELSE request[r]]
      /\ refresh' = [refresh EXCEPT ![t] = NoRefresh] /\ lockQueue' = Tail(lockQueue)
      /\ UNCHANGED <<newest, ended, lost, logins>>
      /\ \/ /\ outcome = "refreshed" /\ cookie' = [login |-> l, number |-> refresh[t].number]
            /\ token' = [token EXCEPT ![t] = new]
         \/ outcome # "refreshed" /\ cookie' = cookie /\ token' = token
  BY <1>0 DEF RefreshEnds, LeavesLine, SaveAccessToken, AuthInv, serverVars
<1>2. /\ refresh[t] \in RefreshRec /\ refresh \in [Tabs -> RefreshRec] /\ l \in 0..MaxLogins /\ l <= logins
      /\ refresh[t].number \in RefreshNumbers /\ new \in Tokens /\ new.fresh
  BY <1>0 DEF AuthInv, AuthFields, LoginsInOrder, RefreshRec, Tokens
<1>3. Head(lockQueue) = t /\ InLine(t) /\ \A u \in Tabs \ {t} : refresh[u].stage \in {"none", "queued"}
  <2>1. Head(lockQueue) = t /\ InLine(t)
    BY <1>0, <1>1 DEF AuthInv, OneAtATime
  <2> QED  BY <2>1, OnlyFirst
<1>4. /\ NoRefresh \in RefreshRec /\ NoRefresh.stage = "none" /\ NoRefresh.login = 0
  <2>1. 0 \in RefreshNumbers /\ 0 \in 0..MaxLogins
    BY AuthSessionAssumption DEF RefreshNumbers
  <2> QED  BY <2>1 DEF NoRefresh, RefreshRec, Stages
<1>5. /\ refresh' \in [Tabs -> RefreshRec] /\ refresh'[t] = NoRefresh
      /\ \A u \in Tabs \ {t} : refresh'[u] = refresh[u]
  BY <1>1, <1>2, <1>4
<1>6. \A u \in Tabs : refresh'[u].stage \in {"none", "queued"}
  BY <1>3, <1>4, <1>5
<1>7. /\ lockQueue \in Seq(Tabs) /\ Len(lockQueue) >= 1 /\ lockQueue' \in Seq(Tabs)
      /\ Len(lockQueue') = Len(lockQueue) - 1 /\ lockQueue[1] = t
      /\ \A n \in 1..Len(lockQueue') : lockQueue'[n] = lockQueue[n + 1]
  <2>1. lockQueue \in Seq(Tabs)
    BY DEF AuthInv, AuthFields
  <2>2. Len(lockQueue) >= 1
    BY <1>3, <2>1 DEF InLine
  <2> QED  BY <1>1, <1>3, <2>1, <2>2
<1>8. OneAtATime'
  <2>1. ASSUME NEW u \in Tabs, refresh'[u].stage # "none"  PROVE InLine(u)'
    <3>1. u # t /\ InLine(u)
      BY <1>4, <1>5, <2>1 DEF AuthInv, OneAtATime
    <3>2. PICK n \in 1..Len(lockQueue) : lockQueue[n] = u
      BY <3>1 DEF InLine
    <3>3. n # 1
      BY <1>7, <3>1, <3>2
    <3>4. n - 1 \in 1..Len(lockQueue') /\ lockQueue'[n - 1] = u
      <4>1. Len(lockQueue) \in Nat /\ n \in Nat
        BY <1>7, <3>2
      <4>2. n - 1 \in 1..Len(lockQueue') /\ (n - 1) + 1 = n
        BY <1>7, <3>2, <3>3, <4>1
      <4> QED  BY <1>7, <3>2, <4>2
    <3> QED  BY <3>4 DEF InLine
  <2> QED  BY <1>6, <2>1 DEF OneAtATime
<1>9. \A m, n : (Newest(m, n) <=> Newest(m, n)') /\ (Dead(m) <=> Dead(m)')
  BY <1>1 DEF Newest, Dead, Logins
<1>10. RefreshIsOfNewest'
  BY <1>6 DEF RefreshIsOfNewest
<1>11. CookieIsNewest'
  <2>1. CASE outcome = "refreshed"
    <3>1. Newest(l, refresh[t].number)
      BY <1>0, <2>1 DEF AuthInv, RefreshIsOfNewest
    <3>2. cookie'.login = l /\ cookie'.number = refresh[t].number
      BY <1>1, <2>1
    <3>3. Newest(cookie'.login, cookie'.number)
      BY <3>1, <3>2
    <3> QED  BY <1>9, <3>3 DEF CookieIsNewest, Newest, Dead, Logins
  <2>2. CASE outcome # "refreshed"
    <3>1. \A u \in Tabs : refresh[u].stage # "refreshed"
      BY <1>0, <1>3, <2>2
    <3> QED  BY <1>1, <1>9, <2>2, <3>1 DEF AuthInv, CookieIsNewest
  <2> QED  BY <2>1, <2>2
<1>12. ASSUME NEW r \in Requests
       PROVE  \/ request'[r] = request[r] /\ r \notin WaitsIn(t)
              \/ /\ r \in WaitsIn(t) /\ request'[r] \in RequestRec /\ request'[r].stage \in {"again", "idle"}
                 /\ request'[r].stage = "again" => outcome = "refreshed" /\ request'[r].sent = new
  <2> HIDE DEF new
  <2>1. CASE r \in WaitsIn(t)
    <3>1. request'[r] = AfterRefresh(r, outcome, new)
      BY <1>1, <2>1
    <3> QED  BY <1>2, <2>1, <3>1, AfterLemma
  <2>2. CASE r \notin WaitsIn(t)
    BY <1>1, <2>2
  <2> QED  BY <2>1, <2>2
<1>13. AuthFields'
  <2>1. request' \in [Requests -> RequestRec]
    <3>1. \A r \in Requests : request'[r] \in RequestRec
      BY <1>12 DEF AuthInv, AuthFields
    <3> QED  BY <1>1, <3>1
  <2>2. token' \in [Tabs -> Tokens]
    BY <1>1, <1>2 DEF AuthInv, AuthFields
  <2>3. cookie' \in [login : 0..MaxLogins, number : RefreshNumbers]
    BY <1>1, <1>2 DEF AuthInv, AuthFields
  <2> QED  BY <1>1, <1>5, <1>7, <2>1, <2>2, <2>3 DEF AuthInv, AuthFields, RefreshRec, Logins, RefreshNumbers
<1>14. LoginsInOrder'
  <2>1. cookie'.login <= logins
    BY <1>1, <1>2 DEF AuthInv, LoginsInOrder
  <2>2. \A u \in Tabs : refresh'[u].login <= logins
    <3>1. 0 <= logins /\ \A u \in Tabs : refresh[u].login <= logins
      BY DEF AuthInv, AuthFields, LoginsInOrder
    <3> QED  BY <1>4, <1>5, <3>1
  <2> QED  BY <1>1, <2>1, <2>2 DEF AuthInv, LoginsInOrder, Logins
<1>15. OfSession'
  <2>1. RequestsAreSent'
    BY <1>2, <1>12 DEF AuthInv, OfSession, RequestsAreSent
  <2>2. RefreshIsOfSession'
    BY <1>6 DEF RefreshIsOfSession, Past
  <2>3. Waited'
    <3>1. ASSUME NEW u \in Tabs, refresh'[u].stage # "none"  PROVE WaitsIn(u)' # {}
      <4>1. u # t /\ WaitsIn(u) # {}
        BY <1>4, <1>5, <3>1 DEF AuthInv, OfSession, Waited
      <4>2. PICK r \in Requests : r \in WaitsIn(u)
        BY <4>1 DEF WaitsIn
      <4>3. r \notin WaitsIn(t)
        BY <4>1, <4>2 DEF WaitsIn
      <4>4. request'[r] = request[r]
        BY <1>12, <4>3
      <4> QED  BY <4>2, <4>4 DEF WaitsIn
    <3> QED  BY <3>1 DEF Waited
  <2>4. ASSUME NEW r \in Requests, request'[r].stage = "again", ~request'[r].overtaken
        PROVE  cookie'.login \in {0, request'[r].sent.login}
    <3>1. CASE request'[r] = request[r] /\ r \notin WaitsIn(t)
      <4>1. cookie.login \in {0, request[r].sent.login} /\ refresh[t].login \in {0, request[r].sent.login}
        BY <1>0, <1>1, <2>4, <3>1 DEF AuthInv, OfSession, TokenIsOfSession, Past
      <4> QED  BY <1>0, <1>1, <3>1, <4>1
    <3>2. CASE outcome = "refreshed" /\ request'[r].sent = new
      BY <1>1, <3>2
    <3> QED  BY <1>12, <2>4, <3>1, <3>2
  <2>5. TokenIsOfSession'
    BY <1>6, <2>4 DEF TokenIsOfSession, Past
  <2> QED  BY <2>1, <2>2, <2>3, <2>5 DEF OfSession
<1> QED  BY <1>8, <1>10, <1>11, <1>13, <1>14, <1>15 DEF AuthInv

LEMMA AuthNextLemma == AuthInv /\ [AuthNext]_authVars => AuthInv'
<1> SUFFICES ASSUME AuthInv, [AuthNext]_authVars  PROVE AuthInv'
  OBVIOUS
<1>1. CASE AuthNext
  BY <1>1, LoginStep, AskLogoutStep, TokenStep, RevokeStep, SendStep, SucceedsStep, AskRefreshStep, RefusedAgainStep,
     SendRefreshStep, ServerRefreshesStep, RefreshEndsStep
  DEF AuthNext, RefreshStep, RequestStep
<1>2. CASE UNCHANGED authVars
  <2>1. token' \in [Tabs -> Tokens]
    BY <1>2 DEF AuthInv, AuthFields, authVars
  <2> QED  BY <1>2, <2>1, OutsideLemma DEF authVars
<1> QED  BY <1>1, <1>2

\* Who is told, and when: a request that is refused again, or that waited for a refresh that is rejected.
Notified == DOMAIN notified = Tabs

LEMMA NotifiedNext == Notified /\ [AuthNext]_authVars => Notified'
<1> SUFFICES ASSUME Notified, [AuthNext]_authVars  PROVE Notified'
  OBVIOUS
<1>1. ASSUME NEW t, NEW b, notified' = [notified EXCEPT ![t] = b]  PROVE Notified'
  BY <1>1 DEF Notified
<1>2. CASE notified' = notified
  BY <1>2 DEF Notified
<1>3. ASSUME NEW t \in Tabs, Login(t) \/ RefreshEnds(t)  PROVE Notified'
  BY <1>1, <1>2, <1>3, Zenon DEF Login, RefreshEnds, SaveAccessToken
<1>4. ASSUME NEW t \in Tabs, AskLogout(t) \/ SignOut(t) \/ LogInAgain(t) \/ AccessTokenRunsOut(t)  PROVE Notified'
  BY <1>2, <1>4, Zenon DEF AskLogout, SignOut, LogInAgain, AccessTokenRunsOut
<1>5. ASSUME NEW t \in Tabs, SendRefresh(t) \/ ServerRefreshes(t)  PROVE Notified'
  BY <1>2, <1>5 DEF SendRefresh, ServerRefreshes, tabVars
<1>6. ASSUME NEW r \in Requests, Succeeds(r) \/ AskRefresh(r)  PROVE Notified'
  BY <1>2, <1>6 DEF Succeeds, AskRefresh, tabVars
<1>7. ASSUME NEW r \in Requests, NEW t \in Tabs, Send(r, t)  PROVE Notified'
  BY <1>2, <1>7 DEF Send, tabVars
<1>8. ASSUME NEW r \in Requests, RefusedAgain(r)  PROVE Notified'
  BY <1>1, <1>8, Zenon DEF RefusedAgain
<1>9. ASSUME NEW l \in Logins, Revoke(l)  PROVE Notified'
  BY <1>2, <1>9 DEF Revoke, tabVars
<1>10. CASE UNCHANGED authVars
  BY <1>2, <1>10 DEF authVars
<1> QED  BY <1>3, <1>4, <1>5, <1>6, <1>7, <1>8, <1>9, <1>10 DEF AuthNext, RefreshStep, RequestStep

\* What justifies that t is told.
Expires(t) == \E r \in Ending(t) : Dead(RefusedLogin(r)) /\ (Dead(cookie.login) \/ request[r].overtaken)

LEMMA RefusedAgainExpires ==
  ASSUME AuthInv, Notified, NEW r \in Requests, RefusedAgain(r), NEW t \in Tabs, ~notified[t], notified'[t]
  PROVE  Expires(t)
<1>1. /\ request[r].stage = "again" /\ TokenRefused(r) /\ request' = [request EXCEPT ![r] = Idle]
      /\ notified' = [notified EXCEPT ![request[r].tab] = TRUE]
  BY DEF RefusedAgain, Ends
<1>2. request[r].tab = t
  BY <1>1, Zenon DEF Notified
<1>3. request'[r] = Idle /\ Idle.stage = "idle"
  BY <1>1, IdleLemma DEF AuthInv, AuthFields
<1>4. r \in Ending(t)
  BY <1>1, <1>2, <1>3 DEF Ending, InProgress
<1>5. RefusedLogin(r) = request[r].sent.login /\ Dead(RefusedLogin(r))
  BY <1>1 DEF RefusedLogin, TokenRefused, Dead, AuthInv, OfSession, RequestsAreSent
<1>6. Dead(cookie.login) \/ request[r].overtaken
  BY <1>1, <1>5 DEF Dead, AuthInv, OfSession, TokenIsOfSession
<1> QED  BY <1>4, <1>5, <1>6 DEF Expires

LEMMA RefreshEndsExpires ==
  ASSUME AuthInv, Notified, NEW u \in Tabs, RefreshEnds(u), NEW t \in Tabs, ~notified[t], notified'[t]
  PROVE  Expires(t)
<1>1. u = t /\ refresh[t].stage = "rejected" /\ WaitsIn(t) # {}
  <2>1. CASE refresh[u].stage = "refreshed"
    <3>1. notified' = [notified EXCEPT ![u] = FALSE]
      BY <2>1 DEF RefreshEnds, SaveAccessToken
    <3> QED  BY <3>1, Zenon DEF Notified
  <2>2. CASE refresh[u].stage # "refreshed"
    <3> DEFINE heard == refresh[u].stage = "rejected" /\ \E r \in WaitsIn(u) : request[r].had
    <3>1. notified' = [notified EXCEPT ![u] = @ \/ heard]
      BY <2>2, Zenon DEF RefreshEnds
    <3> HIDE DEF heard
    <3>2. u = t /\ heard
      BY <3>1, Zenon DEF Notified
    <3> QED  BY <3>2 DEF heard
  <2> QED  BY <2>1, <2>2
<1> DEFINE new == [login |-> refresh[t].login, fresh |-> TRUE]
<1>2. request' = [r \in Requests |-> IF r \in WaitsIn(t) THEN AfterRefresh(r, "rejected", new) ELSE request[r]]
  BY <1>1 DEF RefreshEnds
<1> HIDE DEF new
<1>3. Dead(refresh[t].login)
  BY <1>1 DEF AuthInv, RefreshIsOfNewest
<1>4. ASSUME NEW r \in WaitsIn(t)  PROVE r \in Ending(t) /\ Dead(RefusedLogin(r))
  <2>1. r \in Requests /\ request[r].tab = t /\ request[r].stage = "waits"
    BY DEF WaitsIn
  <2>2. request'[r] = Idle /\ Idle.stage = "idle"
    BY <1>2, <2>1, IdleLemma DEF AfterRefresh
  <2> QED  BY <1>3, <2>1, <2>2 DEF Ending, InProgress, RefusedLogin
<1>5. CASE cookie.login \in {0, refresh[t].login}
  BY <1>1, <1>3, <1>4, <1>5 DEF Expires, Dead
<1>6. CASE cookie.login \notin {0, refresh[t].login}
  <2>1. PICK r \in WaitsIn(t) : request[r].overtaken
    BY <1>1, <1>6 DEF AuthInv, OfSession, RefreshIsOfSession, Past
  <2> QED  BY <1>4, <2>1 DEF Expires
<1> QED  BY <1>5, <1>6

LEMMA ExpiresLemma ==
  ASSUME AuthInv, Notified, [AuthNext]_authVars, NEW t \in Tabs, ~notified[t], notified'[t]
  PROVE  Expires(t)
<1>1. ASSUME notified' = notified  PROVE FALSE
  BY <1>1
<1>2. ASSUME NEW u \in Tabs, Login(u)  PROVE FALSE
  BY <1>2, Zenon DEF Login, SaveAccessToken, Notified
<1>3. ASSUME NEW u \in Tabs, AskLogout(u) \/ SignOut(u) \/ LogInAgain(u) \/ AccessTokenRunsOut(u)  PROVE FALSE
  BY <1>1, <1>3, Zenon DEF AskLogout, SignOut, LogInAgain, AccessTokenRunsOut
<1>4. ASSUME NEW u \in Tabs, SendRefresh(u) \/ ServerRefreshes(u)  PROVE FALSE
  BY <1>1, <1>4 DEF SendRefresh, ServerRefreshes, tabVars
<1>5. ASSUME NEW r \in Requests, Succeeds(r) \/ AskRefresh(r)  PROVE FALSE
  BY <1>1, <1>5 DEF Succeeds, AskRefresh, tabVars
<1>6. ASSUME NEW r \in Requests, NEW u \in Tabs, Send(r, u)  PROVE FALSE
  BY <1>1, <1>6 DEF Send, tabVars
<1>7. ASSUME NEW l \in Logins, Revoke(l)  PROVE FALSE
  BY <1>1, <1>7 DEF Revoke, tabVars
<1>8. CASE UNCHANGED authVars
  BY <1>1, <1>8 DEF authVars
<1> QED  BY <1>2, <1>3, <1>4, <1>5, <1>6, <1>7, <1>8, RefusedAgainExpires, RefreshEndsExpires
         DEF AuthNext, RefreshStep, RequestStep

\* In a browser with Web Locks, a tab tells that the session expired only when the session that was refused has ended,
\* and the one that the browser has by then too, unless a login came while the request was under way.  So it is however
\* the refreshes of any number of tabs, logins, sign-outs and late answers meet (client.ts, authSessionStorage.ts).
THEOREM NoFalseExpiryTheorem == ASSUME WebLocks  PROVE AuthSpec => NoFalseExpiry
<1>1. AuthInit => AuthInv /\ Notified
  BY AuthInvInit DEF AuthInit, Notified
<1>2. AuthInv /\ Notified /\ [AuthNext]_authVars => AuthInv' /\ Notified'
  BY AuthNextLemma, NotifiedNext
<1>3. AuthInv /\ Notified /\ [AuthNext]_authVars =>
        [\A t \in Tabs : ~notified[t] /\ notified'[t] => Expires(t)]_authVars
  BY ExpiresLemma
<1>4. AuthSpec => [][\A t \in Tabs : ~notified[t] /\ notified'[t] => Expires(t)]_authVars
  BY <1>1, <1>2, <1>3, PTL DEF AuthSpec
<1> QED  BY <1>4 DEF NoFalseExpiry, Expires

-----------------------------------------------------------------------------
(***************************************************************************)
(* A file becomes one whole document, for any number of parts, batches,    *)
(* attempts and failures, and nothing is being sent once the upload is     *)
(* aborted or has ended.                                                   *)
(*                                                                         *)
(* An import keeps its promise (ImportPromise), for any plan, number of    *)
(* runs, requests at a time and failures: whatever is sent twice, late or  *)
(* after a lost answer, an item is made once, in its folder, and each of   *)
(* its contents is saved once, all before the import is closed.            *)
(* Only the service changes what the promise is about, so the proof is     *)
(* about the requests it may still be asked to serve: each carries the key *)
(* and the folder of its item, a save is of an item that was made and      *)
(* replaces a version that is not beyond the last.                         *)
(* And an import without failures is complete.  Lines follows each item    *)
(* from the queue to what is known or reported; SavesInv relates what the  *)
(* run knows to be saved to what the service holds: an answer is about one *)
(* batch more, because no request that is still on its way was seen.       *)
(***************************************************************************)

(* A file in parts.                                                          *)

PartStages == {"none", "renewing", "sending", "stalled", "pausing", "stored", "failed"}

(* What the proofs need of the types.                                        *)
Shape ==
  /\ first \in Nat \ {0}
  /\ part \in [PartNumbers -> [stage : PartStages, left : Int]]
  /\ bucket \in [stage : {"none", "open", "completed", "aborted"}, parts : SUBSET PartNumbers]
  /\ stage \in {"idle", "starting", "asking", "parts", "completing", "pausing", "aborting", "done", "failed"}

(* A part moves only while its batch is being sent.                          *)
MovesInBatch == \A n \in PartNumbers : IsMoving(n) => stage = "parts" /\ InBatch(n)

(* What is settled as stored is in the store: the parts of the batches that  *)
(* are over, and all of them when complete is asked for.  A batch that is    *)
(* being sent has no part that was not begun.                                *)
StoredParts ==
  /\ \A n \in PartNumbers : part[n].stage = "stored" => n \in bucket.parts
  /\ stage \in {"asking", "parts", "completing", "pausing"} =>
       \A n \in PartNumbers : n < first => n \in bucket.parts
  /\ stage = "starting" => first = 1
  /\ stage \in {"completing", "pausing"} => first > PartCount
  /\ stage = "parts" => \A n \in PartNumbers : InBatch(n) => part[n].stage # "none"

OneKey == documents \subseteq {[key |-> Key, whole |-> TRUE]}

UInv == Shape /\ MovesInBatch /\ StoredParts /\ OneKey

LEMMA UploadConstants ==
  /\ PartCount \in Nat /\ Batch \in Nat /\ Batch # 0 /\ PartNumbers \subseteq Nat
  /\ \A n \in PartNumbers : n >= 1 /\ n <= PartCount
BY MultipartUploadAssumption DEF PartNumbers

LEMMA UInvInit == UploadInit => UInv
<1> SUFFICES ASSUME UploadInit PROVE UInv
    OBVIOUS
<1>1. part \in [PartNumbers -> [stage : PartStages, left : Int]] /\ \A n \in PartNumbers : part[n].stage = "none"
      BY MultipartUploadAssumption DEF UploadInit, Unsent, PartStages
<1>2. Shape
      BY <1>1 DEF UploadInit, Shape
<1> QED
    BY <1>1, <1>2 DEF UploadInit, UInv, MovesInBatch, IsMoving, StoredParts, OneKey

-----------------------------------------------------------------------------
(* A part that moves may come to any stage but the first one; if it comes to *)
(* be stored, it is in the store.                                            *)
LEMMA PartChanges ==
  ASSUME UInv, NEW n \in PartNumbers, IsMoving(n),
         NEW r \in [stage : PartStages, left : Int],
         r.stage # "none",
         part' = [part EXCEPT ![n] = r],
         bucket' \in [stage : {"none", "open", "completed", "aborted"}, parts : SUBSET PartNumbers],
         bucket.parts \subseteq bucket'.parts,
         r.stage = "stored" => n \in bucket'.parts,
         UNCHANGED <<stage, first, documents>>
  PROVE  UInv'
<1> USE DEF UInv, Shape
<1>1. part' \in [PartNumbers -> [stage : PartStages, left : Int]]
      OBVIOUS
<1>2. stage = "parts" /\ InBatch(n)
      BY DEF MovesInBatch
<1>3. \A k \in PartNumbers : part'[k] = IF k = n THEN r ELSE part[k]
      OBVIOUS
<1>4. Shape'
      BY <1>1
<1>5. MovesInBatch'
      BY <1>2, <1>3 DEF MovesInBatch, IsMoving, InBatch
<1>6. StoredParts'
      BY <1>2, <1>3 DEF StoredParts, InBatch
<1>7. OneKey'
      BY DEF OneKey, Key
<1> QED
    BY <1>4, <1>5, <1>6, <1>7

LEMMA PartStepKeeps == ASSUME UInv, NEW n \in PartNumbers, PartStep(n) PROVE UInv'
<1> DEFINE Stores == [stage : {"none", "open", "completed", "aborted"}, parts : SUBSET PartNumbers]
           Puts == UNCHANGED bucket \/ bucket' = [bucket EXCEPT !.parts = @ \union {n}]
<1>t. part \in [PartNumbers -> [stage : PartStages, left : Int]] /\ bucket \in Stores
      BY DEF UInv, Shape
<1>p. Puts => bucket' \in Stores /\ bucket.parts \subseteq bucket'.parts
      BY <1>t
<1>f. ASSUME IsMoving(n), FailPart(n), Puts, UNCHANGED <<stage, first, documents>> PROVE UInv'
  <2> DEFINE r == [left |-> part[n].left - 1,
                   stage |-> IF part[n].left - 1 = 0 \/ cancelled THEN "failed" ELSE "pausing"]
  <2>1. r \in [stage : PartStages, left : Int] /\ r.stage # "none" /\ r.stage # "stored"
        BY <1>t DEF PartStages
  <2>2. part' = [part EXCEPT ![n] = r]
        BY <1>f DEF FailPart
  <2> HIDE DEF r
  <2> QED
      BY <1>f, <1>p, <2>1, <2>2, PartChanges
<1>s. ASSUME NEW to \in PartStages \ {"none"}, IsMoving(n), SetPart(n, to), Puts,
             to = "stored" => n \in bucket'.parts, UNCHANGED <<stage, first, documents>>
      PROVE  UInv'
  <2> DEFINE r == [part[n] EXCEPT !.stage = to]
  <2>1. r \in [stage : PartStages, left : Int] /\ r.stage = to
        BY <1>t, <1>s
  <2>2. part' = [part EXCEPT ![n] = r]
        BY <1>s, <1>t DEF SetPart
  <2> HIDE DEF r
  <2> QED
      BY <1>s, <1>p, <2>1, <2>2, PartChanges
<1>1. CASE PartStored(n)
      BY <1>1, <1>s, <1>t DEF PartStored, IsMoving, PartStages
<1>2. CASE PartRefused(n)
      BY <1>2, <1>f DEF PartRefused, IsMoving
<1>3. CASE PartStalls(n)
      BY <1>3, <1>s DEF PartStalls, IsMoving, PartStages
<1>4. CASE PartTimesOut(n)
      BY <1>4, <1>f DEF PartTimesOut, IsMoving
<1>5. CASE RenewPart(n)
      BY <1>5, <1>s DEF RenewPart, IsMoving, PartStages
<1>6. CASE PartRenewed(n)
      BY <1>6, <1>s DEF PartRenewed, IsMoving, PartStages
<1>7. CASE PartNotRenewed(n)
      BY <1>7, <1>f DEF PartNotRenewed, IsMoving
<1> QED
    BY <1>1, <1>2, <1>3, <1>4, <1>5, <1>6, <1>7 DEF PartStep

-----------------------------------------------------------------------------
(* The steps of the whole upload.                                            *)

LEMMA UInvNext == UInv /\ [UploadNext]_uploadVars => UInv'
<1> SUFFICES ASSUME UInv, [UploadNext]_uploadVars PROVE UInv'
    OBVIOUS
<1> USE UploadConstants
<1> USE DEF UInv, Shape, MovesInBatch, IsMoving, StoredParts, InBatch, OneKey, Key, Goes
<1>1. CASE StartUpload
  <2>1. part' \in [PartNumbers -> [stage : PartStages, left : Int]] /\ \A n \in PartNumbers : part'[n].stage = "none"
        BY <1>1, MultipartUploadAssumption DEF StartUpload, Unsent, PartStages
  <2> QED
      BY <1>1, <2>1 DEF StartUpload
<1>2. CASE CancelParts
  <2>1. part' \in [PartNumbers -> [stage : PartStages, left : Int]]
        BY <1>2 DEF CancelParts, PartStages
  <2>2. \A n \in PartNumbers : part'[n].stage = part[n].stage \/ (IsMoving(n) /\ part'[n].stage = "failed")
        BY <1>2 DEF CancelParts, InTransit
  <2> QED
      BY <1>2, <2>1, <2>2 DEF CancelParts
<1>3. CASE Started
  <2>1. bucket' \in [stage : {"none", "open", "completed", "aborted"}, parts : SUBSET PartNumbers]
        /\ bucket'.parts = bucket.parts
        BY <1>3 DEF Started
  <2>2. stage' \in {"aborting", "asking"} /\ stage = "starting" /\ UNCHANGED <<first, part, documents>>
        BY <1>3 DEF Started
  <2>3. first = 1
        BY <2>2
  <2> QED
      BY <2>1, <2>2, <2>3
<1>4. CASE NotStarted
      BY <1>4 DEF NotStarted
<1>5. CASE SendBatch
  <2>1. part' \in [PartNumbers -> [stage : PartStages, left : Int]]
        BY <1>5 DEF SendBatch, PartStages
  <2>2. \A n \in PartNumbers : part'[n].stage = IF InBatch(n) THEN IF cancelled THEN "failed" ELSE "sending"
                                               ELSE part[n].stage
        BY <1>5 DEF SendBatch
  <2> QED
      BY <1>5, <2>1, <2>2 DEF SendBatch
<1>6. CASE NoUrls
      BY <1>6 DEF NoUrls
<1>7. ASSUME NEW n \in PartNumbers, PartStep(n) PROVE UInv'
      BY <1>7, PartStepKeeps
<1>8. CASE BatchSettled
  <2>1. \A n \in PartNumbers : ~IsMoving(n)
        BY <1>8 DEF BatchSettled, Settled, BatchParts
  <2>2. CASE AnyFailed
        BY <1>8, <2>1, <2>2 DEF BatchSettled
  <2>3. CASE ~AnyFailed
    <3>1. \A n \in PartNumbers : InBatch(n) => n \in bucket.parts
          BY <1>8, <2>1, <2>3 DEF BatchSettled, AnyFailed, BatchParts, PartStages
    <3>2. first' = first + Batch /\ \A n \in PartNumbers : n < first' => n \in bucket.parts
          BY <1>8, <2>3, <3>1 DEF BatchSettled
    <3>3. stage' \in {"completing", "asking"} /\ (stage' = "completing" => first' > PartCount)
          BY <1>8, <2>3, <3>2 DEF BatchSettled
    <3> QED
        BY <1>8, <2>1, <3>2, <3>3 DEF BatchSettled
  <2> QED
      BY <2>2, <2>3
<1>m. ASSUME MakeDocument, stage = "completing"
      PROVE  OneKey' /\ bucket' \in [stage : {"none", "open", "completed", "aborted"}, parts : SUBSET PartNumbers]
             /\ bucket'.parts = bucket.parts
  <2>1. bucket.parts = PartNumbers
    <3>1. \A n \in PartNumbers : n < first
          BY <1>m
    <3>2. \A n \in PartNumbers : n \in bucket.parts
          BY <1>m, <3>1
    <3>3. bucket.parts \subseteq PartNumbers
          OBVIOUS
    <3> QED
        BY <3>2, <3>3
  <2> QED
      BY <1>m, <2>1 DEF MakeDocument
<1>9. CASE Completed
      BY <1>9, <1>m DEF Completed
<1>10. CASE NotCompleted
      BY <1>10, <1>m DEF NotCompleted
<1>11. CASE CompleteAgain
      BY <1>11 DEF CompleteAgain
<1>12. CASE Abort
      BY <1>12 DEF Abort
<1>13. CASE UNCHANGED uploadVars
      BY <1>13 DEF uploadVars
<1> QED
    BY <1>1, <1>2, <1>3, <1>4, <1>5, <1>6, <1>7, <1>8, <1>9, <1>10, <1>11, <1>12, <1>13 DEF UploadNext

LEMMA UInvAlways == UploadSpec => []UInv
BY UInvInit, UInvNext, PTL DEF UploadSpec

(* However often complete is sent, answered to nobody or begun anew, and     *)
(* with whatever parts were sent again, the file becomes at most one         *)
(* document, and that one is whole.                                          *)
THEOREM OneWholeDocumentTheorem == UploadSpec => []OneWholeDocument
<1>1. UInv => OneWholeDocument
  <2> SUFFICES ASSUME UInv PROVE OneWholeDocument
      OBVIOUS
  <2> DEFINE D == {[key |-> Key, whole |-> TRUE]}
  <2>1. documents \subseteq D
        BY DEF UInv, OneKey
  <2>2. IsFiniteSet(D) /\ Cardinality(D) = 1
        BY FS_Singleton
  <2>3. IsFiniteSet(documents) /\ Cardinality(documents) <= 1
        BY <2>1, <2>2, FS_Subset
  <2> QED
      BY <2>1, <2>3 DEF OneWholeDocument
<1> QED
    BY UInvAlways, <1>1, PTL

(* No part is on its way when the upload is aborted or after it ended        *)
(* (Promise.allSettled of multipartUpload.ts).                               *)
THEOREM AbortIsLastTheorem == UploadSpec => []AbortIsLast
<1>1. UInv => AbortIsLast
      BY DEF UInv, MovesInBatch, AbortIsLast
<1> QED
    BY UInvAlways, <1>1, PTL

(* Both together: what a run of the client checks.                           *)
THEOREM UploadIsWholeTheorem == UploadSpec => []UploadIsWhole
<1>1. OneWholeDocument /\ AbortIsLast => UploadIsWhole
      BY DEF UploadIsWhole
<1> QED
    BY OneWholeDocumentTheorem, AbortIsLastTheorem, <1>1, PTL

-----------------------------------------------------------------------------
(* A Notion export, item by item.                                            *)

MadeItems == {m.item : m \in made}

\* What the service holds of the import.
Served ==
  /\ \A m \in made : m = [item |-> m.item, parent |-> Parent[m.item], key |-> ItemKey(m.item)] /\ m.item \in Items
  /\ content \in [DocumentSet -> [version : Nat, batches : Nat]]
  /\ \A d \in DocumentSet : content[d].version = content[d].batches + 1
  /\ completed \in BOOLEAN

\* A request is of an item of the plan; a save replaces a version that some content is still for.
Proper(r) ==
  /\ r.item \in Items /\ r.kind \in {"make", "save"}
  /\ r.kind = "make" => r.parent = Parent[r.item] /\ r.key = ItemKey(r.item) /\ HasParent(r.item)
  /\ r.kind = "save" => r.item \in DocumentSet \cap known /\ r.base \in Nat /\ r.base <= Contents[r.item]

\* What the run remembers of an item is true, and what it waits for is still to be done.
Remembered ==
  /\ known \subseteq MadeItems
  /\ version \in [DocumentSet -> Nat] /\ saved \in [DocumentSet -> Nat]
  /\ \A d \in DocumentSet : version[d] = saved[d] + 1
  /\ \A d \in DocumentSet : NeedsContentPass(d) /\ d \notin contentDone => saved[d] < Contents[d]

Running ==
  /\ answer \in [Items -> WriteAnswers]
  /\ queue \in Seq(Items) /\ (importPhase \in {"documents", "content"} => queue \in Seq(DocumentSet))
  /\ active \subseteq Items /\ (\A i \in Items \ active : answer[i] = "none")
  /\ importPhase \in {"none", "folders", "documents", "content"}
  /\ importPhase = "none" => active = {}
  /\ importPhase = "content" => \A i \in active : i \in DocumentSet \cap known /\ saved[i] < Contents[i]
  /\ importPhase # "content" => \A i \in active : answer[i] = "ok" => i \in MadeItems

Inv == Served /\ Remembered /\ Running /\ \A r \in sent : Proper(r)
-----------------------------------------------------------------------------
LEMMA PlanLemma ==
  /\ Folders \in Seq(FolderSet) /\ Documents \in Seq(DocumentSet)
  /\ Folders \in Seq(Items) /\ Documents \in Seq(Items)
  /\ FolderSet \subseteq Items /\ DocumentSet \subseteq Items
  /\ \A d \in DocumentSet : Contents[d] \in Nat
<1>1. Folders \in Seq(FolderSet) /\ Documents \in Seq(DocumentSet) /\ \A d \in DocumentSet : Contents[d] \in Nat
  BY ImportPlanAssumption DEF FolderSet, DocumentSet
<1>2. FolderSet \subseteq Items /\ DocumentSet \subseteq Items
  BY DEF Items
<1> QED  BY <1>1, <1>2

LEMMA QueueLemma ==
  ASSUME NEW S, NEW q \in Seq(S), q # <<>>
  PROVE  Head(q) \in S /\ Tail(q) \in Seq(S)
OBVIOUS

LEMMA AddItemLemma ==
  ASSUME NEW S, NEW x
  PROVE  {m.item : m \in S \union {x}} = {m.item : m \in S} \union {x.item}
OBVIOUS

\* Who was made has one copy, in its folder.
LEMMA CopiesLemma ==
  ASSUME Served
  PROVE  \A i \in Items :
           /\ Cardinality(Copies(i)) = IF i \in MadeItems THEN 1 ELSE 0
           /\ Copies(i) = {} <=> i \notin MadeItems
           /\ i \in MadeItems => (CHOOSE m \in made : m.item = i).parent = Parent[i]
<1> SUFFICES ASSUME NEW i \in Items
             PROVE  /\ Cardinality(Copies(i)) = IF i \in MadeItems THEN 1 ELSE 0
                    /\ Copies(i) = {} <=> i \notin MadeItems
                    /\ i \in MadeItems => (CHOOSE m \in made : m.item = i).parent = Parent[i]
  OBVIOUS
<1> DEFINE c == [item |-> i, parent |-> Parent[i], key |-> ItemKey(i)]
<1>1. \A m \in made : m.item = i => m = c
  BY DEF Served
<1>2. c.parent = Parent[i] /\ c.item = i
  OBVIOUS
<1> HIDE DEF c
<1>3. CASE i \in MadeItems
  <2>1. c \in made /\ Copies(i) = {c}
    BY <1>1, <1>2, <1>3 DEF MadeItems, Copies
  <2>2. (CHOOSE m \in made : m.item = i) = c
    BY <1>1, <1>2, <2>1
  <2>3. Cardinality({c}) = 1
    BY FS_Singleton
  <2> QED  BY <1>2, <1>3, <2>1, <2>2, <2>3
<1>4. CASE i \notin MadeItems
  <2>1. Copies(i) = {}
    BY <1>4 DEF MadeItems, Copies
  <2> QED  BY <1>4, <2>1, FS_EmptySet
<1> QED  BY <1>3, <1>4
-----------------------------------------------------------------------------
(* The invariant. *)

LEMMA ProperLemma ==
  ASSUME \A r \in sent : Proper(r), known \subseteq known', \A r \in sent' : r \in sent \/ Proper(r)'
  PROVE  \A r \in sent' : Proper(r)'
BY DEF Proper, HasParent

\* A step of the run or of the user: the service is not asked.
LEMMA ClientLemma ==
  ASSUME Inv, UNCHANGED importServerVars, Remembered', Running', known \subseteq known',
         \A r \in sent' : r \in sent \/ Proper(r)'
  PROVE  Inv'
<1>1. Served'
  BY DEF Inv, Served, importServerVars
<1>2. \A r \in sent' : Proper(r)'
  BY ProperLemma DEF Inv
<1> QED  BY <1>1, <1>2 DEF Inv

LEMMA SameStateLemma ==
  ASSUME Inv, UNCHANGED stateVars, UNCHANGED importServerVars
  PROVE  Remembered' /\ known' = known /\ MadeItems' = MadeItems
BY DEF Inv, Remembered, MadeItems, stateVars, importServerVars

LEMMA ExecuteStep == ASSUME Inv, Execute  PROVE Inv'
<1>1. /\ UNCHANGED stateVars /\ UNCHANGED importServerVars /\ UNCHANGED <<active, answer, sent>>
      /\ importPhase = "none" /\ importPhase' = "folders" /\ queue' = Folders
  BY DEF Execute
<1>2. Running'
  BY <1>1, PlanLemma DEF Inv, Running
<1> QED  BY <1>1, <1>2, SameStateLemma, ClientLemma

LEMMA CancelStep == ASSUME Inv, CancelImport  PROVE Inv'
<1>1. /\ UNCHANGED stateVars /\ UNCHANGED importServerVars /\ UNCHANGED <<importPhase, queue, active, sent>>
      /\ answer' = [i \in Items |-> IF i \in active /\ answer[i] = "none" THEN "failed" ELSE answer[i]]
  BY DEF CancelImport
<1>2. answer' \in [Items -> WriteAnswers] /\ \A i \in Items : answer'[i] = "ok" => answer[i] = "ok"
  BY <1>1 DEF Inv, Running, WriteAnswers
<1>3. Running'
  BY <1>1, <1>2, SameStateLemma DEF Inv, Running, stateVars
<1> QED  BY <1>1, <1>3, SameStateLemma, ClientLemma

\* The run itself does nothing.
LEMMA IdleStep ==
  ASSUME Inv, UNCHANGED <<importPhase, queue, active, answer, sent>>, UNCHANGED stateVars, UNCHANGED importServerVars
  PROVE  Inv'
<1>1. Running'
  BY SameStateLemma DEF Inv, Running, stateVars
<1> QED  BY <1>1, SameStateLemma, ClientLemma

\* What is sent for an item is proper, and its item is still to be done.
LEMMA StartStep == ASSUME Inv, StartItem  PROVE Inv'
<1>0. PICK i : i = Head(queue)
  OBVIOUS
<1>1. /\ UNCHANGED importServerVars /\ UNCHANGED <<importPhase, answer, known, version, saved, contentDone>>
      /\ queue # <<>> /\ queue' = Tail(queue) /\ importPhase # "none"
      /\ \/ UNCHANGED <<active, sent>>
         \/ /\ ~Skips(i) /\ (importPhase = "content" \/ HasParent(i))
            /\ active' = active \union {i}
            /\ sent' = sent \union {IF importPhase = "content" THEN SaveRequest(i, version[i]) ELSE MakeRequest(i)}
  BY <1>0 DEF StartItem
<1>2. i \in Items /\ Tail(queue) \in Seq(Items)
      /\ (importPhase \in {"documents", "content"} => i \in DocumentSet /\ Tail(queue) \in Seq(DocumentSet))
  BY <1>0, <1>1, QueueLemma DEF Inv, Running
<1>3. Remembered' /\ MadeItems' = MadeItems
  BY <1>1 DEF Inv, Remembered, MadeItems, importServerVars
<1>4. CASE UNCHANGED <<active, sent>>
  <2>1. Running'
    BY <1>1, <1>2, <1>3, <1>4 DEF Inv, Running
  <2> QED  BY <1>1, <1>3, <1>4, <2>1, ClientLemma
<1>5. CASE importPhase = "content" /\ ~Skips(i) /\ active' = active \union {i}
           /\ sent' = sent \union {SaveRequest(i, version[i])}
  <2>1. i \in DocumentSet \cap known /\ saved[i] < Contents[i]
    BY <1>2, <1>5 DEF Skips, Inv, Remembered
  <2>2. version[i] \in Nat /\ version[i] <= Contents[i]
    BY <2>1, PlanLemma DEF Inv, Remembered
  <2>3. \A s \in sent' : s \in sent \/ Proper(s)'
    <3>1. \A s \in sent' : s \in sent \/ (s.item = i /\ s.kind = "save" /\ s.base = version[i])
      BY <1>5 DEF SaveRequest
    <3> QED  BY <1>1, <1>2, <2>1, <2>2, <3>1 DEF Proper
  <2>4. Running'
    BY <1>1, <1>2, <1>3, <1>5, <2>1 DEF Inv, Running
  <2> QED  BY <1>1, <1>3, <2>3, <2>4, ClientLemma
<1>6. CASE importPhase # "content" /\ ~Skips(i) /\ HasParent(i) /\ active' = active \union {i}
           /\ sent' = sent \union {MakeRequest(i)}
  <2>1. \A s \in sent' : s \in sent \/ Proper(s)'
    <3>1. \A s \in sent' : s \in sent \/ (s.item = i /\ s.kind = "make" /\ s.parent = Parent[i] /\ s.key = ItemKey(i))
      BY <1>6 DEF MakeRequest
    <3> QED  BY <1>1, <1>2, <1>6, <3>1 DEF Proper, HasParent
  <2>2. i \in active \/ answer[i] = "none"
    BY <1>2 DEF Inv, Running
  <2>3. Running'
    BY <1>1, <1>2, <1>3, <1>6, <2>2 DEF Inv, Running
  <2> QED  BY <1>1, <1>3, <2>1, <2>3, ClientLemma
<1> QED  BY <1>1, <1>4, <1>5, <1>6

LEMMA MadeStep == ASSUME Inv, NEW i \in Items, Made(i)  PROVE Inv'
<1>1. /\ UNCHANGED importServerVars /\ UNCHANGED <<importPhase, queue, version, saved, contentDone, sent>>
      /\ i \in active /\ answer[i] = "ok" /\ importPhase # "content"
      /\ known' = known \union {i} /\ active' = active \ {i} /\ answer' = [answer EXCEPT ![i] = "none"]
  BY DEF Made, Leaves
<1>2. MadeItems' = MadeItems /\ i \in MadeItems
  BY <1>1 DEF Inv, Running, MadeItems, importServerVars
<1>3. Remembered'
  BY <1>1, <1>2 DEF Inv, Remembered
<1>4. Running'
  BY <1>1, <1>2 DEF Inv, Running, WriteAnswers
<1> QED  BY <1>1, <1>3, <1>4, ClientLemma

\* The next content of a document replaces the version the last one made.
LEMMA BatchSavedStep == ASSUME Inv, NEW d \in Items, BatchSaved(d)  PROVE Inv'
<1>1. /\ UNCHANGED importServerVars /\ UNCHANGED <<importPhase, queue, known>>
      /\ d \in active /\ importPhase = "content"
      /\ version' = [version EXCEPT ![d] = version[d] + 1] /\ saved' = [saved EXCEPT ![d] = @ + 1]
      /\ \/ /\ contentDone' = contentDone \union {d} /\ saved[d] + 1 = Contents[d] /\ UNCHANGED sent
            /\ active' = active \ {d} /\ answer' = [answer EXCEPT ![d] = "none"]
         \/ /\ UNCHANGED <<contentDone, sent>> /\ saved[d] + 1 < Contents[d]
            /\ active' = active \ {d} /\ answer' = [answer EXCEPT ![d] = "none"]
         \/ /\ UNCHANGED <<active, contentDone>> /\ saved[d] + 1 < Contents[d]
            /\ answer' = [answer EXCEPT ![d] = "none"]
            /\ \A s \in sent' : s \in sent \/ (s.kind = "save" /\ s.item = d /\ s.base = version[d] + 1)
  <2>1. SaveRequest(d, version[d] + 1).kind = "save" /\ SaveRequest(d, version[d] + 1).item = d
        /\ SaveRequest(d, version[d] + 1).base = version[d] + 1
    BY DEF SaveRequest
  <2> QED  BY <2>1 DEF BatchSaved, Leaves, Remembers, NextVersion
<1>2. d \in DocumentSet \cap known /\ saved[d] < Contents[d]
  BY <1>1 DEF Inv, Running
<1>3. version[d] \in Nat /\ saved[d] \in Nat /\ version[d] = saved[d] + 1 /\ Contents[d] \in Nat
  BY <1>2, PlanLemma DEF Inv, Remembered
<1>4. /\ version' \in [DocumentSet -> Nat] /\ saved' \in [DocumentSet -> Nat]
      /\ version'[d] = version[d] + 1 /\ saved'[d] = saved[d] + 1
      /\ \A e \in DocumentSet : e # d => version'[e] = version[e] /\ saved'[e] = saved[e]
  BY <1>1, <1>2, <1>3 DEF Inv, Remembered
<1>5. Remembered'
  <2>1. MadeItems' = MadeItems
    BY <1>1 DEF MadeItems, importServerVars
  <2> QED  BY <1>1, <1>3, <1>4, <2>1 DEF Inv, Remembered, NeedsContentPass
<1>6. Running'
  <2>1. answer' \in [Items -> WriteAnswers] /\ (\A i \in Items : i # d => answer'[i] = answer[i]) /\ answer'[d] = "none"
    BY <1>1 DEF Inv, Running, WriteAnswers
  <2>2. active' \subseteq active /\ (\A i \in active : i # d => i \in active')
        /\ (d \in active' => saved'[d] < Contents[d])
    BY <1>1, <1>3, <1>4
  <2>3. \A i \in active' : i \in DocumentSet \cap known' /\ saved'[i] < Contents[i]
    BY <1>1, <1>4, <2>2 DEF Inv, Running
  <2> QED  BY <1>1, <2>1, <2>2, <2>3 DEF Inv, Running
<1>7. \A s \in sent' : s \in sent \/ Proper(s)'
  <2>1. saved[d] + 1 < Contents[d] => version[d] + 1 \in Nat /\ version[d] + 1 <= Contents[d]
    BY <1>3
  <2> QED  BY <1>1, <1>2, <2>1 DEF Proper
<1> QED  BY <1>1, <1>5, <1>6, <1>7, ClientLemma

LEMMA ItemFailedStep == ASSUME Inv, NEW i \in Items, ItemFailed(i)  PROVE Inv'
<1>1. /\ UNCHANGED importServerVars /\ UNCHANGED <<importPhase, queue, known, version, saved, contentDone, sent>>
      /\ active' = active \ {i} /\ answer' = [answer EXCEPT ![i] = "none"]
  BY DEF ItemFailed, Leaves
<1>2. Remembered' /\ MadeItems' = MadeItems
  BY <1>1 DEF Inv, Remembered, MadeItems, importServerVars
<1>3. Running'
  BY <1>1, <1>2 DEF Inv, Running, WriteAnswers
<1> QED  BY <1>1, <1>2, <1>3, ClientLemma

LEMMA PhaseStep == ASSUME Inv, NextPhase \/ EndRun  PROVE Inv'
<1>1. /\ UNCHANGED stateVars /\ UNCHANGED importServerVars /\ UNCHANGED <<answer, sent>>
      /\ active = {} /\ active' = {} /\ importPhase' \in {"none", "documents", "content"}
      /\ queue' = Documents \/ (queue' = <<>> /\ importPhase' = "none")
  BY DEF NextPhase, EndRun, PhaseEnds
<1>2. queue' \in Seq(Items) /\ (importPhase' # "none" => queue' \in Seq(DocumentSet))
  <2>1. <<>> \in Seq(Items)
    OBVIOUS
  <2> QED  BY <1>1, <2>1, PlanLemma
<1>3. Running'
  BY <1>1, <1>2 DEF Inv, Running
<1> QED  BY <1>1, <1>3, SameStateLemma, ClientLemma

\* The user gives up, or the import is closed.
LEMMA FinishStep == ASSUME Inv, FinishWithFailures \/ FinishImport  PROVE Inv' /\ UNCHANGED <<made, content>>
<1>1. /\ UNCHANGED stateVars /\ UNCHANGED <<importPhase, queue, active, answer, sent, made, content>>
      /\ completed' \in BOOLEAN
  BY DEF FinishWithFailures, FinishImport, importServerVars, Inv, Served
<1>2. Served' /\ MadeItems' = MadeItems
  BY <1>1 DEF Inv, Served, MadeItems
<1>3. Remembered' /\ Running' /\ known' = known
  BY <1>1, <1>2 DEF Inv, Remembered, Running, stateVars
<1>4. \A r \in sent' : Proper(r)'
  BY <1>1, <1>3, ProperLemma DEF Inv
<1> QED  BY <1>1, <1>2, <1>3, <1>4 DEF Inv
-----------------------------------------------------------------------------
(* What a request does at the service. *)

\* The first copy of an item is made in its folder.
MakesItem(i) ==
  /\ i \in Items /\ i \notin MadeItems /\ HasParent(i)
  /\ made' = made \union {[item |-> i, parent |-> Parent[i], key |-> ItemKey(i)]}
  /\ content' = content

\* The next content of a document that was made is saved.
SavesContent(d) ==
  /\ d \in DocumentSet \cap MadeItems /\ content[d].batches < Contents[d]
  /\ content' = [content EXCEPT ![d] = [version |-> content[d].version + 1, batches |-> content[d].batches + 1]]
  /\ made' = made

LEMMA ApplyLemma ==
  ASSUME Inv, NEW r \in sent, Outcome(r) = "ok", Apply(r)
  PROVE  /\ ~completed
         /\ UNCHANGED <<made, content>> \/ MakesItem(r.item) \/ SavesContent(r.item)
         /\ r.kind = "make" => r.item \in MadeItems'
<1>1. Proper(r) /\ ~completed /\ IsAccepted(r)
  BY DEF Inv, Outcome
<1>2. CASE r.kind = "make" /\ \E m \in made : m.key = r.key
  <2>1. UNCHANGED <<made, content>>
    BY <1>2 DEF Apply
  <2>2. r.item \in MadeItems
    BY <1>1, <1>2 DEF Inv, Served, Proper, ItemKey, MadeItems
  <2> QED  BY <1>1, <2>1, <2>2 DEF MadeItems
<1>3. CASE r.kind = "make" /\ ~\E m \in made : m.key = r.key
  <2>1. /\ made' = made \union {[item |-> r.item, parent |-> r.parent, key |-> r.key]}
        /\ content' = content
    BY <1>3 DEF Apply
  <2>2. r.item \in Items /\ r.parent = Parent[r.item] /\ r.key = ItemKey(r.item) /\ HasParent(r.item)
    BY <1>1, <1>3 DEF Proper
  <2>3. \A m \in made : m.key = ItemKey(m.item)
    BY DEF Inv, Served
  <2>4. r.item \notin MadeItems
    BY <1>3, <2>2, <2>3 DEF MadeItems
  <2>5. r.item \in MadeItems'
    BY <2>1, AddItemLemma DEF MadeItems
  <2> QED  BY <1>1, <2>1, <2>2, <2>4, <2>5 DEF MakesItem
<1>4. CASE r.kind = "save" /\ r.key \in writes
  <2>1. UNCHANGED <<made, content>>
    BY <1>4 DEF Apply
  <2> QED  BY <1>1, <1>4, <2>1
<1>5. CASE r.kind = "save" /\ r.key \notin writes
  <2>1. made' = made
        /\ content' = [content EXCEPT ![r.item] = [version |-> content[r.item].version + 1,
                                                   batches |-> content[r.item].batches + 1]]
    BY <1>5 DEF Apply
  <2>2. r.item \in DocumentSet \cap MadeItems /\ r.base <= Contents[r.item] /\ r.base = content[r.item].version
    BY <1>1, <1>5 DEF Proper, IsAccepted, Inv, Remembered
  <2>3. content[r.item].version = content[r.item].batches + 1 /\ content[r.item].batches \in Nat
        /\ Contents[r.item] \in Nat
    BY <2>2, PlanLemma DEF Inv, Served
  <2>4. content[r.item].batches < Contents[r.item]
    BY <2>2, <2>3
  <2> QED  BY <1>1, <1>5, <2>1, <2>2, <2>4 DEF SavesContent
<1> QED  BY <1>1, <1>2, <1>3, <1>4, <1>5 DEF Proper

LEMMA ServedLemma ==
  ASSUME Served, UNCHANGED completed,
         UNCHANGED <<made, content>> \/ \E i \in Items : MakesItem(i) \/ SavesContent(i)
  PROVE  Served' /\ MadeItems \subseteq MadeItems'
<1>1. CASE UNCHANGED <<made, content>>
  BY <1>1 DEF Served, MadeItems
<1>2. ASSUME NEW i \in Items, MakesItem(i)  PROVE Served' /\ MadeItems \subseteq MadeItems'
  BY <1>2 DEF Served, MadeItems, MakesItem
<1>3. ASSUME NEW d \in Items, SavesContent(d)  PROVE Served' /\ MadeItems \subseteq MadeItems'
  <2>1. d \in DocumentSet /\ made' = made /\ content[d].version \in Nat /\ content[d].batches \in Nat
        /\ content[d].version = content[d].batches + 1
    BY <1>3 DEF SavesContent, Served
  <2>2. content' \in [DocumentSet -> [version : Nat, batches : Nat]]
    BY <1>3, <2>1 DEF SavesContent, Served
  <2>3. \A e \in DocumentSet : content'[e].version = content'[e].batches + 1
    BY <1>3, <2>1 DEF SavesContent, Served
  <2> QED  BY <2>1, <2>2, <2>3 DEF Served, MadeItems
<1> QED  BY <1>1, <1>2, <1>3

\* How a request that is served or not changes the state.
LEMMA RequestLemma ==
  ASSUME Inv, NEW r \in sent, ServeWrite(r) \/ TroubledWrite(r)
  PROVE  /\ UNCHANGED stateVars /\ UNCHANGED <<importPhase, queue, active, completed>> /\ sent' \subseteq sent
         /\ \/ UNCHANGED <<made, content>>
            \/ ~completed /\ (MakesItem(r.item) \/ SavesContent(r.item))
         /\ \/ answer' = answer
            \/ \E a \in WriteAnswers :
                 /\ answer' = [answer EXCEPT ![r.item] = a] /\ r.item \in active
                 /\ a = "ok" /\ importPhase # "content" => r.item \in MadeItems'
<1>1. Proper(r) /\ {"ok", "failed", "fatal"} \subseteq WriteAnswers
  BY DEF Inv, WriteAnswers
<1>2. CASE ServeWrite(r)
  <2>1. UNCHANGED stateVars /\ UNCHANGED <<importPhase, queue, active, completed>> /\ sent' \subseteq sent
    BY <1>2 DEF ServeWrite, AnsweredWrite
  <2>2. CASE Outcome(r) = "ok"
    <3>1. Apply(r)
      BY <1>2, <2>2 DEF ServeWrite
    <3> QED  BY <1>1, <1>2, <2>1, <2>2, <3>1, ApplyLemma DEF ServeWrite, AnsweredWrite, Proper
  <2>3. CASE Outcome(r) \in {"failed", "fatal"}
    BY <1>1, <1>2, <2>1, <2>3 DEF ServeWrite, AnsweredWrite
  <2> QED  BY <2>2, <2>3 DEF Outcome
<1>3. CASE TroubledWrite(r)
  <2>1. UNCHANGED stateVars /\ UNCHANGED <<importPhase, queue, active, completed>> /\ sent' \subseteq sent
    BY <1>3 DEF TroubledWrite, AnsweredWrite
  <2>2. CASE Outcome(r) = "ok" /\ AnsweredWrite(r, "failed") /\ Apply(r)
    BY <1>1, <2>1, <2>2, ApplyLemma DEF AnsweredWrite
  <2>3. ASSUME NEW a \in {"failed", "fatal"}, AnsweredWrite(r, a), UNCHANGED <<made, content>>
        PROVE  /\ UNCHANGED <<made, content>>
               /\ answer' = answer \/ (answer' = [answer EXCEPT ![r.item] = a] /\ r.item \in active)
    BY <2>3 DEF AnsweredWrite
  <2>4. CASE r.item \in active /\ answer' = [answer EXCEPT ![r.item] = "failed"] /\ UNCHANGED <<made, content>>
    BY <1>1, <2>1, <2>4
  <2> QED  BY <1>1, <1>3, <2>1, <2>2, <2>3, <2>4 DEF TroubledWrite
<1> QED  BY <1>2, <1>3

LEMMA ImportRequestStep == ASSUME Inv, NEW r \in sent, ServeWrite(r) \/ TroubledWrite(r)  PROVE Inv'
<1>1. r.item \in Items
  BY DEF Inv, Proper
<1>2. Served' /\ MadeItems \subseteq MadeItems'
  BY <1>1, RequestLemma, ServedLemma DEF Inv
<1>3. UNCHANGED stateVars /\ UNCHANGED <<importPhase, queue, active, completed>> /\ sent' \subseteq sent
  BY RequestLemma
<1>4. Remembered'
  BY <1>2, <1>3 DEF Inv, Remembered, stateVars
<1>5. Running'
  <2>1. CASE answer' = answer
    BY <1>2, <1>3, <2>1 DEF Inv, Running, stateVars
  <2>2. ASSUME NEW a \in WriteAnswers, answer' = [answer EXCEPT ![r.item] = a], r.item \in active,
               a = "ok" /\ importPhase # "content" => r.item \in MadeItems'
        PROVE  Running'
    <3>1. answer' \in [Items -> WriteAnswers] /\ answer'[r.item] = a
          /\ \A i \in Items : i # r.item => answer'[i] = answer[i]
      BY <1>1, <2>2 DEF Inv, Running
    <3> QED  BY <1>1, <1>2, <1>3, <2>2, <3>1 DEF Inv, Running, stateVars
  <2> QED  BY <2>1, <2>2, RequestLemma
<1>6. \A s \in sent' : Proper(s)'
  BY <1>3, ProperLemma DEF Inv, stateVars
<1> QED  BY <1>2, <1>4, <1>5, <1>6 DEF Inv
-----------------------------------------------------------------------------
LEMMA InitLemma == ImportInit => Inv
<1> SUFFICES ASSUME ImportInit  PROVE Inv
  OBVIOUS
<1>1. Served
  <2>1. content \in [DocumentSet -> [version : Nat, batches : Nat]]
        /\ \A d \in DocumentSet : content[d].version = content[d].batches + 1
    <3>1. content = [d \in DocumentSet |-> [version |-> 1, batches |-> 0]]
      BY DEF ImportInit
    <3> QED  BY <3>1
  <2> QED  BY <2>1 DEF ImportInit, Served
<1>2. Remembered
  BY PlanLemma DEF ImportInit, Remembered, NeedsContentPass
<1>3. Running
  <2>1. <<>> \in Seq(Items)
    OBVIOUS
  <2> QED  BY <2>1 DEF ImportInit, Running, WriteAnswers
<1> QED  BY <1>1, <1>2, <1>3 DEF ImportInit, Inv

LEMMA NextLemma == Inv /\ [ImportNext]_importVars => Inv'
<1> SUFFICES ASSUME Inv, [ImportNext]_importVars  PROVE Inv'
  OBVIOUS
<1>1. CASE UNCHANGED importVars
  BY <1>1, IdleStep DEF importVars, stateVars, importServerVars
<1>2. CASE Execute  BY <1>2, ExecuteStep
<1>3. CASE CancelImport  BY <1>3, CancelStep
<1>4. CASE FinishWithFailures \/ FinishImport  BY <1>4, FinishStep
<1>5. CASE RunStep  BY <1>5, StartStep, PhaseStep, MadeStep, BatchSavedStep, ItemFailedStep DEF RunStep
<1>6. CASE ServiceStep \/ \E r \in sent : TroubledWrite(r)  BY <1>6, ImportRequestStep DEF ServiceStep
<1> QED  BY <1>1, <1>2, <1>3, <1>4, <1>5, <1>6 DEF ImportNext
-----------------------------------------------------------------------------
(* The promise. *)

CopiesOf == [i \in Items |-> Cardinality(Copies(i))]
PlaceOf == [i \in Items |-> IF Copies(i) = {} THEN Root ELSE (CHOOSE m \in made : m.item = i).parent]
WrittenOf == [i \in Items |-> IF i \in DocumentSet THEN content[i].batches ELSE 0]

View ==
  /\ CopiesOf = [i \in Items |-> IF i \in MadeItems THEN 1 ELSE 0]
  /\ PlaceOf = [i \in Items |-> IF i \in MadeItems THEN Parent[i] ELSE Root]

LEMMA ViewLemma == Served => View
BY CopiesLemma DEF CopiesOf, PlaceOf, View

LEMMA NextViewLemma == Served' => View'
BY ViewLemma, PTL

\* What a step does to the promise: nothing, one item, one content, or the close.
LEMMA EffectLemma ==
  ASSUME Inv, [ImportNext]_importVars
  PROVE  \/ UNCHANGED <<made, content, completed>>
         \/ \E i \in Items : ~completed /\ completed' = completed /\ (MakesItem(i) \/ SavesContent(i))
         \/ UNCHANGED <<made, content>> /\ ~completed /\ completed' = TRUE
<1>1. CASE UNCHANGED importVars
  BY <1>1 DEF importVars
<1>2. CASE Execute \/ CancelImport \/ FinishWithFailures \/ RunStep
  BY <1>2 DEF Execute, CancelImport, FinishWithFailures, RunStep, StartItem, NextPhase, EndRun, Made, BatchSaved,
              ItemFailed, importServerVars
<1>3. CASE FinishImport
  BY <1>3 DEF FinishImport, Inv, Served
<1>4. ASSUME NEW r \in sent, ServeWrite(r) \/ TroubledWrite(r)
      PROVE  \/ UNCHANGED <<made, content, completed>>
             \/ \E i \in Items : ~completed /\ completed' = completed /\ (MakesItem(i) \/ SavesContent(i))
  <2>1. r.item \in Items
    BY DEF Inv, Proper
  <2> QED  BY <1>4, <2>1, RequestLemma
<1> QED  BY <1>1, <1>2, <1>3, <1>4 DEF ImportNext, ServiceStep

LEMMA MakesLemma ==
  ASSUME Served, Served', NEW i \in Items, MakesItem(i), ~completed, completed' = completed, known \subseteq MadeItems
  PROVE  Promise!Make(i)
<1>1. MadeItems' = MadeItems \union {i} /\ i \notin MadeItems
  BY AddItemLemma DEF MakesItem, MadeItems
<1>2. CopiesOf' = [CopiesOf EXCEPT ![i] = 1] /\ CopiesOf[i] = 0
  BY <1>1, ViewLemma, NextViewLemma DEF View
<1>3. PlaceOf' = [PlaceOf EXCEPT ![i] = Parent[i]]
  BY <1>1, ViewLemma, NextViewLemma DEF View
<1>4. WrittenOf' = WrittenOf
  BY DEF WrittenOf, MakesItem
<1>5. Parent[i] # Root => CopiesOf[Parent[i]] = 1
  <2>1. MadeItems \subseteq Items
    BY DEF Served, MadeItems
  <2> QED  BY <2>1, ViewLemma DEF View, MakesItem, HasParent
<1> QED  BY <1>2, <1>3, <1>4, <1>5 DEF Promise!Make, CopiesOf, PlaceOf, WrittenOf

LEMMA SavesLemma ==
  ASSUME Served, Served', NEW d \in Items, SavesContent(d), ~completed, completed' = completed
  PROVE  Promise!Write(d)
<1>1. MadeItems' = MadeItems /\ d \in MadeItems /\ d \in DocumentSet
  BY DEF SavesContent, MadeItems
<1>2. CopiesOf' = CopiesOf /\ CopiesOf[d] = 1 /\ PlaceOf' = PlaceOf
  BY <1>1, ViewLemma, NextViewLemma DEF View
<1>3. /\ WrittenOf \in [Items -> Nat] /\ WrittenOf[d] < Contents[d] /\ WrittenOf[d] = content[d].batches
      /\ \A e \in DocumentSet : WrittenOf[e] = content[e].batches
  BY <1>1, PlanLemma DEF WrittenOf, SavesContent, Served
<1>4. WrittenOf' = [WrittenOf EXCEPT ![d] = WrittenOf[d] + 1]
  <2>1. \A e \in DocumentSet : content'[e].batches = IF e = d THEN content[d].batches + 1 ELSE content[e].batches
    BY <1>1 DEF SavesContent, Served
  <2> QED  BY <1>1, <2>1 DEF WrittenOf
<1> QED  BY <1>2, <1>3, <1>4 DEF Promise!Write, CopiesOf, PlaceOf, WrittenOf

LEMMA SameViewLemma ==
  ASSUME UNCHANGED <<made, content>>
  PROVE  CopiesOf' = CopiesOf /\ PlaceOf' = PlaceOf /\ WrittenOf' = WrittenOf
BY DEF CopiesOf, PlaceOf, WrittenOf, Copies

\* Every step of the import is one the promise allows.
LEMMA PromiseStep ==
  ASSUME Inv, Inv', [ImportNext]_importVars
  PROVE  [Promise!Next]_Promise!promiseVars
<1>1. CASE UNCHANGED <<made, content, completed>>
  BY <1>1, SameViewLemma DEF Promise!promiseVars, CopiesOf, PlaceOf, WrittenOf
<1>2. ASSUME NEW i \in Items, ~completed, completed' = completed, MakesItem(i) \/ SavesContent(i)
      PROVE  Promise!Make(i) \/ Promise!Write(i)
  BY <1>2, MakesLemma, SavesLemma DEF Inv, Remembered
<1>3. CASE UNCHANGED <<made, content>> /\ ~completed /\ completed' = TRUE
  <2>1. Promise!Close
    BY <1>3, SameViewLemma DEF Promise!Close, CopiesOf, PlaceOf, WrittenOf
  <2> QED  BY <2>1 DEF Promise!Next
<1> QED  BY <1>1, <1>2, <1>3, EffectLemma DEF Promise!Next

LEMMA PromiseInit == ImportInit => Promise!Init
<1> SUFFICES ASSUME ImportInit  PROVE Promise!Init
  OBVIOUS
<1>1. MadeItems = {} /\ completed = FALSE
  BY DEF ImportInit, MadeItems
<1>2. CopiesOf = [i \in Items |-> 0] /\ PlaceOf = [i \in Items |-> Root]
  BY <1>1, InitLemma, ViewLemma DEF Inv, View
<1>3. WrittenOf = [i \in Items |-> 0]
  <2>1. content = [d \in DocumentSet |-> [version |-> 1, batches |-> 0]]
    BY DEF ImportInit
  <2> QED  BY <2>1 DEF WrittenOf
<1> QED  BY <1>1, <1>2, <1>3 DEF Promise!Init, CopiesOf, PlaceOf, WrittenOf

\* Whatever requests of the import fail, lose their answer, are sent again or come late: each item is made once, in
\* its folder, each of its contents is saved once, and nothing is after the import is closed (importRunner.ts).
THEOREM PromiseKeptTheorem == ImportSpec => PromiseKept
<1>1. ImportSpec => []Inv
  BY InitLemma, NextLemma, PTL DEF ImportSpec
<1>2. Inv /\ Inv' /\ [ImportNext]_importVars => [Promise!Next]_Promise!promiseVars
  BY PromiseStep
<1> QED  BY <1>1, <1>2, PromiseInit, PTL DEF ImportSpec, PromiseKept, Promise!Spec
-----------------------------------------------------------------------------
(* A success is complete. *)

InQueue(i) == \E n \in 1..Len(queue) : queue[n] = i
InHand(i) == i \in active \/ InQueue(i)

\* The item was made, or its failure is reported; so was its content saved.
MakeDone(i) == i \in known \/ [item |-> i, content |-> FALSE] \in failures
SaveDone(d) ==
  \/ d \notin known \/ ~NeedsContentPass(d) \/ d \in contentDone
  \/ [item |-> d, content |-> TRUE] \in failures

\* A document waits or is on its way, once.
QueueIsDrawn ==
  importPhase \in {"documents", "content"} =>
    /\ \A m, n \in 1..Len(queue) : queue[m] = queue[n] => m = n
    /\ \A i \in active : ~InQueue(i)

\* Nothing is passed over, unless the run stopped, which a failure tells.
Progress ==
  IsStopped \/
    /\ importPhase = "folders" => \A i \in FolderSet : InHand(i) \/ MakeDone(i)
    /\ importPhase \in {"documents", "content"} => \A i \in FolderSet : MakeDone(i)
    /\ importPhase = "documents" => \A d \in DocumentSet : InHand(d) \/ MakeDone(d)
    /\ importPhase = "content" => \A d \in DocumentSet : MakeDone(d) /\ (InHand(d) \/ SaveDone(d))
StoppedByFailure == stopped /\ ~aborted => \E f \in failures : f.item \notin active
EndedRun ==
  /\ screen = "preview" => importPhase = "none" /\ ~finishing
  /\ importPhase = "none" /\ screen # "preview" =>
       \/ aborted \/ failures # {}
       \/ Items \subseteq known /\ \A d \in DocumentSet : ~NeedsContentPass(d) \/ d \in contentDone

\* A write id was seen for a version that was replaced, and for each version one; what is sent again is of the
\* version the run knows.
SaveOf(w) == [kind |-> "save", item |-> w[1], parent |-> Root, key |-> w, base |-> w[2]]
IsSave(r) ==
  /\ r = SaveOf(r.key) /\ r.item \in DocumentSet /\ r.base \in Nat
  /\ r.base <= version[r.item]
  /\ r.key \in writes => r.base = version[r.item]
WritesInOrder ==
  /\ \A w \in writes : w[1] \in DocumentSet /\ w[2] \in Nat /\ w[2] < content[w[1]].version
  /\ \A w, u \in writes : w[1] = u[1] /\ w[2] = u[2] => w = u
  /\ \A r \in sent : r.kind = "save" => IsSave(r)

\* The service has the batches the run knows of; an answer is about one more, whose request is not on its way.
AnswersAreNew ==
  importPhase = "content" => \A d \in active : answer[d] = "ok" =>
    /\ saved[d] < content[d].batches
    /\ \A r \in sent : r.kind = "save" /\ r.item = d => r.key \notin writes
SavedIsTrue ==
  /\ \A d \in DocumentSet : saved[d] <= content[d].batches /\ content[d].batches <= Contents[d]
  /\ \A d \in contentDone : saved[d] = Contents[d]

Lines == QueueIsDrawn /\ Progress /\ StoppedByFailure /\ EndedRun
SInv == Inv /\ Lines /\ WritesInOrder /\ SavedIsTrue /\ AnswersAreNew
-----------------------------------------------------------------------------
LEMMA SInvImplies == SInv => SuccessIsComplete
<1> SUFFICES ASSUME SInv, importPhase = "none", screen # "preview", failures = {}, ~aborted
             PROVE  (\A i \in Items : Copies(i) # {}) /\ \A d \in DocumentSet : content[d].batches = Contents[d]
  BY DEF SuccessIsComplete
<1>1. Items \subseteq known /\ \A d \in DocumentSet : ~NeedsContentPass(d) \/ d \in contentDone
  BY DEF SInv, Lines, EndedRun
<1>2. \A i \in Items : Copies(i) # {}
  BY <1>1, CopiesLemma DEF SInv, Inv, Remembered
<1>3. ASSUME NEW d \in DocumentSet  PROVE content[d].batches = Contents[d]
  <2>1. content[d].batches \in Nat /\ saved[d] \in Nat /\ Contents[d] \in Nat
    BY PlanLemma DEF SInv, Inv, Served, Remembered
  <2>2. saved[d] <= content[d].batches /\ content[d].batches <= Contents[d]
    BY DEF SInv, SavedIsTrue
  <2>3. CASE d \in contentDone
    BY <2>1, <2>2, <2>3 DEF SInv, SavedIsTrue
  <2>4. CASE Contents[d] = 0
    BY <2>1, <2>2, <2>4
  <2> QED  BY <1>1, <2>1, <2>3, <2>4 DEF NeedsContentPass
<1> QED  BY <1>2, <1>3

LEMMA SInvInit == ImportInit => SInv
<1> SUFFICES ASSUME ImportInit  PROVE SInv
  OBVIOUS
<1>1. Inv
  BY InitLemma
<1>2. \A d \in DocumentSet : content[d].batches = 0 /\ saved[d] = 0 /\ Contents[d] \in Nat
  <2>1. content = [d \in DocumentSet |-> [version |-> 1, batches |-> 0]] /\ saved = [d \in DocumentSet |-> 0]
    BY DEF ImportInit
  <2> QED  BY <2>1, PlanLemma
<1>3. importPhase = "none" /\ screen = "preview" /\ ~finishing /\ ~stopped
      /\ writes = {} /\ sent = {} /\ contentDone = {}
  BY DEF ImportInit
<1>4. Lines
  BY <1>3 DEF Lines, QueueIsDrawn, Progress, StoppedByFailure, EndedRun
<1>5. WritesInOrder /\ SavedIsTrue /\ AnswersAreNew
  BY <1>2, <1>3 DEF WritesInOrder, SavedIsTrue, AnswersAreNew
<1> QED  BY <1>1, <1>4, <1>5 DEF SInv
-----------------------------------------------------------------------------
(* The lines of the run: what waits, is on its way, is done or is reported. *)

LEMMA ToSetLemma ==
  ASSUME NEW S, NEW q \in Seq(S)
  PROVE  \A i \in ToSet(q) : \E n \in 1..Len(q) : q[n] = i
BY DEF ToSet

LEMMA TailLemma ==
  ASSUME NEW S, NEW q \in Seq(S), q # <<>>
  PROVE  /\ Len(Tail(q)) = Len(q) - 1 /\ Len(q) \in Nat \ {0} /\ Head(q) = q[1]
         /\ \A n \in 1..Len(Tail(q)) : n + 1 \in 1..Len(q) /\ Tail(q)[n] = q[n + 1]
         /\ \A n \in 1..Len(q) : n = 1 \/ (n - 1 \in 1..Len(Tail(q)) /\ Tail(q)[n - 1] = q[n])
OBVIOUS

LEMMA SameLines ==
  ASSUME Lines, UNCHANGED <<importPhase, queue, active, known, contentDone, failures, stopped, aborted>>,
         UNCHANGED <<screen, finishing>>
  PROVE  Lines'
BY DEF Lines, QueueIsDrawn, Progress, StoppedByFailure, EndedRun, InHand, InQueue, MakeDone, SaveDone, IsStopped

LEMMA ExecuteLines == ASSUME Inv, Lines, Execute  PROVE Lines'
<1>1. /\ importPhase' = "folders" /\ queue' = Folders /\ screen' = "running"
      /\ ~stopped' /\ ~aborted' /\ active' = active /\ active = {}
  BY DEF Execute, Inv, Running
<1>2. \A i \in FolderSet : InQueue(i)'
  BY <1>1, PlanLemma, ToSetLemma DEF FolderSet, InQueue
<1>3. Progress'
  BY <1>1, <1>2 DEF Progress, InHand
<1> QED  BY <1>1, <1>3 DEF Lines, QueueIsDrawn, StoppedByFailure, EndedRun

LEMMA CancelLines == ASSUME Lines, CancelImport  PROVE Lines'
<1>1. /\ aborted' /\ screen = "running"
      /\ UNCHANGED <<importPhase, queue, active, stopped, screen, finishing>>
      /\ UNCHANGED <<known, failures, contentDone>>
  BY DEF CancelImport, importScreenVars, stateVars
<1> QED  BY <1>1 DEF Lines, QueueIsDrawn, Progress, StoppedByFailure, EndedRun, InQueue, IsStopped

LEMMA FinishLines == ASSUME Lines, FinishWithFailures \/ FinishImport  PROVE Lines'
<1>1. /\ UNCHANGED <<importPhase, queue, active, stopped, aborted>> /\ UNCHANGED <<known, failures, contentDone>>
      /\ screen # "preview" /\ screen' # "preview"
  BY DEF FinishWithFailures, FinishImport, stateVars, Lines, EndedRun
<1> QED  BY <1>1 DEF Lines, QueueIsDrawn, Progress, StoppedByFailure, EndedRun, InHand, InQueue, MakeDone, SaveDone,
         IsStopped

LEMMA NextPhaseLines == ASSUME Inv, Lines, NextPhase  PROVE Lines'
<1>1. /\ active = {} /\ queue = <<>> /\ ~IsStopped /\ queue' = Documents /\ importPhase \in {"folders", "documents"}
      /\ importPhase' = IF importPhase = "folders" THEN "documents" ELSE "content"
      /\ UNCHANGED <<active, stopped, aborted, screen, finishing>> /\ UNCHANGED <<known, failures, contentDone>>
  BY DEF NextPhase, PhaseEnds, importScreenVars, stateVars
<1>2. \A d \in DocumentSet : InQueue(d)'
  BY <1>1, PlanLemma, ToSetLemma DEF DocumentSet, InQueue
<1>3. \A i \in Items : ~InHand(i)
  BY <1>1 DEF InHand, InQueue
<1>4. /\ \A i \in FolderSet : MakeDone(i)
      /\ importPhase = "documents" => \A d \in DocumentSet : MakeDone(d)
  BY <1>1, <1>3 DEF Lines, Progress, Items
<1>5. Progress'
  BY <1>1, <1>2, <1>4 DEF Progress, InHand, MakeDone
<1>6. QueueIsDrawn'
  <2>1. \A m, n \in 1..Len(Documents) : Documents[m] = Documents[n] => m = n
    BY PlanLemma, ImportPlanAssumption DEF IsInjective
  <2> QED  BY <1>1, <2>1 DEF QueueIsDrawn
<1> QED  BY <1>1, <1>5, <1>6 DEF Lines, StoppedByFailure, EndedRun, IsStopped

LEMMA EndRunLines == ASSUME Inv, Lines, EndRun  PROVE Lines'
<1>1. /\ importPhase # "none" /\ active = {} /\ importPhase' = "none" /\ queue' = <<>>
      /\ (importPhase = "content" /\ queue = <<>>) \/ IsStopped
      /\ UNCHANGED <<active, stopped, aborted>> /\ UNCHANGED <<known, failures, contentDone>>
      /\ screen' \in {screen, "review"} /\ screen # "preview"
  BY DEF EndRun, PhaseEnds, stateVars, Lines, EndedRun
<1>2. \/ aborted \/ failures # {}
      \/ Items \subseteq known /\ (\A d \in DocumentSet : ~NeedsContentPass(d) \/ d \in contentDone)
  <2>1. CASE IsStopped
    BY <2>1 DEF Lines, StoppedByFailure, IsStopped
  <2>2. CASE ~IsStopped /\ failures = {}
    <3>1. \A d \in DocumentSet : ~InHand(d)
      BY <1>1, <2>2 DEF InHand, InQueue
    <3>2. /\ \A i \in FolderSet : MakeDone(i)
          /\ \A d \in DocumentSet : MakeDone(d) /\ SaveDone(d)
      BY <1>1, <2>2, <3>1 DEF Lines, Progress
    <3> QED  BY <2>2, <3>2 DEF MakeDone, SaveDone, Items
  <2> QED  BY <2>1, <2>2
<1>3. EndedRun'
  BY <1>1, <1>2 DEF EndedRun
<1> QED  BY <1>1, <1>3 DEF Lines, QueueIsDrawn, Progress, StoppedByFailure, IsStopped

\* An item leaves the line when it is started, or done.
LEMMA LeavesLines ==
  ASSUME Lines, NEW i \in Items, i \in active, importPhase # "none",
         UNCHANGED <<importPhase, queue, aborted, screen, finishing>>, active' = active \ {i},
         known \subseteq known', contentDone \subseteq contentDone', \A j \in known' \ known : importPhase # "content",
         \A f \in failures : f \in failures' \/ f.item = i,
         \A j \in Items :
           j # i /\ [item |-> j, content |-> FALSE] \in failures => [item |-> j, content |-> FALSE] \in failures',
         \A j \in Items :
           j # i /\ [item |-> j, content |-> TRUE] \in failures => [item |-> j, content |-> TRUE] \in failures',
         IsStopped' \/ (MakeDone(i)' /\ (importPhase = "content" => SaveDone(i)')),
         IsStopped => IsStopped',
         stopped' => stopped \/ \E f \in failures' : f.item = i
  PROVE  Lines'
<1>1. QueueIsDrawn'
  BY DEF Lines, QueueIsDrawn, InQueue
<1>2. StoppedByFailure'
  BY DEF Lines, StoppedByFailure
<1>3. EndedRun'
  BY DEF Lines, EndedRun
<1>4. Progress'
  <2> SUFFICES ASSUME ~IsStopped'  PROVE Progress'
    BY DEF Progress
  <2>1. ~IsStopped /\ MakeDone(i)' /\ (importPhase = "content" => SaveDone(i)')
    OBVIOUS
  <2>2. \A j \in Items : MakeDone(j) => MakeDone(j)'
    BY <2>1 DEF MakeDone
  <2>3. importPhase = "content" => \A j \in Items : SaveDone(j) => SaveDone(j)'
    BY <2>1 DEF SaveDone, NeedsContentPass
  <2>4. \A j \in Items : InHand(j) => InHand(j)' \/ j = i
    BY DEF InHand, InQueue
  <2> QED  BY <2>1, <2>2, <2>3, <2>4 DEF Lines, Progress, Items
<1> QED  BY <1>1, <1>2, <1>3, <1>4 DEF Lines

LEMMA MadeLines == ASSUME Inv, Lines, NEW i \in Items, Made(i)  PROVE Lines'
<1>1. /\ i \in active /\ importPhase # "content" /\ known' = known \union {i} /\ active' = active \ {i}
      /\ failures' = failures \ {[item |-> i, content |-> FALSE]}
      /\ UNCHANGED <<importPhase, queue, aborted, stopped, screen, finishing, contentDone>>
  BY DEF Made, Leaves, Failure, importScreenVars
<1>2. importPhase # "none"
  BY <1>1 DEF Inv, Running
<1>3. MakeDone(i)'
  BY <1>1 DEF MakeDone
<1> QED  BY <1>1, <1>2, <1>3, LeavesLines DEF IsStopped

LEMMA BatchSavedLines == ASSUME Inv, Lines, NEW d \in Items, BatchSaved(d)  PROVE Lines'
<1>1. /\ d \in active /\ importPhase = "content"
      /\ UNCHANGED <<importPhase, queue, known, aborted, stopped, screen, finishing>>
      /\ \/ /\ contentDone' = contentDone \union {d} /\ active' = active \ {d}
            /\ failures' = failures \ {[item |-> d, content |-> TRUE]}
         \/ IsStopped /\ active' = active \ {d} /\ UNCHANGED contentDone /\ failures \subseteq failures'
         \/ UNCHANGED <<active, contentDone, failures>>
  BY DEF BatchSaved, Leaves, Failure, importScreenVars
<1>2. CASE contentDone' = contentDone \union {d} /\ active' = active \ {d}
           /\ failures' = failures \ {[item |-> d, content |-> TRUE]}
  <2>1. d \in DocumentSet
    BY <1>1 DEF Inv, Running
  <2>2. SaveDone(d)' /\ (IsStopped \/ MakeDone(d))
    BY <1>1, <1>2, <2>1 DEF SaveDone, Lines, Progress
  <2>3. IsStopped' \/ MakeDone(d)'
    BY <1>1, <1>2, <2>2 DEF MakeDone, IsStopped
  <2> QED  BY <1>1, <1>2, <2>2, <2>3, LeavesLines DEF IsStopped
<1>3. CASE IsStopped /\ active' = active \ {d} /\ UNCHANGED contentDone /\ failures \subseteq failures'
  BY <1>1, <1>3, LeavesLines DEF IsStopped
<1>4. CASE UNCHANGED <<active, contentDone, failures>>
  BY <1>1, <1>4, SameLines
<1> QED  BY <1>1, <1>2, <1>3, <1>4

LEMMA ItemFailedLines == ASSUME Inv, Lines, NEW i \in Items, ItemFailed(i)  PROVE Lines'
<1>1. /\ i \in active /\ active' = active \ {i}
      /\ failures' = IF aborted THEN failures ELSE failures \union {[item |-> i, content |-> importPhase = "content"]}
      /\ stopped' => stopped \/ ~aborted
      /\ stopped => stopped'
      /\ UNCHANGED <<importPhase, queue, known, contentDone, aborted, screen, finishing>>
  BY DEF ItemFailed, Leaves, Failure, importScreenVars
<1>2. importPhase # "none"
  BY <1>1 DEF Inv, Running
<1>3. IsStopped' \/ (MakeDone(i)' /\ (importPhase = "content" => SaveDone(i)'))
  <2>1. CASE IsStopped
    BY <1>1, <2>1 DEF IsStopped
  <2>2. CASE ~IsStopped /\ importPhase = "content"
    <3>1. i \in DocumentSet
      BY <1>1, <2>2 DEF Inv, Running
    <3>2. MakeDone(i)
      BY <2>2, <3>1 DEF Lines, Progress
    <3>3. failures' = failures \union {[item |-> i, content |-> TRUE]}
      BY <1>1, <2>2 DEF IsStopped
    <3> QED  BY <1>1, <3>2, <3>3 DEF MakeDone, SaveDone
  <2>3. CASE ~IsStopped /\ importPhase # "content"
    <3>1. failures' = failures \union {[item |-> i, content |-> FALSE]}
      BY <1>1, <2>3 DEF IsStopped
    <3> QED  BY <2>3, <3>1 DEF MakeDone
  <2> QED  BY <2>1, <2>2, <2>3
<1>4. stopped' => stopped \/ \E f \in failures' : f.item = i
  <2>1. CASE aborted
    BY <1>1, <2>1
  <2>2. CASE ~aborted
    <3> DEFINE f == [item |-> i, content |-> importPhase = "content"]
    <3>1. f.item = i
      OBVIOUS
    <3>2. f \in failures'
      BY <1>1, <2>2
    <3> HIDE DEF f
    <3> QED  BY <3>1, <3>2
  <2> QED  BY <2>1, <2>2
<1>5. failures \subseteq failures'
  BY <1>1
<1> QED  BY <1>1, <1>2, <1>3, <1>4, <1>5, LeavesLines DEF IsStopped

\* What is taken from the queue is on its way, done, or reported.
LEMMA StartLines == ASSUME Inv, Lines, StartItem  PROVE Lines'
<1>0. PICK i : i = Head(queue)
  OBVIOUS
<1> DEFINE isContent == importPhase = "content"
           f == [item |-> i, content |-> isContent]
<1>1. /\ importPhase # "none" /\ queue # <<>> /\ queue' = Tail(queue) /\ ~(importPhase = "folders" /\ IsStopped)
      /\ UNCHANGED <<importPhase, known, contentDone, stopped, aborted, screen, finishing>>
      /\ \/ Skips(i) /\ UNCHANGED <<failures, active>>
         \/ ~Skips(i) /\ ~isContent /\ failures' = failures \union {f} /\ UNCHANGED active
         \/ IsStopped /\ UNCHANGED <<failures, active>>
         \/ ~IsStopped /\ active' = active \union {i} /\ UNCHANGED failures
  BY <1>0 DEF StartItem, Failure, importScreenVars
<1>2. /\ i \in Items /\ queue \in Seq(Items)
      /\ importPhase \in {"documents", "content"} => i \in DocumentSet
  BY <1>0, <1>1, QueueLemma DEF Inv, Running
<1>3. /\ \A j : InQueue(j) => j = i \/ InQueue(j)'
      /\ \A j : InQueue(j)' => InQueue(j)
      /\ InQueue(i)
      /\ importPhase \in {"documents", "content"} => ~InQueue(i)'
      /\ importPhase \in {"documents", "content"} =>
           \A m, n \in 1..Len(queue') : queue'[m] = queue'[n] => m = n
  <2>1. /\ Len(queue') = Len(queue) - 1 /\ Len(queue) \in Nat \ {0} /\ i = queue[1]
        /\ \A n \in 1..Len(queue') : n + 1 \in 1..Len(queue) /\ queue'[n] = queue[n + 1]
        /\ \A n \in 1..Len(queue) : n = 1 \/ (n - 1 \in 1..Len(queue') /\ queue'[n - 1] = queue[n])
    BY <1>0, <1>1, <1>2, TailLemma
  <2>2. \A n \in 1..Len(queue') : n \in Nat /\ n + 1 # 1
    BY <2>1
  <2>3. 1 \in 1..Len(queue)
    BY <2>1
  <2>4. \A m, n \in 1..Len(queue') : m + 1 = n + 1 => m = n
    BY <2>2
  <2>5. importPhase \in {"documents", "content"} =>
          (\A m, n \in 1..Len(queue') : queue'[m] = queue'[n] => m = n) /\ ~InQueue(i)'
    <3> SUFFICES ASSUME importPhase \in {"documents", "content"}
                 PROVE  (\A m, n \in 1..Len(queue') : queue'[m] = queue'[n] => m = n) /\ ~InQueue(i)'
      OBVIOUS
    <3>1. \A m, n \in 1..Len(queue) : queue[m] = queue[n] => m = n
      BY DEF Lines, QueueIsDrawn
    <3> QED  BY <2>1, <2>2, <2>3, <2>4, <3>1 DEF InQueue
  <2>6. \A j : InQueue(j) => j = i \/ InQueue(j)'
    BY <2>1 DEF InQueue
  <2>7. (\A j : InQueue(j)' => InQueue(j)) /\ InQueue(i)
    BY <2>1, <2>3 DEF InQueue
  <2> QED  BY <2>5, <2>6, <2>7
<1>4. QueueIsDrawn'
  <2> SUFFICES ASSUME importPhase \in {"documents", "content"}
               PROVE  /\ \A m, n \in 1..Len(queue') : queue'[m] = queue'[n] => m = n
                      /\ \A j \in active' : ~InQueue(j)'
    BY <1>1 DEF QueueIsDrawn
  <2> QED  BY <1>1, <1>3 DEF Lines, QueueIsDrawn
<1>5. StoppedByFailure'
  BY <1>1 DEF Lines, StoppedByFailure, IsStopped
<1>6. EndedRun'
  BY <1>1 DEF Lines, EndedRun
<1>7. Progress'
  <2> SUFFICES ASSUME ~IsStopped  PROVE Progress'
    BY <1>1 DEF Progress, IsStopped
  <2>1. \A j : (MakeDone(j) => MakeDone(j)') /\ (SaveDone(j) => SaveDone(j)')
    BY <1>1 DEF MakeDone, SaveDone, NeedsContentPass
  <2>2. InHand(i)' \/ (IF isContent THEN SaveDone(i)' ELSE MakeDone(i)')
    <3>1. CASE ~isContent /\ failures' = failures \union {f}
      <4>1. f = [item |-> i, content |-> FALSE]
        BY <3>1
      <4> QED  BY <3>1, <4>1 DEF MakeDone
    <3>2. CASE Skips(i) /\ UNCHANGED failures
      BY <1>1, <3>2 DEF Skips, MakeDone, SaveDone, NeedsContentPass
    <3>3. CASE active' = active \union {i}
      BY <3>3 DEF InHand
    <3> QED  BY <1>1, <3>1, <3>2, <3>3
  <2>3. \A j : InHand(j) => j = i \/ InHand(j)'
    BY <1>1, <1>3 DEF InHand
  <2> QED  BY <1>1, <2>1, <2>2, <2>3 DEF Lines, Progress, IsStopped
<1> QED  BY <1>4, <1>5, <1>6, <1>7 DEF Lines
-----------------------------------------------------------------------------
(* What is saved. *)

SavesInv == WritesInOrder /\ SavedIsTrue /\ AnswersAreNew

\* No content is sent, served or remembered.
LEMMA SameSaves ==
  ASSUME SavesInv, UNCHANGED <<version, saved, contentDone, content, writes>>,
         \A r \in sent' : r \in sent \/ r.kind = "make",
         importPhase' = "content" =>
           \A d \in active' : answer'[d] = "ok" => importPhase = "content" /\ d \in active /\ answer[d] = "ok"
  PROVE  SavesInv'
<1>1. \A r \in sent' : r.kind = "save" => r \in sent
  OBVIOUS
<1> QED  BY <1>1 DEF SavesInv, WritesInOrder, SavedIsTrue, AnswersAreNew, IsSave, SaveOf

LEMMA UserSaves == ASSUME Inv, SavesInv, Execute \/ CancelImport \/ FinishWithFailures \/ FinishImport  PROVE SavesInv'
<1>1. /\ UNCHANGED <<version, saved, contentDone, content, writes, sent, active>>
      /\ importPhase' = "content" => importPhase = "content"
  BY DEF Execute, CancelImport, FinishWithFailures, FinishImport, stateVars, importServerVars
<1>2. CASE answer' = answer
  BY <1>1, <1>2, SameSaves
<1>3. CASE CancelImport
  <2>1. \A d \in active' : answer'[d] = "ok" => d \in active /\ answer[d] = "ok"
    BY <1>1, <1>3 DEF CancelImport, Inv, Running
  <2> QED  BY <1>1, <2>1, SameSaves
<1> QED  BY <1>2, <1>3 DEF Execute, FinishWithFailures, FinishImport

LEMMA PhaseSaves == ASSUME SavesInv, NextPhase \/ EndRun  PROVE SavesInv'
<1>1. UNCHANGED <<version, saved, contentDone, content, writes, sent, active, answer>> /\ active = {}
  BY DEF NextPhase, EndRun, PhaseEnds, stateVars, importServerVars
<1> QED  BY <1>1, SameSaves

LEMMA LeavesSaves == ASSUME Inv, SavesInv, NEW i \in Items, Made(i) \/ ItemFailed(i)  PROVE SavesInv'
<1>1. /\ UNCHANGED <<version, saved, contentDone, content, writes, sent, importPhase>>
      /\ active' = active \ {i} /\ answer' = [answer EXCEPT ![i] = "none"]
  BY DEF Made, ItemFailed, Leaves, importServerVars
<1>2. \A d \in active' : d # i /\ d \in active /\ answer'[d] = answer[d]
  BY <1>1 DEF Inv, Running
<1> QED  BY <1>1, <1>2, SameSaves

LEMMA StartSaves == ASSUME Inv, Lines, SavesInv, StartItem  PROVE SavesInv'
<1>0. PICK i : i = Head(queue)
  OBVIOUS
<1>1. /\ UNCHANGED <<importPhase, answer, version, saved, contentDone, content, writes>> /\ queue # <<>>
      /\ \/ UNCHANGED <<active, sent>>
         \/ /\ active' = active \union {i}
            /\ sent' = sent \union {IF importPhase = "content" THEN SaveRequest(i, version[i]) ELSE MakeRequest(i)}
  BY <1>0 DEF StartItem, importServerVars
<1>2. CASE UNCHANGED <<active, sent>>
  BY <1>1, <1>2, SameSaves
<1>3. CASE importPhase # "content" /\ sent' = sent \union {MakeRequest(i)}
  <2>1. MakeRequest(i).kind = "make"
    BY DEF MakeRequest
  <2> QED  BY <1>1, <1>3, <2>1, SameSaves
<1>4. CASE importPhase = "content" /\ active' = active \union {i} /\ sent' = sent \union {SaveRequest(i, version[i])}
  <2>1. i \in DocumentSet /\ i \notin active /\ answer[i] = "none"
    <3>1. queue \in Seq(DocumentSet)
      BY <1>4 DEF Inv, Running
    <3>2. i \in DocumentSet /\ i = queue[1] /\ 1 \in 1..Len(queue)
      BY <1>0, <1>1, <3>1, QueueLemma, TailLemma
    <3>3. i \notin active
      BY <1>4, <3>2 DEF Lines, QueueIsDrawn, InQueue
    <3> QED  BY <3>2, <3>3, PlanLemma DEF Inv, Running
  <2>2. PICK r : r = SaveRequest(i, version[i])
    OBVIOUS
  <2>3. r = SaveOf(r.key) /\ r.item = i /\ r.base = version[i] /\ r.kind = "save"
    BY <2>2 DEF SaveRequest, WriteId, SaveOf
  <2>4. version[i] \in Nat
    BY <2>1 DEF Inv, Remembered
  <2>5. IsSave(r)'
    BY <1>1, <2>1, <2>3, <2>4 DEF IsSave, SaveOf
  <2>6. WritesInOrder'
    <3>1. \A q \in sent' : q \in sent \/ q = r
      BY <1>4, <2>2
    <3>2. \A q \in sent : q.kind = "save" => IsSave(q)'
      BY <1>1 DEF SavesInv, WritesInOrder, IsSave, SaveOf
    <3> QED  BY <1>1, <2>5, <3>1, <3>2 DEF SavesInv, WritesInOrder
  <2>7. AnswersAreNew'
    BY <1>1, <1>4, <2>1, <2>2, <2>3 DEF SavesInv, AnswersAreNew
  <2> QED  BY <1>1, <2>6, <2>7 DEF SavesInv, SavedIsTrue
<1> QED  BY <1>1, <1>2, <1>3, <1>4

\* The service has one batch more than the run knew; the next is sent for the version that made.
LEMMA BatchSavedSaves == ASSUME Inv, SavesInv, NEW d \in Items, BatchSaved(d)  PROVE SavesInv'
<1>0. PICK k : k = WriteId(d, version[d] + 1)
  OBVIOUS
<1>1. /\ d \in active /\ importPhase = "content" /\ answer[d] = "ok" /\ UNCHANGED <<importPhase, content, writes>>
      /\ version' = [version EXCEPT ![d] = version[d] + 1] /\ saved' = [saved EXCEPT ![d] = saved[d] + 1]
      /\ answer' = [answer EXCEPT ![d] = "none"] /\ active' \subseteq active
      /\ \/ contentDone' = contentDone \union {d} /\ saved[d] + 1 = Contents[d] /\ UNCHANGED sent
         \/ contentDone' = contentDone /\ (UNCHANGED sent \/ sent' = sent \union {SaveOf(k)})
  <2>1. SaveRequest(d, version[d] + 1) = SaveOf(k)
    BY <1>0 DEF SaveRequest, SaveOf, WriteId
  <2> QED  BY <1>0, <2>1 DEF BatchSaved, Leaves, Remembers, NextVersion, importServerVars
<1>2. d \in DocumentSet /\ saved[d] < Contents[d]
  BY <1>1 DEF Inv, Running
<1>3. /\ version[d] \in Nat /\ saved[d] \in Nat /\ Contents[d] \in Nat /\ content[d].batches \in Nat
      /\ version'[d] = version[d] + 1 /\ saved'[d] = saved[d] + 1
      /\ \A e \in DocumentSet : e # d => version'[e] = version[e] /\ saved'[e] = saved[e]
  BY <1>1, <1>2, PlanLemma DEF Inv, Remembered, Served
<1>4. k[1] = d /\ k[2] = version[d] + 1
  BY <1>0 DEF WriteId
<1>5. saved[d] < content[d].batches /\ \A r \in sent : r.kind = "save" /\ r.item = d => r.key \notin writes
  BY <1>1 DEF SavesInv, AnswersAreNew
<1>6. \A r \in sent : r.kind = "save" => IsSave(r)'
  <2> SUFFICES ASSUME NEW r \in sent, r.kind = "save"  PROVE IsSave(r)'
    OBVIOUS
  <2>1. IsSave(r) /\ (r.item = d => r.key \notin writes) /\ r.base \in Nat /\ r.item \in DocumentSet
    BY <1>5 DEF SavesInv, WritesInOrder, IsSave
  <2>2. r.base <= version'[r.item]
    BY <1>3, <2>1 DEF IsSave
  <2> QED  BY <1>1, <1>3, <2>1, <2>2 DEF IsSave, SaveOf
<1>7. IsSave(SaveOf(k))'
  <2>1. SaveOf(k) = SaveOf(SaveOf(k).key) /\ SaveOf(k).item = d /\ SaveOf(k).base = version[d] + 1
    BY <1>4 DEF SaveOf
  <2> QED  BY <1>2, <1>3, <2>1 DEF IsSave, SaveOf
<1>8. WritesInOrder'
  BY <1>1, <1>6, <1>7 DEF SavesInv, WritesInOrder
<1>9. SavedIsTrue'
  <2>1. \A e \in DocumentSet : saved'[e] <= content[e].batches
    BY <1>3, <1>5 DEF SavesInv, SavedIsTrue
  <2>2. d \notin contentDone
    BY <1>2, <1>3 DEF SavesInv, SavedIsTrue
  <2>3. \A e \in contentDone : e # d /\ saved'[e] = saved[e]
    BY <1>1, <2>2 DEF Inv, Remembered
  <2> QED  BY <1>1, <1>3, <2>1, <2>3 DEF SavesInv, SavedIsTrue
<1>10. AnswersAreNew'
  <2>1. \A e \in active' : answer'[e] = "ok" => e \in active /\ e # d /\ answer[e] = "ok"
    BY <1>1 DEF Inv, Running
  <2>2. \A e \in active : e # d => saved'[e] = saved[e]
    BY <1>1 DEF Inv, Running, Remembered
  <2>3. \A r \in sent' : r \in sent \/ r.item = d
    BY <1>1, <1>4 DEF SaveOf
  <2> QED  BY <1>1, <2>1, <2>2, <2>3 DEF SavesInv, AnswersAreNew
<1> QED  BY <1>8, <1>9, <1>10 DEF SavesInv
-----------------------------------------------------------------------------
(* What a save does at the service, and what its answer says. *)

\* The service sees the write id for the first time.
SeesWrite(r) ==
  /\ r.key \notin writes /\ r.base = content[r.item].version
  /\ writes' = writes \union {r.key}
  /\ content' = [content EXCEPT ![r.item] = [version |-> @.version + 1, batches |-> @.batches + 1]]

Unseen == UNCHANGED <<content, writes>>

LEMMA SaveOutcome ==
  ASSUME NEW r \in sent, r.kind \in {"make", "save"}, ServeWrite(r) \/ TroubledWrite(r)
  PROVE  /\ sent' \subseteq sent
         /\ \/ Unseen /\ (answer' = answer \/ (\E a \in {"failed", "fatal"} : answer' = [answer EXCEPT ![r.item] = a]))
            \/ Unseen /\ r.kind = "make" /\ (answer' = answer \/ importPhase # "content")
            \/ /\ r.kind # "make" /\ sent' = sent \ {r} /\ (SeesWrite(r) \/ (Unseen /\ r.key \in writes))
               /\ answer' \in {answer, [answer EXCEPT ![r.item] = "ok"], [answer EXCEPT ![r.item] = "failed"]}
<1>1. ASSUME NEW a, AnsweredWrite(r, a)
      PROVE  /\ sent' = sent \ {r} /\ answer' \in {answer, [answer EXCEPT ![r.item] = a]}
             /\ r.kind = "make" => (answer' = answer \/ importPhase # "content")
  BY <1>1 DEF AnsweredWrite
<1>2. ASSUME Outcome(r) = "ok", Apply(r)
      PROVE  \/ r.kind = "make" /\ Unseen
             \/ r.kind # "make" /\ (SeesWrite(r) \/ (Unseen /\ r.key \in writes))
  BY <1>2 DEF Outcome, IsAccepted, Apply, SeesWrite, Unseen
<1>3. CASE ServeWrite(r) /\ Outcome(r) = "ok"
  BY <1>1, <1>2, <1>3 DEF ServeWrite
<1>4. CASE ServeWrite(r) /\ Outcome(r) # "ok"
  <2>1. Outcome(r) \in {"failed", "fatal"} /\ Unseen /\ AnsweredWrite(r, Outcome(r))
    BY <1>4 DEF ServeWrite, Outcome, Unseen
  <2> QED  BY <1>1, <2>1
<1>5. CASE Outcome(r) = "ok" /\ AnsweredWrite(r, "failed") /\ Apply(r)
  BY <1>1, <1>2, <1>5
<1>6. CASE TroubledWrite(r)
  BY <1>1, <1>5, <1>6 DEF TroubledWrite, Unseen
<1> QED  BY <1>3, <1>4, <1>6

LEMMA RequestSaves == ASSUME Inv, Inv', SavesInv, NEW r \in sent, ServeWrite(r) \/ TroubledWrite(r)  PROVE SavesInv'
<1>1. /\ UNCHANGED <<known, version, saved, contentDone>> /\ UNCHANGED <<importPhase, active>> /\ sent' \subseteq sent
      /\ r.item \in Items /\ r.kind \in {"make", "save"}
  BY RequestLemma DEF stateVars, Inv, Proper
<1>2. ASSUME Unseen,
             \/ answer' = answer \/ importPhase # "content"
             \/ \E a \in {"failed", "fatal"} : answer' = [answer EXCEPT ![r.item] = a]
      PROVE  SavesInv'
  <2>1. importPhase = "content" => \A d \in active : answer'[d] = "ok" => answer[d] = "ok"
    BY <1>1, <1>2 DEF Inv, Running
  <2> QED  BY <1>1, <1>2, <2>1, SameSaves DEF Unseen
<1>3. ASSUME r.kind = "save", sent' = sent \ {r}, SeesWrite(r) \/ (Unseen /\ r.key \in writes),
             answer' \in {answer, [answer EXCEPT ![r.item] = "ok"], [answer EXCEPT ![r.item] = "failed"]}
      PROVE  SavesInv'
  <2> DEFINE d == r.item
             w == r.key
  <2>1. /\ r = SaveOf(w) /\ d \in DocumentSet /\ r.base \in Nat /\ r.base <= version[d] /\ w[1] = d /\ w[2] = r.base
        /\ w \in writes => r.base = version[d]
    <3>1. IsSave(r)
      BY <1>3 DEF SavesInv, WritesInOrder
    <3>2. r.item = w[1] /\ r.base = w[2]
      BY <3>1 DEF IsSave, SaveOf
    <3> QED  BY <3>1, <3>2 DEF IsSave
  <2>2. \A e \in DocumentSet : /\ content[e].version \in Nat /\ content[e].batches \in Nat /\ version[e] \in Nat
                               /\ saved[e] \in Nat /\ version[e] = saved[e] + 1 /\ saved[e] <= content[e].batches
                               /\ content[e].version = content[e].batches + 1
    BY DEF Inv, Served, Remembered, SavesInv, SavedIsTrue
  <2>3. \A e \in DocumentSet : /\ content[e].version <= content'[e].version /\ content'[e].version \in Nat
                               /\ content[e].batches <= content'[e].batches /\ content'[e].batches \in Nat
                               /\ content'[e].version = content'[e].batches + 1
    <3>1. \A e \in DocumentSet : content'[e].version \in Nat /\ content'[e].batches \in Nat
                                 /\ content'[e].version = content'[e].batches + 1
      BY DEF Inv, Served
    <3>2. CASE Unseen
      BY <2>2, <3>2 DEF Unseen
    <3>3. CASE SeesWrite(r)
      <4>1. \A e \in DocumentSet : content'[e].version = content[e].version + (IF e = d THEN 1 ELSE 0)
        BY <2>1, <3>3 DEF SeesWrite, Inv, Served
      <4> QED  BY <2>2, <3>1, <4>1
    <3> QED  BY <1>3, <3>2, <3>3
  <2>4. version[d] < content'[d].version /\ w \in writes' /\ r.base = version[d]
        /\ \A u \in writes' : u = w \/ u \in writes
    <3>1. CASE Unseen /\ w \in writes
      <4>1. w[2] < content[w[1]].version
        BY <3>1 DEF SavesInv, WritesInOrder
      <4> QED  BY <2>1, <2>2, <3>1, <4>1 DEF Unseen
    <3>2. CASE SeesWrite(r)
      <4>1. content'[d].version = content[d].version + 1
        BY <2>1, <3>2 DEF SeesWrite, Inv, Served
      <4> QED  BY <2>1, <2>2, <3>2, <4>1 DEF SeesWrite
    <3> QED  BY <1>3, <3>1, <3>2
  <2>5. \A u \in writes : u = w \/ ~(u[1] = d /\ u[2] = r.base)
    <3>1. CASE w \in writes
      BY <2>1, <3>1 DEF SavesInv, WritesInOrder
    <3>2. CASE SeesWrite(r)
      BY <2>1, <2>2, <3>2 DEF SeesWrite, SavesInv, WritesInOrder
    <3> QED  BY <1>3, <3>1, <3>2
  <2>6. \A u \in writes' : u[1] \in DocumentSet /\ u[2] \in Nat /\ u[2] < content'[u[1]].version
    <3>1. \A u \in writes : u[1] \in DocumentSet /\ u[2] \in Nat /\ u[2] < content[u[1]].version
      BY DEF SavesInv, WritesInOrder
    <3> QED  BY <2>1, <2>2, <2>3, <2>4, <3>1
  <2>7. \A u, v \in writes' : u[1] = v[1] /\ u[2] = v[2] => u = v
    <3>1. \A u, v \in writes : u[1] = v[1] /\ u[2] = v[2] => u = v
      BY DEF SavesInv, WritesInOrder
    <3> QED  BY <2>1, <2>4, <2>5, <3>1
  \* No other request of this document that is still on its way was seen.
  <2>8. \A q \in sent' : q.kind = "save" => IsSave(q)' /\ (q.item = d => q.key \notin writes')
    <3> SUFFICES ASSUME NEW q \in sent', q.kind = "save"
                 PROVE  IsSave(q)' /\ (q.item = d => q.key \notin writes')
      OBVIOUS
    <3>1. q \in sent /\ q # r /\ IsSave(q)
      BY <1>3 DEF SavesInv, WritesInOrder
    <3>2. q.key # w /\ q.item = q.key[1] /\ q.base = q.key[2] /\ q = SaveOf(q.key)
      BY <2>1, <3>1 DEF IsSave, SaveOf
    <3>3. q.key \in writes' => q.key \in writes
      BY <2>4, <3>2
    <3>4. q.item = d => q.key \notin writes
      BY <2>4, <2>5, <3>1, <3>2 DEF IsSave
    <3> QED  BY <1>1, <3>1, <3>2, <3>3, <3>4 DEF IsSave, SaveOf
  <2>9. WritesInOrder'
    BY <2>6, <2>7, <2>8 DEF WritesInOrder
  <2>10. SavedIsTrue'
    <3>1. \A e \in DocumentSet : content'[e].batches <= Contents[e]
      <4>1. CASE Unseen
        BY <4>1 DEF Unseen, SavesInv, SavedIsTrue
      <4>2. CASE SeesWrite(r)
        <5>1. Contents[d] \in Nat
          BY <2>1, PlanLemma
        <5>2. r.base <= Contents[d]
          BY <1>3 DEF Inv, Proper
        <5>3. content[d].batches + 1 <= Contents[d]
          BY <2>1, <2>2, <4>2, <5>1, <5>2 DEF SeesWrite
        <5>4. \A e \in DocumentSet : content'[e].batches = content[e].batches + (IF e = d THEN 1 ELSE 0)
          BY <2>1, <4>2 DEF SeesWrite, Inv, Served
        <5> QED  BY <2>2, <5>3, <5>4 DEF SavesInv, SavedIsTrue
      <4> QED  BY <1>3, <4>1, <4>2
    <3> QED  BY <1>1, <2>2, <2>3, <3>1 DEF SavesInv, SavedIsTrue
  <2>11. AnswersAreNew'
    <3> SUFFICES ASSUME importPhase = "content", NEW e \in active, answer'[e] = "ok"
                 PROVE  /\ saved[e] < content'[e].batches
                        /\ \A q \in sent' : q.kind = "save" /\ q.item = e => q.key \notin writes'
      BY <1>1 DEF AnswersAreNew
    <3>1. e \in DocumentSet
      BY DEF Inv, Running
    <3>2. CASE e = d
      BY <2>2, <2>3, <2>4, <2>8, <3>1, <3>2
    <3>3. CASE e # d
      <4>1. answer[e] = "ok"
        BY <1>3, <3>1, <3>3, PlanLemma DEF Inv, Running
      <4>2. saved[e] < content[e].batches /\ \A q \in sent : q.kind = "save" /\ q.item = e => q.key \notin writes
        BY <4>1 DEF SavesInv, AnswersAreNew
      <4>3. \A q \in sent' : q.kind = "save" /\ q.key \in writes' => q.key \in writes \/ q.item = d
        <5>1. \A q \in sent : q.kind = "save" => q.item = q.key[1]
          BY DEF SavesInv, WritesInOrder, IsSave, SaveOf
        <5> QED  BY <1>1, <2>1, <2>4, <5>1
      <4> QED  BY <1>1, <2>2, <2>3, <3>1, <3>3, <4>2, <4>3
    <3> QED  BY <3>2, <3>3
  <2> QED  BY <2>9, <2>10, <2>11 DEF SavesInv
<1> QED  BY <1>1, <1>2, <1>3, SaveOutcome
-----------------------------------------------------------------------------
LEMMA SInvNext == SInv /\ [ImportNext]_importVars => SInv'
<1> SUFFICES ASSUME SInv, [ImportNext]_importVars  PROVE SInv'
  OBVIOUS
<1>1. Inv /\ Lines /\ SavesInv /\ Inv'
  BY NextLemma DEF SInv, SavesInv
<1>2. CASE Execute \/ CancelImport \/ FinishWithFailures \/ FinishImport
  BY <1>1, <1>2, ExecuteLines, CancelLines, FinishLines, UserSaves DEF SInv, SavesInv
<1>3. CASE RunStep
  <2>1. Lines'
    BY <1>1, <1>3, StartLines, NextPhaseLines, EndRunLines, MadeLines, BatchSavedLines, ItemFailedLines DEF RunStep
  <2>2. SavesInv'
    BY <1>1, <1>3, StartSaves, PhaseSaves, LeavesSaves, BatchSavedSaves DEF RunStep
  <2> QED  BY <1>1, <2>1, <2>2 DEF SInv, SavesInv
<1>4. ASSUME NEW r \in sent, ServeWrite(r) \/ TroubledWrite(r)  PROVE SInv'
  <2>1. /\ UNCHANGED <<importPhase, queue, active, known, contentDone, failures, stopped, aborted>>
        /\ UNCHANGED <<screen, finishing>>
    BY <1>4 DEF ServeWrite, TroubledWrite, stateVars, importScreenVars
  <2>2. Lines'
    BY <1>1, <2>1, SameLines
  <2> QED  BY <1>1, <1>4, <2>2, RequestSaves DEF SInv, SavesInv
<1>5. CASE UNCHANGED importVars
  <2>1. Lines'
    BY <1>1, <1>5, SameLines DEF importVars
  <2>2. SavesInv'
    BY <1>1, <1>5, SameSaves DEF importVars
  <2> QED  BY <1>1, <2>1, <2>2 DEF SInv, SavesInv
<1> QED  BY <1>2, <1>3, <1>4, <1>5 DEF ImportNext, ServiceStep

\* An import that ends without failures, and that nobody cancelled or gave up, made every item of the plan and saved
\* every content: nothing that was skipped, stopped, refused or answered late goes unreported (importRunner.ts).
THEOREM SuccessIsCompleteTheorem == ImportSpec => []SuccessIsComplete
<1>1. ImportSpec => []SInv
  BY SInvInit, SInvNext, PTL DEF ImportSpec
<1> QED  BY <1>1, SInvImplies, PTL
=============================================================================
