------------------------------ MODULE Browsers ------------------------------
(***************************************************************************)
(* AuthController and a browser that calls it, over Sessions: the refresh  *)
(* token travels in the cookie refresh_token.  A call carries the cookie   *)
(* the browser holds when it is sent; it arrives later, its answer may set *)
(* or clear the cookie when it is delivered, and either may be lost.  The  *)
(* tabs of the browser share one cookie.                                   *)
(*                                                                         *)
(* Other devices and the admins run the same handlers at the same time, on *)
(* tokens of their own: everything Sessions does for a request that does   *)
(* not come with the cookie of this browser is a step of Elsewhere.        *)
(***************************************************************************)
EXTENDS Sessions

CONSTANTS
  Tabs,       \* tabs of the browser: bounds its calls under way
  Abroad,     \* the tokens Keycloak may issue to other devices
  Remote,     \* the request slots that serve other devices and admins
  NoRequest

ASSUME NoRequestAssumption == NoRequest \notin Requests
ASSUME DevicesAssumption == Abroad \subseteq Tokens /\ Remote \subseteq Requests

VARIABLES
  cookie,     \* the cookie refresh_token
  call,       \* the call each tab has under way
  issued,     \* the new token a handler has stored and has not returned yet
  orderly,    \* history: no call of the browser met a disturbance, see Send, Abort
  loggedOut,  \* history: lineages ended by a logout that was answered
  overtaken,  \* history: lineages another device was rotating during a logout-all
  evicted     \* history: usable rows revoked by a logout-others of the browser

browser == <<cookie, call, issued, orderly, loggedOut, overtaken, evicted>>
allVars == <<vars, browser>>

\* The request slots that serve this browser.
Own == Requests \ Remote

Issuing == {"refresh", "login", "change"}
Kinds == Issuing \cup {"logout", "others", "all"}

\* token: the cookie the call carries; for logout-others that is being served
\* the row to keep; in an answer the cookie to set, NoToken to clear it.
Call == [stage : {"none", "sent", "served", "answered"}, kind : Kinds \cup {"none"},
         token : Tokens \cup {NoToken}, by : Requests \cup {NoRequest}]

NoCall == [stage |-> "none", kind |-> "none", token |-> NoToken, by |-> NoRequest]

BrowserTypeOK ==
  /\ cookie \in Tokens \cup {NoToken}
  /\ call \in [Tabs -> Call]
  /\ issued \in [Requests -> Tokens \cup {NoToken}]
  /\ orderly \in BOOLEAN
  /\ loggedOut \subseteq Tokens /\ overtaken \subseteq Abroad /\ evicted \subseteq Tokens
  /\ \A q \in Requests :
       issued[q] # NoToken <=> q \in Own /\ request[q].pc \in {"saved", "changed"}

BrowserInit ==
  /\ Init
  /\ cookie = NoToken
  /\ call = [b \in Tabs |-> NoCall]
  /\ issued = [q \in Requests |-> NoToken]
  /\ orderly = TRUE /\ loggedOut = {} /\ overtaken = {} /\ evicted = {}

Underway(b) == call[b].stage # "none"
Awaits(b, q) == call[b].stage = "served" /\ call[b].by = q
Refreshes(b) == call[b].kind = "refresh"

Answer(b, t) == [call[b] EXCEPT !.stage = "answered", !.token = t, !.by = NoRequest]

\* Mutant: one of the calls that share a promise is answered, the others are not.
AnsweredOnce(q, t) ==
  LET first == CHOOSE b \in Tabs : Awaits(b, q) IN
  IF ~\E b \in Tabs : Awaits(b, q) THEN call
  ELSE [call EXCEPT ![first] = IF t = NoToken THEN NoCall ELSE Answer(first, t)]

\* The calls when handler q ends: with a new token for the cookie, or with none.
AnsweredBy(q, t) ==
  [b \in Tabs |-> IF ~Awaits(b, q) THEN call[b] ELSE IF t = NoToken THEN NoCall ELSE Answer(b, t)]

\* The row inserted in this step.
Inserted == CHOOSE t \in Tokens : ~Saved(t) /\ owner'[t] # NoUser

\* Two calls of the browser overlap and one of them will change the cookie: a
\* disturbance, but for two refreshes, see Late.
Overlaps(b, kind) ==
  \E c \in Tabs \ {b} :
    /\ Underway(c) /\ {kind, call[c].kind} \cap Issuing # {}
    /\ ~(kind = "refresh" /\ Refreshes(c))

\* A refresh that arrives when its cookie has been replaced, or is about to be by
\* the answer to the refresh of another tab.
Late(b) ==
  \/ cookie # call[b].token
  \/ \E c \in Tabs \ {b} : Refreshes(c) /\ call[c].stage = "answered"

-----------------------------------------------------------------------------
(* The browser and the network.                                            *)

\* A call that presents the cookie.
Send(b, kind) ==
  /\ ~Underway(b) /\ cookie # NoToken
  /\ call' = [call EXCEPT ![b] =
               [stage |-> "sent", kind |-> kind, token |-> cookie, by |-> NoRequest]]
  /\ orderly' = (orderly /\ ~Overlaps(b, kind))
  /\ UNCHANGED <<vars, cookie, issued, loggedOut, overtaken, evicted>>

\* Mutant: the controller returns the new pair and sets no cookie.
DeliverBodyOnly(b) ==
  /\ call[b].stage = "answered"
  /\ cookie' = IF Refreshes(b) THEN cookie ELSE call[b].token
  /\ call' = [call EXCEPT ![b] = NoCall]
  /\ UNCHANGED <<vars, issued, orderly, loggedOut, overtaken, evicted>>

\* res.cookie and res.clearCookie.  A refusal carries neither and is not kept.
Deliver(b) ==
  /\ call[b].stage = "answered"
  /\ cookie' = IF call[b].kind = "others" THEN cookie ELSE call[b].token
  /\ call' = [call EXCEPT ![b] = NoCall]
  /\ UNCHANGED <<vars, issued, orderly, loggedOut, overtaken, evicted>>

\* The call or its answer is lost, or the tab is closed; the handler goes on.
Abort(b) ==
  /\ Underway(b) /\ ~(call[b].stage = "served" /\ call[b].kind = "others")
  /\ call' = [call EXCEPT ![b] = NoCall]
  /\ orderly' = (orderly /\ (call[b].stage = "sent" \/ ~Refreshes(b)))
  /\ UNCHANGED <<vars, cookie, issued, loggedOut, overtaken, evicted>>

-----------------------------------------------------------------------------
(* Calls reach the controller.                                             *)

Serve(b, q) == call' = [call EXCEPT ![b].stage = "served", ![b].by = q]

\* POST refresh: a token in the table is not rotated again, the call shares the
\* promise found there.
ArriveRefresh(b, q) ==
  /\ call[b].stage = "sent" /\ Refreshes(b)
  /\ \/ /\ BeginRefresh(q, call[b].token)
        /\ orderly' = (orderly /\ ~Late(b))
     \/ /\ Refreshing(q) /\ request[q].token = call[b].token
        /\ UNCHANGED <<vars, orderly>>
  /\ Serve(b, q)
  /\ UNCHANGED <<cookie, issued, loggedOut, overtaken, evicted>>

\* POST login, social/callback, register/verify and change-password: nothing they
\* do depends on the cookie, so sending them and their arrival are one step.
OpenFrom(b, q, u, kind) ==
  /\ ~Underway(b)
  /\ IF kind = "login" THEN BeginLogin(q, u) ELSE BeginChangePassword(q, u)
  /\ call' = [call EXCEPT ![b] =
               [stage |-> "served", kind |-> kind, token |-> NoToken, by |-> q]]
  /\ orderly' = (orderly /\ ~Overlaps(b, kind))
  /\ UNCHANGED <<cookie, issued, loggedOut, overtaken, evicted>>

\* Mutant: the cookie is cleared and the row left alone.
ArriveLogoutCookieOnly(b) ==
  /\ call[b].stage = "sent" /\ call[b].kind = "logout"
  /\ call' = [call EXCEPT ![b] = Answer(b, NoToken)]
  /\ loggedOut' = loggedOut \cup {lineage[call[b].token]}
  /\ UNCHANGED <<vars, cookie, issued, orderly, overtaken, evicted>>

ArriveLogout(b) ==
  /\ call[b].stage = "sent" /\ call[b].kind = "logout"
  /\ Logout(call[b].token)
  /\ call' = [call EXCEPT ![b] = Answer(b, NoToken)]
  /\ loggedOut' = loggedOut \cup {lineage[call[b].token]}
  /\ UNCHANGED <<cookie, issued, orderly, overtaken, evicted>>

\* The header x-session-id: absent, or any session this browser has had since the
\* login its cookie descends from.
SessionHeaders(t) == {NoToken} \cup {s \in Tokens : Saved(s) /\ lineage[s] = lineage[t]}

\* Mutant: the header decides.
ResolveByHeader(t, h) == h

\* resolveSessionOwner: the row of the cookie if it is usable, else the header.
Resolve(t, h) == IF Usable(t) THEN t ELSE h

ArriveOthers(b) ==
  /\ call[b].stage = "sent" /\ call[b].kind = "others"
  /\ \E h \in SessionHeaders(call[b].token) :
       LET keep == Resolve(call[b].token, h) IN
         call' = [call EXCEPT ![b] = IF keep = NoToken THEN NoCall  \* 401
                                     ELSE [call[b] EXCEPT !.stage = "served", !.token = keep]]
  /\ UNCHANGED <<vars, cookie, issued, orderly, loggedOut, overtaken, evicted>>

EvictOthers(b) ==
  LET keep == call[b].token
      u == owner[keep] IN
  /\ call[b].stage = "served" /\ call[b].kind = "others"
  /\ RevokeOtherSessions(u, keep)
  /\ evicted' = evicted \cup (Unrevoked(u) \ (expired \cup {keep}))
  /\ call' = [call EXCEPT ![b] = Answer(b, NoToken)]
  /\ UNCHANGED <<cookie, issued, orderly, loggedOut, overtaken>>

\* Refreshes of other devices between the lookup and the insert of the successor.
Rotations(u) == {q \in Remote : Rotating(q) /\ request[q].user = u}

\* POST sessions/logout-all.
ArriveAll(b) ==
  LET u == owner[call[b].token] IN
  /\ call[b].stage = "sent" /\ call[b].kind = "all"
  /\ RevokeAllSessions(u)
  /\ loggedOut' = loggedOut \cup {lineage[t] : t \in OwnedBy(u)}
  /\ overtaken' = overtaken \cup {lineage[request[q].token] : q \in Rotations(u)}
  /\ call' = [call EXCEPT ![b] = Answer(b, NoToken)]
  /\ UNCHANGED <<cookie, issued, orderly, evicted>>

-----------------------------------------------------------------------------
(* The handlers of Sessions, and what the tabs that await them get.        *)

Proceed(q) ==
  /\ Accept(q) \/ DetectReuse(q) \/ MarkRotated(q) \/ RepairIdentity(q)
  /\ UNCHANGED browser

\* Mutant: the login is returned before the answer is complete.
StoreWithoutToken(q) ==
  /\ SaveSuccessor(q) \/ ChangePasswordOpen(q)
  /\ Inserted \notin Abroad
  /\ UNCHANGED browser

\* The row is stored; the handler still awaits something before it returns.
Store(q) ==
  /\ SaveSuccessor(q) \/ ChangePasswordOpen(q)
  /\ Inserted \notin Abroad
  /\ issued' = [issued EXCEPT ![q] = Inserted]
  /\ UNCHANGED <<cookie, call, orderly, loggedOut, overtaken, evicted>>

Return(q) ==
  /\ RefreshReturn(q) \/ ChangePasswordRevokeOthers(q)
  /\ call' = AnsweredBy(q, issued[q])
  /\ issued' = [issued EXCEPT ![q] = NoToken]
  /\ UNCHANGED <<cookie, orderly, loggedOut, overtaken, evicted>>

ReturnOpened(q) ==
  /\ OpenSession(q)
  /\ Inserted \notin Abroad
  /\ call' = AnsweredBy(q, Inserted)
  /\ UNCHANGED <<cookie, issued, orderly, loggedOut, overtaken, evicted>>

\* An error: no token, no cookie.  toAuthUser may fail as well, when the rotation
\* is complete.  A refresh that fails after its row was marked loses the session.
Refuse(q) ==
  /\ \/ Reject(q) \/ RevokeOnReuse(q) \/ RefreshFail(q) \/ HandlerFail(q)
     \/ RefreshReturn(q)
  /\ call' = AnsweredBy(q, NoToken)
  /\ issued' = [issued EXCEPT ![q] = NoToken]
  /\ orderly' = (orderly /\ request[q].pc \notin {"marked", "saved"})
  /\ UNCHANGED <<cookie, loggedOut, overtaken, evicted>>

ServerRestart ==
  /\ Restart
  /\ call' = [b \in Tabs |-> IF call[b].stage = "served" THEN NoCall ELSE call[b]]
  /\ issued' = [q \in Requests |-> NoToken]
  /\ orderly' = (orderly /\ \A q \in Requests : request[q].pc \notin {"marked", "saved"})
  /\ UNCHANGED <<cookie, loggedOut, overtaken, evicted>>

-----------------------------------------------------------------------------
(* Other devices, admins and time.                                         *)

\* Another device presents a token of its own.  What neither needs nor sets the
\* cookie may come from this browser as well: a session revoked by its id, a
\* password that is reset.
RemoteArrive(q) ==
  \/ \E t \in Abroad : BeginRefresh(q, t)
  \/ \E t \in Tokens : BeginRevokeSession(q, t)
  \/ \E u \in Users :
       BeginLogin(q, u) \/ BeginChangePassword(q, u) \/ BeginResetPassword(q, u)

\* What these handlers store was issued to their device.
RemoteStep(q) ==
  /\ \/ RemoteArrive(q) \/ RefreshStep(q) \/ OpenStep(q) \/ RevokeStep(q)
     \/ HandlerFail(q)
  /\ \A t \in Tokens \ Abroad : owner'[t] = owner[t]

RemoteStatement ==
  \/ \E t \in Abroad : Logout(t)
  \/ \E u \in Users, keep \in Abroad : RevokeOtherSessions(u, keep)
  \/ \E u \in Users : RevokeAllSessions(u) \/ AdminRevokeAll(u)
  \/ \E u \in Users, s \in UserStatus : AdminUpdateStatus(u, s)

Elsewhere ==
  /\ \/ \E q \in Remote : RemoteStep(q)
     \/ RemoteStatement
     \/ \E t \in Tokens : Expire(t)
  /\ UNCHANGED browser

-----------------------------------------------------------------------------
TabStep(b) ==
  \/ \E kind \in {"refresh", "logout", "others", "all"} : Send(b, kind)
  \/ Deliver(b) \/ Abort(b)
  \/ \E q \in Own :
       \/ ArriveRefresh(b, q)
       \/ \E u \in Users, kind \in {"login", "change"} : OpenFrom(b, q, u, kind)
  \/ ArriveLogout(b) \/ ArriveOthers(b) \/ EvictOthers(b) \/ ArriveAll(b)

HandlerStep(q) == Proceed(q) \/ Store(q) \/ Return(q) \/ ReturnOpened(q) \/ Refuse(q)

BrowserNext ==
  \/ \E b \in Tabs : TabStep(b)
  \/ \E q \in Own : HandlerStep(q)
  \/ ServerRestart
  \/ Elsewhere

BrowserSpec == BrowserInit /\ [][BrowserNext]_allVars

-----------------------------------------------------------------------------
(* Properties.                                                             *)

\* auth.service.ts:427, "two refreshes at a time share one rotation": a call that
\* awaits a handler awaits one that still runs and works on its own token, so each
\* tab that joined a rotation gets the answer of that rotation.
NobodyWaitsInVain ==
  \A b \in Tabs :
    (call[b].stage = "served" /\ call[b].by # NoRequest) =>
      LET q == call[b].by IN
      IF Refreshes(b) THEN Refreshing(q) /\ request[q].token = call[b].token
      ELSE request[q].pc \in {"login", "repaired", "changing", "changed"}

\* auth.service.ts:476, 894: only the reuse of a rotated token is taken for a leak,
\* and a device whose session was revoked must not log the others out.  A browser
\* whose refreshes neither overlap another call of its own, nor lose their answer,
\* nor die half way, never raises the alarm that ends every session of the user,
\* whatever its other calls do in between, the admins, and other devices with
\* tokens of their own: refresh, log in and out, reset the password, or raise the
\* alarm themselves.
AlarmNeedsDisturbance == orderly => \A q \in Own : ~At(q, "alarm")

\* README.md:351, "End current session": under the same conditions no token of a
\* login that was logged out can be used, not even one of a later rotation.  The
\* one exception to logout-all, which no care of this browser excludes: a login of
\* another device whose refresh has passed its lookup and not stored its successor
\* when logout-all marks the rows.
LogoutEndsLogin ==
  orderly => \A t \in Tokens : Usable(t) => lineage[t] \notin loggedOut \ overtaken

\* README.md:330, "Logout-other-sessions preserves the current session": it never
\* revokes the usable row of the cookie it came with, or of one that succeeds it.
OthersSparesCaller == orderly => cookie \notin evicted

\* README.md:351, "POST /auth/logout: End current session", and README.md:331,
\* "Logout-all revokes every session owned by the actor", as they stand.  A refresh
\* that overlaps the call, of a tab or of another device, overwrites the reason of
\* the revocation with TOKEN_ROTATED and leaves a successor; the answer to a tab
\* sets the cookie again.
LogoutIsFinal == \A t \in Tokens : Usable(t) => lineage[t] \notin loggedOut
=============================================================================
