--------------------------- MODULE BrowsersProofs ---------------------------
(***************************************************************************)
(* Theorems about Browsers, for every set of users, tokens, concurrent     *)
(* requests and tabs, and whatever other devices do meanwhile: what a      *)
(* browser that was not disturbed can rely on.                             *)
(***************************************************************************)
EXTENDS Browsers, SessionsProofs
-----------------------------------------------------------------------------
(* The inductive invariant: what holds whatever happens.                   *)

\* What a call carries at each stage.
ShapeOK ==
  \A b \in Tabs :
    /\ call[b].stage = "none" => call[b] = NoCall
    /\ call[b].stage = "sent" =>
         call[b].kind \in Kinds \ {"login", "change"} /\ call[b].token # NoToken
           /\ call[b].by = NoRequest
    /\ call[b].stage = "served" =>
         \/ call[b].kind \in Issuing /\ call[b].by \in Requests
         \/ call[b].kind = "others" /\ call[b].by = NoRequest /\ call[b].token # NoToken
    /\ call[b].stage = "answered" =>
         /\ call[b].kind \in Kinds /\ call[b].by = NoRequest
         /\ call[b].kind \in Issuing => call[b].token # NoToken
         /\ call[b].kind \in {"logout", "all"} => call[b].token = NoToken

\* Whatever the browser, its calls and the histories name was stored.
KnownOK ==
  /\ cookie # NoToken => Saved(cookie)
  /\ \A b \in Tabs : call[b].token # NoToken => Saved(call[b].token)
  /\ \A q \in Requests : issued[q] # NoToken => Saved(issued[q])
  /\ \A t \in loggedOut \cup evicted : Saved(t)

\* This browser and the other devices have tokens, logins and slots of their own.
RowsApart == \A t \in Tokens : Saved(t) => (t \in Abroad <=> lineage[t] \in Abroad)

CallsApart ==
  /\ cookie \notin Abroad
  /\ \A b \in Tabs : call[b].token \notin Abroad /\ call[b].by \notin Remote
  /\ \A q \in Requests : issued[q] \notin Abroad

WorkApart ==
  \A q \in Requests : Refreshing(q) => (request[q].token \in Abroad <=> q \in Remote)

DevicesApart == RowsApart /\ CallsApart /\ WorkApart

-----------------------------------------------------------------------------
(* What holds of a browser that was not disturbed.                         *)

\* Calls that set the cookie run alone, but for refreshes beside refreshes.
NoOverlap ==
  \A b, c \in Tabs :
    (/\ b # c /\ Underway(b) /\ Underway(c)
     /\ call[b].kind \in Issuing) => Refreshes(b) /\ Refreshes(c)

\* Every refresh at work for the browser is awaited, and works on the cookie the
\* browser still has.
RefreshAwaited ==
  \A q \in Own : Refreshing(q) => \E b \in Tabs : Awaits(b, q) /\ Refreshes(b)

ServedCookie ==
  \A b \in Tabs : call[b].stage = "served" /\ Refreshes(b) => call[b].token = cookie

\* Answers of one refresh are delivered before the next refresh starts.
AnswersFirst ==
  \A b, c \in Tabs :
    ~(/\ Refreshes(b) /\ call[b].stage = "served"
      /\ Refreshes(c) /\ call[c].stage = "answered")

\* A token but for which all rows of its login are revoked; one that was neither
\* rotated nor evicted.
Current ==
  {t \in Tokens : \A s \in Tokens :
     Saved(s) /\ revoked[s] = "NO" /\ lineage[s] = lineage[t] => s = t}

Fresh == {t \in Current : revoked[t] # "TOKEN_ROTATED" /\ t \notin evicted}

\* A token on its way to the browser is fresh.
AnswersFresh ==
  \A b \in Tabs : call[b].stage = "answered" /\ call[b].kind \in Issuing =>
    call[b].token \in Fresh

IssuedFresh ==
  \A b \in Tabs, q \in Requests : Awaits(b, q) /\ issued[q] # NoToken =>
    issued[q] \in Fresh

\* No rotation of the cookie is past its mark or on its way back.
Settled ==
  /\ \A q \in Own : request[q].pc \notin {"marked", "saved"}
  /\ \A b \in Tabs : ~(Refreshes(b) /\ call[b].stage = "answered")

CookieFresh == cookie # NoToken /\ Settled => cookie \in Fresh

\* The browser presents no rotated token.
NoReuse ==
  \A q \in Own :
    ~At(q, "alarm") /\ (At(q, "finding") => revoked[request[q].token] # "TOKEN_ROTATED")

\* A logout on its way carries the one row of its login that is not revoked.
LogoutCurrent ==
  \A b \in Tabs : call[b].stage = "sent" /\ call[b].kind = "logout" =>
    call[b].token \in Current

\* A login that was logged out has neither a usable row nor a rotation, but for the
\* rotations of other devices that were at work.
Ended == loggedOut \ overtaken
EndedOK ==
  /\ \A t \in Tokens : Usable(t) => lineage[t] \notin Ended
  /\ \A q \in Requests : Rotating(q) => lineage[request[q].token] \notin Ended

\* The row a logout-others keeps is the one of the cookie, if that is usable.
CallerOK ==
  \A b \in Tabs : call[b].kind = "others" /\ cookie # NoToken =>
    /\ call[b].stage = "sent" => cookie = call[b].token
    /\ call[b].stage = "served" => cookie = call[b].token \/ ~Usable(cookie)

Undisturbed ==
  /\ NoOverlap /\ RefreshAwaited /\ ServedCookie /\ AnswersFirst
  /\ AnswersFresh /\ IssuedFresh /\ CookieFresh /\ NoReuse
  /\ LogoutCurrent /\ EndedOK /\ CallerOK /\ cookie \notin evicted

\* Everything of the browser but its types, and the invariant of the sessions.
BrowserInv ==
  /\ IInv /\ BrowserTypeOK /\ ShapeOK /\ KnownOK /\ NobodyWaitsInVain /\ DevicesApart
  /\ orderly => Undisturbed

-----------------------------------------------------------------------------
(* What the steps of the handlers do to their records.                     *)

\* A handler that proceeds keeps its token; it accepts, finds a reuse, marks its
\* row, or repairs an identity.
LEMMA ProceedMoves ==
  ASSUME TypeOK, NEW q \in Requests, Proceed(q)
  PROVE  /\ UNCHANGED browser
         /\ \A p \in Requests \ {q} : request'[p] = request[p]
         /\ request'[q].token = request[q].token
         /\ UNCHANGED <<owner, lineage, expired>>
         /\ \/ /\ request[q].pc = "finding" /\ request'[q].pc = "rotating"
               /\ Usable(request[q].token) /\ revoked' = revoked
            \/ /\ request[q].pc = "finding" /\ request'[q].pc = "alarm"
               /\ revoked[request[q].token] = "TOKEN_ROTATED" /\ revoked' = revoked
            \/ /\ request[q].pc = "rotating" /\ request'[q].pc = "marked"
               /\ Revoke({request[q].token}, "TOKEN_ROTATED")
            \/ /\ request[q].pc = "login" /\ request'[q].pc = "repaired"
               /\ revoked' = revoked
<1> USE DEF At, Goto, TypeOK, Request, rows
<1>1. CASE Accept(q)
  BY <1>1 DEF Proceed, Accept
<1>2. CASE DetectReuse(q)
  BY <1>2 DEF Proceed, DetectReuse
<1>3. CASE MarkRotated(q)
  BY <1>3 DEF Proceed, MarkRotated, Revoke
<1>4. CASE RepairIdentity(q)
  BY <1>4 DEF Proceed, RepairIdentity
<1>5. QED
  BY <1>1, <1>2, <1>3, <1>4 DEF Proceed

\* A handler that stores a row goes on to "saved" or "changed".
LEMMA StoreMoves ==
  ASSUME TypeOK, NEW q \in Requests, SaveSuccessor(q) \/ ChangePasswordOpen(q)
  PROVE  /\ \A p \in Requests \ {q} : request'[p] = request[p]
         /\ \/ /\ SaveSuccessor(q)
               /\ request[q].pc = "marked" /\ request'[q].pc = "saved"
               /\ request'[q].token = request[q].token
            \/ /\ ChangePasswordOpen(q)
               /\ request[q].pc = "changing" /\ request'[q].pc = "changed"
<1> USE DEF At, Goto, TypeOK, Request
<1>1. CASE SaveSuccessor(q)
  BY <1>1 DEF SaveSuccessor
<1>2. CASE ChangePasswordOpen(q)
  <2>1. PICK t \in Tokens :
          request' = [request EXCEPT ![q] =
                       [pc |-> "changed", user |-> request[q].user, token |-> t]]
    BY <1>2 DEF ChangePasswordOpen
  <2>2. QED
    BY <1>2, <2>1 DEF ChangePasswordOpen
<1>3. QED
  BY <1>1, <1>2

\* A handler that ends is idle again, whatever the answer.
LEMMA EndMoves ==
  ASSUME TypeOK, NEW q \in Requests, Return(q) \/ ReturnOpened(q) \/ Refuse(q)
  PROVE  request' = [request EXCEPT ![q] = Idle]
<1>1. CASE Return(q)
  BY <1>1 DEF Return, RefreshReturn, ChangePasswordRevokeOthers, Release, Finish
<1>2. CASE ReturnOpened(q)
  BY <1>2 DEF ReturnOpened, OpenSession, Finish
<1>3. CASE Refuse(q)
  BY <1>3 DEF Refuse, Reject, RevokeOnReuse, RefreshFail, HandlerFail, RefreshReturn,
              Release, Finish
<1>4. QED
  BY <1>1, <1>2, <1>3

\* Each step of the browser and its controller is one of Sessions or changes
\* nothing there.
LEMMA SessionsMoves ==
  ASSUME IInv, BrowserTypeOK, ShapeOK, KnownOK, [BrowserNext]_allVars
  PROVE  [Next]_vars
<1> USE DevicesAssumption DEF IInv, Own
<1>1. ASSUME NEW b \in Tabs, TabStep(b) PROVE [Next]_vars
  <2>1. CASE \/ \E kind \in {"refresh", "logout", "others", "all"} : Send(b, kind)
             \/ Deliver(b) \/ Abort(b) \/ ArriveOthers(b)
    BY <2>1 DEF Send, Deliver, Abort, ArriveOthers
  <2>2. /\ call[b].token \in Tokens \cup {NoToken}
        /\ call[b].token # NoToken => Saved(call[b].token)
        /\ call[b].stage = "sent" => call[b].token # NoToken
    BY DEF BrowserTypeOK, Call, ShapeOK, KnownOK
  <2>3. ASSUME NEW q \in Own, ArriveRefresh(b, q) PROVE [Next]_vars
    <3>1. call[b].token \in Tokens
      BY <2>2, <2>3 DEF ArriveRefresh
    <3>2. QED
      BY <2>3, <3>1 DEF ArriveRefresh, Next, Arrive
  <2>4. ASSUME NEW q \in Own, NEW u \in Users, NEW kind \in {"login", "change"},
               OpenFrom(b, q, u, kind)
        PROVE  [Next]_vars
    BY <2>4 DEF OpenFrom, Next, Arrive
  <2>5. CASE ArriveLogout(b)
    <3>1. call[b].token \in Tokens
      BY <2>2, <2>5 DEF ArriveLogout
    <3>2. QED
      BY <2>5, <3>1 DEF ArriveLogout, Next, OneStatement
  <2>6. CASE EvictOthers(b)
    <3>1. call[b].token # NoToken
      BY <2>6 DEF EvictOthers, ShapeOK, Issuing
    <3>2. call[b].token \in Tokens /\ owner[call[b].token] \in Users
      BY <2>2, <3>1 DEF Saved, TypeOK
    <3>3. QED
      BY <2>6, <3>2 DEF EvictOthers, Next, OneStatement
  <2>7. CASE ArriveAll(b)
    <3>1. call[b].token \in Tokens /\ owner[call[b].token] \in Users
      BY <2>2, <2>7 DEF ArriveAll, Saved, TypeOK
    <3>2. QED
      BY <2>7, <3>1 DEF ArriveAll, Next, OneStatement
  <2>8. QED
    BY <1>1, <2>1, <2>3, <2>4, <2>5, <2>6, <2>7 DEF TabStep
<1>2. ASSUME NEW q \in Own, HandlerStep(q) PROVE [Next]_vars
  <2>1. RefreshStep(q) \/ OpenStep(q) \/ HandlerFail(q)
    BY <1>2 DEF HandlerStep, Proceed, Store, Return, ReturnOpened, Refuse, RefreshStep,
                OpenStep
  <2>2. QED
    BY <2>1 DEF Next
<1>3. CASE ServerRestart
  BY <1>3 DEF ServerRestart, Next
<1>4. CASE Elsewhere
  <2>1. ASSUME NEW q \in Remote, RemoteStep(q) PROVE [Next]_vars
    BY <2>1 DEF RemoteStep, RemoteArrive, Next, Arrive
  <2>2. CASE RemoteStatement
    BY <2>2 DEF RemoteStatement, Next, OneStatement
  <2>3. QED
    BY <1>4, <2>1, <2>2 DEF Elsewhere, Next
<1>5. CASE UNCHANGED allVars
  BY <1>5 DEF allVars
<1>6. QED
  BY <1>1, <1>2, <1>3, <1>4, <1>5 DEF BrowserNext

-----------------------------------------------------------------------------
(* What holds whatever happens: types, shapes, stored tokens, live handlers. *)

Basics == BrowserTypeOK /\ ShapeOK /\ KnownOK /\ NobodyWaitsInVain

\* The row a handler inserts is new, and it is the only one.
LEMMA InsertedOK ==
  ASSUME IInv, NEW q \in Requests, Inserting(q)
  PROVE  /\ Inserted \in Tokens /\ ~Saved(Inserted)
         /\ \E u \in Users, l \in Tokens :
              /\ Insert(Inserted, u, l)
              /\ \/ l = Inserted /\ ~SaveSuccessor(q)
                 \/ SaveSuccessor(q) /\ l = lineage[request[q].token]
<1>1. PICK t \in Tokens, u \in Users, l \in Tokens :
        /\ Insert(t, u, l)
        /\ \/ l = t /\ ~SaveSuccessor(q)
           \/ SaveSuccessor(q) /\ l = lineage[request[q].token]
  BY InsertedRow DEF IInv
<1>2. \A s \in Tokens : ~Saved(s) /\ owner'[s] # NoUser <=> s = t
  BY <1>1, SentinelsAssumption DEF Insert, Saved, IInv, TypeOK
<1>3. Inserted = t
  BY <1>2 DEF Inserted
<1>4. QED
  BY <1>1, <1>3 DEF Insert

\* An answer keeps the kind of its call.
LEMMA AnswerIs ==
  ASSUME BrowserTypeOK, NEW b \in Tabs, NEW t \in Tokens \cup {NoToken}
  PROVE  /\ Answer(b, t) \in Call
         /\ Answer(b, t).stage = "answered" /\ Answer(b, t).kind = call[b].kind
         /\ Answer(b, t).token = t /\ Answer(b, t).by = NoRequest
<1>1. call[b] \in Call
  BY DEF BrowserTypeOK
<1>2. QED
  BY <1>1 DEF Answer, Call

\* The calls after their handler has ended.
LEMMA AnsweredCalls ==
  ASSUME BrowserTypeOK, NEW q \in Requests, NEW t \in Tokens \cup {NoToken}
  PROVE  /\ AnsweredBy(q, t) \in [Tabs -> Call]
         /\ \A b \in Tabs :
              /\ ~Awaits(b, q) => AnsweredBy(q, t)[b] = call[b]
              /\ Awaits(b, q) /\ t = NoToken => AnsweredBy(q, t)[b] = NoCall
              /\ Awaits(b, q) /\ t # NoToken =>
                   /\ AnsweredBy(q, t)[b].stage = "answered"
                   /\ AnsweredBy(q, t)[b].kind = call[b].kind
                   /\ AnsweredBy(q, t)[b].token = t
                   /\ AnsweredBy(q, t)[b].by = NoRequest
<1>1. NoCall \in Call
  BY DEF NoCall, Call
<1>2. \A b \in Tabs : Answer(b, t) \in Call
  BY AnswerIs
<1>3. AnsweredBy(q, t) \in [Tabs -> Call]
  BY <1>1, <1>2 DEF AnsweredBy, BrowserTypeOK
<1>4. QED
  BY <1>3, AnswerIs DEF AnsweredBy

\* A handler that is awaited is no other's: nobody awaits an idle one.
LEMMA NobodyAwaitsIdle ==
  ASSUME ShapeOK, NobodyWaitsInVain, NEW q \in Requests, NEW b \in Tabs, Awaits(b, q)
  PROVE  /\ call[b].kind \in Issuing /\ request[q].pc \notin {"idle", "resetting", "revoking"}
         /\ Refreshes(b) => Refreshing(q) /\ request[q].token = call[b].token
         /\ Refreshing(q) => Refreshes(b)
  BY NoRequestAssumption
  DEF Awaits, ShapeOK, NobodyWaitsInVain, Refreshing, RefreshPC, Issuing, Refreshes

\* A step of a tab that starts no handler.
LEMMA TabBasics ==
  ASSUME IInv, Basics, DevicesApart, [Next]_vars, NEW b \in Tabs,
         \/ \E kind \in {"refresh", "logout", "others", "all"} : Send(b, kind)
         \/ Deliver(b) \/ Abort(b)
         \/ ArriveLogout(b) \/ ArriveOthers(b) \/ EvictOthers(b) \/ ArriveAll(b)
  PROVE  Basics'
<1> USE DEF Basics, IInv
<1>1. \A t \in Tokens : Saved(t) => Saved(t)'
  BY RowsKept
<1>2. UNCHANGED request
  BY DEF Send, Deliver, Abort, ArriveLogout, ArriveOthers, EvictOthers, ArriveAll, vars,
         Logout, RevokeOtherSessions, RevokeAllSessions
<1>3. UNCHANGED issued
  BY DEF Send, Deliver, Abort, ArriveLogout, ArriveOthers, EvictOthers, ArriveAll
<1> DEFINE Calls ==
      {x \in Call :
         /\ x.token # NoToken => Saved(x.token)
         /\ x.by = NoRequest
         /\ x.stage = "none" => x = NoCall
         /\ x.stage = "sent" => x.kind \in Kinds \ {"login", "change"} /\ x.token # NoToken
         /\ x.stage = "served" => x.kind = "others" /\ x.token # NoToken
         /\ x.stage = "answered" =>
              /\ x.kind \in {"logout", "others", "all"}
              /\ x.kind \in {"logout", "all"} => x.token = NoToken}
<1>4. PICK x \in Calls : call' = [call EXCEPT ![b] = x]
  <2> USE DEF BrowserTypeOK, Kinds, Issuing
  <2>1. ASSUME NEW kind \in {"refresh", "logout", "others", "all"}, Send(b, kind)
        PROVE  \E x \in Calls : call' = [call EXCEPT ![b] = x]
    <3> DEFINE x == [stage |-> "sent", kind |-> kind, token |-> cookie, by |-> NoRequest]
    <3>1. x \in Calls
      BY <2>1 DEF Send, Call, KnownOK
    <3>2. QED
      BY <2>1, <3>1 DEF Send
  <2>2. CASE Deliver(b) \/ Abort(b)
    <3>1. NoCall \in Calls
      BY DEF NoCall, Call
    <3>2. QED
      BY <2>2, <3>1 DEF Deliver, Abort
  <2>3. CASE ArriveLogout(b) \/ ArriveAll(b)
    <3> DEFINE x == Answer(b, NoToken)
    <3>1. call[b].kind \in {"logout", "all"}
      BY <2>3 DEF ArriveLogout, ArriveAll
    <3>2. x \in Calls
      BY <3>1, AnswerIs
    <3>3. QED
      BY <2>3, <3>2 DEF ArriveLogout, ArriveAll
  <2>4. CASE EvictOthers(b)
    <3> DEFINE x == Answer(b, NoToken)
    <3>1. call[b].kind = "others"
      BY <2>4 DEF EvictOthers
    <3>2. x \in Calls
      BY <3>1, AnswerIs
    <3>3. QED
      BY <2>4, <3>2 DEF EvictOthers
  <2>5. CASE ArriveOthers(b)
    <3>1. call[b].stage = "sent" /\ call[b].kind = "others" /\ call[b].by = NoRequest
      BY <2>5 DEF ArriveOthers, ShapeOK
    <3>2. PICK h \in SessionHeaders(call[b].token) :
            call' = [call EXCEPT ![b] =
                       IF Resolve(call[b].token, h) = NoToken THEN NoCall
                       ELSE [call[b] EXCEPT !.stage = "served",
                                            !.token = Resolve(call[b].token, h)]]
      BY <2>5 DEF ArriveOthers
    <3> DEFINE keep == Resolve(call[b].token, h)
    <3>3. keep \in Tokens \cup {NoToken} /\ (keep # NoToken => Saved(keep))
      BY <3>2 DEF Resolve, SessionHeaders, Call, KnownOK
    <3>4. NoCall \in Calls
      BY DEF NoCall, Call
    <3> DEFINE x == [call[b] EXCEPT !.stage = "served", !.token = keep]
    <3> HIDE DEF keep
    <3>5. call[b] \in Call
      OBVIOUS
    <3>6. /\ x \in Call /\ x.stage = "served" /\ x.kind = "others"
          /\ x.token = keep /\ x.by = NoRequest
      BY <3>1, <3>3, <3>5 DEF Call
    <3>7. keep # NoToken => x \in Calls
      BY <3>3, <3>6
    <3> HIDE DEF x
    <3>8. QED
      BY <3>2, <3>4, <3>7 DEF keep, x
  <2> HIDE DEF Calls
  <2>6. QED
    BY <2>1, <2>2, <2>3, <2>4, <2>5
<1>5. \A c \in Tabs : call'[c] = IF c = b THEN x ELSE call[c]
  BY <1>4 DEF BrowserTypeOK
<1>6. cookie' \in Tokens \cup {NoToken} /\ (cookie' # NoToken => Saved(cookie'))
  BY DEF Send, Deliver, Abort, ArriveLogout, ArriveOthers, EvictOthers, ArriveAll,
         BrowserTypeOK, KnownOK, Call
<1>7. /\ loggedOut' \subseteq Tokens /\ evicted' \subseteq Tokens
      /\ \A t \in loggedOut' \cup evicted' : Saved(t)
  <2>1. CASE ArriveLogout(b)
    <3>1. call[b].token \in Tokens /\ Saved(call[b].token)
      BY <2>1 DEF ArriveLogout, ShapeOK, KnownOK, BrowserTypeOK, Call
    <3>2. lineage[call[b].token] \in Tokens /\ Saved(lineage[call[b].token])
      BY <3>1 DEF RowsOK, TypeOK
    <3>3. QED
      BY <2>1, <3>2 DEF ArriveLogout, KnownOK, BrowserTypeOK
  <2>2. CASE ArriveAll(b)
    <3>1. call[b].token \in Tokens /\ Saved(call[b].token)
      BY <2>2 DEF ArriveAll, ShapeOK, KnownOK, BrowserTypeOK, Call
    <3>2. \A t \in OwnedBy(owner[call[b].token]) :
             lineage[t] \in Tokens /\ Saved(lineage[t])
      BY <3>1 DEF RowsOK, TypeOK, OwnedBy, Saved
    <3>3. QED
      BY <2>2, <3>2 DEF ArriveAll, KnownOK, BrowserTypeOK
  <2>3. CASE EvictOthers(b)
    <3>1. call[b].token \in Tokens /\ Saved(call[b].token)
      BY <2>3 DEF EvictOthers, ShapeOK, KnownOK, BrowserTypeOK, Call, Issuing
    <3>2. \A t \in Unrevoked(owner[call[b].token]) : t \in Tokens /\ Saved(t)
      BY <3>1 DEF Unrevoked, OwnedBy, Saved
    <3>3. QED
      BY <2>3, <3>2 DEF EvictOthers, KnownOK, BrowserTypeOK
  <2>4. QED
    BY <2>1, <2>2, <2>3 DEF Send, Deliver, Abort, ArriveOthers, KnownOK, BrowserTypeOK
<1>8. orderly' \in BOOLEAN
  BY DEF Send, Deliver, Abort, ArriveLogout, ArriveOthers, EvictOthers, ArriveAll,
         BrowserTypeOK
<1>9. BrowserTypeOK'
  <2>1. CASE ArriveAll(b)
    <3>1. ASSUME NEW q \in Rotations(owner[call[b].token])
          PROVE  lineage[request[q].token] \in Abroad
      <4>1. q \in Requests /\ q \in Remote /\ Refreshing(q)
        BY <3>1, DevicesAssumption DEF Rotations, Rotating, Refreshing, RefreshPC
      <4>2. /\ request[q].token \in Tokens /\ Saved(request[q].token)
            /\ request[q].token \in Abroad
        BY <4>1 DEF RequestsOK, DevicesApart, WorkApart
      <4>3. QED
        BY <4>2 DEF DevicesApart, RowsApart
    <3>2. overtaken' \subseteq Abroad
      BY <2>1, <3>1 DEF ArriveAll, BrowserTypeOK
    <3>3. QED
      BY <1>2, <1>3, <1>4, <1>6, <1>7, <1>8, <3>2 DEF BrowserTypeOK
  <2>2. CASE ~ArriveAll(b)
    <3>1. overtaken' = overtaken
      BY <2>2 DEF Send, Deliver, Abort, ArriveLogout, ArriveOthers, EvictOthers
    <3>2. QED
      BY <1>2, <1>3, <1>4, <1>6, <1>7, <1>8, <3>1 DEF BrowserTypeOK
  <2>3. QED
    BY <2>1, <2>2
<1>10. ShapeOK'
  BY <1>4, <1>5 DEF ShapeOK, Issuing, Kinds
<1>11. KnownOK'
  <2>1. \A c \in Tabs : call'[c].token # NoToken => owner'[call'[c].token] # NoUser
    BY <1>1, <1>4, <1>5, <1>9 DEF KnownOK, BrowserTypeOK, Call, Saved
  <2>2. \A r \in Requests : issued'[r] # NoToken => owner'[issued'[r]] # NoUser
    BY <1>1, <1>3, <1>9 DEF KnownOK, BrowserTypeOK, Saved
  <2>3. QED
    BY <1>1, <1>6, <1>7, <2>1, <2>2 DEF KnownOK, Saved
<1>12. NobodyWaitsInVain'
  BY <1>2, <1>4, <1>5 DEF NobodyWaitsInVain, Refreshes, Refreshing
<1>13. QED
  BY <1>9, <1>10, <1>11, <1>12

\* A call that starts a handler, or joins the one that works on its token.
LEMMA ServeBasics ==
  ASSUME IInv, Basics, [Next]_vars, NEW b \in Tabs, NEW q \in Own,
         \/ ArriveRefresh(b, q)
         \/ \E u \in Users, kind \in {"login", "change"} : OpenFrom(b, q, u, kind)
  PROVE  /\ Basics'
         /\ \A c \in Tabs \ {b} : call'[c] = call[c]
         /\ call'[b].stage = "served" /\ call'[b].by = q
<1> USE DEF Basics, IInv, BrowserTypeOK, Own
<1>1. \A t \in Tokens : Saved(t) => Saved(t)'
  BY RowsKept
<1>2. UNCHANGED <<cookie, issued, loggedOut, overtaken, evicted>> /\ orderly' \in BOOLEAN
  BY DEF ArriveRefresh, OpenFrom
<1>3. CASE ArriveRefresh(b, q)
  <2> DEFINE x == [call[b] EXCEPT !.stage = "served", !.by = q]
  <2>1. call[b] \in Call /\ call[b].kind = "refresh" /\ call[b].stage = "sent"
    BY <1>3 DEF ArriveRefresh, Refreshes
  <2>2. /\ x \in Call /\ x.stage = "served" /\ x.kind = "refresh" /\ x.by = q
        /\ x.token = call[b].token
    BY <2>1 DEF Call
  <2>3. call' = [call EXCEPT ![b] = x]
    BY <1>3 DEF ArriveRefresh, Serve
  <2> HIDE DEF x
  <2>4. call' \in [Tabs -> Call] /\ \A c \in Tabs : call'[c] = IF c = b THEN x ELSE call[c]
    BY <2>2, <2>3
  <2>5. call[b].token # NoToken /\ call[b].token \in Tokens /\ Saved(call[b].token)
    BY <2>1 DEF ShapeOK, KnownOK, Call
  <2>6. ASSUME BeginRefresh(q, call[b].token)
        PROVE  BrowserTypeOK' /\ NobodyWaitsInVain'
    <3>1. /\ request[q] = Idle
          /\ request' = [request EXCEPT ![q] =
                          [pc |-> "finding", user |-> NoUser, token |-> call[b].token]]
      BY <2>6 DEF BeginRefresh, Begin
    <3>2. issued[q] = NoToken
      BY <3>1 DEF Idle
    <3>3. BrowserTypeOK'
      BY <1>2, <2>4, <3>1, <3>2 DEF TypeOK
    <3>4. NobodyWaitsInVain'
      BY <2>2, <2>4, <3>1, NobodyAwaitsIdle
      DEF NobodyWaitsInVain, Refreshes, Refreshing, RefreshPC, Idle, TypeOK, Awaits
    <3>5. QED
      BY <3>3, <3>4
  <2>7. ASSUME UNCHANGED vars, Refreshing(q), request[q].token = call[b].token
        PROVE  BrowserTypeOK' /\ NobodyWaitsInVain'
    <3>1. UNCHANGED request
      BY <2>7 DEF vars
    <3>2. BrowserTypeOK'
      BY <1>2, <2>4, <3>1
    <3>3. NobodyWaitsInVain'
      BY <2>2, <2>4, <2>7, <3>1 DEF NobodyWaitsInVain, Refreshes, Refreshing
    <3>4. QED
      BY <3>2, <3>3
  <2>8. BrowserTypeOK' /\ NobodyWaitsInVain'
    BY <1>3, <2>6, <2>7 DEF ArriveRefresh
  <2>9. ShapeOK'
    BY <2>2, <2>4 DEF ShapeOK, Issuing
  <2>10. KnownOK'
    BY <1>1, <1>2, <2>2, <2>4, <2>5, <2>8 DEF KnownOK, Saved, Call
  <2>11. QED
    BY <2>2, <2>4, <2>8, <2>9, <2>10
<1>4. ASSUME NEW u \in Users, NEW kind \in {"login", "change"}, OpenFrom(b, q, u, kind)
      PROVE  Basics' /\ (\A c \in Tabs \ {b} : call'[c] = call[c])
               /\ call'[b].stage = "served" /\ call'[b].by = q
  <2> DEFINE x == [stage |-> "served", kind |-> kind, token |-> NoToken, by |-> q]
  <2>1. x \in Call
    BY DEF Call, Kinds, Issuing
  <2>2. call' = [call EXCEPT ![b] = x]
    BY <1>4 DEF OpenFrom
  <2>3. call' \in [Tabs -> Call] /\ \A c \in Tabs : call'[c] = IF c = b THEN x ELSE call[c]
    BY <2>1, <2>2
  <2>4. PICK pc \in {"login", "changing"} :
          /\ request[q] = Idle
          /\ request' = [request EXCEPT ![q] = [pc |-> pc, user |-> u, token |-> NoToken]]
    BY <1>4 DEF OpenFrom, BeginLogin, BeginChangePassword, Begin
  <2>5. issued[q] = NoToken
    BY <2>4 DEF Idle
  <2>6. BrowserTypeOK'
    BY <1>2, <2>3, <2>4, <2>5 DEF TypeOK
  <2>7. NobodyWaitsInVain'
    BY <2>3, <2>4, NobodyAwaitsIdle
    DEF NobodyWaitsInVain, Refreshes, Refreshing, RefreshPC, Idle, TypeOK, Awaits
  <2>8. ShapeOK'
    BY <2>3 DEF ShapeOK, Issuing
  <2>9. KnownOK'
    BY <1>1, <1>2, <2>3, <2>6 DEF KnownOK, Saved, Call
  <2>10. QED
    BY <2>3, <2>6, <2>7, <2>8, <2>9
<1>5. QED
  BY <1>3, <1>4

\* A handler that goes on is awaited as before; what it stored is issued.
LEMMA ProceedBasics ==
  ASSUME IInv, Basics, [Next]_vars, NEW q \in Own, Proceed(q) \/ Store(q)
  PROVE  Basics'
<1> USE DEF Basics, IInv, Own
<1>1. \A t \in Tokens : Saved(t) => Saved(t)'
  BY RowsKept
<1>2. CASE Proceed(q)
  <2>1. UNCHANGED <<cookie, call, issued, orderly, loggedOut, overtaken, evicted>>
    BY <1>2, ProceedMoves DEF browser
  <2>2. BrowserTypeOK'
    BY <1>2, <2>1, ProceedMoves DEF BrowserTypeOK
  <2>3. NobodyWaitsInVain'
    <3>1. SUFFICES ASSUME NEW b \in Tabs, Awaits(b, q)
                   PROVE  IF Refreshes(b)
                            THEN Refreshing(q)' /\ request'[q].token = request[q].token
                            ELSE request'[q].pc \in {"login", "repaired", "changing", "changed"}
      <4>1. \A p \in Requests \ {q} : request'[p] = request[p]
        BY <1>2, ProceedMoves
      <4>2. QED
        BY <2>1, <4>1 DEF NobodyWaitsInVain, Refreshes, Refreshing, Awaits, ShapeOK, Issuing
    <3>2. IF Refreshes(b) THEN Refreshing(q)
          ELSE request[q].pc \in {"login", "repaired", "changing", "changed"}
      BY <3>1, NoRequestAssumption DEF NobodyWaitsInVain, Awaits
    <3>3. QED
      BY <1>2, <3>2, ProceedMoves DEF Refreshing, RefreshPC
  <2>4. ShapeOK'
    BY <2>1 DEF ShapeOK
  <2>5. KnownOK'
    BY <1>1, <2>1 DEF KnownOK, Saved, BrowserTypeOK, Call
  <2>6. QED
    BY <2>2, <2>3, <2>4, <2>5
<1>3. CASE Store(q)
  <2>1. SaveSuccessor(q) \/ ChangePasswordOpen(q)
    BY <1>3 DEF Store
  <2>2. Inserted \in Tokens /\ owner'[Inserted] # NoUser
    BY <2>1, InsertedOK, SentinelsAssumption DEF Inserting, Insert, TypeOK
  <2>3. /\ UNCHANGED <<cookie, call, orderly, loggedOut, overtaken, evicted>>
        /\ issued' = [issued EXCEPT ![q] = Inserted]
    BY <1>3 DEF Store
  <2> DEFINE t == Inserted
  <2>4. t \in Tokens /\ owner'[t] # NoUser /\ issued' = [issued EXCEPT ![q] = t]
    BY <2>2, <2>3
  <2> HIDE DEF t
  <2>5. BrowserTypeOK'
    BY <2>1, <2>3, <2>4, StoreMoves, SentinelsAssumption DEF BrowserTypeOK
  <2>6. NobodyWaitsInVain'
    <3>1. SUFFICES ASSUME NEW b \in Tabs, Awaits(b, q)
                   PROVE  IF Refreshes(b)
                            THEN Refreshing(q)' /\ request'[q].token = request[q].token
                            ELSE request'[q].pc \in {"login", "repaired", "changing", "changed"}
      BY <2>1, <2>3, StoreMoves
      DEF NobodyWaitsInVain, Refreshes, Refreshing, Awaits, ShapeOK, Issuing
    <3>2. IF Refreshes(b) THEN Refreshing(q)
          ELSE request[q].pc \in {"login", "repaired", "changing", "changed"}
      BY <3>1, NoRequestAssumption DEF NobodyWaitsInVain, Awaits
    <3>3. QED
      BY <2>1, <3>2, StoreMoves DEF Refreshing, RefreshPC
  <2>7. ShapeOK'
    BY <2>3 DEF ShapeOK
  <2>8. KnownOK'
    BY <1>1, <2>3, <2>4, <2>5 DEF KnownOK, Saved, BrowserTypeOK, Call
  <2>9. QED
    BY <2>5, <2>6, <2>7, <2>8
<1>4. QED
  BY <1>2, <1>3


\* A handler that ends answers all that await it, or drops their calls.
LEMMA EndBasics ==
  ASSUME IInv, Basics, [Next]_vars, NEW q \in Own,
         Return(q) \/ ReturnOpened(q) \/ Refuse(q)
  PROVE  Basics'
<1> USE DEF Basics, IInv, Own
<1>1. \A t \in Tokens : Saved(t) => Saved(t)'
  BY RowsKept
<1>2. PICK t \in Tokens \cup {NoToken} :
        call' = AnsweredBy(q, t) /\ (t # NoToken => owner'[t] # NoUser)
  <2>1. CASE Return(q)
    BY <1>1, <2>1 DEF Return, BrowserTypeOK, KnownOK, Saved
  <2>2. CASE ReturnOpened(q)
    <3>1. Inserting(q) /\ call' = AnsweredBy(q, Inserted)
      BY <2>2 DEF ReturnOpened, Inserting
    <3>2. Inserted \in Tokens /\ owner'[Inserted] # NoUser
      BY <3>1, InsertedOK, SentinelsAssumption DEF Insert, TypeOK
    <3>3. QED
      BY <3>1, <3>2
  <2>3. CASE Refuse(q)
    BY <2>3 DEF Refuse
  <2>4. QED
    BY <2>1, <2>2, <2>3
<1>3. request' = [request EXCEPT ![q] = Idle]
  BY EndMoves
<1>4. /\ UNCHANGED <<cookie, loggedOut, overtaken, evicted>>
      /\ issued' = [issued EXCEPT ![q] = NoToken]
      /\ orderly' \in BOOLEAN
  <2>1. CASE Return(q) \/ Refuse(q)
    BY <2>1 DEF Return, Refuse, BrowserTypeOK
  <2>2. CASE ReturnOpened(q)
    <3>1. issued[q] = NoToken
      BY <2>2 DEF ReturnOpened, OpenSession, BrowserTypeOK
    <3>2. QED
      BY <2>2, <3>1 DEF ReturnOpened, BrowserTypeOK
  <2>3. QED
    BY <2>1, <2>2
<1>5. BrowserTypeOK'
  <2>1. call' \in [Tabs -> Call]
    BY <1>2, AnsweredCalls
  <2>2. QED
    BY <1>3, <1>4, <2>1 DEF BrowserTypeOK, Idle, TypeOK
<1>6. NobodyWaitsInVain'
  <2>1. SUFFICES ASSUME NEW b \in Tabs, call'[b].stage = "served", call'[b].by # NoRequest
                 PROVE  ~Awaits(b, q) /\ call'[b] = call[b]
    BY <1>3 DEF NobodyWaitsInVain, Refreshes, Refreshing, RefreshPC, Idle, TypeOK, Awaits,
                ShapeOK
  <2>2. QED
    BY <1>2, <2>1, AnsweredCalls DEF NoCall
<1>7. ShapeOK'
  <2>1. \A b \in Tabs : Awaits(b, q) => call[b].kind \in Issuing
    BY NobodyAwaitsIdle
  <2>2. QED
    BY <1>2, <2>1, AnsweredCalls DEF ShapeOK, NoCall, Issuing, Kinds
<1>8. KnownOK'
  <2>1. ASSUME NEW b \in Tabs, call'[b].token # NoToken
        PROVE  owner'[call'[b].token] # NoUser
    <3>1. call'[b].token = call[b].token \/ (call'[b].token = t /\ t # NoToken)
      <4>1. /\ ~Awaits(b, q) => call'[b] = call[b]
            /\ Awaits(b, q) /\ t = NoToken => call'[b] = NoCall
            /\ Awaits(b, q) /\ t # NoToken => call'[b].token = t
        BY <1>2, AnsweredCalls
      <4>2. call'[b] # NoCall
        BY <2>1 DEF NoCall
      <4>3. QED
        BY <4>1, <4>2
    <3>2. CASE call'[b].token = call[b].token
      <4>1. call[b].token \in Tokens /\ Saved(call[b].token)
        BY <2>1, <3>2 DEF KnownOK, BrowserTypeOK, Call
      <4>2. QED
        BY <1>1, <3>2, <4>1 DEF Saved
    <3>3. QED
      BY <1>2, <3>1, <3>2
  <2>2. QED
    BY <1>1, <1>4, <2>1 DEF KnownOK, Saved, BrowserTypeOK
<1>9. QED
  BY <1>5, <1>6, <1>7, <1>8

\* What others do moves no handler of the browser.
LEMMA ElsewhereMoves ==
  ASSUME TypeOK, Elsewhere \/ UNCHANGED allVars
  PROVE  \A r \in Own : request'[r] = request[r]
<1>1. ASSUME NEW q \in Remote, RemoteStep(q) PROVE \A r \in Own : request'[r] = request[r]
  <2> USE DevicesAssumption
      DEF Own, TypeOK, Begin, Goto, Finish, Release
  <2>1. CASE RemoteArrive(q)
    BY <2>1 DEF RemoteArrive, BeginRefresh, BeginRevokeSession, BeginLogin,
                BeginChangePassword, BeginResetPassword
  <2>2. CASE RefreshStep(q)
    BY <2>2 DEF RefreshStep, Accept, Reject, DetectReuse, RevokeOnReuse, MarkRotated,
                SaveSuccessor, RefreshReturn, RefreshFail
  <2>3. CASE OpenStep(q)
    BY <2>3 DEF OpenStep, RepairIdentity, OpenSession, ChangePasswordOpen,
                ChangePasswordRevokeOthers
  <2>4. CASE RevokeStep(q) \/ HandlerFail(q)
    BY <2>4 DEF RevokeStep, ResetPasswordRevokeAll, RevokeSession, HandlerFail
  <2>5. QED
    BY <1>1, <2>1, <2>2, <2>3, <2>4 DEF RemoteStep
<1>2. CASE RemoteStatement \/ \E t \in Tokens : Expire(t)
  BY <1>2 DEF RemoteStatement, Logout, RevokeOtherSessions, RevokeAllSessions,
              AdminRevokeAll, AdminUpdateStatus, Expire
<1>3. CASE UNCHANGED allVars
  BY <1>3 DEF allVars, vars
<1>4. QED
  BY <1>1, <1>2, <1>3 DEF Elsewhere

\* A restart drops the calls that were served; other devices, admins and time do
\* not touch the calls.
LEMMA ElsewhereBasics ==
  ASSUME IInv, Basics, CallsApart, [Next]_vars, ServerRestart \/ Elsewhere \/ UNCHANGED allVars
  PROVE  Basics'
<1> USE DEF Basics, IInv
<1>1. \A t \in Tokens : Saved(t) => Saved(t)'
  BY RowsKept
<1>2. CASE ServerRestart
  <2>1. /\ request' = [q \in Requests |-> Idle] /\ issued' = [q \in Requests |-> NoToken]
        /\ UNCHANGED <<cookie, loggedOut, overtaken, evicted>> /\ orderly' \in BOOLEAN
        /\ call' = [b \in Tabs |-> IF call[b].stage = "served" THEN NoCall ELSE call[b]]
    BY <1>2 DEF ServerRestart, Restart, BrowserTypeOK
  <2>2. NoCall \in Call
    BY DEF NoCall, Call
  <2>3. BrowserTypeOK'
    BY <2>1, <2>2 DEF BrowserTypeOK, Idle
  <2>4. ShapeOK' /\ NobodyWaitsInVain'
    BY <2>1 DEF ShapeOK, NobodyWaitsInVain, NoCall
  <2>5. KnownOK'
    BY <1>1, <2>1 DEF KnownOK, Saved, BrowserTypeOK, Call, NoCall
  <2>6. QED
    BY <2>3, <2>4, <2>5
<1>3. CASE Elsewhere \/ UNCHANGED allVars
  <2>1. UNCHANGED <<cookie, call, issued, orderly, loggedOut, overtaken, evicted>>
    BY <1>3 DEF Elsewhere, browser, allVars
  <2>2. \A r \in Own : request'[r] = request[r]
    BY <1>3, ElsewhereMoves
  <2>3. BrowserTypeOK'
    BY <2>1, <2>2 DEF BrowserTypeOK
  <2>4. NobodyWaitsInVain'
    BY <2>1, <2>2 DEF NobodyWaitsInVain, Refreshes, Refreshing, BrowserTypeOK, Call,
                      CallsApart, Own
  <2>5. ShapeOK'
    BY <2>1 DEF ShapeOK
  <2>6. KnownOK'
    BY <1>1, <2>1 DEF KnownOK, Saved, BrowserTypeOK, Call
  <2>7. QED
    BY <2>3, <2>4, <2>5, <2>6
<1>4. QED
  BY <1>2, <1>3

-----------------------------------------------------------------------------
(* What the steps do to the rows the browser depends on.                   *)

\* No row is inserted or rotated: rows are revoked for another reason, or expire.
Mild ==
  /\ owner' = owner /\ lineage' = lineage /\ expired \subseteq expired'
  /\ \A t \in Tokens : revoked'[t] \in {"NO", "TOKEN_ROTATED"} => revoked'[t] = revoked[t]

\* Only MarkRotated gives a row the reason of a rotation.
LEMMA OnlyMarksRotate ==
  ASSUME TypeOK, [Next]_vars, ~\E q \in Requests : MarkRotated(q)
  PROVE  \A t \in Tokens : revoked'[t] = "TOKEN_ROTATED" => revoked[t] = "TOKEN_ROTATED"
<1> USE DEF Revoke, rows, Insert
<1>1. CASE \E q \in Requests : Arrive(q)
  BY <1>1 DEF Arrive, BeginRefresh, BeginRevokeSession, BeginLogin, BeginChangePassword,
              BeginResetPassword
<1>2. CASE \E q \in Requests : RefreshStep(q)
  <2>1. ASSUME NEW q \in Requests, RevokeOnReuse(q)
        PROVE  \A t \in Tokens : revoked'[t] = "TOKEN_ROTATED" => revoked[t] = "TOKEN_ROTATED"
    BY <2>1 DEF RevokeOnReuse
  <2>2. QED
    BY <1>2, <2>1 DEF RefreshStep, Accept, Reject, DetectReuse, SaveSuccessor, RefreshReturn,
                RefreshFail
<1>3. CASE \E q \in Requests : OpenStep(q) \/ RevokeStep(q) \/ HandlerFail(q)
  BY <1>3 DEF OpenStep, RepairIdentity, OpenSession, ChangePasswordOpen,
              ChangePasswordRevokeOthers, RevokeStep, ResetPasswordRevokeAll, RevokeSession,
              HandlerFail
<1>4. CASE OneStatement
  BY <1>4 DEF OneStatement, Logout, RevokeAllSessions, AdminRevokeAll, RevokeOtherSessions,
              AdminUpdateStatus
<1>5. CASE Restart \/ UNCHANGED vars \/ \E t \in Tokens : Expire(t)
  BY <1>5 DEF Restart, vars, Expire
<1>6. QED
  BY <1>1, <1>2, <1>3, <1>4, <1>5 DEF Next

\* A step that neither inserts nor marks is mild.
LEMMA MildSteps ==
  ASSUME IInv, [Next]_vars, ~\E q \in Requests : MarkRotated(q),
         ~\E q \in Requests : Inserting(q)
  PROVE  Mild
<1>1. NoInsert
  BY InsertOrNot DEF IInv
<1>2. revoked' \in [Tokens -> Revocation]
  BY InvStep DEF IInv, TypeOK
<1>3. QED
  BY <1>1, <1>2, OnlyMarksRotate, ExpiredKept DEF Mild, NoInsert, IInv, TypeOK

\* A mild step leaves tokens current and fresh and makes none usable.
LEMMA MildKeeps ==
  ASSUME Mild
  PROVE  /\ Current \subseteq Current'
         /\ evicted' = evicted => Fresh \subseteq Fresh'
         /\ \A t \in Tokens : Usable(t)' => Usable(t)
<1>1. Current \subseteq Current'
  BY DEF Mild, Current, Saved
<1>2. \A t \in Tokens : Usable(t)' => Usable(t)
  BY DEF Mild, Usable, Saved
<1>3. QED
  BY <1>1, <1>2 DEF Fresh, Current, Mild

\* An inserted token is fresh; but for a rotation, the others stay as they were.
LEMMA InsertedFresh ==
  ASSUME IInv, IInv', BrowserTypeOK, KnownOK, NEW q \in Requests, Inserting(q),
         evicted' = evicted
  PROVE  /\ Inserted \in Fresh' /\ Inserted \notin loggedOut
         /\ revoked' = revoked
         /\ \A t \in Tokens : Usable(t)' => Usable(t) \/ t = Inserted
         /\ \A t \in Tokens \ {Inserted} : lineage'[t] = lineage[t]
         /\ ~SaveSuccessor(q) =>
              /\ lineage'[Inserted] = Inserted
              /\ \A t \in Current : Saved(t) => t \in Current'
              /\ \A t \in Fresh : Saved(t) => t \in Fresh'
         /\ SaveSuccessor(q) => lineage'[Inserted] = lineage[request[q].token]
<1> DEFINE n == Inserted
<1>1. PICK u \in Users, l \in Tokens :
        /\ n \in Tokens /\ ~Saved(n) /\ Insert(n, u, l)
        /\ \/ l = n /\ ~SaveSuccessor(q)
           \/ SaveSuccessor(q) /\ l = lineage[request[q].token]
  BY InsertedOK
<1> HIDE DEF n
<1>2. /\ revoked' = revoked /\ expired' = expired
      /\ owner' = [owner EXCEPT ![n] = u] /\ lineage' = [lineage EXCEPT ![n] = l]
  BY <1>1 DEF Insert
<1>3. owner'[n] # NoUser /\ revoked'[n] = "NO"
  BY <1>1, <1>2, SentinelsAssumption DEF IInv, RowsOK, TypeOK, Saved
<1>4. \A t \in Tokens \ {n} : owner'[t] = owner[t] /\ lineage'[t] = lineage[t]
  BY <1>2 DEF IInv, TypeOK
<1>5. lineage'[n] = l
  BY <1>1, <1>2 DEF IInv, TypeOK
<1>6. n \in Current'
  BY <1>1, <1>3 DEF Current, Saved, IInv, OneUnrevokedPerLineage
<1>7. n \notin evicted /\ n \notin loggedOut
  BY <1>1 DEF KnownOK
<1>8. n \in Fresh'
  BY <1>3, <1>6, <1>7 DEF Fresh
<1>9. \A t \in Tokens : Usable(t)' => Usable(t) \/ t = n
  BY <1>2, <1>4 DEF Usable, Saved
<1>10. ASSUME ~SaveSuccessor(q)
       PROVE  /\ lineage'[n] = n
              /\ \A t \in Current : Saved(t) => t \in Current'
              /\ \A t \in Fresh : Saved(t) => t \in Fresh'
  <2>1. l = n
    BY <1>1, <1>10
  <2>2. \A t \in Tokens : Saved(t) => t # n /\ lineage[t] # n
    BY <1>1 DEF IInv, RowsOK
  <2>3. \A t \in Current : Saved(t) => t \in Current'
    BY <1>1, <1>2, <1>4, <1>5, <2>1, <2>2 DEF Current, Saved
  <2>4. QED
    BY <1>2, <1>5, <2>1, <2>3 DEF Fresh
<1>11. QED
  BY <1>1, <1>2, <1>4, <1>5, <1>7, <1>8, <1>9, <1>10 DEF n

-----------------------------------------------------------------------------
(* Other devices keep to their own.                                        *)

\* A step of another device inserts a row, marks one, or does neither; then it may
\* accept a token that is usable.
LEMMA RemoteMoves ==
  ASSUME TypeOK, NEW q \in Requests, RemoteStep(q)
  PROVE  /\ \A p \in Requests \ {q} : request'[p] = request[p]
         /\ Refreshing(q)' => \/ request'[q].token \in Abroad
                              \/ Refreshing(q) /\ request'[q].token = request[q].token
         /\ \/ Inserting(q) /\ ~Rotating(q)'
            \/ /\ MarkRotated(q) /\ Rotating(q)
               /\ request'[q].token = request[q].token
            \/ /\ Mild
               /\ Rotating(q)' => /\ Refreshing(q) /\ Usable(request[q].token)
                                  /\ request'[q].token = request[q].token
<1> USE DEF TypeOK, Request, Idle, Begin, Goto, Finish, Release, At, Refreshing, RefreshPC,
            Rotating, rows
<1>1. CASE RemoteArrive(q)
  <2>1. ASSUME NEW t \in Abroad, BeginRefresh(q, t)
        PROVE  /\ \A p \in Requests \ {q} : request'[p] = request[p]
               /\ request'[q].pc = "finding" /\ request'[q].token \in Abroad
               /\ UNCHANGED rows
    BY <2>1 DEF BeginRefresh
  <2>2. ASSUME NEW t \in Tokens, BeginRevokeSession(q, t)
        PROVE  /\ \A p \in Requests \ {q} : request'[p] = request[p]
               /\ request'[q].pc = "revoking" /\ UNCHANGED rows
    BY <2>2 DEF BeginRevokeSession
  <2>3. ASSUME NEW u \in Users,
               BeginLogin(q, u) \/ BeginChangePassword(q, u) \/ BeginResetPassword(q, u)
        PROVE  /\ \A p \in Requests \ {q} : request'[p] = request[p]
               /\ request'[q].pc \in {"login", "changing", "resetting"} /\ UNCHANGED rows
    BY <2>3 DEF BeginLogin, BeginChangePassword, BeginResetPassword
  <2>4. QED
    BY <1>1, <2>1, <2>2, <2>3 DEF RemoteArrive, Mild
<1>2. CASE RefreshStep(q)
  <2>1. CASE Accept(q)
    BY <2>1 DEF Accept, Mild
  <2>2. CASE Reject(q) \/ DetectReuse(q) \/ RefreshReturn(q) \/ RefreshFail(q)
    BY <2>2 DEF Reject, DetectReuse, RefreshReturn, RefreshFail, Mild
  <2>3. CASE RevokeOnReuse(q)
    BY <2>3 DEF RevokeOnReuse, Revoke, Mild
  <2>4. CASE MarkRotated(q)
    BY <2>4 DEF MarkRotated
  <2>5. CASE SaveSuccessor(q)
    BY <2>5, StoreMoves DEF Inserting
  <2>6. QED
    BY <1>2, <2>1, <2>2, <2>3, <2>4, <2>5 DEF RefreshStep
<1>3. CASE OpenStep(q)
  <2>1. CASE RepairIdentity(q)
    BY <2>1 DEF RepairIdentity, Mild
  <2>2. CASE OpenSession(q)
    BY <2>2 DEF OpenSession, Inserting
  <2>3. CASE ChangePasswordOpen(q)
    <3>1. ~SaveSuccessor(q)
      BY <2>3 DEF ChangePasswordOpen, SaveSuccessor
    <3>2. QED
      BY <2>3, <3>1, StoreMoves DEF Inserting
  <2>4. CASE ChangePasswordRevokeOthers(q)
    BY <2>4 DEF ChangePasswordRevokeOthers, Revoke, Mild
  <2>5. QED
    BY <1>3, <2>1, <2>2, <2>3, <2>4 DEF OpenStep
<1>4. CASE RevokeStep(q) \/ HandlerFail(q)
  BY <1>4 DEF RevokeStep, ResetPasswordRevokeAll, RevokeSession, HandlerFail, Revoke, Mild
<1>5. QED
  BY <1>1, <1>2, <1>3, <1>4 DEF RemoteStep

\* A statement of another device or an admin, and the passing of time, are mild.
LEMMA StatementMild ==
  ASSUME RemoteStatement \/ \E t \in Tokens : Expire(t)
  PROVE  Mild /\ UNCHANGED request
  BY DEF RemoteStatement, Logout, RevokeOtherSessions, RevokeAllSessions, AdminRevokeAll,
         AdminUpdateStatus, Expire, Revoke, rows, Mild

\* A row that is inserted belongs to the device whose handler inserts it.
LEMMA InsertApart ==
  ASSUME IInv, RowsApart, WorkApart, NEW q \in Requests, Inserting(q),
         Inserted \in Abroad <=> q \in Remote
  PROVE  RowsApart'
<1> DEFINE n == Inserted
<1>1. PICK u \in Users, l \in Tokens :
        /\ n \in Tokens /\ ~Saved(n) /\ Insert(n, u, l)
        /\ l = n \/ (SaveSuccessor(q) /\ l = lineage[request[q].token])
  BY InsertedOK
<1>2. l \in Abroad <=> q \in Remote
  <2>1. CASE l = n
    BY <2>1
  <2>2. CASE SaveSuccessor(q) /\ l = lineage[request[q].token]
    <3>1. Refreshing(q)
      BY <2>2 DEF SaveSuccessor, At, Refreshing, RefreshPC
    <3>2. request[q].token \in Tokens /\ Saved(request[q].token)
      BY <3>1 DEF IInv, RequestsOK
    <3>3. QED
      BY <2>2, <3>1, <3>2 DEF RowsApart, WorkApart
  <2>3. QED
    BY <1>1, <2>1, <2>2
<1> HIDE DEF n
<1>3. /\ owner' = [owner EXCEPT ![n] = u] /\ lineage' = [lineage EXCEPT ![n] = l]
      /\ n \in Tokens
  BY <1>1 DEF Insert
<1>4. \A t \in Tokens \ {n} : owner'[t] = owner[t] /\ lineage'[t] = lineage[t]
  BY <1>3 DEF IInv, TypeOK
<1>5. lineage'[n] = l
  BY <1>3 DEF IInv, TypeOK
<1>6. n \in Abroad <=> l \in Abroad
  BY <1>2 DEF n
<1>7. QED
  BY <1>4, <1>5, <1>6 DEF RowsApart, Saved

\* The rows of the browser and those of other devices never share a login.
LEMMA RowsApartStep ==
  ASSUME IInv, BrowserTypeOK, RowsApart, WorkApart, [BrowserNext]_allVars
  PROVE  RowsApart'
<1>1. ASSUME UNCHANGED <<owner, lineage>> PROVE RowsApart'
  BY <1>1 DEF RowsApart, Saved
<1>2. ASSUME NEW b \in Tabs, TabStep(b) PROVE UNCHANGED <<owner, lineage>>
  BY <1>2 DEF TabStep, Send, Deliver, Abort, ArriveRefresh, BeginRefresh, OpenFrom,
              BeginLogin, BeginChangePassword, ArriveLogout, Logout, ArriveOthers,
              EvictOthers, RevokeOtherSessions, ArriveAll, RevokeAllSessions, Revoke, rows,
              vars
<1>3. ASSUME NEW q \in Own, HandlerStep(q) PROVE RowsApart'
  <2>1. q \in Requests /\ q \notin Remote
    BY <1>3 DEF Own
  <2>2. CASE Store(q) \/ ReturnOpened(q)
    BY <2>1, <2>2, InsertApart DEF Store, ReturnOpened, Inserting
  <2>3. CASE Proceed(q)
    BY <1>1, <2>1, <2>3, ProceedMoves DEF IInv
  <2>4. CASE Return(q) \/ Refuse(q)
    BY <1>1, <2>4 DEF Return, Refuse, RefreshReturn, ChangePasswordRevokeOthers, Reject,
                      RevokeOnReuse, RefreshFail, HandlerFail, Revoke, rows
  <2>5. QED
    BY <1>3, <2>2, <2>3, <2>4 DEF HandlerStep
<1>4. ASSUME NEW q \in Remote, RemoteStep(q) PROVE RowsApart'
  <2>1. q \in Requests
    BY DevicesAssumption
  <2>2. CASE Inserting(q)
    <3>1. PICK u \in Users : /\ Inserted \in Tokens /\ ~Saved(Inserted)
                             /\ owner' = [owner EXCEPT ![Inserted] = u]
      BY <2>1, <2>2, InsertedOK DEF Insert
    <3>2. owner'[Inserted] # owner[Inserted]
      BY <3>1, SentinelsAssumption DEF IInv, TypeOK, Saved
    <3>3. Inserted \in Abroad
      BY <1>4, <3>1, <3>2 DEF RemoteStep
    <3>4. QED
      BY <2>1, <2>2, <3>3, InsertApart
  <2>3. CASE ~Inserting(q)
    BY <1>1, <1>4, <2>1, <2>3, RemoteMoves DEF IInv, MarkRotated, Revoke, Mild
  <2>4. QED
    BY <2>2, <2>3
<1>5. CASE RemoteStatement \/ \E t \in Tokens : Expire(t)
  BY <1>1, <1>5, StatementMild DEF Mild
<1>6. CASE ServerRestart \/ UNCHANGED allVars
  BY <1>1, <1>6 DEF ServerRestart, Restart, rows, allVars, vars
<1>7. QED
  BY <1>1, <1>2, <1>3, <1>4, <1>5, <1>6 DEF BrowserNext, Elsewhere

\* A handler that works for the browser works on a token of the browser.
LEMMA WorkApartStep ==
  ASSUME IInv, BrowserTypeOK, CallsApart, WorkApart, [BrowserNext]_allVars
  PROVE  WorkApart'
<1> USE DEF IInv
<1>1. ASSUME NEW q \in Requests,
             \A p \in Requests \ {q} : request'[p] = request[p],
             Refreshing(q)' => \/ request'[q].token \in Abroad <=> q \in Remote
                               \/ Refreshing(q) /\ request'[q].token = request[q].token
      PROVE  WorkApart'
  BY <1>1 DEF WorkApart, Refreshing
<1>2. ASSUME UNCHANGED request PROVE WorkApart'
  BY <1>2 DEF WorkApart, Refreshing
<1>3. ASSUME NEW b \in Tabs, TabStep(b) PROVE WorkApart'
  <2>1. ASSUME NEW q \in Own, ArriveRefresh(b, q) PROVE WorkApart'
    <3>1. q \in Requests /\ q \notin Remote
      BY DEF Own
    <3>2. CASE BeginRefresh(q, call[b].token)
      <4>1. request' = [request EXCEPT ![q] =
                         [pc |-> "finding", user |-> NoUser, token |-> call[b].token]]
        BY <3>2 DEF BeginRefresh, Begin
      <4>2. /\ \A p \in Requests \ {q} : request'[p] = request[p]
            /\ request'[q].token = call[b].token
        BY <3>1, <4>1 DEF TypeOK
      <4>3. call[b].token \notin Abroad
        BY DEF CallsApart
      <4>4. QED
        BY <1>1, <3>1, <4>2, <4>3
    <3>3. CASE UNCHANGED vars
      BY <1>2, <3>3 DEF vars
    <3>4. QED
      BY <2>1, <3>2, <3>3 DEF ArriveRefresh
  <2>2. ASSUME NEW q \in Own, NEW u \in Users, NEW kind \in {"login", "change"},
               OpenFrom(b, q, u, kind)
        PROVE  WorkApart'
    <3>1. q \in Requests
      BY DEF Own
    <3>2. /\ \A p \in Requests \ {q} : request'[p] = request[p]
          /\ request'[q].pc \in {"login", "changing"}
      BY <2>2, <3>1 DEF OpenFrom, BeginLogin, BeginChangePassword, Begin, TypeOK
    <3>3. ~Refreshing(q)'
      BY <3>2 DEF Refreshing, RefreshPC
    <3>4. QED
      BY <1>1, <3>1, <3>2, <3>3
  <2>3. CASE \/ \E kind \in {"refresh", "logout", "others", "all"} : Send(b, kind)
             \/ Deliver(b) \/ Abort(b) \/ ArriveLogout(b) \/ ArriveOthers(b)
             \/ EvictOthers(b) \/ ArriveAll(b)
    BY <1>2, <2>3 DEF Send, Deliver, Abort, ArriveLogout, Logout, ArriveOthers, EvictOthers,
                      RevokeOtherSessions, ArriveAll, RevokeAllSessions, vars
  <2>4. QED
    BY <1>3, <2>1, <2>2, <2>3 DEF TabStep
<1>4. ASSUME NEW q \in Own, HandlerStep(q) PROVE WorkApart'
  <2>1. q \in Requests
    BY DEF Own
  <2>2. CASE Proceed(q)
    <3>1. Refreshing(q)' => Refreshing(q)
      BY <2>1, <2>2, ProceedMoves DEF Refreshing, RefreshPC
    <3>2. QED
      BY <1>1, <2>1, <2>2, <3>1, ProceedMoves
  <2>3. CASE Store(q)
    <3>1. Refreshing(q)' => Refreshing(q) /\ request'[q].token = request[q].token
      BY <2>1, <2>3, StoreMoves DEF Store, Refreshing, RefreshPC
    <3>2. QED
      BY <1>1, <2>1, <2>3, <3>1, StoreMoves DEF Store
  <2>4. CASE Return(q) \/ ReturnOpened(q) \/ Refuse(q)
    <3>1. request' = [request EXCEPT ![q] = Idle]
      BY <2>1, <2>4, EndMoves
    <3>2. (\A p \in Requests \ {q} : request'[p] = request[p]) /\ ~Refreshing(q)'
      BY <2>1, <3>1 DEF TypeOK, Idle, Refreshing, RefreshPC
    <3>3. QED
      BY <1>1, <2>1, <3>2
  <2>5. QED
    BY <1>4, <2>2, <2>3, <2>4 DEF HandlerStep
<1>5. ASSUME NEW q \in Remote, RemoteStep(q) PROVE WorkApart'
  <2>1. q \in Requests
    BY DevicesAssumption
  <2>2. QED
    BY <1>1, <1>5, <2>1, RemoteMoves
<1>6. CASE RemoteStatement \/ \E t \in Tokens : Expire(t)
  BY <1>2, <1>6, StatementMild
<1>7. CASE ServerRestart
  BY <1>7 DEF ServerRestart, Restart, WorkApart, Refreshing, RefreshPC, Idle
<1>8. CASE UNCHANGED allVars
  BY <1>2, <1>8 DEF allVars, vars
<1>9. QED
  BY <1>3, <1>4, <1>5, <1>6, <1>7, <1>8 DEF BrowserNext, Elsewhere

\* The browser is told no token of another device.
LEMMA CallsApartStep ==
  ASSUME IInv, BrowserTypeOK, ShapeOK, KnownOK, RowsApart, CallsApart,
         [BrowserNext]_allVars
  PROVE  CallsApart'
<1>1. /\ NoToken \notin Abroad /\ NoRequest \notin Remote
      /\ NoCall.token \notin Abroad /\ NoCall.by \notin Remote
  BY SentinelsAssumption, NoRequestAssumption, DevicesAssumption DEF NoCall
<1>2. ASSUME NEW b \in Tabs, TabStep(b) PROVE CallsApart'
  <2>1. ASSUME NEW x, x.token \notin Abroad, x.by \notin Remote,
               call' = [call EXCEPT ![b] = x], cookie' \notin Abroad, issued' = issued
        PROVE  CallsApart'
    BY <2>1 DEF CallsApart, BrowserTypeOK
  <2>2. ASSUME NEW kind \in {"refresh", "logout", "others", "all"}, Send(b, kind)
        PROVE  CallsApart'
    <3> DEFINE x == [stage |-> "sent", kind |-> kind, token |-> cookie, by |-> NoRequest]
    <3>1. /\ x.token = cookie /\ x.by = NoRequest /\ call' = [call EXCEPT ![b] = x]
          /\ UNCHANGED <<cookie, issued>>
      BY <2>2 DEF Send
    <3> HIDE DEF x
    <3>2. QED
      BY <1>1, <2>1, <3>1 DEF CallsApart
  <2>3. CASE Deliver(b) \/ Abort(b)
    <3>1. cookie' \notin Abroad
      BY <2>3 DEF Deliver, Abort, CallsApart
    <3>2. QED
      BY <1>1, <2>1, <2>3, <3>1 DEF Deliver, Abort
  <2>4. ASSUME NEW q \in Own, ArriveRefresh(b, q) PROVE CallsApart'
    <3> DEFINE x == [call[b] EXCEPT !.stage = "served", !.by = q]
    <3>1. call[b] \in Call /\ q \notin Remote
      BY DEF BrowserTypeOK, Own
    <3>2. x.token = call[b].token /\ x.by = q
      BY <3>1 DEF Call
    <3>3. call' = [call EXCEPT ![b] = x] /\ UNCHANGED <<cookie, issued>>
      BY <2>4 DEF ArriveRefresh, Serve
    <3> HIDE DEF x
    <3>4. QED
      BY <2>1, <3>1, <3>2, <3>3 DEF CallsApart
  <2>5. ASSUME NEW q \in Own, NEW u \in Users, NEW kind \in {"login", "change"},
               OpenFrom(b, q, u, kind)
        PROVE  CallsApart'
    <3> DEFINE x == [stage |-> "served", kind |-> kind, token |-> NoToken, by |-> q]
    <3>1. /\ x.token = NoToken /\ x.by = q /\ call' = [call EXCEPT ![b] = x]
          /\ UNCHANGED <<cookie, issued>> /\ q \notin Remote
      BY <2>5 DEF OpenFrom, Own
    <3> HIDE DEF x
    <3>2. QED
      BY <1>1, <2>1, <3>1 DEF CallsApart
  <2>6. CASE ArriveLogout(b) \/ EvictOthers(b) \/ ArriveAll(b)
    <3>1. /\ call' = [call EXCEPT ![b] = Answer(b, NoToken)]
          /\ UNCHANGED <<cookie, issued>>
      BY <2>6 DEF ArriveLogout, EvictOthers, ArriveAll
    <3>2. Answer(b, NoToken).token = NoToken /\ Answer(b, NoToken).by = NoRequest
      BY AnswerIs
    <3>3. QED
      BY <1>1, <2>1, <3>1, <3>2 DEF CallsApart
  <2>7. CASE ArriveOthers(b)
    <3>1. /\ call[b].by = NoRequest /\ call[b].token \in Tokens /\ Saved(call[b].token)
          /\ call[b] \in Call /\ UNCHANGED <<cookie, issued>>
      BY <2>7 DEF ArriveOthers, ShapeOK, KnownOK, BrowserTypeOK, Call
    <3>2. PICK h \in SessionHeaders(call[b].token) :
            call' = [call EXCEPT ![b] =
                       IF Resolve(call[b].token, h) = NoToken THEN NoCall
                       ELSE [call[b] EXCEPT !.stage = "served",
                                            !.token = Resolve(call[b].token, h)]]
      BY <2>7 DEF ArriveOthers
    <3> DEFINE keep == Resolve(call[b].token, h)
               x == [call[b] EXCEPT !.stage = "served", !.token = keep]
    <3>3. h \notin Abroad
      BY <1>1, <3>1 DEF SessionHeaders, RowsApart, CallsApart
    <3>4. keep \notin Abroad
      BY <3>3 DEF Resolve, CallsApart
    <3> HIDE DEF keep
    <3>5. x.token = keep /\ x.by = NoRequest
      BY <3>1 DEF Call
    <3>6. call' = [call EXCEPT ![b] = IF keep = NoToken THEN NoCall ELSE x]
      BY <3>2 DEF keep
    <3> HIDE DEF x
    <3>7. QED
      BY <1>1, <2>1, <3>1, <3>4, <3>5, <3>6 DEF CallsApart
  <2>8. QED
    BY <1>2, <2>2, <2>3, <2>4, <2>5, <2>6, <2>7 DEF TabStep
<1>3. ASSUME NEW q \in Own, HandlerStep(q) PROVE CallsApart'
  <2>1. q \in Requests
    BY DEF Own
  <2>2. ASSUME NEW t \in Tokens \cup {NoToken}, t \notin Abroad, call' = AnsweredBy(q, t),
               UNCHANGED cookie, \A p \in Requests : issued'[p] \notin Abroad
        PROVE  CallsApart'
    <3>1. \A b \in Tabs : \/ call'[b] = call[b] \/ call'[b] = NoCall
                          \/ call'[b].token = t /\ call'[b].by = NoRequest
      BY <2>1, <2>2, AnsweredCalls
    <3>2. QED
      BY <1>1, <2>2, <3>1 DEF CallsApart
  <2>3. CASE Proceed(q)
    BY <2>3 DEF Proceed, browser, CallsApart
  <2>4. CASE Store(q)
    <3>1. UNCHANGED <<cookie, call>> /\ issued' = [issued EXCEPT ![q] = Inserted]
          /\ Inserted \notin Abroad
      BY <2>4 DEF Store
    <3> DEFINE n == Inserted
    <3>2. n \notin Abroad /\ issued' = [issued EXCEPT ![q] = n]
      BY <3>1
    <3> HIDE DEF n
    <3>3. QED
      BY <3>1, <3>2 DEF CallsApart, BrowserTypeOK
  <2>5. CASE Return(q) \/ Refuse(q)
    <3>1. PICK t \in Tokens \cup {NoToken} : t \notin Abroad /\ call' = AnsweredBy(q, t)
      BY <1>1, <2>1, <2>5 DEF Return, Refuse, CallsApart, BrowserTypeOK
    <3>2. UNCHANGED cookie /\ issued' = [issued EXCEPT ![q] = NoToken]
      BY <2>5 DEF Return, Refuse
    <3>3. \A p \in Requests : issued'[p] \notin Abroad
      BY <1>1, <3>2 DEF CallsApart, BrowserTypeOK
    <3>4. QED
      BY <2>2, <3>1, <3>2, <3>3
  <2>6. CASE ReturnOpened(q)
    <3>1. Inserted \in Tokens
      BY <2>1, <2>6, InsertedOK DEF ReturnOpened, Inserting
    <3>2. QED
      BY <2>2, <2>6, <3>1 DEF ReturnOpened, CallsApart
  <2>7. QED
    BY <1>3, <2>3, <2>4, <2>5, <2>6 DEF HandlerStep
<1>4. CASE ServerRestart
  BY <1>1, <1>4 DEF ServerRestart, CallsApart
<1>5. CASE Elsewhere \/ UNCHANGED allVars
  BY <1>5 DEF Elsewhere, allVars, browser, CallsApart
<1>6. QED
  BY <1>2, <1>3, <1>4, <1>5 DEF BrowserNext

-----------------------------------------------------------------------------
(* A browser that is not disturbed.                                        *)

\* A step of an undisturbed browser, with what holds before and after it anyway.
Quiet ==
  /\ IInv /\ Basics /\ DevicesApart /\ orderly /\ Undisturbed
  /\ IInv' /\ Basics' /\ DevicesApart' /\ [Next]_vars

\* A refresh at work is the only one, its token is the cookie, and every call of
\* the browser is a refresh which is not answered yet.
LEMMA RefreshAlone ==
  ASSUME IInv, Basics, DevicesApart, Undisturbed, NEW q \in Own, Refreshing(q)
  PROVE  /\ request[q].token = cookie
         /\ \A p \in Own : Refreshing(p) => p = q
         /\ \E b \in Tabs : Awaits(b, q) /\ Refreshes(b)
         /\ \A b \in Tabs : Underway(b) => Refreshes(b) /\ call[b].stage # "answered"
         /\ \A b \in Tabs, p \in Requests : Awaits(b, p) => p = q
<1> USE DEF Undisturbed, Basics, Own
<1>1. ASSUME NEW p \in Own, Refreshing(p) PROVE request[p].token = cookie
  <2>1. PICK b \in Tabs : Awaits(b, p) /\ Refreshes(b)
    BY <1>1 DEF RefreshAwaited
  <2>2. request[p].token = call[b].token
    BY <2>1, NobodyAwaitsIdle
  <2>3. QED
    BY <2>1, <2>2 DEF ServedCookie, Awaits
<1>2. \A p \in Own : Refreshing(p) => p = q
  BY <1>1 DEF IInv, InFlightExact
<1>3. PICK b \in Tabs : Awaits(b, q) /\ Refreshes(b)
  BY DEF RefreshAwaited
<1>4. \A c \in Tabs : Underway(c) => Refreshes(c) /\ call[c].stage # "answered"
  BY <1>3 DEF NoOverlap, AnswersFirst, Awaits, Underway, Refreshes, Issuing
<1>5. ASSUME NEW c \in Tabs, NEW p \in Requests, Awaits(c, p) PROVE p = q
  <2>1. Refreshes(c)
    BY <1>4, <1>5 DEF Awaits, Underway
  <2>2. QED
    BY <1>2, <1>5, <2>1, NobodyAwaitsIdle DEF DevicesApart, CallsApart, Awaits
<1>6. QED
  BY <1>1, <1>2, <1>3, <1>4, <1>5

\* A step that only drops calls, ends handlers and revokes rows, but drops no
\* call that awaits a refresh at work, and no rotation past its mark.
LEMMA ShrinkQuiet ==
  ASSUME Quiet, Mild, UNCHANGED <<cookie, loggedOut, overtaken, evicted>>,
         \A b \in Tabs : call'[b] = call[b] \/ call'[b] = NoCall,
         \A q \in Requests : \/ request'[q] = request[q]
                             \/ request'[q].pc \notin RefreshPC,
         \A q \in Requests : issued'[q] = issued[q] \/ issued'[q] = NoToken,
         \A q \in Requests, b \in Tabs :
           Refreshing(q)' /\ Awaits(b, q) /\ Refreshes(b) => call'[b] = call[b],
         Settled' => Settled
  PROVE  Undisturbed'
<1> USE DEF Quiet, Undisturbed, Own
<1>1. NoOverlap' /\ ServedCookie' /\ AnswersFirst'
  BY DEF NoOverlap, ServedCookie, AnswersFirst, Underway, Refreshes, NoCall
<1>2. RefreshAwaited'
  BY DEF RefreshAwaited, Refreshing, Refreshes, Awaits
<1>3. AnswersFresh'
  BY MildKeeps DEF AnswersFresh, NoCall
<1>4. IssuedFresh'
  BY MildKeeps DEF IssuedFresh, Awaits, NoCall
<1>5. CookieFresh'
  BY MildKeeps DEF CookieFresh
<1>6. NoReuse'
  <2>1. \A q \in Requests : At(q, "finding") => request[q].token \in Tokens
    BY DEF At, Refreshing, RefreshPC, RequestsOK, IInv
  <2>2. QED
    BY <2>1 DEF NoReuse, At, RefreshPC, Mild
<1>7. LogoutCurrent'
  BY MildKeeps DEF LogoutCurrent, NoCall
<1>8. EndedOK'
  <2>1. \A t \in Tokens : Usable(t)' => lineage'[t] \notin Ended
    BY MildKeeps DEF EndedOK, Mild
  <2>2. \A q \in Requests : Rotating(q)' => lineage'[request'[q].token] \notin Ended
    BY DEF EndedOK, Mild, Rotating, RefreshPC
  <2>3. QED
    BY <2>1, <2>2 DEF EndedOK, Ended
<1>9. CallerOK'
  <2>1. cookie \in Tokens \cup {NoToken}
    BY DEF Basics, BrowserTypeOK
  <2>2. Usable(cookie)' /\ cookie' # NoToken => Usable(cookie)
    BY <2>1 DEF Mild, Usable, Saved
  <2>3. QED
    BY <2>2 DEF CallerOK, NoCall
<1>10. QED
  BY <1>1, <1>2, <1>3, <1>4, <1>5, <1>6, <1>7, <1>8, <1>9

\* A call that is sent does not overlap one that sets the cookie.
LEMMA SendQuiet ==
  ASSUME Quiet, NEW b \in Tabs, NEW kind \in {"refresh", "logout", "others", "all"},
         Send(b, kind), orderly'
  PROVE  Undisturbed'
<1> USE DEF Quiet, Undisturbed, Own
<1> DEFINE x == [stage |-> "sent", kind |-> kind, token |-> cookie, by |-> NoRequest]
<1>1. /\ call[b].stage = "none" /\ ~Overlaps(b, kind)
      /\ UNCHANGED <<vars, cookie, issued, loggedOut, overtaken, evicted>>
      /\ \A c \in Tabs : call'[c] = IF c = b THEN x ELSE call[c]
  BY DEF Send, Underway, Basics, BrowserTypeOK
<1>2. UNCHANGED <<owner, lineage, revoked, expired, request>>
  BY <1>1 DEF vars
<1>3. NoOverlap'
  BY <1>1 DEF NoOverlap, Overlaps, Underway, Refreshes
<1>4. RefreshAwaited' /\ ServedCookie' /\ AnswersFirst'
  BY <1>1, <1>2 DEF RefreshAwaited, ServedCookie, AnswersFirst, Refreshing, Refreshes, Awaits
<1>5. AnswersFresh' /\ IssuedFresh'
  BY <1>1, <1>2 DEF AnswersFresh, IssuedFresh, Awaits, Fresh, Current, Saved
<1>6. CookieFresh'
  <2>1. Settled' => Settled
    BY <1>1, <1>2 DEF Settled, Refreshes
  <2>2. QED
    BY <1>1, <1>2, <2>1 DEF CookieFresh, Fresh, Current, Saved
<1>7. NoReuse' /\ EndedOK'
  BY <1>1, <1>2 DEF NoReuse, EndedOK, Ended, At, Usable, Saved, Rotating
<1>8. LogoutCurrent'
  <2>1. ASSUME kind = "logout" PROVE cookie \in Current
    <3>1. \A c \in Tabs : Underway(c) => call[c].kind \notin Issuing
      BY <1>1, <2>1 DEF Overlaps, Underway
    <3>2. \A q \in Own : ~Refreshing(q)
      BY <3>1, RefreshAlone DEF Refreshes, Issuing, Awaits, Underway
    <3>3. Settled
      BY <3>1, <3>2 DEF Settled, Refreshing, RefreshPC, Refreshes, Underway, Issuing
    <3>4. QED
      BY <3>3 DEF CookieFresh, Fresh, Send
  <2>2. QED
    BY <1>1, <1>2, <2>1 DEF LogoutCurrent, Current, Saved
<1>9. CallerOK'
  BY <1>1, <1>2 DEF CallerOK, Usable, Saved
<1>10. QED
  BY <1>1, <1>3, <1>4, <1>5, <1>6, <1>7, <1>8, <1>9

\* An answer that sets the cookie sets a fresh one, and nothing was under way
\* that depends on the old one.
LEMMA DeliverQuiet ==
  ASSUME Quiet, NEW b \in Tabs, Deliver(b)
  PROVE  Undisturbed'
<1> USE DEF Quiet, Undisturbed, Own
<1>1. /\ call[b].stage = "answered" /\ UNCHANGED <<vars, issued, loggedOut, overtaken, evicted>>
      /\ cookie' = IF call[b].kind = "others" THEN cookie ELSE call[b].token
      /\ \A c \in Tabs : call'[c] = IF c = b THEN NoCall ELSE call[c]
  BY DEF Deliver, Basics, BrowserTypeOK
<1>2. UNCHANGED <<owner, lineage, revoked, expired, request>>
  BY <1>1 DEF vars
<1>3. Mild
  BY <1>2 DEF Mild
<1>4. CASE call[b].kind = "others"
  <2>1. Settled' => Settled
    BY <1>1, <1>2, <1>4 DEF Settled, Refreshes
  <2>2. \A q \in Requests, c \in Tabs : Awaits(c, q) => call'[c] = call[c]
    BY <1>1 DEF Awaits
  <2>3. QED
    BY <1>1, <1>2, <1>3, <1>4, <2>1, <2>2, ShrinkQuiet
<1>5. CASE call[b].kind # "others"
  <2>1. \/ call[b].kind \in Issuing /\ cookie' \in Fresh
        \/ cookie' = NoToken
    BY <1>1, <1>5 DEF Basics, ShapeOK, AnswersFresh, Kinds
  <2>2. Fresh' = Fresh /\ Current' = Current
    BY <1>1, <1>2 DEF Fresh, Current, Saved
  <2>3. NoOverlap' /\ AnswersFirst'
    BY <1>1 DEF NoOverlap, AnswersFirst, Underway, Refreshes, NoCall
  <2>4. RefreshAwaited'
    BY <1>1, <1>2 DEF RefreshAwaited, Refreshing, Refreshes, Awaits
  <2>5. ServedCookie'
    <3>1. \A c \in Tabs : ~(call[c].stage = "served" /\ Refreshes(c))
      BY <1>1, <1>5
      DEF NoOverlap, AnswersFirst, Underway, Refreshes, Issuing
    <3>2. QED
      BY <1>1, <3>1 DEF ServedCookie, Refreshes, NoCall
  <2>6. AnswersFresh' /\ IssuedFresh' /\ LogoutCurrent'
    BY <1>1, <2>2 DEF AnswersFresh, IssuedFresh, LogoutCurrent, Awaits, NoCall
  <2>7. CookieFresh'
    BY <2>1, <2>2 DEF CookieFresh
  <2>8. NoReuse' /\ EndedOK'
    BY <1>1, <1>2 DEF NoReuse, EndedOK, Ended, At, Usable, Saved, Rotating
  <2>9. CallerOK'
    <3>1. CASE call[b].kind \in Issuing
      <4>1. \A c \in Tabs \ {b} : call[c].kind = "others" => ~Underway(c)
        BY <1>1, <3>1 DEF NoOverlap, Underway, Refreshes
      <4>2. QED
        BY <1>1, <4>1 DEF CallerOK, Underway, NoCall
    <3>2. CASE cookie' = NoToken
      BY <3>2 DEF CallerOK
    <3>3. QED
      BY <2>1, <3>1, <3>2
  <2>10. cookie' \notin evicted'
    BY <1>1, <2>1, SentinelsAssumption DEF Fresh, Basics, BrowserTypeOK
  <2>11. QED
    BY <2>3, <2>4, <2>5, <2>6, <2>7, <2>8, <2>9, <2>10
<1>6. QED
  BY <1>4, <1>5

\* A lost call that the browser does not miss.
LEMMA AbortQuiet ==
  ASSUME Quiet, NEW b \in Tabs, Abort(b), orderly'
  PROVE  Undisturbed'
<1> USE DEF Quiet, Undisturbed, Own
<1>1. /\ call[b].stage = "sent" \/ ~Refreshes(b)
      /\ UNCHANGED <<vars, cookie, issued, loggedOut, overtaken, evicted>>
      /\ \A c \in Tabs : call'[c] = IF c = b THEN NoCall ELSE call[c]
  BY DEF Abort, Basics, BrowserTypeOK
<1>2. UNCHANGED <<owner, lineage, revoked, expired, request>>
  BY <1>1 DEF vars
<1>3. Mild
  BY <1>2 DEF Mild
<1>4. Settled' => Settled
  BY <1>1, <1>2 DEF Settled, Refreshes
<1>5. \A q \in Requests, c \in Tabs : Awaits(c, q) /\ Refreshes(c) => call'[c] = call[c]
  BY <1>1 DEF Awaits
<1>6. QED
  BY <1>1, <1>2, <1>3, <1>4, <1>5, ShrinkQuiet

\* A refresh that arrives in time, or joins the rotation of its token.
LEMMA ArriveQuiet ==
  ASSUME Quiet, NEW b \in Tabs, NEW q \in Own, ArriveRefresh(b, q), orderly'
  PROVE  Undisturbed'
<1> USE DEF Quiet, Undisturbed, Own
<1>1. /\ call[b].stage = "sent" /\ Refreshes(b)
      /\ UNCHANGED <<cookie, issued, loggedOut, overtaken, evicted>>
      /\ \A c \in Tabs \ {b} : call'[c] = call[c]
      /\ call'[b].stage = "served" /\ call'[b].kind = "refresh" /\ call'[b].by = q
      /\ call'[b].token = call[b].token
  <2>1. call[b] \in Call
    BY DEF Basics, BrowserTypeOK
  <2>2. QED
    BY <2>1 DEF ArriveRefresh, Serve, Refreshes, Call, Basics, BrowserTypeOK
<1>2. /\ UNCHANGED <<owner, lineage, revoked, expired>>
      /\ \A p \in Requests \ {q} : request'[p] = request[p]
  BY DEF ArriveRefresh, BeginRefresh, Begin, rows, vars, IInv, TypeOK
<1>3. Fresh' = Fresh /\ Current' = Current
  BY <1>1, <1>2 DEF Fresh, Current, Saved
<1>4. /\ call[b].token = cookie
      /\ Refreshing(q)' /\ request'[q].token = cookie
      /\ request'[q] = request[q] \/ (request[q] = Idle /\ request'[q].pc = "finding")
      /\ \A c \in Tabs : ~(Refreshes(c) /\ call[c].stage = "answered")
      /\ At(q, "finding")' => revoked[cookie] # "TOKEN_ROTATED"
      /\ issued[q] # NoToken => issued[q] \in Fresh
  <2>1. CASE BeginRefresh(q, call[b].token) /\ ~Late(b)
    <3>1. /\ call[b].token = cookie
          /\ \A c \in Tabs : ~(Refreshes(c) /\ call[c].stage = "answered")
      BY <1>1, <2>1 DEF Late
    <3>2. /\ request[q] = Idle /\ request'[q].pc = "finding" /\ request'[q].token = cookie
          /\ cookie \notin refreshInFlight
      BY <2>1, <3>1 DEF BeginRefresh, Begin, IInv, TypeOK
    <3>3. ASSUME NEW p \in Own, Refreshing(p) PROVE FALSE
      <4>1. request[p].token = cookie
        BY <3>3, RefreshAlone
      <4>2. QED
        BY <3>2, <3>3, <4>1 DEF IInv, InFlightExact
    <3>4. Settled
      BY <3>1, <3>3 DEF Settled, Refreshing, RefreshPC
    <3>5. cookie # NoToken
      BY <1>1, <3>1 DEF Basics, ShapeOK
    <3>6. issued[q] = NoToken
      BY <3>2 DEF Basics, BrowserTypeOK, Idle
    <3>7. QED
      BY <3>1, <3>2, <3>4, <3>5, <3>6 DEF CookieFresh, Fresh, Refreshing, RefreshPC
  <2>2. CASE UNCHANGED vars /\ Refreshing(q) /\ request[q].token = call[b].token
    <3>1. request' = request
      BY <2>2 DEF vars
    <3>2. /\ request[q].token = cookie
          /\ \E c \in Tabs : Awaits(c, q) /\ Refreshes(c)
          /\ \A c \in Tabs : ~(Refreshes(c) /\ call[c].stage = "answered")
      BY <2>2, RefreshAlone DEF Underway
    <3>3. At(q, "finding")' => revoked[cookie] # "TOKEN_ROTATED"
      BY <3>1, <3>2 DEF NoReuse, At
    <3>4. issued[q] # NoToken => issued[q] \in Fresh
      BY <3>2 DEF IssuedFresh
    <3>5. Refreshing(q)' /\ request'[q].token = cookie
      BY <2>2, <3>1, <3>2 DEF Refreshing
    <3>6. call[b].token = cookie /\ request'[q] = request[q]
      BY <2>2, <3>1, <3>2
    <3>7. QED
      BY <3>2, <3>3, <3>4, <3>5, <3>6
  <2>3. QED
    BY <2>1, <2>2 DEF ArriveRefresh
<1>5. NoOverlap'
  BY <1>1 DEF NoOverlap, Underway, Refreshes
<1>6. RefreshAwaited'
  BY <1>1, <1>2 DEF RefreshAwaited, Refreshing, Refreshes, Awaits
<1>7. ServedCookie' /\ AnswersFirst'
  BY <1>1, <1>4 DEF ServedCookie, AnswersFirst, Refreshes
<1>8. AnswersFresh' /\ IssuedFresh' /\ LogoutCurrent'
  BY <1>1, <1>3, <1>4 DEF AnswersFresh, IssuedFresh, LogoutCurrent, Awaits
<1>9. CookieFresh'
  <2>1. Settled' => Settled
    BY <1>1, <1>2, <1>4 DEF Settled, Refreshes, Idle
  <2>2. QED
    BY <1>1, <1>3, <2>1 DEF CookieFresh
<1>10. NoReuse'
  BY <1>2, <1>4 DEF NoReuse, At, Refreshing
<1>11. EndedOK'
  <2>1. Rotating(q)' => request'[q] = request[q]
    BY <1>4 DEF Rotating
  <2>2. QED
    BY <1>1, <1>2, <2>1 DEF EndedOK, Ended, Rotating, Usable, Saved
<1>12. CallerOK'
  BY <1>1, <1>2 DEF CallerOK, Usable, Saved
<1>13. QED
  BY <1>1, <1>5, <1>6, <1>7, <1>8, <1>9, <1>10, <1>11, <1>12

\* A login or a change of the password that overlaps no other call.
LEMMA OpenQuiet ==
  ASSUME Quiet, NEW b \in Tabs, NEW q \in Own, NEW u \in Users,
         NEW kind \in {"login", "change"}, OpenFrom(b, q, u, kind), orderly'
  PROVE  Undisturbed'
<1> USE DEF Quiet, Undisturbed, Own
<1>1. /\ ~Underway(b) /\ ~Overlaps(b, kind)
      /\ UNCHANGED <<owner, lineage, revoked, expired>>
      /\ UNCHANGED <<cookie, issued, loggedOut, overtaken, evicted>>
      /\ \A c \in Tabs \ {b} : call'[c] = call[c]
      /\ call'[b].stage = "served" /\ call'[b].kind = kind /\ call'[b].by = q
  BY DEF OpenFrom, BeginLogin, BeginChangePassword, rows, Basics, BrowserTypeOK
<1>2. /\ request[q] = Idle /\ request'[q].pc \in {"login", "changing"}
      /\ \A p \in Requests \ {q} : request'[p] = request[p]
  BY DEF OpenFrom, BeginLogin, BeginChangePassword, Begin, IInv, TypeOK
<1>3. issued[q] = NoToken
  BY <1>2 DEF Basics, BrowserTypeOK, Idle
<1>4. Fresh' = Fresh /\ Current' = Current
  BY <1>1 DEF Fresh, Current, Saved
<1>5. NoOverlap'
  BY <1>1 DEF NoOverlap, Overlaps, Underway, Refreshes
<1>6. RefreshAwaited'
  <2>1. \A p \in Requests : Refreshing(p)' => Refreshing(p) /\ p # q
    BY <1>2 DEF Refreshing, RefreshPC
  <2>2. QED
    BY <1>1, <2>1 DEF RefreshAwaited, Refreshes, Awaits, Underway
<1>7. ServedCookie' /\ AnswersFirst'
  BY <1>1 DEF ServedCookie, AnswersFirst, Refreshes
<1>8. AnswersFresh' /\ IssuedFresh' /\ LogoutCurrent'
  BY <1>1, <1>3, <1>4 DEF AnswersFresh, IssuedFresh, LogoutCurrent, Awaits
<1>9. CookieFresh'
  <2>1. Settled' => Settled
    BY <1>1, <1>2 DEF Settled, Refreshes, Underway, Idle
  <2>2. QED
    BY <1>1, <1>4, <2>1 DEF CookieFresh
<1>10. NoReuse'
  BY <1>1, <1>2 DEF NoReuse, At
<1>11. EndedOK'
  BY <1>1, <1>2 DEF EndedOK, Ended, Rotating, Usable, Saved
<1>12. CallerOK'
  BY <1>1 DEF CallerOK, Usable, Saved
<1>13. QED
  BY <1>1, <1>5, <1>6, <1>7, <1>8, <1>9, <1>10, <1>11, <1>12

\* A logout ends the one row of its login that is not revoked, while no rotation
\* of the browser is at work; logout-all, the rows of logins that no other device
\* is rotating.
LEMMA LogoutQuiet ==
  ASSUME Quiet, NEW b \in Tabs, ArriveLogout(b) \/ ArriveAll(b)
  PROVE  Undisturbed'
<1> USE DEF Quiet, Undisturbed, Own
<1> DEFINE t == call[b].token
<1>1. /\ call[b].stage = "sent" /\ call[b].kind \in {"logout", "all"}
      /\ UNCHANGED <<cookie, issued, evicted, request>>
      /\ \A c \in Tabs \ {b} : call'[c] = call[c]
      /\ call'[b].stage = "answered" /\ call'[b].kind = call[b].kind
  <2>1. call' = [call EXCEPT ![b] = Answer(b, NoToken)]
    BY DEF ArriveLogout, ArriveAll
  <2>2. call'[b] = Answer(b, NoToken) /\ \A c \in Tabs \ {b} : call'[c] = call[c]
    BY <2>1 DEF Basics, BrowserTypeOK
  <2>3. /\ Answer(b, NoToken).stage = "answered"
        /\ Answer(b, NoToken).kind = call[b].kind
    BY AnswerIs DEF Basics
  <2>4. CASE ArriveLogout(b)
    BY <2>2, <2>3, <2>4 DEF ArriveLogout, Logout
  <2>5. CASE ArriveAll(b)
    BY <2>2, <2>3, <2>5 DEF ArriveAll, RevokeAllSessions
  <2>6. QED
    BY <2>4, <2>5
<1>2. Mild
  BY DEF Mild, ArriveLogout, ArriveAll, Logout, RevokeAllSessions, Revoke
<1>3. \A q \in Own : ~Refreshing(q)
  BY <1>1, RefreshAlone DEF Underway, Refreshes
<1>4. t \in Tokens /\ Saved(t)
  BY <1>1 DEF Basics, ShapeOK, KnownOK, BrowserTypeOK, Call
<1>5. /\ Current \subseteq Current' /\ Fresh \subseteq Fresh'
      /\ \A s \in Tokens : Usable(s)' => Usable(s)
  BY <1>1, <1>2, MildKeeps
<1>6. NoOverlap' /\ RefreshAwaited' /\ ServedCookie' /\ AnswersFirst'
  BY <1>1, <1>3 DEF NoOverlap, RefreshAwaited, ServedCookie, AnswersFirst, Underway,
     Refreshing, Refreshes, Issuing
<1>7. AnswersFresh' /\ LogoutCurrent'
  BY <1>1, <1>5 DEF AnswersFresh, LogoutCurrent, Issuing
<1>8. IssuedFresh'
  BY <1>1, <1>5 DEF IssuedFresh, Awaits
<1>9. CookieFresh'
  <2>1. Settled' => Settled
    BY <1>1 DEF Settled, Refreshes
  <2>2. QED
    BY <1>1, <1>5, <2>1 DEF CookieFresh
<1>10. NoReuse'
  BY <1>1, <1>3 DEF NoReuse, At, Refreshing, RefreshPC
<1>11. EndedOK'
  <2>1. ASSUME NEW q \in Requests, Rotating(q)' PROVE lineage'[request'[q].token] \notin Ended'
    <3> DEFINE r == request[q].token
    <3>1. /\ Rotating(q) /\ request'[q] = request[q] /\ lineage' = lineage
          /\ lineage[r] \notin Ended
      BY <1>1, <1>2, <2>1 DEF Rotating, Mild, EndedOK
    <3>2. /\ Refreshing(q) /\ q \in Remote /\ r \in Tokens /\ Saved(r)
          /\ request[q].user = owner[r]
      BY <1>3, <3>1 DEF Rotating, Refreshing, RefreshPC, IInv, RequestsOK
    <3>3. CASE ArriveLogout(b)
      <4>1. r \in Abroad /\ t \notin Abroad
        BY <3>2 DEF DevicesApart, WorkApart, CallsApart
      <4>2. lineage[r] # lineage[t]
        BY <1>4, <3>2, <4>1 DEF DevicesApart, RowsApart
      <4>3. Ended' = Ended \cup ({lineage[t]} \ overtaken)
        BY <3>3 DEF ArriveLogout, Ended
      <4>4. QED
        BY <3>1, <4>2, <4>3
    <3>4. CASE ArriveAll(b)
      <4>1. /\ loggedOut' = loggedOut \cup {lineage[s] : s \in OwnedBy(owner[t])}
            /\ overtaken' = overtaken \cup
                              {lineage[request[p].token] : p \in Rotations(owner[t])}
        BY <3>4 DEF ArriveAll
      <4>2. ASSUME NEW s \in OwnedBy(owner[t]), lineage[s] = lineage[r]
            PROVE  q \in Rotations(owner[t])
        <5>1. s \in Tokens /\ owner[s] = owner[t] /\ Saved(s)
          BY <1>4, <4>2 DEF OwnedBy, Saved
        <5>2. owner[r] = owner[t]
          BY <3>2, <4>2, <5>1 DEF IInv, RowsOK
        <5>3. QED
          BY <3>1, <3>2, <5>2 DEF Rotations
      <4>3. QED
        BY <3>1, <4>1, <4>2 DEF Ended
    <3>5. QED
      BY <3>3, <3>4
  <2>2. ASSUME NEW s \in Tokens, Usable(s)' PROVE lineage'[s] \notin Ended'
    <3>1. Usable(s) /\ lineage'[s] = lineage[s] /\ lineage[s] \notin Ended
      BY <1>2, <1>5, <2>2 DEF EndedOK, Mild
    <3>2. CASE ArriveLogout(b)
      <4>1. lineage[s] = lineage[t] => s = t
        BY <1>4, <3>1, <3>2 DEF ArriveLogout, LogoutCurrent, Current, Usable
      <4>2. revoked'[t] = "ENDED"
        BY <1>4, <3>2 DEF ArriveLogout, Logout, Revoke
      <4>3. Ended' = Ended \cup ({lineage[t]} \ overtaken)
        BY <3>2 DEF ArriveLogout, Ended
      <4>4. QED
        BY <2>2, <3>1, <4>1, <4>2, <4>3 DEF Usable
    <3>3. CASE ArriveAll(b)
      <4>1. /\ loggedOut' = loggedOut \cup {lineage[r] : r \in OwnedBy(owner[t])}
            /\ overtaken \subseteq overtaken'
        BY <3>3 DEF ArriveAll
      <4>2. ASSUME NEW r \in OwnedBy(owner[t]), lineage[r] = lineage[s] PROVE FALSE
        <5>1. r \in Tokens /\ owner[r] = owner[t] /\ Saved(r)
          BY <1>4, <4>2 DEF OwnedBy, Saved
        <5>2. owner[s] = owner[t]
          BY <3>1, <4>2, <5>1 DEF IInv, RowsOK, Usable
        <5>3. s \in Unrevoked(owner[t])
          BY <3>1, <5>2 DEF Unrevoked, OwnedBy, Usable
        <5>4. revoked'[s] = "ENDED"
          BY <3>3, <5>3 DEF ArriveAll, RevokeAllSessions, Revoke
        <5>5. QED
          BY <2>2, <5>4 DEF Usable
      <4>3. QED
        BY <3>1, <4>1, <4>2 DEF Ended
    <3>4. QED
      BY <3>2, <3>3
  <2>3. QED
    BY <2>1, <2>2 DEF EndedOK
<1>12. CallerOK'
  <2>1. cookie # NoToken => cookie \in Tokens
    BY DEF Basics, BrowserTypeOK
  <2>2. QED
    BY <1>1, <1>2, <2>1 DEF CallerOK, Mild, Usable, Saved
<1>13. QED
  BY <1>1, <1>6, <1>7, <1>8, <1>9, <1>10, <1>11, <1>12

\* A logout-others keeps the row of the cookie if that is usable.
LEMMA OthersQuiet ==
  ASSUME Quiet, NEW b \in Tabs, ArriveOthers(b)
  PROVE  Undisturbed'
<1> USE DEF Quiet, Undisturbed, Own
<1>1. /\ call[b].stage = "sent" /\ call[b].kind = "others" /\ call[b].by = NoRequest
      /\ UNCHANGED <<vars, cookie, issued, orderly, loggedOut, overtaken, evicted>>
  BY DEF ArriveOthers, Basics, ShapeOK
<1>2. PICK h \in SessionHeaders(call[b].token) :
        call' = [call EXCEPT ![b] =
                   IF Resolve(call[b].token, h) = NoToken THEN NoCall
                   ELSE [call[b] EXCEPT !.stage = "served",
                                        !.token = Resolve(call[b].token, h)]]
  BY DEF ArriveOthers
<1> DEFINE keep == Resolve(call[b].token, h)
<1>3. UNCHANGED <<owner, lineage, revoked, expired, request>>
  BY <1>1 DEF vars
<1>4. CASE keep = NoToken
  <2>1. \A c \in Tabs : call'[c] = IF c = b THEN NoCall ELSE call[c]
    BY <1>2, <1>4 DEF Basics, BrowserTypeOK
  <2>2. Mild
    BY <1>3 DEF Mild
  <2>3. Settled' => Settled
    BY <1>1, <1>3, <2>1 DEF Settled, Refreshes
  <2>4. \A q \in Requests, c \in Tabs : Awaits(c, q) => call'[c] = call[c]
    BY <1>1, <2>1 DEF Awaits
  <2>5. QED
    BY <1>1, <1>3, <2>1, <2>2, <2>3, <2>4, ShrinkQuiet
<1>5. CASE keep # NoToken
  <2>1. keep = call[b].token \/ ~Usable(call[b].token)
    BY DEF Resolve
  <2>2. /\ \A c \in Tabs \ {b} : call'[c] = call[c]
        /\ call'[b].stage = "served" /\ call'[b].kind = "others" /\ call'[b].token = keep
        /\ call'[b].by = NoRequest
    <3>1. call[b] \in Call /\ call'[b] = [call[b] EXCEPT !.stage = "served", !.token = keep]
          /\ \A c \in Tabs \ {b} : call'[c] = call[c]
      BY <1>2, <1>5 DEF Basics, BrowserTypeOK
    <3> HIDE DEF keep
    <3>2. QED
      BY <1>1, <3>1 DEF Call
  <2> HIDE DEF keep
  <2>3. Fresh' = Fresh /\ Current' = Current
    BY <1>1, <1>3 DEF Fresh, Current, Saved
  <2>4. NoOverlap' /\ RefreshAwaited' /\ ServedCookie' /\ AnswersFirst'
    BY <1>1, <1>3, <2>2
    DEF NoOverlap, RefreshAwaited, ServedCookie, AnswersFirst, Underway, Awaits,
        Refreshing, Refreshes, Issuing
  <2>5. AnswersFresh' /\ IssuedFresh' /\ LogoutCurrent'
    BY <1>1, <2>2, <2>3, NoRequestAssumption
    DEF AnswersFresh, IssuedFresh, LogoutCurrent, Awaits
  <2>6. CookieFresh'
    <3>1. Settled' => Settled
      BY <1>1, <1>3, <2>2 DEF Settled, Refreshes
    <3>2. QED
      BY <1>1, <2>3, <3>1 DEF CookieFresh
  <2>7. NoReuse' /\ EndedOK'
    BY <1>1, <1>3 DEF NoReuse, EndedOK, Ended, At, Usable, Saved, Rotating
  <2>8. CallerOK'
    BY <1>1, <1>3, <2>1, <2>2 DEF CallerOK, Usable, Saved
  <2>9. QED
    BY <1>1, <2>4, <2>5, <2>6, <2>7, <2>8
<1>6. QED
  BY <1>4, <1>5

\* No call that sets the cookie is under way when a logout-others revokes rows.
LEMMA EvictQuiet ==
  ASSUME Quiet, NEW b \in Tabs, EvictOthers(b)
  PROVE  Undisturbed'
<1> USE DEF Quiet, Undisturbed, Own
<1> DEFINE keep == call[b].token
           u == owner[keep]
<1>1. /\ call[b].stage = "served" /\ call[b].kind = "others"
      /\ UNCHANGED <<cookie, issued, loggedOut, overtaken, request>>
      /\ evicted' = evicted \cup (Unrevoked(u) \ (expired \cup {keep}))
      /\ \A c \in Tabs \ {b} : call'[c] = call[c]
      /\ call'[b].stage = "answered" /\ call'[b].kind = "others"
  <2>1. call' = [call EXCEPT ![b] = Answer(b, NoToken)]
    BY DEF EvictOthers
  <2>2. call'[b] = Answer(b, NoToken) /\ \A c \in Tabs \ {b} : call'[c] = call[c]
    BY <2>1 DEF Basics, BrowserTypeOK
  <2>3. QED
    BY <2>2, AnswerIs DEF EvictOthers, RevokeOtherSessions, Basics
<1>2. Mild
  BY DEF Mild, EvictOthers, RevokeOtherSessions, Revoke
<1>3. \A c \in Tabs : Underway(c) => call[c].kind \notin Issuing
  BY <1>1 DEF NoOverlap, Underway, Refreshes, Issuing
<1>4. \A q \in Own : ~Refreshing(q)
  BY <1>1, RefreshAlone DEF Underway, Refreshes
<1>5. Current \subseteq Current' /\ \A s \in Tokens : Usable(s)' => Usable(s)
  BY <1>2, MildKeeps
<1>6. NoOverlap' /\ RefreshAwaited' /\ ServedCookie' /\ AnswersFirst'
  BY <1>1, <1>3, <1>4 DEF NoOverlap, RefreshAwaited, ServedCookie, AnswersFirst, Underway,
     Refreshing, Refreshes, Issuing
<1>7. AnswersFresh' /\ LogoutCurrent'
  BY <1>1, <1>3, <1>5 DEF AnswersFresh, LogoutCurrent, Issuing, Underway
<1>8. IssuedFresh'
  <2>1. \A c \in Tabs, q \in Requests : ~Awaits(c, q)
    BY <1>3, NobodyAwaitsIdle DEF Basics, Awaits, Underway
  <2>2. QED
    BY <1>1, <2>1 DEF IssuedFresh, Awaits
<1>9. cookie' \notin evicted'
  <2>1. cookie = NoToken \/ cookie = keep \/ ~Usable(cookie)
    BY <1>1 DEF CallerOK
  <2>2. NoToken \notin Unrevoked(u)
    BY SentinelsAssumption DEF Unrevoked, OwnedBy
  <2>3. keep \in Tokens /\ Saved(keep)
    BY <1>1 DEF Basics, ShapeOK, KnownOK, BrowserTypeOK, Call, Issuing
  <2>4. \A s \in Unrevoked(u) \ expired : Usable(s)
    BY <2>3 DEF Unrevoked, OwnedBy, Usable, Saved
  <2>5. QED
    BY <1>1, <2>1, <2>2, <2>4
<1>10. CookieFresh'
  <2>1. Settled' => Settled
    BY <1>1 DEF Settled, Refreshes
  <2>2. cookie \in Fresh => revoked'[cookie] # "TOKEN_ROTATED" /\ cookie \in Current'
    BY <1>2, <1>5 DEF Fresh, Current, Mild
  <2>3. QED
    BY <1>1, <1>9, <2>1, <2>2 DEF CookieFresh, Fresh
<1>11. NoReuse'
  BY <1>1, <1>4 DEF NoReuse, At, Refreshing, RefreshPC
<1>12. EndedOK'
  BY <1>1, <1>2, <1>5 DEF EndedOK, Ended, Mild, Rotating
<1>13. CallerOK'
  <2>1. cookie # NoToken => cookie \in Tokens
    BY DEF Basics, BrowserTypeOK
  <2>2. QED
    BY <1>1, <1>2, <2>1 DEF CallerOK, Mild, Usable, Saved
<1>14. QED
  BY <1>6, <1>7, <1>8, <1>9, <1>10, <1>11, <1>12, <1>13

\* A handler goes on: it accepts its token, or marks its row.  It finds no reuse.
LEMMA ProceedQuiet ==
  ASSUME Quiet, NEW q \in Own, Proceed(q)
  PROVE  Undisturbed'
<1> USE DEF Quiet, Undisturbed, Own
<1>1. /\ UNCHANGED <<cookie, call, issued, orderly, loggedOut, overtaken, evicted>>
      /\ \A p \in Requests \ {q} : request'[p] = request[p]
      /\ request'[q].token = request[q].token
      /\ UNCHANGED <<owner, lineage, expired>>
  BY ProceedMoves DEF browser, IInv
<1>2. Refreshing(q) => request[q].token \in Tokens
  BY DEF IInv, RequestsOK
<1>3. CASE request[q].pc = "finding" /\ request'[q].pc = "rotating"
             /\ Usable(request[q].token) /\ revoked' = revoked
  <2>1. Fresh' = Fresh /\ Current' = Current
    BY <1>1, <1>3 DEF Fresh, Current, Saved
  <2>2. \A p \in Requests : Refreshing(p)' = Refreshing(p)
    BY <1>1, <1>3 DEF Refreshing, RefreshPC
  <2>3. NoOverlap' /\ RefreshAwaited' /\ ServedCookie' /\ AnswersFirst'
    BY <1>1, <2>2
    DEF NoOverlap, RefreshAwaited, ServedCookie, AnswersFirst, Underway, Awaits, Refreshes
  <2>4. AnswersFresh' /\ IssuedFresh' /\ LogoutCurrent'
    BY <1>1, <2>1 DEF AnswersFresh, IssuedFresh, LogoutCurrent, Awaits
  <2>5. CookieFresh'
    <3>1. Settled' => Settled
      BY <1>1, <1>3 DEF Settled, Refreshes
    <3>2. QED
      BY <1>1, <2>1, <3>1 DEF CookieFresh
  <2>6. NoReuse'
    BY <1>1, <1>3 DEF NoReuse, At
  <2>7. EndedOK'
    <3>1. lineage[request[q].token] \notin Ended
      BY <1>2, <1>3 DEF EndedOK, Refreshing, RefreshPC
    <3>2. QED
      BY <1>1, <1>3, <3>1 DEF EndedOK, Ended, Rotating, Usable, Saved
  <2>8. CallerOK'
    BY <1>1, <1>3 DEF CallerOK, Usable, Saved
  <2>9. QED
    BY <1>1, <2>3, <2>4, <2>5, <2>6, <2>7, <2>8
<1>4. CASE request[q].pc = "finding" /\ revoked[request[q].token] = "TOKEN_ROTATED"
  BY <1>4 DEF NoReuse, At
<1>5. CASE request[q].pc = "rotating" /\ request'[q].pc = "marked"
             /\ Revoke({request[q].token}, "TOKEN_ROTATED")
  <2>1. Refreshing(q) /\ Rotating(q)
    BY <1>5 DEF Refreshing, RefreshPC, Rotating
  <2>2. /\ \A p \in Own : Refreshing(p) => p = q
        /\ \A b \in Tabs : Underway(b) => Refreshes(b) /\ call[b].stage # "answered"
        /\ \A b \in Tabs, p \in Requests : Awaits(b, p) => p = q
    BY <2>1, RefreshAlone
  <2>3. \A p \in Requests : Refreshing(p)' = Refreshing(p)
    BY <1>1, <1>5 DEF Refreshing, RefreshPC
  <2>4. NoOverlap' /\ RefreshAwaited' /\ ServedCookie' /\ AnswersFirst'
    BY <1>1, <2>3
    DEF NoOverlap, RefreshAwaited, ServedCookie, AnswersFirst, Underway, Awaits, Refreshes
  <2>5. AnswersFresh' /\ LogoutCurrent'
    BY <1>1, <2>2 DEF AnswersFresh, LogoutCurrent, Underway, Refreshes
  <2>6. IssuedFresh'
    <3>1. issued[q] = NoToken
      BY <1>5 DEF Basics, BrowserTypeOK
    <3>2. QED
      BY <1>1, <2>2, <3>1 DEF IssuedFresh, Awaits
  <2>7. CookieFresh'
    BY <1>5 DEF CookieFresh, Settled
  <2>8. NoReuse'
    BY <1>1, <1>5, <2>2 DEF NoReuse, At, Refreshing, RefreshPC
  <2>9. EndedOK'
    <3>1. \A t \in Tokens : Usable(t)' => Usable(t)
      BY <1>1, <1>5 DEF Usable, Saved, Revoke
    <3>2. QED
      BY <1>1, <1>5, <2>1, <3>1 DEF EndedOK, Ended, Rotating
  <2>10. CallerOK'
    <3>1. \A b \in Tabs : call[b].kind # "others"
      BY <2>2 DEF Underway, Refreshes, Basics, ShapeOK, NoCall
    <3>2. QED
      BY <1>1, <3>1 DEF CallerOK
  <2>11. QED
    BY <1>1, <2>4, <2>5, <2>6, <2>7, <2>8, <2>9, <2>10
<1>6. CASE request[q].pc = "login" /\ request'[q].pc = "repaired" /\ revoked' = revoked
  <2>1. Mild
    BY <1>1, <1>6 DEF Mild
  <2>2. \A p \in Requests : request'[p] = request[p] \/ request'[p].pc \notin RefreshPC
    BY <1>1, <1>6 DEF RefreshPC
  <2>3. Settled' => Settled
    BY <1>1, <1>6 DEF Settled, Refreshes
  <2>4. QED
    BY <1>1, <2>1, <2>2, <2>3, ShrinkQuiet
<1>7. QED
  BY <1>3, <1>4, <1>5, <1>6, ProceedMoves DEF IInv

\* The successor is fresh, and the rotation that stored it is the only one.
LEMMA SaveQuiet ==
  ASSUME Quiet, NEW q \in Own, Store(q), SaveSuccessor(q)
  PROVE  Undisturbed'
<1> USE DEF Quiet, Undisturbed, Own
<1> DEFINE n == Inserted
<1>1. /\ UNCHANGED <<cookie, call, orderly, loggedOut, overtaken, evicted>>
      /\ issued' = [issued EXCEPT ![q] = n]
  BY DEF Store
<1>2. /\ request[q].pc = "marked" /\ request'[q].pc = "saved"
      /\ request'[q].token = request[q].token
      /\ \A p \in Requests \ {q} : request'[p] = request[p]
  BY StoreMoves DEF IInv, SaveSuccessor, ChangePasswordOpen, At
<1>3. /\ n \in Tokens /\ ~Saved(n) /\ n \in Fresh' /\ n \notin loggedOut /\ revoked' = revoked
      /\ \A t \in Tokens : Usable(t)' => Usable(t) \/ t = n
      /\ \A t \in Tokens \ {n} : lineage'[t] = lineage[t]
      /\ lineage'[n] = lineage[request[q].token]
  BY <1>1, InsertedFresh, InsertedOK DEF Inserting, Basics
<1> HIDE DEF n
<1>4. Refreshing(q) /\ Rotating(q)
  BY <1>2 DEF Refreshing, RefreshPC, Rotating
<1>5. /\ \A p \in Own : Refreshing(p) => p = q
      /\ \A b \in Tabs : Underway(b) => Refreshes(b) /\ call[b].stage # "answered"
      /\ \A b \in Tabs, p \in Requests : Awaits(b, p) => p = q
  BY <1>4, RefreshAlone
<1>6. \A p \in Requests : Refreshing(p)' = Refreshing(p)
  BY <1>2 DEF Refreshing, RefreshPC
<1>7. NoOverlap' /\ RefreshAwaited' /\ ServedCookie' /\ AnswersFirst'
  BY <1>1, <1>6
  DEF NoOverlap, RefreshAwaited, ServedCookie, AnswersFirst, Underway, Awaits, Refreshes
<1>8. AnswersFresh' /\ LogoutCurrent'
  BY <1>1, <1>5 DEF AnswersFresh, LogoutCurrent, Underway, Refreshes
<1>9. IssuedFresh'
  BY <1>1, <1>3, <1>5 DEF IssuedFresh, Awaits, Basics, BrowserTypeOK
<1>10. CookieFresh'
  BY <1>2 DEF CookieFresh, Settled
<1>11. NoReuse'
  BY <1>2, <1>3 DEF NoReuse, At
<1>12. EndedOK'
  <2>1. \A t \in Tokens : Usable(t)' => lineage'[t] \notin Ended
    BY <1>3, <1>4 DEF EndedOK, Ended
  <2>2. \A p \in Requests : Rotating(p)' => Rotating(p) /\ request'[p] = request[p]
    BY <1>2 DEF Rotating
  <2>3. \A p \in Requests : Rotating(p) => request[p].token \in Tokens \ {n}
    BY <1>3 DEF Rotating, IInv, RequestsOK, Refreshing, RefreshPC
  <2>4. QED
    BY <1>1, <1>3, <2>1, <2>2, <2>3 DEF EndedOK, Ended
<1>13. CallerOK'
  <2>1. \A b \in Tabs : call[b].kind # "others"
    BY <1>5 DEF Underway, Refreshes, Basics, ShapeOK, NoCall
  <2>2. QED
    BY <1>1, <2>1 DEF CallerOK
<1>14. QED
  BY <1>1, <1>7, <1>8, <1>9, <1>10, <1>11, <1>12, <1>13

\* The parts that an insert in a fresh lineage keeps, whatever becomes of its handler.
LEMMA OpenedRows ==
  ASSUME Quiet, NEW q \in Own, OpenSession(q) \/ ChangePasswordOpen(q),
         UNCHANGED <<cookie, loggedOut, overtaken, evicted>>
  PROVE  /\ Inserted \in Fresh'
         /\ \A t \in Fresh : Saved(t) => t \in Fresh'
         /\ \A t \in Current : Saved(t) => t \in Current'
         /\ \A p \in Requests \ {q} : request'[p] = request[p]
         /\ ~Refreshing(q) /\ request'[q].pc \in {"idle", "changed"}
         /\ NoReuse' /\ EndedOK'
         /\ cookie # NoToken /\ Usable(cookie)' => Usable(cookie)
<1> USE DEF Quiet, Undisturbed, Own
<1> DEFINE n == Inserted
<1>1. /\ n \in Tokens /\ ~Saved(n)
      /\ n \in Fresh' /\ n \notin loggedOut /\ revoked' = revoked
      /\ \A t \in Tokens : Usable(t)' => Usable(t) \/ t = n
      /\ \A t \in Tokens \ {n} : lineage'[t] = lineage[t]
      /\ lineage'[n] = n
      /\ \A t \in Current : Saved(t) => t \in Current'
      /\ \A t \in Fresh : Saved(t) => t \in Fresh'
  BY InsertedFresh, InsertedOK
  DEF Inserting, Basics, SaveSuccessor, OpenSession, ChangePasswordOpen, At
<1> HIDE DEF n
<1>2. /\ \A p \in Requests \ {q} : request'[p] = request[p]
      /\ ~Refreshing(q) /\ request'[q].pc \in {"idle", "changed"}
  <2>1. CASE OpenSession(q)
    BY <2>1 DEF OpenSession, Finish, Idle, Refreshing, RefreshPC, IInv, TypeOK
  <2>2. CASE ChangePasswordOpen(q)
    <3>1. ~SaveSuccessor(q)
      BY <2>2 DEF SaveSuccessor, ChangePasswordOpen, At
    <3>2. QED
      BY <2>2, <3>1, StoreMoves DEF Refreshing, RefreshPC, IInv
  <2>3. QED
    BY <2>1, <2>2
<1>3. NoReuse'
  BY <1>1, <1>2 DEF NoReuse, At
<1>4. EndedOK'
  <2>1. \A t \in Tokens : Usable(t)' => lineage'[t] \notin Ended
    BY <1>1 DEF EndedOK, Ended
  <2>2. \A p \in Requests : Rotating(p)' => Rotating(p) /\ request'[p] = request[p]
    BY <1>2 DEF Rotating
  <2>3. \A p \in Requests : Rotating(p) => request[p].token \in Tokens \ {n}
    BY <1>1 DEF Rotating, IInv, RequestsOK, Refreshing, RefreshPC
  <2>4. QED
    BY <1>1, <2>1, <2>2, <2>3 DEF EndedOK, Ended
<1>5. cookie # NoToken /\ Usable(cookie)' => Usable(cookie)
  <2>1. cookie # NoToken => cookie \in Tokens /\ cookie # n
    BY <1>1 DEF Basics, BrowserTypeOK, KnownOK
  <2>2. QED
    BY <1>1, <2>1 DEF Usable, Saved
<1>6. QED
  BY <1>1, <1>2, <1>3, <1>4, <1>5 DEF n

\* A change of the password stores a fresh row; its handler still works.
LEMMA ChangeQuiet ==
  ASSUME Quiet, NEW q \in Own, Store(q), ChangePasswordOpen(q)
  PROVE  Undisturbed'
<1> USE DEF Quiet, Undisturbed, Own
<1>1. /\ UNCHANGED <<cookie, call, orderly, loggedOut, overtaken, evicted>>
      /\ issued' = [issued EXCEPT ![q] = Inserted]
  BY DEF Store
<1>2. /\ Inserted \in Fresh'
      /\ \A t \in Fresh : Saved(t) => t \in Fresh'
      /\ \A t \in Current : Saved(t) => t \in Current'
      /\ \A p \in Requests \ {q} : request'[p] = request[p]
      /\ ~Refreshing(q) /\ request'[q].pc \in {"idle", "changed"}
      /\ NoReuse' /\ EndedOK'
      /\ cookie # NoToken /\ Usable(cookie)' => Usable(cookie)
  BY <1>1, OpenedRows
<1> DEFINE n == Inserted
<1> HIDE DEF n
<1>3. \A p \in Requests : Refreshing(p)' => Refreshing(p) /\ p # q
  BY <1>2 DEF Refreshing, RefreshPC
<1>4. NoOverlap' /\ RefreshAwaited' /\ ServedCookie' /\ AnswersFirst'
  BY <1>1, <1>3
  DEF NoOverlap, RefreshAwaited, ServedCookie, AnswersFirst, Underway, Awaits, Refreshes
<1>5. AnswersFresh' /\ LogoutCurrent'
  BY <1>1, <1>2 DEF AnswersFresh, LogoutCurrent, Basics, KnownOK, ShapeOK
<1>6. IssuedFresh'
  <2>1. /\ issued' = [issued EXCEPT ![q] = n] /\ n \in Fresh'
        /\ \A t \in Fresh : Saved(t) => t \in Fresh'
    BY <1>1, <1>2 DEF n
  <2>2. QED
    BY <1>1, <2>1 DEF IssuedFresh, Awaits, Basics, KnownOK, BrowserTypeOK
<1>7. CookieFresh'
  <2>1. request[q].pc \notin {"marked", "saved"}
    BY <1>2 DEF Refreshing, RefreshPC
  <2>2. Settled' => Settled
    BY <1>1, <1>2, <2>1 DEF Settled, Refreshes
  <2>3. QED
    BY <1>1, <1>2, <2>2 DEF CookieFresh, Basics, KnownOK
<1>8. CallerOK'
  BY <1>1, <1>2 DEF CallerOK
<1>9. QED
  BY <1>1, <1>2, <1>4, <1>5, <1>6, <1>7, <1>8

\* What the calls are when a handler ends that no refresh awaits.
LEMMA AnsweredQuiet ==
  ASSUME Quiet, NEW q \in Own, ~Refreshing(q), NEW t \in Tokens,
         call' = AnsweredBy(q, t)
  PROVE  /\ \A b \in Tabs : call'[b] = call[b] \/ ~Refreshes(b)
         /\ \A b \in Tabs : \/ call'[b] = call[b]
                            \/ /\ Awaits(b, q) /\ call[b].kind \in Issuing
                               /\ call'[b].stage = "answered"
                               /\ call'[b].kind = call[b].kind /\ call'[b].token = t
         /\ NoOverlap' /\ (UNCHANGED cookie => ServedCookie') /\ AnswersFirst'
<1> USE DEF Quiet, Undisturbed, Basics, Own
<1>1. t # NoToken
  BY SentinelsAssumption
<1>2. ASSUME NEW b \in Tabs
      PROVE  \/ call'[b] = call[b]
             \/ /\ Awaits(b, q) /\ call[b].kind \in Issuing /\ ~Refreshes(b)
                /\ call'[b].stage = "answered"
                /\ call'[b].kind = call[b].kind /\ call'[b].token = t
  <2>1. CASE Awaits(b, q)
    <3>1. call[b].kind \in Issuing /\ ~Refreshes(b)
      BY <2>1, NobodyAwaitsIdle
    <3>2. QED
      BY <1>1, <2>1, <3>1, AnsweredCalls
  <2>2. CASE ~Awaits(b, q)
    BY <2>2, AnsweredCalls
  <2>3. QED
    BY <2>1, <2>2
<1>3. NoOverlap'
  BY <1>2 DEF NoOverlap, Underway, Refreshes, Awaits
<1>4. UNCHANGED cookie => ServedCookie'
  BY <1>2 DEF ServedCookie, Refreshes
<1>5. AnswersFirst'
  BY <1>2 DEF AnswersFirst, Refreshes
<1>6. QED
  BY <1>2, <1>3, <1>4, <1>5

\* The token of a login is fresh when it is returned.
LEMMA OpenedQuiet ==
  ASSUME Quiet, NEW q \in Own, ReturnOpened(q)
  PROVE  Undisturbed'
<1> USE DEF Quiet, Undisturbed, Own
<1>1. /\ UNCHANGED <<cookie, issued, orderly, loggedOut, overtaken, evicted>>
      /\ call' = AnsweredBy(q, Inserted)
  BY DEF ReturnOpened
<1>2. /\ Inserted \in Fresh' /\ Inserted \in Tokens
      /\ \A t \in Fresh : Saved(t) => t \in Fresh'
      /\ \A t \in Current : Saved(t) => t \in Current'
      /\ \A p \in Requests \ {q} : request'[p] = request[p]
      /\ ~Refreshing(q) /\ request'[q].pc \in {"idle", "changed"}
      /\ NoReuse' /\ EndedOK'
      /\ cookie # NoToken /\ Usable(cookie)' => Usable(cookie)
  BY <1>1, OpenedRows, InsertedOK DEF ReturnOpened, Inserting
<1> DEFINE n == Inserted
<1>3. n \in Tokens /\ n \in Fresh' /\ call' = AnsweredBy(q, n)
  BY <1>1, <1>2
<1> HIDE DEF n
<1>4. /\ \A b \in Tabs : call'[b] = call[b] \/ ~Refreshes(b)
      /\ \A b \in Tabs : \/ call'[b] = call[b]
                         \/ /\ Awaits(b, q) /\ call[b].kind \in Issuing
                            /\ call'[b].stage = "answered"
                            /\ call'[b].kind = call[b].kind /\ call'[b].token = n
      /\ NoOverlap' /\ ServedCookie' /\ AnswersFirst'
  BY <1>1, <1>2, <1>3, AnsweredQuiet
<1>5. RefreshAwaited'
  <2>1. \A p \in Requests : Refreshing(p)' => Refreshing(p) /\ p # q
    BY <1>2 DEF Refreshing, RefreshPC
  <2>2. QED
    BY <1>4, <2>1 DEF RefreshAwaited, Refreshes, Awaits
<1>6. AnswersFresh'
  BY <1>2, <1>3, <1>4 DEF AnswersFresh, Basics, KnownOK, ShapeOK
<1>7. IssuedFresh'
  BY <1>1, <1>2, <1>4 DEF IssuedFresh, Awaits, Basics, KnownOK
<1>8. LogoutCurrent'
  BY <1>2, <1>4 DEF LogoutCurrent, Basics, KnownOK, ShapeOK
<1>9. CookieFresh'
  <2>1. request[q].pc \notin {"marked", "saved"}
    BY <1>2 DEF Refreshing, RefreshPC
  <2>2. Settled' => Settled
    BY <1>2, <1>4, <2>1 DEF Settled, Refreshes
  <2>3. QED
    BY <1>1, <1>2, <2>2 DEF CookieFresh, Basics, KnownOK
<1>10. CallerOK'
  BY <1>1, <1>2, <1>4 DEF CallerOK, Issuing
<1>11. QED
  BY <1>1, <1>2, <1>4, <1>5, <1>6, <1>7, <1>8, <1>9, <1>10

\* A rotation that returns hands its fresh token to all that await it.
LEMMA RefreshReturnQuiet ==
  ASSUME Quiet, NEW q \in Own, Return(q), RefreshReturn(q)
  PROVE  Undisturbed'
<1> USE DEF Quiet, Undisturbed, Own
<1> DEFINE t == issued[q]
<1>1. /\ UNCHANGED <<cookie, orderly, loggedOut, overtaken, evicted, owner, lineage, revoked, expired>>
      /\ call' = AnsweredBy(q, t) /\ issued' = [issued EXCEPT ![q] = NoToken]
      /\ request[q].pc = "saved"
  BY DEF Return, RefreshReturn, rows, At
<1>2. request'[q].pc = "idle" /\ \A p \in Requests \ {q} : request'[p] = request[p]
  BY EndMoves DEF IInv, TypeOK, Idle
<1>3. t \in Tokens /\ t # NoToken
  BY <1>1 DEF Basics, BrowserTypeOK
<1> HIDE DEF t
<1>4. Refreshing(q)
  BY <1>1 DEF Refreshing, RefreshPC
<1>5. /\ \A p \in Own : Refreshing(p) => p = q
      /\ \E b \in Tabs : Awaits(b, q) /\ Refreshes(b)
      /\ \A b \in Tabs : Underway(b) => Refreshes(b) /\ call[b].stage # "answered"
      /\ \A b \in Tabs, p \in Requests : Awaits(b, p) => p = q
  BY <1>4, RefreshAlone
<1>6. \A b \in Tabs :
        \/ call'[b] = call[b] /\ ~Awaits(b, q)
        \/ /\ Awaits(b, q) /\ Refreshes(b) /\ call'[b].stage = "answered"
           /\ call'[b].kind = "refresh" /\ call'[b].token = t
  BY <1>1, <1>3, <1>5, AnsweredCalls DEF Basics, Awaits, Underway, Refreshes
<1>7. \A b \in Tabs : Awaits(b, q) => t \in Fresh
  BY <1>3 DEF IssuedFresh, t
<1>8. Fresh' = Fresh /\ Current' = Current
  BY <1>1 DEF Fresh, Current, Saved
<1>9. \A p \in Own : ~Refreshing(p)'
  BY <1>2, <1>5 DEF Refreshing, RefreshPC
<1>10. NoOverlap' /\ RefreshAwaited'
  BY <1>5, <1>6, <1>9 DEF NoOverlap, RefreshAwaited, Underway, Refreshes, Awaits
<1>11. \A b \in Tabs : ~(Refreshes(b)' /\ call'[b].stage = "served")
  <2>1. SUFFICES ASSUME NEW b \in Tabs, call[b].stage = "served", Refreshes(b)
                 PROVE  Awaits(b, q)
    BY <1>6 DEF Refreshes
  <2>2. call[b].by \in Requests
    BY <2>1 DEF Basics, ShapeOK, Refreshes
  <2>3. QED
    BY <1>5, <2>1, <2>2 DEF Awaits
<1>12. ServedCookie' /\ AnswersFirst'
  BY <1>11 DEF ServedCookie, AnswersFirst
<1>13. AnswersFresh' /\ LogoutCurrent'
  BY <1>6, <1>7, <1>8 DEF AnswersFresh, LogoutCurrent
<1>14. IssuedFresh'
  <2>1. \A b \in Tabs, p \in Requests : ~Awaits(b, p)'
    BY <1>5, <1>6 DEF Awaits
  <2>2. QED
    BY <2>1 DEF IssuedFresh
<1>15. CookieFresh'
  BY <1>5, <1>6 DEF CookieFresh, Settled, Refreshes
<1>16. NoReuse' /\ EndedOK'
  BY <1>1, <1>2 DEF NoReuse, EndedOK, Ended, At, Usable, Saved, Rotating
<1>17. CallerOK'
  BY <1>1, <1>6 DEF CallerOK, Usable, Saved
<1>18. QED
  BY <1>1, <1>10, <1>12, <1>13, <1>14, <1>15, <1>16, <1>17

\* A change of the password that returns has revoked the other rows.
LEMMA ChangeReturnQuiet ==
  ASSUME Quiet, NEW q \in Own, Return(q), ChangePasswordRevokeOthers(q)
  PROVE  Undisturbed'
<1> USE DEF Quiet, Undisturbed, Own
<1> DEFINE t == issued[q]
<1>1. /\ UNCHANGED <<cookie, orderly, loggedOut, overtaken, evicted>>
      /\ call' = AnsweredBy(q, t) /\ issued' = [issued EXCEPT ![q] = NoToken]
      /\ request[q].pc = "changed"
  BY DEF Return, ChangePasswordRevokeOthers, At
<1>2. request'[q].pc = "idle" /\ \A p \in Requests \ {q} : request'[p] = request[p]
  BY EndMoves DEF IInv, TypeOK, Idle
<1>3. t \in Tokens /\ t # NoToken
  BY <1>1 DEF Basics, BrowserTypeOK
<1>4. \A b \in Tabs : Awaits(b, q) => t \in Fresh
  BY <1>3 DEF IssuedFresh
<1> HIDE DEF t
<1>5. ~Refreshing(q)
  BY <1>1 DEF Refreshing, RefreshPC
<1>6. Mild
  BY DEF Mild, ChangePasswordRevokeOthers, Revoke
<1>7. /\ Current \subseteq Current' /\ Fresh \subseteq Fresh'
      /\ \A s \in Tokens : Usable(s)' => Usable(s)
  BY <1>1, <1>6, MildKeeps
<1>8. /\ \A b \in Tabs : call'[b] = call[b] \/ ~Refreshes(b)
      /\ \A b \in Tabs : \/ call'[b] = call[b]
                         \/ /\ Awaits(b, q) /\ call[b].kind \in Issuing
                            /\ call'[b].stage = "answered"
                            /\ call'[b].kind = call[b].kind /\ call'[b].token = t
      /\ NoOverlap' /\ ServedCookie' /\ AnswersFirst'
  BY <1>1, <1>3, <1>5, AnsweredQuiet
<1>9. RefreshAwaited'
  <2>1. \A p \in Requests : Refreshing(p)' => Refreshing(p) /\ p # q
    BY <1>2 DEF Refreshing, RefreshPC
  <2>2. QED
    BY <1>8, <2>1 DEF RefreshAwaited, Refreshes, Awaits
<1>10. AnswersFresh'
  BY <1>4, <1>7, <1>8 DEF AnswersFresh
<1>11. IssuedFresh'
  BY <1>1, <1>7, <1>8 DEF IssuedFresh, Awaits, Basics, BrowserTypeOK
<1>12. LogoutCurrent'
  BY <1>7, <1>8 DEF LogoutCurrent
<1>13. CookieFresh'
  <2>1. Settled' => Settled
    BY <1>1, <1>2, <1>8 DEF Settled, Refreshes
  <2>2. QED
    BY <1>1, <1>7, <2>1 DEF CookieFresh
<1>14. NoReuse'
  <2>1. \A p \in Requests : At(p, "finding") => request[p].token \in Tokens
    BY DEF At, Refreshing, RefreshPC, RequestsOK, IInv
  <2>2. QED
    BY <1>2, <1>6, <2>1 DEF NoReuse, At, Mild
<1>15. EndedOK'
  <2>1. \A p \in Requests : Rotating(p)' => Rotating(p) /\ request'[p] = request[p]
    BY <1>2 DEF Rotating
  <2>2. QED
    BY <1>1, <1>6, <1>7, <2>1 DEF EndedOK, Ended, Mild
<1>16. CallerOK'
  <2>1. cookie # NoToken => cookie \in Tokens
    BY DEF Basics, BrowserTypeOK
  <2>2. QED
    BY <1>1, <1>6, <1>8, <2>1 DEF CallerOK, Mild, Usable, Saved, Issuing
<1>17. QED
  BY <1>1, <1>8, <1>9, <1>10, <1>11, <1>12, <1>13, <1>14, <1>15, <1>16

\* A handler that fails before its row was marked leaves the browser its token.
LEMMA RefuseQuiet ==
  ASSUME Quiet, NEW q \in Own, Refuse(q), orderly'
  PROVE  Undisturbed'
<1> USE DEF Quiet, Own
<1>1. /\ UNCHANGED <<cookie, loggedOut, overtaken, evicted>>
      /\ call' = AnsweredBy(q, NoToken) /\ issued' = [issued EXCEPT ![q] = NoToken]
      /\ request[q].pc \notin {"marked", "saved"}
  BY DEF Refuse
<1>2. request'[q].pc = "idle" /\ \A p \in Requests \ {q} : request'[p] = request[p]
  BY EndMoves DEF IInv, TypeOK, Idle
<1>3. Mild
  <2>1. CASE Reject(q) \/ RefreshFail(q) \/ HandlerFail(q) \/ RefreshReturn(q)
    BY <2>1 DEF Mild, Reject, RefreshFail, HandlerFail, RefreshReturn, rows
  <2>2. CASE RevokeOnReuse(q)
    BY <2>2 DEF Mild, RevokeOnReuse, Revoke
  <2>3. QED
    BY <2>1, <2>2 DEF Refuse
<1>4. \A b \in Tabs : /\ Awaits(b, q) => call'[b] = NoCall
                      /\ ~Awaits(b, q) => call'[b] = call[b]
  BY <1>1, AnsweredCalls DEF Basics
<1>5. \A p \in Requests : request'[p] = request[p] \/ request'[p].pc \notin RefreshPC
  BY <1>2 DEF RefreshPC
<1>6. \A p \in Requests, b \in Tabs :
        Refreshing(p)' /\ Awaits(b, p) /\ Refreshes(b) => call'[b] = call[b]
  BY <1>2, <1>4 DEF Refreshing, RefreshPC, Awaits
<1>7. Settled' => Settled
  BY <1>1, <1>2, <1>4 DEF Settled, Refreshes, Awaits
<1>8. \A p \in Requests : issued'[p] = issued[p] \/ issued'[p] = NoToken
  BY <1>1 DEF Basics, BrowserTypeOK
<1>9. \A b \in Tabs : call'[b] = call[b] \/ call'[b] = NoCall
  BY <1>4
<1>10. QED
  BY <1>1, <1>3, <1>5, <1>6, <1>7, <1>8, <1>9, ShrinkQuiet

\* What a step of another device leaves as it was: the logins of the browser, but for
\* a revocation, and the handlers that serve it.
Distant ==
  /\ \A t \in Tokens \ Abroad :
       /\ owner'[t] = owner[t] /\ lineage'[t] = lineage[t]
       /\ revoked'[t] \in {"NO", "TOKEN_ROTATED"} => revoked'[t] = revoked[t]
  /\ expired \subseteq expired'
  /\ \A q \in Own : request'[q] = request[q]

\* Every step elsewhere is distant.
LEMMA ElsewhereDistant ==
  ASSUME IInv, DevicesApart, Elsewhere \/ UNCHANGED allVars
  PROVE  Distant
<1>1. \A q \in Own : request'[q] = request[q]
  BY ElsewhereMoves DEF IInv
<1>2. ASSUME Mild PROVE Distant
  BY <1>1, <1>2 DEF Mild, Distant
<1>3. ASSUME NEW q \in Remote, RemoteStep(q) PROVE Distant
  <2>1. q \in Requests
    BY DevicesAssumption
  <2>2. CASE Inserting(q)
    <3>1. PICK u \in Users, l \in Tokens :
            /\ Inserted \in Tokens /\ ~Saved(Inserted) /\ Insert(Inserted, u, l)
      BY <2>1, <2>2, InsertedOK
    <3> DEFINE n == Inserted
    <3>2. /\ n \in Tokens /\ owner[n] = NoUser /\ owner' = [owner EXCEPT ![n] = u]
          /\ lineage' = [lineage EXCEPT ![n] = l] /\ UNCHANGED <<revoked, expired>>
      BY <3>1 DEF Insert, Saved
    <3> HIDE DEF n
    <3>3. owner'[n] # owner[n]
      BY <3>2, SentinelsAssumption DEF IInv, TypeOK
    <3>4. n \in Abroad
      BY <1>3, <3>2, <3>3 DEF RemoteStep
    <3>5. \A t \in Tokens \ {n} : owner'[t] = owner[t] /\ lineage'[t] = lineage[t]
      BY <3>2 DEF IInv, TypeOK
    <3>6. QED
      BY <1>1, <3>2, <3>4, <3>5 DEF Distant
  <2>3. CASE MarkRotated(q) /\ Rotating(q)
    <3>1. request[q].token \in Abroad
      BY <1>3, <2>1, <2>3 DEF DevicesApart, WorkApart, Rotating, Refreshing, RefreshPC
    <3>2. Revoke({request[q].token}, "TOKEN_ROTATED")
      BY <2>3 DEF MarkRotated
    <3>3. QED
      BY <1>1, <3>1, <3>2 DEF Revoke, Distant
  <2>4. QED
    BY <1>2, <1>3, <2>1, <2>2, <2>3, RemoteMoves DEF IInv
<1>4. CASE RemoteStatement \/ \E t \in Tokens : Expire(t)
  BY <1>2, <1>4, StatementMild
<1>5. CASE UNCHANGED allVars
  BY <1>2, <1>5 DEF allVars, vars, Mild
<1>6. QED
  BY <1>3, <1>4, <1>5 DEF Elsewhere

\* A distant step leaves the tokens of the browser current and fresh, makes none of
\* them usable and rotates none.
LEMMA DistantKeeps ==
  ASSUME Distant, RowsApart, RowsApart', UNCHANGED evicted,
         NEW t \in Tokens, t \notin Abroad, Saved(t)
  PROVE  /\ t \in Current => t \in Current'
         /\ t \in Fresh => t \in Fresh'
         /\ Usable(t)' => Usable(t)
         /\ revoked'[t] = "TOKEN_ROTATED" => revoked[t] = "TOKEN_ROTATED"
<1>1. ASSUME t \in Current PROVE t \in Current'
  <2>1. SUFFICES ASSUME NEW s \in Tokens, owner'[s] # NoUser, revoked'[s] = "NO",
                        lineage'[s] = lineage'[t]
                 PROVE  s = t
    BY DEF Current, Saved
  <2>2. owner'[t] # NoUser /\ lineage'[t] \notin Abroad
    BY DEF Distant, RowsApart, Saved
  <2>3. s \notin Abroad
    BY <2>1, <2>2 DEF RowsApart, Saved
  <2>4. Saved(s) /\ revoked[s] = "NO" /\ lineage[s] = lineage[t]
    BY <2>1, <2>3 DEF Distant, Saved
  <2>5. QED
    BY <1>1, <2>4 DEF Current
<1>2. Usable(t)' => Usable(t)
  BY DEF Distant, Usable, Saved
<1>3. revoked'[t] = "TOKEN_ROTATED" => revoked[t] = "TOKEN_ROTATED"
  BY DEF Distant
<1>4. t \in Fresh => t \in Fresh'
  BY <1>1, <1>3 DEF Fresh
<1>5. QED
  BY <1>1, <1>2, <1>3, <1>4

\* Other devices revive no login that was ended; their rotations at the time of a
\* logout-all are the exception Ended makes.
LEMMA ElsewhereEnded ==
  ASSUME Quiet, Elsewhere \/ UNCHANGED allVars
  PROVE  EndedOK'
<1> USE DEF Quiet, Undisturbed
<1>1. UNCHANGED <<loggedOut, overtaken, evicted>> /\ Ended' = Ended
  BY DEF Elsewhere, browser, allVars, Ended
<1>2. \A t \in Tokens : Usable(t) => lineage[t] \notin Ended
  BY DEF EndedOK
<1>3. \A p \in Requests : Rotating(p) => /\ request[p].token \in Tokens
                                         /\ Saved(request[p].token)
                                         /\ lineage[request[p].token] \notin Ended
  BY DEF EndedOK, IInv, RequestsOK, Rotating, Refreshing, RefreshPC
<1>4. ASSUME Mild,
             \A p \in Requests : Rotating(p)' =>
               \/ Rotating(p) /\ request'[p].token = request[p].token
               \/ /\ request'[p].token = request[p].token /\ request[p].token \in Tokens
                  /\ Usable(request[p].token)
      PROVE  EndedOK'
  <2>1. \A t \in Tokens : Usable(t)' => Usable(t)
    BY <1>4, MildKeeps
  <2>2. QED
    BY <1>1, <1>2, <1>3, <1>4, <2>1 DEF EndedOK, Mild
<1>5. ASSUME NEW q \in Remote, RemoteStep(q) PROVE EndedOK'
  <2>1. q \in Requests
    BY DevicesAssumption
  <2>2. \A p \in Requests \ {q} : request'[p] = request[p]
    BY <1>5, <2>1, RemoteMoves DEF IInv
  <2>3. CASE Inserting(q) /\ ~Rotating(q)'
    <3> DEFINE n == Inserted
    <3>1. /\ n \in Tokens /\ ~Saved(n) /\ n \notin loggedOut
          /\ \A t \in Tokens : Usable(t)' => Usable(t) \/ t = n
          /\ \A t \in Tokens \ {n} : lineage'[t] = lineage[t]
          /\ \/ lineage'[n] = n
             \/ SaveSuccessor(q) /\ lineage'[n] = lineage[request[q].token]
      BY <1>1, <2>1, <2>3, InsertedFresh, InsertedOK DEF Basics
    <3> HIDE DEF n
    <3>2. lineage'[n] \notin Ended
      BY <1>3, <2>1, <3>1 DEF Ended, SaveSuccessor, At, Rotating
    <3>3. \A t \in Tokens : Usable(t)' => lineage'[t] \notin Ended
      BY <1>2, <3>1, <3>2
    <3>4. ASSUME NEW p \in Requests, Rotating(p)'
          PROVE  lineage'[request'[p].token] \notin Ended
      <4>1. p # q /\ Rotating(p) /\ request'[p] = request[p]
        BY <2>2, <2>3, <3>4 DEF Rotating
      <4>2. request[p].token \in Tokens \ {n}
        BY <1>3, <3>1, <4>1
      <4>3. QED
        BY <1>3, <3>1, <4>1, <4>2
    <3>5. QED
      BY <1>1, <3>3, <3>4 DEF EndedOK
  <2>4. CASE MarkRotated(q) /\ Rotating(q) /\ request'[q].token = request[q].token
    <3>1. \A t \in Tokens : Usable(t)' => Usable(t)
      BY <2>4 DEF MarkRotated, Revoke, Usable, Saved
    <3>2. lineage' = lineage
      BY <2>4 DEF MarkRotated, Revoke
    <3>3. \A p \in Requests : Rotating(p)' => /\ Rotating(p)
                                              /\ request'[p].token = request[p].token
      BY <2>2, <2>4 DEF Rotating
    <3>4. QED
      BY <1>1, <1>2, <1>3, <3>1, <3>2, <3>3 DEF EndedOK
  <2>5. CASE /\ Mild
             /\ Rotating(q)' => /\ Refreshing(q) /\ Usable(request[q].token)
                                /\ request'[q].token = request[q].token
    <3>1. Refreshing(q) => request[q].token \in Tokens
      BY <2>1 DEF IInv, RequestsOK
    <3>2. \A p \in Requests \ {q} : Rotating(p)' => Rotating(p)
      BY <2>2 DEF Rotating
    <3>3. QED
      BY <1>4, <2>2, <2>5, <3>1, <3>2
  <2>6. QED
    BY <1>5, <2>1, <2>3, <2>4, <2>5, RemoteMoves DEF IInv
<1>6. CASE RemoteStatement \/ \E t \in Tokens : Expire(t)
  BY <1>4, <1>6, StatementMild DEF Rotating
<1>7. CASE UNCHANGED allVars
  BY <1>4, <1>7 DEF allVars, vars, Mild, Rotating
<1>8. QED
  BY <1>5, <1>6, <1>7 DEF Elsewhere

\* What others do costs the browser no more than its session.
LEMMA ElsewhereQuiet ==
  ASSUME Quiet, Elsewhere \/ UNCHANGED allVars
  PROVE  Undisturbed'
<1> USE DEF Quiet, Undisturbed
<1>1. UNCHANGED <<cookie, call, issued, orderly, loggedOut, overtaken, evicted>>
  BY DEF Elsewhere, browser, allVars
<1>2. Distant
  BY ElsewhereDistant
<1>3. \A q \in Own : request'[q] = request[q]
  BY <1>2 DEF Distant
<1>4. ASSUME NEW t \in Tokens, t \notin Abroad, Saved(t)
      PROVE  /\ t \in Current => t \in Current'
             /\ t \in Fresh => t \in Fresh'
             /\ Usable(t)' => Usable(t)
             /\ revoked'[t] = "TOKEN_ROTATED" => revoked[t] = "TOKEN_ROTATED"
  BY <1>1, <1>2, <1>4, DistantKeeps DEF DevicesApart
<1>5. cookie # NoToken => cookie \in Tokens /\ cookie \notin Abroad /\ Saved(cookie)
  BY DEF Basics, BrowserTypeOK, KnownOK, DevicesApart, CallsApart
<1>6. \A b \in Tabs : call[b].token # NoToken =>
        call[b].token \in Tokens /\ call[b].token \notin Abroad /\ Saved(call[b].token)
  BY DEF Basics, BrowserTypeOK, Call, KnownOK, DevicesApart, CallsApart
<1>7. \A q \in Requests : issued[q] # NoToken =>
        issued[q] \in Tokens /\ issued[q] \notin Abroad /\ Saved(issued[q])
  BY DEF Basics, BrowserTypeOK, KnownOK, DevicesApart, CallsApart
<1>8. NoOverlap' /\ ServedCookie' /\ AnswersFirst'
  BY <1>1 DEF NoOverlap, ServedCookie, AnswersFirst, Underway, Refreshes
<1>9. RefreshAwaited'
  BY <1>1, <1>3 DEF RefreshAwaited, Refreshing, Awaits, Refreshes
<1>10. AnswersFresh'
  BY <1>1, <1>4, <1>6 DEF AnswersFresh, Basics, ShapeOK
<1>11. IssuedFresh'
  BY <1>1, <1>4, <1>7 DEF IssuedFresh, Awaits
<1>12. CookieFresh'
  <2>1. Settled' => Settled
    BY <1>1, <1>3 DEF Settled, Refreshes
  <2>2. QED
    BY <1>1, <1>4, <1>5, <2>1 DEF CookieFresh
<1>13. NoReuse'
  <2>1. ASSUME NEW q \in Own, At(q, "finding")
        PROVE  /\ request[q].token \in Tokens /\ Saved(request[q].token)
               /\ request[q].token \notin Abroad
    BY <2>1 DEF Own, At, Refreshing, RefreshPC, IInv, RequestsOK, DevicesApart, WorkApart
  <2>2. QED
    BY <1>3, <1>4, <2>1 DEF NoReuse, At
<1>14. LogoutCurrent'
  BY <1>1, <1>4, <1>6 DEF LogoutCurrent, Basics, ShapeOK
<1>15. EndedOK'
  BY ElsewhereEnded
<1>16. CallerOK'
  BY <1>1, <1>4, <1>5 DEF CallerOK
<1>17. QED
  BY <1>1, <1>8, <1>9, <1>10, <1>11, <1>12, <1>13, <1>14, <1>15, <1>16

\* A restart between two rotations drops the calls that were served.
LEMMA RestartQuiet ==
  ASSUME Quiet, ServerRestart, orderly'
  PROVE  Undisturbed'
<1> USE DEF Quiet, Own
<1>1. /\ request' = [q \in Requests |-> Idle] /\ issued' = [q \in Requests |-> NoToken]
      /\ call' = [b \in Tabs |-> IF call[b].stage = "served" THEN NoCall ELSE call[b]]
      /\ UNCHANGED <<cookie, loggedOut, overtaken, evicted, owner, lineage, revoked, expired>>
      /\ \A q \in Requests : request[q].pc \notin {"marked", "saved"}
  BY DEF ServerRestart, Restart, rows
<1>2. Mild
  BY <1>1 DEF Mild
<1>3. \A q \in Requests : request'[q].pc = "idle" /\ ~Refreshing(q)'
  BY <1>1 DEF Idle, Refreshing, RefreshPC
<1>4. Settled' => Settled
  BY <1>1 DEF Settled, Refreshes
<1>5. \A q \in Requests : request'[q].pc \notin RefreshPC
  BY <1>3 DEF RefreshPC
<1>6. QED
  BY <1>1, <1>2, <1>3, <1>4, <1>5, ShrinkQuiet

-----------------------------------------------------------------------------
(* The theorems.                                                           *)

\* A disturbance is for good.
LEMMA OrderlyBefore ==
  ASSUME BrowserTypeOK, [BrowserNext]_allVars, orderly'
  PROVE  orderly
<1>1. CASE \E b \in Tabs : TabStep(b)
  BY <1>1 DEF TabStep, Send, Deliver, Abort, ArriveRefresh, OpenFrom, ArriveLogout,
              ArriveOthers, EvictOthers, ArriveAll
<1>2. CASE \E q \in Own : HandlerStep(q)
  BY <1>2 DEF HandlerStep, Proceed, Store, Return, ReturnOpened, Refuse, browser
<1>3. CASE ServerRestart \/ Elsewhere \/ UNCHANGED allVars
  BY <1>3 DEF ServerRestart, Elsewhere, browser, allVars
<1>4. QED
  BY <1>1, <1>2, <1>3 DEF BrowserNext

\* The browser starts without a cookie, without calls, and undisturbed.
LEMMA BrowserInvInit == BrowserInit => BrowserInv
<1> SUFFICES ASSUME BrowserInit PROVE BrowserInv
  OBVIOUS
<1> USE SentinelsAssumption, NoRequestAssumption, DevicesAssumption DEF BrowserInit, NoCall
<1>1. IInv
  BY InvInit
<1>2. \A q \in Requests : request[q].pc = "idle"
  BY DEF Init, Idle
<1>3. BrowserTypeOK
  BY <1>2 DEF BrowserTypeOK, Call
<1>4. ShapeOK /\ KnownOK /\ NobodyWaitsInVain
  BY DEF ShapeOK, KnownOK, NobodyWaitsInVain
<1>5. NoOverlap /\ RefreshAwaited /\ ServedCookie /\ AnswersFirst
  BY <1>2 DEF NoOverlap, RefreshAwaited, ServedCookie, AnswersFirst, Underway, Refreshing,
              RefreshPC, Own
<1>6. AnswersFresh /\ IssuedFresh /\ CookieFresh /\ LogoutCurrent /\ CallerOK
  BY DEF AnswersFresh, IssuedFresh, CookieFresh, LogoutCurrent, CallerOK, Awaits
<1>7. NoReuse /\ EndedOK
  BY <1>2 DEF NoReuse, EndedOK, Ended, At, Rotating, Own
<1>8. DevicesApart
  BY <1>2 DEF DevicesApart, RowsApart, CallsApart, WorkApart, Init, Saved, Refreshing,
              RefreshPC
<1>9. QED
  BY <1>1, <1>3, <1>4, <1>5, <1>6, <1>7, <1>8 DEF BrowserInv, Undisturbed

\* Every step keeps the invariant: that of the sessions by SessionsProofs, the rest
\* by the lemma of its action.
LEMMA BrowserInvStep == BrowserInv /\ [BrowserNext]_allVars => BrowserInv'
<1> SUFFICES ASSUME BrowserInv, [BrowserNext]_allVars PROVE BrowserInv'
  OBVIOUS
<1> USE DEF BrowserInv
<1>1. Basics
  BY DEF Basics
<1>2. [Next]_vars
  BY SessionsMoves
<1>3. IInv'
  BY <1>2, InvStep
<1>4. Basics'
  BY <1>1, <1>2, TabBasics, ServeBasics, ProceedBasics, EndBasics, ElsewhereBasics
  DEF BrowserNext, TabStep, HandlerStep, DevicesApart
<1>5. DevicesApart'
  BY RowsApartStep, CallsApartStep, WorkApartStep DEF DevicesApart
<1>6. ASSUME orderly' PROVE Undisturbed'
  <2>1. Quiet
    BY <1>1, <1>2, <1>3, <1>4, <1>5, <1>6, OrderlyBefore DEF Quiet
  <2>2. ASSUME NEW b \in Tabs, TabStep(b) PROVE Undisturbed'
    BY <1>6, <2>1, <2>2, SendQuiet, DeliverQuiet, AbortQuiet, ArriveQuiet, OpenQuiet,
       LogoutQuiet, OthersQuiet, EvictQuiet
    DEF TabStep
  <2>3. ASSUME NEW q \in Own, HandlerStep(q) PROVE Undisturbed'
    <3>1. CASE Store(q)
      BY <2>1, <3>1, SaveQuiet, ChangeQuiet DEF Store
    <3>2. CASE Return(q)
      BY <2>1, <3>2, RefreshReturnQuiet, ChangeReturnQuiet DEF Return
    <3>3. QED
      BY <1>6, <2>1, <2>3, <3>1, <3>2, ProceedQuiet, OpenedQuiet, RefuseQuiet
      DEF HandlerStep
  <2>4. QED
    BY <1>6, <2>1, <2>2, <2>3, ElsewhereQuiet, RestartQuiet DEF BrowserNext
<1>7. QED
  BY <1>3, <1>4, <1>5, <1>6 DEF Basics

\* The invariant holds of every reachable state of a browser with any number of tabs.
THEOREM BrowserInvariance == BrowserSpec => []BrowserInv
  BY BrowserInvInit, BrowserInvStep, PTL DEF BrowserSpec

\* Whatever a browser does, the sessions it uses behave as Sessions says.
THEOREM BrowserRunsSessions == BrowserSpec => Spec
<1>1. BrowserInit => Init
  BY DEF BrowserInit
<1>2. BrowserInv /\ [BrowserNext]_allVars => [Next]_vars
  BY SessionsMoves DEF BrowserInv
<1>3. QED
  BY <1>1, <1>2, BrowserInvariance, PTL DEF BrowserSpec, Spec

\* The cookie, the calls and the histories keep their types; a handler has a stored
\* token to return just between its insert and its end.
THEOREM BrowserTypeCorrect == BrowserSpec => []BrowserTypeOK
<1>1. BrowserInv => BrowserTypeOK
  BY DEF BrowserInv
<1>2. QED
  BY <1>1, BrowserInvariance, PTL

\* A call that joined a rotation awaits a handler that works on its own token, on a
\* disturbed browser as well.
THEOREM NobodyIsForgotten == BrowserSpec => []NobodyWaitsInVain
<1>1. BrowserInv => NobodyWaitsInVain
  BY DEF BrowserInv
<1>2. QED
  BY <1>1, BrowserInvariance, PTL

\* The reuse alarm of refreshUnsafe is never raised on an undisturbed browser, while
\* other devices of its user log in, refresh, reset the password and log out.
THEOREM NoFalseAlarm == BrowserSpec => []AlarmNeedsDisturbance
<1>1. BrowserInv => AlarmNeedsDisturbance
  BY DEF BrowserInv, AlarmNeedsDisturbance, Undisturbed, NoReuse
<1>2. QED
  BY <1>1, BrowserInvariance, PTL

\* A logout of an undisturbed browser is final, and so is a logout-all, but for the
\* logins another device was rotating meanwhile: no token of these logins is usable,
\* in any interleaving with other devices and admins.
THEOREM LogoutIsComplete == BrowserSpec => []LogoutEndsLogin
<1>1. BrowserInv => LogoutEndsLogin
  BY DEF BrowserInv, LogoutEndsLogin, Undisturbed, EndedOK, Ended
<1>2. QED
  BY <1>1, BrowserInvariance, PTL

\* A logout-others never revokes the usable row of the cookie, nor of its successor.
THEOREM CallerIsSpared == BrowserSpec => []OthersSparesCaller
<1>1. BrowserInv => OthersSparesCaller
  BY DEF BrowserInv, OthersSparesCaller, Undisturbed
<1>2. QED
  BY <1>1, BrowserInvariance, PTL
=============================================================================
