--------------------------- MODULE SessionsProofs ---------------------------
(***************************************************************************)
(* Theorems about Sessions, for every set of users, tokens and concurrent  *)
(* requests.                                                               *)
(***************************************************************************)
EXTENDS SessionsRefinement, TLAPS

-----------------------------------------------------------------------------
(* The inductive invariant.                                                *)

\* A row descends from a saved login of the same user; a token without a row
\* carries nothing over to the row it may get.
RowsOK ==
  \A t \in Tokens :
    IF Saved(t)
      THEN Saved(lineage[t]) /\ owner[lineage[t]] = owner[t]
      ELSE lineage[t] = t /\ revoked[t] = "NO" /\ t \notin expired

\* What each handler remembers of the rows it has read.
RequestsOK ==
  \A q \in Requests :
    /\ Refreshing(q) => request[q].token \in Tokens /\ Saved(request[q].token)
    /\ At(q, "revoking") => request[q].token \in Tokens /\ Saved(request[q].token)
    /\ request[q].pc \in {"rotating", "marked", "saved"}
         => request[q].user = owner[request[q].token]
    /\ request[q].pc \in {"login", "repaired", "changing", "changed", "resetting"}
         => request[q].user \in Users

\* A rotation past its check is the only way for its lineage to get a row: no
\* other row of the lineage is unrevoked, and no other rotation works on it.
RotationExclusive ==
  /\ \A q \in Requests, t \in Tokens :
       (/\ Rotating(q) /\ Saved(t) /\ revoked[t] = "NO"
        /\ lineage[t] = lineage[request[q].token])
         => At(q, "rotating") /\ t = request[q].token
  /\ \A p, q \in Requests :
       (/\ Rotating(p) /\ Rotating(q)
        /\ lineage[request[p].token] = lineage[request[q].token]) => p = q

IInv == TypeOK /\ RowsOK /\ RequestsOK /\ InFlightExact /\ RotationExclusive
          /\ OneUnrevokedPerLineage

-----------------------------------------------------------------------------
(* The invariant holds initially.                                          *)

\* Before the first login there are no rows and no requests.
LEMMA InvInit == Init => IInv
<1> SUFFICES ASSUME Init PROVE IInv
  OBVIOUS
<1> USE SentinelsAssumption DEF Init, Idle, Saved
<1>1. TypeOK
  BY DEF TypeOK, Request, Revocation, UserStatus
<1>2. \A q \in Requests : request[q].pc = "idle"
  OBVIOUS
<1>3. RowsOK /\ OneUnrevokedPerLineage
  BY DEF RowsOK, OneUnrevokedPerLineage
<1>4. RequestsOK /\ RotationExclusive
  BY <1>2 DEF RequestsOK, RotationExclusive, Refreshing, Rotating, RefreshPC, At
<1>5. InFlightExact
  BY <1>2 DEF InFlightExact, Refreshing, RefreshPC
<1>6. QED
  BY <1>1, <1>3, <1>4, <1>5 DEF IInv

-----------------------------------------------------------------------------
(* TypeOK is preserved.  RequestsOK types the tokens of the refreshes.     *)

\* Every step of a handler, the clock and a restart keep the types.
LEMMA TypeStep == TypeOK /\ RequestsOK /\ [Next]_vars => TypeOK'
<1> SUFFICES ASSUME TypeOK, RequestsOK, [Next]_vars PROVE TypeOK'
  OBVIOUS
<1> USE DEF TypeOK, Request, RefreshPC, OtherPC, Idle, Revocation, Release, Finish,
            Goto, At, rows
<1>1. ASSUME NEW q \in Requests, Arrive(q) PROVE TypeOK'
  <2>1. ASSUME NEW t \in Tokens, BeginRefresh(q, t) PROVE TypeOK'
    <3>1. request' \in [Requests -> Request]
      BY <2>1 DEF BeginRefresh, Begin
    <3>2. QED
      BY <2>1, <3>1 DEF BeginRefresh
  <2>2. ASSUME NEW t \in Tokens, BeginRevokeSession(q, t) PROVE TypeOK'
    BY <2>2 DEF BeginRevokeSession, Begin
  <2>3. ASSUME NEW u \in Users,
               BeginLogin(q, u) \/ BeginChangePassword(q, u) \/ BeginResetPassword(q, u)
        PROVE  TypeOK'
    BY <2>3 DEF BeginLogin, BeginChangePassword, BeginResetPassword, Begin
  <2>4. QED
    BY <1>1, <2>1, <2>2, <2>3 DEF Arrive
<1>2. ASSUME NEW q \in Requests, RefreshStep(q) PROVE TypeOK'
  <2>1. CASE Accept(q)
    <3>1. request[q].token \in Tokens
      BY <2>1 DEF Accept, RequestsOK, Refreshing
    <3>2. request' \in [Requests -> Request]
      BY <2>1, <3>1 DEF Accept
    <3>3. QED
      BY <2>1, <3>2 DEF Accept
  <2>2. CASE Reject(q) \/ RefreshReturn(q) \/ RefreshFail(q)
    BY <2>2 DEF Reject, RefreshReturn, RefreshFail
  <2>3. CASE DetectReuse(q)
    BY <2>3 DEF DetectReuse
  <2>4. CASE RevokeOnReuse(q)
    BY <2>4 DEF RevokeOnReuse, Revoke
  <2>5. CASE MarkRotated(q)
    BY <2>5 DEF MarkRotated, Revoke
  <2>6. CASE SaveSuccessor(q)
    BY <2>6 DEF SaveSuccessor, Insert, RequestsOK, Refreshing
  <2>7. QED
    BY <1>2, <2>1, <2>2, <2>3, <2>4, <2>5, <2>6 DEF RefreshStep
<1>3. ASSUME NEW q \in Requests, OpenStep(q) PROVE TypeOK'
  <2>1. CASE RepairIdentity(q)
    <3>1. status' \in [Users -> UserStatus]
      BY <2>1 DEF RepairIdentity, UserStatus
    <3>2. request' \in [Requests -> Request]
      BY <2>1 DEF RepairIdentity
    <3>3. QED
      BY <2>1, <3>1, <3>2 DEF RepairIdentity
  <2>2. CASE OpenSession(q)
    <3>1. PICK t \in Tokens : Insert(t, request[q].user, t)
      BY <2>2 DEF OpenSession
    <3>2. request[q].user \in Users \cup {NoUser} /\ UNCHANGED <<status, refreshInFlight>>
      BY <2>2 DEF OpenSession
    <3>3. owner' \in [Tokens -> Users \cup {NoUser}] /\ lineage' \in [Tokens -> Tokens]
      BY <3>1, <3>2 DEF Insert
    <3>4. request' \in [Requests -> Request]
      BY <2>2 DEF OpenSession
    <3>5. QED
      BY <3>1, <3>2, <3>3, <3>4 DEF Insert
  <2>3. CASE ChangePasswordOpen(q)
    <3>1. PICK t \in Tokens :
            /\ Insert(t, request[q].user, t)
            /\ request' = [request EXCEPT ![q] =
                            [pc |-> "changed", user |-> request[q].user, token |-> t]]
      BY <2>3 DEF ChangePasswordOpen
    <3>2. request' \in [Requests -> Request]
      BY <3>1
    <3>3. UNCHANGED <<status, refreshInFlight>>
      BY <2>3 DEF ChangePasswordOpen
    <3>4. owner' \in [Tokens -> Users \cup {NoUser}]
      BY <3>1 DEF Insert
    <3>5. QED
      BY <3>1, <3>2, <3>3, <3>4 DEF Insert
  <2>4. CASE ChangePasswordRevokeOthers(q)
    BY <2>4 DEF ChangePasswordRevokeOthers, Revoke
  <2>5. QED
    BY <1>3, <2>1, <2>2, <2>3, <2>4 DEF OpenStep
<1>4. ASSUME NEW q \in Requests, RevokeStep(q) \/ HandlerFail(q) PROVE TypeOK'
  BY <1>4 DEF RevokeStep, ResetPasswordRevokeAll, RevokeSession, HandlerFail, Revoke
<1>5. CASE OneStatement
  BY <1>5 DEF OneStatement, Logout, RevokeAllSessions, AdminRevokeAll,
              RevokeOtherSessions, AdminUpdateStatus, Revoke
<1>6. CASE \E t \in Tokens : Expire(t)
  BY <1>6 DEF Expire
<1>7. CASE Restart
  BY <1>7 DEF Restart
<1>8. CASE UNCHANGED vars
  BY <1>8 DEF vars
<1>9. QED
  BY <1>1, <1>2, <1>3, <1>4, <1>5, <1>6, <1>7, <1>8 DEF Next

-----------------------------------------------------------------------------
(* How a step treats the table: it inserts one row, or it inserts none and  *)
(* may only revoke or age rows.                                             *)

NoInsert ==
  /\ owner' = owner /\ lineage' = lineage
  /\ \A t \in Tokens : revoked'[t] = "NO" => revoked[t] = "NO"
  /\ \A t \in Tokens : ~Saved(t) => revoked'[t] = revoked[t]
  /\ \A t \in Tokens : ~Saved(t) /\ t \in expired' => t \in expired

Inserting(q) == SaveSuccessor(q) \/ OpenSession(q) \/ ChangePasswordOpen(q)

\* An UPDATE that revokes inserts no row of refresh_tokens.
LEMMA RevokeInsertsNone ==
  ASSUME TypeOK, NEW S \in SUBSET Tokens, NEW why \in {"TOKEN_ROTATED", "ENDED"},
         \A t \in S : Saved(t), Revoke(S, why)
  PROVE  NoInsert
  BY DEF Revoke, NoInsert, TypeOK

\* Only a login, a rotation and a change of password insert a row.
LEMMA InsertOrNot ==
  ASSUME TypeOK, RequestsOK, [Next]_vars, ~\E q \in Requests : Inserting(q)
  PROVE  NoInsert
<1> USE SentinelsAssumption
<1>1. ASSUME UNCHANGED rows PROVE NoInsert
  BY <1>1 DEF rows, NoInsert
<1>2. ASSUME NEW u \in Users PROVE \A t \in OwnedBy(u) : t \in Tokens /\ Saved(t)
  BY DEF OwnedBy, Saved
<1>3. ASSUME NEW q \in Requests, RefreshStep(q) PROVE NoInsert
  <2>1. CASE Accept(q) \/ Reject(q) \/ DetectReuse(q) \/ RefreshReturn(q) \/ RefreshFail(q)
    BY <1>1, <2>1 DEF Accept, Reject, DetectReuse, RefreshReturn, RefreshFail
  <2>2. CASE RevokeOnReuse(q)
    <3>1. request[q].token \in Tokens /\ Saved(request[q].token)
      BY <2>2 DEF RevokeOnReuse, RequestsOK, Refreshing, RefreshPC, At
    <3>2. owner[request[q].token] \in Users
      BY <3>1 DEF Saved, TypeOK
    <3>3. QED
      BY <1>2, <2>2, <3>2, RevokeInsertsNone DEF RevokeOnReuse
  <2>3. CASE MarkRotated(q)
    <3>1. request[q].token \in Tokens /\ Saved(request[q].token)
      BY <2>3 DEF MarkRotated, RequestsOK, Refreshing, RefreshPC, At
    <3>2. QED
      BY <2>3, <3>1, RevokeInsertsNone DEF MarkRotated
  <2>4. QED
    BY <1>3, <2>1, <2>2, <2>3 DEF RefreshStep, Inserting
<1>4. ASSUME NEW q \in Requests, OpenStep(q) \/ RevokeStep(q) \/ HandlerFail(q)
      PROVE  NoInsert
  <2>1. CASE RepairIdentity(q) \/ HandlerFail(q)
    BY <1>1, <2>1 DEF RepairIdentity, HandlerFail
  <2>2. CASE ChangePasswordRevokeOthers(q) \/ ResetPasswordRevokeAll(q)
    <3>1. request[q].user \in Users
      BY <2>2 DEF ChangePasswordRevokeOthers, ResetPasswordRevokeAll, RequestsOK, At
    <3>2. QED
      BY <1>2, <2>2, <3>1, RevokeInsertsNone
      DEF ChangePasswordRevokeOthers, ResetPasswordRevokeAll, Unrevoked
  <2>3. CASE RevokeSession(q)
    <3>1. request[q].token \in Tokens /\ Saved(request[q].token)
      BY <2>3 DEF RevokeSession, RequestsOK, At
    <3>2. QED
      BY <2>3, <3>1, RevokeInsertsNone DEF RevokeSession
  <2>4. QED
    BY <1>4, <2>1, <2>2, <2>3 DEF OpenStep, RevokeStep, Inserting
<1>5. CASE OneStatement
  <2>1. ASSUME NEW t \in Tokens, Logout(t) PROVE NoInsert
    BY <2>1, RevokeInsertsNone DEF Logout
  <2>2. ASSUME NEW u \in Users, NEW S \in SUBSET OwnedBy(u), Revoke(S, "ENDED")
        PROVE  NoInsert
    BY <1>2, <2>2, RevokeInsertsNone
  <2>3. ASSUME NEW u \in Users, RevokeAllSessions(u) \/ AdminRevokeAll(u)
        PROVE  NoInsert
    BY <2>2, <2>3 DEF RevokeAllSessions, AdminRevokeAll, Unrevoked
  <2>4. ASSUME NEW u \in Users, NEW keep \in Tokens, RevokeOtherSessions(u, keep)
        PROVE  NoInsert
    BY <2>2, <2>4 DEF RevokeOtherSessions, Unrevoked
  <2>5. ASSUME NEW u \in Users, NEW s \in UserStatus, AdminUpdateStatus(u, s)
        PROVE  NoInsert
    BY <2>2, <2>5 DEF AdminUpdateStatus, Unrevoked
  <2>6. QED
    BY <1>5, <2>1, <2>3, <2>4, <2>5 DEF OneStatement
<1>6. CASE \E t \in Tokens : Expire(t)
  BY <1>6 DEF Expire, NoInsert
<1>7. CASE Restart \/ UNCHANGED vars \/ \E q \in Requests : Arrive(q)
  BY <1>1, <1>7 DEF Restart, vars, rows, Arrive, BeginRefresh, BeginRevokeSession,
              BeginLogin, BeginChangePassword, BeginResetPassword
<1>8. QED
  BY <1>3, <1>4, <1>5, <1>6, <1>7 DEF Next

\* The row an insert adds: of a known user, in a fresh lineage or in that of the
\* rotation that adds it.
LEMMA InsertedRow ==
  ASSUME TypeOK, RowsOK, RequestsOK, NEW q \in Requests, Inserting(q)
  PROVE  \E t \in Tokens, u \in Users, l \in Tokens :
           /\ Insert(t, u, l) /\ u = request[q].user
           /\ \/ l = t /\ ~SaveSuccessor(q)
              \/ /\ SaveSuccessor(q)
                 /\ l = lineage[request[q].token] /\ Saved(l) /\ owner[l] = u
<1>1. CASE SaveSuccessor(q)
  <2>1. /\ request[q].token \in Tokens /\ Saved(request[q].token)
        /\ request[q].user = owner[request[q].token]
    BY <1>1 DEF SaveSuccessor, RequestsOK, Refreshing, RefreshPC, At
  <2>2. /\ owner[request[q].token] \in Users /\ lineage[request[q].token] \in Tokens
        /\ Saved(lineage[request[q].token])
        /\ owner[lineage[request[q].token]] = owner[request[q].token]
    BY <2>1 DEF RowsOK, Saved, TypeOK
  <2>3. QED
    BY <1>1, <2>1, <2>2 DEF SaveSuccessor
<1>2. CASE OpenSession(q) \/ ChangePasswordOpen(q)
  <2>1. request[q].user \in Users
    BY <1>2 DEF OpenSession, ChangePasswordOpen, RequestsOK, At
  <2>2. ~SaveSuccessor(q)
    BY <1>2 DEF OpenSession, ChangePasswordOpen, SaveSuccessor, At
  <2>3. QED
    BY <1>2, <2>1, <2>2 DEF OpenSession, ChangePasswordOpen
<1>3. QED
  BY <1>1, <1>2 DEF Inserting

\* No statement of the service deletes a row or changes its owner.
LEMMA RowsKept ==
  ASSUME TypeOK, RowsOK, RequestsOK, [Next]_vars
  PROVE  \A t \in Tokens : Saved(t) => /\ Saved(t)' /\ owner'[t] = owner[t]
                                       /\ lineage'[t] = lineage[t]
<1>1. CASE \E q \in Requests : Inserting(q)
  BY <1>1, InsertedRow DEF Insert, Saved, TypeOK
<1>2. CASE ~\E q \in Requests : Inserting(q)
  BY <1>2, InsertOrNot DEF NoInsert, Saved
<1>3. QED
  BY <1>1, <1>2

\* A saved row's lineage starts at a saved row of the same user.
LEMMA RowsStep == TypeOK /\ RowsOK /\ RequestsOK /\ [Next]_vars => RowsOK'
<1> SUFFICES ASSUME TypeOK, RowsOK, RequestsOK, [Next]_vars PROVE RowsOK'
  OBVIOUS
<1>1. CASE \E q \in Requests : Inserting(q)
  <2>1. PICK q \in Requests : Inserting(q)
    BY <1>1
  <2>2. PICK t \in Tokens, u \in Users, l \in Tokens :
           /\ Insert(t, u, l)
           /\ l = t \/ (Saved(l) /\ owner[l] = u)
    BY <2>1, InsertedRow
  <2>3. QED
    BY <2>2, SentinelsAssumption DEF Insert, RowsOK, Saved, TypeOK
<1>2. CASE ~\E q \in Requests : Inserting(q)
  BY <1>2, InsertOrNot DEF NoInsert, RowsOK, Saved, TypeOK
<1>3. QED
  BY <1>1, <1>2

-----------------------------------------------------------------------------
(* One unrevoked row per lineage.                                          *)

\* No step leaves two unrevoked tokens of one login.
LEMMA OneStep == IInv /\ [Next]_vars => OneUnrevokedPerLineage'
<1> SUFFICES ASSUME IInv, [Next]_vars PROVE OneUnrevokedPerLineage'
  OBVIOUS
<1> USE DEF IInv
<1>1. CASE \E q \in Requests : Inserting(q)
  <2>1. PICK q \in Requests : Inserting(q)
    BY <1>1
  <2>2. PICK t \in Tokens, u \in Users, l \in Tokens :
           /\ Insert(t, u, l)
           /\ \/ l = t
              \/ SaveSuccessor(q) /\ l = lineage[request[q].token]
    BY <2>1, InsertedRow
  <2>3. ASSUME NEW s \in Tokens, Saved(s), revoked[s] = "NO" PROVE lineage[s] # l
    <3>1. CASE l = t
      BY <2>2, <2>3, <3>1 DEF RowsOK, Insert, TypeOK
    <3>2. CASE SaveSuccessor(q) /\ l = lineage[request[q].token]
      BY <2>3, <3>2 DEF RotationExclusive, Rotating, SaveSuccessor, At
    <3>3. QED
      BY <2>2, <3>1, <3>2
  <2>4. QED
    BY <2>2, <2>3 DEF OneUnrevokedPerLineage, Insert, Saved, TypeOK
<1>2. CASE ~\E q \in Requests : Inserting(q)
  BY <1>2, InsertOrNot DEF NoInsert, OneUnrevokedPerLineage, Saved
<1>3. QED
  BY <1>1, <1>2

-----------------------------------------------------------------------------
(* What a step does to the requests: one handler moves, none, or all are    *)
(* reset by a restart.                                                      *)

\* A step moves one handler, unless the process restarts.
LEMMA OneHandlerMoves ==
  ASSUME TypeOK, [Next]_vars
  PROVE  \/ UNCHANGED <<request, refreshInFlight>>
         \/ Restart
         \/ \E q \in Requests :
              /\ \A p \in Requests \ {q} : request'[p] = request[p]
              /\ \/ Arrive(q) \/ RefreshStep(q) \/ OpenStep(q) \/ RevokeStep(q)
                 \/ HandlerFail(q)
<1>1. ASSUME NEW q \in Requests, Arrive(q)
      PROVE  \A p \in Requests \ {q} : request'[p] = request[p]
  BY <1>1 DEF Arrive, BeginRefresh, BeginRevokeSession, BeginLogin,
              BeginChangePassword, BeginResetPassword, Begin, TypeOK
<1>2. ASSUME NEW q \in Requests,
             RefreshStep(q) \/ OpenStep(q) \/ RevokeStep(q) \/ HandlerFail(q)
      PROVE  \A p \in Requests \ {q} : request'[p] = request[p]
  BY <1>2 DEF RefreshStep, Accept, Reject, DetectReuse, RevokeOnReuse, MarkRotated,
              SaveSuccessor, RefreshReturn, RefreshFail, OpenStep, RepairIdentity,
              OpenSession, ChangePasswordOpen, ChangePasswordRevokeOthers, RevokeStep,
              ResetPasswordRevokeAll, RevokeSession, HandlerFail,
              Release, Finish, Goto, TypeOK
<1>3. QED
  BY <1>1, <1>2 DEF Next, OneStatement, Logout, RevokeAllSessions, AdminRevokeAll,
       RevokeOtherSessions, AdminUpdateStatus, Expire, vars

\* RequestsOK for one handler.
RequestOK(q) ==
  /\ Refreshing(q) => request[q].token \in Tokens /\ Saved(request[q].token)
  /\ At(q, "revoking") => request[q].token \in Tokens /\ Saved(request[q].token)
  /\ request[q].pc \in {"rotating", "marked", "saved"}
       => request[q].user = owner[request[q].token]
  /\ request[q].pc \in {"login", "repaired", "changing", "changed", "resetting"}
       => request[q].user \in Users

\* What a handler remembers of its row stays true of the row.
LEMMA RequestsStep == TypeOK /\ RowsOK /\ RequestsOK /\ [Next]_vars => RequestsOK'
<1> SUFFICES ASSUME TypeOK, RowsOK, RequestsOK, [Next]_vars PROVE RequestsOK'
  OBVIOUS
<1>1. ASSUME NEW p \in Requests, request'[p] = request[p] PROVE RequestOK(p)'
  BY <1>1, RowsKept DEF RequestOK, RequestsOK, Refreshing, RefreshPC, At, Saved
<1>2. ASSUME NEW q \in Requests, request'[q] = Idle PROVE RequestOK(q)'
  BY <1>2 DEF RequestOK, Idle, Refreshing, RefreshPC, At
<1>3. ASSUME NEW q \in Requests, Arrive(q) PROVE RequestOK(q)'
  <2>1. ASSUME NEW t \in Tokens, BeginRefresh(q, t) \/ BeginRevokeSession(q, t)
        PROVE  RequestOK(q)'
    BY <2>1, RowsKept DEF BeginRefresh, BeginRevokeSession, Begin, TypeOK,
                RequestOK, Refreshing, RefreshPC, At, Saved
  <2>2. ASSUME NEW u \in Users,
               BeginLogin(q, u) \/ BeginChangePassword(q, u) \/ BeginResetPassword(q, u)
        PROVE  RequestOK(q)'
    BY <2>2 DEF BeginLogin, BeginChangePassword, BeginResetPassword, Begin, TypeOK,
                RequestOK, Refreshing, RefreshPC, At
  <2>3. QED
    BY <1>3, <2>1, <2>2 DEF Arrive
<1>4. ASSUME NEW q \in Requests,
             RefreshStep(q) \/ OpenStep(q) \/ RevokeStep(q) \/ HandlerFail(q)
      PROVE  RequestOK(q)'
  <2>1. CASE \/ Reject(q) \/ RevokeOnReuse(q) \/ RefreshReturn(q) \/ RefreshFail(q)
             \/ OpenSession(q) \/ ChangePasswordRevokeOthers(q)
             \/ RevokeStep(q) \/ HandlerFail(q)
    BY <1>2, <2>1 DEF Reject, RevokeOnReuse, RefreshReturn, RefreshFail, OpenSession,
         ChangePasswordRevokeOthers, RevokeStep, ResetPasswordRevokeAll, RevokeSession,
         HandlerFail, Release, Finish, TypeOK
  <2>2. CASE Accept(q)
    <3>1. request[q].token \in Tokens /\ Saved(request[q].token)
      BY <2>2 DEF Accept, RequestsOK, Refreshing, RefreshPC, At
    <3>2. /\ request'[q].pc = "rotating" /\ request'[q].token = request[q].token
          /\ request'[q].user = owner[request[q].token]
      BY <2>2 DEF Accept, TypeOK, Request
    <3>3. owner' = owner
      BY <2>2 DEF Accept, rows
    <3>4. QED
      BY <3>1, <3>2, <3>3 DEF RequestOK, Refreshing, At, Saved
  <2>3. CASE DetectReuse(q) \/ MarkRotated(q) \/ SaveSuccessor(q)
    <3>1. Refreshing(q)
      BY <2>3 DEF DetectReuse, MarkRotated, SaveSuccessor, Refreshing, RefreshPC, At
    <3>2. /\ request'[q].pc \in {"alarm", "marked", "saved"}
          /\ request'[q].pc \in {"marked", "saved"}
               => request[q].pc \in {"rotating", "marked"}
          /\ request'[q].token = request[q].token /\ request'[q].user = request[q].user
      BY <2>3 DEF DetectReuse, MarkRotated, SaveSuccessor, Goto, At, TypeOK, Request
    <3>3. QED
      BY <3>1, <3>2, RowsKept DEF RequestsOK, RequestOK, Refreshing, At, Saved
  <2>4. CASE RepairIdentity(q) \/ ChangePasswordOpen(q)
    <3>1. request[q].user \in Users
      BY <2>4 DEF RepairIdentity, ChangePasswordOpen, RequestsOK, At
    <3>2. /\ request'[q].pc \in {"repaired", "changed"}
          /\ request'[q].user = request[q].user
      BY <2>4 DEF RepairIdentity, ChangePasswordOpen, Goto, TypeOK, Request
    <3>3. QED
      BY <3>1, <3>2 DEF RequestOK, Refreshing, RefreshPC, At
  <2>5. QED
    BY <1>4, <2>1, <2>2, <2>3, <2>4 DEF RefreshStep, OpenStep
<1>5. CASE Restart
  BY <1>2, <1>5 DEF Restart, RequestOK, RequestsOK
<1>6. \A p \in Requests : RequestOK(p)'
  BY <1>1, <1>2, <1>3, <1>4, OneHandlerMoves DEF Restart
<1>7. QED
  BY <1>6 DEF RequestsOK, RequestOK

-----------------------------------------------------------------------------
(* The table of rotations in flight.                                       *)

\* A handler that moves keeps its entry, makes one, or removes its own.
LEMMA EntryMoves ==
  ASSUME TypeOK, NEW q \in Requests,
         Arrive(q) \/ RefreshStep(q) \/ OpenStep(q) \/ RevokeStep(q) \/ HandlerFail(q)
  PROVE  \/ /\ refreshInFlight' = refreshInFlight
            /\ ~Refreshing(q) /\ ~Refreshing(q)'
         \/ /\ refreshInFlight' = refreshInFlight
            /\ Refreshing(q) /\ Refreshing(q)'
            /\ request'[q].token = request[q].token
         \/ \E t \in Tokens \ refreshInFlight :
              /\ refreshInFlight' = refreshInFlight \cup {t}
              /\ ~Refreshing(q) /\ Refreshing(q)' /\ request'[q].token = t
         \/ /\ refreshInFlight' = refreshInFlight \ {request[q].token}
            /\ Refreshing(q) /\ ~Refreshing(q)'
<1> USE DEF Refreshing, RefreshPC, OtherPC, At, Idle
<1>1. ASSUME NEW t \in Tokens, BeginRefresh(q, t)
      PROVE  /\ refreshInFlight' = refreshInFlight \cup {t} /\ t \notin refreshInFlight
             /\ ~Refreshing(q) /\ Refreshing(q)' /\ request'[q].token = t
  BY <1>1 DEF BeginRefresh, Begin, TypeOK
<1>2. CASE (Reject(q) \/ RevokeOnReuse(q) \/ RefreshReturn(q) \/ RefreshFail(q))
  BY <1>2 DEF Reject, RevokeOnReuse, RefreshReturn, RefreshFail, Release, Finish, TypeOK
<1>3. CASE Accept(q) \/ DetectReuse(q) \/ MarkRotated(q) \/ SaveSuccessor(q)
  <2>1. request[q].pc \in RefreshPC /\ refreshInFlight' = refreshInFlight
    BY <1>3 DEF Accept, DetectReuse, MarkRotated, SaveSuccessor
  <2>2. request'[q].pc \in RefreshPC /\ request'[q].token = request[q].token
    BY <1>3 DEF Accept, DetectReuse, MarkRotated, SaveSuccessor, Goto, TypeOK, Request
  <2>3. QED
    BY <2>1, <2>2
<1>4. CASE OpenStep(q) \/ RevokeStep(q) \/ HandlerFail(q)
  <2>1. request[q].pc \in OtherPC /\ refreshInFlight' = refreshInFlight
    BY <1>4 DEF OpenStep, RepairIdentity, OpenSession, ChangePasswordOpen,
         ChangePasswordRevokeOthers, RevokeStep, ResetPasswordRevokeAll, RevokeSession,
         HandlerFail
  <2>2. request'[q].pc \in {"repaired", "changed", "idle"}
    BY <1>4 DEF OpenStep, RepairIdentity, OpenSession, ChangePasswordOpen,
         ChangePasswordRevokeOthers, RevokeStep, ResetPasswordRevokeAll, RevokeSession,
         HandlerFail, Finish, Goto, TypeOK, Request
  <2>3. QED
    BY <2>1, <2>2
<1>5. ASSUME NEW t \in Tokens, BeginRevokeSession(q, t)
      PROVE  refreshInFlight' = refreshInFlight /\ ~Refreshing(q) /\ ~Refreshing(q)'
  BY <1>5 DEF BeginRevokeSession, Begin, TypeOK
<1>6. ASSUME NEW u \in Users,
             BeginLogin(q, u) \/ BeginChangePassword(q, u) \/ BeginResetPassword(q, u)
      PROVE  refreshInFlight' = refreshInFlight /\ ~Refreshing(q) /\ ~Refreshing(q)'
  BY <1>6 DEF BeginLogin, BeginChangePassword, BeginResetPassword, Begin, TypeOK
<1>7. CASE Arrive(q)
  BY <1>1, <1>5, <1>6, <1>7 DEF Arrive
<1>8. QED
  BY <1>2, <1>3, <1>4, <1>7 DEF RefreshStep

\* refreshInFlight has the tokens that are being refreshed, until their handler ends.
LEMMA InFlightStep == TypeOK /\ InFlightExact /\ [Next]_vars => InFlightExact'
<1> SUFFICES ASSUME TypeOK, InFlightExact, [Next]_vars PROVE InFlightExact'
  OBVIOUS
<1>1. CASE UNCHANGED <<request, refreshInFlight>>
  BY <1>1 DEF InFlightExact, Refreshing
<1>2. CASE Restart
  BY <1>2 DEF Restart, InFlightExact, Refreshing, RefreshPC, Idle
<1>3. ASSUME NEW q \in Requests, \A p \in Requests \ {q} : request'[p] = request[p],
             Arrive(q) \/ RefreshStep(q) \/ OpenStep(q) \/ RevokeStep(q) \/ HandlerFail(q)
      PROVE  InFlightExact'
  <2>1. \A p \in Requests \ {q} : /\ Refreshing(p)' <=> Refreshing(p)
                                  /\ request'[p].token = request[p].token
    BY <1>3 DEF Refreshing
  <2>2. CASE /\ refreshInFlight' = refreshInFlight
             /\ ~Refreshing(q) /\ ~Refreshing(q)'
    BY <2>1, <2>2 DEF InFlightExact
  <2>3. CASE /\ refreshInFlight' = refreshInFlight
             /\ Refreshing(q) /\ Refreshing(q)'
             /\ request'[q].token = request[q].token
    BY <2>1, <2>3 DEF InFlightExact
  <2>4. CASE \E t \in Tokens \ refreshInFlight :
               /\ refreshInFlight' = refreshInFlight \cup {t}
               /\ ~Refreshing(q) /\ Refreshing(q)' /\ request'[q].token = t
    BY <2>1, <2>4 DEF InFlightExact
  <2>5. CASE /\ refreshInFlight' = refreshInFlight \ {request[q].token}
             /\ Refreshing(q) /\ ~Refreshing(q)'
    BY <2>1, <2>5 DEF InFlightExact
  <2>6. QED
    BY <1>3, <2>2, <2>3, <2>4, <2>5, EntryMoves
<1>4. QED
  BY <1>1, <1>2, <1>3, OneHandlerMoves

-----------------------------------------------------------------------------
(* Rotations exclude each other and every other row of their lineage.      *)

\* A handler is past its check because it was before the step, or because the
\* step is its check.
LEMMA RotatingMoves ==
  ASSUME TypeOK, [Next]_vars, NEW q \in Requests, Rotating(q)'
  PROVE  \/ Accept(q) /\ At(q, "rotating")' /\ request'[q].token = request[q].token
         \/ Rotating(q) /\ request'[q] = request[q]
         \/ MarkRotated(q) /\ At(q, "marked")' /\ request'[q].token = request[q].token
<1> USE DEF Rotating, At
<1>1. CASE UNCHANGED <<request, refreshInFlight>>
  BY <1>1
<1>2. CASE Restart
  BY <1>2 DEF Restart, Idle
<1>3. ASSUME NEW p \in Requests, \A r \in Requests \ {p} : request'[r] = request[r],
             Arrive(p) \/ RefreshStep(p) \/ OpenStep(p) \/ RevokeStep(p) \/ HandlerFail(p)
      PROVE  \/ Accept(q) /\ At(q, "rotating")' /\ request'[q].token = request[q].token
             \/ Rotating(q) /\ request'[q] = request[q]
             \/ MarkRotated(q) /\ At(q, "marked")' /\ request'[q].token = request[q].token
  <2>1. CASE p # q
    BY <1>3, <2>1
  <2>2. CASE p = q /\ Accept(q)
    BY <2>2 DEF Accept, TypeOK, Request
  <2>3. CASE p = q /\ MarkRotated(q)
    BY <2>3 DEF MarkRotated, Goto, TypeOK, Request
  <2>4. ASSUME p = q, ~Accept(q), ~MarkRotated(q)
        PROVE  request'[q].pc \notin {"rotating", "marked"}
    <3>1. CASE Arrive(q)
      BY <3>1 DEF Arrive, BeginRefresh, BeginRevokeSession, BeginLogin,
           BeginChangePassword, BeginResetPassword, Begin, TypeOK
    <3>2. CASE RefreshStep(q)
      BY <2>4, <3>2 DEF RefreshStep, Reject, DetectReuse, RevokeOnReuse, SaveSuccessor,
           RefreshReturn, RefreshFail, Release, Finish, Goto, Idle, TypeOK, Request
    <3>3. CASE OpenStep(q) \/ RevokeStep(q) \/ HandlerFail(q)
      BY <3>3 DEF OpenStep, RepairIdentity, OpenSession, ChangePasswordOpen,
           ChangePasswordRevokeOthers, RevokeStep, ResetPasswordRevokeAll, RevokeSession,
           HandlerFail, Finish, Goto, Idle, TypeOK, Request
    <3>4. QED
      BY <1>3, <2>4, <3>1, <3>2, <3>3
  <2>5. QED
    BY <2>1, <2>2, <2>3, <2>4
<1>4. QED
  BY <1>1, <1>2, <1>3, OneHandlerMoves

\* The compare-and-set on the row lets one handler rotate a token.
LEMMA RotationStep == IInv /\ RowsOK' /\ [Next]_vars => RotationExclusive'
<1> SUFFICES ASSUME IInv, RowsOK', [Next]_vars PROVE RotationExclusive'
  OBVIOUS
<1> USE DEF IInv
<1>1. ASSUME NEW q \in Requests, Rotating(q)'
      PROVE  /\ Refreshing(q) /\ request[q].token \in Tokens
             /\ Saved(request[q].token) /\ request'[q].token = request[q].token
             /\ lineage'[request[q].token] = lineage[request[q].token]
             /\ Accept(q) \/ Rotating(q)
  <2>1. Refreshing(q) /\ (Accept(q) \/ Rotating(q))
    BY <1>1, RotatingMoves
    DEF Accept, MarkRotated, Rotating, Refreshing, RefreshPC, At
  <2>2. request[q].token \in Tokens /\ Saved(request[q].token)
    BY <2>1 DEF RequestsOK
  <2>3. QED
    BY <1>1, <2>1, <2>2, RotatingMoves, RowsKept
<1>2. ASSUME NEW q \in Requests, Accept(q), NEW t \in Tokens,
             Saved(t), revoked[t] = "NO", lineage[t] = lineage[request[q].token]
      PROVE  t = request[q].token
  BY <1>2 DEF Accept, Usable, OneUnrevokedPerLineage, RequestsOK, Refreshing, RefreshPC, At
<1>3. ASSUME NEW p \in Requests, NEW q \in Requests, Rotating(p), Accept(q),
             lineage[request[p].token] = lineage[request[q].token]
      PROVE  p = q
  <2>1. request[q].token \in Tokens /\ Usable(request[q].token) /\ Refreshing(q)
    BY <1>3 DEF Accept, RequestsOK, Refreshing, RefreshPC, At
  <2>2. request[q].token = request[p].token
    BY <1>3, <2>1 DEF RotationExclusive, Usable
  <2>3. Refreshing(p)
    BY <1>3 DEF Rotating, Refreshing, RefreshPC
  <2>4. QED
    BY <2>1, <2>2, <2>3 DEF InFlightExact
\* No two rotations past their check share a lineage.
<1>4. ASSUME NEW p \in Requests, NEW q \in Requests, Rotating(p)', Rotating(q)',
             lineage'[request'[p].token] = lineage'[request'[q].token]
      PROVE  p = q
  <2>1. lineage[request[p].token] = lineage[request[q].token]
    BY <1>1, <1>4
  <2>2. CASE Rotating(p) /\ Rotating(q)
    BY <2>1, <2>2 DEF RotationExclusive
  <2>3. CASE Rotating(p) /\ Accept(q)
    BY <1>3, <2>1, <2>3
  <2>4. CASE Accept(p) /\ Rotating(q)
    BY <1>3, <2>1, <2>4
  <2>5. CASE Accept(p) /\ Accept(q)
    <3>1. request[p].pc = "finding" /\ request'[p].pc # "finding"
      BY <1>4, <2>5 DEF Accept, At, Rotating
    <3>2. request[q].pc = "finding" /\ request'[q].pc # "finding"
      BY <1>4, <2>5 DEF Accept, At, Rotating
    <3>3. request' = [request EXCEPT ![p] = [pc |-> "rotating",
                        user |-> owner[request[p].token], token |-> request[p].token]]
      BY <2>5 DEF Accept
    <3>4. QED
      BY <3>1, <3>2, <3>3 DEF TypeOK
  <2>6. QED
    BY <1>1, <1>4, <2>2, <2>3, <2>4, <2>5
\* No row of the lineage is unrevoked beside the one being rotated.
<1>5. ASSUME NEW q \in Requests, Rotating(q)', NEW t \in Tokens,
             Saved(t)', revoked'[t] = "NO", lineage'[t] = lineage'[request'[q].token]
      PROVE  At(q, "rotating")' /\ t = request'[q].token
  <2>1. CASE ~\E p \in Requests : Inserting(p)
    <3>1. Saved(t) /\ revoked[t] = "NO" /\ lineage[t] = lineage[request[q].token]
      BY <1>1, <1>5, <2>1, InsertOrNot DEF NoInsert, Saved
    <3>2. t = request[q].token
      BY <1>1, <1>2, <1>5, <3>1 DEF RotationExclusive
    <3>3. ~MarkRotated(q)
      BY <1>5, <3>2 DEF MarkRotated, Revoke, TypeOK
    <3>4. QED
      BY <1>1, <1>5, <3>1, <3>2, <3>3, RotatingMoves DEF RotationExclusive, At
  <2>2. ASSUME NEW p \in Requests, Inserting(p)
        PROVE  At(q, "rotating")' /\ t = request'[q].token
    <3>1. PICK n \in Tokens, u \in Users, l \in Tokens :
             /\ Insert(n, u, l)
             /\ l = n \/ (SaveSuccessor(p) /\ l = lineage[request[p].token])
      BY <2>2, InsertedRow
    <3>2. Rotating(q) /\ request'[q] = request[q]
      <4>1. ~Accept(q) /\ ~MarkRotated(q)
        <5>1. owner' # owner
          BY <3>1, SentinelsAssumption DEF Insert, Saved, TypeOK
        <5>2. QED
          BY <5>1 DEF Accept, MarkRotated, Revoke, rows
      <4>2. QED
        BY <1>5, <4>1, RotatingMoves
    <3>3. l # lineage[request[q].token]
      <4>1. CASE l = n
        <5>1. Saved(lineage[request[q].token]) /\ ~Saved(n)
          BY <1>1, <1>5, <3>1 DEF RowsOK, Insert
        <5>2. QED
          BY <4>1, <5>1
      <4>2. CASE SaveSuccessor(p) /\ l = lineage[request[p].token]
        <5>1. p # q
          BY <1>5, <4>2 DEF SaveSuccessor, Goto, Rotating, At, TypeOK, Request
        <5>2. Rotating(p)
          BY <4>2 DEF SaveSuccessor, Rotating, At
        <5>3. QED
          BY <3>2, <4>2, <5>1, <5>2 DEF RotationExclusive
      <4>3. QED
        BY <3>1, <4>1, <4>2
    <3>4. t # n
      BY <1>1, <1>5, <3>1, <3>3 DEF Insert, TypeOK
    <3>5. Saved(t) /\ revoked[t] = "NO" /\ lineage[t] = lineage[request[q].token]
      BY <1>1, <1>5, <3>1, <3>4 DEF Insert, Saved, TypeOK
    <3>6. QED
      BY <3>2, <3>5 DEF RotationExclusive, At
  <2>3. QED
    BY <2>1, <2>2
<1>6. QED
  BY <1>4, <1>5 DEF RotationExclusive

-----------------------------------------------------------------------------
(* The theorems.                                                           *)

\* Every step keeps the inductive invariant.
LEMMA InvStep == IInv /\ [Next]_vars => IInv'
  BY TypeStep, RowsStep, RequestsStep, InFlightStep, RotationStep, OneStep DEF IInv

\* The inductive invariant holds of every reachable state.
THEOREM Invariance == Spec => []IInv
<1>1. QED
  BY InvInit, InvStep, PTL DEF Spec

\* Every variable keeps its type: in particular a row's reason is one the reuse
\* test of refreshUnsafe knows.
THEOREM TypeCorrect == Spec => []TypeOK
<1>1. IInv => TypeOK
  BY DEF IInv
<1>2. QED
  BY <1>1, Invariance, PTL

\* One login never has two unrevoked rows: the in-memory table of rotations is
\* enough, however many requests, tokens and restarts there are.
THEOREM RotationIsExclusive == Spec => []OneUnrevokedPerLineage
<1>1. IInv => OneUnrevokedPerLineage
  BY DEF IInv
<1>2. QED
  BY <1>1, Invariance, PTL

\* The table of rotations in flight never strands an entry and never misses one.
THEOREM InFlightIsExact == Spec => []InFlightExact
<1>1. IInv => InFlightExact
  BY DEF IInv
<1>2. QED
  BY <1>1, Invariance, PTL
-----------------------------------------------------------------------------
(* Every login implements LoginLineage: each step, seen through the mapping *)
(* of SessionsRefinement, is a step of LoginLineage or a stutter.           *)

\* Time only goes on: no step makes an expired row current again.
LEMMA ExpiredKept == [Next]_vars => expired \subseteq expired'
<1> SUFFICES ASSUME [Next]_vars PROVE expired \subseteq expired'
  OBVIOUS
<1> USE DEF rows, Insert, Revoke
<1>1. CASE \E q \in Requests : Arrive(q)
  BY <1>1 DEF Arrive, BeginRefresh, BeginRevokeSession, BeginLogin,
              BeginChangePassword, BeginResetPassword
<1>2. CASE \E q \in Requests : RefreshStep(q)
  BY <1>2 DEF RefreshStep, Accept, Reject, DetectReuse, RevokeOnReuse, MarkRotated,
              SaveSuccessor, RefreshReturn, RefreshFail
<1>3. CASE \E q \in Requests : OpenStep(q) \/ RevokeStep(q) \/ HandlerFail(q)
  BY <1>3 DEF OpenStep, RepairIdentity, OpenSession, ChangePasswordOpen,
              ChangePasswordRevokeOthers, RevokeStep, ResetPasswordRevokeAll,
              RevokeSession, HandlerFail
<1>4. CASE OneStatement
  BY <1>4 DEF OneStatement, Logout, RevokeAllSessions, AdminRevokeAll,
              RevokeOtherSessions, AdminUpdateStatus
<1>5. CASE Restart \/ UNCHANGED vars \/ \E t \in Tokens : Expire(t)
  BY <1>5 DEF Restart, vars, Expire
<1>6. QED
  BY <1>1, <1>2, <1>3, <1>4, <1>5 DEF Next

SameRotations ==
  \A q \in Requests : /\ Rotating(q)' <=> Rotating(q)
                      /\ Rotating(q) => request'[q].token = request[q].token

\* A step that revokes or ages a row leaves the rotations where they are: no
\* step but an insert changes both the rows and what rotates.  MarkRotated moves
\* its handler and stays past the check.
LEMMA RowsOrRotations ==
  ASSUME TypeOK, [Next]_vars, ~\E q \in Requests : Inserting(q)
  PROVE  UNCHANGED rows \/ SameRotations
<1> USE DEF SameRotations, Rotating, At
<1>1. ASSUME NEW q \in Requests, Arrive(q) PROVE UNCHANGED rows
  BY <1>1 DEF Arrive, BeginRefresh, BeginRevokeSession, BeginLogin,
              BeginChangePassword, BeginResetPassword
<1>2. ASSUME NEW q \in Requests, RefreshStep(q) PROVE UNCHANGED rows \/ SameRotations
  <2>1. CASE RevokeOnReuse(q)
    BY <2>1 DEF RevokeOnReuse, Release, Finish, Idle, TypeOK, Request
  <2>2. CASE MarkRotated(q)
    <3>1. \A p \in Requests \ {q} : request'[p] = request[p]
      BY <2>2 DEF MarkRotated, Goto, TypeOK
    <3>2. /\ request[q].pc = "rotating" /\ request'[q].pc = "marked"
          /\ request'[q].token = request[q].token
      BY <2>2 DEF MarkRotated, Goto, TypeOK, Request
    <3>3. QED
      BY <3>1, <3>2
  <2>3. QED
    BY <1>2, <2>1, <2>2 DEF RefreshStep, Inserting, Accept, Reject, DetectReuse,
       RefreshReturn, RefreshFail
<1>3. ASSUME NEW q \in Requests, OpenStep(q) \/ RevokeStep(q) \/ HandlerFail(q)
      PROVE  UNCHANGED rows \/ SameRotations
  <2>1. CASE RepairIdentity(q) \/ HandlerFail(q)
    BY <2>1 DEF RepairIdentity, HandlerFail
  <2>2. CASE ChangePasswordRevokeOthers(q) \/ RevokeStep(q)
    BY <2>2 DEF ChangePasswordRevokeOthers, RevokeStep, ResetPasswordRevokeAll,
       RevokeSession, Finish, Idle, TypeOK, Request
  <2>3. QED
    BY <1>3, <2>1, <2>2 DEF OpenStep, Inserting
<1>4. CASE OneStatement \/ \E t \in Tokens : Expire(t)
  BY <1>4 DEF OneStatement, Logout, RevokeAllSessions, AdminRevokeAll,
              RevokeOtherSessions, AdminUpdateStatus, Expire
<1>5. CASE Restart \/ UNCHANGED vars
  BY <1>5 DEF Restart, vars, rows
<1>6. QED
  BY <1>1, <1>2, <1>3, <1>4, <1>5 DEF Next

\* An insert takes its own handler past the rotation and moves no other.
LEMMA InsertMoves ==
  ASSUME TypeOK, NEW q \in Requests, Inserting(q)
  PROVE  /\ \A p \in Requests \ {q} : request'[p] = request[p]
         /\ ~Rotating(q)'
         /\ Rotating(q) <=> SaveSuccessor(q)
<1> USE DEF Rotating, At
<1>1. CASE SaveSuccessor(q)
  BY <1>1 DEF SaveSuccessor, Goto, TypeOK, Request
<1>2. CASE OpenSession(q) \/ ChangePasswordOpen(q)
  <2>1. request[q].pc \in {"login", "repaired", "changing"}
    BY <1>2 DEF OpenSession, ChangePasswordOpen
  <2>2. /\ \A p \in Requests \ {q} : request'[p] = request[p]
        /\ request'[q].pc \in {"idle", "changed"}
    BY <1>2 DEF OpenSession, ChangePasswordOpen, Finish, Idle, TypeOK
  <2>3. QED
    BY <2>1, <2>2 DEF SaveSuccessor
<1>3. QED
  BY <1>1, <1>2 DEF Inserting

\* A step that inserts no row starts or gives up a rotation of the login, or
\* withdraws its one usable token.
LEMMA LineageNoInsert ==
  ASSUME IInv, [Next]_vars, ~\E q \in Requests : Inserting(q)
  PROVE  [Lineage!Next]_(Lineage!vars)
<1> USE DEF IInv
<1>1. /\ LiveTokens' \subseteq LiveTokens
      /\ SpentTokens' = SpentTokens \cup (LiveTokens \ LiveTokens')
  BY InsertOrNot, ExpiredKept
  DEF NoInsert, LiveTokens, SpentTokens, InLineage, Usable, Saved
<1>2. \A s, t \in LiveTokens : s = t
  BY DEF OneUnrevokedPerLineage, LiveTokens, InLineage, Usable
<1>3. Renewing \in BOOLEAN /\ Renewing' \in BOOLEAN
  BY DEF Renewing
<1>4. ASSUME ~Renewing, Renewing' PROVE LiveTokens # {}
  <2>1. PICK q \in Requests : Rotating(q)' /\ lineage'[request'[q].token] = TheLineage
    BY <1>4 DEF Renewing
  <2>2. lineage' = lineage
    BY InsertOrNot DEF NoInsert
  <2>3. Accept(q) /\ request'[q].token = request[q].token
    BY <1>4, <2>1, <2>2, RotatingMoves DEF Renewing, MarkRotated, Rotating, At
  <2>4. request[q].token \in Tokens /\ Usable(request[q].token)
    BY <2>3 DEF Accept, RequestsOK, Refreshing, RefreshPC, At
  <2>5. QED
    BY <2>1, <2>2, <2>3, <2>4 DEF LiveTokens, InLineage, Usable
<1>5. CASE LiveTokens' = LiveTokens
  <2>1. SpentTokens' = SpentTokens
    BY <1>1, <1>5
  <2>2. CASE Renewing' = Renewing
    BY <1>5, <2>1, <2>2 DEF Lineage!vars
  <2>3. CASE Renewing /\ ~Renewing'
    BY <1>5, <2>1, <2>3 DEF Lineage!Next, Lineage!GiveUp
  <2>4. CASE ~Renewing /\ Renewing'
    BY <1>4, <1>5, <2>1, <2>4 DEF Lineage!Next, Lineage!StartRenewal
  <2>5. QED
    BY <1>3, <2>2, <2>3, <2>4
<1>6. CASE LiveTokens' # LiveTokens
  <2>1. LiveTokens # {} /\ LiveTokens' = {}
    BY <1>1, <1>2, <1>6
  <2>2. SameRotations
    BY <1>6, RowsOrRotations DEF rows, LiveTokens, InLineage, Usable, Saved
  <2>3. Renewing' = Renewing
    BY <2>2, InsertOrNot DEF Renewing, SameRotations, NoInsert
  <2>4. QED
    BY <1>1, <2>1, <2>3 DEF Lineage!Next, Lineage!Withdraw
<1>7. QED
  BY <1>5, <1>6

\* A step that inserts a row opens the login or delivers the successor its
\* rotation promised; for every other login it is a stutter.
LEMMA LineageInsert ==
  ASSUME IInv, NEW q \in Requests, Inserting(q)
  PROVE  [Lineage!Next]_(Lineage!vars)
<1> USE DEF IInv
<1>1. PICK n \in Tokens, u \in Users, l \in Tokens :
         /\ Insert(n, u, l)
         /\ \/ l = n /\ ~SaveSuccessor(q)
            \/ SaveSuccessor(q) /\ l = lineage[request[q].token]
  BY InsertedRow
<1>2. /\ ~Saved(n) /\ revoked[n] = "NO" /\ n \notin expired
      /\ Usable(n)' /\ lineage'[n] = l
  BY <1>1, SentinelsAssumption DEF RowsOK, Insert, Usable, Saved, TypeOK
<1>3. \A t \in Tokens \ {n} : /\ lineage'[t] = lineage[t]
                              /\ InLineage(t)' <=> InLineage(t)
                              /\ Usable(t)' <=> Usable(t)
  BY <1>1 DEF Insert, InLineage, Usable, Saved, TypeOK
<1>4. InLineage(n)' <=> l = TheLineage
  BY <1>2 DEF InLineage, Usable
<1>5. SpentTokens' = SpentTokens
  BY <1>2, <1>3 DEF SpentTokens, InLineage
<1>6. \A p \in Requests : Rotating(p) =>
        request[p].token \in Tokens \ {n} /\ Saved(request[p].token)
  BY <1>2 DEF RequestsOK, Rotating, Refreshing, RefreshPC
<1>7. \A p \in Requests \ {q} : /\ request'[p] = request[p]
                                /\ Rotating(p)' <=> Rotating(p)
  BY InsertMoves DEF Rotating
<1>8. ~Rotating(q)' /\ (Rotating(q) <=> SaveSuccessor(q))
  BY InsertMoves
<1>9. \A p \in Requests \ {q} :
        Rotating(p) => lineage'[request'[p].token] = lineage[request[p].token]
  BY <1>3, <1>6, <1>7
<1>10. Renewing' = \E p \in Requests \ {q} :
                     Rotating(p) /\ lineage[request[p].token] = TheLineage
  BY <1>7, <1>8, <1>9 DEF Renewing
<1>11. CASE l # TheLineage
  <2>1. LiveTokens' = LiveTokens
    BY <1>2, <1>3, <1>4, <1>11 DEF LiveTokens, InLineage
  <2>2. Renewing' = Renewing
    BY <1>1, <1>8, <1>10, <1>11 DEF Renewing
  <2>3. QED
    BY <1>5, <2>1, <2>2 DEF Lineage!vars
<1>12. CASE l = TheLineage /\ l = n /\ ~SaveSuccessor(q)
  <2>1. \A t \in Tokens : ~InLineage(t)
    BY <1>2, <1>12 DEF RowsOK, InLineage
  <2>2. LiveTokens = {} /\ SpentTokens = {}
    BY <2>1 DEF LiveTokens, SpentTokens
  <2>3. LiveTokens' = {n}
    BY <1>2, <1>3, <1>4, <1>12, <2>1 DEF LiveTokens
  <2>4. ~Renewing
    BY <1>6, <2>1 DEF Renewing, InLineage
  <2>5. Renewing' = Renewing
    BY <1>10, <2>4 DEF Renewing
  <2>6. QED
    BY <1>5, <2>2, <2>3, <2>5 DEF Lineage!Next, Lineage!Open
<1>13. CASE l = TheLineage /\ SaveSuccessor(q) /\ l = lineage[request[q].token]
  <2>1. Rotating(q) /\ ~At(q, "rotating")
    BY <1>13 DEF SaveSuccessor, Rotating, At
  <2>2. Renewing
    BY <1>13, <2>1 DEF Renewing
  <2>3. LiveTokens = {}
    BY <1>13, <2>1 DEF LiveTokens, InLineage, Usable, RotationExclusive
  <2>4. LiveTokens' = {n}
    BY <1>2, <1>3, <1>4, <1>13, <2>3 DEF LiveTokens
  <2>5. Renewing' = FALSE
    BY <1>10, <1>13, <2>1 DEF RotationExclusive
  <2>6. n \notin SpentTokens
    BY <1>2 DEF SpentTokens, InLineage
  <2>7. QED
    BY <1>5, <2>2, <2>3, <2>4, <2>5, <2>6 DEF Lineage!Next, Lineage!Renew
<1>14. QED
  BY <1>1, <1>11, <1>12, <1>13

\* Every login, whatever the users, the tokens and the handlers, keeps the
\* promise of LoginLineage.
THEOREM ImplementsLoginLineage == Spec => ImplementsLineage
<1>1. Init => Lineage!Init
  BY DEF Init, Lineage!Init, LiveTokens, SpentTokens, Renewing, InLineage, Saved,
         Rotating, Idle
<1>2. IInv /\ [Next]_vars => [Lineage!Next]_(Lineage!vars)
  BY LineageInsert, LineageNoInsert
<1>3. QED
  BY <1>1, <1>2, Invariance, PTL DEF Spec, ImplementsLineage, Lineage!Spec
-----------------------------------------------------------------------------
(* A locked-out user stays locked out.                                     *)

\* A handler may open a session for a user because it could before the step, or
\* because the step tested the status of the user or a usable row of theirs.
LEMMA OpeningMoves ==
  ASSUME TypeOK, [Next]_vars, NEW q \in Requests, NEW u \in Users, MayYetOpen(q, u)'
  PROVE  \/ MayYetOpen(q, u)
         \/ status[u] = "ACTIVE"
         \/ Accept(q) /\ owner[request[q].token] = u
<1> USE DEF MayYetOpen, At
<1>1. CASE UNCHANGED <<request, refreshInFlight>>
  BY <1>1
<1>2. CASE Restart
  BY <1>2 DEF Restart, Idle
<1>3. ASSUME NEW p \in Requests, \A r \in Requests \ {p} : request'[r] = request[r],
             Arrive(p) \/ RefreshStep(p) \/ OpenStep(p) \/ RevokeStep(p) \/ HandlerFail(p)
      PROVE  \/ MayYetOpen(q, u)
             \/ status[u] = "ACTIVE"
             \/ Accept(q) /\ owner[request[q].token] = u
  <2>1. CASE p # q
    BY <1>3, <2>1
  <2>2. CASE p = q /\ Arrive(q)
    BY <2>2 DEF Arrive, BeginRefresh, BeginRevokeSession, BeginLogin,
         BeginChangePassword, BeginResetPassword, Begin, TypeOK
  <2>3. CASE p = q /\ RefreshStep(q)
    <3>1. CASE Accept(q) \/ MarkRotated(q)
      BY <3>1 DEF Accept, MarkRotated, Goto, TypeOK, Request
    <3>2. CASE ~Accept(q) /\ ~MarkRotated(q)
      BY <2>3, <3>2 DEF RefreshStep, Reject, DetectReuse, RevokeOnReuse, SaveSuccessor,
           RefreshReturn, RefreshFail, Release, Finish, Goto, Idle, TypeOK, Request
    <3>3. QED
      BY <3>1, <3>2
  <2>4. CASE p = q /\ (OpenStep(q) \/ RevokeStep(q) \/ HandlerFail(q))
    BY <2>4 DEF OpenStep, RepairIdentity, OpenSession, ChangePasswordOpen,
         ChangePasswordRevokeOthers, RevokeStep, ResetPasswordRevokeAll, RevokeSession,
         HandlerFail, Finish, Goto, Idle, TypeOK, Request
  <2>5. QED
    BY <1>3, <2>1, <2>2, <2>3, <2>4
<1>4. QED
  BY <1>1, <1>2, <1>3, OneHandlerMoves

\* A row that is usable after a step was usable before it, or was inserted for a
\* user whom a handler in progress might still open a session for.
LEMMA UsableMoves ==
  ASSUME IInv, [Next]_vars, NEW t \in Tokens, Usable(t)'
  PROVE  \/ Usable(t) /\ owner'[t] = owner[t]
         \/ \E q \in Requests : MayYetOpen(q, owner'[t])
<1> USE DEF IInv
<1>1. CASE ~\E q \in Requests : Inserting(q)
  BY <1>1, InsertOrNot, ExpiredKept DEF NoInsert, Usable, Saved
<1>2. ASSUME NEW q \in Requests, Inserting(q)
      PROVE  \/ Usable(t) /\ owner'[t] = owner[t]
             \/ MayYetOpen(q, owner'[t])
  <2>1. request[q].pc \in {"login", "repaired", "changing", "marked"}
    BY <1>2 DEF Inserting, SaveSuccessor, OpenSession, ChangePasswordOpen, At
  <2>2. PICK n \in Tokens, l \in Tokens : Insert(n, request[q].user, l)
    BY <1>2, InsertedRow
  <2>3. CASE t = n
    BY <2>1, <2>2, <2>3 DEF Insert, MayYetOpen, TypeOK
  <2>4. CASE t # n
    BY <2>2, <2>4 DEF Insert, Usable, Saved, TypeOK
  <2>5. QED
    BY <2>3, <2>4
<1>3. QED
  BY <1>1, <1>2

\* As long as the ban is not lifted, no step gives a locked-out user a usable row
\* or a handler that could insert one.
LEMMA LockedOutStep ==
  ASSUME IInv, [Next]_vars, NEW u \in Users, LockedOut(u), status'[u] # "ACTIVE"
  PROVE  LockedOut(u)'
<1> USE DEF IInv
<1>1. ASSUME NEW t \in Tokens, owner'[t] = u, Usable(t)' PROVE FALSE
  BY <1>1, UsableMoves DEF LockedOut, OwnedBy
<1>2. ASSUME NEW q \in Requests, MayYetOpen(q, u)' PROVE FALSE
  <2>1. Accept(q) /\ owner[request[q].token] = u
    BY <1>2, OpeningMoves DEF LockedOut
  <2>2. request[q].token \in Tokens /\ Usable(request[q].token)
    BY <2>1 DEF Accept, RequestsOK, Refreshing, RefreshPC, At
  <2>3. QED
    BY <2>1, <2>2 DEF LockedOut, OwnedBy
<1>3. QED
  BY <1>1, <1>2 DEF LockedOut, OwnedBy

\* A ban with no handler in progress for the user is complete until it is lifted,
\* although refreshUnsafe never tests users.status.
THEOREM BanIsComplete == Spec => LockedOutStaysOut
<1>1. IInv /\ [Next]_vars =>
        [\A u \in Users : LockedOut(u) /\ status'[u] # "ACTIVE" => LockedOut(u)']_vars
  BY LockedOutStep
<1>2. QED
  BY <1>1, Invariance, PTL DEF Spec, LockedOutStaysOut
=============================================================================
