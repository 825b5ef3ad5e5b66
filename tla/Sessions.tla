------------------------------ MODULE Sessions ------------------------------
(***************************************************************************)
(* Refresh-token sessions of the auth service: AuthService.refresh with    *)
(* its in-memory table of rotations in flight, the handlers that open a    *)
(* session (login, social callback, password change) and every handler     *)
(* that revokes one, over the table refresh_tokens.                        *)
(*                                                                         *)
(* A row of the table and the refresh token whose hash it stores are one   *)
(* value of Tokens.  A handler is a request slot that walks through the    *)
(* awaits of the code; each action is what runs between two awaits, so one *)
(* SQL statement is one step.  Keycloak is external: a call to it may      *)
(* succeed or fail at any time and changes no variable of this module.     *)
(***************************************************************************)
EXTENDS Naturals, FiniteSets

CONSTANTS
  Users,      \* rows of the table users
  Tokens,     \* refresh tokens Keycloak may issue: bounds the sessions opened
  Requests,   \* request slots: bounds the handlers that run concurrently
  NoUser,
  NoToken

ASSUME SentinelsAssumption == NoUser \notin Users /\ NoToken \notin Tokens

VARIABLES
  owner,            \* refresh_tokens.user_id; NoUser where no row is saved
  lineage,          \* history: the token of the login this row descends from
  revoked,          \* revoked_at with revoked_reason: see Revocation
  expired,          \* rows whose expires_at has passed
  status,           \* users.status
  refreshInFlight,  \* keys of AuthService.refreshInFlight
  request           \* what each handler in progress has reached and remembers

vars == <<owner, lineage, revoked, expired, status, refreshInFlight, request>>
rows == <<owner, lineage, revoked, expired>>

(***************************************************************************)
(* revoked_at is null ("NO"), or the row was replaced by a rotation, the   *)
(* one reason the code tells apart ("TOKEN_ROTATED"), or it was ended for  *)
(* any other reason: USER_LOGOUT, USER_REVOKED, PASSWORD_RESET, ...        *)
(***************************************************************************)
Revocation == {"NO", "TOKEN_ROTATED", "ENDED"}

\* Every status but ACTIVE is refused by the same tests; BANNED stands for it.
UserStatus == {"ACTIVE", "BANNED"}

\* refreshUnsafe, by the await it is suspended on.
RefreshPC == {"finding",    \* findOne by hash          -> accept, reject, reuse
              "alarm",      \* update of all the rows of the owner
              "rotating",   \* Keycloak's token endpoint -> mark
              "marked",     \* insert of the successor
              "saved"}      \* toAuthUser               -> return

OtherPC == {"login", "repaired",     \* a handler that opens a session
            "changing", "changed",   \* changePassword, before and after its insert
            "resetting",             \* resetPassword
            "revoking"}              \* revokeSessionById and its two siblings

Request == [pc : {"idle"} \cup RefreshPC \cup OtherPC,
            user : Users \cup {NoUser}, token : Tokens \cup {NoToken}]

Idle == [pc |-> "idle", user |-> NoUser, token |-> NoToken]

TypeOK ==
  /\ owner \in [Tokens -> Users \cup {NoUser}]
  /\ lineage \in [Tokens -> Tokens]
  /\ revoked \in [Tokens -> Revocation]
  /\ expired \subseteq Tokens
  /\ status \in [Users -> UserStatus]
  /\ refreshInFlight \subseteq Tokens
  /\ request \in [Requests -> Request]

Init ==
  /\ owner = [t \in Tokens |-> NoUser]
  /\ lineage = [t \in Tokens |-> t]
  /\ revoked = [t \in Tokens |-> "NO"]
  /\ expired = {}
  /\ status = [u \in Users |-> "ACTIVE"]
  /\ refreshInFlight = {}
  /\ request = [q \in Requests |-> Idle]

-----------------------------------------------------------------------------
(* The table.                                                              *)

Saved(t) == owner[t] # NoUser
OwnedBy(u) == {t \in Tokens : owner[t] = u}
Unrevoked(u) == {t \in OwnedBy(u) : revoked[t] = "NO"}
Usable(t) == Saved(t) /\ revoked[t] = "NO" /\ t \notin expired

\* saveRefreshToken: a row for a token never stored before.
Insert(t, u, l) ==
  /\ ~Saved(t)
  /\ owner' = [owner EXCEPT ![t] = u]
  /\ lineage' = [lineage EXCEPT ![t] = l]
  /\ UNCHANGED <<revoked, expired>>

\* UPDATE refresh_tokens SET revoked_at = now(), revoked_reason = why WHERE ...
Revoke(S, why) ==
  /\ revoked' = [t \in Tokens |-> IF t \in S THEN why ELSE revoked[t]]
  /\ UNCHANGED <<owner, lineage, expired>>

Begin(q, pc, u, t) ==
  /\ request[q] = Idle
  /\ request' = [request EXCEPT ![q] = [pc |-> pc, user |-> u, token |-> t]]

At(q, pc) == request[q].pc = pc
Goto(q, pc) == request' = [request EXCEPT ![q].pc = pc]
Finish(q) == request' = [request EXCEPT ![q] = Idle]

-----------------------------------------------------------------------------
(* AuthService.refresh and refreshUnsafe.                                  *)

\* Mutant: the table of rotations in flight is not consulted.
BeginRefreshUnlocked(q, t) ==
  /\ Saved(t)
  /\ Begin(q, "finding", NoUser, t)
  /\ refreshInFlight' = refreshInFlight \cup {t}
  /\ UNCHANGED <<rows, status>>

\* A caller whose token is in the table awaits the promise found there and
\* changes nothing.  An unknown token is refused by the lookup: no step either.
BeginRefresh(q, t) ==
  /\ Saved(t) /\ t \notin refreshInFlight
  /\ Begin(q, "finding", NoUser, t)
  /\ refreshInFlight' = refreshInFlight \cup {t}
  /\ UNCHANGED <<rows, status>>

\* Mutant: a refusal at the lookup leaves the entry in the table.
ReleaseIfAccepted(q) ==
  /\ refreshInFlight' = IF At(q, "finding") THEN refreshInFlight
                         ELSE refreshInFlight \ {request[q].token}
  /\ Finish(q)

\* The finally of refresh: on every way out the entry is removed.
Release(q) ==
  /\ refreshInFlight' = refreshInFlight \ {request[q].token}
  /\ Finish(q)

\* Mutant: the lookup tests expiry and forgets revoked_at.
AcceptRevoked(q) ==
  LET t == request[q].token IN
  /\ At(q, "finding") /\ t \notin expired
  /\ request' = [request EXCEPT ![q] = [pc |-> "rotating", user |-> owner[t], token |-> t]]
  /\ UNCHANGED <<rows, status, refreshInFlight>>

Accept(q) ==
  LET t == request[q].token IN
  /\ At(q, "finding") /\ Usable(t)
  /\ request' = [request EXCEPT ![q] = [pc |-> "rotating", user |-> owner[t], token |-> t]]
  /\ UNCHANGED <<rows, status, refreshInFlight>>

\* Revoked or expired, and not by rotation: this token alone is refused.
Reject(q) ==
  LET t == request[q].token IN
  /\ At(q, "finding") /\ ~Usable(t) /\ revoked[t] # "TOKEN_ROTATED"
  /\ Release(q)
  /\ UNCHANGED <<rows, status>>

\* shouldRevokeAllSessionsOnRefreshReuse.
DetectReuse(q) ==
  /\ At(q, "finding") /\ revoked[request[q].token] = "TOKEN_ROTATED"
  /\ Goto(q, "alarm")
  /\ UNCHANGED <<rows, status, refreshInFlight>>

\* Every row of the owner, the revoked ones included; then 401.
RevokeOnReuse(q) ==
  /\ At(q, "alarm")
  /\ Revoke(OwnedBy(owner[request[q].token]), "ENDED")
  /\ Release(q)
  /\ UNCHANGED status

\* Mutant: a literal that shouldRevokeAllSessionsOnRefreshReuse does not know.
MarkRotatedOtherReason(q) ==
  /\ At(q, "rotating")
  /\ Revoke({request[q].token}, "ROTATED")
  /\ Goto(q, "marked")
  /\ UNCHANGED <<status, refreshInFlight>>

\* Keycloak has answered with the new pair; the old row is updated by its id,
\* whatever happened to it since it was read.
MarkRotated(q) ==
  /\ At(q, "rotating")
  /\ Revoke({request[q].token}, "TOKEN_ROTATED")
  /\ Goto(q, "marked")
  /\ UNCHANGED <<status, refreshInFlight>>

SaveSuccessor(q) ==
  /\ At(q, "marked")
  /\ \E t \in Tokens : Insert(t, request[q].user, lineage[request[q].token])
  /\ Goto(q, "saved")
  /\ UNCHANGED <<status, refreshInFlight>>

RefreshReturn(q) ==
  /\ At(q, "saved")
  /\ Release(q)
  /\ UNCHANGED <<rows, status>>

\* PostgreSQL or Keycloak rejects the await in progress: the handler stops there.
RefreshFail(q) ==
  /\ request[q].pc \in {"finding", "alarm", "rotating", "marked"}
  /\ Release(q)
  /\ UNCHANGED <<rows, status>>

-----------------------------------------------------------------------------
(* Handlers that open a session.                                           *)

\* Mutant: the status of the user is not tested.
BeginLoginAnyStatus(q, u) ==
  /\ Begin(q, "login", u, NoToken)
  /\ UNCHANGED <<rows, status, refreshInFlight>>

\* login and socialCallback test the status of the user they have read, then
\* wait for Keycloak (a social user is tested after the code is exchanged).
BeginLogin(q, u) ==
  /\ status[u] = "ACTIVE"
  /\ Begin(q, "login", u, NoToken)
  /\ UNCHANGED <<rows, status, refreshInFlight>>

\* syncKeycloakIdentity, when the subject of the new token is not the stored
\* one: save(user) writes back the whole entity read before the await, and so
\* the status it had then.
RepairIdentity(q) ==
  /\ At(q, "login")
  /\ status' = [status EXCEPT ![request[q].user] = "ACTIVE"]
  /\ Goto(q, "repaired")
  /\ UNCHANGED <<rows, refreshInFlight>>

OpenSession(q) ==
  /\ request[q].pc \in {"login", "repaired"}
  /\ \E t \in Tokens : Insert(t, request[q].user, t)
  /\ Finish(q)
  /\ UNCHANGED <<status, refreshInFlight>>

BeginChangePassword(q, u) ==
  /\ status[u] = "ACTIVE"
  /\ Begin(q, "changing", u, NoToken)
  /\ UNCHANGED <<rows, status, refreshInFlight>>

\* Keycloak has the new password and has issued a pair for it.
ChangePasswordOpen(q) ==
  /\ At(q, "changing")
  /\ \E t \in Tokens :
       /\ Insert(t, request[q].user, t)
       /\ request' = [request EXCEPT ![q] =
                       [pc |-> "changed", user |-> request[q].user, token |-> t]]
  /\ UNCHANGED <<status, refreshInFlight>>

ChangePasswordRevokeOthers(q) ==
  /\ At(q, "changed")
  /\ Revoke(Unrevoked(request[q].user) \ {request[q].token}, "ENDED")
  /\ Finish(q)
  /\ UNCHANGED <<status, refreshInFlight>>

-----------------------------------------------------------------------------
(* Handlers that revoke sessions.                                          *)

\* The OTP is consumed and the user is active; Keycloak gets the new password.
BeginResetPassword(q, u) ==
  /\ status[u] = "ACTIVE"
  /\ Begin(q, "resetting", u, NoToken)
  /\ UNCHANGED <<rows, status, refreshInFlight>>

ResetPasswordRevokeAll(q) ==
  /\ At(q, "resetting")
  /\ Revoke(OwnedBy(request[q].user), "ENDED")
  /\ Finish(q)
  /\ UNCHANGED <<status, refreshInFlight>>

\* revokeSessionById, UserService.revokeSession and the admin's revokeSession
\* read an unrevoked row and then save the entity they have read.
BeginRevokeSession(q, t) ==
  /\ Saved(t) /\ revoked[t] = "NO"
  /\ Begin(q, "revoking", NoUser, t)
  /\ UNCHANGED <<rows, status, refreshInFlight>>

RevokeSession(q) ==
  /\ At(q, "revoking")
  /\ Revoke({request[q].token}, "ENDED")
  /\ Finish(q)
  /\ UNCHANGED <<status, refreshInFlight>>

\* By hash, whether or not the row is revoked already.
Logout(t) ==
  /\ Saved(t)
  /\ Revoke({t}, "ENDED")
  /\ UNCHANGED <<status, refreshInFlight, request>>

RevokeOtherSessions(u, keep) ==
  /\ Revoke(Unrevoked(u) \ {keep}, "ENDED")
  /\ UNCHANGED <<status, refreshInFlight, request>>

RevokeAllSessions(u) ==
  /\ Revoke(Unrevoked(u), "ENDED")
  /\ UNCHANGED <<status, refreshInFlight, request>>

\* A role change, and the admin's own revoke-all: rows that have not expired.
AdminRevokeAll(u) ==
  /\ Revoke(Unrevoked(u) \ expired, "ENDED")
  /\ UNCHANGED <<status, refreshInFlight, request>>

\* One transaction: the new status and, unless it is ACTIVE, the revocation.
AdminUpdateStatus(u, s) ==
  /\ status[u] # s
  /\ status' = [status EXCEPT ![u] = s]
  /\ Revoke(IF s = "ACTIVE" THEN {} ELSE Unrevoked(u) \ expired, "ENDED")
  /\ UNCHANGED <<refreshInFlight, request>>

-----------------------------------------------------------------------------
(* The environment.                                                        *)

\* An await of a handler other than refresh rejects: it stops there.
HandlerFail(q) ==
  /\ request[q].pc \in OtherPC
  /\ Finish(q)
  /\ UNCHANGED <<rows, status, refreshInFlight>>

Expire(t) ==
  /\ Saved(t) /\ t \notin expired
  /\ expired' = expired \cup {t}
  /\ UNCHANGED <<owner, lineage, revoked, status, refreshInFlight, request>>

\* The one replica restarts: the handlers and the table in memory are lost.
Restart ==
  /\ refreshInFlight' = {}
  /\ request' = [q \in Requests |-> Idle]
  /\ UNCHANGED <<rows, status>>

-----------------------------------------------------------------------------
RefreshStep(q) ==
  \/ Accept(q) \/ Reject(q) \/ DetectReuse(q) \/ RevokeOnReuse(q)
  \/ MarkRotated(q) \/ SaveSuccessor(q) \/ RefreshReturn(q) \/ RefreshFail(q)

OpenStep(q) ==
  \/ RepairIdentity(q) \/ OpenSession(q)
  \/ ChangePasswordOpen(q) \/ ChangePasswordRevokeOthers(q)

RevokeStep(q) == ResetPasswordRevokeAll(q) \/ RevokeSession(q)

Arrive(q) ==
  \/ \E t \in Tokens : BeginRefresh(q, t) \/ BeginRevokeSession(q, t)
  \/ \E u \in Users :
       BeginLogin(q, u) \/ BeginChangePassword(q, u) \/ BeginResetPassword(q, u)

OneStatement ==
  \/ \E t \in Tokens : Logout(t)
  \/ \E u \in Users : RevokeAllSessions(u) \/ AdminRevokeAll(u)
  \/ \E u \in Users, keep \in Tokens : RevokeOtherSessions(u, keep)
  \/ \E u \in Users, s \in UserStatus : AdminUpdateStatus(u, s)

Next ==
  \/ \E q \in Requests :
       Arrive(q) \/ RefreshStep(q) \/ OpenStep(q) \/ RevokeStep(q) \/ HandlerFail(q)
  \/ OneStatement
  \/ \E t \in Tokens : Expire(t)
  \/ Restart

Spec == Init /\ [][Next]_vars

\* PostgreSQL settles every statement the refresh handler awaits.  Nothing is
\* assumed of Keycloak: its client sets no timeout, so "rotating" may last.
LocalRefreshStep(q) == ~At(q, "rotating") /\ RefreshStep(q)
FairSpec == Spec /\ \A q \in Requests : WF_vars(LocalRefreshStep(q))

-----------------------------------------------------------------------------
(* Properties.                                                             *)

Refreshing(q) == request[q].pc \in RefreshPC

\* Past the check of the stored row, and not yet past the insert.
Rotating(q) == request[q].pc \in {"rotating", "marked"}

\* auth.service.ts:56, "the lock per token keeps two requests from rotating one
\* refresh token": whatever interleaving of refreshes, revocations, failures and
\* restarts, one login never has two rows that are not revoked.
OneUnrevokedPerLineage ==
  \A s, t \in Tokens :
    (/\ Saved(s) /\ revoked[s] = "NO"
     /\ Saved(t) /\ revoked[t] = "NO"
     /\ lineage[s] = lineage[t]) => s = t

\* refreshInFlight holds exactly the tokens some handler is rotating, each worked
\* on by one handler.  An entry nobody works on would answer every later refresh
\* of that token with a promise that settled long ago; a handler without its
\* entry would let a second rotation of the token start.
InFlightExact ==
  /\ refreshInFlight = {request[q].token : q \in {r \in Requests : Refreshing(r)}}
  /\ \A p, q \in Requests :
       Refreshing(p) /\ Refreshing(q) /\ request[p].token = request[q].token => p = q

\* Handlers that tested the user or a row of the user before, and may still
\* insert a row for the user.
MayYetOpen(q, u) ==
  /\ request[q].pc \in {"login", "repaired", "changing", "rotating", "marked"}
  /\ request[q].user = u

LockedOut(u) ==
  /\ status[u] # "ACTIVE"
  /\ \A t \in OwnedBy(u) : ~Usable(t)
  /\ \A q \in Requests : ~MayYetOpen(q, u)

\* A ban that no handler in progress straddles is complete: as long as the admin
\* does not lift it, no sequence of login, social login, password change, reset,
\* refresh and revocation gives the user a usable session again.  refreshUnsafe
\* never tests users.status, so this rests on the revocation made with the ban.
LockedOutStaysOut ==
  [][\A u \in Users : LockedOut(u) /\ status'[u] # "ACTIVE" => LockedOut(u)']_vars

AwaitsKeycloak(t) == \E q \in Requests : At(q, "rotating") /\ request[q].token = t

\* Unless Keycloak keeps it waiting, a refresh leaves refreshInFlight, on every
\* path out of refreshUnsafe: the callers that joined it get their answer.
RefreshLetsGo ==
  \A t \in Tokens :
    (t \in refreshInFlight /\ ~AwaitsKeycloak(t))
      ~> (t \notin refreshInFlight \/ AwaitsKeycloak(t))

=============================================================================
