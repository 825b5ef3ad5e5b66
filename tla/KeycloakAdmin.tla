--------------------------- MODULE KeycloakAdmin ---------------------------
(***************************************************************************)
(* KeycloakAdminService: the admin token it keeps in memory, and           *)
(* assignRealmRole, which finds or creates the realm role with that token. *)
(* An operation takes its token once and uses it for every request it      *)
(* makes; Keycloak refuses a request whose token has run out.              *)
(*                                                                         *)
(* Time is counted in steps of any length.  The other operations make one  *)
(* or two requests after they took the token, like those below.            *)
(***************************************************************************)
EXTENDS Integers

CONSTANTS
  Requests,   \* operations that run at a time
  Roles,      \* realm roles
  Lifetime,   \* expires_in of a token
  Buffer,     \* the 30 s taken off
  MaxTime     \* bounds the clock

VARIABLES
  now,
  cached,       \* cachedToken, by the moments of its issue and of its arrival
  realmRoles,   \* the roles the realm has
  operation     \* what each operation has reached and remembers

vars == <<now, cached, realmRoles, operation>>

Time == 0..MaxTime

\* issued, received: of the token; a token is known by them.
Token == [issued : Time, received : Time]

\* cachedToken = null, tokenExpiresAt = 0.
NoToken == [issued |-> -1, received |-> -1]

PC == {"idle",
       "fetching",    \* the token endpoint was asked
       "issued",      \* Keycloak has made the token     -> keep it
       "finding",     \* GET of the role
       "creating",    \* POST of the role
       "rereading",   \* GET of the role, now that it exists
       "mapping",     \* POST of the user's mapping
       "refused",     \* 401: the token has run out      -> throw
       "missing"}     \* no role to map                  -> throw

Operation == [pc : PC, role : Roles \cup {"none"}, token : Token \cup {NoToken},
              taken : Time]   \* history: when the token was taken

Idle == [pc |-> "idle", role |-> "none", token |-> NoToken, taken |-> 0]

AdminTypeOK ==
  /\ now \in Time
  /\ cached \in Token \cup {NoToken}
  /\ realmRoles \subseteq Roles
  /\ operation \in [Requests -> Operation]

Init ==
  /\ now = 0
  /\ cached = NoToken
  /\ realmRoles \in SUBSET Roles
  /\ operation = [q \in Requests |-> Idle]

-----------------------------------------------------------------------------
At(q, pc) == operation[q].pc = pc
Goto(q, pc) == operation' = [operation EXCEPT ![q].pc = pc]

\* Mutant: the token is kept for all of its lifetime.
TokenExpiresAtItsEnd(t) == t.received + Lifetime

\* tokenExpiresAt, counted from the arrival of the token.
TokenExpiresAt(t) == t.received + Lifetime - Buffer

\* When Keycloak stops to accept it.
RunsOut(t) == t.issued + Lifetime

\* getAdminToken.
BeginAssign(q, r) ==
  /\ operation[q] = Idle
  /\ operation' = [operation EXCEPT ![q] =
       IF cached # NoToken /\ now < TokenExpiresAt(cached)
       THEN [pc |-> "finding", role |-> r, token |-> cached, taken |-> now]
       ELSE [pc |-> "fetching", role |-> r, token |-> NoToken, taken |-> now]]
  /\ UNCHANGED <<now, cached, realmRoles>>

IssueToken(q) ==
  /\ At(q, "fetching")
  /\ operation' = [operation EXCEPT ![q].pc = "issued", ![q].token =
       [issued |-> now, received |-> now]]
  /\ UNCHANGED <<now, cached, realmRoles>>

\* The answer: whatever another operation has kept meanwhile is replaced.
KeepToken(q) ==
  LET t == [operation[q].token EXCEPT !.received = now] IN
  /\ At(q, "issued")
  /\ cached' = t
  /\ operation' = [operation EXCEPT
       ![q].pc = "finding", ![q].token = t, ![q].taken = now]
  /\ UNCHANGED <<now, realmRoles>>

-----------------------------------------------------------------------------
(* The requests of assignRealmRole.  Keycloak may fail any of them, with or *)
(* without effect.                                                          *)

Accepted(q) == now < RunsOut(operation[q].token)

Refuse(q) ==
  /\ operation[q].pc \in {"finding", "creating", "rereading", "mapping"} /\ ~Accepted(q)
  /\ Goto(q, "refused")
  /\ UNCHANGED <<now, cached, realmRoles>>

FindRealmRole(q) ==
  /\ At(q, "finding") /\ Accepted(q)
  /\ Goto(q, IF operation[q].role \in realmRoles THEN "mapping" ELSE "creating")
  /\ UNCHANGED <<now, cached, realmRoles>>

\* Mutant: 409 is an error like any other.
CreatedOnly(q) == IF operation[q].role \in realmRoles THEN "missing" ELSE "rereading"

\* 201, or 409 when another operation has made the role: it is read again.
Created(q) == "rereading"

CreateRealmRole(q) ==
  /\ At(q, "creating") /\ Accepted(q)
  /\ Goto(q, Created(q))
  /\ realmRoles' = realmRoles \cup {operation[q].role}
  /\ UNCHANGED <<now, cached>>

RereadRealmRole(q) ==
  /\ At(q, "rereading") /\ Accepted(q)
  /\ Goto(q, IF operation[q].role \in realmRoles THEN "mapping" ELSE "missing")
  /\ UNCHANGED <<now, cached, realmRoles>>

AddMapping(q) ==
  /\ At(q, "mapping") /\ Accepted(q)
  /\ operation' = [operation EXCEPT ![q] = Idle]
  /\ UNCHANGED <<now, cached, realmRoles>>

\* The operation throws; an error of Keycloak, which may have made the role.
Throw(q) ==
  /\ ~At(q, "idle")
  /\ operation' = [operation EXCEPT ![q] = Idle]
  /\ realmRoles' \in {realmRoles} \cup
       {realmRoles \cup {r} : r \in {s \in Roles : At(q, "creating") /\ s = operation[q].role}}
  /\ UNCHANGED <<now, cached>>

-----------------------------------------------------------------------------
Tick ==
  /\ now < MaxTime
  /\ now' = now + 1
  /\ UNCHANGED <<cached, realmRoles, operation>>

Restart ==
  /\ cached' = NoToken
  /\ operation' = [q \in Requests |-> Idle]
  /\ UNCHANGED <<now, realmRoles>>

Next ==
  \/ \E q \in Requests :
       \/ \E r \in Roles : BeginAssign(q, r)
       \/ IssueToken(q) \/ KeepToken(q) \/ Refuse(q)
       \/ FindRealmRole(q) \/ CreateRealmRole(q) \/ RereadRealmRole(q) \/ AddMapping(q)
       \/ Throw(q)
  \/ Tick \/ Restart

Spec == Init /\ [][Next]_vars

-----------------------------------------------------------------------------
(* Properties.                                                             *)

\* keycloak-admin.service.ts:59, "a buffer of 30 seconds, so that the token is
\* valid whenever it is used": Keycloak refuses an operation for its token only
\* if the delay of the answer that brought the token and the time since the
\* operation took it are together longer than the buffer, whoever fetched it.
BufferCoversDelay ==
  \A q \in Requests : At(q, "refused") =>
    LET s == operation[q] IN
    (s.token.received - s.token.issued) + (now - s.taken) > Buffer

\* keycloak-admin.service.ts:177, "if another request has just made the role, read
\* it again instead of reporting a false error": no race of operations that need
\* the same role leaves one of them without it.
NoRoleMissing == \A q \in Requests : ~At(q, "missing")
=============================================================================
