---------------------------- MODULE UserAccounts ----------------------------
(***************************************************************************)
(* The row of a user - its role and its status - with the handlers that    *)
(* write it: AdminUserService.updateRole and updateStatus, the consumer of *)
(* seller approvals (SellerRoleAssignmentService) and the handlers that    *)
(* save a whole entity they read without a lock (updateProfile,            *)
(* updateAvatar).  Each of the first three commits a transaction and only  *)
(* then mirrors the change to Keycloak, which may fail, or be overtaken.   *)
(*                                                                         *)
(* The optional expectedUpdatedAt only refuses more mutations and is left  *)
(* out, as are the sessions a mutation revokes (Sessions) and the cached   *)
(* access profile it invalidates.                                          *)
(***************************************************************************)
EXTENDS Naturals, Sequences, FiniteSets

CONSTANTS
  Users,       \* rows of the table users
  Founders,    \* the users that are ADMIN from the start
  Mutators,    \* request slots of the Admin Center
  Consumers,   \* deliveries of seller approvals in progress
  Editors,     \* request slots of updateProfile and updateAvatar
  OtherRoles,  \* the roles no rule of the code names: SUPPORT_AGENT
  MaxAudits,   \* bounds the mutations committed
  NoUser

ASSUME AccountsAssumption ==
  /\ Founders \subseteq Users /\ Founders # {} /\ NoUser \notin Users
  /\ MaxAudits \in Nat /\ Mutators \cap Consumers = {}

VARIABLES
  account,    \* users.role and users.status
  active,     \* the roles of the user's active rows in user_role_assignments
  mirror,     \* what Keycloak holds: realm roles and attribute binAccountStatus
  audits,     \* rows of user_admin_audit_logs for role and status changes
  published,  \* audits whose event reached Kafka
  request,    \* what each handler in progress has reached and remembers
  overwritten, \* history: users whose role or status an unlocked save changed
  excused     \* history: users whose mirror no audit has to account for

vars == <<account, active, mirror, audits, published, request, overwritten, excused>>

Requests == Mutators \cup Consumers \cup Editors
Role == {"CUSTOMER", "SELLER", "ADMIN"} \cup OtherRoles
Status == {"ACTIVE", "BANNED"}
Field == {"role", "status"}
Value == Role \cup Status
Account == [role : Role, status : Status]

Audit == [user : Users, syncStatus : {"PENDING", "SUCCESS", "FAILED"}]

NoAudit == 0

\* What a handler remembers where it is suspended, and what it does next.
Working ==
  [pc : {"approved"}, user : Users]     \* the consumer has read the user -> lock
  \cup
  [pc : {"locked"},                     \* in the transaction, row locked -> commit
   user : Users, read : Account, field : Field, value : Value]
  \cup
  [pc : {"unchanged"}, user : Users, field : Field]     \* read again -> mirror
  \cup
  [pc : {"remove",              \* removeRealmRole(old)   -> assign
         "assign",              \* assignRealmRole(new)   -> finishAudit
         "status"},             \* syncUserStatus(new)    -> finishAudit
   user : Users, old : Value, new : Value, audit : 0..MaxAudits]
  \cup
  [pc : {"synced", "unsynced",  \* finishAudit: SUCCESS, FAILED -> publish
         "publishing",          \* KafkaProducerService.publish -> end
         "returning"},          \* success of a retry or an approval   -> end
   user : Users, audit : 0..MaxAudits]
  \cup
  [pc : {"editing"}, user : Users, read : Account]      \* updateProfile -> save

Idle == [pc |-> "idle", user |-> NoUser]

TypeOK ==
  /\ account \in [Users -> Account]
  /\ active \in [Users -> SUBSET Role]
  /\ mirror \in [Users -> [roles : SUBSET Role, status : Status]]
  /\ audits \in Seq(Audit) /\ Len(audits) <= MaxAudits
  /\ published \subseteq DOMAIN audits
  /\ \A q \in Requests : request[q] \in Working \cup {Idle}
  /\ DOMAIN request = Requests
  /\ overwritten \subseteq Users /\ excused \subseteq Users

Init ==
  /\ account = [u \in Users |->
       [role |-> IF u \in Founders THEN "ADMIN" ELSE "CUSTOMER", status |-> "ACTIVE"]]
  /\ active = [u \in Users |-> {}]
  /\ mirror = [u \in Users |-> [roles |-> {account[u].role}, status |-> account[u].status]]
  /\ audits = <<>> /\ published = {}
  /\ request = [q \in Requests |-> Idle]
  /\ overwritten = {} /\ excused = {}

-----------------------------------------------------------------------------
tables == <<account, active, audits>>
history == <<overwritten, excused>>

At(q, pc) == request[q].pc = pc
Goto(q, pc) == request' = [request EXCEPT ![q].pc = pc]
Finish(q) == request' = [request EXCEPT ![q] = Idle]

ActiveAdmin(u) == account[u] = [role |-> "ADMIN", status |-> "ACTIVE"]
ActiveAdmins == {u \in Users : ActiveAdmin(u)}

\* Rows under FOR UPDATE: an admin's transaction locks every active admin first.
RowLocked(u) ==
  \E q \in Requests :
    At(q, "locked") /\ (request[q].user = u \/ (q \in Mutators /\ ActiveAdmin(u)))

\* A call to Keycloak is being made, or is to be made, for u.
Syncing(q, u) == request[q].pc \in {"remove", "assign", "status"} /\ request[q].user = u
Contended(q, u) == \E p \in Requests \ {q} : Syncing(p, u)
Excuse(u, when) == excused' = IF when THEN excused \cup {u} ELSE excused

-----------------------------------------------------------------------------
(* AdminUserService.updateRole and updateStatus.                           *)

\* Mutant: an ADMIN is managed like everybody else, but for the last one.
MayManageAny(u, field, value) ==
  /\ \E actor \in Users \ {u} : ActiveAdmin(actor)
  /\ (ActiveAdmin(u) /\ account[u][field] # value) => Cardinality(ActiveAdmins) > 1

\* assertAdminActor, assertTargetCanBeManaged and assertNotLastActiveAdmin.
MayManage(u, field, value) ==
  /\ \E actor \in Users \ {u} : ActiveAdmin(actor)
  /\ account[u].role # "ADMIN"
  /\ (ActiveAdmin(u) /\ account[u][field] # value) => Cardinality(ActiveAdmins) > 1

\* Mutant: the target is read without FOR UPDATE.
FreeOfAdmins(u) == \A r \in ActiveAdmins : ~RowLocked(r)

\* lockActiveAdmins, then the target.
Free(u) == \A r \in ActiveAdmins \cup {u} : ~RowLocked(r)

LockTarget(q, u, field, value) ==
  /\ request[q] = Idle /\ Free(u)
  /\ MayManage(u, field, value)
  /\ request' = [request EXCEPT ![q] =
       IF account[u][field] = value
       THEN [pc |-> "unchanged", user |-> u, field |-> field]
       ELSE [pc |-> "locked", user |-> u, read |-> account[u], field |-> field, value |-> value]]
  /\ UNCHANGED <<tables, mirror, published, history>>

StartSync(s, old, audit) ==
  [pc |-> IF s.field = "status" THEN "status" ELSE IF old = s.value THEN "assign" ELSE "remove",
   user |-> s.user, old |-> old, new |-> s.value, audit |-> audit]

\* The entity is saved, reconcilePrimaryRole runs, the audit is PENDING.
Commit(q) ==
  LET s == request[q] IN
  /\ At(q, "locked") /\ q \in Mutators /\ Len(audits) < MaxAudits
  /\ account' = [account EXCEPT ![s.user] = [s.read EXCEPT ![s.field] = s.value]]
  /\ active' = IF s.field = "role" THEN [active EXCEPT ![s.user] = {s.value}] ELSE active
  /\ audits' = Append(audits, [user |-> s.user, syncStatus |-> "PENDING"])
  /\ request' = [request EXCEPT ![q] = StartSync(s, s.read[s.field], Len(audits'))]
  /\ Excuse(s.user, Contended(q, s.user))
  /\ UNCHANGED <<mirror, published, overwritten>>

\* Nothing to change: the mirror of the user, as it is read now, is retried.
Retry(q) ==
  LET s == request[q]  stored == account[s.user][s.field] IN
  /\ At(q, "unchanged")
  /\ request' = [request EXCEPT ![q] =
       StartSync([user |-> s.user, field |-> s.field, value |-> stored], stored, NoAudit)]
  /\ Excuse(s.user, Contended(q, s.user))
  /\ UNCHANGED <<tables, mirror, published, overwritten>>

-----------------------------------------------------------------------------
(* The mirror.  A call to Keycloak that fails may have had its effect.     *)

\* Mutant: a sync is followed by finishAudit and the mail in every case.
AnsweredWithAudit(s, ok) ==
  [pc |-> IF ok THEN "synced" ELSE "unsynced", user |-> s.user, audit |-> s.audit]

\* Without an audit the outcome of a sync is only answered or logged.
Answered(s, ok) ==
  IF s.audit = NoAudit /\ (~ok \/ s.pc = "status") THEN Idle
  ELSE [pc |-> IF s.audit = NoAudit THEN "returning" ELSE IF ok THEN "synced" ELSE "unsynced",
        user |-> s.user, audit |-> s.audit]

\* A seller approval that fails to sync is only logged.
Unlogged(q, ok) == Excuse(request[q].user, q \in Consumers /\ ~ok)

\* Mutant: removeRealmRole logs its errors, as deleteUser does.
RemoveRealmRoleQuietly(q) ==
  LET s == request[q] IN
  /\ At(q, "remove")
  /\ \E done \in BOOLEAN :
       mirror' = [mirror EXCEPT ![s.user].roles = IF done THEN @ \ {s.old} ELSE @]
  /\ Goto(q, "assign")
  /\ UNCHANGED <<tables, published, history>>

RemoveRealmRole(q) ==
  LET s == request[q] IN
  /\ At(q, "remove")
  /\ \E done, ok \in BOOLEAN :
       /\ ok => done
       /\ mirror' = [mirror EXCEPT
            ![s.user].roles = IF done THEN @ \ {s.old} ELSE @]
       /\ request' = [request EXCEPT ![q] =
            IF ok THEN [s EXCEPT !.pc = "assign"] ELSE Answered(s, FALSE)]
       /\ Unlogged(q, ok)
  /\ UNCHANGED <<tables, published, overwritten>>

AssignRealmRole(q) ==
  LET s == request[q] IN
  /\ At(q, "assign")
  /\ \E done, ok \in BOOLEAN :
       /\ ok => done
       /\ mirror' = [mirror EXCEPT
            ![s.user].roles = IF done THEN @ \cup {s.new} ELSE @]
       /\ request' = [request EXCEPT ![q] = Answered(s, ok)]
       /\ Unlogged(q, ok)
  /\ UNCHANGED <<tables, published, overwritten>>

SyncUserStatus(q) ==
  LET s == request[q] IN
  /\ At(q, "status")
  /\ \E done, ok \in BOOLEAN :
       /\ ok => done
       /\ mirror' = [mirror EXCEPT ![s.user].status = IF done THEN s.new ELSE @]
       /\ request' = [request EXCEPT ![q] = Answered(s, ok)]
  /\ UNCHANGED <<tables, published, history>>

\* Mutant: a failed update of the audit is logged and forgotten.
FinishAuditQuietly(q) ==
  /\ request[q].pc \in {"synced", "unsynced"}
  /\ \/ audits' = [audits EXCEPT ![request[q].audit].syncStatus =
                     IF At(q, "synced") THEN "SUCCESS" ELSE "FAILED"]
     \/ UNCHANGED audits
  /\ Goto(q, "publishing")
  /\ UNCHANGED <<account, active, mirror, published, history>>

\* finishAudit; if the update fails the handler ends with 503 (see Fail).
FinishAudit(q) ==
  /\ request[q].pc \in {"synced", "unsynced"}
  /\ audits' = [audits EXCEPT ![request[q].audit].syncStatus =
                  IF At(q, "synced") THEN "SUCCESS" ELSE "FAILED"]
  /\ Goto(q, "publishing")
  /\ UNCHANGED <<account, active, mirror, published, history>>

\* The producer swallows its errors: the event may be lost.
Publish(q) ==
  /\ At(q, "publishing")
  /\ \/ published' = published \cup {request[q].audit}
     \/ UNCHANGED published
  /\ Finish(q)
  /\ UNCHANGED <<tables, mirror, history>>

Return(q) ==
  /\ At(q, "returning")
  /\ Finish(q)
  /\ UNCHANGED <<tables, mirror, published, history>>

-----------------------------------------------------------------------------
(* SellerRoleAssignmentService.grantApprovedSellerRole, for an event that  *)
(* Kafka may deliver any number of times and at any time.                  *)

Grantable(u) == account[u].role \in {"CUSTOMER", "SELLER"}

BeginGrant(q, u) ==
  /\ request[q] = Idle /\ Grantable(u)
  /\ request' = [request EXCEPT ![q] =
       [pc |-> "approved", user |-> u]]
  /\ UNCHANGED <<tables, mirror, published, history>>

\* Mutant: the role is not tested again under the lock.
RecheckNothing(u) == TRUE

\* The role again, now that the row is locked.
Recheck(u) == Grantable(u)

LockGrant(q) ==
  LET u == request[q].user IN
  /\ At(q, "approved") /\ ~RowLocked(u)
  /\ request' = [request EXCEPT ![q] =
       IF Recheck(u)
       THEN [pc |-> "locked", user |-> u, read |-> account[u], field |-> "role",
             value |-> "SELLER"]
       ELSE Idle]
  /\ UNCHANGED <<tables, mirror, published, history>>

\* Mutant: the assignments that were active stay so.
GrantAssignments(assigned) == assigned \cup {"SELLER"}

\* Every active assignment is turned off, then SELLER's is upserted.
Reassigned(assigned) == {"SELLER"}

CommitGrant(q) ==
  LET s == request[q] IN
  /\ At(q, "locked") /\ q \in Consumers
  /\ account' = [account EXCEPT ![s.user] = [s.read EXCEPT !.role = "SELLER"]]
  /\ active' = [active EXCEPT ![s.user] = Reassigned(@)]
  /\ request' = [request EXCEPT ![q] = StartSync(s, s.read.role, NoAudit)]
  /\ Excuse(s.user, Contended(q, s.user))
  /\ UNCHANGED <<mirror, audits, published, overwritten>>

-----------------------------------------------------------------------------
(* UserService.updateProfile and updateAvatar.                             *)

BeginEdit(q, u) ==
  /\ request[q] = Idle
  /\ request' = [request EXCEPT ![q] =
       [pc |-> "editing", user |-> u, read |-> account[u]]]
  /\ UNCHANGED <<tables, mirror, published, history>>

\* save(user) writes every column that differs from the stored row, and so the
\* role and the status that were read.
SaveEdit(q) ==
  LET s == request[q] IN
  /\ At(q, "editing") /\ ~RowLocked(s.user)
  /\ account' = [account EXCEPT ![s.user] = s.read]
  /\ overwritten' = IF account[s.user] = s.read THEN overwritten
                    ELSE overwritten \cup {s.user}
  /\ Finish(q)
  /\ UNCHANGED <<active, mirror, audits, published, excused>>

-----------------------------------------------------------------------------
(* The environment.                                                        *)

\* An await rejects outside the calls to Keycloak: a transaction rolls back, an
\* audit stays PENDING.
Fail(q) ==
  /\ request[q].pc \in {"approved", "locked", "unchanged", "synced", "unsynced",
                        "publishing", "editing"}
  /\ Finish(q)
  /\ UNCHANGED <<tables, mirror, published, history>>

\* The one replica restarts: its transactions roll back, its handlers are lost.
Restart ==
  /\ request' = [q \in Requests |-> Idle]
  /\ excused' = excused \cup {u \in Users : \E q \in Consumers : Syncing(q, u)}
  /\ UNCHANGED <<tables, mirror, published, overwritten>>

-----------------------------------------------------------------------------
SyncStep(q) ==
  RemoveRealmRole(q) \/ AssignRealmRole(q) \/ SyncUserStatus(q) \/ Return(q)

MutatorStep(q) ==
  \/ \E u \in Users :
       \/ \E r \in Role : LockTarget(q, u, "role", r)
       \/ \E s \in Status : LockTarget(q, u, "status", s)
  \/ Commit(q) \/ Retry(q) \/ FinishAudit(q) \/ Publish(q)

ConsumerStep(q) ==
  \/ \E u \in Users : BeginGrant(q, u)
  \/ LockGrant(q) \/ CommitGrant(q)

EditorStep(q) == (\E u \in Users : BeginEdit(q, u)) \/ SaveEdit(q)

Step(q) ==
  \/ q \in Mutators /\ MutatorStep(q)
  \/ q \in Consumers /\ ConsumerStep(q)
  \/ q \in Editors /\ EditorStep(q)
  \/ SyncStep(q) \/ Fail(q)

Next == (\E q \in Requests : Step(q)) \/ Restart

Spec == Init /\ [][Next]_vars

-----------------------------------------------------------------------------
(* Properties.                                                             *)

\* The Admin Center can always be entered: whatever mutations, approvals, stale
\* saves and crashes interleave, some ADMIN is ACTIVE.  It rests on the rule that
\* no ADMIN is ever a target, not on the count of active admins: an admin that is
\* counted may lose its role to a stale save.
SomeActiveAdmin == ActiveAdmins # {}

\* seller-role-assignment.service.ts:49-56, 76-86: a delayed or
\* repeated approval never takes its role away from an ADMIN or a SUPPORT_AGENT,
\* even if the user was promoted after the consumer had read the row.
ApprovalSparesStaff ==
  [][\A q \in Consumers : \A u \in Users :
       (At(q, "locked") /\ request[q].user = u /\ ~Grantable(u))
         => account'[u].role = account[u].role]_vars

\* Two transactions never work from the same stale entity: a step that is not an
\* unlocked save changes the role or the status of a user, never both.
OneFieldAtATime ==
  [][\A u \in Users :
       (/\ account'[u].role # account[u].role
        /\ account'[u].status # account[u].status)
         => u \in overwritten']_vars

\* README.md:571, "exactly one active seller assignment": the active assignment
\* is the one of the role stored with the user, unless a stale save has reverted
\* that role.
AssignmentFollowsRole ==
  \A u \in Users \ overwritten : active[u] \in {{}, {account[u].role}}

\* The mail about a change goes out only after its audit says how the sync ended.
MailFollowsAudit == \A i \in published : audits[i].syncStatus # "PENDING"

\* admin-user.service.ts:171, the audits make the gap between database and
\* Keycloak visible: when nothing is in progress for a user and every audit says
\* SUCCESS, Keycloak holds the stored role alone and the stored status.  This is
\* true as long as two syncs of the user never overlapped, no approval failed
\* to sync (it has no audit) and no stale save reverted the row.
GapIsVisible ==
  \A u \in Users \ (excused \cup overwritten) :
    (/\ \A q \in Requests : request[q].user # u
     /\ \A i \in DOMAIN audits : audits[i].user = u => audits[i].syncStatus = "SUCCESS")
      => mirror[u] = [roles |-> {account[u].role}, status |-> account[u].status]

\* admin-user.service.ts:589, "the target is locked in the transaction, so after
\* the check the mutation is not silently overwritten": no committed role or
\* status is reverted by a handler that read the user before the commit.
NotOverwritten == overwritten = {}

\* admin-user.service.ts:183, an unchanged mutation retries the mirror that failed:
\* when the retry of a role succeeds, Keycloak holds that role alone.
RetryRepairs ==
  \A q \in Mutators : At(q, "returning") =>
    mirror[request[q].user].roles = {account[request[q].user].role}
=============================================================================
