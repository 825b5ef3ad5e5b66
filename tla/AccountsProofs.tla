--------------------------- MODULE AccountsProofs ---------------------------
(***************************************************************************)
(* Theorems about UserAccounts, for any number of users, of mutations,     *)
(* approvals and edits in progress, and of audits.                         *)
(***************************************************************************)
EXTENDS UserAccounts, TLAPS

-----------------------------------------------------------------------------
(* The shapes of what a handler remembers: pc determines them.             *)

Locked == [pc : {"locked"}, user : Users, read : Account, field : Field, value : Value]
Unchanged == [pc : {"unchanged"}, user : Users, field : Field]
Sync == [pc : {"remove", "assign", "status"}, user : Users, old : Value, new : Value,
         audit : 0..MaxAudits]
Ended == [pc : {"synced", "unsynced", "publishing", "returning"}, user : Users,
          audit : 0..MaxAudits]
Editing == [pc : {"editing"}, user : Users, read : Account]

\* pc says which of the shapes a handler has.
LEMMA Shapes ==
  ASSUME NEW s \in Working \cup {Idle}
  PROVE  /\ s.pc = "idle" => s = Idle
         /\ s.pc = "approved" => s.user \in Users
         /\ s.pc = "locked" => s \in Locked
         /\ s.pc = "unchanged" => s \in Unchanged
         /\ s.pc \in {"remove", "assign", "status"} => s \in Sync
         /\ s.pc \in {"synced", "unsynced", "publishing", "returning"} => s \in Ended
         /\ s.pc = "editing" => s \in Editing
  BY DEF Working, Idle, Locked, Unchanged, Sync, Ended, Editing

\* A handler that is not idle has one of the records of Working.
LEMMA Worked ==
  /\ Locked \subseteq Working /\ Unchanged \subseteq Working /\ Sync \subseteq Working
  /\ Ended \subseteq Working /\ Editing \subseteq Working
  BY DEF Working, Locked, Unchanged, Sync, Ended, Editing

\* The values of a role mutation are roles, those of a status mutation statuses.
ValuesFit ==
  \A q \in Requests :
    /\ At(q, "locked") =>
         /\ request[q].field = "role" => request[q].value \in Role
         /\ request[q].field = "status" => request[q].value \in Status
         /\ q \in Consumers => request[q].field = "role" /\ request[q].value = "SELLER"
    /\ request[q].pc \in {"remove", "assign"} =>
         request[q].old \in Role /\ request[q].new \in Role
    /\ At(q, "status") => request[q].new \in Status

\* The audit of a handler: of its user, held by no other handler, and PENDING until
\* finishAudit.  An approval has none; the retry of a role only assigns.
WithAudit(q) ==
  /\ request[q].pc \in {"remove", "assign", "status", "synced", "unsynced", "publishing"}
  /\ request[q].audit # NoAudit

AuditsHeld ==
  /\ \A q \in Requests :
       /\ request[q].pc \in {"synced", "unsynced", "publishing"} => WithAudit(q)
       /\ WithAudit(q) =>
            /\ request[q].audit \in DOMAIN audits
            /\ audits[request[q].audit].user = request[q].user
            /\ (audits[request[q].audit].syncStatus = "PENDING") <=> ~At(q, "publishing")
       /\ At(q, "remove") => q \in Consumers \/ WithAudit(q)
  /\ \A p, q \in Requests :
       (WithAudit(p) /\ WithAudit(q) /\ request[p].audit = request[q].audit) => p = q

-----------------------------------------------------------------------------
(* TypeOK and ValuesFit are preserved.                                     *)

\* Only q's record changes: the types of the others are as before.
LEMMA RequestFrame ==
  ASSUME TypeOK, ValuesFit, NEW q \in Requests, NEW s \in Working \cup {Idle},
         request' = [request EXCEPT ![q] = s],
         s.pc = "locked" =>
           /\ s.field = "role" => s.value \in Role
           /\ s.field = "status" => s.value \in Status
           /\ q \in Consumers => s.field = "role" /\ s.value = "SELLER",
         s.pc \in {"remove", "assign"} => s.old \in Role /\ s.new \in Role,
         s.pc = "status" => s.new \in Status
  PROVE  /\ DOMAIN request' = Requests
         /\ \A p \in Requests : request'[p] \in Working \cup {Idle}
         /\ ValuesFit'
<1>1. DOMAIN request' = Requests /\ request'[q] = s
  BY DEF TypeOK
<1>2. \A p \in Requests \ {q} : request'[p] = request[p]
  BY DEF TypeOK
<1>3. \A p \in Requests : request'[p] \in Working \cup {Idle}
  BY <1>1, <1>2 DEF TypeOK
<1>4. ValuesFit'
  BY <1>1, <1>2 DEF ValuesFit, At
<1>5. QED
  BY <1>1, <1>3, <1>4

\* A handler that ends.
LEMMA IdleFrame ==
  ASSUME TypeOK, ValuesFit, NEW q \in Requests, Finish(q)
  PROVE  /\ DOMAIN request' = Requests
         /\ \A p \in Requests : request'[p] \in Working \cup {Idle}
         /\ ValuesFit'
<1>1. Idle \in Working \cup {Idle} /\ Idle.pc = "idle"
  BY DEF Idle
<1>2. request' = [request EXCEPT ![q] = Idle]
  BY DEF Finish
<1>3. QED
  BY <1>1, <1>2, RequestFrame

\* The record of a mirror call that is about to start.
LEMMA Started ==
  ASSUME NEW s, NEW old \in Value, NEW audit \in 0..MaxAudits,
         s.user \in Users, s.value \in Value
  PROVE  LET n == StartSync(s, old, audit) IN
         /\ n \in Sync
         /\ n.user = s.user /\ n.old = old /\ n.new = s.value /\ n.audit = audit
         /\ n.pc = IF s.field = "status" THEN "status"
                   ELSE IF old = s.value THEN "assign" ELSE "remove"
  BY DEF StartSync, Sync

\* The record of a mirror call that has ended.
LEMMA AnsweredShape ==
  ASSUME NEW s \in Sync, NEW ok \in BOOLEAN
  PROVE  /\ Answered(s, ok) \in Working \cup {Idle}
         /\ Answered(s, ok).pc \in {"idle", "returning", "synced", "unsynced"}
  BY Worked DEF Answered, Sync, Ended, Idle, NoAudit

\* One step of a handler, but for those that commit.
LEMMA HandlerTypes ==
  ASSUME TypeOK, ValuesFit, NEW q \in Requests, Step(q), ~Commit(q), ~CommitGrant(q),
         ~SaveEdit(q), ~FinishAudit(q)
  PROVE  /\ DOMAIN request' = Requests
         /\ \A p \in Requests : request'[p] \in Working \cup {Idle}
         /\ ValuesFit'
<1> DEFINE Goal ==
      /\ DOMAIN request' = Requests
      /\ \A p \in Requests : request'[p] \in Working \cup {Idle}
      /\ ValuesFit'
<1> SUFFICES Goal
  OBVIOUS
<1>0. request[q] \in Working \cup {Idle}
  BY DEF TypeOK
<1>1. ASSUME NEW u \in Users, NEW f \in Field, NEW w \in Value, LockTarget(q, u, f, w),
             q \in Mutators, f = "role" => w \in Role, f = "status" => w \in Status
      PROVE  Goal
  <2>1. CASE account[u][f] = w
    <3> DEFINE n == [pc |-> "unchanged", user |-> u, field |-> f]
    <3>1. n \in Working \cup {Idle} /\ n.pc = "unchanged"
      BY Worked DEF Unchanged
    <3>2. request' = [request EXCEPT ![q] = n]
      BY <1>1, <2>1 DEF LockTarget
    <3> HIDE DEF n
    <3>3. QED
      BY <3>1, <3>2, RequestFrame
  <2>2. CASE account[u][f] # w
    <3> DEFINE n == [pc |-> "locked", user |-> u, read |-> account[u], field |-> f, value |-> w]
    <3>1. /\ n \in Working \cup {Idle} /\ n.pc = "locked"
          /\ n.field = f /\ n.value = w
      BY Worked DEF Locked, TypeOK
    <3>2. request' = [request EXCEPT ![q] = n]
      BY <1>1, <2>2 DEF LockTarget
    <3>3. q \notin Consumers
      BY <1>1, AccountsAssumption
    <3> HIDE DEF n
    <3>4. QED
      BY <1>1, <3>1, <3>2, <3>3, RequestFrame
  <2>3. QED
    BY <2>1, <2>2
<1>2. CASE Retry(q)
  <2> DEFINE s == request[q]
             stored == account[s.user][s.field]
             r == [user |-> s.user, field |-> s.field, value |-> stored]
             n == StartSync(r, stored, NoAudit)
  <2>1. s \in Unchanged
    BY <1>0, <1>2, Shapes DEF Retry, At
  <2>2. /\ stored \in Value
        /\ s.field = "role" => stored \in Role
        /\ s.field = "status" => stored \in Status
        /\ s.field \in {"role", "status"}
    BY <2>1 DEF Unchanged, TypeOK, Account, Field, Value
  <2>3. r.user \in Users /\ r.value = stored /\ r.field = s.field
    BY <2>1 DEF Unchanged
  <2>4. NoAudit \in 0..MaxAudits
    BY AccountsAssumption DEF NoAudit
  <2>5. request' = [request EXCEPT ![q] = n]
    BY <1>2 DEF Retry
  <2> HIDE DEF r, s, stored
  <2>6. /\ n \in Sync /\ n.old = stored /\ n.new = stored
        /\ n.pc = IF s.field = "status" THEN "status" ELSE "assign"
    BY <2>2, <2>3, <2>4, Started
  <2> HIDE DEF n
  <2>7. n \in Working \cup {Idle}
    BY <2>6, Worked
  <2>8. QED
    BY <2>2, <2>5, <2>6, <2>7, RequestFrame
<1>3. CASE RemoveRealmRole(q)
  <2>1. request[q] \in Sync /\ At(q, "remove")
    BY <1>0, <1>3, Shapes DEF RemoveRealmRole, At
  <2> DEFINE n == [request[q] EXCEPT !.pc = "assign"]
  <2>2. n \in Sync /\ n.pc = "assign" /\ n.old = request[q].old /\ n.new = request[q].new
    BY <2>1 DEF Sync
  <2>3. \/ request' = [request EXCEPT ![q] = n]
        \/ request' = [request EXCEPT ![q] = Answered(request[q], FALSE)]
    BY <1>3 DEF RemoveRealmRole
  <2>4. n.old \in Role /\ n.new \in Role
    BY <2>1, <2>2 DEF ValuesFit, At
  <2> HIDE DEF n
  <2>5. n \in Working \cup {Idle}
    BY <2>2, Worked
  <2>6. CASE request' = [request EXCEPT ![q] = n]
    BY <2>2, <2>4, <2>5, <2>6, RequestFrame
  <2>7. CASE request' = [request EXCEPT ![q] = Answered(request[q], FALSE)]
    <3>1. /\ Answered(request[q], FALSE) \in Working \cup {Idle}
          /\ Answered(request[q], FALSE).pc \in {"idle", "returning", "synced", "unsynced"}
      BY <2>1, AnsweredShape
    <3>2. QED
      BY <2>7, <3>1, RequestFrame
  <2>8. QED
    BY <2>3, <2>6, <2>7
<1>4. CASE AssignRealmRole(q) \/ SyncUserStatus(q)
  <2>1. request[q] \in Sync
    BY <1>0, <1>4, Shapes DEF AssignRealmRole, SyncUserStatus, At
  <2>2. PICK ok \in BOOLEAN : request' = [request EXCEPT ![q] = Answered(request[q], ok)]
    BY <1>4 DEF AssignRealmRole, SyncUserStatus
  <2>3. /\ Answered(request[q], ok) \in Working \cup {Idle}
        /\ Answered(request[q], ok).pc \in {"idle", "returning", "synced", "unsynced"}
    BY <2>1, AnsweredShape
  <2>4. QED
    BY <2>2, <2>3, RequestFrame
<1>5. CASE Return(q) \/ Publish(q) \/ Fail(q)
  BY <1>5, IdleFrame DEF Return, Publish, Fail
<1>6. ASSUME NEW u \in Users, BeginGrant(q, u) PROVE Goal
  <2> DEFINE n == [pc |-> "approved", user |-> u]
  <2>1. n \in Working \cup {Idle} /\ n.pc = "approved"
    BY DEF Working
  <2>2. request' = [request EXCEPT ![q] = n]
    BY <1>6 DEF BeginGrant
  <2> HIDE DEF n
  <2>3. QED
    BY <2>1, <2>2, RequestFrame
<1>7. CASE LockGrant(q)
  <2> DEFINE u == request[q].user
             n == [pc |-> "locked", user |-> u, read |-> account[u], field |-> "role",
                   value |-> "SELLER"]
  <2>1. u \in Users
    BY <1>0, <1>7, Shapes DEF LockGrant, At
  <2>2. /\ n \in Working \cup {Idle} /\ n.pc = "locked" /\ n.field = "role"
        /\ n.value = "SELLER" /\ n.value \in Role
    BY <2>1, Worked DEF Locked, TypeOK, Field, Value, Role
  <2>3. request' = [request EXCEPT ![q] = n] \/ request' = [request EXCEPT ![q] = Idle]
    BY <1>7 DEF LockGrant
  <2> HIDE DEF n
  <2>4. CASE request' = [request EXCEPT ![q] = n]
    BY <2>2, <2>4, RequestFrame
  <2>5. CASE request' = [request EXCEPT ![q] = Idle]
    BY <2>5, IdleFrame DEF Finish
  <2>6. QED
    BY <2>3, <2>4, <2>5
<1>8. ASSUME NEW u \in Users, BeginEdit(q, u) PROVE Goal
  <2> DEFINE n == [pc |-> "editing", user |-> u, read |-> account[u]]
  <2>1. n \in Working \cup {Idle} /\ n.pc = "editing"
    BY Worked DEF Editing, TypeOK
  <2>2. request' = [request EXCEPT ![q] = n]
    BY <1>8 DEF BeginEdit
  <2> HIDE DEF n
  <2>3. QED
    BY <2>1, <2>2, RequestFrame
<1> HIDE DEF Goal
<1>9. CASE q \in Mutators /\ MutatorStep(q)
  <2>1. "role" \in Field /\ "status" \in Field /\ Role \subseteq Value /\ Status \subseteq Value
    BY DEF Field, Value
  <2>2. QED
    BY <1>1, <1>2, <1>5, <1>9, <2>1 DEF MutatorStep
<1>10. CASE q \in Consumers /\ ConsumerStep(q)
  BY <1>6, <1>7, <1>10 DEF ConsumerStep
<1>11. CASE q \in Editors /\ EditorStep(q)
  BY <1>8, <1>11 DEF EditorStep
<1>12. CASE SyncStep(q) \/ Fail(q)
  BY <1>3, <1>4, <1>5, <1>12 DEF SyncStep
<1>13. QED
  BY <1>9, <1>10, <1>11, <1>12 DEF Step

\* What the two transactions do, and the record they leave.
LEMMA CommitEffect ==
  ASSUME TypeOK, ValuesFit, NEW q \in Requests, Commit(q)
  PROVE  LET s == request[q]  n == request'[q] IN
         /\ s \in Locked /\ q \notin Consumers /\ n \in Sync
         /\ request' = [request EXCEPT ![q] = n]
         /\ n.user = s.user /\ n.old = s.read[s.field] /\ n.new = s.value
         /\ n.audit = Len(audits) + 1
         /\ s.field = "status" => n.pc = "status" /\ n.new \in Status
         /\ s.field = "role" =>
              /\ n.pc = IF n.old = n.new THEN "assign" ELSE "remove"
              /\ n.old \in Role /\ n.new \in Role
         /\ s.field \in {"role", "status"}
<1> DEFINE s == request[q]
           n == StartSync(s, s.read[s.field], Len(audits'))
<1>1. s \in Locked /\ At(q, "locked") /\ q \in Mutators /\ q \notin Consumers
  BY Shapes, AccountsAssumption DEF Commit, At, TypeOK
<1>2. /\ s.read[s.field] \in Value /\ s.field \in {"role", "status"}
      /\ s.field = "role" => s.read[s.field] \in Role
      /\ s.user \in Users /\ s.value \in Value
  BY <1>1 DEF Locked, Account, Field, Value
<1>3. Len(audits') = Len(audits) + 1 /\ Len(audits') \in 0..MaxAudits
  BY AccountsAssumption DEF Commit, TypeOK
<1>4. request' = [request EXCEPT ![q] = n] /\ request'[q] = n
  BY DEF Commit, TypeOK
<1>5. /\ s.field = "role" => s.value \in Role
      /\ s.field = "status" => s.value \in Status
  BY <1>1 DEF ValuesFit
<1> HIDE DEF s
<1>6. /\ n \in Sync
      /\ n.user = s.user /\ n.old = s.read[s.field] /\ n.new = s.value
      /\ n.audit = Len(audits')
      /\ n.pc = IF s.field = "status" THEN "status"
                ELSE IF s.read[s.field] = s.value THEN "assign" ELSE "remove"
  BY <1>2, <1>3, Started
<1> HIDE DEF n
<1>7. QED
  BY <1>1, <1>2, <1>3, <1>4, <1>5, <1>6 DEF s

\* The same for an approval: no audit, always the role.
LEMMA CommitGrantEffect ==
  ASSUME TypeOK, ValuesFit, NEW q \in Requests, CommitGrant(q)
  PROVE  LET s == request[q]  n == request'[q] IN
         /\ s \in Locked /\ n \in Sync /\ s.field = "role" /\ s.value = "SELLER"
         /\ request' = [request EXCEPT ![q] = n]
         /\ n.user = s.user /\ n.old = s.read.role /\ n.new = "SELLER"
         /\ n.audit = NoAudit
         /\ n.pc = IF n.old = n.new THEN "assign" ELSE "remove"
         /\ n.old \in Role /\ n.new \in Role
<1> DEFINE s == request[q]
           n == StartSync(s, s.read.role, NoAudit)
<1>1. s \in Locked /\ At(q, "locked") /\ q \in Consumers
  BY Shapes DEF CommitGrant, At, TypeOK
<1>2. s.field = "role" /\ s.value = "SELLER"
  BY <1>1 DEF ValuesFit
<1>3. /\ s.read.role \in Role /\ s.read.role \in Value /\ s.value \in Value /\ s.value \in Role
      /\ s.user \in Users /\ NoAudit \in 0..MaxAudits
  BY <1>1, <1>2, AccountsAssumption DEF Locked, Account, Value, Role, NoAudit
<1>4. request' = [request EXCEPT ![q] = n] /\ request'[q] = n
  BY DEF CommitGrant, TypeOK
<1> HIDE DEF s
<1>5. /\ n \in Sync
      /\ n.user = s.user /\ n.old = s.read.role /\ n.new = s.value
      /\ n.audit = NoAudit
      /\ n.pc = IF s.field = "status" THEN "status"
                ELSE IF s.read.role = s.value THEN "assign" ELSE "remove"
  BY <1>3, Started
<1> HIDE DEF n
<1>6. QED
  BY <1>1, <1>2, <1>3, <1>4, <1>5 DEF s

\* The handler goes on to publish, with the audit it finished.
LEMMA FinishAuditEffect ==
  ASSUME TypeOK, NEW q \in Requests, FinishAudit(q)
  PROVE  LET s == request[q]  n == request'[q] IN
         /\ s \in Ended /\ s.pc \in {"synced", "unsynced"} /\ n \in Ended
         /\ request' = [request EXCEPT ![q] = n]
         /\ n.pc = "publishing" /\ n.user = s.user /\ n.audit = s.audit
<1> DEFINE s == request[q]
           n == [s EXCEPT !.pc = "publishing"]
<1>1. s \in Ended /\ s.pc \in {"synced", "unsynced"}
  BY Shapes DEF FinishAudit, TypeOK
<1>2. n \in Ended /\ n.pc = "publishing" /\ n.user = s.user /\ n.audit = s.audit
  BY <1>1 DEF Ended
<1>3. request' = [request EXCEPT ![q] = n] /\ request'[q] = n
  BY DEF FinishAudit, Goto, TypeOK
<1> HIDE DEF n, s
<1>4. QED
  BY <1>1, <1>2, <1>3 DEF s

MirrorTypes == [Users -> [roles : SUBSET Role, status : Status]]

\* The two ways Keycloak is written.
LEMMA MirrorRoles ==
  ASSUME TypeOK, NEW u \in Users, NEW R \in SUBSET Role
  PROVE  [mirror EXCEPT ![u].roles = R] \in MirrorTypes
<1>1. [mirror[u] EXCEPT !.roles = R] \in [roles : SUBSET Role, status : Status]
  BY DEF TypeOK
<1>2. QED
  BY <1>1 DEF TypeOK, MirrorTypes

\* Enabling or disabling a user in Keycloak keeps the type of the mirror.
LEMMA MirrorStatus ==
  ASSUME TypeOK, NEW u \in Users, NEW st \in Status
  PROVE  [mirror EXCEPT ![u].status = st] \in MirrorTypes
<1>1. [mirror[u] EXCEPT !.status = st] \in [roles : SUBSET Role, status : Status]
  BY DEF TypeOK
<1>2. QED
  BY <1>1 DEF TypeOK, MirrorTypes

\* Every step keeps the types; publish needs that its audit exists.
LEMMA TypeStep ==
  TypeOK /\ ValuesFit /\ AuditsHeld /\ [Next]_vars => TypeOK' /\ ValuesFit'
<1> SUFFICES ASSUME TypeOK, ValuesFit, AuditsHeld, [Next]_vars PROVE TypeOK' /\ ValuesFit'
  OBVIOUS
<1> DEFINE RequestsOK ==
      /\ DOMAIN request' = Requests
      /\ \A p \in Requests : request'[p] \in Working \cup {Idle}
      /\ ValuesFit'
<1>1. ASSUME NEW q \in Requests, Commit(q) PROVE TypeOK' /\ ValuesFit'
  <2> DEFINE s == request[q]  n == request'[q]
  <2>1. /\ s \in Locked /\ q \notin Consumers /\ n \in Sync
        /\ request' = [request EXCEPT ![q] = n]
        /\ s.field = "status" => n.pc = "status" /\ n.new \in Status
        /\ s.field = "role" =>
             n.pc \in {"assign", "remove"} /\ n.old \in Role /\ n.new \in Role
        /\ s.field \in {"role", "status"}
    BY <1>1, CommitEffect
  <2>2. RequestsOK
    <3>1. n \in Working \cup {Idle} /\ n.pc # "locked"
      BY <2>1, Worked
    <3> HIDE DEF n
    <3>2. QED
      BY <2>1, <3>1, RequestFrame
  <2>3. account' \in [Users -> Account]
    <3>1. /\ s.field = "role" => s.value \in Role
          /\ s.field = "status" => s.value \in Status
      BY <1>1 DEF ValuesFit, Commit
    <3>2. [s.read EXCEPT ![s.field] = s.value] \in Account
      BY <2>1, <3>1 DEF Locked, Account
    <3>3. QED
      BY <1>1, <3>2 DEF Commit, TypeOK
  <2>4. active' \in [Users -> SUBSET Role]
    BY <1>1, <2>1 DEF Commit, TypeOK, ValuesFit
  <2>5. /\ audits' \in Seq(Audit) /\ Len(audits') <= MaxAudits
        /\ DOMAIN audits \subseteq DOMAIN audits'
    <3>1. [user |-> s.user, syncStatus |-> "PENDING"] \in Audit
      BY <2>1 DEF Locked, Audit
    <3>2. QED
      BY <1>1, <3>1, AccountsAssumption DEF Commit, TypeOK
  <2>6. excused' \subseteq Users
    BY <1>1, <2>1 DEF Commit, Excuse, TypeOK, Locked
  <2>7. QED
    BY <1>1, <2>2, <2>3, <2>4, <2>5, <2>6 DEF Commit, TypeOK
<1>2. ASSUME NEW q \in Requests, CommitGrant(q) PROVE TypeOK' /\ ValuesFit'
  <2> DEFINE s == request[q]  n == request'[q]
  <2>1. /\ s \in Locked /\ n \in Sync /\ request' = [request EXCEPT ![q] = n]
        /\ n.pc \in {"assign", "remove"} /\ n.old \in Role /\ n.new \in Role
    BY <1>2, CommitGrantEffect
  <2>2. RequestsOK
    <3>1. n \in Working \cup {Idle} /\ n.pc # "locked"
      BY <2>1, Worked
    <3> HIDE DEF n
    <3>2. QED
      BY <2>1, <3>1, RequestFrame
  <2>3. account' \in [Users -> Account]
    <3>1. [s.read EXCEPT !.role = "SELLER"] \in Account
      BY <2>1 DEF Locked, Account, Role
    <3>2. QED
      BY <1>2, <3>1 DEF CommitGrant, TypeOK
  <2>4. active' \in [Users -> SUBSET Role]
    BY <1>2, <2>1 DEF CommitGrant, TypeOK, Reassigned, Role
  <2>5. excused' \subseteq Users
    BY <1>2, <2>1 DEF CommitGrant, Excuse, TypeOK, Locked
  <2>6. QED
    BY <1>2, <2>2, <2>3, <2>4, <2>5 DEF CommitGrant, TypeOK
<1>3. ASSUME NEW q \in Requests, SaveEdit(q) PROVE TypeOK' /\ ValuesFit'
  <2>1. request[q] \in Editing
    BY <1>3, Shapes DEF SaveEdit, At, TypeOK
  <2>2. account' \in [Users -> Account] /\ overwritten' \subseteq Users
    BY <1>3, <2>1 DEF SaveEdit, TypeOK, Editing
  <2>3. QED
    BY <1>3, <2>2, IdleFrame DEF SaveEdit, TypeOK
<1>4. ASSUME NEW q \in Requests, FinishAudit(q) PROVE TypeOK' /\ ValuesFit'
  <2> DEFINE n == request'[q]
  <2>1. n \in Ended /\ n.pc = "publishing" /\ request' = [request EXCEPT ![q] = n]
    BY <1>4, FinishAuditEffect
  <2>2. RequestsOK
    <3>1. n \in Working \cup {Idle}
      BY <2>1, Worked
    <3> HIDE DEF n
    <3>2. QED
      BY <2>1, <3>1, RequestFrame
  <2>3. /\ audits' \in Seq(Audit) /\ Len(audits') = Len(audits)
        /\ DOMAIN audits' = DOMAIN audits
    <3> DEFINE k == request[q].audit
    <3>1. Len(audits) \in Nat /\ audits \in [1..Len(audits) -> Audit]
      BY DEF TypeOK
    <3>2. PICK o \in {"SUCCESS", "FAILED"} : audits' = [audits EXCEPT ![k].syncStatus = o]
      BY <1>4 DEF FinishAudit
    <3> HIDE DEF k
    <3>3. audits' \in [1..Len(audits) -> Audit]
      BY <3>1, <3>2 DEF Audit
    <3>4. QED
      BY <3>1, <3>3
  <2>4. QED
    BY <1>4, <2>2, <2>3 DEF FinishAudit, TypeOK, history
<1>5. ASSUME NEW q \in Requests, Step(q), ~Commit(q), ~CommitGrant(q), ~SaveEdit(q),
             ~FinishAudit(q)
      PROVE  TypeOK' /\ ValuesFit'
  <2>1. RequestsOK
    BY <1>5, HandlerTypes
  <2>2. account' = account /\ active' = active /\ audits' = audits /\ overwritten' = overwritten
    BY <1>5
    DEF Step, MutatorStep, ConsumerStep, EditorStep, SyncStep, LockTarget, Retry, Publish,
        BeginGrant, LockGrant, BeginEdit, RemoveRealmRole, AssignRealmRole, SyncUserStatus,
        Return, Fail, tables, history
  <2>3. request[q] \in Working \cup {Idle}
    BY DEF TypeOK
  <2>4. /\ mirror' \in [Users -> [roles : SUBSET Role, status : Status]]
        /\ published' \subseteq DOMAIN audits' /\ excused' \subseteq Users
    <3>1. CASE RemoveRealmRole(q)
      <4>1. request[q] \in Sync /\ At(q, "remove")
        BY <2>3, <3>1, Shapes DEF RemoveRealmRole, At
      <4>2. request[q].user \in Users
        BY <4>1 DEF Sync
      <4>3. mirror' \in [Users -> [roles : SUBSET Role, status : Status]]
        <5> DEFINE u == request[q].user
        <5>1. PICK R \in SUBSET Role : mirror' = [mirror EXCEPT ![u].roles = R]
          <6>1. PICK done \in BOOLEAN :
                  mirror' = [mirror EXCEPT ![u].roles =
                    IF done THEN @ \ {request[q].old} ELSE @]
            BY <3>1 DEF RemoveRealmRole
          <6>2. mirror[u].roles \in SUBSET Role
            BY <4>2 DEF TypeOK
          <6>3. QED
            BY <6>1, <6>2
        <5>2. QED
          BY <4>2, <5>1, MirrorRoles DEF MirrorTypes
      <4>4. excused' \subseteq Users
        BY <3>1, <4>2 DEF RemoveRealmRole, Unlogged, Excuse, TypeOK
      <4>5. QED
        BY <3>1, <4>3, <4>4 DEF RemoveRealmRole, TypeOK, tables
    <3>2. CASE AssignRealmRole(q)
      <4>1. request[q] \in Sync /\ At(q, "assign")
        BY <2>3, <3>2, Shapes DEF AssignRealmRole, At
      <4>2. request[q].user \in Users /\ request[q].new \in Role
        BY <4>1 DEF Sync, ValuesFit, At
      <4>3. mirror' \in [Users -> [roles : SUBSET Role, status : Status]]
        <5> DEFINE u == request[q].user
        <5>1. PICK R \in SUBSET Role : mirror' = [mirror EXCEPT ![u].roles = R]
          <6>1. PICK done \in BOOLEAN :
                  mirror' = [mirror EXCEPT ![u].roles =
                    IF done THEN @ \cup {request[q].new} ELSE @]
            BY <3>2 DEF AssignRealmRole
          <6>2. mirror[u].roles \in SUBSET Role
            BY <4>2 DEF TypeOK
          <6>3. QED
            BY <4>2, <6>1, <6>2
        <5>2. QED
          BY <4>2, <5>1, MirrorRoles DEF MirrorTypes
      <4>4. excused' \subseteq Users
        BY <3>2, <4>2 DEF AssignRealmRole, Unlogged, Excuse, TypeOK
      <4>5. QED
        BY <3>2, <4>3, <4>4 DEF AssignRealmRole, TypeOK, tables
    <3>3. CASE SyncUserStatus(q)
      <4>1. /\ At(q, "status") /\ request[q].new \in Status
            /\ request[q].user \in Users
        BY <2>3, <3>3, Shapes DEF SyncUserStatus, ValuesFit, At, Sync
      <4>2. mirror' \in [Users -> [roles : SUBSET Role, status : Status]]
        <5> DEFINE u == request[q].user
        <5>1. PICK st \in Status : mirror' = [mirror EXCEPT ![u].status = st]
          <6>1. PICK done \in BOOLEAN :
                  mirror' = [mirror EXCEPT ![u].status = IF done THEN request[q].new ELSE @]
            BY <3>3 DEF SyncUserStatus
          <6>2. mirror[u].status \in Status
            BY <4>1 DEF TypeOK
          <6>3. QED
            BY <4>1, <6>1, <6>2
        <5>2. QED
          BY <4>1, <5>1, MirrorStatus DEF MirrorTypes
      <4>3. QED
        BY <3>3, <4>2 DEF SyncUserStatus, TypeOK, tables, history
    <3>4. CASE Publish(q)
      <4>1. request[q] \in Ended /\ At(q, "publishing")
        BY <2>3, <3>4, Shapes DEF Publish, At
      <4>2. published' \subseteq DOMAIN audits
        <5>1. request[q].audit \in DOMAIN audits
          BY <4>1 DEF AuditsHeld, At
        <5>2. QED
          BY <3>4, <5>1 DEF Publish, TypeOK, tables
      <4>3. QED
        BY <2>2, <3>4, <4>2 DEF Publish, TypeOK, history
    <3>5. CASE Retry(q)
      <4>1. request[q] \in Unchanged
        BY <2>3, <3>5, Shapes DEF Retry, At
      <4>2. excused' \subseteq Users
        BY <3>5, <4>1 DEF Retry, Excuse, TypeOK, Unchanged
      <4>3. QED
        BY <3>5, <4>2 DEF Retry, TypeOK, tables
    <3>6. CASE \/ Return(q) \/ Fail(q) \/ LockGrant(q)
               \/ \E u \in Users : BeginGrant(q, u) \/ BeginEdit(q, u)
               \/ \E u \in Users : \E f \in Field : \E w \in Value : LockTarget(q, u, f, w)
      BY <3>6
      DEF Return, Fail, LockGrant, BeginGrant, BeginEdit, LockTarget, TypeOK, tables, history
    <3>7. QED
      <4>1. "role" \in Field /\ "status" \in Field /\ Role \subseteq Value /\ Status \subseteq Value
        BY DEF Field, Value
      <4>2. QED
        BY <1>5, <3>1, <3>2, <3>3, <3>4, <3>5, <3>6, <4>1
        DEF Step, MutatorStep, ConsumerStep, EditorStep, SyncStep
  <2>5. QED
    BY <2>1, <2>2, <2>4 DEF TypeOK
<1>6. CASE Restart
  <2>1. \A p \in Requests : request'[p] = Idle /\ Idle.pc = "idle"
    BY <1>6 DEF Restart, Idle
  <2>2. ValuesFit'
    BY <2>1 DEF ValuesFit, At
  <2>3. QED
    BY <1>6, <2>1, <2>2 DEF Restart, TypeOK, tables
<1>7. CASE UNCHANGED vars
  BY <1>7 DEF vars, TypeOK, ValuesFit, At
<1>8. QED
  BY <1>1, <1>2, <1>3, <1>4, <1>5, <1>6, <1>7 DEF Next

-----------------------------------------------------------------------------
(* What the other steps leave in the record of their handler.              *)

\* A request that repeats the stored value syncs that value and carries no audit.
LEMMA RetryEffect ==
  ASSUME TypeOK, NEW q \in Requests, Retry(q)
  PROVE  LET s == request[q]  n == request'[q] IN
         /\ s \in Unchanged /\ s.pc = "unchanged" /\ n \in Sync
         /\ request' = [request EXCEPT ![q] = n]
         /\ n.user = s.user /\ n.audit = NoAudit
         /\ n.old = account[s.user][s.field] /\ n.new = account[s.user][s.field]
         /\ n.pc = IF s.field = "status" THEN "status" ELSE "assign"
         /\ s.field \in {"role", "status"}
<1> DEFINE s == request[q]
           stored == account[s.user][s.field]
           r == [user |-> s.user, field |-> s.field, value |-> stored]
           n == StartSync(r, stored, NoAudit)
<1>1. s \in Unchanged /\ s.pc = "unchanged"
  BY Shapes DEF Retry, At, TypeOK
<1>2. stored \in Value /\ s.field \in {"role", "status"} /\ s.user \in Users
  BY <1>1 DEF Unchanged, TypeOK, Account, Field, Value
<1>3. r.user = s.user /\ r.value = stored /\ r.field = s.field
  OBVIOUS
<1>4. NoAudit \in 0..MaxAudits
  BY AccountsAssumption DEF NoAudit
<1>5. request' = [request EXCEPT ![q] = n] /\ request'[q] = n
  BY DEF Retry, TypeOK
<1> HIDE DEF r, s, stored
<1>6. /\ n \in Sync /\ n.old = stored /\ n.new = stored /\ n.user = s.user
      /\ n.audit = NoAudit
      /\ n.pc = IF s.field = "status" THEN "status" ELSE "assign"
  BY <1>2, <1>3, <1>4, Started
<1> HIDE DEF n
<1>7. QED
  BY <1>1, <1>2, <1>5, <1>6 DEF s, stored

\* Without an audit only the success of a role is told to the caller.
LEMMA AnsweredEffect ==
  ASSUME NEW s \in Sync, NEW ok \in BOOLEAN
  PROVE  LET n == Answered(s, ok) IN
         \/ n = Idle /\ s.audit = NoAudit
         \/ /\ n \in Ended /\ n.user = s.user /\ n.audit = s.audit
            /\ n.pc = IF s.audit = NoAudit THEN "returning" ELSE IF ok THEN "synced" ELSE "unsynced"
            /\ s.audit = NoAudit => ok /\ s.pc # "status"
  BY DEF Answered, Sync, Ended, NoAudit

\* The calls to Keycloak: each may fail with or without its effect.
LEMMA RemoveEffect ==
  ASSUME TypeOK, NEW q \in Requests, RemoveRealmRole(q)
  PROVE  LET s == request[q]  n == request'[q] IN
         /\ s \in Sync /\ s.pc = "remove"
         /\ request' = [request EXCEPT ![q] = n]
         /\ \/ /\ n \in Sync /\ n.pc = "assign" /\ n.user = s.user /\ n.old = s.old
               /\ n.new = s.new /\ n.audit = s.audit
               /\ mirror' = [mirror EXCEPT ![s.user].roles = @ \ {s.old}]
               /\ excused' = excused
            \/ /\ n = Answered(s, FALSE)
               /\ excused' = IF q \in Consumers THEN excused \cup {s.user} ELSE excused
<1> DEFINE s == request[q]
           n == [s EXCEPT !.pc = "assign"]
<1>1. s \in Sync /\ s.pc = "remove"
  BY Shapes DEF RemoveRealmRole, At, TypeOK
<1>2. n \in Sync /\ n.pc = "assign" /\ n.user = s.user /\ n.old = s.old /\ n.new = s.new
      /\ n.audit = s.audit
  BY <1>1 DEF Sync
<1>3. PICK done \in BOOLEAN, ok \in BOOLEAN :
        /\ ok => done
        /\ mirror' = [mirror EXCEPT ![s.user].roles = IF done THEN @ \ {s.old} ELSE @]
        /\ request' = [request EXCEPT ![q] = IF ok THEN n ELSE Answered(s, FALSE)]
        /\ Unlogged(q, ok)
  BY DEF RemoveRealmRole
<1>4. CASE ok
  <2>1. request'[q] = n /\ request' = [request EXCEPT ![q] = n]
    BY <1>3, <1>4 DEF TypeOK
  <2>2. mirror' = [mirror EXCEPT ![s.user].roles = @ \ {s.old}] /\ excused' = excused
    BY <1>3, <1>4 DEF Unlogged, Excuse
  <2> HIDE DEF n
  <2>3. QED
    BY <1>1, <1>2, <2>1, <2>2
<1>5. CASE ~ok
  <2>1. /\ request'[q] = Answered(s, FALSE)
        /\ request' = [request EXCEPT ![q] = Answered(s, FALSE)]
    BY <1>3, <1>5 DEF TypeOK
  <2>2. excused' = IF q \in Consumers THEN excused \cup {s.user} ELSE excused
    BY <1>3, <1>5 DEF Unlogged, Excuse
  <2>3. QED
    BY <1>1, <2>1, <2>2
<1>6. QED
  BY <1>4, <1>5

\* assignRealmRole adds the new role or not, and answers, perhaps wrongly, that it failed.
LEMMA AssignEffect ==
  ASSUME TypeOK, NEW q \in Requests, AssignRealmRole(q)
  PROVE  LET s == request[q]  n == request'[q] IN
         /\ s \in Sync /\ s.pc = "assign"
         /\ request' = [request EXCEPT ![q] = n]
         /\ \E done, ok \in BOOLEAN :
              /\ ok => done
              /\ mirror' = [mirror EXCEPT ![s.user].roles = IF done THEN @ \cup {s.new} ELSE @]
              /\ n = Answered(s, ok)
              /\ excused' = IF q \in Consumers /\ ~ok THEN excused \cup {s.user} ELSE excused
<1> DEFINE s == request[q]
<1>1. s \in Sync /\ s.pc = "assign"
  BY Shapes DEF AssignRealmRole, At, TypeOK
<1>2. PICK done \in BOOLEAN, ok \in BOOLEAN :
        /\ ok => done
        /\ mirror' = [mirror EXCEPT ![s.user].roles = IF done THEN @ \cup {s.new} ELSE @]
        /\ request' = [request EXCEPT ![q] = Answered(s, ok)]
        /\ Unlogged(q, ok)
  BY DEF AssignRealmRole
<1>3. request'[q] = Answered(s, ok) /\ request' = [request EXCEPT ![q] = request'[q]]
  BY <1>2 DEF TypeOK
<1>4. excused' = IF q \in Consumers /\ ~ok THEN excused \cup {s.user} ELSE excused
  BY <1>2 DEF Unlogged, Excuse
<1>5. QED
  BY <1>1, <1>2, <1>3, <1>4

\* syncUserStatus enables or disables the user or not, and may answer that it failed.
LEMMA StatusEffect ==
  ASSUME TypeOK, NEW q \in Requests, SyncUserStatus(q)
  PROVE  LET s == request[q]  n == request'[q] IN
         /\ s \in Sync /\ s.pc = "status"
         /\ request' = [request EXCEPT ![q] = n]
         /\ \E done, ok \in BOOLEAN :
              /\ ok => done
              /\ mirror' = [mirror EXCEPT ![s.user].status = IF done THEN s.new ELSE @]
              /\ n = Answered(s, ok)
<1> DEFINE s == request[q]
<1>1. s \in Sync /\ s.pc = "status"
  BY Shapes DEF SyncUserStatus, At, TypeOK
<1>2. PICK done \in BOOLEAN, ok \in BOOLEAN :
        /\ ok => done
        /\ mirror' = [mirror EXCEPT ![s.user].status = IF done THEN s.new ELSE @]
        /\ request' = [request EXCEPT ![q] = Answered(s, ok)]
  BY DEF SyncUserStatus
<1>3. request'[q] = Answered(s, ok) /\ request' = [request EXCEPT ![q] = request'[q]]
  BY <1>2 DEF TypeOK
<1>4. QED
  BY <1>1, <1>2, <1>3

\* A handler starts, or goes on for its user, or ends.
LEMMA OneMoves ==
  ASSUME TypeOK, ValuesFit, NEW q \in Requests, Step(q)
  PROVE  LET s == request[q]  n == request'[q] IN
         /\ request' = [request EXCEPT ![q] = n]
         /\ \A p \in Requests \ {q} : request'[p] = request[p]
         /\ s # Idle => n = Idle \/ n.user = s.user
<1> DEFINE s == request[q]  n == request'[q]
           Goal == request' = [request EXCEPT ![q] = n] /\ (s # Idle => n = Idle \/ n.user = s.user)
<1>0. DOMAIN request = Requests
  BY DEF TypeOK
<1>1. ASSUME NEW u \in Users, NEW f \in Field, NEW w \in Value, LockTarget(q, u, f, w) PROVE Goal
  BY <1>0, <1>1 DEF LockTarget
<1>2. ASSUME NEW u \in Users, BeginGrant(q, u) \/ BeginEdit(q, u) PROVE Goal
  BY <1>0, <1>2 DEF BeginGrant, BeginEdit
<1>3. ASSUME Commit(q) PROVE Goal
  BY <1>3, CommitEffect
<1>4. ASSUME CommitGrant(q) PROVE Goal
  BY <1>4, CommitGrantEffect
<1>5. ASSUME Retry(q) PROVE Goal
  BY <1>5, RetryEffect
<1>6. ASSUME FinishAudit(q) PROVE Goal
  BY <1>6, FinishAuditEffect
<1>7. ASSUME LockGrant(q) PROVE Goal
  BY <1>0, <1>7 DEF LockGrant
<1>8. ASSUME SaveEdit(q) \/ Publish(q) \/ Return(q) \/ Fail(q) PROVE Goal
  BY <1>0, <1>8 DEF SaveEdit, Publish, Return, Fail, Finish
<1>9. ASSUME RemoveRealmRole(q) PROVE Goal
  <2>1. /\ s \in Sync /\ request' = [request EXCEPT ![q] = n]
        /\ n.user = s.user \/ n = Answered(s, FALSE)
    BY <1>9, RemoveEffect
  <2>2. Answered(s, FALSE) = Idle \/ Answered(s, FALSE).user = s.user
    BY <2>1, AnsweredEffect
  <2>3. QED
    BY <2>1, <2>2
<1>10. ASSUME AssignRealmRole(q) \/ SyncUserStatus(q) PROVE Goal
  <2>1. /\ s \in Sync /\ request' = [request EXCEPT ![q] = n]
        /\ \E ok \in BOOLEAN : n = Answered(s, ok)
    BY <1>10, AssignEffect, StatusEffect
  <2>2. \A ok \in BOOLEAN : Answered(s, ok) = Idle \/ Answered(s, ok).user = s.user
    BY <2>1, AnsweredEffect
  <2>3. QED
    BY <2>1, <2>2
<1> HIDE DEF Goal
<1>11. Goal
  <2>1. "role" \in Field /\ "status" \in Field /\ Role \subseteq Value /\ Status \subseteq Value
    BY DEF Field, Value
  <2>2. QED
    BY <1>1, <1>2, <1>3, <1>4, <1>5, <1>6, <1>7, <1>8, <1>9, <1>10, <2>1
    DEF Step, MutatorStep, ConsumerStep, EditorStep, SyncStep
<1>12. \A p \in Requests \ {q} : request'[p] = request[p]
  BY <1>0, <1>11 DEF Goal
<1>13. QED
  BY <1>11, <1>12 DEF Goal

\* Only the transactions and the saves of a profile write the users.
LEMMA TablesKept ==
  ASSUME NEW q \in Requests, Step(q), ~Commit(q), ~CommitGrant(q), ~SaveEdit(q)
  PROVE  account' = account /\ active' = active /\ overwritten' = overwritten
  BY DEF Step, MutatorStep, ConsumerStep, EditorStep, SyncStep, LockTarget, Retry, Publish,
         BeginGrant, LockGrant, BeginEdit, RemoveRealmRole, AssignRealmRole, SyncUserStatus,
         Return, Fail, FinishAudit, tables, history

\* How a handler gets to work.
LEMMA FirstStep ==
  ASSUME TypeOK, NEW q \in Requests, Step(q), request[q] = Idle
  PROVE  \/ \E u \in Users, f \in Field, w \in Value :
              /\ q \in Mutators /\ LockTarget(q, u, f, w)
              /\ f = "role" => w \in Role
              /\ f = "status" => w \in Status
         \/ \E u \in Users : q \in Consumers /\ BeginGrant(q, u)
         \/ \E u \in Users : BeginEdit(q, u)
<1>1. "role" \in Field /\ "status" \in Field /\ Role \subseteq Value /\ Status \subseteq Value
  BY DEF Field, Value
<1>2. request[q].pc = "idle"
  BY DEF Idle
<1>3. /\ ~Commit(q) /\ ~Retry(q) /\ ~FinishAudit(q) /\ ~Publish(q) /\ ~LockGrant(q)
      /\ ~CommitGrant(q) /\ ~SaveEdit(q) /\ ~SyncStep(q) /\ ~Fail(q)
  BY <1>2 DEF Commit, Retry, FinishAudit, Publish, LockGrant, CommitGrant, SaveEdit, SyncStep,
              RemoveRealmRole, AssignRealmRole, SyncUserStatus, Return, Fail, At
<1>4. QED
  BY <1>1, <1>3 DEF Step, MutatorStep, ConsumerStep, EditorStep

-----------------------------------------------------------------------------
(* The admins that are there from the start.                               *)

AdminAccount == [role |-> "ADMIN", status |-> "ACTIVE"]

\* No handler but an edit ever works on them, and an edit writes what it read.
FoundersStay ==
  \A f \in Founders :
    /\ account[f] = AdminAccount
    /\ \A q \in Requests :
         request[q].user = f => At(q, "editing") /\ request[q].read = AdminAccount

\* No mutation and no approval ever begins on an admin of the start.
LEMMA FoundersStep ==
  TypeOK /\ ValuesFit /\ FoundersStay /\ [Next]_vars => FoundersStay'
<1> SUFFICES ASSUME TypeOK, ValuesFit, FoundersStay, [Next]_vars, NEW f \in Founders
             PROVE  /\ account'[f] = AdminAccount
                    /\ \A p \in Requests : request'[p].user = f =>
                         At(p, "editing")' /\ request'[p].read = AdminAccount
  BY DEF FoundersStay
<1>0. f \in Users /\ f # NoUser /\ Idle.user = NoUser
  BY AccountsAssumption DEF Idle
<1>1. ASSUME NEW q \in Requests, Step(q)
      PROVE  /\ account'[f] = AdminAccount
             /\ \A p \in Requests : request'[p].user = f =>
                  At(p, "editing")' /\ request'[p].read = AdminAccount
  <2> DEFINE s == request[q]  n == request'[q]
  <2>1. account'[f] = AdminAccount
    <3>1. CASE Commit(q) \/ CommitGrant(q)
      <4>1. s.user # f /\ \A u \in Users \ {s.user} : account'[u] = account[u]
        BY <3>1 DEF Commit, CommitGrant, FoundersStay, At, TypeOK
      <4>2. QED
        BY <1>0, <4>1 DEF FoundersStay
    <3>2. CASE SaveEdit(q)
      BY <1>0, <3>2 DEF SaveEdit, FoundersStay, At, TypeOK
    <3>3. CASE ~Commit(q) /\ ~CommitGrant(q) /\ ~SaveEdit(q)
      BY <1>1, <3>3, TablesKept DEF FoundersStay
    <3>4. QED
      BY <3>1, <3>2, <3>3
  <2>2. n.user = f => n.pc = "editing" /\ n.read = AdminAccount
    <3>1. CASE s # Idle
      <4>1. n = Idle \/ n.user = s.user
        BY <1>1, <3>1, OneMoves
      <4>2. s.user = f => n = Idle
        <5>1. s.user = f => s.pc = "editing"
          BY DEF FoundersStay, At
        <5>2. s.pc = "editing" => SaveEdit(q) \/ Fail(q)
          BY <1>1, <3>1
          DEF Step, MutatorStep, ConsumerStep, EditorStep, SyncStep, LockTarget, Retry,
              Publish, BeginGrant, LockGrant, BeginEdit, RemoveRealmRole, AssignRealmRole,
              SyncUserStatus, Return, FinishAudit, Commit, CommitGrant, At
        <5>3. SaveEdit(q) \/ Fail(q) => n = Idle
          BY DEF SaveEdit, Fail, Finish, TypeOK
        <5>4. QED
          BY <5>1, <5>2, <5>3
      <4>3. QED
        BY <1>0, <4>1, <4>2
    <3>2. ASSUME NEW u \in Users, NEW fl \in Field, NEW w \in Value, LockTarget(q, u, fl, w)
          PROVE  n.user # f
      <4>1. n.user = u
        BY <3>2 DEF LockTarget, TypeOK
      <4>2. account[u].role # "ADMIN"
        BY <3>2 DEF LockTarget, MayManage
      <4>3. QED
        BY <4>1, <4>2 DEF FoundersStay, AdminAccount
    <3>3. ASSUME NEW u \in Users, BeginGrant(q, u) PROVE n.user # f
      <4>1. n.user = u
        BY <3>3 DEF BeginGrant, TypeOK
      <4>2. account[u].role # "ADMIN"
        BY <3>3 DEF BeginGrant, Grantable
      <4>3. QED
        BY <4>1, <4>2 DEF FoundersStay, AdminAccount
    <3>4. ASSUME NEW u \in Users, BeginEdit(q, u) PROVE n.user = f => n.pc = "editing" /\ n.read = AdminAccount
      <4>1. n.user = u /\ n.pc = "editing" /\ n.read = account[u]
        BY <3>4 DEF BeginEdit, TypeOK
      <4>2. QED
        BY <4>1 DEF FoundersStay
    <3>5. CASE s = Idle
      BY <1>1, <3>2, <3>3, <3>4, <3>5, FirstStep
    <3>6. QED
      BY <3>1, <3>5
  <2>3. \A p \in Requests \ {q} : request'[p] = request[p]
    BY <1>1, OneMoves
  <2>4. QED
    BY <2>1, <2>2, <2>3 DEF FoundersStay, At
<1>2. CASE Restart
  BY <1>0, <1>2 DEF Restart, tables, FoundersStay
<1>3. CASE UNCHANGED vars
  BY <1>3 DEF vars, FoundersStay, At
<1>4. QED
  BY <1>1, <1>2, <1>3 DEF Next

-----------------------------------------------------------------------------
(* What a transaction has read under its lock still holds when it commits. *)

Locking ==
  /\ \A p, q \in Requests :
       (At(p, "locked") /\ At(q, "locked") /\ request[p].user = request[q].user) => p = q
  /\ \A q \in Requests : At(q, "locked") =>
       /\ request[q].read = account[request[q].user]
       /\ IF q \in Consumers THEN Grantable(request[q].user)
          ELSE request[q].value # request[q].read[request[q].field]

\* A handler that enters its transaction finds the row free, and reads it.
LEMMA NewLock ==
  ASSUME TypeOK, ValuesFit, NEW q \in Requests, Step(q), request'[q].pc = "locked"
  PROVE  LET n == request'[q] IN
         /\ account' = account
         /\ \A p \in Requests : ~(At(p, "locked") /\ request[p].user = n.user)
         /\ n.read = account[n.user]
         /\ IF q \in Consumers THEN Grantable(n.user) ELSE n.value # n.read[n.field]
<1> DEFINE n == request'[q]
           Goal ==
             /\ account' = account
             /\ \A p \in Requests : ~(At(p, "locked") /\ request[p].user = n.user)
             /\ n.read = account[n.user]
             /\ IF q \in Consumers THEN Grantable(n.user) ELSE n.value # n.read[n.field]
<1>1. ASSUME NEW u \in Users, NEW f \in Field, NEW w \in Value, LockTarget(q, u, f, w),
             q \in Mutators
      PROVE  Goal
  <2>1. /\ n.user = u /\ n.read = account[u] /\ n.field = f /\ n.value = w
        /\ account[u][f] # w
    BY <1>1 DEF LockTarget, TypeOK
  <2>2. ~RowLocked(u)
    BY <1>1 DEF LockTarget, Free
  <2>3. q \notin Consumers /\ account' = account
    BY <1>1, AccountsAssumption DEF LockTarget, tables
  <2>4. QED
    BY <2>1, <2>2, <2>3 DEF RowLocked
<1>2. ASSUME LockGrant(q), q \in Consumers PROVE Goal
  <2> DEFINE u == request[q].user
  <2>1. n.user = u /\ n.read = account[u] /\ Grantable(u)
    <3>1. n = IF Recheck(u)
              THEN [pc |-> "locked", user |-> u, read |-> account[u], field |-> "role",
                    value |-> "SELLER"]
              ELSE Idle
      BY <1>2 DEF LockGrant, TypeOK
    <3>2. Recheck(u)
      BY <3>1 DEF Idle
    <3>3. QED
      BY <3>1, <3>2 DEF Recheck
  <2>2. ~RowLocked(u) /\ account' = account
    BY <1>2 DEF LockGrant, tables
  <2>3. QED
    BY <1>2, <2>1, <2>2 DEF RowLocked
<1>3. CASE request[q] = Idle
  <2>1. ASSUME NEW u \in Users, BeginGrant(q, u) \/ BeginEdit(q, u) PROVE FALSE
    BY <2>1 DEF BeginGrant, BeginEdit, TypeOK
  <2>2. QED
    BY <1>1, <1>3, <2>1, FirstStep
<1>4. CASE request[q] # Idle
  <2>1. ~Commit(q) /\ ~CommitGrant(q) /\ ~Retry(q) /\ ~FinishAudit(q)
    <3>1. \A m \in Sync \cup Ended : m.pc # "locked"
      BY DEF Sync, Ended
    <3>2. QED
      BY <3>1, CommitEffect, CommitGrantEffect, RetryEffect, FinishAuditEffect
  <2>2. ~Publish(q) /\ ~Return(q) /\ ~Fail(q) /\ ~SaveEdit(q)
    BY DEF Publish, Return, Fail, SaveEdit, Finish, Idle, TypeOK
  <2>3. \A m \in Sync : \A ok \in BOOLEAN : Answered(m, ok).pc # "locked"
    BY AnsweredShape
  <2>4. ~RemoveRealmRole(q)
    <3>1. \A m \in Sync : m.pc # "locked"
      BY DEF Sync
    <3>2. QED
      BY <2>3, <3>1, RemoveEffect
  <2>5. ~AssignRealmRole(q) /\ ~SyncUserStatus(q)
    <3> SUFFICES ASSUME AssignRealmRole(q) \/ SyncUserStatus(q) PROVE FALSE
      OBVIOUS
    <3>1. /\ request[q] \in Sync
          /\ \E ok \in BOOLEAN : request'[q] = Answered(request[q], ok)
      BY AssignEffect, StatusEffect
    <3>2. QED
      BY <2>3, <3>1
  <2>6. LockGrant(q) /\ q \in Consumers
    BY <1>4, <2>1, <2>2, <2>4, <2>5
    DEF Step, MutatorStep, ConsumerStep, EditorStep, SyncStep, LockTarget, BeginGrant, BeginEdit
  <2>7. QED
    BY <1>2, <2>6
<1>5. QED
  BY <1>3, <1>4

\* A commit and a save of a profile leave the rows of other transactions alone.
LEMMA LockedRowsKept ==
  ASSUME TypeOK, ValuesFit, Locking, NEW q \in Requests, Step(q),
         NEW p \in Requests \ {q}, At(p, "locked")
  PROVE  account'[request[p].user] = account[request[p].user]
<1>1. CASE Commit(q) \/ CommitGrant(q)
  <2>1. At(q, "locked") /\ \A u \in Users \ {request[q].user} : account'[u] = account[u]
    BY <1>1 DEF Commit, CommitGrant, TypeOK
  <2>2. request[p].user # request[q].user
    BY <2>1 DEF Locking
  <2>3. request[p].user \in Users
    BY Shapes DEF At, TypeOK, Locked
  <2>4. QED
    BY <2>1, <2>2, <2>3
<1>2. CASE SaveEdit(q)
  <2>1. /\ ~RowLocked(request[q].user)
        /\ \A u \in Users \ {request[q].user} : account'[u] = account[u]
    BY <1>2 DEF SaveEdit, TypeOK
  <2>2. request[p].user # request[q].user
    BY <2>1 DEF RowLocked
  <2>3. request[p].user \in Users
    BY Shapes DEF At, TypeOK, Locked
  <2>4. QED
    BY <2>1, <2>2, <2>3
<1>3. QED
  BY <1>1, <1>2, TablesKept

\* The lock excludes every other writer of the row until the commit.
LEMMA LockingStep == TypeOK /\ ValuesFit /\ Locking /\ [Next]_vars => Locking'
<1> SUFFICES ASSUME TypeOK, ValuesFit, Locking, [Next]_vars PROVE Locking'
  OBVIOUS
<1>1. ASSUME NEW q \in Requests, Step(q) PROVE Locking'
  <2>1. \A p \in Requests \ {q} : request'[p] = request[p]
    BY <1>1, OneMoves
  <2>2. \A p \in Requests \ {q} : At(p, "locked") =>
          account'[request[p].user] = account[request[p].user]
    BY <1>1, LockedRowsKept
  <2>3. CASE request'[q].pc # "locked"
    BY <2>1, <2>2, <2>3 DEF Locking, At, Grantable
  <2>4. CASE request'[q].pc = "locked"
    <3>1. /\ account' = account
          /\ \A p \in Requests : ~(At(p, "locked") /\ request[p].user = request'[q].user)
          /\ request'[q].read = account[request'[q].user]
          /\ IF q \in Consumers THEN Grantable(request'[q].user)
             ELSE request'[q].value # request'[q].read[request'[q].field]
      BY <1>1, <2>4, NewLock
    <3>2. QED
      BY <2>1, <3>1 DEF Locking, At, Grantable
  <2>5. QED
    BY <2>3, <2>4
<1>2. CASE Restart
  BY <1>2 DEF Restart, Locking, At, Idle
<1>3. CASE UNCHANGED vars
  BY <1>3 DEF vars, Locking, At, Grantable
<1>4. QED
  BY <1>1, <1>2, <1>3 DEF Next

-----------------------------------------------------------------------------
(* The assignment follows the role.                                        *)

\* The row of the assignment is written in the transaction that writes the role.
LEMMA AssignmentStep ==
  TypeOK /\ ValuesFit /\ Locking /\ AssignmentFollowsRole /\ [Next]_vars
    => AssignmentFollowsRole'
<1> SUFFICES ASSUME TypeOK, ValuesFit, Locking, AssignmentFollowsRole, [Next]_vars
             PROVE  AssignmentFollowsRole'
  OBVIOUS
<1>1. ASSUME NEW q \in Requests, Commit(q) PROVE AssignmentFollowsRole'
  <2> DEFINE s == request[q]
  <2>1. s \in Locked /\ s.read = account[s.user] /\ s.field \in {"role", "status"}
    BY <1>1, CommitEffect DEF Locking, Commit
  <2>2. CASE s.field = "role"
    BY <1>1, <2>1, <2>2 DEF Commit, AssignmentFollowsRole, TypeOK, Locked, Account
  <2>3. CASE s.field = "status"
    <3>1. \A u \in Users : account'[u].role = account[u].role
      BY <1>1, <2>1, <2>3 DEF Commit, TypeOK, Locked, Account
    <3>2. active' = active /\ overwritten' = overwritten
      BY <1>1, <2>3 DEF Commit
    <3>3. QED
      BY <3>1, <3>2 DEF AssignmentFollowsRole
  <2>4. QED
    BY <2>1, <2>2, <2>3
<1>2. ASSUME NEW q \in Requests, CommitGrant(q) PROVE AssignmentFollowsRole'
  <2>1. request[q] \in Locked
    BY <1>2, CommitGrantEffect
  <2>2. QED
    BY <1>2, <2>1 DEF CommitGrant, AssignmentFollowsRole, TypeOK, Locked, Account, Reassigned
<1>3. ASSUME NEW q \in Requests, SaveEdit(q) PROVE AssignmentFollowsRole'
  BY <1>3 DEF SaveEdit, AssignmentFollowsRole, TypeOK
<1>4. ASSUME NEW q \in Requests, Step(q), ~Commit(q), ~CommitGrant(q), ~SaveEdit(q)
      PROVE  AssignmentFollowsRole'
  BY <1>4, TablesKept DEF AssignmentFollowsRole
<1>5. CASE Restart
  BY <1>5 DEF Restart, tables, AssignmentFollowsRole
<1>6. CASE UNCHANGED vars
  BY <1>6 DEF vars, AssignmentFollowsRole
<1>7. QED
  BY <1>1, <1>2, <1>3, <1>4, <1>5, <1>6 DEF Next

-----------------------------------------------------------------------------
(* The audits in progress.                                                 *)

Held == {"remove", "assign", "status", "synced", "unsynced", "publishing"}

\* The handler holds no audit after the step.
LEMMA HeldNone ==
  ASSUME TypeOK, AuditsHeld, NEW q \in Requests, audits' = audits,
         \A p \in Requests \ {q} : request'[p] = request[p],
         request'[q].pc \in Held =>
           /\ request'[q].pc \in {"remove", "assign", "status"}
           /\ request'[q].audit = NoAudit
           /\ request'[q].pc = "remove" => q \in Consumers
  PROVE  AuditsHeld'
<1>1. ~WithAudit(q)' /\ \A p \in Requests \ {q} : WithAudit(p)' <=> WithAudit(p)
  BY DEF WithAudit, Held
<1>2. request'[q].pc \notin {"synced", "unsynced", "publishing"}
  BY DEF Held
<1>3. request'[q].pc = "remove" => q \in Consumers
  BY DEF Held
<1>4. QED
  BY <1>1, <1>2, <1>3 DEF AuditsHeld, At

\* The handler goes on with its audit, which stays PENDING.
LEMMA HeldOn ==
  ASSUME TypeOK, AuditsHeld, NEW q \in Requests, audits' = audits,
         \A p \in Requests \ {q} : request'[p] = request[p],
         WithAudit(q), ~At(q, "publishing"),
         request'[q].pc \in {"assign", "synced", "unsynced"},
         request'[q].audit = request[q].audit, request'[q].user = request[q].user
  PROVE  AuditsHeld'
<1>1. WithAudit(q)' /\ \A p \in Requests \ {q} : WithAudit(p)' <=> WithAudit(p)
  BY DEF WithAudit
<1>2. QED
  BY <1>1 DEF AuditsHeld, At

\* A call to Keycloak that has ended.
LEMMA HeldAnswered ==
  ASSUME TypeOK, AuditsHeld, NEW q \in Requests, audits' = audits,
         \A p \in Requests \ {q} : request'[p] = request[p],
         request[q] \in Sync, NEW ok \in BOOLEAN, request'[q] = Answered(request[q], ok)
  PROVE  AuditsHeld'
<1>1. CASE request[q].audit = NoAudit
  <2>1. request'[q] = Idle \/ request'[q].pc = "returning"
    BY <1>1, AnsweredEffect
  <2>2. request'[q].pc \notin Held
    BY <2>1 DEF Idle, Held
  <2>3. QED
    BY <2>2, HeldNone
<1>2. CASE request[q].audit # NoAudit
  <2>1. /\ request'[q].user = request[q].user /\ request'[q].audit = request[q].audit
        /\ request'[q].pc \in {"synced", "unsynced"}
    BY <1>2, AnsweredEffect
  <2>2. WithAudit(q) /\ ~At(q, "publishing")
    BY <1>2 DEF WithAudit, Sync, At
  <2>3. QED
    BY <2>1, <2>2, HeldOn
<1>3. QED
  BY <1>1, <1>2

\* A commit appends the audit its handler holds from now on.
LEMMA HeldCommit ==
  ASSUME TypeOK, ValuesFit, AuditsHeld, NEW q \in Requests, Commit(q)
  PROVE  AuditsHeld'
<1> DEFINE s == request[q]  n == request'[q]
<1>1. /\ n \in Sync /\ n.user = s.user /\ n.audit = Len(audits) + 1
      /\ request' = [request EXCEPT ![q] = n]
  BY CommitEffect
<1>2. \A p \in Requests \ {q} : request'[p] = request[p]
  BY <1>1 DEF TypeOK
<1>3. /\ Len(audits) \in Nat /\ DOMAIN audits = 1..Len(audits)
      /\ DOMAIN audits' = 1..(Len(audits) + 1)
      /\ \A i \in DOMAIN audits : audits'[i] = audits[i]
      /\ audits'[Len(audits) + 1] = [user |-> s.user, syncStatus |-> "PENDING"]
  BY DEF Commit, TypeOK
<1>4. n.pc \in {"remove", "assign", "status"} /\ n.audit # NoAudit
  BY <1>1, <1>3 DEF Sync, NoAudit
<1>5. \A p \in Requests \ {q} : WithAudit(p)' <=> WithAudit(p)
  BY <1>2 DEF WithAudit
<1>6. WithAudit(q)'
  BY <1>4 DEF WithAudit
<1>7. \A p \in Requests \ {q} : WithAudit(p) => request[p].audit # n.audit
  BY <1>1, <1>3 DEF AuditsHeld
<1>8. /\ n.audit \in DOMAIN audits' /\ audits'[n.audit].user = n.user
      /\ audits'[n.audit].syncStatus = "PENDING"
  BY <1>1, <1>3
<1> HIDE DEF n
<1>9. \A p \in Requests \ {q} :
        /\ request'[p].pc \in {"synced", "unsynced", "publishing"} => WithAudit(p)'
        /\ WithAudit(p)' =>
             /\ request'[p].audit \in DOMAIN audits'
             /\ audits'[request'[p].audit].user = request'[p].user
             /\ (audits'[request'[p].audit].syncStatus = "PENDING") <=> ~At(p, "publishing")'
        /\ At(p, "remove")' => p \in Consumers \/ WithAudit(p)'
  BY <1>2, <1>3, <1>5 DEF AuditsHeld, At
<1>10. \A p, r \in Requests :
         (WithAudit(p)' /\ WithAudit(r)' /\ request'[p].audit = request'[r].audit) => p = r
  BY <1>2, <1>5, <1>7 DEF AuditsHeld, n
<1>11. /\ request'[q].pc \notin {"synced", "unsynced", "publishing"}
       /\ request'[q].audit \in DOMAIN audits'
       /\ audits'[request'[q].audit].user = request'[q].user
       /\ audits'[request'[q].audit].syncStatus = "PENDING" /\ ~At(q, "publishing")'
  BY <1>4, <1>8 DEF n, At
<1>12. QED
  BY <1>6, <1>9, <1>10, <1>11 DEF AuditsHeld

\* The audit that is finished belongs to this handler alone.
LEMMA HeldFinished ==
  ASSUME TypeOK, AuditsHeld, NEW q \in Requests, FinishAudit(q)
  PROVE  AuditsHeld'
<1> DEFINE s == request[q]  n == request'[q]  a == s.audit
<1>1. /\ s.pc \in {"synced", "unsynced"} /\ n.pc = "publishing" /\ n.user = s.user
      /\ n.audit = a /\ request' = [request EXCEPT ![q] = n]
  BY FinishAuditEffect
<1>2. \A p \in Requests \ {q} : request'[p] = request[p]
  BY <1>1 DEF TypeOK
<1>3. WithAudit(q) /\ a \in DOMAIN audits /\ audits[a].user = s.user
  BY <1>1 DEF AuditsHeld
<1>4. /\ DOMAIN audits' = DOMAIN audits
      /\ \A i \in DOMAIN audits \ {a} : audits'[i] = audits[i]
      /\ audits'[a].user = audits[a].user /\ audits'[a].syncStatus # "PENDING"
  <2>1. audits[a] \in Audit
    BY <1>3 DEF TypeOK
  <2>2. QED
    BY <1>3, <2>1 DEF FinishAudit, TypeOK, Audit
<1>5. \A p \in Requests \ {q} :
        /\ WithAudit(p)' <=> WithAudit(p)
        /\ WithAudit(p) => request[p].audit # a /\ request[p].audit \in DOMAIN audits
  BY <1>2, <1>3 DEF WithAudit, AuditsHeld
<1>6. WithAudit(q)'
  BY <1>1, <1>3 DEF WithAudit
<1> HIDE DEF n, a
<1>7. \A p \in Requests \ {q} :
        /\ request'[p].pc \in {"synced", "unsynced", "publishing"} => WithAudit(p)'
        /\ WithAudit(p)' =>
             /\ request'[p].audit \in DOMAIN audits'
             /\ audits'[request'[p].audit].user = request'[p].user
             /\ (audits'[request'[p].audit].syncStatus = "PENDING") <=> ~At(p, "publishing")'
        /\ At(p, "remove")' => p \in Consumers \/ WithAudit(p)'
  BY <1>2, <1>4, <1>5 DEF AuditsHeld, At
<1>8. \A p, r \in Requests :
        (WithAudit(p)' /\ WithAudit(r)' /\ request'[p].audit = request'[r].audit) => p = r
  BY <1>1, <1>2, <1>5 DEF AuditsHeld, n
<1>9. /\ request'[q].audit \in DOMAIN audits'
      /\ audits'[request'[q].audit].user = request'[q].user
      /\ audits'[request'[q].audit].syncStatus # "PENDING" /\ At(q, "publishing")'
      /\ ~At(q, "remove")'
  BY <1>1, <1>3, <1>4 DEF n, At
<1>10. QED
  BY <1>6, <1>7, <1>8, <1>9 DEF AuditsHeld

\* Together: the audits in progress stay with their handlers.
LEMMA AuditsStep ==
  TypeOK /\ ValuesFit /\ AuditsHeld /\ [Next]_vars => AuditsHeld'
<1> SUFFICES ASSUME TypeOK, ValuesFit, AuditsHeld, [Next]_vars PROVE AuditsHeld'
  OBVIOUS
<1>1. ASSUME NEW q \in Requests, Step(q), ~Commit(q), ~FinishAudit(q) PROVE AuditsHeld'
  <2> DEFINE s == request[q]  n == request'[q]
  <2>1. \A p \in Requests \ {q} : request'[p] = request[p]
    BY <1>1, OneMoves
  <2>2. audits' = audits
    BY <1>1
    DEF Step, MutatorStep, ConsumerStep, EditorStep, SyncStep, LockTarget, Retry, Publish,
        BeginGrant, LockGrant, CommitGrant, BeginEdit, SaveEdit, RemoveRealmRole,
        AssignRealmRole, SyncUserStatus, Return, Fail, tables
  <2>3. CASE RemoveRealmRole(q)
    <3>1. /\ s \in Sync /\ s.pc = "remove"
          /\ \/ n.pc = "assign" /\ n.user = s.user /\ n.audit = s.audit
             \/ n = Answered(s, FALSE)
      BY <2>3, RemoveEffect
    <3>2. CASE n = Answered(s, FALSE)
      BY <2>1, <2>2, <3>1, <3>2, HeldAnswered
    <3>3. CASE n.pc = "assign" /\ n.user = s.user /\ n.audit = s.audit
      <4>1. CASE s.audit = NoAudit
        BY <2>1, <2>2, <3>3, <4>1, HeldNone
      <4>2. CASE s.audit # NoAudit
        <5>1. WithAudit(q) /\ ~At(q, "publishing")
          BY <3>1, <4>2 DEF WithAudit, At
        <5>2. QED
          BY <2>1, <2>2, <3>3, <5>1, HeldOn
      <4>3. QED
        BY <4>1, <4>2
    <3>4. QED
      BY <3>1, <3>2, <3>3
  <2>4. CASE AssignRealmRole(q) \/ SyncUserStatus(q)
    <3>1. s \in Sync /\ \E ok \in BOOLEAN : n = Answered(s, ok)
      BY <2>4, AssignEffect, StatusEffect
    <3>2. QED
      BY <2>1, <2>2, <3>1, HeldAnswered
  <2>5. CASE CommitGrant(q) \/ Retry(q)
    <3>1. /\ n.pc \in {"remove", "assign", "status"} /\ n.audit = NoAudit
          /\ n.pc = "remove" => q \in Consumers
      <4>1. CASE CommitGrant(q)
        <5>1. n \in Sync /\ n.audit = NoAudit
          BY <4>1, CommitGrantEffect
        <5>2. QED
          BY <4>1, <5>1 DEF Sync, CommitGrant
      <4>2. CASE Retry(q)
        BY <4>2, RetryEffect
      <4>3. QED
        BY <2>5, <4>1, <4>2
    <3>2. QED
      BY <2>1, <2>2, <3>1, HeldNone
  <2>6. CASE ~RemoveRealmRole(q) /\ ~AssignRealmRole(q) /\ ~SyncUserStatus(q) /\ ~CommitGrant(q)
             /\ ~Retry(q)
    <3>1. n.pc \notin Held
      <4>1. DOMAIN request = Requests
        BY DEF TypeOK
      <4>2. ASSUME NEW u \in Users, NEW f \in Field, NEW w \in Value, LockTarget(q, u, f, w)
            PROVE  n.pc \notin Held
        BY <4>1, <4>2 DEF LockTarget, Held
      <4>3. ASSUME NEW u \in Users, BeginGrant(q, u) \/ BeginEdit(q, u) PROVE n.pc \notin Held
        BY <4>1, <4>3 DEF BeginGrant, BeginEdit, Held
      <4>4. ASSUME \/ LockGrant(q) \/ SaveEdit(q) \/ Publish(q) \/ Return(q) \/ Fail(q)
            PROVE  n.pc \notin Held
        BY <4>1, <4>4 DEF LockGrant, SaveEdit, Publish, Return, Fail, Finish, Idle, Held
      <4>5. "role" \in Field /\ "status" \in Field /\ Role \subseteq Value /\ Status \subseteq Value
        BY DEF Field, Value
      <4>6. QED
        BY <1>1, <2>6, <4>2, <4>3, <4>4, <4>5
        DEF Step, MutatorStep, ConsumerStep, EditorStep, SyncStep
    <3>2. QED
      BY <2>1, <2>2, <3>1, HeldNone
  <2>7. QED
    BY <2>3, <2>4, <2>5, <2>6
<1>2. CASE Restart
  BY <1>2 DEF Restart, AuditsHeld, WithAudit, At, Idle
<1>3. CASE UNCHANGED vars
  BY <1>3 DEF vars, AuditsHeld, WithAudit, At
<1>4. QED
  BY <1>1, <1>2, <1>3, HeldCommit, HeldFinished DEF Next

-----------------------------------------------------------------------------
(* The mail about a change follows its audit.                              *)

\* A mail goes out after the commit of its audit, which no step deletes.
LEMMA MailStep ==
  TypeOK /\ ValuesFit /\ AuditsHeld /\ MailFollowsAudit /\ [Next]_vars => MailFollowsAudit'
<1> SUFFICES ASSUME TypeOK, ValuesFit, AuditsHeld, MailFollowsAudit, [Next]_vars
             PROVE  MailFollowsAudit'
  OBVIOUS
<1>0. \A i \in published : i \in DOMAIN audits
  BY DEF TypeOK
<1>1. ASSUME NEW q \in Requests, Commit(q) PROVE MailFollowsAudit'
  <2>1. published' = published /\ \A i \in DOMAIN audits : audits'[i] = audits[i]
    BY <1>1 DEF Commit, TypeOK
  <2>2. QED
    BY <1>0, <2>1 DEF MailFollowsAudit
<1>2. ASSUME NEW q \in Requests, FinishAudit(q) PROVE MailFollowsAudit'
  <2> DEFINE a == request[q].audit
  <2>1. published' = published /\ \A i \in DOMAIN audits \ {a} : audits'[i] = audits[i]
    BY <1>2 DEF FinishAudit, TypeOK
  <2>2. a \in DOMAIN audits => audits'[a].syncStatus # "PENDING"
    <3>1. a \in DOMAIN audits => audits[a] \in Audit
      BY DEF TypeOK
    <3>2. QED
      BY <1>2, <3>1 DEF FinishAudit, TypeOK, Audit
  <2>3. QED
    BY <1>0, <2>1, <2>2 DEF MailFollowsAudit
<1>3. ASSUME NEW q \in Requests, Publish(q) PROVE MailFollowsAudit'
  <2>1. /\ published' \subseteq published \cup {request[q].audit} /\ audits' = audits
        /\ At(q, "publishing")
    BY <1>3 DEF Publish, tables
  <2>2. audits[request[q].audit].syncStatus # "PENDING"
    BY <2>1 DEF AuditsHeld, At
  <2>3. QED
    BY <2>1, <2>2 DEF MailFollowsAudit
<1>4. ASSUME NEW q \in Requests, Step(q), ~Commit(q), ~FinishAudit(q), ~Publish(q)
      PROVE  MailFollowsAudit'
  <2>1. audits' = audits /\ published' = published
    BY <1>4
    DEF Step, MutatorStep, ConsumerStep, EditorStep, SyncStep, LockTarget, Retry,
        BeginGrant, LockGrant, CommitGrant, BeginEdit, SaveEdit, RemoveRealmRole,
        AssignRealmRole, SyncUserStatus, Return, Fail, tables
  <2>2. QED
    BY <2>1 DEF MailFollowsAudit
<1>5. CASE Restart \/ UNCHANGED vars
  BY <1>5 DEF Restart, vars, tables, MailFollowsAudit
<1>6. QED
  BY <1>1, <1>2, <1>3, <1>4, <1>5 DEF Next

-----------------------------------------------------------------------------
(* The mirror: whoever is not up to date in Keycloak has a broken audit, or *)
(* a handler on the way to Keycloak.                                       *)

\* q's call to Keycloak is to end, or has ended, well for the change of audit i.
Carries(q, i) ==
  request[q].pc \in {"remove", "assign", "status", "synced"} /\ request[q].audit = i

\* An audit of u that will never say SUCCESS.
Broken(u) ==
  \E i \in DOMAIN audits :
    /\ audits[i].user = u /\ audits[i].syncStatus # "SUCCESS"
    /\ \A q \in Requests : ~Carries(q, i)

InSync(u) == mirror[u].roles = {account[u].role} /\ mirror[u].status = account[u].status

\* What Keycloak holds of u while q is the one that syncs it.
Midway(q, u) ==
  LET s == request[q] IN
  /\ s.pc \in {"remove", "assign"} =>
       s.new = account[u].role /\ mirror[u].status = account[u].status
  /\ s.pc = "remove" => mirror[u].roles = {s.old}
  /\ s.pc = "assign" =>
       /\ mirror[u].roles \subseteq {s.new}
       /\ (s.audit = NoAudit /\ q \notin Consumers) => mirror[u].roles = {s.new}
  /\ s.pc = "status" =>
       /\ mirror[u].roles = {account[u].role} /\ s.new = account[u].status
       /\ s.audit = NoAudit => mirror[u].status = account[u].status

Settled(u) == InSync(u) /\ \A q \in Requests : ~Syncing(q, u)

OnTheWay(u) ==
  \E q \in Requests :
    Syncing(q, u) /\ Midway(q, u) /\ \A p \in Requests \ {q} : ~Syncing(p, u)

Accounted ==
  \A u \in Users \ (excused \cup overwritten) : Broken(u) \/ Settled(u) \/ OnTheWay(u)

HeldPC == {"remove", "assign", "status", "synced"}

\* Only a commit gives a handler an audit, and that audit is new.
LEMMA CarriesStep ==
  ASSUME TypeOK, ValuesFit, NEW q \in Requests, Step(q), NEW i \in DOMAIN audits,
         NEW p \in Requests, Carries(p, i)'
  PROVE  Carries(p, i)
<1> DEFINE s == request[q]  n == request'[q]
<1>0. DOMAIN request = Requests /\ i # NoAudit /\ i # Len(audits) + 1
  BY DEF TypeOK, NoAudit
<1>1. CASE p # q
  <2>1. request'[p] = request[p]
    BY <1>1, OneMoves
  <2>2. QED
    BY <2>1 DEF Carries
<1>2. CASE p = q
  <2>0. n.pc \in HeldPC /\ n.audit = i
    BY <1>2 DEF Carries, HeldPC
  <2>1. ~Commit(q) /\ ~CommitGrant(q) /\ ~Retry(q)
    BY <1>0, <2>0, CommitEffect, CommitGrantEffect, RetryEffect
  <2>2. ~FinishAudit(q)
    BY <2>0, FinishAuditEffect DEF HeldPC
  <2>3. ASSUME NEW u \in Users, NEW f \in Field, NEW w \in Value, LockTarget(q, u, f, w)
        PROVE  FALSE
    BY <1>0, <2>0, <2>3 DEF LockTarget, HeldPC
  <2>4. ASSUME NEW u \in Users, BeginGrant(q, u) \/ BeginEdit(q, u) PROVE FALSE
    BY <1>0, <2>0, <2>4 DEF BeginGrant, BeginEdit, HeldPC
  <2>5. ASSUME LockGrant(q) \/ SaveEdit(q) \/ Publish(q) \/ Return(q) \/ Fail(q) PROVE FALSE
    BY <1>0, <2>0, <2>5 DEF LockGrant, SaveEdit, Publish, Return, Fail, Finish, Idle, HeldPC
  <2>6. CASE RemoveRealmRole(q) \/ AssignRealmRole(q) \/ SyncUserStatus(q)
    <3>1. /\ s \in Sync
          /\ n.audit = s.audit \/ \E ok \in BOOLEAN : n = Answered(s, ok)
      BY <2>6, RemoveEffect, AssignEffect, StatusEffect
    <3>2. ASSUME NEW ok \in BOOLEAN, n = Answered(s, ok) PROVE n.audit = s.audit
      <4>1. n # Idle
        BY <2>0 DEF Idle, HeldPC
      <4>2. QED
        BY <3>1, <3>2, <4>1, AnsweredEffect
    <3>3. n.audit = s.audit /\ s.pc \in {"remove", "assign", "status"}
      BY <3>1, <3>2 DEF Sync
    <3>4. QED
      BY <1>2, <2>0, <3>3 DEF Carries
  <2>7. QED
    <3>1. "role" \in Field /\ "status" \in Field /\ Role \subseteq Value /\ Status \subseteq Value
      BY DEF Field, Value
    <3>2. QED
      BY <2>1, <2>2, <2>3, <2>4, <2>5, <2>6, <3>1
      DEF Step, MutatorStep, ConsumerStep, EditorStep, SyncStep
<1>3. QED
  BY <1>1, <1>2

\* An audit stays in the table, and only its handler makes it say SUCCESS.
LEMMA RowsStay ==
  ASSUME TypeOK, ValuesFit, NEW q \in Requests, Step(q), NEW i \in DOMAIN audits,
         ~Carries(q, i)
  PROVE  /\ i \in DOMAIN audits' /\ audits'[i].user = audits[i].user
         /\ audits[i].syncStatus # "SUCCESS" => audits'[i].syncStatus # "SUCCESS"
<1>0. audits[i] \in Audit
  BY DEF TypeOK
<1>1. CASE Commit(q)
  BY <1>1 DEF Commit, TypeOK
<1>2. CASE FinishAudit(q)
  <2> DEFINE a == request[q].audit
  <2>1. DOMAIN audits' = DOMAIN audits /\ \A j \in DOMAIN audits \ {a} : audits'[j] = audits[j]
    BY <1>2 DEF FinishAudit, TypeOK
  <2>2. CASE i # a
    BY <2>1, <2>2
  <2>3. CASE i = a
    <3>1. ~At(q, "synced")
      BY <2>3 DEF Carries, At
    <3>2. audits' = [audits EXCEPT ![i].syncStatus = "FAILED"]
      BY <1>2, <2>3, <3>1 DEF FinishAudit
    <3>3. audits'[i] = [audits[i] EXCEPT !.syncStatus = "FAILED"]
      BY <3>2
    <3>4. audits'[i].syncStatus = "FAILED" /\ audits'[i].user = audits[i].user
      BY <1>0, <3>3 DEF Audit
    <3>5. QED
      BY <2>1, <3>4
  <2>4. QED
    BY <2>2, <2>3
<1>3. CASE ~Commit(q) /\ ~FinishAudit(q)
  <2>1. audits' = audits
    BY <1>3
    DEF Step, MutatorStep, ConsumerStep, EditorStep, SyncStep, LockTarget, Retry, Publish,
        BeginGrant, LockGrant, CommitGrant, BeginEdit, SaveEdit, RemoveRealmRole,
        AssignRealmRole, SyncUserStatus, Return, Fail, tables
  <2>2. QED
    BY <2>1
<1>4. QED
  BY <1>1, <1>2, <1>3

\* Nothing repairs an audit that failed or was abandoned.
LEMMA BrokenStays ==
  ASSUME TypeOK, ValuesFit, NEW q \in Requests, Step(q), NEW u, Broken(u)
  PROVE  Broken(u)'
<1>1. PICK i \in DOMAIN audits :
        /\ audits[i].user = u /\ audits[i].syncStatus # "SUCCESS"
        /\ \A p \in Requests : ~Carries(p, i)
  BY DEF Broken
<1>2. /\ i \in DOMAIN audits' /\ audits'[i].user = u
      /\ audits'[i].syncStatus # "SUCCESS"
  BY <1>1, RowsStay
<1>3. \A p \in Requests : ~Carries(p, i)'
  BY <1>1, CarriesStep
<1>4. QED
  BY <1>2, <1>3 DEF Broken

\* A handler that held a PENDING audit and carries it no more leaves it broken.
LEMMA DroppedIsBroken ==
  ASSUME TypeOK, ValuesFit, AuditsHeld, NEW q \in Requests, WithAudit(q),
         request[q].pc \in {"remove", "assign", "status"}, audits' = audits,
         \A p \in Requests \ {q} : request'[p] = request[p],
         request'[q].pc \notin HeldPC, NEW u, u = request[q].user
  PROVE  Broken(u)'
<1>0. PICK i : i = request[q].audit
  OBVIOUS
<1>1. i \in DOMAIN audits /\ audits[i].user = u /\ audits[i].syncStatus = "PENDING"
  BY <1>0 DEF AuditsHeld, At
<1>2. i # NoAudit
  BY <1>0 DEF WithAudit
<1>3. ASSUME NEW p \in Requests \ {q}, request[p].pc \in HeldPC, request[p].audit = i
      PROVE  FALSE
  <2>1. WithAudit(p)
    BY <1>2, <1>3 DEF WithAudit, HeldPC
  <2>2. QED
    BY <1>0, <1>3, <2>1 DEF AuditsHeld
<1>4. \A p \in Requests : ~Carries(p, i)'
  BY <1>3 DEF Carries, HeldPC
<1>5. QED
  BY <1>1, <1>4 DEF Broken

\* The other users do not notice.
LEMMA UserFrame ==
  ASSUME NEW u, account'[u] = account[u], mirror'[u] = mirror[u],
         \A p \in Requests : Syncing(p, u)' <=> Syncing(p, u),
         \A p \in Requests : Syncing(p, u) => request'[p] = request[p],
         Settled(u) \/ OnTheWay(u)
  PROVE  (Settled(u) \/ OnTheWay(u))'
<1>1. CASE Settled(u)
  BY <1>1 DEF Settled, InSync
<1>2. CASE OnTheWay(u)
  <2>1. PICK q \in Requests :
          Syncing(q, u) /\ Midway(q, u) /\ \A p \in Requests \ {q} : ~Syncing(p, u)
    BY <1>2 DEF OnTheWay
  <2>2. request'[q] = request[q] /\ Syncing(q, u)' /\ \A p \in Requests \ {q} : ~Syncing(p, u)'
    BY <2>1
  <2>3. Midway(q, u)'
    BY <2>1, <2>2 DEF Midway
  <2>4. QED
    BY <2>2, <2>3 DEF OnTheWay
<1>3. QED
  BY <1>1, <1>2

SyncPC == {"remove", "assign", "status"}

\* The same, in terms of the handler that moves.
LEMMA OthersFrame ==
  ASSUME NEW q \in Requests, \A p \in Requests \ {q} : request'[p] = request[p],
         NEW u, account'[u] = account[u], mirror'[u] = mirror[u],
         ~Syncing(q, u), ~Syncing(q, u)',
         Settled(u) \/ OnTheWay(u)
  PROVE  (Settled(u) \/ OnTheWay(u))'
<1>1. \A p \in Requests : Syncing(p, u)' <=> Syncing(p, u)
  BY DEF Syncing
<1>2. \A p \in Requests : Syncing(p, u) => request'[p] = request[p]
  OBVIOUS
<1>3. QED
  BY <1>1, <1>2, UserFrame

\* A handler starts to sync u, alone: u was settled.
LEMMA AloneIsSettled ==
  ASSUME NEW q \in Requests, NEW u, ~Syncing(q, u), ~Contended(q, u),
         Settled(u) \/ OnTheWay(u)
  PROVE  InSync(u) /\ \A p \in Requests : ~Syncing(p, u)
  BY DEF Contended, Settled, OnTheWay

\* A handler that syncs u is the only one.
LEMMA OnlyOne ==
  ASSUME NEW q \in Requests, NEW u, Syncing(q, u), Settled(u) \/ OnTheWay(u)
  PROVE  Midway(q, u) /\ \A p \in Requests \ {q} : ~Syncing(p, u)
  BY DEF Settled, OnTheWay

Kept(u) == u \in Users /\ u \notin excused' \cup overwritten'

\* The steps that start a sync.
LEMMA StartKeeps ==
  ASSUME TypeOK, ValuesFit, Locking, NEW q \in Requests,
         Commit(q) \/ CommitGrant(q) \/ Retry(q),
         NEW u, Kept(u), Settled(u) \/ OnTheWay(u)
  PROVE  (Settled(u) \/ OnTheWay(u))'
<1> DEFINE s == request[q]  n == request'[q]
<1>1. /\ s.pc \in {"locked", "unchanged"} /\ n \in Sync /\ n.user = s.user /\ s.user \in Users
      /\ request' = [request EXCEPT ![q] = n] /\ mirror' = mirror
  <2>1. CASE Commit(q)
    BY <2>1, CommitEffect DEF Commit, At, Locked
  <2>2. CASE CommitGrant(q)
    BY <2>2, CommitGrantEffect DEF CommitGrant, At, Locked
  <2>3. CASE Retry(q)
    BY <2>3, RetryEffect DEF Retry, At, Unchanged
  <2>4. QED
    BY <2>1, <2>2, <2>3
<1>2. \A p \in Requests \ {q} : request'[p] = request[p]
  BY <1>1 DEF TypeOK
<1>3. ~Syncing(q, u)
  BY <1>1 DEF Syncing
<1>4. CASE u # s.user
  <2>1. account'[u] = account[u]
    BY <1>4 DEF Commit, CommitGrant, Retry, tables, TypeOK, Kept
  <2>2. ~Syncing(q, u)'
    BY <1>1, <1>4 DEF Syncing
  <2>3. QED
    BY <1>1, <1>2, <1>3, <2>1, <2>2, OthersFrame
<1>5. CASE u = s.user
  <2>1. ~Contended(q, u)
    BY <1>5 DEF Commit, CommitGrant, Retry, Excuse, Kept
  <2>2. InSync(u) /\ \A p \in Requests : ~Syncing(p, u)
    BY <1>3, <2>1, AloneIsSettled
  <2>3. Syncing(q, u)' /\ \A p \in Requests \ {q} : ~Syncing(p, u)'
    BY <1>1, <1>2, <1>5, <2>2 DEF Syncing, Sync
  <2>4. mirror'[u].roles = {account[u].role} /\ mirror'[u].status = account[u].status
    BY <1>1, <2>2 DEF InSync
  <2>5. Midway(q, u)'
    <3>1. CASE Commit(q)
      <4>1. /\ s \in Locked /\ n.old = s.read[s.field] /\ n.new = s.value
            /\ s.field = "status" => n.pc = "status"
            /\ s.field = "role" => n.pc = IF n.old = n.new THEN "assign" ELSE "remove"
            /\ s.field \in {"role", "status"} /\ n.audit = Len(audits) + 1
            /\ q \notin Consumers
        BY <3>1, CommitEffect
      <4>2. /\ s.read = account[u] /\ s.value # s.read[s.field]
        BY <1>5, <3>1, <4>1 DEF Commit, Locking
      <4>3. account'[u] = [account[u] EXCEPT ![s.field] = s.value] /\ account[u] \in Account
        BY <1>1, <1>5, <3>1, <4>2 DEF Commit, TypeOK
      <4>4. n.audit # NoAudit
        BY <4>1 DEF NoAudit, TypeOK
      <4>5. CASE s.field = "role"
        <5>1. account'[u].role = s.value /\ account'[u].status = account[u].status
          BY <4>3, <4>5 DEF Account
        <5>2. n.pc = "remove" /\ n.old = account[u].role
          BY <4>1, <4>2, <4>5
        <5>3. QED
          BY <2>4, <4>1, <5>1, <5>2 DEF Midway
      <4>6. CASE s.field = "status"
        <5>1. account'[u].status = s.value /\ account'[u].role = account[u].role
          BY <4>3, <4>6 DEF Account
        <5>2. QED
          BY <2>4, <4>1, <4>4, <4>6, <5>1 DEF Midway
      <4>7. QED
        BY <4>1, <4>5, <4>6
    <3>2. CASE CommitGrant(q)
      <4>1. /\ s \in Locked /\ n.old = s.read.role /\ n.new = "SELLER"
            /\ n.pc = IF n.old = n.new THEN "assign" ELSE "remove"
        BY <3>2, CommitGrantEffect
      <4>2. s.read = account[u] /\ q \in Consumers
        BY <1>5, <3>2 DEF CommitGrant, Locking
      <4>3. account'[u] = [account[u] EXCEPT !.role = "SELLER"] /\ account[u] \in Account
        BY <1>1, <1>5, <3>2, <4>2 DEF CommitGrant, TypeOK
      <4>4. account'[u].role = "SELLER" /\ account'[u].status = account[u].status
        BY <4>3 DEF Account
      <4>5. QED
        BY <2>4, <4>1, <4>2, <4>4 DEF Midway
    <3>3. CASE Retry(q)
      <4>1. /\ n.old = account[u][s.field] /\ n.new = account[u][s.field]
            /\ n.pc = IF s.field = "status" THEN "status" ELSE "assign"
            /\ s.field \in {"role", "status"}
        BY <1>5, <3>3, RetryEffect
      <4>2. account' = account
        BY <3>3 DEF Retry, tables
      <4>3. QED
        BY <2>4, <4>1, <4>2 DEF Midway
    <3>4. QED
      BY <3>1, <3>2, <3>3
  <2>6. QED
    BY <2>3, <2>5 DEF OnTheWay
<1>6. QED
  BY <1>4, <1>5

\* A call to Keycloak: u is in sync after it, or further on, or its audit is broken.
LEMMA CallKeeps ==
  ASSUME TypeOK, ValuesFit, AuditsHeld, NEW q \in Requests,
         RemoveRealmRole(q) \/ AssignRealmRole(q) \/ SyncUserStatus(q),
         NEW u, Kept(u), Settled(u) \/ OnTheWay(u)
  PROVE  (Broken(u) \/ Settled(u) \/ OnTheWay(u))'
<1> DEFINE s == request[q]  n == request'[q]
<1>1. /\ s \in Sync /\ s.user \in Users /\ s.pc \in SyncPC
      /\ request' = [request EXCEPT ![q] = n]
      /\ account' = account /\ audits' = audits
      /\ mirror \in MirrorTypes /\ \A w \in Users \ {s.user} : mirror'[w] = mirror[w]
  <2>1. CASE RemoveRealmRole(q)
    BY <2>1, RemoveEffect DEF RemoveRealmRole, tables, TypeOK, Sync, SyncPC, MirrorTypes
  <2>2. CASE AssignRealmRole(q)
    BY <2>2, AssignEffect DEF AssignRealmRole, tables, TypeOK, Sync, SyncPC, MirrorTypes
  <2>3. CASE SyncUserStatus(q)
    BY <2>3, StatusEffect DEF SyncUserStatus, tables, TypeOK, Sync, SyncPC, MirrorTypes
  <2>4. QED
    BY <2>1, <2>2, <2>3
<1>2. \A p \in Requests \ {q} : request'[p] = request[p]
  BY <1>1 DEF TypeOK
<1>3. CASE u # s.user
  <2>1. n = Idle \/ n.user = s.user
    <3>1. Step(q)
      BY DEF Step, SyncStep
    <3>2. s # Idle
      BY <1>1 DEF Idle, SyncPC
    <3>3. QED
      BY <3>1, <3>2, OneMoves
  <2>2. ~Syncing(q, u) /\ ~Syncing(q, u)'
    BY <1>3, <2>1 DEF Syncing, Idle
  <2>3. account'[u] = account[u] /\ mirror'[u] = mirror[u]
    BY <1>1, <1>3 DEF Kept
  <2>4. QED
    BY <1>2, <2>2, <2>3, OthersFrame
<1>4. CASE u = s.user
  <2>1. Syncing(q, u)
    BY <1>1, <1>4 DEF Syncing, SyncPC
  <2>2. Midway(q, u) /\ \A p \in Requests \ {q} : ~Syncing(p, u)'
    BY <1>2, <2>1, OnlyOne DEF Syncing
  <2>3. mirror[u] \in [roles : SUBSET Role, status : Status] /\ u \in Users
    BY <1>1, <1>4 DEF MirrorTypes
  <2>4. ASSUME n.pc \notin SyncPC, mirror'[u].roles = {account[u].role},
               mirror'[u].status = account[u].status
        PROVE  Settled(u)'
    <3>1. InSync(u)'
      BY <1>1, <2>4 DEF InSync
    <3>2. ~Syncing(q, u)'
      BY <2>4 DEF Syncing, SyncPC
    <3>3. QED
      BY <2>2, <3>1, <3>2 DEF Settled
  <2>5. ASSUME s.audit # NoAudit, n = Answered(s, FALSE)
        PROVE  Broken(u)'
    <3>1. WithAudit(q)
      BY <1>1, <2>5 DEF WithAudit, SyncPC
    <3>2. n.pc \notin HeldPC
      BY <1>1, <2>5, AnsweredEffect DEF HeldPC, Idle
    <3>3. QED
      BY <1>1, <1>2, <1>4, <3>1, <3>2, DroppedIsBroken DEF SyncPC
  <2>6. \A ok \in BOOLEAN : Answered(s, ok).pc \notin SyncPC
    BY <1>1, AnsweredShape DEF SyncPC
  <2>7. CASE RemoveRealmRole(q)
    <3>1. /\ s.pc = "remove"
          /\ \/ /\ n \in Sync /\ n.pc = "assign" /\ n.user = s.user /\ n.new = s.new
                /\ n.audit = s.audit
                /\ mirror' = [mirror EXCEPT ![s.user].roles = @ \ {s.old}]
             \/ /\ n = Answered(s, FALSE)
                /\ excused' = IF q \in Consumers THEN excused \cup {s.user} ELSE excused
      BY <2>7, RemoveEffect
    <3>2. q \in Consumers \/ s.audit # NoAudit
      BY <3>1 DEF AuditsHeld, WithAudit, At
    <3>3. CASE n = Answered(s, FALSE) /\ n.pc # "assign"
      <4>1. q \notin Consumers
        BY <1>4, <3>1, <3>3 DEF Kept
      <4>2. QED
        BY <2>5, <3>2, <3>3, <4>1
    <3>4. CASE n.pc = "assign"
      <4>1. n # Answered(s, FALSE)
        BY <2>6, <3>4 DEF SyncPC
      <4>2. mirror'[u] = [mirror[u] EXCEPT !.roles = @ \ {s.old}]
        BY <1>1, <1>4, <2>3, <3>1, <4>1 DEF MirrorTypes
      <4>3. mirror'[u].roles = mirror[u].roles \ {s.old} /\ mirror'[u].status = mirror[u].status
        BY <2>3, <4>2
      <4>4. /\ mirror[u].roles = {s.old} /\ s.new = account[u].role
            /\ mirror[u].status = account[u].status
        BY <2>2, <3>1 DEF Midway
      <4>5. Midway(q, u)' /\ Syncing(q, u)'
        BY <1>1, <1>4, <3>1, <3>2, <3>4, <4>1, <4>3, <4>4 DEF Midway, Syncing
      <4>6. QED
        BY <2>2, <4>5 DEF OnTheWay
    <3>5. QED
      BY <3>1, <3>3, <3>4
  <2>8. CASE AssignRealmRole(q)
    <3>1. s.pc = "assign"
      BY <2>8, AssignEffect
    <3>2. PICK done \in BOOLEAN, ok \in BOOLEAN :
            /\ ok => done
            /\ mirror' = [mirror EXCEPT ![s.user].roles = IF done THEN @ \cup {s.new} ELSE @]
            /\ n = Answered(s, ok)
            /\ excused' = IF q \in Consumers /\ ~ok THEN excused \cup {s.user} ELSE excused
      BY <2>8, AssignEffect
    <3>3. /\ mirror[u].roles \subseteq {s.new} /\ s.new = account[u].role
          /\ mirror[u].status = account[u].status
          /\ (s.audit = NoAudit /\ q \notin Consumers) => mirror[u].roles = {s.new}
      BY <2>2, <3>1 DEF Midway
    <3>4. mirror'[u] = [mirror[u] EXCEPT !.roles = IF done THEN @ \cup {s.new} ELSE @]
      BY <1>1, <1>4, <2>3, <3>2 DEF MirrorTypes
    <3>5. /\ mirror'[u].roles = IF done THEN mirror[u].roles \cup {s.new} ELSE mirror[u].roles
          /\ mirror'[u].status = mirror[u].status
      BY <2>3, <3>4
    <3>6. CASE ok \/ s.audit = NoAudit
      <4>1. ok \/ q \notin Consumers
        BY <1>4, <3>2 DEF Kept
      <4>2. mirror'[u].roles = {account[u].role} /\ mirror'[u].status = account[u].status
        BY <3>2, <3>3, <3>5, <3>6, <4>1
      <4>3. QED
        BY <2>4, <2>6, <3>2, <4>2
    <3>7. CASE ~ok /\ s.audit # NoAudit
      <4>1. n = Answered(s, FALSE)
        BY <3>2, <3>7
      <4>2. QED
        BY <2>5, <3>7, <4>1
    <3>8. QED
      BY <3>6, <3>7
  <2>9. CASE SyncUserStatus(q)
    <3>1. s.pc = "status"
      BY <2>9, StatusEffect
    <3>2. PICK done \in BOOLEAN, ok \in BOOLEAN :
            /\ ok => done
            /\ mirror' = [mirror EXCEPT ![s.user].status = IF done THEN s.new ELSE @]
            /\ n = Answered(s, ok)
      BY <2>9, StatusEffect
    <3>3. /\ mirror[u].roles = {account[u].role} /\ s.new = account[u].status
          /\ s.audit = NoAudit => mirror[u].status = account[u].status
      BY <2>2, <3>1 DEF Midway
    <3>4. mirror'[u] = [mirror[u] EXCEPT !.status = IF done THEN s.new ELSE @]
      BY <1>1, <1>4, <2>3, <3>2 DEF MirrorTypes
    <3>5. /\ mirror'[u].roles = mirror[u].roles
          /\ mirror'[u].status = IF done THEN s.new ELSE mirror[u].status
      BY <2>3, <3>4
    <3>6. CASE ok \/ s.audit = NoAudit
      <4>1. mirror'[u].roles = {account[u].role} /\ mirror'[u].status = account[u].status
        BY <3>2, <3>3, <3>5, <3>6
      <4>2. QED
        BY <2>4, <2>6, <3>2, <4>1
    <3>7. CASE ~ok /\ s.audit # NoAudit
      <4>1. n = Answered(s, FALSE)
        BY <3>2, <3>7
      <4>2. QED
        BY <2>5, <3>7, <4>1
    <3>8. QED
      BY <3>6, <3>7
  <2>10. QED
    BY <2>7, <2>8, <2>9
<1>5. QED
  BY <1>3, <1>4

\* The steps that have nothing to do with Keycloak.
LEMMA OthersKeep ==
  ASSUME TypeOK, ValuesFit, NEW q \in Requests, Step(q),
         ~Commit(q), ~CommitGrant(q), ~Retry(q),
         ~RemoveRealmRole(q), ~AssignRealmRole(q), ~SyncUserStatus(q),
         NEW u, Kept(u), Settled(u) \/ OnTheWay(u)
  PROVE  (Settled(u) \/ OnTheWay(u))'
<1> DEFINE s == request[q]  n == request'[q]
           Goal == s.pc \notin SyncPC /\ n.pc \notin SyncPC /\ mirror' = mirror
<1>0. DOMAIN request = Requests
  BY DEF TypeOK
<1>1. ASSUME NEW w \in Users, NEW f \in Field, NEW v \in Value, LockTarget(q, w, f, v) PROVE Goal
  BY <1>0, <1>1 DEF LockTarget, Idle, SyncPC
<1>2. ASSUME NEW w \in Users, BeginGrant(q, w) \/ BeginEdit(q, w) PROVE Goal
  BY <1>0, <1>2 DEF BeginGrant, BeginEdit, Idle, SyncPC
<1>3. ASSUME LockGrant(q) \/ SaveEdit(q) \/ Publish(q) \/ Return(q) \/ Fail(q) PROVE Goal
  BY <1>0, <1>3 DEF LockGrant, SaveEdit, Publish, Return, Fail, Finish, Idle, At, SyncPC
<1>4. ASSUME FinishAudit(q) PROVE Goal
  BY <1>4, FinishAuditEffect DEF FinishAudit, SyncPC
<1> HIDE DEF Goal
<1>5. Goal
  <2>1. "role" \in Field /\ "status" \in Field /\ Role \subseteq Value /\ Status \subseteq Value
    BY DEF Field, Value
  <2>2. QED
    BY <1>1, <1>2, <1>3, <1>4, <2>1
    DEF Step, MutatorStep, ConsumerStep, EditorStep, SyncStep
<1>6. account'[u] = account[u]
  <2>1. CASE SaveEdit(q)
    BY <2>1 DEF SaveEdit, TypeOK, Kept
  <2>2. CASE ~SaveEdit(q)
    BY <2>2, TablesKept
  <2>3. QED
    BY <2>1, <2>2
<1>7. \A p \in Requests \ {q} : request'[p] = request[p]
  BY OneMoves
<1>8. ~Syncing(q, u) /\ ~Syncing(q, u)'
  BY <1>5 DEF Goal, Syncing, SyncPC
<1>9. mirror'[u] = mirror[u]
  BY <1>5 DEF Goal
<1>10. QED
  BY <1>6, <1>7, <1>8, <1>9, OthersFrame

\* All handlers are lost: a sync that was on its way has an audit, or was a retry
\* that had nothing left to do.
LEMMA RestartKeeps ==
  ASSUME TypeOK, AuditsHeld, Restart, NEW u, Kept(u), Broken(u) \/ Settled(u) \/ OnTheWay(u)
  PROVE  (Broken(u) \/ Settled(u))'
<1>1. /\ \A p \in Requests : request'[p] = Idle /\ Idle.pc = "idle"
      /\ account' = account /\ mirror' = mirror /\ audits' = audits
  BY DEF Restart, tables, Idle
<1>2. \A p \in Requests : ~Syncing(p, u)' /\ \A i : ~(Carries(p, i)')
  BY <1>1 DEF Syncing, Carries
<1>3. CASE Broken(u)
  BY <1>1, <1>2, <1>3 DEF Broken
<1>4. CASE Settled(u)
  BY <1>1, <1>2, <1>4 DEF Settled, InSync
<1>5. CASE OnTheWay(u)
  <2>1. PICK q \in Requests : Syncing(q, u) /\ Midway(q, u)
    BY <1>5 DEF OnTheWay
  <2>2. q \notin Consumers
    BY <2>1 DEF Restart, Kept
  <2>3. CASE request[q].audit # NoAudit
    <3>1. PICK i : i = request[q].audit
      OBVIOUS
    <3>2. WithAudit(q) /\ ~At(q, "publishing") /\ request[q].user = u
      BY <2>1, <2>3 DEF WithAudit, Syncing, At
    <3>3. i \in DOMAIN audits /\ audits[i].user = u /\ audits[i].syncStatus = "PENDING"
      BY <3>1, <3>2 DEF AuditsHeld
    <3>4. QED
      BY <1>1, <1>2, <3>3 DEF Broken
  <2>4. CASE request[q].audit = NoAudit
    <3>1. request[q].pc \in {"assign", "status"}
      BY <2>1, <2>2, <2>4 DEF Syncing, AuditsHeld, WithAudit, At
    <3>2. InSync(u)
      BY <2>1, <2>2, <2>4, <3>1 DEF Midway, InSync
    <3>3. QED
      BY <1>1, <1>2, <3>2 DEF Settled, InSync
  <2>5. QED
    BY <2>3, <2>4
<1>6. QED
  BY <1>3, <1>4, <1>5

\* A user once excused, or overwritten, stays so.
LEMMA HistoriesGrow ==
  ASSUME TypeOK, [Next]_vars
  PROVE  excused \subseteq excused' /\ overwritten \subseteq overwritten'
<1>1. ASSUME NEW q \in Requests, Step(q)
      PROVE  excused \subseteq excused' /\ overwritten \subseteq overwritten'
  <2>1. ASSUME NEW w, NEW b, Excuse(w, b) PROVE excused \subseteq excused'
    BY <2>1 DEF Excuse
  <2>2. CASE RemoveRealmRole(q) \/ AssignRealmRole(q)
    BY <2>1, <2>2 DEF RemoveRealmRole, AssignRealmRole, Unlogged
  <2>3. CASE Commit(q) \/ CommitGrant(q) \/ Retry(q)
    BY <2>1, <2>3 DEF Commit, CommitGrant, Retry
  <2>4. CASE SaveEdit(q)
    BY <2>4 DEF SaveEdit
  <2>5. CASE /\ ~RemoveRealmRole(q) /\ ~AssignRealmRole(q) /\ ~Commit(q) /\ ~CommitGrant(q)
             /\ ~Retry(q) /\ ~SaveEdit(q)
    BY <1>1, <2>5
    DEF Step, MutatorStep, ConsumerStep, EditorStep, SyncStep, LockTarget, Publish,
        BeginGrant, LockGrant, BeginEdit, SyncUserStatus, Return, Fail, FinishAudit, history
  <2>6. QED
    BY <2>2, <2>3, <2>4, <2>5
<1>2. CASE Restart
  BY <1>2 DEF Restart
<1>3. CASE UNCHANGED vars
  BY <1>3 DEF vars
<1>4. QED
  BY <1>1, <1>2, <1>3 DEF Next

\* Every step keeps each user settled, on the way, or with a broken audit.
LEMMA AccountedStep ==
  TypeOK /\ ValuesFit /\ Locking /\ AuditsHeld /\ Accounted /\ [Next]_vars => Accounted'
<1> SUFFICES ASSUME TypeOK, ValuesFit, Locking, AuditsHeld, Accounted, [Next]_vars,
                    NEW u \in Users \ (excused' \cup overwritten')
             PROVE  (Broken(u) \/ Settled(u) \/ OnTheWay(u))'
  BY DEF Accounted
<1>1. Kept(u) /\ (Broken(u) \/ Settled(u) \/ OnTheWay(u))
  BY HistoriesGrow DEF Accounted, Kept
<1>2. ASSUME NEW q \in Requests, Step(q)
      PROVE  (Broken(u) \/ Settled(u) \/ OnTheWay(u))'
  <2>1. CASE Broken(u)
    BY <1>2, <2>1, BrokenStays
  <2>2. CASE Settled(u) \/ OnTheWay(u)
    <3>1. CASE Commit(q) \/ CommitGrant(q) \/ Retry(q)
      BY <1>1, <2>2, <3>1, StartKeeps
    <3>2. CASE RemoveRealmRole(q) \/ AssignRealmRole(q) \/ SyncUserStatus(q)
      BY <1>1, <2>2, <3>2, CallKeeps
    <3>3. CASE /\ ~Commit(q) /\ ~CommitGrant(q) /\ ~Retry(q)
               /\ ~RemoveRealmRole(q) /\ ~AssignRealmRole(q) /\ ~SyncUserStatus(q)
      BY <1>1, <1>2, <2>2, <3>3, OthersKeep
    <3>4. QED
      BY <3>1, <3>2, <3>3
  <2>3. QED
    BY <1>1, <2>1, <2>2
<1>3. CASE Restart
  BY <1>1, <1>3, RestartKeeps
<1>4. CASE UNCHANGED vars
  BY <1>1, <1>4
  DEF vars, Broken, Carries, Settled, InSync, Syncing, OnTheWay, Midway
<1>5. QED
  BY <1>2, <1>3, <1>4 DEF Next

-----------------------------------------------------------------------------
(* The inductive invariant and the theorems.                               *)

IInv ==
  /\ TypeOK /\ ValuesFit /\ FoundersStay /\ Locking /\ AuditsHeld
  /\ AssignmentFollowsRole /\ MailFollowsAudit /\ Accounted

\* Nothing is in progress at the start and the mirror agrees.
LEMMA InvInit == Init => IInv
<1> SUFFICES ASSUME Init PROVE IInv
  OBVIOUS
<1>1. \A q \in Requests : request[q] = Idle /\ Idle.pc = "idle" /\ Idle.user = NoUser
  BY DEF Init, Idle
<1>2. account \in [Users -> Account] /\ \A f \in Founders : account[f] = AdminAccount
  BY AccountsAssumption DEF Init, Account, Role, Status, AdminAccount
<1>3. TypeOK
  <2>1. mirror \in [Users -> [roles : SUBSET Role, status : Status]]
    BY <1>2 DEF Init, Account
  <2>2. audits \in Seq(Audit) /\ Len(audits) <= MaxAudits /\ published \subseteq DOMAIN audits
    BY AccountsAssumption DEF Init
  <2>3. QED
    BY <1>1, <1>2, <2>1, <2>2 DEF Init, TypeOK
<1>4. ValuesFit /\ Locking /\ AuditsHeld
  BY <1>1 DEF ValuesFit, Locking, AuditsHeld, WithAudit, At
<1>5. FoundersStay
  BY <1>1, <1>2, AccountsAssumption DEF FoundersStay
<1>6. AssignmentFollowsRole /\ MailFollowsAudit
  BY DEF Init, AssignmentFollowsRole, MailFollowsAudit
<1>7. Accounted
  <2>1. \A u \in Users : mirror[u].roles = {account[u].role} /\ mirror[u].status = account[u].status
    BY DEF Init
  <2>2. QED
    BY <1>1, <2>1 DEF Accounted, Settled, InSync, Syncing
<1>8. QED
  BY <1>3, <1>4, <1>5, <1>6, <1>7 DEF IInv

\* The parts, each by its own lemma.
LEMMA InvStep == IInv /\ [Next]_vars => IInv'
  BY TypeStep, FoundersStep, LockingStep, AuditsStep, AssignmentStep, MailStep,
     AccountedStep DEF IInv

\* All parts of the invariant at once: Locking and AuditsHeld say what the row lock and
\* the audit of a handler give it, the rest rests on them.
THEOREM Invariance == Spec => []IInv
  BY InvInit, InvStep, PTL DEF Spec

\* The rows, the mirror and every handler keep their types; an audit a handler means
\* to finish exists.
THEOREM TypeCorrect == Spec => []TypeOK
<1>1. IInv => TypeOK
  BY DEF IInv
<1>2. QED
  BY <1>1, Invariance, PTL

\* assertTargetCanBeManaged, admin-user.service.ts:567-573: because no ADMIN is ever a
\* target, an admin of the start keeps role and status, against any number of
\* mutations, approvals, stale saves and restarts.
THEOREM SomeAdminIsActive == Spec => []SomeActiveAdmin
<1>1. IInv => SomeActiveAdmin
  BY AccountsAssumption DEF IInv, FoundersStay, AdminAccount, SomeActiveAdmin, ActiveAdmins, ActiveAdmin
<1>2. QED
  BY <1>1, Invariance, PTL

\* reconcilePrimaryRole and the upsert of an approval: with the row locked, the active
\* assignment is written together with the role it is for.
THEOREM AssignmentsFollowRoles == Spec => []AssignmentFollowsRole
<1>1. IInv => AssignmentFollowsRole
  BY DEF IInv
<1>2. QED
  BY <1>1, Invariance, PTL

\* finishAudit runs before the event is published, and no other handler touches the
\* audit of this one.
THEOREM MailsFollowAudits == Spec => []MailFollowsAudit
<1>1. IInv => MailFollowsAudit
  BY DEF IInv
<1>2. QED
  BY <1>1, Invariance, PTL

\* updateRole and updateStatus, admin-user.service.ts:171: a user whose audits all say
\* SUCCESS, and for whom nothing is in progress, is the same in Keycloak, through
\* failures of each call, of each update of an audit, and restarts between them.
THEOREM GapsAreVisible == Spec => []GapIsVisible
<1>1. IInv => GapIsVisible
  <2> SUFFICES ASSUME IInv, NEW u \in Users \ (excused \cup overwritten),
                      \A q \in Requests : request[q].user # u,
                      \A i \in DOMAIN audits :
                        audits[i].user = u => audits[i].syncStatus = "SUCCESS"
               PROVE  mirror[u] = [roles |-> {account[u].role}, status |-> account[u].status]
    BY DEF GapIsVisible
  <2>1. ~Broken(u) /\ ~OnTheWay(u)
    BY DEF Broken, OnTheWay, Syncing
  <2>2. InSync(u)
    BY <2>1 DEF IInv, Accounted, Settled
  <2>3. mirror[u] \in [roles : SUBSET Role, status : Status]
    BY DEF IInv, TypeOK
  <2>4. QED
    BY <2>2, <2>3 DEF InSync
<1>2. QED
  BY <1>1, Invariance, PTL

\* The steps ApprovalSparesStaff allows.
StaffSpared ==
  \A q \in Consumers : \A u \in Users :
    (At(q, "locked") /\ request[q].user = u /\ ~Grantable(u))
      => account'[u].role = account[u].role

\* grantApprovedSellerRole, seller-role-assignment.service.ts:76-86: the role that was
\* tested under the lock is the role at the commit.
THEOREM ApprovalsSpareStaff == Spec => ApprovalSparesStaff
<1>1. IInv => \A q \in Consumers : At(q, "locked") => Grantable(request[q].user)
  BY DEF IInv, Locking, Requests
<1>2. IInv /\ [Next]_vars => [StaffSpared]_vars
  BY <1>1 DEF StaffSpared
<1>3. Spec => [][StaffSpared]_vars
  BY <1>2, Invariance, PTL DEF Spec
<1>4. QED
  BY <1>3 DEF ApprovalSparesStaff, StaffSpared

\* The steps OneFieldAtATime allows.
OneField ==
  \A u \in Users :
    (/\ account'[u].role # account[u].role
     /\ account'[u].status # account[u].status)
      => u \in overwritten'

\* A transaction writes the entity it read under the lock: the field it does not
\* change is the one in the table.
THEOREM OneFieldChanges == Spec => OneFieldAtATime
<1>1. IInv /\ [Next]_vars => [OneField]_vars
  <2> SUFFICES ASSUME IInv, Next, NEW u \in Users,
                      account'[u].role # account[u].role,
                      account'[u].status # account[u].status
               PROVE  u \in overwritten'
    BY DEF OneField
  <2>0. TypeOK /\ ValuesFit /\ Locking
    BY DEF IInv
  <2>1. ASSUME NEW q \in Requests, Commit(q) PROVE FALSE
    <3>1. request[q] \in Locked /\ At(q, "locked") /\ request[q].read = account[request[q].user]
      BY <2>0, <2>1, CommitEffect DEF Commit, Locking
    <3>2. QED
      BY <2>0, <2>1, <3>1 DEF Commit, TypeOK, Locked, Account, Field
  <2>2. ASSUME NEW q \in Requests, CommitGrant(q) PROVE FALSE
    <3>1. request[q] \in Locked /\ At(q, "locked") /\ request[q].read = account[request[q].user]
      BY <2>0, <2>2, CommitGrantEffect DEF CommitGrant, Locking
    <3>2. QED
      BY <2>0, <2>2, <3>1 DEF CommitGrant, TypeOK, Locked, Account
  <2>3. ASSUME NEW q \in Requests, SaveEdit(q) PROVE u \in overwritten'
    BY <2>0, <2>3 DEF SaveEdit, TypeOK
  <2>4. ASSUME NEW q \in Requests, Step(q), ~Commit(q), ~CommitGrant(q), ~SaveEdit(q)
        PROVE  FALSE
    BY <2>4, TablesKept
  <2>5. ~Restart
    BY DEF Restart, tables
  <2>6. QED
    BY <2>1, <2>2, <2>3, <2>4, <2>5 DEF Next
<1>2. Spec => [][OneField]_vars
  BY <1>1, Invariance, PTL DEF Spec
<1>3. QED
  BY <1>2 DEF OneFieldAtATime, OneField
=============================================================================
