--------------------------- MODULE AccessProfiles ---------------------------
(***************************************************************************)
(* The access profile of a user: AccessControlService.buildViewerAccess,   *)
(* which reads it from Redis or builds it from three reads of the          *)
(* database, against the two kinds of change that must show in it -        *)
(* a new role of the user (committed by AdminUserService or                *)
(* SellerRoleAssignmentService) and a grant of a role turned on or off     *)
(* (updateRolePermission) - each followed by an invalidation of the cache. *)
(* A third writer changes users.role and invalidates nothing: a handler    *)
(* that saves a whole User it has read earlier (updateProfile,             *)
(* updateAvatar, syncKeycloakIdentity) puts an older role back.            *)
(*                                                                         *)
(* The process restarts, and may come back as another version, earlier or  *)
(* later, whose manifest of permissions differs: the catalogue is seeded   *)
(* again, and the keys in Redis carry the version.                         *)
(*                                                                         *)
(* A profile is the set of the permissions granted; a permission stands    *)
(* for a code with one scope.  The navigation is left out.                 *)
(***************************************************************************)
EXTENDS Naturals, FiniteSets

CONSTANTS
  Users,
  Role,         \* codes of access_roles; ADMIN is one
  Permission,
  Version,      \* the values of ACCESS_CONTROL_PERMISSION_VERSION
  Manifest,     \* PERMISSION_DEFINITIONS of each version
  Critical,     \* ADMIN_CRITICAL_PERMISSION_CODES
  Default,      \* ROLE_PERMISSION_DEFINITIONS: a version has the pairs of its manifest
  Viewers,      \* requests that answer with a profile: /auth/me, refresh, ...
  Changers,     \* requests that change a role or a grant
  Editors,      \* requests that read a User and save it whole
  Faults,       \* do Redis, PostgreSQL or the process fail?
  NoUser

ASSUME ProfilesAssumption ==
  /\ "ADMIN" \in Role /\ Manifest \in [Version -> SUBSET Permission]
  /\ \A v \in Version : Critical \subseteq Manifest[v]
  /\ Default \subseteq Role \X Permission /\ {"ADMIN"} \X Critical \subseteq Default
  /\ Faults \in BOOLEAN /\ NoUser \notin Users

VARIABLES
  role,     \* users.role
  active,   \* the roles of the user's active rows in user_role_assignments
  version,  \* of the process that runs
  offered,  \* access_permissions: no row, or is_active
  grant,    \* access_role_permissions: no row, or is_active
  cache,    \* access-profile:<user>:<version> in Redis
  view,     \* what each viewer has reached and remembers
  change,   \* what each changer has reached, and the keys it invalidates
  edit,     \* the entity that each editor has read and is to save
  raced     \* history: keys whose profile may be stale, and why is known

vars == <<role, active, version, offered, grant, cache, view, change, edit, raced>>
database == <<role, active, version, offered, grant>>

Profile == SUBSET Permission
Keys == Users \X Version
KeysOf(S) == S \X Version
Row == {"absent", "on", "off"}
NotCached == [hit |-> FALSE]
Cached(profile) == [hit |-> TRUE, profile |-> profile]

View ==
  [pc : {"idle",
         "loaded",    \* the entity of the user was read -> Redis GET
         "missed",    \* nothing cached                  -> resolveUserRoles
         "resolved",  \* the roles are known             -> resolvePermissionGrants
         "built"},    \* the profile is complete         -> Redis SET, answer
   user : Users \cup {NoUser}, roles : SUBSET Role, profile : Profile]

NotViewing == [pc |-> "idle", user |-> NoUser, roles |-> {}, profile |-> {}]

Change ==
  [pc : {"idle",
         "saved",     \* the grant is saved              -> audit
         "written",   \* the database is up to date      -> Redis KEYS
         "listed"},   \* KEYS found the keys of victims  -> Redis DEL
   scope : SUBSET Users, victims : SUBSET Keys]

NotChanging == [pc |-> "idle", scope |-> {}, victims |-> {}]

NotEditing == [user |-> NoUser]
Edit == {NotEditing} \cup [user : Users, role : Role]

TypeOK ==
  /\ role \in [Users -> Role]
  /\ active \in [Users -> SUBSET Role]
  /\ version \in Version
  /\ offered \in [Permission -> Row]
  /\ grant \in [Role \X Permission -> Row]
  /\ cache \in [Keys -> {NotCached} \cup {Cached(p) : p \in Profile}]
  /\ view \in [Viewers -> View]
  /\ change \in [Changers -> Change]
  /\ edit \in [Editors -> Edit]
  /\ raced \subseteq Keys

\* Mutant: a permission that left the manifest stays as it is.
ListedOnly(v) == [p \in Permission |-> IF p \in Manifest[v] THEN "on" ELSE offered[p]]

\* seedPermissions: upsert what the manifest has, turn off what it has no more.
Listed(v) ==
  [p \in Permission |->
     IF p \in Manifest[v] THEN "on" ELSE IF offered[p] = "on" THEN "off" ELSE offered[p]]

\* Mutant: the table is made anew from the definitions.
SeededAnew(g, v) ==
  [rp \in {d \in Default : d[2] \in Manifest[v]} |-> "on"]

\* seedRolePermissions: rows that exist are left as they are.
Seeded(g, v) ==
  [rp \in Role \X Permission |->
     IF g[rp] = "absent" /\ rp \in Default /\ rp[2] \in Manifest[v] THEN "on" ELSE g[rp]]

Init ==
  /\ role \in [Users -> Role]
  /\ active = [u \in Users |-> {}]
  /\ version \in Version
  /\ offered = [p \in Permission |-> IF p \in Manifest[version] THEN "on" ELSE "absent"]
  /\ grant = Seeded([rp \in Role \X Permission |-> "absent"], version)
  /\ cache = [k \in Keys |-> NotCached]
  /\ view = [v \in Viewers |-> NotViewing]
  /\ change = [c \in Changers |-> NotChanging]
  /\ edit = [e \in Editors |-> NotEditing]
  /\ raced = {}

-----------------------------------------------------------------------------
\* What the database grants to somebody who has these roles.
Granted(roles) ==
  {p \in Permission : offered[p] = "on" /\ \E r \in roles : grant[<<r, p>>] = "on"}
Current(u) == Granted({role[u]} \cup active[u])

Viewing(u) == \E v \in Viewers : view[v].user = u
Key(u) == <<u, version>>
ViewedNow == {Key(u) : u \in {w \in Users : Viewing(w)}}

\* A deleted entry is nobody's memory of an old profile, unless a viewer is
\* still to write what it has read.
Settled(S) == raced \ (S \ ViewedNow)

-----------------------------------------------------------------------------
(* buildViewerAccess.                                                      *)

\* The caller has loaded the entity: findUserByIdentity, or the row of the
\* refresh token, long before for a refresh.  The role is read here.
BeginView(v, u) ==
  /\ view[v] = NotViewing
  /\ view' = [view EXCEPT ![v] =
       [pc |-> "loaded", user |-> u, roles |-> {role[u]}, profile |-> {}]]
  /\ UNCHANGED <<database, cache, change, edit, raced>>

\* A read that fails counts as a miss.
CacheGet(v) ==
  LET hit == cache[Key(view[v].user)].hit IN
  /\ view[v].pc = "loaded"
  /\ \/ hit /\ view' = [view EXCEPT ![v] = NotViewing]
     \/ (Faults \/ ~hit) /\ view' = [view EXCEPT ![v].pc = "missed"]
  /\ UNCHANGED <<database, cache, change, edit, raced>>

ResolveUserRoles(v) ==
  /\ view[v].pc = "missed"
  /\ view' = [view EXCEPT ![v].pc = "resolved", ![v].roles = @ \cup active[view[v].user]]
  /\ UNCHANGED <<database, cache, change, edit, raced>>

ResolvePermissionGrants(v) ==
  /\ view[v].pc = "resolved"
  /\ view' = [view EXCEPT ![v].pc = "built", ![v].profile = Granted(view[v].roles)]
  /\ UNCHANGED <<database, cache, change, edit, raced>>

\* A write that fails is only logged.
CacheSet(v) ==
  /\ view[v].pc = "built"
  /\ \/ cache' = [cache EXCEPT ![Key(view[v].user)] = Cached(view[v].profile)]
     \/ Faults /\ UNCHANGED cache
  /\ view' = [view EXCEPT ![v] = NotViewing]
  /\ UNCHANGED <<database, change, edit, raced>>

-----------------------------------------------------------------------------
(* The changes.  A viewer that has begun may still write what it read      *)
(* before: the history variable remembers the keys this happens to.        *)

\* updateRole and grantApprovedSellerRole, neither of which takes its role from
\* an ADMIN: the transaction commits.
CommitRole(c, u, r) ==
  /\ change[c] = NotChanging /\ role[u] \notin {r, "ADMIN"}
  /\ role' = [role EXCEPT ![u] = r]
  /\ active' = [active EXCEPT ![u] = {r}]
  /\ change' = [change EXCEPT ![c] = [pc |-> "written", scope |-> {u}, victims |-> {}]]
  /\ raced' = raced \cup ({Key(u)} \cap ViewedNow)
  /\ UNCHANGED <<version, offered, grant, cache, view, edit>>

\* Mutant: the core permissions of ADMIN are protected for nobody.
IsDisablingNothing(r, p, enabled) == FALSE

\* isDisablingCriticalAdminPermission.
IsDisablingCritical(r, p, enabled) == r = "ADMIN" /\ p \in Critical /\ ~enabled

\* updateRolePermission: 404 without the row of the permission; the row of the
\* grant is inserted or updated.
SaveGrant(c, r, p, enabled) ==
  /\ change[c] = NotChanging /\ offered[p] # "absent" /\ ~IsDisablingCritical(r, p, enabled)
  /\ grant' = [grant EXCEPT ![<<r, p>>] = IF enabled THEN "on" ELSE "off"]
  /\ change' = [change EXCEPT ![c] = [pc |-> "saved", scope |-> Users, victims |-> {}]]
  /\ raced' = raced \cup ViewedNow
  /\ UNCHANGED <<role, active, version, offered, cache, view, edit>>

\* The audit row.  If it cannot be saved the grant stays and nobody invalidates.
SaveAudit(c) ==
  /\ change[c].pc = "saved"
  /\ \/ change' = [change EXCEPT ![c].pc = "written"] /\ UNCHANGED raced
     \/ /\ Faults
        /\ change' = [change EXCEPT ![c] = NotChanging]
        /\ raced' = raced \cup KeysOf(change[c].scope)
  /\ UNCHANGED <<database, cache, view, edit>>

\* invalidateUser, invalidateAll: KEYS, then DEL of the keys found.  An error of
\* Redis is only logged.
LosesInvalidation(c) ==
  /\ Faults
  /\ change' = [change EXCEPT ![c] = NotChanging]
  /\ raced' = raced \cup KeysOf(change[c].scope)

\* Mutant: only the keys of the version that runs are looked up.
ListCurrent(c) ==
  /\ change[c].pc = "written"
  /\ change' = [change EXCEPT ![c].pc = "listed",
       ![c].victims = {k \in KeysOf(change[c].scope) : cache[k].hit /\ k[2] = version}]
  /\ UNCHANGED <<database, cache, view, edit, raced>>

List(c) ==
  /\ change[c].pc = "written"
  /\ \/ /\ change' = [change EXCEPT ![c].pc = "listed",
                        ![c].victims = {k \in KeysOf(change[c].scope) : cache[k].hit}]
        /\ UNCHANGED raced
     \/ LosesInvalidation(c)
  /\ UNCHANGED <<database, cache, view, edit>>

Delete(c) ==
  /\ change[c].pc = "listed"
  /\ \/ /\ cache' = [k \in Keys |-> IF k \in change[c].victims THEN NotCached ELSE cache[k]]
        /\ change' = [change EXCEPT ![c] = NotChanging]
        /\ raced' = Settled(change[c].victims)
     \/ LosesInvalidation(c) /\ UNCHANGED cache
  /\ UNCHANGED <<database, view, edit>>

-----------------------------------------------------------------------------
(* The saves of a whole entity: no lock, no version check, no invalidation. *)

\* getProfileByLocalId, or the user that login looked up.
BeginEdit(e, u) ==
  /\ edit[e] = NotEditing
  /\ edit' = [edit EXCEPT ![e] = [user |-> u, role |-> role[u]]]
  /\ UNCHANGED <<database, cache, view, change, raced>>

\* What was cached or read of u before its role was put back.
Overtaken(u) == {k \in KeysOf({u}) : cache[k].hit} \cup ({Key(u)} \cap ViewedNow)

\* userRepo.save(user) writes every column as it was read, the role too.
SaveEdit(e) ==
  LET u == edit[e].user IN
  /\ edit[e] # NotEditing
  /\ \/ /\ role' = [role EXCEPT ![u] = edit[e].role]
        /\ raced' = IF role[u] = edit[e].role THEN raced ELSE raced \cup Overtaken(u)
     \/ Faults /\ UNCHANGED <<role, raced>>
  /\ edit' = [edit EXCEPT ![e] = NotEditing]
  /\ UNCHANGED <<active, version, offered, grant, cache, view, change>>

-----------------------------------------------------------------------------
\* The TTL of 600 s.
Expire(k) ==
  /\ cache[k].hit
  /\ cache' = [cache EXCEPT ![k] = NotCached]
  /\ raced' = Settled({k})
  /\ UNCHANGED <<database, view, change, edit>>

\* The process stops between any two steps; version v starts and seeds the
\* catalogue before it takes requests.
Restart(v) ==
  /\ Faults
  /\ version' = v
  /\ offered' = Listed(v)
  /\ grant' = Seeded(grant, v)
  /\ view' = [w \in Viewers |-> NotViewing]
  /\ change' = [c \in Changers |-> NotChanging]
  /\ edit' = [e \in Editors |-> NotEditing]
  /\ raced' = raced \cup KeysOf(UNION {change[c].scope : c \in Changers})
  /\ UNCHANGED <<role, active, cache>>

Next ==
  \/ \E v \in Viewers :
       \/ \E u \in Users : BeginView(v, u)
       \/ CacheGet(v) \/ ResolveUserRoles(v) \/ ResolvePermissionGrants(v) \/ CacheSet(v)
  \/ \E c \in Changers :
       \/ \E u \in Users, r \in Role : CommitRole(c, u, r)
       \/ \E r \in Role, p \in Permission, b \in BOOLEAN : SaveGrant(c, r, p, b)
       \/ SaveAudit(c) \/ List(c) \/ Delete(c)
  \/ \E e \in Editors : SaveEdit(e) \/ \E u \in Users : BeginEdit(e, u)
  \/ \E k \in Keys : Expire(k)
  \/ \E v \in Version : Restart(v)

Spec == Init /\ [][Next]_vars

-----------------------------------------------------------------------------
(* Properties.                                                             *)

\* No sequence of changes locks the administrators out of the Admin Center: a
\* profile built from the role ADMIN always carries the core permissions.
AdminKeepsCore ==
  \A v \in Viewers :
    (view[v].pc = "built" /\ "ADMIN" \in view[v].roles) => Critical \subseteq view[v].profile

\* The invalidation is pending: nobody has promised the new profile yet.
Pending(u) == \E c \in Changers : u \in change[c].scope

\* A cached profile differs from what the database grants only while the change
\* is still being invalidated, or because one of three known causes hit this key:
\* a viewer had begun before the change; the invalidation was lost; the save of a
\* stale entity put the role back under a profile already cached, which nothing
\* invalidates.  Any other path to a stale profile would be a change that forgot
\* the cache, as one made under another version, which a rollback brings to light.
StaleOnlyByRace ==
  \A u \in Users :
    LET c == cache[Key(u)] IN
    (c.hit /\ c.profile # Current(u)) => Pending(u) \/ Key(u) \in raced

\* access-control-seed.service.ts:62, "permissions no longer in the manifest are
\* turned off, so that the old right is not granted any more from DB or cache":
\* no deployment and no rollback lets a viewer find a permission that the version
\* which serves it does not have.
RetiredIsGone ==
  \A u \in Users : cache[Key(u)].hit => cache[Key(u)].profile \subseteq Manifest[version]

\* README.md:569, "When an admin changes a role-permission grant Then the next
\* access profile reflects the new permission": once every change and every
\* request is over, what the next viewer will find cached is current.
NextProfileReflects ==
  ((\A c \in Changers : change[c] = NotChanging) /\ ViewedNow = {})
    => \A u \in Users : cache[Key(u)].hit => cache[Key(u)].profile = Current(u)
=============================================================================
