--------------------------- MODULE ProfilesProofs ---------------------------
(***************************************************************************)
(* Theorems about AccessProfiles, for any number of users, viewers and     *)
(* changes in progress, and any versions with any manifests that have the  *)
(* core permissions.                                                       *)
(***************************************************************************)
EXTENDS AccessProfiles, TLAPS

-----------------------------------------------------------------------------
(* The inductive invariant.                                                *)

\* What Redis holds of a profile is right for the version of its key.
CurrentAt(u, w) ==
  {p \in Manifest[w] : \E r \in {role[u]} \cup active[u] : grant[<<r, p>>] = "on"}

\* The catalogue offers what the version that runs lists, and nothing else.
Offered == \A p \in Permission : offered[p] = "on" <=> p \in Manifest[version]

CoreGranted == \A p \in Critical : grant[<<"ADMIN", p>>] = "on"

\* Version w has run: starting it again adds no grant to its permissions.
HasRun(w) == \A d \in Default : d[2] \in Manifest[w] => grant[d] # "absent"

CachedByRun ==
  /\ HasRun(version)
  /\ \A k \in Keys : cache[k].hit => HasRun(k[2]) /\ cache[k].profile \subseteq Manifest[k[2]]

ViewsFit ==
  \A v \in Viewers :
    /\ view[v].pc # "idle" => view[v].user \in Users
    /\ view[v].pc = "built" =>
         /\ view[v].profile \subseteq Manifest[version]
         /\ "ADMIN" \in view[v].roles => Critical \subseteq view[v].profile

\* What a viewer has read still holds, unless a change hit its key.
ViewsFresh ==
  \A v \in Viewers : \A u \in Users :
    (view[v].pc # "idle" /\ view[v].user = u /\ Key(u) \notin raced) =>
      /\ view[v].pc \in {"loaded", "missed"} => view[v].roles = {role[u]}
      /\ view[v].pc = "resolved" => view[v].roles = {role[u]} \cup active[u]
      /\ view[v].pc = "built" => view[v].profile = CurrentAt(u, version)

\* Changer c is still to delete key k, or to look for it.
WillDelete(c, k) ==
  \/ change[c].pc \in {"saved", "written"} /\ k[1] \in change[c].scope
  \/ change[c].pc = "listed" /\ k[1] \in change[c].scope /\ k \in change[c].victims

StaleIsDeleted ==
  \A k \in Keys :
    (cache[k].hit /\ cache[k].profile # CurrentAt(k[1], k[2])) =>
      k \in raced \/ \E c \in Changers : WillDelete(c, k)

IInv ==
  /\ TypeOK /\ Offered /\ CoreGranted /\ CachedByRun /\ ViewsFit /\ ViewsFresh
  /\ StaleIsDeleted

-----------------------------------------------------------------------------
(* Types.                                                                  *)

\* resolvePermissionGrants reads the pairs that are on, of the permissions the
\* version lists: the profile it gives is a set of permissions.
LEMMA GrantedAt ==
  ASSUME TypeOK, Offered, NEW R, NEW u \in Users
  PROVE  /\ Granted(R) = {p \in Manifest[version] : \E r \in R : grant[<<r, p>>] = "on"}
         /\ Granted(R) \in Profile
         /\ Current(u) = CurrentAt(u, version)
<1>1. Manifest[version] \subseteq Permission
  BY ProfilesAssumption DEF TypeOK
<1>2. \A S : Granted(S) = {p \in Manifest[version] : \E r \in S : grant[<<r, p>>] = "on"}
  BY <1>1 DEF Granted, Offered
<1>3. QED
  BY <1>1, <1>2 DEF Current, CurrentAt, Profile

\* Only v's record changes.
LEMMA ViewTypes ==
  ASSUME TypeOK, NEW v \in Viewers, NEW s \in View, view' = [view EXCEPT ![v] = s]
  PROVE  view' \in [Viewers -> View]
  BY DEF TypeOK

\* What each step of a viewer leaves in its record.
LEMMA ViewStep ==
  ASSUME TypeOK, ViewsFit, Offered, NEW v \in Viewers
  PROVE  LET s == view[v]  n == view'[v] IN
         /\ s \in View
         /\ \A u \in Users : BeginView(v, u) =>
              /\ n = [pc |-> "loaded", user |-> u, roles |-> {role[u]}, profile |-> {}]
              /\ n \in View /\ view' = [view EXCEPT ![v] = n]
         /\ CacheGet(v) =>
              /\ s.pc = "loaded"
              /\ n = NotViewing \/ n = [s EXCEPT !.pc = "missed"]
              /\ n \in View /\ view' = [view EXCEPT ![v] = n]
         /\ ResolveUserRoles(v) =>
              /\ s.pc = "missed"
              /\ n = [s EXCEPT !.pc = "resolved", !.roles = s.roles \cup active[s.user]]
              /\ n \in View /\ view' = [view EXCEPT ![v] = n]
         /\ ResolvePermissionGrants(v) =>
              /\ s.pc = "resolved"
              /\ n = [s EXCEPT !.pc = "built", !.profile = Granted(s.roles)]
              /\ n \in View /\ view' = [view EXCEPT ![v] = n]
         /\ CacheSet(v) =>
              /\ s.pc = "built" /\ n = NotViewing
              /\ n \in View /\ view' = [view EXCEPT ![v] = n]
<1> DEFINE s == view[v]  n == view'[v]
<1>0. s \in View /\ NotViewing \in View /\ DOMAIN view = Viewers
  BY DEF TypeOK, View, NotViewing, Profile
<1>1. ASSUME NEW u \in Users, BeginView(v, u)
      PROVE  /\ n = [pc |-> "loaded", user |-> u, roles |-> {role[u]}, profile |-> {}]
             /\ n \in View /\ view' = [view EXCEPT ![v] = n]
  BY <1>0, <1>1 DEF BeginView, TypeOK, View, Profile
<1>2. ASSUME CacheGet(v)
      PROVE  /\ s.pc = "loaded"
             /\ n = NotViewing \/ n = [s EXCEPT !.pc = "missed"]
             /\ n \in View /\ view' = [view EXCEPT ![v] = n]
  BY <1>0, <1>2 DEF CacheGet, View
<1>3. ASSUME ResolveUserRoles(v)
      PROVE  /\ s.pc = "missed"
             /\ n = [s EXCEPT !.pc = "resolved", !.roles = s.roles \cup active[s.user]]
             /\ n \in View /\ view' = [view EXCEPT ![v] = n]
  <2>1. s.pc = "missed" /\ active[s.user] \in SUBSET Role
    BY <1>3 DEF ResolveUserRoles, ViewsFit, TypeOK
  <2>2. view' = [view EXCEPT ![v] = [s EXCEPT !.pc = "resolved", !.roles = s.roles \cup active[s.user]]]
    BY <1>0, <1>3 DEF ResolveUserRoles
  <2>3. n = [s EXCEPT !.pc = "resolved", !.roles = s.roles \cup active[s.user]]
    BY <1>0, <2>2
  <2>4. [s EXCEPT !.pc = "resolved", !.roles = s.roles \cup active[s.user]] \in View
    BY <1>0, <2>1 DEF View
  <2>5. QED
    BY <2>1, <2>2, <2>3, <2>4
<1>4. ASSUME ResolvePermissionGrants(v)
      PROVE  /\ s.pc = "resolved"
             /\ n = [s EXCEPT !.pc = "built", !.profile = Granted(s.roles)]
             /\ n \in View /\ view' = [view EXCEPT ![v] = n]
  <2>1. s.pc = "resolved" /\ Granted(s.roles) \in Profile
    BY <1>4, ProfilesAssumption, GrantedAt DEF ResolvePermissionGrants, ViewsFit, TypeOK
  <2>2. view' = [view EXCEPT ![v] = [s EXCEPT !.pc = "built", !.profile = Granted(s.roles)]]
    BY <1>0, <1>4 DEF ResolvePermissionGrants
  <2>3. n = [s EXCEPT !.pc = "built", !.profile = Granted(s.roles)]
    BY <1>0, <2>2
  <2>4. [s EXCEPT !.pc = "built", !.profile = Granted(s.roles)] \in View
    BY <1>0, <2>1 DEF View
  <2>5. QED
    BY <2>1, <2>2, <2>3, <2>4
<1>5. ASSUME CacheSet(v)
      PROVE  /\ s.pc = "built" /\ n = NotViewing
             /\ n \in View /\ view' = [view EXCEPT ![v] = n]
  BY <1>0, <1>5 DEF CacheSet
<1>6. QED
  BY <1>0, <1>1, <1>2, <1>3, <1>4, <1>5

\* The steps of a viewer, of a changer and of an editor.
Views(v) ==
  \/ \E u \in Users : BeginView(v, u)
  \/ CacheGet(v) \/ ResolveUserRoles(v) \/ ResolvePermissionGrants(v) \/ CacheSet(v)

Changes(c) ==
  \/ \E u \in Users, r \in Role : CommitRole(c, u, r)
  \/ \E r \in Role, p \in Permission, b \in BOOLEAN : SaveGrant(c, r, p, b)
  \/ SaveAudit(c) \/ List(c) \/ Delete(c)

Edits(e) == SaveEdit(e) \/ \E u \in Users : BeginEdit(e, u)

\* The steps of buildViewerAccess, of the two kinds of change and of the saves of a
\* whole entity, by who takes them.
LEMMA NextSteps ==
  Next <=> \/ \E v \in Viewers : Views(v)
           \/ \E c \in Changers : Changes(c)
           \/ \E e \in Editors : Edits(e)
           \/ \E k \in Keys : Expire(k)
           \/ \E v \in Version : Restart(v)
  BY DEF Next, Views, Changes, Edits

CacheTypes == [Keys -> {NotCached} \cup {Cached(p) : p \in Profile}]

\* Every step keeps the types of the rows, of the cache and of the requests.
LEMMA TypeStep ==
  TypeOK /\ ViewsFit /\ Offered /\ [Next]_vars => TypeOK'
<1> SUFFICES ASSUME TypeOK, ViewsFit, Offered, [Next]_vars PROVE TypeOK'
  OBVIOUS
<1>0. NotViewing \in View /\ NotChanging \in Change
  BY DEF NotViewing, View, Profile, NotChanging, Change
<1>9. DOMAIN edit = Editors /\ NotEditing \in Edit
  BY DEF TypeOK, Edit
<1>1. ASSUME NEW v \in Viewers, Views(v) PROVE TypeOK'
  <2>1. view' \in [Viewers -> View]
    BY <1>1, ViewStep, ViewTypes DEF Views
  <2>2. cache' \in CacheTypes
    <3>1. CASE CacheSet(v)
      <4>1. view[v].profile \in Profile
        BY DEF TypeOK, View
      <4>2. QED
        BY <3>1, <4>1 DEF CacheSet, TypeOK, CacheTypes
    <3>2. CASE ~CacheSet(v)
      <4>1. cache' = cache
        BY <1>1, <3>2 DEF Views, BeginView, CacheGet, ResolveUserRoles, ResolvePermissionGrants
      <4>2. QED
        BY <4>1 DEF TypeOK, CacheTypes
    <3>3. QED
      BY <3>1, <3>2
  <2>3. /\ role' = role /\ active' = active /\ version' = version /\ offered' = offered
        /\ grant' = grant /\ change' = change /\ raced' = raced /\ edit' = edit
    BY <1>1 DEF Views, BeginView, CacheGet, ResolveUserRoles, ResolvePermissionGrants, CacheSet,
                database
  <2>4. QED
    BY <2>1, <2>2, <2>3 DEF TypeOK, CacheTypes
<1>2. ASSUME NEW c \in Changers, Changes(c) PROVE TypeOK'
  <2>0. change[c] \in Change /\ DOMAIN change = Changers /\ raced \subseteq Keys
    BY DEF TypeOK
  <2>1. ASSUME NEW u \in Users, NEW r \in Role, CommitRole(c, u, r) PROVE TypeOK'
    <3>1. [pc |-> "written", scope |-> {u}, victims |-> {}] \in Change
      BY DEF Change
    <3>2. Key(u) \in Keys
      BY DEF Key, Keys, TypeOK
    <3>3. change' \in [Changers -> Change] /\ raced' \subseteq Keys
      BY <2>0, <2>1, <3>1, <3>2 DEF CommitRole, TypeOK
    <3>4. role' \in [Users -> Role] /\ active' \in [Users -> SUBSET Role]
      BY <2>1 DEF CommitRole, TypeOK
    <3>5. QED
      BY <2>1, <3>3, <3>4 DEF CommitRole, TypeOK
  <2>2. ASSUME NEW r \in Role, NEW p \in Permission, NEW b \in BOOLEAN, SaveGrant(c, r, p, b)
        PROVE  TypeOK'
    <3>1. [pc |-> "saved", scope |-> Users, victims |-> {}] \in Change
      BY DEF Change
    <3>2. ViewedNow \subseteq Keys
      BY DEF ViewedNow, Key, Keys, TypeOK
    <3>3. change' \in [Changers -> Change] /\ raced' \subseteq Keys
      BY <2>0, <2>2, <3>1, <3>2 DEF SaveGrant, TypeOK
    <3>4. grant' \in [Role \X Permission -> Row]
      BY <2>2 DEF SaveGrant, TypeOK, Row
    <3>5. QED
      BY <2>2, <3>3, <3>4 DEF SaveGrant, TypeOK
  <2>3. KeysOf(change[c].scope) \subseteq Keys
    BY <2>0 DEF Change, KeysOf, Keys
  <2>4. CASE SaveAudit(c)
    <3>1. change' \in [Changers -> Change]
      BY <1>0, <2>0, <2>4 DEF SaveAudit, TypeOK, Change
    <3>2. raced' \subseteq Keys
      BY <2>0, <2>3, <2>4 DEF SaveAudit
    <3>3. QED
      BY <2>4, <3>1, <3>2 DEF SaveAudit, TypeOK, database
  <2>5. CASE List(c)
    <3>1. change' \in [Changers -> Change]
      <4> DEFINE vs == {k \in KeysOf(change[c].scope) : cache[k].hit}
                 n == [change[c] EXCEPT !.pc = "listed", !.victims = vs]
      <4>1. vs \in SUBSET Keys
        BY <2>3
      <4> HIDE DEF vs
      <4>2. n \in Change
        BY <2>0, <4>1 DEF Change
      <4>3. change' = [change EXCEPT ![c] = n] \/ change' = [change EXCEPT ![c] = NotChanging]
        BY <2>0, <2>5 DEF List, LosesInvalidation, vs
      <4> HIDE DEF n
      <4>4. QED
        BY <1>0, <4>2, <4>3 DEF TypeOK
    <3>2. raced' \subseteq Keys
      BY <2>0, <2>3, <2>5 DEF List, LosesInvalidation
    <3>3. QED
      BY <2>5, <3>1, <3>2 DEF List, TypeOK, database
  <2>6. CASE Delete(c)
    <3>1. change' \in [Changers -> Change]
      BY <1>0, <2>6 DEF Delete, LosesInvalidation, TypeOK
    <3>2. raced' \subseteq Keys
      BY <2>0, <2>3, <2>6 DEF Delete, LosesInvalidation, Settled
    <3>3. cache' \in CacheTypes
      BY <2>6 DEF Delete, TypeOK, CacheTypes
    <3>4. QED
      BY <2>6, <3>1, <3>2, <3>3 DEF Delete, TypeOK, database, CacheTypes
  <2>7. QED
    BY <1>2, <2>1, <2>2, <2>4, <2>5, <2>6 DEF Changes
<1>7. ASSUME NEW e \in Editors, Edits(e) PROVE TypeOK'
  <2>0. edit[e] \in Edit
    BY DEF TypeOK
  <2>1. ASSUME NEW u \in Users, BeginEdit(e, u) PROVE TypeOK'
    <3>1. [user |-> u, role |-> role[u]] \in Edit
      BY DEF Edit, TypeOK
    <3>2. edit' \in [Editors -> Edit]
      BY <1>9, <2>1, <3>1 DEF BeginEdit, TypeOK
    <3>3. QED
      BY <2>1, <3>2 DEF BeginEdit, TypeOK, database
  <2>2. CASE SaveEdit(e)
    <3>1. edit[e].user \in Users /\ edit[e].role \in Role
      BY <2>0, <2>2 DEF SaveEdit, Edit
    <3>2. edit' \in [Editors -> Edit]
      BY <1>9, <2>2 DEF SaveEdit, TypeOK
    <3>3. role' \in [Users -> Role]
      BY <2>2, <3>1 DEF SaveEdit, TypeOK
    <3>4. Overtaken(edit[e].user) \subseteq Keys
      BY <3>1 DEF Overtaken, KeysOf, Key, Keys, TypeOK
    <3>5. raced' \subseteq Keys
      BY <2>2, <3>4 DEF SaveEdit, TypeOK
    <3>6. QED
      BY <2>2, <3>2, <3>3, <3>5 DEF SaveEdit, TypeOK
  <2>3. QED
    BY <1>7, <2>1, <2>2 DEF Edits
<1>3. ASSUME NEW k \in Keys, Expire(k) PROVE TypeOK'
  <2>1. cache' \in CacheTypes
    BY <1>3 DEF Expire, TypeOK, CacheTypes
  <2>2. QED
    BY <1>3, <2>1 DEF Expire, Settled, TypeOK, database, CacheTypes
<1>4. ASSUME NEW v \in Version, Restart(v) PROVE TypeOK'
  <2>1. offered' \in [Permission -> Row]
    BY <1>4 DEF Restart, Listed, TypeOK, Row
  <2>2. grant' \in [Role \X Permission -> Row]
    BY <1>4 DEF Restart, Seeded, TypeOK, Row
  <2>3. raced' \subseteq Keys
    <3>1. \A c \in Changers : change[c].scope \subseteq Users
      BY DEF TypeOK, Change
    <3>2. UNION {change[c].scope : c \in Changers} \subseteq Users
      BY <3>1
    <3>3. QED
      BY <1>4, <3>2 DEF Restart, KeysOf, Keys, TypeOK
  <2>4. edit' \in [Editors -> Edit]
    BY <1>9, <1>4 DEF Restart
  <2>5. QED
    BY <1>0, <1>4, <2>1, <2>2, <2>3, <2>4 DEF Restart, TypeOK
<1>5. CASE UNCHANGED vars
  BY <1>5 DEF vars, TypeOK
<1>6. QED
  BY <1>1, <1>2, <1>3, <1>4, <1>5, <1>7, NextSteps

-----------------------------------------------------------------------------
(* The catalogue.                                                          *)

\* Every step but a restart leaves version and catalogue alone, and the grants of a
\* role change in one place, where ADMIN keeps its core.
LEMMA CatalogueStep ==
  TypeOK /\ Offered /\ CoreGranted /\ [Next]_vars
    => /\ Offered' /\ CoreGranted'
       /\ \A d \in Role \X Permission : grant[d] # "absent" => grant'[d] # "absent"
       /\ \A w \in Version : HasRun(w) => HasRun(w)'
       /\ HasRun(version) => HasRun(version)'
<1> SUFFICES ASSUME TypeOK, Offered, CoreGranted, [Next]_vars
             PROVE  /\ Offered' /\ CoreGranted'
                    /\ \A d \in Role \X Permission : grant[d] # "absent" => grant'[d] # "absent"
                    /\ HasRun(version) => HasRun(version)'
  BY ProfilesAssumption DEF HasRun
<1>0. /\ \A p \in Critical : p \in Permission /\ <<"ADMIN", p>> \in Role \X Permission
      /\ \A w \in Version : Manifest[w] \subseteq Permission
  BY ProfilesAssumption DEF TypeOK
<1>1. CASE grant' = grant /\ offered' = offered /\ version' = version
  BY <1>1 DEF Offered, CoreGranted, HasRun
<1>2. ASSUME NEW c, NEW r \in Role, NEW p \in Permission, NEW b \in BOOLEAN, SaveGrant(c, r, p, b)
      PROVE  /\ Offered' /\ CoreGranted'
             /\ \A d \in Role \X Permission : grant[d] # "absent" => grant'[d] # "absent"
             /\ HasRun(version) => HasRun(version)'
  <2>1. offered' = offered /\ version' = version
        /\ grant' = [grant EXCEPT ![<<r, p>>] = IF b THEN "on" ELSE "off"]
        /\ ~IsDisablingCritical(r, p, b)
    BY <1>2 DEF SaveGrant
  <2>2. \A d \in Role \X Permission :
          grant'[d] = IF d = <<r, p>> THEN IF b THEN "on" ELSE "off" ELSE grant[d]
    BY <2>1 DEF TypeOK
  <2>3. CoreGranted'
    BY <1>0, <2>1, <2>2 DEF CoreGranted, IsDisablingCritical
  <2>4. HasRun(version) => HasRun(version)'
    BY <2>1, <2>2, ProfilesAssumption DEF HasRun
  <2>5. QED
    BY <2>1, <2>2, <2>3, <2>4 DEF Offered
<1>3. ASSUME NEW v \in Version, Restart(v)
      PROVE  /\ Offered' /\ CoreGranted'
             /\ \A d \in Role \X Permission : grant[d] # "absent" => grant'[d] # "absent"
             /\ HasRun(version) => HasRun(version)'
  <2>1. version' = v /\ offered' = Listed(v) /\ grant' = Seeded(grant, v)
    BY <1>3 DEF Restart
  <2>2. \A d \in Role \X Permission :
          grant'[d] = IF grant[d] = "absent" /\ d \in Default /\ d[2] \in Manifest[v]
                      THEN "on" ELSE grant[d]
    BY <2>1 DEF Seeded
  <2>3. Offered'
    BY <2>1 DEF Listed, Offered
  <2>4. CoreGranted'
    BY <1>0, <2>2 DEF CoreGranted
  <2>5. HasRun(version)'
    BY <2>1, <2>2, ProfilesAssumption DEF HasRun
  <2>6. QED
    BY <2>2, <2>3, <2>4, <2>5
<1>4. ASSUME ~(grant' = grant /\ offered' = offered /\ version' = version)
      PROVE  \/ \E c \in Changers, r \in Role, p \in Permission, b \in BOOLEAN : SaveGrant(c, r, p, b)
             \/ \E v \in Version : Restart(v)
  BY <1>4
  DEF Next, vars, BeginView, CacheGet, ResolveUserRoles, ResolvePermissionGrants, CacheSet,
      CommitRole, SaveAudit, List, Delete, BeginEdit, SaveEdit, Expire, database
<1>5. QED
  BY <1>1, <1>2, <1>3, <1>4

\* Redis holds profiles of versions that have run, and nothing they do not list.
LEMMA CachedStep ==
  TypeOK /\ Offered /\ CoreGranted /\ CachedByRun /\ ViewsFit /\ [Next]_vars => CachedByRun'
<1> SUFFICES ASSUME TypeOK, Offered, CoreGranted, CachedByRun, ViewsFit, [Next]_vars
             PROVE  CachedByRun'
  OBVIOUS
<1>1. HasRun(version)' /\ \A w \in Version : HasRun(w) => HasRun(w)'
  BY CatalogueStep DEF CachedByRun
<1>2. ASSUME NEW k \in Keys, cache'[k].hit
      PROVE  HasRun(k[2])' /\ cache'[k].profile \subseteq Manifest[k[2]]
  <2>0. k[2] \in Version /\ k[1] \in Users /\ DOMAIN cache = Keys
    BY DEF Keys, TypeOK
  <2>1. CASE cache'[k] = cache[k]
    BY <1>1, <1>2, <2>0, <2>1 DEF CachedByRun
  <2>2. ASSUME NEW v \in Viewers, CacheSet(v), cache'[k] # cache[k]
        PROVE  HasRun(k[2])' /\ cache'[k].profile \subseteq Manifest[k[2]]
    <3>1. view[v].pc = "built" /\ k = Key(view[v].user) /\ cache'[k] = Cached(view[v].profile)
      BY <2>0, <2>2 DEF CacheSet
    <3>2. k[2] = version /\ cache'[k].profile = view[v].profile
      BY <3>1 DEF Key, Cached
    <3>3. view[v].profile \subseteq Manifest[version]
      BY <3>1 DEF ViewsFit
    <3>4. QED
      BY <1>1, <2>0, <3>2, <3>3 DEF CachedByRun
  <2>3. ASSUME cache'[k] # cache[k] PROVE \E v \in Viewers : CacheSet(v)
    <3>1. NotCached.hit = FALSE
      BY DEF NotCached
    <3>2. ASSUME NEW c \in Changers, Delete(c) PROVE FALSE
      BY <1>2, <2>3, <3>1, <3>2 DEF Delete
    <3>3. ASSUME NEW j \in Keys, Expire(j) PROVE FALSE
      BY <1>2, <2>0, <2>3, <3>1, <3>3 DEF Expire
    <3>4. QED
      BY <2>3, <3>2, <3>3
      DEF Next, vars, BeginView, CacheGet, ResolveUserRoles, ResolvePermissionGrants,
          CommitRole, SaveGrant, SaveAudit, List, BeginEdit, SaveEdit, Restart
  <2>4. QED
    BY <2>1, <2>2, <2>3
<1>3. QED
  BY <1>1, <1>2 DEF CachedByRun

-----------------------------------------------------------------------------
(* The viewers.                                                            *)

\* Only its own steps and a restart change what a viewer remembers.
LEMMA OthersView ==
  ASSUME TypeOK, ViewsFit, Offered, [Next]_vars,
         NEW v \in Viewers, view'[v] # view[v], view'[v].pc # "idle"
  PROVE  Views(v)
<1>1. ~\E w \in Version : Restart(w)
  BY DEF Restart, NotViewing
<1>2. ASSUME NEW w \in Viewers, Views(w) PROVE w = v
  <2>1. view' = [view EXCEPT ![w] = view'[w]]
    BY <1>2, ViewStep DEF Views
  <2>2. QED
    BY <2>1 DEF TypeOK
<1>3. ~\E c \in Changers : Changes(c)
  BY DEF Changes, CommitRole, SaveGrant, SaveAudit, List, Delete
<1>4. ~\E k \in Keys : Expire(k)
  BY DEF Expire
<1>5. ~\E e \in Editors : Edits(e)
  BY DEF Edits, BeginEdit, SaveEdit
<1>6. QED
  BY <1>1, <1>2, <1>3, <1>4, <1>5, NextSteps DEF vars

\* A viewer that remembers something was not restarted: version and manifest stay.
LEMMA VersionStays ==
  ASSUME [Next]_vars, NEW v \in Viewers, view'[v].pc # "idle"
  PROVE  version' = version /\ offered' = offered
<1>1. ~\E w \in Version : Restart(w)
  BY DEF Restart, NotViewing
<1>2. QED
  BY <1>1
  DEF Next, vars, BeginView, CacheGet, ResolveUserRoles, ResolvePermissionGrants, CacheSet,
      CommitRole, SaveGrant, SaveAudit, List, Delete, BeginEdit, SaveEdit, Expire, database

\* A profile is built of what the version lists, and of the core for ADMIN.
LEMMA ViewsFitStep ==
  TypeOK /\ Offered /\ CoreGranted /\ ViewsFit /\ [Next]_vars => ViewsFit'
<1> SUFFICES ASSUME TypeOK, Offered, CoreGranted, ViewsFit, [Next]_vars,
                    NEW v \in Viewers, view'[v].pc # "idle"
             PROVE  /\ view'[v].user \in Users
                    /\ view'[v].pc = "built" =>
                         /\ view'[v].profile \subseteq Manifest[version']
                         /\ "ADMIN" \in view'[v].roles => Critical \subseteq view'[v].profile
  BY DEF ViewsFit
<1>0. version' = version
  BY VersionStays
<1>1. CASE view'[v] = view[v]
  BY <1>0, <1>1 DEF ViewsFit
<1>2. CASE view'[v] # view[v]
  <2> DEFINE s == view[v]  n == view'[v]
  <2>0. Views(v) /\ s \in View
    BY <1>2, OthersView DEF TypeOK
  <2>1. ASSUME NEW u \in Users, BeginView(v, u) PROVE n.user = u /\ n.pc = "loaded"
    BY <2>1 DEF BeginView, TypeOK
  <2>2. CASE CacheGet(v) \/ ResolveUserRoles(v)
    <3>1. s.pc \in {"loaded", "missed"} /\ n.user = s.user /\ n.pc # "built"
      <4>1. n # NotViewing
        BY DEF NotViewing
      <4>2. QED
        BY <2>0, <2>2, <4>1, ViewStep DEF View
    <3>2. QED
      BY <3>1 DEF ViewsFit
  <2>3. CASE ResolvePermissionGrants(v)
    <3>1. /\ s.pc = "resolved" /\ n.user = s.user /\ n.roles = s.roles
          /\ n.profile = Granted(s.roles)
      BY <2>0, <2>3, ViewStep DEF View
    <3>2. s.user \in Users
      BY <3>1 DEF ViewsFit
    <3>3. n.profile = {p \in Manifest[version] : \E r \in s.roles : grant[<<r, p>>] = "on"}
      BY <3>1, <3>2, GrantedAt
    <3>4. Critical \subseteq Manifest[version]
      BY ProfilesAssumption DEF TypeOK
    <3>5. "ADMIN" \in s.roles => Critical \subseteq n.profile
      BY <3>3, <3>4 DEF CoreGranted
    <3>6. QED
      BY <1>0, <3>1, <3>2, <3>3, <3>5
  <2>4. ~CacheSet(v)
    BY DEF CacheSet, TypeOK, NotViewing
  <2>5. QED
    BY <2>0, <2>1, <2>2, <2>3, <2>4 DEF Views
<1>3. QED
  BY <1>1, <1>2

\* The steps of a viewer read only.
LEMMA ViewsRead ==
  ASSUME NEW v \in Viewers, Views(v)
  PROVE  /\ role' = role /\ active' = active /\ version' = version /\ offered' = offered
         /\ grant' = grant /\ change' = change /\ raced' = raced
  BY DEF Views, BeginView, CacheGet, ResolveUserRoles, ResolvePermissionGrants, CacheSet, database

\* What a viewer of u has read still holds after a step that does not hit its key.
LEMMA ReadHolds ==
  ASSUME TypeOK, ViewsFit, [Next]_vars, NEW v \in Viewers, view[v].pc # "idle",
         view'[v].pc # "idle", NEW u, u = view[v].user, Key(u) \notin raced'
  PROVE  /\ Key(u) \notin raced /\ role'[u] = role[u] /\ active'[u] = active[u]
         /\ CurrentAt(u, version)' = CurrentAt(u, version)
<1> DEFINE Goal ==
      /\ Key(u) \notin raced /\ role'[u] = role[u] /\ active'[u] = active[u]
      /\ CurrentAt(u, version)' = CurrentAt(u, version)
<1>0. u \in Users /\ Key(u) \in ViewedNow /\ version' = version
  <2>1. u \in Users
    BY DEF ViewsFit
  <2>2. QED
    BY <2>1, VersionStays DEF ViewedNow, Viewing
<1>1. ASSUME NEW w \in Viewers, Views(w) PROVE Goal
  BY <1>1, ViewsRead DEF CurrentAt
<1>2. ASSUME NEW c \in Changers, NEW x \in Users, NEW r \in Role, CommitRole(c, x, r) PROVE Goal
  <2>1. x # u
    BY <1>0, <1>2 DEF CommitRole
  <2>2. role'[u] = role[u] /\ active'[u] = active[u] /\ grant' = grant
    BY <1>2, <2>1 DEF CommitRole, TypeOK
  <2>3. Key(u) \notin raced
    BY <1>2 DEF CommitRole
  <2>4. QED
    BY <1>0, <2>2, <2>3 DEF CurrentAt
<1>3. ASSUME NEW c \in Changers, NEW r \in Role, NEW p \in Permission, NEW b \in BOOLEAN,
             SaveGrant(c, r, p, b)
      PROVE  Goal
  BY <1>0, <1>3 DEF SaveGrant
<1>4. ASSUME NEW c \in Changers, SaveAudit(c) \/ List(c) \/ Delete(c) PROVE Goal
  <2>1. role' = role /\ active' = active /\ grant' = grant
    BY <1>4 DEF SaveAudit, List, Delete, database
  <2>2. Key(u) \notin raced
    BY <1>0, <1>4 DEF SaveAudit, List, Delete, LosesInvalidation, Settled
  <2>3. QED
    BY <1>0, <2>1, <2>2 DEF CurrentAt
<1>10. ASSUME NEW e \in Editors, Edits(e) PROVE Goal
  <2>1. CASE \E x \in Users : BeginEdit(e, x)
    BY <1>0, <2>1 DEF BeginEdit, database, CurrentAt
  <2>2. CASE SaveEdit(e)
    <3>1. active' = active /\ grant' = grant /\ version' = version /\ raced \subseteq raced'
      BY <2>2 DEF SaveEdit
    <3>2. role'[u] = role[u]
      <4>1. CASE edit[e].user = u
        <5>1. Key(u) \in Overtaken(u)
          BY <1>0 DEF Overtaken
        <5>2. role' # role => role[u] = edit[e].role
          BY <2>2, <4>1, <5>1 DEF SaveEdit
        <5>3. QED
          BY <2>2, <4>1, <5>2 DEF SaveEdit, TypeOK
      <4>2. CASE edit[e].user # u
        BY <1>0, <2>2, <4>2 DEF SaveEdit, TypeOK
      <4>3. QED
        BY <4>1, <4>2
    <3>3. QED
      BY <1>0, <3>1, <3>2 DEF CurrentAt
  <2>3. QED
    BY <1>10, <2>1, <2>2 DEF Edits
<1>5. ASSUME NEW k \in Keys, Expire(k) PROVE Goal
  <2>1. role' = role /\ active' = active /\ grant' = grant
    BY <1>5 DEF Expire, database
  <2>2. Key(u) \notin raced
    BY <1>0, <1>5 DEF Expire, Settled
  <2>3. QED
    BY <1>0, <2>1, <2>2 DEF CurrentAt
<1>6. ~\E w \in Version : Restart(w)
  BY DEF Restart, NotViewing
<1>7. CASE UNCHANGED vars
  BY <1>7 DEF vars, CurrentAt
<1>8. ASSUME NEW c \in Changers, Changes(c) PROVE Goal
  BY <1>2, <1>3, <1>4, <1>8 DEF Changes
<1>9. QED
  <2>1. CASE Next
    BY <1>1, <1>5, <1>6, <1>8, <1>10, <2>1, NextSteps
  <2>2. QED
    BY <1>7, <2>1

\* A viewer knows the roles and the grants as they are, or its key is marked.
LEMMA ViewsFreshStep ==
  TypeOK /\ Offered /\ ViewsFit /\ ViewsFresh /\ [Next]_vars => ViewsFresh'
<1> SUFFICES ASSUME TypeOK, Offered, ViewsFit, ViewsFresh, [Next]_vars,
                    NEW v \in Viewers, NEW u \in Users, view'[v].pc # "idle",
                    view'[v].user = u, Key(u)' \notin raced'
             PROVE  /\ view'[v].pc \in {"loaded", "missed"} => view'[v].roles = {role'[u]}
                    /\ view'[v].pc = "resolved" => view'[v].roles = {role'[u]} \cup active'[u]
                    /\ view'[v].pc = "built" => view'[v].profile = CurrentAt(u, version)'
  BY DEF ViewsFresh
<1> DEFINE s == view[v]  n == view'[v]
<1>0. version' = version /\ Key(u) \notin raced'
  BY VersionStays DEF Key
<1>1. CASE n = s
  <2>1. /\ Key(u) \notin raced /\ role'[u] = role[u] /\ active'[u] = active[u]
        /\ CurrentAt(u, version)' = CurrentAt(u, version)
    BY <1>0, <1>1, ReadHolds
  <2>2. QED
    BY <1>1, <2>1 DEF ViewsFresh
<1>2. CASE n # s
  <2>0. Views(v) /\ s \in View
    BY <1>2, OthersView DEF TypeOK
  <2>1. /\ role' = role /\ active' = active /\ grant' = grant /\ raced' = raced
        /\ Key(u) \notin raced /\ CurrentAt(u, version)' = CurrentAt(u, version)
    BY <1>0, <2>0, ViewsRead DEF CurrentAt
  <2>2. ASSUME NEW x \in Users, BeginView(v, x)
        PROVE  n.user = x /\ n.pc = "loaded" /\ n.roles = {role[x]}
    BY <2>2 DEF BeginView, TypeOK
  <2>3. CASE \E x \in Users : BeginView(v, x)
    BY <2>1, <2>2, <2>3
  <2>4. CASE CacheGet(v)
    <3>1. n # NotViewing
      BY DEF NotViewing
    <3>2. s.pc = "loaded" /\ n.pc = "missed" /\ n.user = s.user /\ n.roles = s.roles
      BY <2>0, <2>4, <3>1, ViewStep DEF View
    <3>3. QED
      BY <2>1, <3>2 DEF ViewsFresh
  <2>5. CASE ResolveUserRoles(v)
    <3>1. /\ s.pc = "missed" /\ n.pc = "resolved" /\ n.user = s.user
          /\ n.roles = s.roles \cup active[s.user]
      BY <2>0, <2>5, ViewStep DEF View
    <3>2. QED
      BY <2>1, <3>1 DEF ViewsFresh
  <2>6. CASE ResolvePermissionGrants(v)
    <3>1. /\ s.pc = "resolved" /\ n.pc = "built" /\ n.user = s.user
          /\ n.profile = Granted(s.roles)
      BY <2>0, <2>6, ViewStep DEF View
    <3>2. s.roles = {role[u]} \cup active[u] /\ u \in Users
      BY <2>1, <3>1 DEF ViewsFresh, ViewsFit
    <3>3. Granted(s.roles) = CurrentAt(u, version)
      BY <3>2, GrantedAt DEF CurrentAt
    <3>4. QED
      BY <2>1, <3>1, <3>3
  <2>7. ~CacheSet(v)
    BY DEF CacheSet, TypeOK, NotViewing
  <2>8. QED
    BY <2>0, <2>3, <2>4, <2>5, <2>6, <2>7 DEF Views
<1>3. QED
  BY <1>1, <1>2

-----------------------------------------------------------------------------
(* The cache.                                                              *)

\* A profile that went stale earlier, and is not touched by the step.
LEMMA StaleBefore ==
  ASSUME StaleIsDeleted, NEW k \in Keys, cache[k].hit, cache'[k] = cache[k],
         cache'[k].profile # CurrentAt(k[1], k[2])',
         CurrentAt(k[1], k[2])' = CurrentAt(k[1], k[2])
  PROVE  k \in raced \/ \E c \in Changers : WillDelete(c, k)
  BY DEF StaleIsDeleted

\* A change that waits is not affected by the steps of another one.
LEMMA WaitsOn ==
  ASSUME NEW c \in Changers, NEW k, NEW d \in Changers, WillDelete(d, k), d # c,
         DOMAIN change = Changers, NEW s, change' = [change EXCEPT ![c] = s]
  PROVE  WillDelete(d, k)'
  BY DEF WillDelete

\* Whatever is stale will be deleted, or its key is marked.
LEMMA StaleStep ==
  TypeOK /\ Offered /\ CachedByRun /\ ViewsFit /\ ViewsFresh /\ StaleIsDeleted /\ [Next]_vars
    => StaleIsDeleted'
<1> SUFFICES ASSUME TypeOK, Offered, CachedByRun, ViewsFit, ViewsFresh, StaleIsDeleted,
                    [Next]_vars, NEW k \in Keys, cache'[k].hit,
                    cache'[k].profile # CurrentAt(k[1], k[2])'
             PROVE  k \in raced' \/ \E c \in Changers : WillDelete(c, k)'
  BY DEF StaleIsDeleted, CurrentAt, WillDelete
<1> DEFINE Goal == k \in raced' \/ \E c \in Changers : WillDelete(c, k)'
<1>0. /\ k[1] \in Users /\ k[2] \in Version /\ k = <<k[1], k[2]>>
      /\ DOMAIN cache = Keys /\ DOMAIN change = Changers
      /\ NotCached.hit = FALSE
  BY DEF Keys, TypeOK, NotCached
<1>1. ASSUME cache'[k] = cache[k], CurrentAt(k[1], k[2])' = CurrentAt(k[1], k[2])
      PROVE  cache[k].hit /\ (k \in raced \/ \E c \in Changers : WillDelete(c, k))
  BY <1>1, StaleBefore
<1>2. ASSUME NEW v \in Viewers, Views(v) PROVE Goal
  <2>1. /\ change' = change /\ raced' = raced
        /\ CurrentAt(k[1], k[2])' = CurrentAt(k[1], k[2])
    BY <1>2, ViewsRead DEF CurrentAt
  <2>2. CASE cache'[k] = cache[k]
    BY <1>1, <2>1, <2>2 DEF WillDelete
  <2>3. CASE cache'[k] # cache[k]
    <3>1. CacheSet(v)
      BY <1>2, <2>3 DEF Views, BeginView, CacheGet, ResolveUserRoles, ResolvePermissionGrants
    <3>2. /\ view[v].pc = "built" /\ k = Key(view[v].user)
          /\ cache'[k] = Cached(view[v].profile)
      BY <1>0, <2>3, <3>1 DEF CacheSet
    <3>3. k[1] = view[v].user /\ k[2] = version /\ cache'[k].profile = view[v].profile
      BY <3>2 DEF Key, Cached
    <3>4. k \in raced
      <4>1. view[v].user \in Users /\ view[v].pc = "built"
        BY <1>0, <3>2, <3>3
      <4>2. view[v].profile # CurrentAt(view[v].user, version)
        <5>1. CurrentAt(k[1], k[2]) = CurrentAt(view[v].user, version)
          BY <3>3
        <5>2. QED
          BY <2>1, <3>3, <5>1
      <4>3. Key(view[v].user) \in raced
        BY <4>1, <4>2 DEF ViewsFresh
      <4>4. QED
        BY <3>2, <4>3
    <3>5. QED
      BY <2>1, <3>4
  <2>4. QED
    BY <2>2, <2>3
<1>3. ASSUME NEW c \in Changers, NEW u \in Users, NEW r \in Role, CommitRole(c, u, r) PROVE Goal
  <2>1. CASE k[1] = u
    <3>1. change'[c] = [pc |-> "written", scope |-> {u}, victims |-> {}]
      BY <1>0, <1>3 DEF CommitRole
    <3>2. QED
      BY <2>1, <3>1 DEF WillDelete
  <2>2. CASE k[1] # u
    <3>0. /\ cache' = cache /\ raced \subseteq raced' /\ grant' = grant
          /\ change[c].pc = "idle"
      BY <1>3 DEF CommitRole, NotChanging
    <3>9. role'[k[1]] = role[k[1]] /\ active'[k[1]] = active[k[1]]
      BY <1>0, <1>3, <2>2 DEF CommitRole, TypeOK
    <3>1. \E s : change' = [change EXCEPT ![c] = s]
      BY <1>3 DEF CommitRole
    <3>2. k \in raced \/ \E d \in Changers : WillDelete(d, k)
      BY <1>1, <3>0, <3>9 DEF CurrentAt
    <3>3. ~WillDelete(c, k)
      BY <3>0 DEF WillDelete
    <3>4. QED
      BY <1>0, <3>0, <3>1, <3>2, <3>3, WaitsOn
  <2>3. QED
    BY <2>1, <2>2
<1>4. ASSUME NEW c \in Changers, NEW r \in Role, NEW p \in Permission, NEW b \in BOOLEAN,
             SaveGrant(c, r, p, b)
      PROVE  Goal
  <2>1. change'[c] = [pc |-> "saved", scope |-> Users, victims |-> {}]
    BY <1>0, <1>4 DEF SaveGrant
  <2>2. QED
    BY <1>0, <2>1 DEF WillDelete
<1>5. ASSUME NEW c \in Changers, SaveAudit(c) \/ List(c) \/ Delete(c) PROVE Goal
  <2>1. /\ CurrentAt(k[1], k[2])' = CurrentAt(k[1], k[2])
        /\ \E s : change' = [change EXCEPT ![c] = s]
    BY <1>5 DEF SaveAudit, List, Delete, LosesInvalidation, database, CurrentAt
  <2>2. cache'[k] = cache[k]
    <3>1. Delete(c) => cache'[k] = NotCached \/ cache'[k] = cache[k]
      BY DEF Delete
    <3>2. ~Delete(c) => cache' = cache
      BY <1>5 DEF SaveAudit, List
    <3>3. QED
      BY <1>0, <3>1, <3>2
  <2>3. cache[k].hit /\ (k \in raced \/ \E d \in Changers : WillDelete(d, k))
    BY <1>1, <2>1, <2>2
  <2>4. k \in raced => k \in raced'
    <3>1. CASE Delete(c)
      <4>1. LosesInvalidation(c) => (k \in raced => k \in raced')
        BY DEF LosesInvalidation
      <4>2. ASSUME ~LosesInvalidation(c), k \in raced PROVE k \in raced'
        <5>1. /\ raced' = Settled(change[c].victims)
              /\ cache'[k] = IF k \in change[c].victims THEN NotCached ELSE cache[k]
          BY <3>1, <4>2 DEF Delete
        <5>2. k \notin change[c].victims
          BY <1>0, <5>1
        <5>3. QED
          BY <4>2, <5>1, <5>2 DEF Settled
      <4>3. QED
        BY <4>1, <4>2
    <3>2. CASE ~Delete(c)
      BY <1>5, <3>2 DEF SaveAudit, List, LosesInvalidation
    <3>3. QED
      BY <3>1, <3>2
  <2>5. ASSUME NEW d \in Changers \ {c}, WillDelete(d, k) PROVE WillDelete(d, k)'
    BY <1>0, <2>1, <2>5, WaitsOn
  <2>6. ASSUME WillDelete(c, k) PROVE Goal
    <3>0. change[c] \in Change /\ k[1] \in change[c].scope /\ k \in KeysOf(change[c].scope)
      BY <1>0, <2>6 DEF WillDelete, TypeOK, KeysOf
    <3>1. CASE SaveAudit(c)
      <4>1. CASE change' = [change EXCEPT ![c].pc = "written"]
        <5>1. change'[c].pc = "written" /\ change'[c].scope = change[c].scope
          BY <1>0, <3>0, <4>1 DEF Change
        <5>2. QED
          BY <3>0, <5>1 DEF WillDelete
      <4>2. CASE raced' = raced \cup KeysOf(change[c].scope)
        BY <3>0, <4>2
      <4>3. QED
        BY <3>1, <4>1, <4>2 DEF SaveAudit
    <3>2. CASE List(c)
      <4>1. CASE LosesInvalidation(c)
        BY <3>0, <4>1 DEF LosesInvalidation
      <4>2. CASE ~LosesInvalidation(c)
        <5> DEFINE vs == {j \in KeysOf(change[c].scope) : cache[j].hit}
        <5>1. change' = [change EXCEPT ![c].pc = "listed", ![c].victims = vs]
          BY <3>2, <4>2 DEF List
        <5>2. k \in vs
          BY <2>3, <3>0
        <5> HIDE DEF vs
        <5>3. /\ change'[c].pc = "listed" /\ change'[c].victims = vs
              /\ change'[c].scope = change[c].scope
          BY <1>0, <3>0, <5>1 DEF Change
        <5>4. QED
          BY <3>0, <5>2, <5>3 DEF WillDelete
      <4>3. QED
        BY <4>1, <4>2
    <3>3. CASE Delete(c)
      <4>1. CASE LosesInvalidation(c)
        BY <3>0, <4>1 DEF LosesInvalidation
      <4>2. CASE ~LosesInvalidation(c)
        <5>1. k \in change[c].victims
          BY <2>6, <3>3 DEF WillDelete, Delete
        <5>2. cache'[k] = NotCached
          BY <3>3, <4>2, <5>1 DEF Delete
        <5>3. QED
          BY <1>0, <5>2
      <4>3. QED
        BY <4>1, <4>2
    <3>4. QED
      BY <1>5, <3>1, <3>2, <3>3
  <2>7. QED
    BY <2>3, <2>4, <2>5, <2>6
<1>11. ASSUME NEW e \in Editors, Edits(e) PROVE Goal
  <2>1. /\ cache' = cache /\ change' = change /\ raced \subseteq raced'
        /\ active' = active /\ grant' = grant
    BY <1>11 DEF Edits, BeginEdit, SaveEdit, database
  <2>2. CASE role'[k[1]] = role[k[1]]
    <3>1. k \in raced \/ \E c \in Changers : WillDelete(c, k)
      BY <1>1, <2>1, <2>2 DEF CurrentAt
    <3>2. QED
      BY <2>1, <3>1 DEF WillDelete
  <2>3. CASE role'[k[1]] # role[k[1]]
    <3>1. SaveEdit(e)
      BY <1>11, <2>3 DEF Edits, BeginEdit, database
    <3>2. edit[e].user = k[1] /\ role[k[1]] # edit[e].role
      BY <1>0, <2>3, <3>1 DEF SaveEdit, TypeOK
    <3>3. k \in Overtaken(k[1])
      BY <1>0, <2>1 DEF Overtaken, KeysOf
    <3>4. raced' = raced \cup Overtaken(k[1])
      BY <2>3, <3>1, <3>2 DEF SaveEdit
    <3>5. QED
      BY <3>3, <3>4
  <2>4. QED
    BY <2>2, <2>3
<1>6. ASSUME NEW j \in Keys, Expire(j) PROVE Goal
  <2>1. /\ CurrentAt(k[1], k[2])' = CurrentAt(k[1], k[2]) /\ change' = change
        /\ cache'[k] = IF k = j THEN NotCached ELSE cache[k]
        /\ raced' = Settled({j})
    BY <1>0, <1>6 DEF Expire, database, CurrentAt
  <2>2. k # j /\ cache'[k] = cache[k]
    BY <1>0, <2>1
  <2>3. k \in raced \/ \E c \in Changers : WillDelete(c, k)
    BY <1>1, <2>1, <2>2
  <2>4. QED
    BY <2>1, <2>2, <2>3 DEF Settled, WillDelete
<1>7. ASSUME NEW v \in Version, Restart(v) PROVE Goal
  <2>1. /\ role' = role /\ active' = active /\ cache' = cache /\ grant' = Seeded(grant, v)
        /\ raced' = raced \cup KeysOf(UNION {change[c].scope : c \in Changers})
    BY <1>7 DEF Restart
  <2>2. HasRun(k[2])
    BY <2>1 DEF CachedByRun
  <2>3. \A r \in Role : \A p \in Manifest[k[2]] :
          grant'[<<r, p>>] = "on" <=> grant[<<r, p>>] = "on"
    <3>1. \A p \in Manifest[k[2]] : p \in Permission
      BY <1>0, ProfilesAssumption
    <3>2. \A d \in Role \X Permission :
            grant'[d] = IF grant[d] = "absent" /\ d \in Default /\ d[2] \in Manifest[v]
                        THEN "on" ELSE grant[d]
      BY <2>1 DEF Seeded
    <3>3. \A d \in Default : d[2] \in Manifest[k[2]] => grant[d] # "absent"
      BY <2>2 DEF HasRun
    <3>4. QED
      BY <3>1, <3>2, <3>3
  <2>4. {role[k[1]]} \cup active[k[1]] \subseteq Role
    BY <1>0 DEF TypeOK
  <2>5. CurrentAt(k[1], k[2])' = CurrentAt(k[1], k[2])
    BY <2>1, <2>3, <2>4 DEF CurrentAt
  <2>6. k \in raced \/ \E c \in Changers : WillDelete(c, k)
    BY <1>1, <2>1, <2>5
  <2>7. ASSUME NEW c \in Changers, WillDelete(c, k) PROVE k \in raced'
    <3>1. k[1] \in change[c].scope
      BY <2>7 DEF WillDelete
    <3>2. QED
      BY <1>0, <2>1, <3>1 DEF KeysOf
  <2>8. QED
    BY <2>1, <2>6, <2>7
<1>8. CASE UNCHANGED vars
  <2>1. CurrentAt(k[1], k[2])' = CurrentAt(k[1], k[2]) /\ cache' = cache /\ raced' = raced
        /\ change' = change
    BY <1>8 DEF vars, CurrentAt
  <2>2. QED
    BY <1>1, <2>1 DEF WillDelete
<1>9. ASSUME NEW c \in Changers, Changes(c) PROVE Goal
  BY <1>3, <1>4, <1>5, <1>9 DEF Changes
<1>10. QED
  <2>1. CASE Next
    BY <1>2, <1>6, <1>7, <1>9, <1>11, <2>1, NextSteps
  <2>2. QED
    BY <1>8, <2>1

-----------------------------------------------------------------------------
(* The theorems.                                                           *)

\* After the first start the catalogue is seeded and nothing is cached.
LEMMA InvInit ==
  Init => IInv
<1> SUFFICES ASSUME Init PROVE IInv
  OBVIOUS
<1>1. NotViewing \in View /\ NotChanging \in Change
  BY DEF NotViewing, View, Profile, NotChanging, Change
<1>2. /\ version \in Version /\ cache = [k \in Keys |-> NotCached]
      /\ view = [v \in Viewers |-> NotViewing] /\ change = [c \in Changers |-> NotChanging]
      /\ offered = [p \in Permission |-> IF p \in Manifest[version] THEN "on" ELSE "absent"]
  BY DEF Init
<1>3. /\ DOMAIN grant = Role \X Permission
      /\ \A d \in Role \X Permission :
           grant[d] = IF d \in Default /\ d[2] \in Manifest[version] THEN "on" ELSE "absent"
  BY DEF Init, Seeded
<1>4. /\ grant = [d \in Role \X Permission |->
                    IF d \in Default /\ d[2] \in Manifest[version] THEN "on" ELSE "absent"]
  BY DEF Init, Seeded
<1>5. TypeOK
  <2>1. grant \in [Role \X Permission -> Row]
    BY <1>4 DEF Row
  <2>2. offered \in [Permission -> Row]
    BY <1>2 DEF Row
  <2>3. cache \in [Keys -> {NotCached} \cup {Cached(p) : p \in Profile}]
    BY <1>2
  <2>4. role \in [Users -> Role] /\ active \in [Users -> SUBSET Role] /\ raced \subseteq Keys
    BY DEF Init
  <2>5. view \in [Viewers -> View] /\ change \in [Changers -> Change]
    BY <1>1, <1>2
  <2>6. edit \in [Editors -> Edit]
    BY DEF Init, Edit
  <2>7. QED
    BY <1>2, <2>1, <2>2, <2>3, <2>4, <2>5, <2>6 DEF TypeOK
<1>6. Offered
  BY <1>2 DEF Offered
<1>7. CoreGranted
  <2>1. \A p \in Critical : <<"ADMIN", p>> \in Default /\ p \in Manifest[version]
    BY <1>2, ProfilesAssumption
  <2>2. QED
    BY <1>3, <2>1, ProfilesAssumption DEF CoreGranted
<1>8. CachedByRun
  BY <1>2, <1>3, ProfilesAssumption DEF CachedByRun, HasRun, NotCached
<1>9. ViewsFit /\ ViewsFresh
  BY <1>2 DEF ViewsFit, ViewsFresh, NotViewing
<1>10. StaleIsDeleted
  BY <1>2 DEF StaleIsDeleted, NotCached
<1>11. QED
  BY <1>5, <1>6, <1>7, <1>8, <1>9, <1>10 DEF IInv

\* Every step of a viewer, a changer, an editor, the TTL or a deployment keeps the
\* invariant.
LEMMA InvStep ==
  IInv /\ [Next]_vars => IInv'
  BY TypeStep, CatalogueStep, CachedStep, ViewsFitStep, ViewsFreshStep, StaleStep DEF IInv

\* The catalogue follows the manifest, the cache holds what a version that ran
\* could grant, and the two kinds of memory - of a request, of Redis - are right
\* or known to be raced: in every state the code reaches.
THEOREM Invariance == Spec => []IInv
<1>1. Init => IInv
  BY InvInit
<1>2. IInv /\ [Next]_vars => IInv'
  BY InvStep
<1>3. QED
  BY <1>1, <1>2, PTL DEF Spec

\* The types of the rows, of the keys in Redis and of the local variables of
\* buildViewerAccess and of updateRolePermission.
THEOREM TypeCorrect == Spec => []TypeOK
<1>1. IInv => TypeOK
  BY DEF IInv
<1>2. QED
  BY <1>1, Invariance, PTL

\* buildViewerAccess never answers an administrator with a profile that lacks a
\* core permission, whatever grants updateRolePermission has turned off.
THEOREM AdministratorsKeepTheirCore == Spec => []AdminKeepsCore
<1>1. IInv => AdminKeepsCore
  BY DEF IInv, ViewsFit, AdminKeepsCore
<1>2. QED
  BY <1>1, Invariance, PTL

\* access-control-seed.service.ts:62: a permission that the manifest of the
\* running version does not have is in no profile that its viewers find cached,
\* after any number of deployments and rollbacks.
THEOREM RetiredPermissionsAreGone == Spec => []RetiredIsGone
<1>1. IInv => RetiredIsGone
  <2> SUFFICES ASSUME IInv, NEW u \in Users, cache[Key(u)].hit
               PROVE  cache[Key(u)].profile \subseteq Manifest[version]
    BY DEF RetiredIsGone
  <2>1. Key(u) \in Keys /\ Key(u)[2] = version
    BY DEF IInv, TypeOK, Keys, Key
  <2>2. QED
    BY <2>1 DEF IInv, CachedByRun
<1>2. QED
  BY <1>1, Invariance, PTL

\* A profile in Redis that differs from what the database grants is about to be
\* deleted by the request that changed the database, or one of the three known
\* causes hit its key - a viewer that began earlier, a lost invalidation, a stale
\* userRepo.save that put the role back: invalidateUser and invalidateAll forget
\* no other.
THEOREM StaleOnlyThroughRaces == Spec => []StaleOnlyByRace
<1>1. IInv => StaleOnlyByRace
  <2> SUFFICES ASSUME IInv, NEW u \in Users, cache[Key(u)].hit,
                      cache[Key(u)].profile # Current(u)
               PROVE  Pending(u) \/ Key(u) \in raced
    BY DEF StaleOnlyByRace
  <2>1. Key(u) \in Keys /\ Key(u)[1] = u /\ Key(u)[2] = version
    BY DEF IInv, TypeOK, Keys, Key
  <2>2. Current(u) = CurrentAt(u, version)
    BY GrantedAt DEF IInv
  <2>3. cache[Key(u)].profile # CurrentAt(Key(u)[1], Key(u)[2])
    BY <2>1, <2>2
  <2>4. Key(u) \in raced \/ \E c \in Changers : WillDelete(c, Key(u))
    BY <2>1, <2>3 DEF IInv, StaleIsDeleted
  <2>5. QED
    BY <2>1, <2>4 DEF WillDelete, Pending
<1>2. QED
  BY <1>1, Invariance, PTL
=============================================================================
