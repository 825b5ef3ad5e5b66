-------------------------- MODULE MCAccessProfiles --------------------------
(***************************************************************************)
(* AccessProfiles for TLC: two roles, one core permission and another one, *)
(* which only one of two versions has.  A behaviour has one of three       *)
(* casts: two users of one version; one user who keeps the role, and       *)
(* deployments; one user of one version, whose entity is saved whole.      *)
(***************************************************************************)
EXTENDS AccessProfiles, TLC

MCRole == {"CUSTOMER", "ADMIN"}
MCPermission == {"core", "other"}
MCCritical == {"core"}
MCDefault == {"ADMIN"} \X MCPermission
MCVersion == {1, 2}
MCManifest == [v \in MCVersion |-> IF v = 1 THEN MCPermission ELSE MCCritical]

\* One version: no deployment.
MCOneVersion == {1}
MCOneManifest == [v \in MCOneVersion |-> MCPermission]

\* Grants only: the role of no user changes.
MCAdminOnly == {"ADMIN"}

VARIABLE cast

Absent(u) ==
  /\ role[u] = "CUSTOMER" /\ active[u] = {}
  /\ \A k \in KeysOf({u}) : ~cache[k].hit
  /\ \A v \in Viewers : view[v].user # u
  /\ \A e \in Editors : edit[e].user # u

OneUser == \E u \in Users : \A w \in Users \ {u} : Absent(w)

CastInit ==
  /\ Init
  /\ cast \in {"users", "deployments", "edits"}
  /\ cast # "users" => OneUser
  /\ cast # "deployments" => Manifest[version] = Permission
CastNext ==
  /\ Next
  /\ cast # "users" => OneUser'
  /\ IF cast = "deployments" THEN role' = role ELSE version' = version
  /\ cast # "edits" => edit' = edit
  /\ UNCHANGED cast
CastSpec == CastInit /\ [][CastNext]_<<vars, cast>>

Symmetry == Permutations(Users) \cup Permutations(Viewers) \cup Permutations(Changers) \cup Permutations(Editors)
=============================================================================
