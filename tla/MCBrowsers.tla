----------------------------- MODULE MCBrowsers -----------------------------
(***************************************************************************)
(* Browsers for TLC.  A behaviour has one of three casts: two tabs and     *)
(* nobody else; one tab, the admins and time; one tab and another device.  *)
(* In the last two the browser has one handler at a time.                  *)
(***************************************************************************)
EXTENDS Browsers, TLC

VARIABLE cast

CastInit == BrowserInit /\ cast \in {"tabs", "admins", "device"}

Acting == IF cast = "tabs" THEN Tabs ELSE {CHOOSE b \in Tabs : TRUE}

OneHandler == Cardinality({q \in Own : request[q] # Idle}) <= 1

\* An admin, or another device, that only revokes a session by its id.
AdminsOnly == OneHandler /\ \A q \in Remote : request[q].pc \in {"idle", "revoking"}

\* Another device that refreshes, opens sessions and ends them.
DeviceOnly ==
  /\ expired = {} /\ \A u \in Users : status[u] = "ACTIVE"
  /\ \A q \in Remote : request[q].pc \notin {"revoking", "resetting"}
  /\ OneHandler /\ \A b \in Tabs : call[b].kind # "change"
  /\ Cardinality({t \in Tokens \ Abroad : Saved(t)}) <= 2

CastNext ==
  /\ \/ \E b \in Acting : TabStep(b)
     \/ \E q \in Own : HandlerStep(q)
     \/ ServerRestart
     \/ cast # "tabs" /\ Elsewhere
  /\ cast = "admins" => AdminsOnly'
  /\ cast = "device" => DeviceOnly'
  /\ UNCHANGED cast

CastSpec == CastInit /\ [][CastNext]_<<allVars, cast>>

Symmetry == Permutations(Users) \cup Permutations(Own) \cup Permutations(Remote)
              \cup Permutations(Tokens \ Abroad) \cup Permutations(Abroad)

\* A disturbance is for good and the properties assume that there was none: what
\* follows one is left to the runs of Sessions and to browsers_logout.
UntilDisturbed == orderly
=============================================================================
