------------------------------ MODULE MCSignUp ------------------------------
(***************************************************************************)
(* OtpChallenge, Registration and KeycloakAdmin for TLC.  Registration     *)
(* abstracts from how a challenge is verified and from the requests behind *)
(* a call of Keycloak, so the three share no state: a behaviour changes    *)
(* one of them and leaves the others as they are at the start.             *)
(*                                                                         *)
(* Registration: two requests at a time for one e-mail, one state more     *)
(* than callbacks need to meet, and Keycloak users for a registration, its *)
(* repetition and a sign-in in between.  One provider: a callback that     *)
(* names another one than its state is refused without a step.             *)
(*                                                                         *)
(* KeycloakAdmin: two operations that need one role, and a clock that sees *)
(* the token of one of them run out and a second token in use.             *)
(***************************************************************************)
EXTENDS OtpChallenge, TLC

CONSTANTS Requests, States, Providers, MaxSubjects, None,
          Roles, Lifetime, Buffer, MaxTime

ASSUME TokenAssumption ==
  /\ Lifetime \in Nat /\ Buffer \in Nat /\ MaxTime \in Nat
  /\ Buffer < Lifetime

ASSUME RegistrationAssumption == MaxSubjects \in Nat /\ None \notin Providers

VARIABLES identity, subjects, row, invited, social, drawn, request,
          callbacks, registered, faulty, removed, overlapped

VARIABLES now, cached, realmRoles, operation

R == INSTANCE Registration
K == INSTANCE KeycloakAdmin

registrationVars == <<identity, subjects, row, invited, social, drawn, request,
                      callbacks, registered, faulty, removed, overlapped>>

adminVars == <<now, cached, realmRoles, operation>>

\* One of the starts of KeycloakAdmin is enough for the other two to run beside.
AdminRests == K!Init /\ realmRoles = {}

SignUpInit == Init /\ R!Init /\ K!Init
SignUpNext ==
  \/ R!Init /\ AdminRests /\ Next /\ UNCHANGED <<registrationVars, adminVars>>
  \/ Init /\ AdminRests /\ R!Next /\ UNCHANGED <<vars, adminVars>>
  \/ Init /\ R!Init /\ K!Next /\ UNCHANGED <<vars, registrationVars>>
SignUpSpec == SignUpInit /\ [][SignUpNext]_<<vars, registrationVars, adminVars>>

\* The type invariants of the three modules.
SignUpTypeOK == TypeOK /\ R!TypeOK /\ K!AdminTypeOK

\* The properties of Registration.
OneCallbackPerState == R!OneCallbackPerState
OrphanOnlyByFault == R!OrphanOnlyByFault
DanglingOnlyByOverlap == R!DanglingOnlyByOverlap

\* The properties of KeycloakAdmin.
BufferCoversDelay == K!BufferCoversDelay
NoRoleMissing == K!NoRoleMissing

\* One set of slots serves the three modules: a permutation of it acts on each.
ASSUME SlotsAssumption == Verifiers = Requests /\ Creators = Requests

Symmetry == Permutations(Requests) \cup Permutations(States)
=============================================================================
