------------------------- MODULE RegistrationProofs -------------------------
(***************************************************************************)
(* Theorems about Registration, for every set of requests, states and      *)
(* providers and any bound on the Keycloak users.                          *)
(***************************************************************************)
EXTENDS Registration, TLAPS

\* What MCSignUp assumes of the constants; here a hypothesis of every lemma.
Parameters == MaxSubjects \in Nat /\ None \notin Providers

-----------------------------------------------------------------------------
(* The inductive invariant.                                                *)

RegistrationStage == {"preparing", "inserting", "compensating"}
SignInStage == {"finding", "seeking", "merging", "adding", "repairing"}

Registers(q, s) == request[q].pc \in RegistrationStage /\ request[q].subject = s
Learnt(q, s) == request[q].pc \in SignInStage /\ request[q].subject = s
Exchanging(q, t) == request[q].pc = "exchanging" /\ request[q].state = t

\* A state is drawn, waits in the store, is exchanged by one handler, and has had
\* its callback: it goes through these once, in this order.
StatesOK ==
  \A t \in States :
    /\ callbacks[t] <= 1
    /\ t \notin drawn => social[t] = None
    /\ t \notin drawn \/ social[t] # None =>
         callbacks[t] = 0 /\ \A q \in Requests : ~Exchanging(q, t)
    /\ \A q \in Requests : Exchanging(q, t) => callbacks[t] = 0
    /\ \A p, q \in Requests : Exchanging(p, t) /\ Exchanging(q, t) => p = q

\* No one knows a subject before Keycloak makes it.
Numbered ==
  /\ identity <= subjects /\ row <= subjects
  /\ registered \subseteq 1..subjects
  /\ \A q \in Requests : request[q].pc \in Stage => request[q].subject <= subjects

\* One handler registers a subject, which Keycloak has until the realm loses it
\* or the handler removes it; whoever else knows the subject has overlapped.
RegistrationsOK ==
  \A q \in Requests, s \in Subjects : Registers(q, s) =>
    /\ s = identity \/ s \in removed
    /\ row = s => s \in overlapped
    /\ \A p \in Requests : Learnt(p, s) => s \in overlapped
    /\ \A p \in Requests : Registers(p, s) => p = q

\* A login links the row to a subject Keycloak has, or that went for a reason the
\* histories know.
SignInsOK ==
  \A q \in Requests, s \in Subjects :
    Learnt(q, s) => s = identity \/ s \in removed \cup overlapped

SubjectsOK == Numbered /\ RegistrationsOK /\ SignInsOK /\ DanglingOnlyByOverlap

IInv == TypeOK /\ StatesOK /\ SubjectsOK /\ OrphanOnlyByFault

-----------------------------------------------------------------------------
\* Before the first request there is no user, no row and no state.
LEMMA InvInit == ASSUME Parameters, Init PROVE IInv
<1> USE DEF Init, Idle
<1>1. \A q \in Requests : request[q].pc = "idle"
  OBVIOUS
<1>2. TypeOK
  <2>1. subjects \in 0..MaxSubjects
    BY DEF Parameters
  <2>2. QED
    BY <2>1 DEF TypeOK
<1>3. StatesOK
  BY <1>1 DEF StatesOK, Exchanging
<1>4. SubjectsOK
  BY <1>1 DEF SubjectsOK, Numbered, RegistrationsOK, SignInsOK, DanglingOnlyByOverlap,
              Registers, Learnt, RegistrationStage, SignInStage, Stage
<1>5. OrphanOnlyByFault
  BY DEF OrphanOnlyByFault
<1>6. QED
  BY <1>2, <1>3, <1>4, <1>5 DEF IInv

-----------------------------------------------------------------------------
(* Types.                                                                  *)

\* What a handler that has reached a stage remembers: the subject it works on.
LEMMA Reached ==
  ASSUME TypeOK, NEW q \in Requests, request[q].pc \in Stage
  PROVE  request[q].subject \in Subjects
  BY DEF TypeOK, Working, Idle, Stage

\* ... the state it took, and the subject the row had when it was read.
LEMMA Taken ==
  ASSUME TypeOK, NEW q \in Requests
  PROVE  /\ At(q, "exchanging") => request[q].state \in States
         /\ At(q, "granting") => request[q].known \in Subjects
  BY DEF TypeOK, Working, Idle, Stage, At

\* A handler that moves reaches a stage, waits for a token endpoint or finishes.
LEMMA RequestTyped ==
  ASSUME TypeOK, NEW q \in Requests,
         \/ UNCHANGED request
         \/ Finish(q)
         \/ \E stage \in Stage, s \in Subjects : Reach(q, stage, s)
         \/ \E t \in States :
              request' = [request EXCEPT ![q] = [pc |-> "exchanging", state |-> t]]
         \/ \E s \in Subjects :
              request' = [request EXCEPT ![q] = [pc |-> "granting", known |-> s]]
  PROVE  request' \in [Requests -> Working \cup {Idle}]
  BY DEF TypeOK, Working, Finish, Reach

\* Every step keeps the types.
LEMMA TypeStep == ASSUME Parameters, TypeOK, [Next]_vars PROVE TypeOK'
<1> DEFINE RequestOK == request' \in [Requests -> Working \cup {Idle}]
<1> USE DEF keycloak, store, history
<1>1. subjects \in Nat /\ subjects + 1 \in Nat
      /\ (subjects < MaxSubjects =>
            subjects + 1 \in Subjects /\ subjects + 1 \in 0..MaxSubjects)
  BY DEF TypeOK, Parameters, Subjects
<1>2. ASSUME NEW q \in Requests, RegisterVerify(q) PROVE TypeOK'
  <2>1. RequestOK
    BY <1>1, <1>2, RequestTyped DEF RegisterVerify, CreateUser, Stage
  <2>2. /\ identity' \in Subjects \cup {0} /\ subjects' \in 0..MaxSubjects
        /\ registered' \subseteq Subjects /\ faulty' \subseteq Subjects
    BY <1>1, <1>2 DEF RegisterVerify, CreateUser, Fault, TypeOK
  <2>3. QED
    BY <1>2, <2>1, <2>2 DEF RegisterVerify, TypeOK
<1>3. ASSUME NEW q \in Requests, Prepare(q) \/ Insert(q) \/ InsertFails(q) \/ Compensate(q)
      PROVE  TypeOK'
  <2>1. request[q].subject \in Subjects
    BY <1>3, Reached DEF Prepare, Insert, InsertFails, Compensate, At, Stage
  <2>2. RequestOK
    BY <1>3, <2>1, RequestTyped DEF Prepare, Insert, InsertFails, Compensate, Stage
  <2>3. QED
    BY <1>3, <2>1, <2>2
    DEF Prepare, Insert, InsertFails, Compensate, Fault, TypeOK
<1>4. ASSUME NEW q \in Requests, AssignRole(q) \/ SignInFails(q) PROVE TypeOK'
  <2>1. RequestOK
    BY <1>4, RequestTyped DEF AssignRole, SignInFails
  <2>2. QED
    BY <1>4, <2>1 DEF AssignRole, SignInFails, TypeOK
<1>5. ASSUME NEW q \in Requests, NEW t \in States, NEW p \in Providers,
             SocialCallback(q, t, p)
      PROVE  TypeOK'
  <2>1. RequestOK
    BY <1>5, RequestTyped DEF SocialCallback
  <2>2. QED
    BY <1>5, <2>1 DEF SocialCallback, TypeOK
<1>6. ASSUME NEW q \in Requests, ExchangeCode(q) PROVE TypeOK'
  <2>1. identity \in Subjects /\ request[q].state \in States
    BY <1>6, Taken DEF ExchangeCode, TypeOK
  <2>2. RequestOK
    BY <1>6, <2>1, RequestTyped DEF ExchangeCode, Stage
  <2>3. callbacks' \in [States -> Nat]
    BY <1>6, <2>1 DEF ExchangeCode, TypeOK
  <2>4. QED
    BY <1>6, <2>1, <2>2, <2>3 DEF ExchangeCode, Overlap, TypeOK
<1>7. ASSUME NEW q \in Requests,
             FindByKeycloakId(q) \/ SeekByEmail(q) \/ Merge(q) \/ Add(q) \/ SyncKeycloakIdentity(q)
      PROVE  TypeOK'
  <2>1. request[q].subject \in Subjects
    BY <1>7, Reached
    DEF FindByKeycloakId, SeekByEmail, Merge, Add, SyncKeycloakIdentity, At, Stage
  <2>2. RequestOK
    BY <1>7, <2>1, RequestTyped
    DEF FindByKeycloakId, SeekByEmail, Merge, Add, SyncKeycloakIdentity, Stage
  <2>3. QED
    BY <1>7, <2>1, <2>2
    DEF FindByKeycloakId, SeekByEmail, Merge, Add, SyncKeycloakIdentity, Link, TypeOK
<1>8. ASSUME NEW q \in Requests, Login(q) \/ Grant(q) PROVE TypeOK'
  <2>1. RequestOK
    <3>1. CASE Login(q)
      BY <3>1, RequestTyped DEF Login, TypeOK
    <3>2. CASE Grant(q)
      BY <3>2, RequestTyped DEF Grant, TypeOK, Stage
    <3>3. QED
      BY <1>8, <3>1, <3>2
  <2>2. QED
    BY <1>8, <2>1 DEF Login, Grant, Overlap, TypeOK
<1>9. CASE RegisterInitiate \/ BrokerSignIn \/ RealmRemoves
  <2>1. CASE RegisterInitiate
    BY <2>1 DEF RegisterInitiate, TypeOK
  <2>2. CASE BrokerSignIn
    BY <1>1, <2>2 DEF BrokerSignIn, TypeOK
  <2>3. CASE RealmRemoves
    BY <2>3 DEF RealmRemoves, TypeOK
  <2>4. QED
    BY <1>9, <2>1, <2>2, <2>3
<1>10. ASSUME NEW t \in States, StateExpires(t) \/ \E p \in Providers : GetSocialAuthUrl(t, p)
       PROVE  TypeOK'
  BY <1>10 DEF StateExpires, GetSocialAuthUrl, TypeOK
<1>11. CASE Restart
  BY <1>11 DEF Restart, TypeOK
<1>12. CASE UNCHANGED vars
  BY <1>12 DEF vars, TypeOK
<1>13. QED
  BY <1>2, <1>3, <1>4, <1>5, <1>6, <1>7, <1>8, <1>9, <1>10, <1>11, <1>12
  DEF Next, Step
-----------------------------------------------------------------------------
(* What a step does to the handlers.                                       *)

\* A step of a handler moves that handler: to a stage, to the token endpoint, or
\* to its end.
LEMMA StepMoves ==
  ASSUME TypeOK, NEW q \in Requests, Step(q)
  PROVE  /\ \A p \in Requests \ {q} : request'[p] = request[p]
         /\ request'[q].pc = "exchanging" =>
              request' = request \/ \E t \in States, p \in Providers : SocialCallback(q, t, p)
<1> USE DEF TypeOK, Reach, Finish, Idle
<1>1. CASE RegisterVerify(q) \/ Prepare(q) \/ Insert(q) \/ InsertFails(q) \/ Compensate(q)
  BY <1>1 DEF RegisterVerify, CreateUser, Prepare, Insert, InsertFails, Compensate
<1>2. CASE AssignRole(q) \/ FindByKeycloakId(q) \/ SeekByEmail(q) \/ Merge(q) \/ Add(q)
           \/ SyncKeycloakIdentity(q) \/ SignInFails(q)
  BY <1>2 DEF AssignRole, FindByKeycloakId, SeekByEmail, Merge, Add, SyncKeycloakIdentity, SignInFails
<1>3. CASE ExchangeCode(q) \/ Login(q) \/ Grant(q)
  BY <1>3 DEF ExchangeCode, Login, Grant
<1>4. CASE \E t \in States, p \in Providers : SocialCallback(q, t, p)
  BY <1>4 DEF SocialCallback
<1>5. QED
  BY <1>1, <1>2, <1>3, <1>4 DEF Step

-----------------------------------------------------------------------------
(* States of the OAuth flow.                                               *)

\* A state passes on to the next of its stages, or stays where it is.
LEMMA StatesStep == ASSUME Parameters, TypeOK, StatesOK, [Next]_vars PROVE StatesOK'
<1> USE DEF store, history
<1>1. ASSUME UNCHANGED <<callbacks, store>>,
             \A q \in Requests, t \in States : Exchanging(q, t)' => Exchanging(q, t)
      PROVE  StatesOK'
  BY <1>1 DEF StatesOK
<1>2. ASSUME UNCHANGED request PROVE \A q \in Requests, t \in States :
                                       Exchanging(q, t)' => Exchanging(q, t)
  BY <1>2 DEF Exchanging
<1>3. ASSUME NEW q \in Requests, Step(q) PROVE StatesOK'
  <2>1. ASSUME NEW t \in States, NEW p \in Providers, SocialCallback(q, t, p)
        PROVE  StatesOK'
    <3>1. /\ social[t] # None /\ social'[t] = None
          /\ \A u \in States \ {t} : social'[u] = social[u]
      BY <2>1 DEF SocialCallback, TypeOK, Parameters
    <3>2. UNCHANGED <<drawn, callbacks>>
      BY <2>1 DEF SocialCallback
    <3>3. \A r \in Requests, u \in States :
            Exchanging(r, u)' <=> (r = q /\ u = t) \/ (r # q /\ Exchanging(r, u))
      BY <2>1 DEF SocialCallback, Exchanging, TypeOK
    <3>4. \A r \in Requests : ~Exchanging(r, t)
      BY <3>1 DEF StatesOK
    <3>5. t \in drawn /\ callbacks[t] = 0
      BY <3>1 DEF StatesOK
    <3>6. QED
      BY <3>1, <3>2, <3>3, <3>4, <3>5 DEF StatesOK
  <2>2. CASE ExchangeCode(q)
    <3>1. PICK t \in States : Exchanging(q, t)
      BY <2>2, Taken DEF ExchangeCode, Exchanging, At
    <3>2. /\ callbacks[t] = 0 /\ callbacks'[t] = 1
          /\ \A u \in States \ {t} : callbacks'[u] = callbacks[u]
      BY <2>2, <3>1 DEF ExchangeCode, Exchanging, StatesOK, TypeOK
    <3>3. UNCHANGED <<social, drawn>>
      BY <2>2 DEF ExchangeCode
    <3>4. \A r \in Requests, u \in States :
            Exchanging(r, u)' => r # q /\ Exchanging(r, u)
      BY <2>2 DEF ExchangeCode, Exchanging, Reach, Finish, Idle, TypeOK
    <3>5. \A r \in Requests : ~Exchanging(r, t)'
      BY <3>1, <3>4 DEF StatesOK
    <3>6. t \in drawn /\ social[t] = None
      BY <3>1 DEF StatesOK
    <3>7. QED
      BY <3>2, <3>3, <3>4, <3>5, <3>6 DEF StatesOK
  <2>3. ASSUME ~ExchangeCode(q), ~\E t \in States, p \in Providers : SocialCallback(q, t, p)
        PROVE  StatesOK'
    <3>1. \A r \in Requests, t \in States : Exchanging(r, t)' => Exchanging(r, t)
      BY <1>3, <2>3, StepMoves DEF Exchanging
    <3>2. UNCHANGED <<callbacks, store>>
      BY <1>3, <2>3 DEF Step, RegisterVerify, Prepare, Insert, InsertFails, Compensate,
         AssignRole, FindByKeycloakId, SeekByEmail, Merge, Add, Login, Grant,
         SyncKeycloakIdentity, SignInFails
    <3>3. QED
      BY <1>1, <3>1, <3>2
  <2>4. QED
    BY <1>3, <2>1, <2>2, <2>3
<1>4. ASSUME NEW t \in States, NEW p \in Providers, GetSocialAuthUrl(t, p) PROVE StatesOK'
  <2>1. UNCHANGED <<request, callbacks>> /\ t \notin drawn
    BY <1>4 DEF GetSocialAuthUrl
  <2>2. drawn' = drawn \cup {t} /\ \A u \in States \ {t} : social'[u] = social[u]
    BY <1>4 DEF GetSocialAuthUrl, TypeOK
  <2>3. QED
    BY <2>1, <2>2 DEF StatesOK, Exchanging
<1>5. ASSUME NEW t \in States, StateExpires(t) PROVE StatesOK'
  BY <1>5 DEF StateExpires, StatesOK, Exchanging, TypeOK
<1>6. CASE RegisterInitiate \/ BrokerSignIn \/ RealmRemoves \/ UNCHANGED vars
  BY <1>1, <1>2, <1>6 DEF RegisterInitiate, BrokerSignIn, RealmRemoves, vars
<1>7. CASE Restart
  BY <1>7 DEF Restart, StatesOK, Exchanging, Idle
<1>8. QED
  BY <1>3, <1>4, <1>5, <1>6, <1>7 DEF Next
-----------------------------------------------------------------------------
(* Subjects: what may happen to the user of Keycloak, the row and the       *)
(* handlers that know a subject.                                            *)

\* No handler takes on a subject: each keeps its own, or lets go of it.
NoneTakesOn ==
  \A q \in Requests, s \in Subjects :
    /\ Registers(q, s)' => Registers(q, s)
    /\ Learnt(q, s)' => Learnt(q, s)

\* The numbers stay below the counter.
LEMMA NumberedByParts ==
  ASSUME Numbered, TypeOK, TypeOK', subjects <= subjects',
         identity' <= subjects', row' <= subjects', registered' \subseteq 1..subjects',
         NEW q \in Requests,
         \A p \in Requests \ {q} : request'[p] = request[p],
         request'[q].pc \in Stage => request'[q].subject <= subjects'
  PROVE  Numbered'
<1>1. ASSUME NEW p \in Requests, request'[p].pc \in Stage
      PROVE  request'[p].subject <= subjects'
  <2>1. CASE p = q
    BY <1>1, <2>1
  <2>2. CASE p # q
    <3>1. request[p].subject \in Subjects /\ request[p].subject <= subjects
      BY <1>1, <2>2, Reached DEF Numbered
    <3>2. request[p].subject \in Nat /\ subjects \in Nat /\ subjects' \in Nat
      BY <3>1 DEF Subjects, TypeOK
    <3>3. QED
      BY <1>1, <2>2, <3>1, <3>2
  <2>3. QED
    BY <2>1, <2>2
<1>2. QED
  BY <1>1 DEF Numbered

\* A step that leaves the user and the row, and in which no handler takes on a
\* subject, keeps all that is said about subjects.
LEMMA QuietStep ==
  ASSUME SubjectsOK, UNCHANGED <<identity, row>>, NoneTakesOn,
         removed \subseteq removed', overlapped \subseteq overlapped'
  PROVE  RegistrationsOK' /\ SignInsOK' /\ DanglingOnlyByOverlap'
<1> USE DEF SubjectsOK, NoneTakesOn
<1>1. RegistrationsOK'
  BY DEF RegistrationsOK
<1>2. SignInsOK'
  BY DEF SignInsOK
<1>3. DanglingOnlyByOverlap'
  BY DEF DanglingOnlyByOverlap
<1>4. QED
  BY <1>1, <1>2, <1>3

\* Keycloak makes a user: of a number nobody knows, registered by at most one
\* handler.
LEMMA MadeStep ==
  ASSUME SubjectsOK, TypeOK, TypeOK', identity = 0,
         NEW i, i = subjects + 1, identity' = i,
         UNCHANGED <<row, removed, overlapped>>,
         \A p \in Requests, s \in Subjects :
           /\ Learnt(p, s)' => Learnt(p, s)
           /\ Registers(p, s)' => Registers(p, s) \/ s = i,
         \A p, q \in Requests : Registers(p, i)' /\ Registers(q, i)' => p = q
  PROVE  RegistrationsOK' /\ SignInsOK' /\ DanglingOnlyByOverlap'
<1> USE DEF SubjectsOK
<1>1. \A p \in Requests : ~Learnt(p, i) /\ ~Registers(p, i)
  BY DEF Numbered, Learnt, Registers, RegistrationStage, SignInStage, Stage, TypeOK
<1>2. row # i
  BY DEF Numbered, TypeOK
<1>3. \A s \in Subjects : s # identity
  BY DEF Subjects
<1>4. RegistrationsOK'
  BY <1>1, <1>2, <1>3 DEF RegistrationsOK
<1>5. SignInsOK'
  BY <1>3 DEF SignInsOK
<1>6. DanglingOnlyByOverlap'
  BY DEF DanglingOnlyByOverlap
<1>7. QED
  BY <1>4, <1>5, <1>6

\* The user goes: the realm loses it, or the one handler that registers it
\* removes it, and then all who know it have overlapped with that handler.
LEMMA GoneStep ==
  ASSUME SubjectsOK, TypeOK, NEW i, identity = i, identity' = 0,
         UNCHANGED <<row, overlapped>>, NoneTakesOn, removed \subseteq removed',
         \/ i \in removed'
         \/ \E q \in Requests : Registers(q, i) /\ ~Registers(q, i)'
  PROVE  RegistrationsOK' /\ SignInsOK' /\ DanglingOnlyByOverlap'
<1> USE DEF SubjectsOK, NoneTakesOn
<1>1. CASE i \in removed'
  <2>1. RegistrationsOK'
    BY <1>1 DEF RegistrationsOK
  <2>2. SignInsOK'
    BY <1>1 DEF SignInsOK
  <2>3. DanglingOnlyByOverlap'
    BY <1>1 DEF DanglingOnlyByOverlap
  <2>4. QED
    BY <2>1, <2>2, <2>3
<1>2. ASSUME NEW q \in Requests, Registers(q, i), ~Registers(q, i)'
      PROVE  RegistrationsOK' /\ SignInsOK' /\ DanglingOnlyByOverlap'
  <2>1. i \in Subjects
    BY <1>2, Reached DEF Registers, RegistrationStage, Stage
  <2>2. /\ row = i => i \in overlapped
        /\ \A p \in Requests : Learnt(p, i) => i \in overlapped
        /\ \A p \in Requests : Registers(p, i) => p = q
    BY <1>2, <2>1 DEF RegistrationsOK
  <2>3. \A p \in Requests : ~Registers(p, i)'
    BY <1>2, <2>1, <2>2
  <2>4. RegistrationsOK'
    BY <2>3 DEF RegistrationsOK
  <2>5. SignInsOK'
    BY <2>2 DEF SignInsOK
  <2>6. DanglingOnlyByOverlap'
    BY <2>2 DEF DanglingOnlyByOverlap
  <2>7. QED
    BY <2>4, <2>5, <2>6
<1>3. QED
  BY <1>1, <1>2

\* A login learns the subject that Keycloak has; who registers it is overlapped.
LEMMA LearnStep ==
  ASSUME SubjectsOK, UNCHANGED <<identity, row, removed>>,
         NEW i, identity = i, Overlap(i),
         \A p \in Requests, s \in Subjects :
           /\ Registers(p, s)' => Registers(p, s)
           /\ Learnt(p, s)' => Learnt(p, s) \/ s = i
  PROVE  RegistrationsOK' /\ SignInsOK' /\ DanglingOnlyByOverlap'
<1> USE DEF SubjectsOK
<1>1. overlapped \subseteq overlapped'
  BY DEF Overlap
<1>2. \A q \in Requests : Registers(q, i) => i \in overlapped'
  BY DEF Overlap, Registering, Registers, RegistrationStage
<1>3. RegistrationsOK'
  BY <1>1, <1>2 DEF RegistrationsOK
<1>4. SignInsOK'
  BY <1>1 DEF SignInsOK
<1>5. DanglingOnlyByOverlap'
  BY <1>1 DEF DanglingOnlyByOverlap
<1>6. QED
  BY <1>3, <1>4, <1>5

\* The row gets the subject of a handler that lets go of it: of a registration
\* whose insert went through, or of a login that had learnt it.
LEMMA LinkStep ==
  ASSUME SubjectsOK, TypeOK, UNCHANGED <<identity, removed>>, NoneTakesOn,
         overlapped \subseteq overlapped', NEW r, row' = r,
         \/ \E q \in Requests : Learnt(q, r)
         \/ \E q \in Requests : Registers(q, r) /\ ~Registers(q, r)'
         \/ r \in overlapped' /\ \E q \in Requests : Registers(q, r)
  PROVE  RegistrationsOK' /\ SignInsOK' /\ DanglingOnlyByOverlap'
<1> USE DEF SubjectsOK, NoneTakesOn
<1>1. r \in Subjects
  BY Reached DEF Learnt, Registers, RegistrationStage, SignInStage, Stage
<1>2. r = identity \/ r \in removed \cup overlapped'
  BY <1>1 DEF RegistrationsOK, SignInsOK
<1>3. \A q \in Requests : Registers(q, r)' => r \in overlapped'
  BY <1>1 DEF RegistrationsOK
<1>4. RegistrationsOK'
  BY <1>3 DEF RegistrationsOK
<1>5. SignInsOK'
  BY DEF SignInsOK
<1>6. DanglingOnlyByOverlap'
  BY <1>2 DEF DanglingOnlyByOverlap
<1>7. QED
  BY <1>4, <1>5, <1>6
\* A step of a handler adds nothing to what the others know.
LEMMA MoverTakesOn ==
  ASSUME NEW q \in Requests, \A p \in Requests \ {q} : request'[p] = request[p],
         \A s \in Subjects : /\ Registers(q, s)' => Registers(q, s)
                             /\ Learnt(q, s)' => Learnt(q, s)
  PROVE  NoneTakesOn
  BY DEF NoneTakesOn, Registers, Learnt

\* The steps of registerVerify.
LEMMA RegisterStep ==
  ASSUME Parameters, TypeOK, SubjectsOK, TypeOK', NEW q \in Requests,
         RegisterVerify(q) \/ Prepare(q) \/ Insert(q) \/ InsertFails(q) \/ Compensate(q)
           \/ AssignRole(q)
  PROVE  SubjectsOK'
<1> DEFINE Rest == RegistrationsOK' /\ SignInsOK' /\ DanglingOnlyByOverlap'
<1> USE DEF keycloak, store, history
<1>1. \A p \in Requests \ {q} : request'[p] = request[p]
  BY StepMoves DEF Step
<1>2. CASE RegisterVerify(q)
  <2>1. CASE UNCHANGED <<keycloak, request, registered, faulty>>
    <3>1. UNCHANGED <<identity, subjects, row, request, registered, removed, overlapped>>
      BY <1>2, <2>1 DEF RegisterVerify
    <3>2. Rest
      BY <3>1, QuietStep DEF NoneTakesOn, Registers, Learnt
    <3>3. Numbered'
      BY <3>1 DEF SubjectsOK, Numbered
    <3>4. QED
      BY <3>2, <3>3 DEF SubjectsOK
  <2>2. CASE /\ identity = 0 /\ subjects < MaxSubjects
             /\ identity' = subjects + 1 /\ subjects' = subjects + 1
             /\ registered' = registered \cup {subjects + 1}
             /\ \/ Reach(q, "preparing", subjects + 1) /\ UNCHANGED faulty
                \/ Fault(subjects + 1) /\ UNCHANGED request
    <3>0. PICK i : i = subjects + 1
      OBVIOUS
    <3>1. UNCHANGED <<row, removed, overlapped>>
      BY <1>2 DEF RegisterVerify
    <3>2. \/ request' = request
          \/ request'[q].pc = "preparing" /\ request'[q].subject = i
      BY <2>2, <3>0 DEF Reach, TypeOK
    <3>3. /\ \A p \in Requests, s \in Subjects : Learnt(p, s)' => Learnt(p, s)
          /\ \A p \in Requests, s \in Subjects :
               Registers(p, s)' => Registers(p, s) \/ (p = q /\ s = i)
      BY <1>1, <3>2 DEF Learnt, Registers, SignInStage
    <3>4. /\ i \in Nat /\ subjects \in Nat /\ row \in Nat /\ row <= subjects
          /\ registered \subseteq 1..subjects
      BY <3>0 DEF TypeOK, Subjects, SubjectsOK, Numbered
    <3>5. i \in Subjects
      BY <2>2, <3>0, <3>4 DEF Subjects, Parameters
    <3>6. \A p \in Requests : ~Registers(p, i)
      BY <3>0 DEF SubjectsOK, Numbered, Registers, RegistrationStage, Stage, TypeOK
    <3>7. Rest
      <4>1. \A p, r \in Requests : Registers(p, i)' /\ Registers(r, i)' => p = r
        BY <3>3, <3>5, <3>6
      <4>2. QED
        BY <2>2, <3>0, <3>1, <3>3, <4>1, MadeStep
    <3>8. request'[q].pc \in Stage => request'[q].subject <= subjects'
      <4>1. CASE request' = request
        <5>1. ASSUME request[q].pc \in Stage PROVE request[q].subject <= i
          <6>1. request[q].subject \in Nat /\ request[q].subject <= subjects
            BY <5>1, Reached DEF Subjects, SubjectsOK, Numbered
          <6>2. QED
            BY <3>0, <3>4, <6>1
        <5>2. QED
          BY <2>2, <3>0, <4>1, <5>1
      <4>2. CASE request'[q].subject = i
        BY <2>2, <3>0, <3>4, <4>2
      <4>3. QED
        BY <3>2, <4>1, <4>2
    <3>9. /\ subjects <= subjects' /\ identity' <= subjects' /\ row' <= subjects'
          /\ registered' \subseteq 1..subjects'
      BY <2>2, <3>0, <3>1, <3>4
    <3>10. Numbered'
      BY <1>1, <3>8, <3>9, NumberedByParts DEF SubjectsOK
    <3>11. QED
      BY <3>7, <3>10 DEF SubjectsOK
  <2>3. QED
    BY <1>2, <2>1, <2>2 DEF RegisterVerify, CreateUser
\* The other steps work on one subject, and stay with it or let go of it.
<1>3. ASSUME NEW s \in Subjects, request[q].subject = s,
             request[q].pc \in {"preparing", "inserting", "compensating", "assigning"},
             ~RegisterVerify(q)
      PROVE  SubjectsOK'
  <2>1. /\ UNCHANGED <<subjects, registered, removed>>
        /\ request'[q].pc \in {"preparing", "inserting", "compensating", "assigning"} =>
             request'[q].subject = s
        /\ request'[q].pc \in {"idle", "preparing", "inserting", "compensating", "assigning"}
        /\ request'[q].pc \in RegistrationStage => request[q].pc \in RegistrationStage
        /\ overlapped \subseteq overlapped'
    BY <1>3 DEF Prepare, Insert, InsertFails, Compensate, AssignRole, Reach, Finish, Idle,
       At, RegistrationStage, TypeOK
  <2>2. NoneTakesOn
    BY <1>1, <1>3, <2>1, MoverTakesOn DEF Registers, Learnt, RegistrationStage, SignInStage
  <2>3. Rest
    <3>1. CASE UNCHANGED <<identity, row>>
      BY <2>1, <2>2, <3>1, QuietStep
    <3>2. CASE Insert(q) /\ row' # row
      <4>1. /\ row' = s /\ identity' = identity
            /\ Registers(q, s) /\ ~Registers(q, s)'
        BY <1>3, <3>2 DEF Insert, Reach, At, Registers, RegistrationStage, TypeOK
      <4>2. QED
        BY <2>1, <2>2, <4>1, LinkStep
    <3>3. CASE InsertFails(q) /\ row' # row
      <4>1. /\ row' = s /\ identity' = identity /\ s \in overlapped'
            /\ Registers(q, s)
        BY <1>3, <3>3 DEF InsertFails, At, Registers, RegistrationStage
      <4>2. QED
        BY <2>1, <2>2, <4>1, LinkStep
    <3>4. CASE Compensate(q) /\ identity' # identity
      <4>1. /\ identity = s /\ identity' = 0 /\ UNCHANGED <<row, overlapped>>
            /\ Registers(q, s) /\ ~Registers(q, s)'
        BY <1>3, <3>4 DEF Compensate, Finish, Idle, At, Registers, RegistrationStage, TypeOK
      <4>2. QED
        BY <2>1, <2>2, <4>1, GoneStep
    <3>5. QED
      BY <1>3, <3>1, <3>2, <3>3, <3>4
      DEF Prepare, Insert, InsertFails, Compensate, AssignRole
  <2>4. Numbered'
    <3>1. s <= subjects
      BY <1>3 DEF SubjectsOK, Numbered, Stage
    <3>2. identity' \in {identity, 0} /\ row' \in {row, s}
      BY <1>3 DEF Prepare, Insert, InsertFails, Compensate, AssignRole
    <3>3. identity' <= subjects /\ row' <= subjects /\ subjects <= subjects
      BY <3>1, <3>2 DEF SubjectsOK, Numbered, TypeOK
    <3>4. request'[q].pc \in Stage => request'[q].subject <= subjects'
      BY <2>1, <3>1 DEF Stage
    <3>5. QED
      BY <1>1, <2>1, <3>3, <3>4, NumberedByParts DEF SubjectsOK, Numbered
  <2>5. QED
    BY <2>3, <2>4 DEF SubjectsOK
<1>4. QED
  <2>1. CASE ~RegisterVerify(q)
    <3>1. request[q].pc \in {"preparing", "inserting", "compensating", "assigning"}
      BY <2>1 DEF Prepare, Insert, InsertFails, Compensate, AssignRole, At
    <3>2. request[q].subject \in Subjects
      BY <3>1, Reached DEF Stage
    <3>3. QED
      BY <1>3, <2>1, <3>1, <3>2
  <2>2. QED
    BY <1>2, <2>1
\* The steps of socialCallback and login.
LEMMA SignInStep ==
  ASSUME Parameters, TypeOK, SubjectsOK, TypeOK', NEW q \in Requests,
         \/ \E t \in States, p \in Providers : SocialCallback(q, t, p)
         \/ ExchangeCode(q) \/ FindByKeycloakId(q) \/ SeekByEmail(q) \/ Merge(q) \/ Add(q)
         \/ Login(q) \/ Grant(q) \/ SyncKeycloakIdentity(q) \/ SignInFails(q)
  PROVE  SubjectsOK'
<1> DEFINE Rest == RegistrationsOK' /\ SignInsOK' /\ DanglingOnlyByOverlap'
<1> USE DEF keycloak, store, history
<1>1. \A p \in Requests \ {q} : request'[p] = request[p]
  BY StepMoves DEF Step
<1>2. UNCHANGED <<identity, subjects, registered, removed>>
  BY DEF SocialCallback, ExchangeCode, FindByKeycloakId, SeekByEmail, Merge, Add, Login,
         Grant, SyncKeycloakIdentity, SignInFails
<1>3. ASSUME row' \in {row} \cup Subjects, row' <= subjects,
             request'[q].pc \in Stage => request'[q].subject <= subjects
      PROVE  Numbered'
  BY <1>1, <1>2, <1>3, NumberedByParts DEF SubjectsOK, Numbered, TypeOK
<1>4. identity <= subjects /\ row <= subjects
  BY DEF SubjectsOK, Numbered
<1>5. CASE SignInFails(q) \/ Login(q) \/ \E t \in States, p \in Providers : SocialCallback(q, t, p)
  <2>1. row' = row /\ overlapped' = overlapped
    BY <1>5 DEF SignInFails, Login, SocialCallback
  <2>2. request'[q].pc \in {"idle", "granting", "exchanging"}
    BY <1>5 DEF SignInFails, Login, SocialCallback, Finish, Idle, TypeOK
  <2>3. NoneTakesOn
    BY <1>1, <2>2, MoverTakesOn DEF Registers, Learnt, RegistrationStage, SignInStage
  <2>4. Rest
    BY <1>2, <2>1, <2>3, QuietStep
  <2>5. Numbered'
    BY <1>3, <1>4, <2>1, <2>2 DEF Stage
  <2>6. QED
    BY <2>4, <2>5 DEF SubjectsOK
<1>6. CASE ExchangeCode(q) \/ Grant(q)
  <2>1. PICK i : i = identity
    OBVIOUS
  <2>2. row' = row /\ Overlap(i)
    BY <1>6, <2>1 DEF ExchangeCode, Grant
  <2>3. /\ request'[q].pc \in {"idle", "finding", "repairing"}
        /\ request'[q].pc # "idle" => request'[q].subject = i
    BY <1>6, <2>1 DEF ExchangeCode, Grant, Finish, Reach, Idle, TypeOK
  <2>4. \A p \in Requests, s \in Subjects :
          /\ Registers(p, s)' => Registers(p, s)
          /\ Learnt(p, s)' => Learnt(p, s) \/ s = i
    BY <1>1, <2>3 DEF Registers, Learnt, RegistrationStage, SignInStage
  <2>5. Rest
    BY <1>2, <2>1, <2>2, <2>4, LearnStep
  <2>6. Numbered'
    BY <1>3, <1>4, <2>1, <2>2, <2>3 DEF Stage
  <2>7. QED
    BY <2>5, <2>6 DEF SubjectsOK
<1>7. CASE FindByKeycloakId(q) \/ SeekByEmail(q) \/ Merge(q) \/ Add(q) \/ SyncKeycloakIdentity(q)
  <2>1. request[q].pc \in SignInStage
    BY <1>7 DEF FindByKeycloakId, SeekByEmail, Merge, Add, SyncKeycloakIdentity, At, SignInStage
  <2>2. PICK s \in Subjects : request[q].subject = s
    BY <2>1, Reached DEF SignInStage, Stage
  <2>3. Learnt(q, s) /\ s <= subjects
    BY <2>1, <2>2 DEF Learnt, SignInStage, SubjectsOK, Numbered, Stage
  <2>4. /\ request'[q].pc \in {"idle", "seeking", "adding", "merging"}
        /\ request'[q].pc # "idle" => request'[q].subject = s
        /\ overlapped' = overlapped /\ row' \in {row, s}
    BY <1>7, <2>2 DEF FindByKeycloakId, SeekByEmail, Merge, Add, SyncKeycloakIdentity, Link,
       Finish, Reach, Idle, TypeOK
  <2>5. NoneTakesOn
    BY <1>1, <2>3, <2>4, MoverTakesOn DEF Registers, Learnt, RegistrationStage, SignInStage
  <2>6. Rest
    <3>1. CASE row' = row
      BY <1>2, <2>4, <2>5, <3>1, QuietStep
    <3>2. CASE row' = s
      BY <1>2, <2>3, <2>4, <2>5, <3>2, LinkStep
    <3>3. QED
      BY <2>4, <3>1, <3>2
  <2>7. Numbered'
    BY <1>3, <1>4, <2>3, <2>4 DEF Stage
  <2>8. QED
    BY <2>6, <2>7 DEF SubjectsOK
<1>8. QED
  BY <1>5, <1>6, <1>7

\* A registration that breaks off, a Keycloak user made or lost, and a login with
\* any timing leave what is said about subjects true.
LEMMA SubjectsStep ==
  ASSUME Parameters, TypeOK, SubjectsOK, TypeOK', [Next]_vars PROVE SubjectsOK'
<1> DEFINE Rest == RegistrationsOK' /\ SignInsOK' /\ DanglingOnlyByOverlap'
<1> USE DEF keycloak, store, history
<1>1. ASSUME NEW q \in Requests, Step(q) PROVE SubjectsOK'
  BY <1>1, RegisterStep, SignInStep DEF Step
<1>2. ASSUME UNCHANGED <<keycloak, row, request, registered, removed, overlapped>>
      PROVE  SubjectsOK'
  <2>1. Rest
    BY <1>2, QuietStep DEF NoneTakesOn, Registers, Learnt
  <2>2. Numbered'
    BY <1>2 DEF SubjectsOK, Numbered
  <2>3. QED
    BY <2>1, <2>2 DEF SubjectsOK
<1>3. CASE RegisterInitiate \/ UNCHANGED vars
           \/ \E t \in States : StateExpires(t) \/ \E p \in Providers : GetSocialAuthUrl(t, p)
  BY <1>2, <1>3 DEF RegisterInitiate, vars, StateExpires, GetSocialAuthUrl
<1>4. CASE BrokerSignIn
  <2>1. PICK i : i = subjects + 1
    OBVIOUS
  <2>2. /\ identity = 0 /\ identity' = i /\ subjects' = i
        /\ UNCHANGED <<row, request, registered, removed, overlapped>>
    BY <1>4, <2>1 DEF BrokerSignIn
  <2>3. i \in Nat /\ subjects \in Nat /\ row \in Nat
    BY <2>1 DEF TypeOK, Subjects
  <2>4. \A p \in Requests : ~Registers(p, i)
    BY <2>1, <2>3 DEF SubjectsOK, Numbered, Registers, RegistrationStage, Stage
  <2>5. \A p \in Requests, s \in Subjects : /\ Learnt(p, s)' => Learnt(p, s)
                                            /\ Registers(p, s)' => Registers(p, s)
    BY <2>2 DEF Learnt, Registers
  <2>6. \A p \in Requests : ~Registers(p, i)'
    BY <2>2, <2>4 DEF Registers
  <2>7. Rest
    BY <2>1, <2>2, <2>5, <2>6, MadeStep
  <2>8. Numbered'
    <3>1. ASSUME NEW p \in Requests, request[p].pc \in Stage PROVE request[p].subject <= i
      <4>1. request[p].subject \in Nat /\ request[p].subject <= subjects
        BY <3>1, Reached DEF Subjects, SubjectsOK, Numbered
      <4>2. QED
        BY <2>1, <2>3, <4>1
    <3>2. row <= i /\ registered \subseteq 1..i
      BY <2>1, <2>3 DEF SubjectsOK, Numbered
    <3>3. QED
      BY <2>2, <2>3, <3>1, <3>2 DEF Numbered
  <2>9. QED
    BY <2>7, <2>8 DEF SubjectsOK
<1>5. CASE RealmRemoves
  <2>1. PICK i : i = identity
    OBVIOUS
  <2>2. /\ identity' = 0 /\ i \in removed' /\ removed \subseteq removed'
        /\ UNCHANGED <<subjects, row, request, registered, overlapped>>
    BY <1>5, <2>1 DEF RealmRemoves
  <2>3. NoneTakesOn
    BY <2>2 DEF NoneTakesOn, Registers, Learnt
  <2>4. Rest
    BY <2>1, <2>2, <2>3, GoneStep
  <2>5. Numbered'
    BY <2>2 DEF SubjectsOK, Numbered, TypeOK
  <2>6. QED
    BY <2>4, <2>5 DEF SubjectsOK
<1>6. CASE Restart
  <2>1. /\ UNCHANGED <<identity, subjects, row, registered, removed, overlapped>>
        /\ \A q \in Requests : request'[q].pc = "idle"
    BY <1>6 DEF Restart, Idle
  <2>2. NoneTakesOn
    BY <2>1 DEF NoneTakesOn, Registers, Learnt, RegistrationStage, SignInStage
  <2>3. Rest
    BY <2>1, <2>2, QuietStep
  <2>4. Numbered'
    BY <2>1 DEF SubjectsOK, Numbered, Stage
  <2>5. QED
    BY <2>3, <2>4 DEF SubjectsOK
<1>7. QED
  BY <1>1, <1>3, <1>4, <1>5, <1>6 DEF Next
-----------------------------------------------------------------------------
(* Orphans.                                                                *)

\* What explains a Keycloak user without its row goes on explaining it.
LEMMA OrphanKept ==
  ASSUME OrphanOnlyByFault, NEW i, identity = i, UNCHANGED <<identity, registered>>,
         faulty \subseteq faulty', row = i => row' = i \/ i = 0 \/ i \in faulty',
         Registering(i) => Registering(i)' \/ i \in faulty' \/ row' = i,
         0 \notin registered
  PROVE  OrphanOnlyByFault'
  BY DEF OrphanOnlyByFault

\* Whoever registers a subject still does after the step of another handler.
LEMMA RegisteringKept ==
  ASSUME NEW q \in Requests, \A p \in Requests \ {q} : request'[p] = request[p],
         NEW i, Registering(i), ~Registers(q, i)
  PROVE  Registering(i)'
  BY DEF Registering, Registers, RegistrationStage

\* A step that leaves a Keycloak user without its row keeps the registration
\* going or records the fault.
LEMMA OrphanStep ==
  ASSUME Parameters, TypeOK, SubjectsOK, OrphanOnlyByFault, [Next]_vars
  PROVE  OrphanOnlyByFault'
<1> USE DEF keycloak, store, history
<1>1. PICK i : i = identity
  OBVIOUS
<1>2. 0 \notin registered /\ subjects + 1 \notin registered
  BY DEF SubjectsOK, Numbered, TypeOK
<1>3. ASSUME UNCHANGED <<identity, registered>>, faulty \subseteq faulty',
             row = i => row' = i \/ i = 0 \/ i \in faulty',
             Registering(i) => Registering(i)' \/ i \in faulty' \/ row' = i
      PROVE  OrphanOnlyByFault'
  BY <1>1, <1>2, <1>3, OrphanKept
<1>4. ASSUME NEW q \in Requests,
             Prepare(q) \/ Insert(q) \/ InsertFails(q) \/ Compensate(q)
      PROVE  OrphanOnlyByFault'
  <2>1. PICK s : s = request[q].subject
    OBVIOUS
  <2>2. \A p \in Requests \ {q} : request'[p] = request[p]
    BY <1>4, StepMoves DEF Step
  <2>3. registered' = registered /\ faulty \subseteq faulty'
    BY <1>4 DEF Prepare, Insert, InsertFails, Compensate, Fault
  <2>4. row' = row \/ row = 0
    BY <1>4 DEF Prepare, Insert, InsertFails, Compensate
  <2>5. CASE s # i
    <3>1. ~Registers(q, i)
      BY <2>1, <2>5 DEF Registers
    <3>2. identity' = identity
      BY <1>1, <1>4, <2>1, <2>5 DEF Prepare, Insert, InsertFails, Compensate
    <3>3. QED
      BY <1>3, <2>2, <2>3, <2>4, <3>1, <3>2, RegisteringKept
  <2>6. CASE s = i
    <3>1. CASE Prepare(q)
      <4>1. identity' = identity /\ row' = row
        BY <3>1 DEF Prepare
      <4>2. Registering(i)' \/ i \in faulty'
        BY <2>1, <2>6, <3>1 DEF Prepare, Reach, Fault, Registering, TypeOK
      <4>3. QED
        BY <1>3, <2>3, <4>1, <4>2
    <3>2. CASE Insert(q)
      <4>1. identity' = identity
        BY <3>2 DEF Insert
      <4>2. Registering(i)' \/ row' = i
        BY <2>1, <2>6, <3>2 DEF Insert, Reach, Registering, TypeOK
      <4>3. QED
        BY <1>3, <2>3, <2>4, <4>1, <4>2
    <3>3. CASE InsertFails(q)
      <4>1. identity' = identity
        BY <3>3 DEF InsertFails
      <4>2. Registering(i)'
        BY <2>1, <2>6, <3>3 DEF InsertFails, Reach, Registering, TypeOK
      <4>3. QED
        BY <1>3, <2>3, <2>4, <4>1, <4>2
    <3>4. CASE Compensate(q)
      <4>1. CASE identity' = 0
        BY <1>2, <2>3, <4>1 DEF OrphanOnlyByFault
      <4>2. CASE identity' = identity /\ i \in faulty'
        <5>1. row' = row
          BY <3>4 DEF Compensate
        <5>2. QED
          BY <1>3, <2>3, <4>2, <5>1
      <4>3. QED
        BY <1>1, <2>1, <2>6, <3>4, <4>1, <4>2 DEF Compensate, Fault
    <3>5. QED
      BY <1>4, <3>1, <3>2, <3>3, <3>4
  <2>7. QED
    BY <2>5, <2>6
<1>5. ASSUME NEW q \in Requests, RegisterVerify(q) PROVE OrphanOnlyByFault'
  <2>1. CASE UNCHANGED <<keycloak, request, registered, faulty>>
    BY <1>3, <1>5, <2>1 DEF RegisterVerify, Registering
  <2>2. CASE /\ identity' = subjects + 1
             /\ \/ Reach(q, "preparing", subjects + 1) /\ UNCHANGED faulty
                \/ Fault(subjects + 1) /\ UNCHANGED request
    <3>1. PICK n : n = subjects + 1
      OBVIOUS
    <3>2. Registering(n)' \/ n \in faulty'
      BY <2>2, <3>1 DEF Reach, Fault, Registering, TypeOK
    <3>3. QED
      BY <2>2, <3>1, <3>2 DEF OrphanOnlyByFault
  <2>3. QED
    BY <1>5, <2>1, <2>2 DEF RegisterVerify, CreateUser
\* A handler of another kind has no registration to give up.
<1>6. ASSUME NEW q \in Requests, Step(q), request[q].pc \notin RegistrationStage,
             ~RegisterVerify(q)
      PROVE  OrphanOnlyByFault'
  <2>1. Registering(i) => Registering(i)'
    <3>1. ~Registers(q, i)
      BY <1>6 DEF Registers
    <3>2. QED
      BY <1>6, <3>1, StepMoves, RegisteringKept
  <2>2. UNCHANGED <<identity, registered>>
    BY <1>6 DEF Step, Prepare, Insert, InsertFails, Compensate, At, RegistrationStage,
       AssignRole, SocialCallback, ExchangeCode, FindByKeycloakId, SeekByEmail, Merge,
       Add, Login, Grant, SyncKeycloakIdentity, SignInFails
  <2>3. \/ row' = row /\ faulty' = faulty
        \/ row = 0 /\ faulty' = faulty
        \/ faulty' = faulty \cup ({row} \ {0, row'})
    BY <1>6 DEF Step, Prepare, Insert, InsertFails, Compensate, At, RegistrationStage,
       AssignRole, SocialCallback, ExchangeCode, FindByKeycloakId, SeekByEmail, Merge,
       Add, Login, Grant, SyncKeycloakIdentity, SignInFails, Link
  <2>4. /\ faulty \subseteq faulty'
        /\ row = i => row' = i \/ i = 0 \/ i \in faulty'
    BY <2>3
  <2>5. QED
    BY <1>3, <2>1, <2>2, <2>4
<1>7. ASSUME NEW q \in Requests, Step(q) PROVE OrphanOnlyByFault'
  <2>1. request[q].pc \in RegistrationStage /\ ~RegisterVerify(q) =>
          Prepare(q) \/ Insert(q) \/ InsertFails(q) \/ Compensate(q)
    BY <1>7 DEF Step, RegistrationStage, Idle, At, AssignRole, SocialCallback, ExchangeCode,
       FindByKeycloakId, SeekByEmail, Merge, Add, Login, Grant, SyncKeycloakIdentity, SignInFails
  <2>2. QED
    BY <1>4, <1>5, <1>6, <1>7, <2>1
<1>8. CASE RegisterInitiate \/ UNCHANGED vars
           \/ \E t \in States : StateExpires(t) \/ \E p \in Providers : GetSocialAuthUrl(t, p)
  <2>1. UNCHANGED <<identity, registered, faulty, row, request>>
    BY <1>8 DEF RegisterInitiate, vars, StateExpires, GetSocialAuthUrl
  <2>2. QED
    BY <1>3, <2>1 DEF Registering
<1>9. CASE BrokerSignIn \/ RealmRemoves
  BY <1>2, <1>9 DEF BrokerSignIn, RealmRemoves, OrphanOnlyByFault
<1>10. CASE Restart
  <2>1. UNCHANGED <<identity, registered, row>>
        /\ faulty' = faulty \cup {s \in Subjects : Registering(s)}
    BY <1>10 DEF Restart
  <2>2. Registering(i) => i \in faulty'
    BY <2>1, Reached DEF Registering, Stage
  <2>3. QED
    BY <1>3, <2>1, <2>2
<1>11. QED
  BY <1>7, <1>8, <1>9, <1>10 DEF Next

-----------------------------------------------------------------------------
(* The theorems.                                                           *)

\* Every step keeps the inductive invariant.
LEMMA InvStep == ASSUME Parameters, IInv, [Next]_vars PROVE IInv'
  BY TypeStep, StatesStep, SubjectsStep, OrphanStep DEF IInv

\* The inductive invariant holds of every reachable state.
THEOREM Invariance == ASSUME Parameters PROVE Spec => []IInv
<1>1. Init => IInv
  BY InvInit
<1>2. IInv /\ [Next]_vars => IInv'
  BY InvStep
<1>3. QED
  BY <1>1, <1>2, PTL DEF Spec
=============================================================================
