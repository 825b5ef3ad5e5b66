---------------------------- MODULE Registration ----------------------------
(***************************************************************************)
(* How one e-mail address gets its Keycloak user and its row in users:     *)
(* AuthService.registerInitiate and registerVerify, the social login       *)
(* (getSocialAuthUrl, socialCallback) and the repair of the link between   *)
(* the two that login makes (syncKeycloakIdentity).  Nothing spans the     *)
(* database and Keycloak but the compensation of registerVerify.           *)
(*                                                                         *)
(* Keycloak is external.  It keeps at most one user for an e-mail; a user  *)
(* is known by its subject, and subjects are numbered as they are made.    *)
(* That the row is banned, which refuses the session after the link is     *)
(* made, and the session itself are left to UserAccounts and Sessions.     *)
(***************************************************************************)
EXTENDS Naturals, FiniteSets

CONSTANTS
  Requests,     \* request slots
  States,       \* values of the OAuth parameter `state`, each drawn once
  Providers,
  MaxSubjects,  \* bounds the Keycloak users ever made
  None

VARIABLES
  identity,   \* at Keycloak: the subject of the user with the e-mail, or 0
  subjects,   \* how many Keycloak users were made
  row,        \* keycloakId in the row of users with the e-mail; 0: no row
  invited,    \* a challenge of registerInitiate waits for registerVerify
  social,     \* socialStateStore, in memory: the provider of a live state
  drawn,      \* states handed out
  request,    \* what each handler in progress has reached and remembers
  callbacks,  \* history: how often each state was exchanged for tokens
  registered, \* history: subjects that registerVerify made
  faulty,     \* history: subjects whose registration broke off, or that lost their row
  removed,    \* history: subjects an administrator of the realm removed
  overlapped  \* history: subjects seen by a login while they were registered

vars == <<identity, subjects, row, invited, social, drawn, request,
          callbacks, registered, faulty, removed, overlapped>>
keycloak == <<identity, subjects>>
store == <<social, drawn>>
history == <<callbacks, registered, faulty, removed, overlapped>>

Subjects == 1..MaxSubjects
Stage == {"preparing", "inserting", "compensating", "assigning",  \* registerVerify
          "finding", "seeking", "merging", "adding",              \* socialCallback
          "repairing"}                                            \* login

Working ==
  [pc : Stage, subject : Subjects]
  \cup [pc : {"exchanging"}, state : States]  \* the state is taken -> token endpoint
  \cup [pc : {"granting"}, known : Subjects]  \* the row is read    -> token endpoint

Idle == [pc |-> "idle"]

TypeOK ==
  /\ identity \in Subjects \cup {0} /\ row \in Subjects \cup {0}
  /\ subjects \in 0..MaxSubjects
  /\ invited \in BOOLEAN
  /\ social \in [States -> Providers \cup {None}]
  /\ drawn \subseteq States
  /\ request \in [Requests -> Working \cup {Idle}]
  /\ callbacks \in [States -> Nat]
  /\ \A S \in {registered, faulty, removed, overlapped} : S \subseteq Subjects

Init ==
  /\ identity = 0 /\ subjects = 0 /\ row = 0
  /\ invited = FALSE
  /\ social = [t \in States |-> None] /\ drawn = {}
  /\ request = [q \in Requests |-> Idle]
  /\ callbacks = [t \in States |-> 0]
  /\ registered = {} /\ faulty = {} /\ removed = {} /\ overlapped = {}

-----------------------------------------------------------------------------
At(q, pc) == request[q].pc = pc
Reach(q, stage, s) == request' = [request EXCEPT ![q] = [pc |-> stage, subject |-> s]]
Finish(q) == request' = [request EXCEPT ![q] = Idle]

\* registerVerify works on subject s and has no row for it yet.
Registering(s) ==
  \E q \in Requests : /\ request[q].pc \in {"preparing", "inserting", "compensating"}
                      /\ request[q].subject = s

Overlap(s) == overlapped' = IF Registering(s) THEN overlapped \cup {s} ELSE overlapped
Fault(s) == faulty' = faulty \cup {s}

\* UPDATE of the link, to a subject learnt before: it may be gone by now, and the
\* row may have another.
Link(s) == row' = s /\ faulty' = faulty \cup ({row} \ {0, s})

-----------------------------------------------------------------------------
(* registerInitiate and registerVerify.                                    *)

\* The row is looked for here and not again before it is inserted.
RegisterInitiate ==
  /\ row = 0
  /\ invited' = TRUE
  /\ UNCHANGED <<keycloak, row, store, request, history>>

\* createUser POSTs to Keycloak, which answers 409 when it has the e-mail.
CreateUser(q) ==
  \/ /\ identity = 0 /\ subjects < MaxSubjects
     /\ identity' = subjects + 1 /\ subjects' = subjects + 1
     /\ registered' = registered \cup {subjects + 1}
     /\ \/ Reach(q, "preparing", subjects + 1) /\ UNCHANGED faulty
        \/ Fault(subjects + 1) /\ UNCHANGED request       \* the answer is lost
  \/ UNCHANGED <<keycloak, request, registered, faulty>>  \* 409, 4xx, no connection

\* The challenge is used up before Keycloak is asked.
RegisterVerify(q) ==
  /\ request[q] = Idle /\ invited
  /\ invited' = FALSE
  /\ CreateUser(q)
  /\ UNCHANGED <<row, store, callbacks, removed, overlapped>>

\* createUser PUTs requiredActions; an error is thrown to the client as it is.
Prepare(q) ==
  LET s == request[q].subject IN
  /\ At(q, "preparing")
  /\ \/ identity = s /\ Reach(q, "inserting", s) /\ UNCHANGED faulty
     \/ Finish(q) /\ Fault(s)
  /\ UNCHANGED <<keycloak, row, invited, store, callbacks, registered, removed, overlapped>>

\* Mutant: the insert is not in the try block.
InsertUncompensated(q) ==
  LET s == request[q].subject IN
  /\ At(q, "inserting")
  /\ IF row = 0 THEN row' = s /\ Reach(q, "assigning", s) ELSE UNCHANGED row /\ Finish(q)
  /\ UNCHANGED <<keycloak, invited, store, history>>

\* The e-mail is unique in the table.
Insert(q) ==
  LET s == request[q].subject IN
  /\ At(q, "inserting")
  /\ IF row = 0 THEN row' = s /\ Reach(q, "assigning", s)
                ELSE UNCHANGED row /\ Reach(q, "compensating", s)
  /\ UNCHANGED <<keycloak, invited, store, history>>

\* The database fails; or it has committed and the answer is lost.
InsertFails(q) ==
  LET s == request[q].subject IN
  /\ At(q, "inserting")
  /\ Reach(q, "compensating", s)
  /\ \/ UNCHANGED <<row, overlapped>>
     \/ row = 0 /\ row' = s /\ overlapped' = overlapped \cup {s}
  /\ UNCHANGED <<keycloak, invited, store, callbacks, registered, faulty, removed>>

\* deleteUser; an error is logged and swallowed.
Compensate(q) ==
  LET s == request[q].subject IN
  /\ At(q, "compensating")
  /\ \/ identity' = (IF identity = s THEN 0 ELSE identity) /\ UNCHANGED faulty
     \/ UNCHANGED identity /\ Fault(s)
  /\ Finish(q)
  /\ UNCHANGED <<subjects, row, invited, store, callbacks, registered, removed, overlapped>>

\* Mutant: the role is assigned in the try block of the insert.
AssignRoleInTry(q) ==
  /\ At(q, "assigning")
  /\ Reach(q, "compensating", request[q].subject) \/ Finish(q)
  /\ UNCHANGED <<keycloak, row, invited, store, history>>

\* An error is logged; the tokens and the session follow either way.
AssignRole(q) ==
  /\ At(q, "assigning")
  /\ Finish(q)
  /\ UNCHANGED <<keycloak, row, invited, store, history>>

-----------------------------------------------------------------------------
(* Social login.                                                           *)

\* State t is fresh (randomUUID).
GetSocialAuthUrl(t, p) ==
  /\ t \notin drawn
  /\ social' = [social EXCEPT ![t] = p]
  /\ drawn' = drawn \cup {t}
  /\ UNCHANGED <<keycloak, row, invited, request, history>>

\* 10 minutes later: refused from now on, deleted when the next one is drawn.
StateExpires(t) ==
  /\ social[t] # None
  /\ social' = [social EXCEPT ![t] = None]
  /\ UNCHANGED <<keycloak, row, invited, drawn, request, history>>

\* Keycloak makes a user for whom a provider vouches.
BrokerSignIn ==
  /\ identity = 0 /\ subjects < MaxSubjects
  /\ identity' = subjects + 1 /\ subjects' = subjects + 1
  /\ UNCHANGED <<row, invited, store, request, history>>

\* Mutant: the state is left in the store.
SocialCallbackKeepsState(q, t, p) ==
  /\ request[q] = Idle /\ social[t] = p
  /\ request' = [request EXCEPT ![q] = [pc |-> "exchanging", state |-> t]]
  /\ UNCHANGED <<keycloak, row, invited, store, history>>

\* get, compare and delete, without an await between them.
SocialCallback(q, t, p) ==
  /\ request[q] = Idle /\ social[t] = p
  /\ social' = [social EXCEPT ![t] = None]
  /\ request' = [request EXCEPT ![q] = [pc |-> "exchanging", state |-> t]]
  /\ UNCHANGED <<keycloak, row, invited, drawn, history>>

\* exchangeCode: the subject is the one in the id token.
ExchangeCode(q) ==
  LET t == request[q].state IN
  /\ At(q, "exchanging") /\ identity # 0
  /\ callbacks' = [callbacks EXCEPT ![t] = @ + 1]
  /\ Overlap(identity)
  /\ Reach(q, "finding", identity)
  /\ UNCHANGED <<keycloak, row, invited, store, registered, faulty, removed>>

\* Is there a row with the subject?
FindByKeycloakId(q) ==
  LET s == request[q].subject IN
  /\ At(q, "finding")
  /\ IF row = s THEN Finish(q) ELSE Reach(q, "seeking", s)
  /\ UNCHANGED <<keycloak, row, invited, store, history>>

\* None has: is there one with the e-mail?
SeekByEmail(q) ==
  /\ At(q, "seeking")
  /\ Reach(q, IF row = 0 THEN "adding" ELSE "merging", request[q].subject)
  /\ UNCHANGED <<keycloak, row, invited, store, history>>

Merge(q) ==
  /\ At(q, "merging")
  /\ Link(request[q].subject)
  /\ Finish(q)
  /\ UNCHANGED <<keycloak, invited, store, callbacks, registered, removed, overlapped>>

\* A unique violation is thrown to the client.
Add(q) ==
  /\ At(q, "adding")
  /\ row' = IF row = 0 THEN request[q].subject ELSE row
  /\ Finish(q)
  /\ UNCHANGED <<keycloak, invited, store, history>>

-----------------------------------------------------------------------------
(* Login with a password, and what may happen to all of them.              *)

\* Mutant: an e-mail without a row is sent to Keycloak too.
LoginUnknown(q) ==
  /\ request[q] = Idle
  /\ request' = [request EXCEPT ![q] = [pc |-> "granting", known |-> row]]
  /\ UNCHANGED <<keycloak, row, invited, store, history>>

Login(q) ==
  /\ request[q] = Idle /\ row # 0
  /\ request' = [request EXCEPT ![q] = [pc |-> "granting", known |-> row]]
  /\ UNCHANGED <<keycloak, row, invited, store, history>>

\* issueTokenPair.
Grant(q) ==
  /\ At(q, "granting") /\ identity # 0
  /\ Overlap(identity)
  /\ IF request[q].known = identity THEN Finish(q) ELSE Reach(q, "repairing", identity)
  /\ UNCHANGED <<keycloak, row, invited, store, callbacks, registered, faulty, removed>>

\* The subject is linked to this row or to none: the link follows the token.
SyncKeycloakIdentity(q) ==
  /\ At(q, "repairing")
  /\ Link(request[q].subject)
  /\ Finish(q)
  /\ UNCHANGED <<keycloak, invited, store, callbacks, registered, removed, overlapped>>

\* A token endpoint or the database answers with an error.
SignInFails(q) ==
  /\ request[q].pc \in {"exchanging", "granting", "finding", "seeking", "merging", "adding",
                        "repairing"}
  /\ Finish(q)
  /\ UNCHANGED <<keycloak, row, invited, store, history>>

\* The realm, or its user, is made anew.
RealmRemoves ==
  /\ identity # 0
  /\ removed' = removed \cup {identity}
  /\ identity' = 0
  /\ UNCHANGED <<subjects, row, invited, store, request, callbacks,
                 registered, faulty, overlapped>>

\* The memory of the process is lost: handlers and states.
Restart ==
  /\ request' = [q \in Requests |-> Idle]
  /\ social' = [t \in States |-> None]
  /\ faulty' = faulty \cup {s \in Subjects : Registering(s)}
  /\ UNCHANGED <<keycloak, row, invited, drawn, callbacks, registered, removed, overlapped>>

Step(q) ==
  \/ RegisterVerify(q)
  \/ Prepare(q)
  \/ Insert(q)
  \/ InsertFails(q)
  \/ Compensate(q)
  \/ AssignRole(q)
  \/ \E t \in States, p \in Providers : SocialCallback(q, t, p)
  \/ ExchangeCode(q)
  \/ FindByKeycloakId(q)
  \/ SeekByEmail(q)
  \/ Merge(q)
  \/ Add(q)
  \/ Login(q)
  \/ Grant(q)
  \/ SyncKeycloakIdentity(q)
  \/ SignInFails(q)

Next ==
  \/ RegisterInitiate
  \/ \E q \in Requests : Step(q)
  \/ \E t \in States, p \in Providers : GetSocialAuthUrl(t, p)
  \/ \E t \in States : StateExpires(t)
  \/ BrokerSignIn
  \/ RealmRemoves
  \/ Restart

Spec == Init /\ [][Next]_vars

-----------------------------------------------------------------------------
(* A state that getSocialAuthUrl drew lets one callback through, however   *)
(* many arrive with it while the first waits for Keycloak.                 *)
OneCallbackPerState == \A t \in States : callbacks[t] <= 1

(* A Keycloak user that registerVerify made has its row, unless the        *)
(* registration is still going on, or broke off between the two (an error  *)
(* of the second request of createUser, a lost answer, a restart, a        *)
(* failing deleteUser), or a login in progress took the row for a subject  *)
(* it had learnt before.  Where there is no row the e-mail can neither log *)
(* in nor register again: Keycloak answers 409.                            *)
OrphanOnlyByFault ==
  (identity \in registered /\ row # identity) =>
    Registering(identity) \/ identity \in faulty

(* A row is linked to a Keycloak user that is gone only where the realm    *)
(* lost it, or where its registration was undone while a login had seen    *)
(* it or after the insert had committed unnoticed.                         *)
DanglingOnlyByOverlap ==
  (row # 0 /\ row # identity) => row \in removed \cup overlapped

=============================================================================
