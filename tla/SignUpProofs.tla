---------------------------- MODULE SignUpProofs ----------------------------
(***************************************************************************)
(* Theorems about OtpChallenge, for every number of verifications and      *)
(* challenges and for every limit of attempts; about KeycloakAdmin, for    *)
(* every lifetime of a token; and about the module MCSignUp, in which they *)
(* run beside Registration.                                                *)
(***************************************************************************)
EXTENDS MCSignUp, FiniteSetTheorems, TLAPS

-----------------------------------------------------------------------------
(* The inductive invariant.                                                *)

\* Challenges are numbered as they are stored: nobody has met a later one.
Numbered ==
  /\ key.challenge <= issued
  /\ \A v \in Verifiers : verifier[v].read <= issued
  /\ \A n \in Challenges : n > issued => compared[n] = 0 /\ accepted[n] = 0

\* The verifications that still may compare their input with challenge n.
Holding(n) == {v \in Verifiers : verifier[v].pc = "read" /\ verifier[v].read = n}

\* While Redis has the challenge its counter covers every comparison; once it is
\* gone only the verifications that hold it can compare, each of them once.
CounterExact ==
  \A n \in Challenges :
    IF key.challenge = n
      THEN compared[n] <= key.attempts /\ compared[n] <= MaxAttempts
      ELSE compared[n] + Cardinality(Holding(n)) <= MaxAttempts + Cardinality(Verifiers)

IInv == TypeOK /\ Numbered /\ ChallengeExpires /\ AcceptedIsGone /\ CounterExact

-----------------------------------------------------------------------------
(* The invariant holds initially.                                          *)

\* Cardinalities of sets of verifications are numbers.
LEMMA HoldingBounded ==
  \A n : /\ IsFiniteSet(Holding(n))
         /\ Cardinality(Holding(n)) \in Nat
         /\ Cardinality(Verifiers) \in Nat
         /\ Cardinality(Holding(n)) <= Cardinality(Verifiers)
<1> TAKE n
<1>1. Holding(n) \subseteq Verifiers
  BY DEF Holding
<1>2. QED
  BY <1>1, OtpAssumption, FS_Subset, FS_CardinalityType

\* Before the first request there is no challenge and no comparison.
LEMMA InvInit == Init => IInv
<1> SUFFICES ASSUME Init PROVE IInv
  OBVIOUS
<1> USE OtpAssumption DEF Init, Absent, Resting, NotCreating, NoChallenge, Challenges
<1>1. TypeOK
  BY DEF TypeOK, Hash, Verifying, Creating
<1>2. Numbered /\ ChallengeExpires /\ AcceptedIsGone
  BY DEF Numbered, ChallengeExpires, AcceptedIsGone
<1>3. CounterExact
  <2> SUFFICES ASSUME NEW n \in Challenges
               PROVE  compared[n] + Cardinality(Holding(n)) <= MaxAttempts + Cardinality(Verifiers)
    BY DEF CounterExact
  <2>1. compared[n] = 0
    OBVIOUS
  <2>2. QED
    BY <2>1, HoldingBounded
<1>4. QED
  BY <1>1, <1>2, <1>3 DEF IInv

-----------------------------------------------------------------------------
(* TypeOK and the numbering are preserved.                                 *)

\* The commands of createOtp and verifyOtp, and the expiry, keep the types.
LEMMA TypeStep == TypeOK /\ [Next]_vars => TypeOK'
<1> SUFFICES ASSUME TypeOK, [Next]_vars PROVE TypeOK'
  OBVIOUS
<1> USE DEF TypeOK, Hash, Absent
<1>0. /\ \A s \in Creating, pc \in {"admitted", "deleted", "stored"} :
           [s EXCEPT !.pc = pc] \in Creating
      /\ NotCreating \in Creating
  BY DEF Creating, NotCreating
<1>1. ASSUME NEW c \in Creators,
             Admit(c) \/ DelKey(c) \/ SetHash(c) \/ SetExpiry(c) \/ CreateFail(c)
      PROVE  TypeOK'
  <2>1. CASE Admit(c)
    <3>1. creator' \in [Creators -> Creating]
      BY <1>0, <2>1 DEF Admit
    <3>2. QED
      BY <2>1, <3>1 DEF Admit
  <2>2. CASE DelKey(c)
    <3>1. creator' \in [Creators -> Creating]
      BY <1>0, <2>2 DEF DelKey
    <3>2. Absent \in Hash
      BY OtpAssumption
    <3>3. QED
      BY <2>2, <3>1, <3>2 DEF DelKey
  <2>3. CASE SetHash(c)
    <3>1. CASE /\ issued < MaxChallenges /\ issued' = issued + 1 /\ key' = Stored
               /\ creator' = [creator EXCEPT ![c] = [pc |-> "stored", made |-> issued + 1]]
      <4>1. issued + 1 \in Challenges /\ 0 \in 0..CounterBound
        BY <3>1, OtpAssumption DEF Challenges
      <4>2. [pc |-> "stored", made |-> issued + 1] \in Creating
        BY <4>1 DEF Creating
      <4>3. creator' \in [Creators -> Creating]
        BY <3>1, <4>2
      <4>4. key' \in Hash
        BY <3>1, <4>1 DEF Stored
      <4>5. QED
        BY <2>3, <3>1, <4>1, <4>3, <4>4 DEF SetHash
    <3>2. CASE UNCHANGED <<key, issued>> /\ creator' = [creator EXCEPT ![c].pc = "stored"]
      <4>1. creator' \in [Creators -> Creating]
        BY <1>0, <3>2
      <4>2. QED
        BY <2>3, <3>2, <4>1 DEF SetHash
    <3>3. QED
      BY <2>3, <3>1, <3>2 DEF SetHash
  <2>4. CASE SetExpiry(c)
    <3>1. creator' \in [Creators -> Creating]
      BY <1>0, <2>4 DEF SetExpiry
    <3>2. key' \in Hash
      BY <2>4 DEF SetExpiry
    <3>3. QED
      BY <2>4, <3>1, <3>2 DEF SetExpiry
  <2>5. CASE CreateFail(c)
    <3>1. creator' \in [Creators -> Creating]
      BY <1>0, <2>5 DEF CreateFail
    <3>2. lost' \subseteq Challenges
      BY <2>5 DEF CreateFail, Creating
    <3>3. QED
      BY <2>5, <3>1, <3>2 DEF CreateFail
  <2>6. QED
    BY <1>1, <2>1, <2>2, <2>3, <2>4, <2>5
<1>2. ASSUME NEW v \in Verifiers, Read(v) PROVE TypeOK'
  <2>1. PICK input \in 0..issued :
          verifier' = [verifier EXCEPT
            ![v] = [pc |-> "read", input |-> input, read |-> key.challenge]]
    BY <1>2 DEF Read
  <2>2. input \in Challenges \cup {NoChallenge} /\ key.challenge \in Challenges
    BY <1>2, <2>1, OtpAssumption DEF Read, Challenges, NoChallenge
  <2>3. [pc |-> "read", input |-> input, read |-> key.challenge] \in Verifying
    BY <2>2 DEF Verifying
  <2>4. QED
    BY <1>2, <2>1, <2>3 DEF Read
<1>3. ASSUME NEW v \in Verifiers, Count(v) PROVE TypeOK'
  <2>1. verifier[v] \in Verifying
    BY <1>3 DEF Count, Resting
  <2>2. key' \in Hash
    <3>1. key.attempts + 1 \in 0..CounterBound
      BY <1>3, OtpAssumption DEF Count
    <3>2. key' = [challenge |-> key.challenge, attempts |-> key.attempts + 1,
                  cooling |-> key.cooling, expires |-> key.expires]
      BY <1>3 DEF Count, Increment
    <3>3. QED
      BY <3>1, <3>2
  <2>3. /\ [verifier[v] EXCEPT !.pc = "excess"] \in Verifying
        /\ [verifier[v] EXCEPT !.pc = "matched"] \in Verifying
    BY <2>1 DEF Verifying
  <2>4. verifier' \in [Verifiers -> Verifying \cup {Resting}]
    BY <1>3, <2>3 DEF Count, Decide
  <2>5. compared' \in [Challenges -> Nat]
    <3>1. \/ compared' = compared
          \/ compared' = [compared EXCEPT ![verifier[v].read] = @ + 1]
      BY <1>3 DEF Count, Decide
    <3>2. verifier[v].read \in Challenges
      BY <2>1 DEF Verifying
    <3>3. QED
      BY <3>1, <3>2
  <2>6. QED
    BY <1>3, <2>2, <2>4, <2>5 DEF Count
<1>4. ASSUME NEW v \in Verifiers, RefuseExcess(v) \/ VerifyFail(v) PROVE TypeOK'
  <2>1. Absent \in Hash
    BY OtpAssumption
  <2>2. verifier' = [verifier EXCEPT ![v] = Resting] /\ key' \in {key, Absent}
    BY <1>4 DEF RefuseExcess, VerifyFail
  <2>3. UNCHANGED <<issued, creator, lost, compared, accepted>>
    BY <1>4 DEF RefuseExcess, VerifyFail
  <2>4. verifier' \in [Verifiers -> Verifying \cup {Resting}]
    BY <2>2
  <2>5. QED
    BY <2>1, <2>2, <2>3, <2>4
<1>5. ASSUME NEW v \in Verifiers, Accept(v) PROVE TypeOK'
  <2>1. Absent \in Hash
    BY OtpAssumption
  <2>2. accepted' \in [Challenges -> Nat]
    BY <1>5 DEF Accept, Verifying, Resting
  <2>3. QED
    BY <1>5, <2>1, <2>2 DEF Accept
<1>6. CASE CooldownEnds \/ Expire
  <2>1. Absent \in Hash
    BY OtpAssumption
  <2>2. QED
    BY <1>6, <2>1 DEF CooldownEnds, Expire
<1>7. CASE UNCHANGED vars
  BY <1>7 DEF vars
<1>8. QED
  BY <1>1, <1>2, <1>3, <1>4, <1>5, <1>6, <1>7 DEF Next

\* Challenges are numbered as they are created.
LEMMA NumberedStep == TypeOK /\ Numbered /\ [Next]_vars => Numbered'
<1> SUFFICES ASSUME TypeOK, Numbered, [Next]_vars PROVE Numbered'
  OBVIOUS
<1> USE OtpAssumption DEF Numbered, NoChallenge
<1>0. /\ key.challenge \in Nat /\ issued \in Nat
      /\ \A v \in Verifiers : verifier[v].read \in Nat
      /\ \A v \in Verifiers : verifier[v] # Resting => verifier[v] \in Verifying
      /\ Challenges \subseteq Nat \ {0}
  <2>1. Challenges \subseteq Nat \ {0}
    BY DEF Challenges
  <2>2. key.challenge \in Nat /\ issued \in Nat
    BY DEF TypeOK, Hash, Challenges
  <2>3. \A v \in Verifiers : verifier[v] \in Verifying \cup {Resting}
    BY DEF TypeOK
  <2>4. \A s \in Verifying \cup {Resting} : s.read \in Nat
    BY DEF Verifying, Resting, Challenges
  <2>5. QED
    BY <2>1, <2>2, <2>3, <2>4
<1>1. ASSUME NEW c \in Creators, Admit(c) \/ DelKey(c) \/ SetExpiry(c) \/ CreateFail(c)
      PROVE  Numbered'
  <2>1. key'.challenge \in {key.challenge, 0}
    BY <1>1 DEF Admit, DelKey, SetExpiry, CreateFail, Absent, TypeOK, Hash
  <2>2. UNCHANGED <<issued, verifier, compared, accepted>>
    BY <1>1 DEF Admit, DelKey, SetExpiry, CreateFail
  <2>3. QED
    BY <1>0, <2>1, <2>2
<1>2. ASSUME NEW c \in Creators, SetHash(c) PROVE Numbered'
  <2>1. \/ issued' = issued + 1 /\ key'.challenge = issued + 1
        \/ UNCHANGED <<key, issued>>
    BY <1>2 DEF SetHash, Stored
  <2>2. UNCHANGED <<verifier, compared, accepted>>
    BY <1>2 DEF SetHash
  <2>3. QED
    BY <1>0, <2>1, <2>2
<1>3. ASSUME NEW v \in Verifiers, Read(v) PROVE Numbered'
  <2>1. \A w \in Verifiers : verifier'[w].read \in {verifier[w].read, key.challenge}
    BY <1>3 DEF Read, TypeOK
  <2>2. QED
    BY <1>3, <2>1 DEF Read
<1>4. ASSUME NEW v \in Verifiers, Count(v) PROVE Numbered'
  <2>1. verifier[v].read \in Challenges
    BY <1>0, <1>4 DEF Count, Verifying, Resting
  <2>2. \A w \in Verifiers : verifier'[w].read \in {verifier[w].read, NoChallenge}
    <3>1. verifier[v] \in Verifying
      BY <1>0, <1>4 DEF Count, Resting
    <3>2. verifier'[v].read \in {verifier[v].read, NoChallenge}
      BY <1>4, <3>1 DEF Count, Decide, Resting, Verifying, TypeOK
    <3>3. \A w \in Verifiers \ {v} : verifier'[w] = verifier[w]
      BY <1>4 DEF Count, Decide, TypeOK
    <3>4. QED
      BY <3>2, <3>3
  <2>3. \A n \in Challenges : n # verifier[v].read => compared'[n] = compared[n]
    BY <1>4, <2>1 DEF Count, Decide, TypeOK
  <2>4. key'.challenge = key.challenge /\ issued' = issued /\ accepted' = accepted
    BY <1>4 DEF Count, Increment, TypeOK, Hash
  <2>5. QED
    BY <1>0, <2>1, <2>2, <2>3, <2>4
<1>5. ASSUME NEW v \in Verifiers, RefuseExcess(v) \/ VerifyFail(v) PROVE Numbered'
  <2>1. \A w \in Verifiers : verifier'[w].read \in {verifier[w].read, NoChallenge}
    BY <1>5 DEF RefuseExcess, VerifyFail, Resting, TypeOK
  <2>2. key'.challenge \in {key.challenge, NoChallenge}
    BY <1>5 DEF RefuseExcess, VerifyFail, Absent
  <2>3. QED
    BY <1>0, <1>5, <2>1, <2>2 DEF RefuseExcess, VerifyFail
<1>6. ASSUME NEW v \in Verifiers, Accept(v) PROVE Numbered'
  <2>1. verifier[v].read \in Challenges
    BY <1>0, <1>6 DEF Accept, Verifying, Resting
  <2>2. \A w \in Verifiers : verifier'[w].read \in {verifier[w].read, NoChallenge}
    BY <1>6 DEF Accept, Resting, TypeOK
  <2>3. \A n \in Challenges : n # verifier[v].read => accepted'[n] = accepted[n]
    BY <1>6, <2>1 DEF Accept, TypeOK
  <2>4. key'.challenge = NoChallenge /\ issued' = issued /\ compared' = compared
    BY <1>6 DEF Accept, Absent
  <2>5. verifier[v].read <= issued
    OBVIOUS
  <2>6. \A n \in Challenges : n > issued => accepted'[n] = 0
    <3> SUFFICES ASSUME NEW n \in Challenges, n > issued PROVE accepted'[n] = 0
      OBVIOUS
    <3>1. n # verifier[v].read
      BY <1>0, <2>1, <2>5
    <3>2. QED
      BY <2>3, <3>1
  <2>7. key'.challenge <= issued'
    BY <1>0, <2>4
  <2>8. \A w \in Verifiers : verifier'[w].read <= issued'
    BY <1>0, <2>2, <2>4
  <2>9. \A n \in Challenges : n > issued' => compared'[n] = 0 /\ accepted'[n] = 0
    BY <2>4, <2>6
  <2>10. QED
    BY <2>7, <2>8, <2>9
<1>7. CASE CooldownEnds
  BY <1>7 DEF CooldownEnds, TypeOK, Hash
<1>8. CASE Expire
  BY <1>0, <1>8 DEF Expire, Absent
<1>9. CASE UNCHANGED vars
  BY <1>9 DEF vars
<1>10. QED
  BY <1>1, <1>2, <1>3, <1>4, <1>5, <1>6, <1>7, <1>8, <1>9 DEF Next

-----------------------------------------------------------------------------
(* A challenge expires, and is gone once it was accepted.                  *)

\* The creation that stored challenge n has its EXPIRE to send.
Owes(c, n) == creator[c] = [pc |-> "stored", made |-> n]

\* The creation that stored a challenge owes its expiry, or failed to set it; HINCRBY
\* may bring a key back, but not its hash.
LEMMA ExpiryStep == TypeOK /\ ChallengeExpires /\ [Next]_vars => ChallengeExpires'
<1> SUFFICES ASSUME TypeOK, ChallengeExpires, [Next]_vars,
                    NEW n, n = key'.challenge, n # NoChallenge, key'.expires = "never"
             PROVE  n \in lost' \/ \E c \in Creators : Owes(c, n)'
  BY DEF ChallengeExpires, Owes
<1> USE DEF TypeOK, Hash, Absent
<1>1. n = key.challenge /\ key.expires = "never"
        => n \in lost \/ \E c \in Creators : Owes(c, n)
  BY DEF ChallengeExpires, Owes
<1>2. ASSUME NEW c \in Creators, Admit(c) \/ DelKey(c)
      PROVE  n \in lost' \/ \E d \in Creators : Owes(d, n)'
  <2>1. key' = key /\ lost' = lost
    BY <1>2 DEF Admit, DelKey
  <2>2. ~Owes(c, n) /\ \A d \in Creators \ {c} : creator'[d] = creator[d]
    BY <1>2 DEF Admit, DelKey, Owes
  <2>3. QED
    BY <1>1, <2>1, <2>2 DEF Owes
<1>3. ASSUME NEW c \in Creators, SetHash(c)
      PROVE  n \in lost' \/ \E d \in Creators : Owes(d, n)'
  <2>1. CASE /\ key' = Stored
             /\ creator' = [creator EXCEPT ![c] = [pc |-> "stored", made |-> issued + 1]]
    <3>1. n = issued + 1
      BY <2>1 DEF Stored
    <3>2. QED
      BY <2>1, <3>1 DEF Owes
  <2>2. CASE key' = key /\ creator' = [creator EXCEPT ![c].pc = "stored"]
    <3>1. ~Owes(c, n) /\ \A d \in Creators \ {c} : creator'[d] = creator[d]
      BY <1>3, <2>2 DEF SetHash, Owes
    <3>2. lost' = lost
      BY <1>3 DEF SetHash
    <3>3. QED
      BY <1>1, <2>2, <3>1, <3>2 DEF Owes
  <2>3. QED
    BY <1>3, <2>1, <2>2 DEF SetHash
<1>4. ASSUME NEW c \in Creators, SetExpiry(c) PROVE FALSE
  <2>1. CASE key = Absent
    BY <1>4, <2>1 DEF SetExpiry
  <2>2. CASE key # Absent
    <3>1. key' = [key EXCEPT !.expires = "full"]
      BY <1>4, <2>2 DEF SetExpiry
    <3>2. QED
      BY <3>1
  <2>3. QED
    BY <2>1, <2>2
<1>5. ASSUME NEW c \in Creators, CreateFail(c)
      PROVE  n \in lost' \/ \E d \in Creators : Owes(d, n)'
  <2>1. key' = key /\ \A d \in Creators \ {c} : creator'[d] = creator[d]
    BY <1>5 DEF CreateFail
  <2>2. lost \subseteq lost' /\ (Owes(c, n) => n \in lost')
    BY <1>5 DEF CreateFail, Owes
  <2>3. QED
    BY <1>1, <2>1, <2>2 DEF Owes
<1>6. ASSUME NEW v \in Verifiers,
             Read(v) \/ Count(v) \/ RefuseExcess(v) \/ Accept(v) \/ VerifyFail(v)
      PROVE  n \in lost' \/ \E d \in Creators : Owes(d, n)'
  <2>1. n = key.challenge /\ key.expires = "never" /\ UNCHANGED <<creator, lost>>
    BY <1>6 DEF Read, Count, Increment, RefuseExcess, Accept, VerifyFail
  <2>2. QED
    BY <1>1, <2>1 DEF Owes
<1>7. CASE CooldownEnds \/ Expire \/ UNCHANGED vars
  <2>1. n = key.challenge /\ key.expires = "never" /\ UNCHANGED <<creator, lost>>
    BY <1>7 DEF CooldownEnds, Expire, vars
  <2>2. QED
    BY <1>1, <2>1 DEF Owes
<1>8. QED
  BY <1>2, <1>3, <1>4, <1>5, <1>6, <1>7 DEF Next

\* DEL leaves no challenge, whichever it removed; a new one was never accepted.
LEMMA AcceptedStep == TypeOK /\ Numbered /\ AcceptedIsGone /\ [Next]_vars => AcceptedIsGone'
<1> SUFFICES ASSUME TypeOK, Numbered, AcceptedIsGone, [Next]_vars PROVE AcceptedIsGone'
  OBVIOUS
<1> USE OtpAssumption DEF TypeOK, AcceptedIsGone, Hash, Absent, NoChallenge, Challenges
<1>1. ASSUME NEW c \in Creators, Admit(c) \/ DelKey(c) \/ SetExpiry(c) \/ CreateFail(c)
      PROVE  AcceptedIsGone'
  <2>1. key'.challenge \in {key.challenge, NoChallenge} /\ accepted' = accepted
    BY <1>1 DEF Admit, DelKey, SetExpiry, CreateFail
  <2>2. QED
    BY <2>1
<1>2. ASSUME NEW c \in Creators, SetHash(c) PROVE AcceptedIsGone'
  <2>1. \/ issued' = issued + 1 /\ key'.challenge = issued + 1
        \/ UNCHANGED <<key, issued>>
    BY <1>2 DEF SetHash, Stored
  <2>2. accepted' = accepted
    BY <1>2 DEF SetHash
  <2>3. QED
    BY <2>1, <2>2 DEF Numbered
<1>3. ASSUME NEW v \in Verifiers, Read(v) \/ VerifyFail(v) PROVE AcceptedIsGone'
  BY <1>3 DEF Read, VerifyFail
<1>4. ASSUME NEW v \in Verifiers, Count(v) PROVE AcceptedIsGone'
  BY <1>4 DEF Count, Increment
<1>5. ASSUME NEW v \in Verifiers, RefuseExcess(v) \/ Accept(v) PROVE AcceptedIsGone'
  <2>1. key'.challenge = NoChallenge
    BY <1>5 DEF RefuseExcess, Accept
  <2>2. QED
    BY <2>1
<1>6. CASE CooldownEnds \/ Expire
  <2>1. key'.challenge \in {key.challenge, NoChallenge} /\ accepted' = accepted
    BY <1>6 DEF CooldownEnds, Expire
  <2>2. QED
    BY <2>1
<1>7. CASE UNCHANGED vars
  BY <1>7 DEF vars
<1>8. QED
  BY <1>1, <1>2, <1>3, <1>4, <1>5, <1>6, <1>7 DEF Next

-----------------------------------------------------------------------------
(* The counter.                                                            *)

\* DEL: what the counter covered is at most the limit, and nobody but the
\* verifications themselves can hold the challenge.
LEMMA GoneStep ==
  TypeOK /\ CounterExact /\ key'.challenge = NoChallenge /\ compared' = compared
    /\ (\A n \in Challenges : Holding(n)' \subseteq Holding(n)) => CounterExact'
<1> SUFFICES ASSUME TypeOK, CounterExact, key'.challenge = NoChallenge, compared' = compared,
                    \A n \in Challenges : Holding(n)' \subseteq Holding(n),
                    NEW n \in Challenges
             PROVE  compared'[n] + Cardinality(Holding(n)')
                      <= MaxAttempts + Cardinality(Verifiers)
  BY DEF CounterExact, Challenges, NoChallenge
<1>1. /\ Cardinality(Holding(n)') \in Nat
      /\ Cardinality(Holding(n)') <= Cardinality(Holding(n))
  BY HoldingBounded, FS_Subset, FS_CardinalityType
<1>2. compared[n] \in Nat
  BY DEF TypeOK
<1>3. CASE key.challenge = n
  BY <1>1, <1>2, <1>3, HoldingBounded, OtpAssumption DEF CounterExact
<1>4. CASE key.challenge # n
  BY <1>1, <1>2, <1>4, HoldingBounded, OtpAssumption DEF CounterExact
<1>5. QED
  BY <1>3, <1>4

\* A step that neither counts nor removes: nobody holds a challenge that Redis
\* has no more, but those that did.
LEMMA StillStep ==
  TypeOK /\ CounterExact /\ compared' = compared
    /\ key'.challenge = key.challenge /\ key'.attempts = key.attempts
    /\ (\A n \in Challenges : key.challenge # n => Holding(n)' \subseteq Holding(n))
    => CounterExact'
<1> SUFFICES ASSUME TypeOK, CounterExact, compared' = compared,
                    key'.challenge = key.challenge, key'.attempts = key.attempts,
                    \A n \in Challenges : key.challenge # n => Holding(n)' \subseteq Holding(n),
                    NEW n \in Challenges, key.challenge # n
             PROVE  compared'[n] + Cardinality(Holding(n)')
                      <= MaxAttempts + Cardinality(Verifiers)
  BY DEF CounterExact
<1>1. /\ Cardinality(Holding(n)') \in Nat
      /\ Cardinality(Holding(n)') <= Cardinality(Holding(n))
  BY HoldingBounded, FS_Subset, FS_CardinalityType
<1>2. compared[n] \in Nat
  BY DEF TypeOK
<1>3. QED
  BY <1>1, <1>2, HoldingBounded, OtpAssumption DEF CounterExact

\* The new challenge was compared with nothing, and nobody holds it.
LEMMA StoreStep ==
  ASSUME TypeOK, Numbered, CounterExact, key' = Stored, UNCHANGED <<verifier, compared>>
  PROVE  CounterExact'
<1> SUFFICES ASSUME NEW n \in Challenges
             PROVE  IF key'.challenge = n
                      THEN compared'[n] <= key'.attempts /\ compared'[n] <= MaxAttempts
                      ELSE compared'[n] + Cardinality(Holding(n)')
                             <= MaxAttempts + Cardinality(Verifiers)
  BY DEF CounterExact
<1>1. Holding(n)' = Holding(n) /\ compared' = compared
  BY DEF Holding
<1>2. compared[n] \in Nat /\ issued \in Nat
  BY OtpAssumption DEF TypeOK, Challenges
<1>3. CASE n = issued + 1
  <2>1. compared[n] = 0
    BY <1>2, <1>3 DEF Numbered
  <2>2. key'.challenge = n /\ key'.attempts = 0
    BY <1>3 DEF Stored
  <2>3. QED
    BY <1>1, <2>1, <2>2, OtpAssumption
<1>4. CASE n # issued + 1
  <2>1. key'.challenge # n
    BY <1>4 DEF Stored
  <2>2. compared[n] <= MaxAttempts \/
        compared[n] + Cardinality(Holding(n)) <= MaxAttempts + Cardinality(Verifiers)
    BY DEF CounterExact
  <2>3. QED
    BY <1>1, <1>2, <2>1, <2>2, HoldingBounded, OtpAssumption
<1>5. QED
  BY <1>3, <1>4

\* The verification counts, and lets go of the challenge it read.
LEMMA CountStep ==
  ASSUME TypeOK, CounterExact, NEW v \in Verifiers, Count(v)
  PROVE  CounterExact'
<1> DEFINE r == verifier[v].read
<1>1. verifier[v] \in Verifying /\ verifier[v].pc = "read" /\ r \in Challenges
  BY DEF Count, TypeOK, Verifying, Resting
<1>2. /\ key'.challenge = key.challenge /\ key'.attempts = key.attempts + 1
      /\ key.attempts \in Nat
  BY DEF Count, Increment, TypeOK, Hash
<1>3. \A n \in Challenges : Holding(n)' \subseteq Holding(n)
  BY <1>1 DEF Count, Decide, Holding, TypeOK, Verifying, Resting
<1>4. \A n \in Challenges : n = r => v \in Holding(n) /\ v \notin Holding(n)'
  BY <1>1 DEF Count, Decide, Holding, TypeOK, Verifying, Resting
<1>5. \A n \in Challenges : compared[n] \in Nat /\ (n # r => compared'[n] = compared[n])
  BY <1>1 DEF Count, Decide, TypeOK
<1>6. \/ compared'[r] = compared[r]
      \/ compared'[r] = compared[r] + 1 /\ key.attempts + 1 <= MaxAttempts
  BY <1>1 DEF Count, Decide, TypeOK
<1> HIDE DEF r
<1> SUFFICES ASSUME NEW n \in Challenges
             PROVE  IF key'.challenge = n
                      THEN compared'[n] <= key'.attempts /\ compared'[n] <= MaxAttempts
                      ELSE compared'[n] + Cardinality(Holding(n)')
                             <= MaxAttempts + Cardinality(Verifiers)
  BY DEF CounterExact
<1>7. /\ Cardinality(Holding(n)') \in Nat
      /\ Cardinality(Holding(n)') <= Cardinality(Holding(n))
  BY <1>3, HoldingBounded, FS_Subset, FS_CardinalityType
<1>8. CASE key.challenge = n
  <2>1. compared[n] <= key.attempts /\ compared[n] <= MaxAttempts
    BY <1>8 DEF CounterExact
  <2>2. QED
    BY <1>2, <1>5, <1>6, <1>8, <2>1, OtpAssumption
<1>9. CASE key.challenge # n
  <2>1. compared[n] + Cardinality(Holding(n)) <= MaxAttempts + Cardinality(Verifiers)
    BY <1>9 DEF CounterExact
  <2>2. CASE n # r
    BY <1>2, <1>5, <1>7, <1>9, <2>1, <2>2, HoldingBounded, OtpAssumption
  <2>3. CASE n = r
    <3>0. IsFiniteSet(Holding(n)) /\ v \in Holding(n)
      BY <1>4, <2>3, HoldingBounded
    <3>1. /\ IsFiniteSet(Holding(n) \ {v})
          /\ Cardinality(Holding(n) \ {v}) = Cardinality(Holding(n)) - 1
      BY <3>0, FS_RemoveElement
    <3>5. Holding(n)' \subseteq Holding(n) \ {v}
      BY <1>3, <1>4, <2>3
    <3>2. Cardinality(Holding(n)') <= Cardinality(Holding(n)) - 1
      BY <3>1, <3>5, FS_Subset
    <3>3. compared'[n] <= compared[n] + 1 /\ compared'[n] \in Nat
      BY <1>5, <1>6, <2>3
    <3>4. QED
      BY <1>2, <1>5, <1>7, <1>9, <2>1, <3>2, <3>3, HoldingBounded, OtpAssumption
  <2>4. QED
    BY <2>2, <2>3
<1>10. QED
  BY <1>8, <1>9

\* HINCRBY counts the comparisons of the stored challenge exactly, until its key was replaced.
LEMMA CounterStep == TypeOK /\ Numbered /\ CounterExact /\ [Next]_vars => CounterExact'
<1> SUFFICES ASSUME TypeOK, Numbered, CounterExact, [Next]_vars PROVE CounterExact'
  OBVIOUS
<1>1. ASSUME NEW c \in Creators, Admit(c) \/ DelKey(c) \/ SetExpiry(c) \/ CreateFail(c)
      PROVE  CounterExact'
  <2>1. UNCHANGED <<verifier, compared>> /\ \A n : Holding(n)' = Holding(n)
    BY <1>1 DEF Admit, DelKey, SetExpiry, CreateFail, Holding
  <2>2. \/ key'.challenge = key.challenge /\ key'.attempts = key.attempts
        \/ key'.challenge = NoChallenge
    BY <1>1 DEF Admit, DelKey, SetExpiry, CreateFail, Absent, TypeOK, Hash
  <2>3. QED
    BY <2>1, <2>2, StillStep, GoneStep
<1>2. ASSUME NEW c \in Creators, SetHash(c) PROVE CounterExact'
  <2>1. UNCHANGED <<verifier, compared>> /\ \A n : Holding(n)' = Holding(n)
    BY <1>2 DEF SetHash, Holding
  <2>2. CASE key' = Stored
    BY <2>1, <2>2, StoreStep
  <2>3. CASE key' = key
    BY <2>1, <2>3, StillStep
  <2>4. QED
    BY <1>2, <2>2, <2>3 DEF SetHash
<1>3. ASSUME NEW v \in Verifiers, Read(v) PROVE CounterExact'
  <2>1. \A n \in Challenges : key.challenge # n => Holding(n)' \subseteq Holding(n)
    BY <1>3 DEF Read, Holding, TypeOK
  <2>2. QED
    BY <1>3, <2>1, StillStep DEF Read
<1>4. ASSUME NEW v \in Verifiers, Count(v) PROVE CounterExact'
  BY <1>4, CountStep
<1>5. ASSUME NEW v \in Verifiers, RefuseExcess(v) \/ Accept(v) PROVE CounterExact'
  <2>1. \A n \in Challenges : Holding(n)' \subseteq Holding(n)
    BY <1>5 DEF RefuseExcess, Accept, Holding, TypeOK, Resting
  <2>2. QED
    BY <1>5, <2>1, GoneStep DEF RefuseExcess, Accept, Absent
<1>6. ASSUME NEW v \in Verifiers, VerifyFail(v) PROVE CounterExact'
  <2>1. \A n \in Challenges : Holding(n)' \subseteq Holding(n)
    BY <1>6 DEF VerifyFail, Holding, TypeOK, Resting
  <2>2. QED
    BY <1>6, <2>1, StillStep DEF VerifyFail
<1>7. CASE CooldownEnds
  BY <1>7, StillStep DEF CooldownEnds, Holding, TypeOK, Hash
<1>8. CASE Expire
  BY <1>8, GoneStep DEF Expire, Absent, Holding
<1>9. CASE UNCHANGED vars
  BY <1>9, StillStep DEF vars, Holding
<1>10. QED
  BY <1>1, <1>2, <1>3, <1>4, <1>5, <1>6, <1>7, <1>8, <1>9 DEF Next

-----------------------------------------------------------------------------
(* The theorems.                                                           *)

\* OtpService: no interleaving of its Redis commands leads to a state outside the
\* types of the model.
THEOREM TypeCorrect == Spec => []TypeOK
<1>1. Init => TypeOK
  BY InvInit DEF IInv
<1>2. TypeOK /\ [Next]_vars => TypeOK'
  BY TypeStep
<1>3. QED
  BY <1>1, <1>2, PTL DEF Spec

\* All parts of the invariant, by their lemmas.
THEOREM Invariance == Spec => []IInv
<1>1. IInv /\ [Next]_vars => IInv'
  BY TypeStep, NumberedStep, ExpiryStep, AcceptedStep, CounterStep DEF IInv
<1>2. QED
  BY <1>1, InvInit, PTL DEF Spec

\* verifyOtp, otp.service.ts:87-126: whatever is deleted, replaced and counted again
\* in between, a challenge meets at most MAX_ATTEMPTS inputs and one more for each
\* verification that held it.
THEOREM AttemptsAreBounded == Spec => []ComparisonsBounded
<1>1. IInv => ComparisonsBounded
  <2> SUFFICES ASSUME IInv, NEW n \in Challenges
               PROVE  compared[n] <= MaxAttempts + Cardinality(Verifiers)
    BY DEF ComparisonsBounded
  <2>1. compared[n] \in Nat
    BY DEF IInv, TypeOK
  <2>2. compared[n] <= MaxAttempts \/
        compared[n] + Cardinality(Holding(n)) <= MaxAttempts + Cardinality(Verifiers)
    BY DEF IInv, CounterExact
  <2>3. QED
    BY <2>1, <2>2, HoldingBounded, OtpAssumption
<1>2. QED
  BY <1>1, Invariance, PTL

\* verifyOtp, otp.service.ts:122: a challenge that was accepted is not in Redis any
\* more, and no other one ever gets its place under its number.
THEOREM AcceptedChallengeIsGone == Spec => []AcceptedIsGone
<1>1. IInv => AcceptedIsGone
  BY DEF IInv
<1>2. QED
  BY <1>1, Invariance, PTL

\* createChallenge, otp.service.ts:70-81, a pipeline and no transaction: a hash with a
\* code and without expiry is that of a pipeline whose EXPIRE is still to run, or failed.
THEOREM EveryChallengeExpires == Spec => []ChallengeExpires
<1>1. IInv => ChallengeExpires
  BY DEF IInv
<1>2. QED
  BY <1>1, Invariance, PTL
-----------------------------------------------------------------------------
(* KeycloakAdmin.                                                          *)

Requesting == {"finding", "creating", "rereading", "mapping"}

\* An operation uses a token that its cache still held to be valid when it took
\* it: from then on only the clock brings the end of the token closer.  A role
\* that it reads again exists.
OperationOK(q) ==
  LET s == operation[q] IN
  /\ s.pc # "idle" => s.role \in Roles
  /\ s.pc = "issued" => s.token \in K!Token
  /\ s.pc \in Requesting => s.taken < s.token.received + Lifetime - Buffer
  /\ s.pc = "refused" => (s.token.received - s.token.issued) + (now - s.taken) > Buffer
  /\ s.pc = "rereading" => s.role \in realmRoles
  /\ s.pc # "missing"

AdminInv == K!AdminTypeOK /\ \A q \in Requests : OperationOK(q)

\* Times are whole numbers, and so are the moments a token is known by.
LEMMA AdminTimes ==
  ASSUME K!AdminTypeOK
  PROVE  /\ now \in Nat /\ Lifetime \in Nat /\ Buffer \in Nat
         /\ cached.issued \in Int /\ cached.received \in Int
         /\ \A q \in Requests : /\ operation[q].token.issued \in Int
                                /\ operation[q].token.received \in Int
                                /\ operation[q].taken \in Nat
  BY TokenAssumption DEF K!AdminTypeOK, K!Operation, K!Token, K!NoToken, K!Time

\* No operation runs at the start.
LEMMA AdminInit == K!Init => AdminInv
<1> SUFFICES ASSUME K!Init PROVE AdminInv
  OBVIOUS
<1> USE DEF K!Init, K!Idle
<1>1. K!AdminTypeOK
  <2>1. 0 \in K!Time
    BY TokenAssumption DEF K!Time
  <2>2. K!Idle \in K!Operation
    BY <2>1 DEF K!Operation, K!PC, K!NoToken
  <2>3. QED
    BY <2>1, <2>2 DEF K!AdminTypeOK
<1>2. \A q \in Requests : OperationOK(q)
  BY DEF OperationOK, Requesting
<1>3. QED
  BY <1>1, <1>2 DEF AdminInv

\* Every step keeps the types.
LEMMA AdminTypeStep == AdminInv /\ [K!Next]_(K!vars) => K!AdminTypeOK'
<1> SUFFICES ASSUME AdminInv, [K!Next]_(K!vars) PROVE K!AdminTypeOK'
  OBVIOUS
<1> USE DEF AdminInv, K!AdminTypeOK, K!At
<1>1. K!Idle \in K!Operation
  BY TokenAssumption DEF K!Idle, K!Operation, K!PC, K!NoToken, K!Time
<1>2. ASSUME NEW q \in Requests, NEW r \in Roles, K!BeginAssign(q, r) PROVE K!AdminTypeOK'
  BY <1>2 DEF K!BeginAssign, K!Operation, K!PC
<1>3. ASSUME NEW q \in Requests, K!IssueToken(q) PROVE K!AdminTypeOK'
  <2>1. [issued |-> now, received |-> now] \in K!Token
    BY DEF K!Token
  <2>2. operation' \in [Requests -> K!Operation]
    <3>1. PICK t \in K!Token :
            operation' = [operation EXCEPT ![q].pc = "issued", ![q].token = t]
      BY <1>3, <2>1 DEF K!IssueToken
    <3>2. [operation[q] EXCEPT !.pc = "issued", !.token = t] \in K!Operation
      BY DEF K!Operation, K!PC
    <3>3. QED
      BY <3>1, <3>2
  <2>3. QED
    BY <1>3, <2>2 DEF K!IssueToken
<1>4. ASSUME NEW q \in Requests, K!KeepToken(q) PROVE K!AdminTypeOK'
  <2>1. operation[q].token \in K!Token
    BY <1>4 DEF K!KeepToken, OperationOK
  <2>2. [operation[q].token EXCEPT !.received = now] \in K!Token
    BY <2>1 DEF K!Token
  <2>3. operation' \in [Requests -> K!Operation]
    <3>1. PICK t \in K!Token : t = [operation[q].token EXCEPT !.received = now]
      BY <2>2
    <3>2. operation' = [operation EXCEPT
            ![q].pc = "finding", ![q].token = t, ![q].taken = now]
      BY <1>4, <3>1 DEF K!KeepToken
    <3>3. operation[q] \in K!Operation /\ now \in K!Time
      OBVIOUS
    <3>4. [operation[q] EXCEPT !.pc = "finding", !.token = t, !.taken = now] \in K!Operation
      BY <3>3 DEF K!Operation, K!PC
    <3>5. operation' = [operation EXCEPT ![q] =
            [operation[q] EXCEPT !.pc = "finding", !.token = t, !.taken = now]]
      BY <3>2
    <3>6. QED
      BY <3>4, <3>5
  <2>4. QED
    BY <1>4, <2>2, <2>3 DEF K!KeepToken
<1>5. ASSUME NEW q \in Requests, K!Refuse(q) \/ K!FindRealmRole(q) \/ K!RereadRealmRole(q)
      PROVE  K!AdminTypeOK'
  BY <1>5 DEF K!Refuse, K!FindRealmRole, K!RereadRealmRole, K!Goto, K!Operation, K!PC
<1>6. ASSUME NEW q \in Requests, K!CreateRealmRole(q) PROVE K!AdminTypeOK'
  <2>1. operation[q].role \in Roles
    BY <1>6 DEF K!CreateRealmRole, OperationOK
  <2>2. QED
    BY <1>6, <2>1 DEF K!CreateRealmRole, K!Created, K!Goto, K!Operation, K!PC
<1>7. ASSUME NEW q \in Requests, K!AddMapping(q) \/ K!Throw(q) PROVE K!AdminTypeOK'
  BY <1>1, <1>7 DEF K!AddMapping, K!Throw
<1>8. CASE K!Tick
  BY <1>8, TokenAssumption DEF K!Tick, K!Time
<1>9. CASE K!Restart \/ UNCHANGED K!vars
  BY <1>1, <1>9 DEF K!Restart, K!vars
<1>10. QED
  BY <1>2, <1>3, <1>4, <1>5, <1>6, <1>7, <1>8, <1>9 DEF K!Next
\* What is said of an operation that does not move stays true: time goes on, and
\* no role is taken back.
LEMMA OperationRests ==
  ASSUME K!AdminTypeOK, NEW q \in Requests, OperationOK(q), operation'[q] = operation[q],
         now' \in Nat, now <= now', realmRoles \subseteq realmRoles'
  PROVE  OperationOK(q)'
  BY AdminTimes DEF OperationOK

\* Every step keeps what is said of each operation.
LEMMA AdminStep == AdminInv /\ [K!Next]_(K!vars) => AdminInv'
<1> SUFFICES ASSUME AdminInv, [K!Next]_(K!vars) PROVE AdminInv'
  OBVIOUS
<1> USE DEF AdminInv
<1>1. K!AdminTypeOK'
  BY AdminTypeStep
<1>2. ASSUME NEW q \in Requests, \A p \in Requests \ {q} : operation'[p] = operation[p],
             now' = now, realmRoles \subseteq realmRoles', OperationOK(q)'
      PROVE  AdminInv'
  <2>1. now \in Nat
    BY AdminTimes
  <2>2. ASSUME NEW p \in Requests PROVE OperationOK(p)'
    BY <1>2, <2>1, <2>2, OperationRests
  <2>3. QED
    BY <1>1, <2>2
<1>3. ASSUME NEW q \in Requests, NEW r \in Roles, K!BeginAssign(q, r) PROVE AdminInv'
  <2>1. \/ /\ operation'[q].pc = "finding" /\ operation'[q].token = cached
           /\ operation'[q].taken = now /\ now < cached.received + Lifetime - Buffer
        \/ operation'[q].pc = "fetching"
    BY <1>3 DEF K!BeginAssign, K!TokenExpiresAt, K!AdminTypeOK
  <2>2. operation'[q].role = r
    BY <1>3 DEF K!BeginAssign, K!AdminTypeOK
  <2>3. OperationOK(q)'
    BY <2>1, <2>2 DEF OperationOK, Requesting
  <2>4. QED
    BY <1>2, <1>3, <2>3 DEF K!BeginAssign, K!AdminTypeOK
<1>4. ASSUME NEW q \in Requests, K!IssueToken(q) PROVE AdminInv'
  <2>1. /\ operation'[q].pc = "issued" /\ operation'[q].role = operation[q].role
        /\ operation'[q].token = [issued |-> now, received |-> now]
    BY <1>4 DEF K!IssueToken, K!AdminTypeOK, K!Operation
  <2>2. operation[q].role \in Roles /\ now \in K!Time
    BY <1>4 DEF K!IssueToken, K!At, OperationOK, K!AdminTypeOK
  <2>3. OperationOK(q)'
    BY <2>1, <2>2 DEF OperationOK, Requesting, K!Token
  <2>4. QED
    BY <1>2, <1>4, <2>3 DEF K!IssueToken, K!AdminTypeOK
<1>5. ASSUME NEW q \in Requests, K!KeepToken(q) PROVE AdminInv'
  <2>1. /\ operation'[q].pc = "finding" /\ operation'[q].role = operation[q].role
        /\ operation'[q].token = [operation[q].token EXCEPT !.received = now]
        /\ operation'[q].taken = now
    BY <1>5 DEF K!KeepToken, K!AdminTypeOK, K!Operation
  <2>2. operation[q].role \in Roles /\ operation[q].token \in K!Token
    BY <1>5 DEF K!KeepToken, K!At, OperationOK
  <2>3. operation'[q].token.received = now
    BY <2>1, <2>2 DEF K!Token
  <2>4. now < now + Lifetime - Buffer
    BY AdminTimes, TokenAssumption
  <2>5. OperationOK(q)'
    BY <2>1, <2>2, <2>3, <2>4 DEF OperationOK, Requesting
  <2>6. QED
    BY <1>2, <1>5, <2>5 DEF K!KeepToken, K!AdminTypeOK
\* Keycloak refuses the token at its end: the buffer is used up.
<1>6. ASSUME NEW q \in Requests, K!Refuse(q) PROVE AdminInv'
  <2>1. /\ operation'[q].pc = "refused" /\ operation'[q].role = operation[q].role
        /\ operation'[q].token = operation[q].token
        /\ operation'[q].taken = operation[q].taken
        /\ UNCHANGED <<now, realmRoles>>
    BY <1>6 DEF K!Refuse, K!Goto, K!AdminTypeOK, K!Operation
  <2>2. /\ operation[q].role \in Roles
        /\ operation[q].taken < operation[q].token.received + Lifetime - Buffer
    BY <1>6 DEF K!Refuse, OperationOK, Requesting
  <2>3. now >= operation[q].token.issued + Lifetime
    BY <1>6, AdminTimes DEF K!Refuse, K!Accepted, K!RunsOut
  <2>4. (operation[q].token.received - operation[q].token.issued)
          + (now - operation[q].taken) > Buffer
    BY <2>2, <2>3, AdminTimes
  <2>5. OperationOK(q)'
    BY <2>1, <2>2, <2>4 DEF OperationOK, Requesting
  <2>6. QED
    BY <1>2, <1>6, <2>1, <2>5 DEF K!Refuse, K!Goto, K!AdminTypeOK
<1>7. ASSUME NEW q \in Requests,
             K!FindRealmRole(q) \/ K!CreateRealmRole(q) \/ K!RereadRealmRole(q)
      PROVE  AdminInv'
  <2>1. /\ operation'[q].role = operation[q].role
        /\ operation'[q].token = operation[q].token
        /\ operation'[q].taken = operation[q].taken
        /\ now' = now /\ realmRoles \subseteq realmRoles'
    BY <1>7 DEF K!FindRealmRole, K!CreateRealmRole, K!RereadRealmRole, K!Goto,
       K!AdminTypeOK, K!Operation
  <2>2. /\ operation[q].role \in Roles
        /\ operation[q].taken < operation[q].token.received + Lifetime - Buffer
    BY <1>7 DEF K!FindRealmRole, K!CreateRealmRole, K!RereadRealmRole, K!At, OperationOK,
       Requesting
  <2>3. \/ operation'[q].pc \in {"mapping", "creating"}
        \/ operation'[q].pc = "rereading" /\ operation[q].role \in realmRoles'
    BY <1>7 DEF K!FindRealmRole, K!CreateRealmRole, K!RereadRealmRole, K!Created, K!Goto,
       K!At, K!AdminTypeOK, K!Operation, OperationOK
  <2>4. OperationOK(q)'
    BY <2>1, <2>2, <2>3 DEF OperationOK, Requesting
  <2>5. QED
    BY <1>2, <1>7, <2>1, <2>4
    DEF K!FindRealmRole, K!CreateRealmRole, K!RereadRealmRole, K!Goto, K!AdminTypeOK
<1>8. ASSUME NEW q \in Requests, K!AddMapping(q) \/ K!Throw(q) PROVE AdminInv'
  <2>1. operation'[q].pc = "idle" /\ now' = now /\ realmRoles \subseteq realmRoles'
    BY <1>8 DEF K!AddMapping, K!Throw, K!Idle, K!AdminTypeOK
  <2>2. OperationOK(q)'
    BY <2>1 DEF OperationOK, Requesting
  <2>3. QED
    BY <1>2, <1>8, <2>1, <2>2 DEF K!AddMapping, K!Throw, K!AdminTypeOK
<1>9. CASE K!Tick \/ UNCHANGED K!vars
  <2>1. now' \in Nat /\ now <= now' /\ UNCHANGED <<operation, realmRoles>>
    BY <1>9, AdminTimes DEF K!Tick, K!vars
  <2>2. QED
    BY <1>1, <2>1, OperationRests
<1>10. CASE K!Restart
  BY <1>1, <1>10 DEF K!Restart, K!Idle, OperationOK, Requesting
<1>11. QED
  BY <1>3, <1>4, <1>5, <1>6, <1>7, <1>8, <1>9, <1>10 DEF K!Next
-----------------------------------------------------------------------------
(* The three modules side by side.                                         *)

RP == INSTANCE RegistrationProofs

\* A behaviour of MCSignUp is, for each of the modules, one of its behaviours.
THEOREM SignUpRuns == SignUpSpec => Spec /\ R!Spec /\ K!Spec
<1>1. SignUpInit => Init /\ R!Init /\ K!Init
  BY DEF SignUpInit
<1>2. [SignUpNext]_<<vars, registrationVars, adminVars>> =>
        [Next]_vars /\ [R!Next]_(R!vars) /\ [K!Next]_(K!vars)
  BY DEF SignUpNext, AdminRests, registrationVars, adminVars, R!vars, K!vars
<1>3. QED
  BY <1>1, <1>2, PTL DEF SignUpSpec, Spec, R!Spec, K!Spec

\* RegistrationProofs is about the module that R names: step by step, the
\* definitions of R are those of RP.
LEMMA SameSteps == ASSUME NEW q \in Requests, R!Step(q) PROVE RP!Step(q)
<1> USE DEF R!Reach, RP!Reach, R!Finish, RP!Finish, R!Idle, RP!Idle, R!At, RP!At,
            R!Fault, RP!Fault, R!keycloak, RP!keycloak, R!store, RP!store,
            R!history, RP!history
<1>1. CASE R!RegisterVerify(q) \/ R!Prepare(q) \/ R!Insert(q) \/ R!InsertFails(q)
           \/ R!Compensate(q) \/ R!AssignRole(q)
  BY <1>1 DEF R!RegisterVerify, RP!RegisterVerify, R!CreateUser, RP!CreateUser,
     R!Prepare, RP!Prepare, R!Insert, RP!Insert, R!InsertFails, RP!InsertFails,
     R!Compensate, RP!Compensate, R!AssignRole, RP!AssignRole, RP!Step
<1>2. CASE \/ \E t \in States, p \in Providers : R!SocialCallback(q, t, p)
           \/ R!FindByKeycloakId(q) \/ R!SeekByEmail(q) \/ R!Merge(q) \/ R!Add(q) \/ R!Login(q)
           \/ R!SyncKeycloakIdentity(q) \/ R!SignInFails(q)
  BY <1>2 DEF R!SocialCallback, RP!SocialCallback, R!FindByKeycloakId,
     RP!FindByKeycloakId, R!SeekByEmail, RP!SeekByEmail,
     R!Merge, RP!Merge, R!Add, RP!Add, R!Link, RP!Link, R!Login, RP!Login,
     R!SyncKeycloakIdentity, RP!SyncKeycloakIdentity, R!SignInFails, RP!SignInFails, RP!Step
<1>3. CASE R!ExchangeCode(q) \/ R!Grant(q)
  BY <1>3 DEF R!ExchangeCode, RP!ExchangeCode, R!Grant, RP!Grant, R!Overlap, RP!Overlap,
     R!Registering, RP!Registering, RP!Step
<1>4. QED
  BY <1>1, <1>2, <1>3 DEF R!Step

\* ... and so are its behaviours.
LEMMA SameBehaviours == R!Spec => RP!Spec
<1>1. R!Init => RP!Init
  BY DEF R!Init, RP!Init, R!Idle, RP!Idle
<1>2. [R!Next]_(R!vars) => [RP!Next]_(RP!vars)
  <2> SUFFICES ASSUME R!Next PROVE RP!Next
    BY DEF R!vars, RP!vars
  <2> USE DEF R!keycloak, RP!keycloak, R!store, RP!store, R!history, RP!history
  <2>1. CASE \E q \in Requests : R!Step(q)
    BY <2>1, SameSteps DEF RP!Next
  <2>2. CASE R!RegisterInitiate \/ R!BrokerSignIn \/ R!RealmRemoves
    BY <2>2 DEF R!RegisterInitiate, RP!RegisterInitiate, R!BrokerSignIn, RP!BrokerSignIn,
       R!RealmRemoves, RP!RealmRemoves, RP!Next
  <2>3. CASE \E t \in States : R!StateExpires(t)
                               \/ \E p \in Providers : R!GetSocialAuthUrl(t, p)
    BY <2>3 DEF R!StateExpires, RP!StateExpires, R!GetSocialAuthUrl, RP!GetSocialAuthUrl,
       RP!Next
  <2>4. CASE R!Restart
    BY <2>4 DEF R!Restart, RP!Restart, R!Registering, RP!Registering, R!Idle, RP!Idle,
       R!Subjects, RP!Subjects, RP!Next
  <2>5. QED
    BY <2>1, <2>2, <2>3, <2>4 DEF R!Next
<1>3. QED
  BY <1>1, <1>2, PTL DEF R!Spec, RP!Spec

\* The inductive invariant of Registration, for the behaviours of MCSignUp.
THEOREM RegistrationInvariance == SignUpSpec => []RP!IInv
<1>1. RP!Parameters
  BY RegistrationAssumption DEF RP!Parameters
<1>2. RP!Spec => []RP!IInv
  BY <1>1, RP!Invariance
<1>3. QED
  BY <1>2, SignUpRuns, SameBehaviours, PTL

\* The inductive invariant of KeycloakAdmin, for the behaviours of MCSignUp.
THEOREM AdminInvariance == SignUpSpec => []AdminInv
<1>1. QED
  BY AdminInit, AdminStep, SignUpRuns, PTL DEF K!Spec

\* Every variable of the three modules keeps its type.
THEOREM SignUpTypeCorrect == SignUpSpec => []SignUpTypeOK
<1>1. RP!IInv => R!TypeOK
  BY DEF RP!IInv, RP!TypeOK, R!TypeOK, RP!Subjects, R!Subjects, RP!Working, R!Working,
         RP!Stage, R!Stage, RP!Idle, R!Idle
<1>2. AdminInv => K!AdminTypeOK
  BY DEF AdminInv
<1>3. TypeOK /\ RP!IInv /\ AdminInv => SignUpTypeOK
  BY <1>1, <1>2 DEF SignUpTypeOK
<1>4. QED
  BY <1>3, TypeCorrect, RegistrationInvariance, AdminInvariance, SignUpRuns, PTL

\* socialCallback, auth.service.ts: get, compare and delete make one step, so that a
\* state lets one callback through, however many arrive with it.
THEOREM OneCallback == SignUpSpec => []OneCallbackPerState
<1>1. RP!IInv => OneCallbackPerState
  BY DEF RP!IInv, RP!StatesOK, OneCallbackPerState, R!OneCallbackPerState
<1>2. QED
  BY <1>1, RegistrationInvariance, PTL

\* registerVerify: a Keycloak user stays without its row only after a fault between
\* the two, or when a login took the row for a subject it had learnt before.
THEOREM OrphansAreFaults == SignUpSpec => []OrphanOnlyByFault
<1>1. RP!IInv => OrphanOnlyByFault
  BY DEF RP!IInv, RP!OrphanOnlyByFault, OrphanOnlyByFault, R!OrphanOnlyByFault,
         RP!Registering, R!Registering
<1>2. QED
  BY <1>1, RegistrationInvariance, PTL

\* registerVerify and the logins: a row is linked to a user that is gone only where
\* the realm lost it or a login overlapped with its registration.
THEOREM DanglingIsOverlap == SignUpSpec => []DanglingOnlyByOverlap
<1>1. RP!IInv => DanglingOnlyByOverlap
  BY DEF RP!IInv, RP!SubjectsOK, RP!DanglingOnlyByOverlap, DanglingOnlyByOverlap,
         R!DanglingOnlyByOverlap
<1>2. QED
  BY <1>1, RegistrationInvariance, PTL

\* getAdminToken: whatever the lifetime of a token and the buffer, an operation is
\* refused only if delays used the whole buffer up.
THEOREM BufferIsEnough == SignUpSpec => []BufferCoversDelay
<1>1. AdminInv => BufferCoversDelay
  BY DEF AdminInv, OperationOK, BufferCoversDelay, K!BufferCoversDelay, K!At
<1>2. QED
  BY <1>1, AdminInvariance, PTL

\* findOrCreateRealmRole: no race of any number of operations leaves one of them
\* without its role.
THEOREM EveryRoleIsFound == SignUpSpec => []NoRoleMissing
<1>1. AdminInv => NoRoleMissing
  BY DEF AdminInv, OperationOK, NoRoleMissing, K!NoRoleMissing, K!At
<1>2. QED
  BY <1>1, AdminInvariance, PTL
=============================================================================
