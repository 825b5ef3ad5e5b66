---------------------------- MODULE OtpChallenge ----------------------------
(***************************************************************************)
(* OtpService: the challenge kept in Redis for one purpose and identifier. *)
(* createChallenge and verifyOtp are sequences of Redis commands; between  *)
(* two of them the handlers of other requests run.  A command is one step. *)
(* The pipeline of createChallenge is no transaction: its commands are     *)
(* sent together, but Redis may run those of another instance of the       *)
(* service in between, and may refuse one of them and run the next; exec   *)
(* returns such an error in its result, which createChallenge ignores.     *)
(*                                                                         *)
(* A challenge is identified by the order of its creation, which also      *)
(* stands for its code: two challenges have different codes.               *)
(***************************************************************************)
EXTENDS Naturals, FiniteSets

CONSTANTS
  Verifiers,      \* request slots running verifyOtp
  Creators,       \* request slots running createChallenge
  MaxAttempts,    \* OtpService.MAX_ATTEMPTS
  MaxChallenges,  \* bounds the challenges created
  CounterBound    \* bounds the field attempts, which nothing resets if DEL fails

ASSUME OtpAssumption ==
  /\ MaxAttempts \in Nat /\ MaxChallenges \in Nat /\ CounterBound \in Nat
  /\ IsFiniteSet(Verifiers)

VARIABLES
  key,        \* the Redis hash; Absent when there is none
  issued,     \* how many challenges were stored
  verifier,   \* verifyOtp in progress
  creator,    \* createChallenge in progress
  lost,       \* history: challenges whose EXPIRE failed
  compared,   \* history: inputs compared with the hash of a challenge
  accepted    \* history: verifications that returned the data of a challenge

vars == <<key, issued, verifier, creator, lost, compared, accepted>>

Challenges == 1..MaxChallenges
NoChallenge == 0

\* challenge: otp_hash with extra_data; cooling: resend_at lies in the future;
\* expires: never, at the time an earlier challenge set, or after its own 600 s.
Hash == [challenge : Challenges \cup {NoChallenge}, attempts : 0..CounterBound,
         cooling : BOOLEAN, expires : {"never", "inherited", "full"}]

Absent == [challenge |-> NoChallenge, attempts |-> 0, cooling |-> FALSE, expires |-> "never"]

Creating ==
  [pc : {"idle",
         "admitted",   \* no cooldown  -> del
         "deleted",    \*              -> hset
         "stored"},    \*              -> expire
   made : Challenges \cup {NoChallenge}]   \* the challenge that hset stored

NotCreating == [pc |-> "idle", made |-> NoChallenge]

Resting == [pc |-> "idle", input |-> NoChallenge, read |-> NoChallenge]

Verifying ==
  [pc : {"read",      \* hgetall has returned a hash   -> hincrby
         "excess",    \* attempts exceed the maximum   -> del, 429
         "matched"},  \* the input is the code         -> del, success
   input : Challenges \cup {NoChallenge},   \* whose code; NoChallenge: nobody's
   read : Challenges]                       \* the challenge hgetall returned

TypeOK ==
  /\ key \in Hash
  /\ issued \in Challenges \cup {0}
  /\ verifier \in [Verifiers -> Verifying \cup {Resting}]
  /\ creator \in [Creators -> Creating]
  /\ lost \subseteq Challenges
  /\ compared \in [Challenges -> Nat]
  /\ accepted \in [Challenges -> Nat]

Init ==
  /\ key = Absent
  /\ issued = 0
  /\ verifier = [v \in Verifiers |-> Resting]
  /\ creator = [c \in Creators |-> NotCreating]
  /\ lost = {}
  /\ compared = [n \in Challenges |-> 0]
  /\ accepted = [n \in Challenges |-> 0]

-----------------------------------------------------------------------------
(* createChallenge.                                                        *)

\* HGET resend_at: refused with 429 while it lies in the future.
Admit(c) ==
  /\ creator[c].pc = "idle" /\ ~key.cooling
  /\ creator' = [creator EXCEPT ![c].pc = "admitted"]
  /\ UNCHANGED <<key, issued, verifier, lost, compared, accepted>>

\* DEL, which may fail.
DelKey(c) ==
  /\ creator[c].pc = "admitted"
  /\ key' \in {Absent, key}
  /\ creator' = [creator EXCEPT ![c].pc = "deleted"]
  /\ UNCHANGED <<issued, verifier, lost, compared, accepted>>

\* What HSET makes of the key: every field is new.  The time a key expires, if it
\* was not deleted, stays.
Stored ==
  [challenge |-> issued + 1, attempts |-> 0, cooling |-> TRUE,
   expires |-> IF key.expires = "never" THEN "never" ELSE "inherited"]

\* Mutant: there is no EXPIRE in the pipeline.
SetHashOnly(c) ==
  /\ creator[c].pc = "deleted" /\ issued < MaxChallenges
  /\ key' = Stored
  /\ issued' = issued + 1
  /\ creator' = [creator EXCEPT ![c] = NotCreating]
  /\ UNCHANGED <<verifier, lost, compared, accepted>>

SetHash(c) ==
  /\ creator[c].pc = "deleted"
  /\ \/ /\ issued < MaxChallenges
        /\ key' = Stored
        /\ issued' = issued + 1
        /\ creator' = [creator EXCEPT ![c] = [pc |-> "stored", made |-> issued + 1]]
     \/ creator' = [creator EXCEPT ![c].pc = "stored"] /\ UNCHANGED <<key, issued>>
  /\ UNCHANGED <<verifier, lost, compared, accepted>>

\* EXPIRE of whatever the key holds now, or of nothing; the caller then publishes
\* the code.
SetExpiry(c) ==
  /\ creator[c].pc = "stored"
  /\ key' = IF key = Absent THEN key ELSE [key EXCEPT !.expires = "full"]
  /\ creator' = [creator EXCEPT ![c] = NotCreating]
  /\ UNCHANGED <<issued, verifier, lost, compared, accepted>>

\* The connection or the process is lost on the way, or EXPIRE fails.
CreateFail(c) ==
  /\ creator[c].pc # "idle"
  /\ lost' = lost \cup ({creator[c].made} \ {NoChallenge})
  /\ creator' = [creator EXCEPT ![c] = NotCreating]
  /\ UNCHANGED <<key, issued, verifier, compared, accepted>>

-----------------------------------------------------------------------------
(* verifyOtp.                                                              *)

\* Mutant: a hash with attempts and no otp_hash passes for a challenge.
ReadUnchecked(v) ==
  /\ verifier[v] = Resting /\ key # Absent
  /\ \E input \in 0..issued :
       verifier' = [verifier EXCEPT
                      ![v] = [pc |-> "read", input |-> input, read |-> key.challenge]]
  /\ UNCHANGED <<key, issued, creator, lost, compared, accepted>>

\* HGETALL: without otp_hash the request ends with 400.
Read(v) ==
  /\ verifier[v] = Resting /\ key.challenge # NoChallenge
  /\ \E input \in 0..issued :
       verifier' = [verifier EXCEPT
                      ![v] = [pc |-> "read", input |-> input, read |-> key.challenge]]
  /\ UNCHANGED <<key, issued, creator, lost, compared, accepted>>

\* HINCRBY on whatever the key holds now: a key deleted or expired since the
\* read is created again, with this one field and without expiry.
Increment == key' = [key EXCEPT !.attempts = @ + 1]

\* What the reply of HINCRBY decides, in the same turn of the event loop: refuse
\* for excess, or compare the input with the hash that was READ.
Decide(v, attempts) ==
  LET s == verifier[v] IN
  \/ /\ attempts > MaxAttempts
     /\ verifier' = [verifier EXCEPT ![v].pc = "excess"]
     /\ UNCHANGED compared
  \/ /\ attempts <= MaxAttempts
     /\ compared' = [compared EXCEPT ![s.read] = @ + 1]
     /\ verifier' = [verifier EXCEPT
          ![v] = IF s.input = s.read THEN [s EXCEPT !.pc = "matched"] ELSE Resting]

\* Mutant: the limit is tested before the attempt is counted.
CountOneMore(v) ==
  /\ verifier[v].pc = "read" /\ key.attempts < CounterBound
  /\ Increment
  /\ Decide(v, key.attempts)
  /\ UNCHANGED <<issued, creator, lost, accepted>>

Count(v) ==
  /\ verifier[v].pc = "read" /\ key.attempts < CounterBound
  /\ Increment
  /\ Decide(v, key.attempts + 1)
  /\ UNCHANGED <<issued, creator, lost, accepted>>

\* DEL of the key, whichever challenge it holds by now.
RefuseExcess(v) ==
  /\ verifier[v].pc = "excess"
  /\ key' = Absent
  /\ verifier' = [verifier EXCEPT ![v] = Resting]
  /\ UNCHANGED <<issued, creator, lost, compared, accepted>>

\* Mutant: success leaves the challenge to its expiry.
AcceptWithoutDel(v) ==
  /\ verifier[v].pc = "matched"
  /\ accepted' = [accepted EXCEPT ![verifier[v].read] = @ + 1]
  /\ verifier' = [verifier EXCEPT ![v] = Resting]
  /\ UNCHANGED <<key, issued, creator, lost, compared>>

Accept(v) ==
  /\ verifier[v].pc = "matched"
  /\ key' = Absent
  /\ accepted' = [accepted EXCEPT ![verifier[v].read] = @ + 1]
  /\ verifier' = [verifier EXCEPT ![v] = Resting]
  /\ UNCHANGED <<issued, creator, lost, compared>>

\* A Redis command of the handler fails, or the process dies.
VerifyFail(v) ==
  /\ verifier[v] # Resting
  /\ verifier' = [verifier EXCEPT ![v] = Resting]
  /\ UNCHANGED <<key, issued, creator, lost, compared, accepted>>

-----------------------------------------------------------------------------
(* Time.  The cooldown (60 s) is over before the 600 s of its challenge.   *)

CooldownEnds ==
  /\ key.cooling
  /\ key' = [key EXCEPT !.cooling = FALSE]
  /\ UNCHANGED <<issued, verifier, creator, lost, compared, accepted>>

Expire ==
  /\ key.expires # "never"
  /\ key.expires = "full" => ~key.cooling
  /\ key' = Absent
  /\ UNCHANGED <<issued, verifier, creator, lost, compared, accepted>>

-----------------------------------------------------------------------------
Next ==
  \/ \E c \in Creators :
       Admit(c) \/ DelKey(c) \/ SetHash(c) \/ SetExpiry(c) \/ CreateFail(c)
  \/ \E v \in Verifiers :
       Read(v) \/ Count(v) \/ RefuseExcess(v) \/ Accept(v) \/ VerifyFail(v)
  \/ CooldownEnds \/ Expire

Spec == Init /\ [][Next]_vars

-----------------------------------------------------------------------------
(* Properties.                                                             *)

\* The limit of attempts under concurrency: while a challenge is in Redis the
\* counter is exact, and once it is gone only the verifications that had read it
\* can still compare.  So a challenge never meets more inputs than the limit plus
\* the verifications in progress when it went, although HINCRBY starts from
\* nothing on a deleted key.
ComparisonsBounded ==
  \A n \in Challenges : compared[n] <= MaxAttempts + Cardinality(Verifiers)

\* A challenge that some verification accepted is no longer in Redis: whoever
\* presents its code to a request that starts later is refused.
AcceptedIsGone ==
  \A n \in Challenges : accepted[n] > 0 => key.challenge # n

\* A hash with a code does not stay in Redis for ever: where one is without expiry,
\* the pipeline that stored it is still to send its EXPIRE, or this EXPIRE failed.
\* No order of the pipelines of several requests, of commands of theirs that fail,
\* and of the HINCRBY and DEL of verifications between them leaves another one.
ChallengeExpires ==
  (key.challenge # NoChallenge /\ key.expires = "never") =>
    \/ key.challenge \in lost
    \/ \E c \in Creators : creator[c] = [pc |-> "stored", made |-> key.challenge]

\* README.md:251, "already-consumed challenges must be rejected": at most one
\* verification of a challenge succeeds.  Two requests that have both read the
\* hash before either deletes it both succeed.
ConsumedOnce == \A n \in Challenges : accepted[n] <= 1
=============================================================================
