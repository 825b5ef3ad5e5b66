---------------------------- MODULE LoginLineage ----------------------------
(***************************************************************************)
(* What the service promises of ONE login: the refresh token handed out at *)
(* the login and all the tokens that rotation derives from it.  At any     *)
(* moment at most one of them can be used; a token that stopped being      *)
(* usable never becomes usable again; and a lineage that has no usable     *)
(* token and no rotation in progress is over for good.                     *)
(***************************************************************************)
CONSTANT Tokens

VARIABLES
  live,      \* the tokens of this lineage that can still be exchanged
  spent,     \* its tokens that were revoked or have expired
  renewing   \* has a rotation of this lineage passed its check and not ended?

vars == <<live, spent, renewing>>

Init == live = {} /\ spent = {} /\ renewing = FALSE

\* The login itself: the first token of the lineage.
Open(t) ==
  /\ live = {} /\ spent = {}
  /\ live' = {t}
  /\ UNCHANGED <<spent, renewing>>

\* A rotation is admitted only while a token is live, and one at a time.
StartRenewal ==
  /\ live # {} /\ ~renewing
  /\ renewing' = TRUE
  /\ UNCHANGED <<live, spent>>

\* Rotation, logout, revocation and expiry all withdraw the token in use.
Withdraw ==
  /\ live # {}
  /\ live' = {}
  /\ spent' = spent \cup live
  /\ UNCHANGED renewing

\* The rotation delivers the one new token, after the old one is withdrawn.
Renew(t) ==
  /\ renewing /\ live = {} /\ t \notin spent
  /\ live' = {t}
  /\ renewing' = FALSE
  /\ UNCHANGED spent

\* The rotation fails or the process dies.
GiveUp ==
  /\ renewing
  /\ renewing' = FALSE
  /\ UNCHANGED <<live, spent>>

Next ==
  \/ \E t \in Tokens : Open(t) \/ Renew(t)
  \/ StartRenewal \/ Withdraw \/ GiveUp

Spec == Init /\ [][Next]_vars
=============================================================================
