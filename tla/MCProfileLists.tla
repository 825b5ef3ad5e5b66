--------------------------- MODULE MCProfileLists ---------------------------
(***************************************************************************)
(* What a user edits in a profile, each with two requests at a time: the   *)
(* refund accounts, the addresses and the avatar.  They share no state: a  *)
(* behaviour changes one of them and leaves the others as they start.      *)
(***************************************************************************)
EXTENDS RefundAccounts, TLC

CONSTANTS MaxAddresses, MaxInserts, Assets, NoAsset

ASSUME AddressesAssumption == MaxAddresses \in Nat /\ MaxInserts \in Nat

ASSUME AssetsAssumption == NoAsset \notin Assets

ASSUME RequestsAssumption == IsFiniteSet(Requests) /\ Requests # {}

VARIABLES addresses, defaultAddress, inserted, addressRequest, kept

A == INSTANCE Addresses WITH
  listed <- addresses, default <- defaultAddress, created <- inserted,
  request <- addressRequest

addressVars == <<addresses, defaultAddress, inserted, addressRequest, kept>>

VARIABLES avatar, stored, removed, editRequest, reverted, forgotten

E == INSTANCE ProfileEdits WITH request <- editRequest

editVars == <<avatar, stored, removed, editRequest, reverted, forgotten>>

ListsInit == Init /\ A!Init /\ E!Init
ListsNext ==
  \/ Next /\ A!Init /\ E!Init /\ UNCHANGED <<addressVars, editVars>>
  \/ A!Next /\ Init /\ E!Init /\ UNCHANGED <<vars, editVars>>
  \/ E!Next /\ Init /\ A!Init /\ UNCHANGED <<vars, addressVars>>
ListsSpec == ListsInit /\ [][ListsNext]_<<vars, addressVars, editVars>>

\* The type invariants of the modules.
ListsTypeOK == TypeOK /\ A!TypeOK /\ E!EditsTypeOK

\* The properties of Addresses.
LimitExceededByOverlapOnly == A!LimitExceededByOverlapOnly
DefaultPassesOn == A!DefaultPassesOn

\* The properties of ProfileEdits.
GoneOnlyByEdit == E!GoneOnlyByEdit
NoAssetForgotten == E!NoAssetForgotten

Symmetry == Permutations(Requests) \cup Permutations(Recipients)

=============================================================================
