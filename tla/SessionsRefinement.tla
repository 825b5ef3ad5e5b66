------------------------- MODULE SessionsRefinement -------------------------
(***************************************************************************)
(* Every login of Sessions implements LoginLineage: the mapping, for one   *)
(* arbitrary lineage.                                                      *)
(***************************************************************************)
EXTENDS Sessions

CONSTANT TheLineage

ASSUME LineageAssumption == TheLineage \in Tokens

InLineage(t) == Saved(t) /\ lineage[t] = TheLineage

LiveTokens == {t \in Tokens : InLineage(t) /\ Usable(t)}
SpentTokens == {t \in Tokens : InLineage(t) /\ ~Usable(t)}
Renewing == \E q \in Requests : Rotating(q) /\ lineage[request[q].token] = TheLineage

Lineage == INSTANCE LoginLineage
             WITH live <- LiveTokens, spent <- SpentTokens, renewing <- Renewing

\* The service keeps the promise of LoginLineage for every login: one usable
\* token at a time, none revived, and a login without a usable token and without
\* a rotation in progress stays over, whatever tokens are presented later.
ImplementsLineage == Lineage!Spec
=============================================================================
