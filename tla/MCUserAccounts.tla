--------------------------- MODULE MCUserAccounts ---------------------------
(* UserAccounts for TLC.  Bound: a behaviour has either mutations only, as *)
(* many at a time as there are slots, or one at a time among the approvals *)
(* and the edits.                                                          *)
EXTENDS UserAccounts

VARIABLE acting

Casts == {Mutators, {CHOOSE m \in Mutators : TRUE} \cup Consumers \cup Editors}

CastInit == Init /\ acting \in Casts

CastNext ==
  \/ \E q \in acting : Step(q) /\ UNCHANGED acting
  \/ Restart /\ UNCHANGED acting

CastSpec == CastInit /\ [][CastNext]_<<vars, acting>>
=============================================================================
