CONSTANTS
  Users = {u1}
  Tokens = {t1, t2, t3}
  Requests = {q1, q2}
  NoUser = NoUser
  NoToken = NoToken
  TheLineage = t1
SPECIFICATION Spec
SYMMETRY Symmetry
INVARIANTS TypeOK OneUnrevokedPerLineage InFlightExact
PROPERTIES ImplementsLineage LockedOutStaysOut
