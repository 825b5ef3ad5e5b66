CONSTANTS
  Users = {u1}
  Tokens = {t1, t2}
  Requests = {q1, q2}
  NoUser = NoUser
  NoToken = NoToken
  TheLineage = t1
SPECIFICATION FairSpec
PROPERTIES RefreshLetsGo
