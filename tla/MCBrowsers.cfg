CONSTANTS
  Users = {u1}
  Tokens = {t1, t2, t3, o1, o2}
  Requests = {q1, q2, r1}
  Tabs = {b1, b2}
  Abroad = {o1, o2}
  Remote = {r1}
  NoUser = NoUser
  NoToken = NoToken
  NoRequest = NoRequest
SPECIFICATION CastSpec
SYMMETRY Symmetry
INVARIANTS BrowserTypeOK NobodyWaitsInVain AlarmNeedsDisturbance LogoutEndsLogin OthersSparesCaller
CONSTRAINT UntilDisturbed
