CONSTANTS
  Users = {u1}
  Tokens = {t1, t2}
  Requests = {q1}
  Tabs = {b1, b2}
  Abroad = {}
  Remote = {}
  NoUser = NoUser
  NoToken = NoToken
  NoRequest = NoRequest
SPECIFICATION BrowserSpec
INVARIANTS LogoutIsFinal
