CONSTANTS
  Users = {a1, u1}
  Founders = {a1}
  Mutators = {m1}
  Consumers = {}
  Editors = {e1}
  OtherRoles = {"SUPPORT_AGENT"}
  MaxAudits = 1
  NoUser = NoUser
SPECIFICATION CastSpec
INVARIANTS NotOverwritten
