CONSTANTS
  Users = {a1, u1}
  Founders = {a1}
  Mutators = {m1, m2}
  Consumers = {c1}
  Editors = {e1}
  OtherRoles = {}
  MaxAudits = 2
  NoUser = NoUser
SPECIFICATION CastSpec
INVARIANTS TypeOK SomeActiveAdmin AssignmentFollowsRole MailFollowsAudit GapIsVisible
PROPERTIES ApprovalSparesStaff OneFieldAtATime
