CONSTANTS
  Users = {u1}
  Role <- MCAdminOnly
  Permission <- MCPermission
  Version <- MCOneVersion
  Manifest <- MCOneManifest
  Critical <- MCCritical
  Default <- MCDefault
  Viewers = {v1}
  Changers = {c1}
  Editors = {}
  Faults = FALSE
  NoUser = NoUser
SPECIFICATION CastSpec
INVARIANTS NextProfileReflects
