CONSTANTS
  Users = {u1, u2}
  Role <- MCRole
  Permission <- MCPermission
  Version <- MCVersion
  Manifest <- MCManifest
  Critical <- MCCritical
  Default <- MCDefault
  Viewers = {v1}
  Changers = {c1}
  Editors = {e1}
  Faults = TRUE
  NoUser = NoUser
SPECIFICATION CastSpec
SYMMETRY Symmetry
INVARIANTS TypeOK AdminKeepsCore StaleOnlyByRace RetiredIsGone
