CONSTANTS
  Recipients = {r1, r2}
  Requests = {q1, q2}
  MaxAccounts = 2
  MaxLate = 1
  NoRecipient = NoRecipient
  MaxAddresses = 2
  MaxInserts = 4
  Assets = {a1, a2, a3}
  NoAsset = NoAsset
SPECIFICATION ListsSpec
SYMMETRY Symmetry
INVARIANTS
  ListsTypeOK
  OneDefault
  TwinsOnlyByUpdate
  RecipientAgrees
  LimitExceededByOverlapOnly
  DefaultPassesOn
  GoneOnlyByEdit
  NoAssetForgotten
