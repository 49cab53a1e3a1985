SPECIFICATION Spec
CONSTANTS
  MaxLogins = 3
  MaxKills = 2
INVARIANTS
  TypeOK
  AccessNotNewer
  SaveIsWhole
