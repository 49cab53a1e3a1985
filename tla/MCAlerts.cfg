SPECIFICATION Spec
CONSTANTS
  Calls = {c1, c2}
  NoCall = NoCall
  Keys = {flood, landslide}
  NoKey = NoKey
  MaxAlerts = 3
INVARIANTS
  TypeOK
  OneAlertPerKey
