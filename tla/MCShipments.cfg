SPECIFICATION Spec
CONSTANTS
  Users = {u1, u2}
  Modifiers = {u1, u2}
  Rerouters = {u1, u2}
  Shipments = {s1, s2}
  Approvals = {a1}
  Deciders = {d1, d2}
  Vehicles = {v1}
  Critical = {s1}
  Requests = {r1, r2}
  NoVehicle = NoVehicle
SYMMETRY SlotAndUserSymmetry
INVARIANTS
  TypeOK
  TwoPersonRule
PROPERTIES
  DecisionIsFinal
  DeliveredFromTheRoad
