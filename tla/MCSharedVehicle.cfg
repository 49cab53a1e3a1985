SPECIFICATION Spec
CONSTANTS
  Users = {}
  Modifiers = {}
  Rerouters = {}
  Shipments = {s1, s2, s3}
  Approvals = {}
  Deciders = {}
  Vehicles = {v1}
  Critical = {}
  Requests = {r1}
  NoVehicle = NoVehicle
INVARIANT NoSharedVehicle
