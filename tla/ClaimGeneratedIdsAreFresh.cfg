SPECIFICATION Spec
CONSTANTS
  f1 = f1
  f2 = f2
  g1 = g1
  g2 = g2
  v1 = v1
  v2 = v2
  s1 = s1
  s2 = s2
  NoRequest = NoRequest
  Flights = {f1, f2}
  Gates = {g1}
  Vehicles = {v1}
  Staff = {s1, s2}
  SeedFlights = {f1, f2}
  SeedResources = {g1, v1, s1, s2}
  Requests <- RepeatedStaffRequests
  MaxAllocationId = 2
  ReachedStatuses = {}
  AdminStatuses = {}
  Faults = {"crash"}
INVARIANT
  GeneratedIdsAreFresh
