SPECIFICATION Spec
CONSTANTS
  f1 = f1
  f2 = f2
  g1 = g1
  g2 = g2
  v1 = v1
  v2 = v2
  s1 = s1
  s2 = s2
  NoRequest = NoRequest
  Flights = {f1, f2}
  Gates = {g1, g2}
  Vehicles = {v1, v2}
  Staff = {s1, s2}
  SeedFlights = {f1}
  SeedResources = {g1, g2, v1, v2, s1}
  Requests <- ClashingRequests
  MaxAllocationId = 3
  ReachedStatuses = {"APPROACHING", "CANCELLED"}
  AdminStatuses = {}
  Faults = {}
INVARIANTS
  TypeOK
  NoDoubleBooking
PROPERTY
  NoServiceAfterDeparture
