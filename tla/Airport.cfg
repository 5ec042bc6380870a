SPECIFICATION Spec
CONSTANTS
  f1 = f1
  f2 = f2
  g1 = g1
  v1 = v1
  NoRequest = NoRequest
  Flights = {f1, f2}
  Gates = {g1}
  Vehicles = {v1}
  Staff = {}
  SeedFlights = {f1, f2}
  SeedResources = {g1}
  Requests <- ConsecutiveRequests
  MaxAllocationId = 2
  AdminStatuses = {}
  SeedSchedules <- SeededSchedules
  FirstScheduleId = 10
  MaxScheduleId = 9
  EnteredWindows = {}
  EnteredStatuses = {"APPROACHING", "ARRIVED", "GROUND_OPERATIONS"}
  EnteredMinutes = {1}
  MaxDelayId = 1
  MaxEmergencyId = 0
  Faults = {"crash"}
INVARIANTS
  IInv
PROPERTIES
  AllocationSpec
  WarningsAreComplete
