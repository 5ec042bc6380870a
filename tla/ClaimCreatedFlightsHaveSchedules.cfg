SPECIFICATION Spec
CONSTANTS
  f1 = f1
  f2 = f2
  Flights = {f1, f2}
  Gates = {}
  Vehicles = {}
  Staff = {}
  SeedFlights = {}
  SeedResources = {}
  SeedSchedules <- NoSchedules
  FirstScheduleId = 3
  MaxScheduleId = 4
  EnteredWindows <- NewWindows
  EnteredStatuses = {}
  EnteredMinutes = {}
  MaxDelayId = 0
  MaxEmergencyId = 0
  Faults = {"crash"}
PROPERTY
  CreatedFlightsHaveSchedules
