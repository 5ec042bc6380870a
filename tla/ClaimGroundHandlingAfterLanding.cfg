SPECIFICATION Spec
CONSTANTS
  f1 = f1
  f2 = f2
  Flights = {f1}
  Gates = {}
  Vehicles = {}
  Staff = {}
  SeedFlights = {f1}
  SeedResources = {}
  SeedSchedules <- SeededSchedules
  FirstScheduleId = 3
  MaxScheduleId = 3
  EnteredWindows <- NewWindows
  EnteredStatuses = {"APPROACHING"}
  EnteredMinutes = {}
  MaxDelayId = 0
  MaxEmergencyId = 1
  Faults = {}
INVARIANT
  GroundHandlingAfterLanding
