SPECIFICATION FairSpec
CONSTANTS
  f1 = f1
  f2 = f2
  Flights = {f1, f2}
  Gates = {}
  Vehicles = {}
  Staff = {}
  SeedFlights = {f1}
  SeedResources = {}
  SeedSchedules <- EarlierSchedules
  FirstScheduleId = 3
  MaxScheduleId = 4
  EnteredWindows <- OtherWindows
  EnteredStatuses = {"APPROACHING", "ARRIVED", "GROUND_OPERATIONS"}
  EnteredMinutes = {0, 1}
  MaxDelayId = 2
  MaxEmergencyId = 2
  Faults = {"crash", "statement"}
INVARIANTS
  TypeOK
  IInv
  OneSchedulePerFlight
  DelayedMeansRecorded
  OneEmergencyPerFlight
  EmergencyEntersTheLifecycle
  HandlingFollowsFlight
  EstimatesFollowDelays
PROPERTIES
  DoneIsComplete
  HandlersReturn
