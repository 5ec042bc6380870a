SPECIFICATION Spec
CONSTANTS
  f1 = f1
  f2 = f2
  Flights = {f1, f2}
  Gates = {}
  Vehicles = {}
  Staff = {}
  SeedFlights = {f1}
  SeedResources = {}
  SeedSchedules <- SeededSchedules
  FirstScheduleId = 3
  MaxScheduleId = 2
  EnteredWindows = {}
  EnteredStatuses = {"APPROACHING", "ARRIVED", "GROUND_OPERATIONS", "BOARDING", "READY_FOR_DEPARTURE", "DEPARTED", "COMPLETED", "CANCELLED"}
  EnteredMinutes = {1}
  MaxDelayId = 1
  MaxEmergencyId = 1
  Readings <- ThresholdReadings
  MaxAtcRows = 2
  MaxWeatherRows = 1
  Faults = {"crash", "statement"}
INVARIANTS
  TypeOK
  IInv
  FeedNeverGoesBack
PROPERTIES
  SnapshotIsLogged
  ProblemsAreReported
  AlertIsTheWorstMeasure
  LifecycleSpec
