SPECIFICATION Spec
CONSTANTS
  f1 = f1
  f2 = f2
  g1 = g1
  v1 = v1
  NoRequest = NoRequest
  Unassigned = Unassigned
  Flights = {f1, f2}
  Gates = {g1}
  Vehicles = {v1}
  Staff = {}
  SeedFlights = {}
  SeedResources = {}
  SeedStatements <- Seeding
  Requests <- OneRequest
  MaxAllocationId = 1
  AdminStatuses = {"OCCUPIED"}
  SeedSchedules <- EmptyTable
  FirstScheduleId = 3
  MaxScheduleId = 3
  EnteredWindows <- NewWindows
  EnteredStatuses = {"APPROACHING"}
  EnteredMinutes = {1}
  MaxDelayId = 0
  MaxEmergencyId = 0
  EnteredAssignees = {}
  EnteredProgress = {"COMPLETED"}
  MaxTaskId = 1
  EnteredReports = {"ALLOCATION"}
  MaxReportId = 1
  Faults = {"crash"}
INVARIANTS
  IInv
  OpenConsoleCanBeUsed
PROPERTIES
  SeedingNeverOverwrites
  EveryChangeHasItsRole
  TasksAreKept
  ReportsAreSnapshots
