SPECIFICATION Spec
CONSTANTS
  Usable <- MCUsable
  EventTrbs = 3
  PortChanges = 1
  Reports = {r1, r2}
  NoReport = NoReport
  Blank = Blank
  Faults = {"stall", "hang", "error"}
  Machines <- MCMachines
CHECK_DEADLOCK FALSE
INVARIANT RingsAgree
PROPERTIES ImplementsReportPipe ReportsComeThrough
