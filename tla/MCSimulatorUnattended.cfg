SPECIFICATION FairSpec
CONSTANTS
  Request = {r1, r2}
  Device = {d1}
  Other = Other
  QueueCap = 2
  Telemetry = Telemetry
  None = None
PROPERTIES
  AutonomousNeedsNoOperator
