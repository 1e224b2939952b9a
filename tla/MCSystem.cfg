SPECIFICATION Spec
CONSTANTS
  Request = {r1}
  Device = {d1, d2}
  Body = {b1}
  Wild = Wild
  NoDevice = NoDevice
  Other = Other
  QueueCap = 1
  Telemetry = Telemetry
  None = None
  BackendAnswers <- MCBackendAnswers
  SimulatorAnswers <- MCSimulatorAnswers
SYMMETRY Symmetry
INVARIANTS
  SystemInv
  AcknowledgedByAddressee
PROPERTIES
  AutonomousAckTopic
  SimulatorSpec
  StagesInOrder
