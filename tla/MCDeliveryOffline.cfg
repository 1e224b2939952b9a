SPECIFICATION FairSpec
CONSTANTS
  Request = {r1, r2}
  Device = {d1}
  Wild = Wild
  Modes = {"B"}
  QueueCap = 1
  None = None
PROPERTIES
  ImplementsMailbox
  OfflineCommandArrives
