SPECIFICATION Spec
CONSTANTS
  Request = {r1}
  Device = {d1}
  Wild = Wild
  Modes = {"A", "B"}
  QueueCap = 1
  None = None
INVARIANTS
  TypeOK
  DeliveryInv
  ReadyIsSubscribed
  RetainedIsOnItsWay
PROPERTIES
  ImplementsSession
