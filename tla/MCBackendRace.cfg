SPECIFICATION Spec
CONSTANTS
  Request = {r1, r2}
  Device = {d1, d2}
  Body = {b1}
  Wild = Wild
  NoDevice = NoDevice
  None = None
SYMMETRY Symmetry
PROPERTIES
  PublishedOnlyFromPending
