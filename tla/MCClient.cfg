SPECIFICATION FairSpec
INVARIANTS
  TypeOK
  ClientInv
  NeverSilentlyDeaf
PROPERTIES
  FirstOutcomeDecides
  ImplementsSession
  StartupDecides
  ReconnectsIfAsked
