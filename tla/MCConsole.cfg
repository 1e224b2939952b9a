SPECIFICATION Spec
CONSTANTS
  Device = {"d", "a/b"}
  Levels <- MCLevels
INVARIANTS
  TypeOK
  ConsoleInv
  DefaultsAreValid
  AckComesHome
PROPERTIES
  NothingSentAtTheEnd
  StartupEnds
