SPECIFICATION Spec
CONSTANTS
  Images <- Guests
  MayFail = TRUE
INVARIANTS
  TypeOK
  SupportedGuestsRun
  NothingLeftOpen
  ExitStatus
PROPERTIES
  ImplementsMachine
  GuestHalts
  VmDestroyed
CHECK_DEADLOCK FALSE
