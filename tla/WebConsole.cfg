SPECIFICATION FairSpec
CONSTANTS
  a = a
  b = b
  Luids <- ModuleLuids
  None = None
  Apis <- AllApis
  Starts <- Addresses
  MaxInputs <- InputsByApi
INVARIANTS
  BusyIsOwedAnEvent
  PageOfState
  AddressIsState
  LateAnswersOnly
PROPERTIES
  NavigationProceeds
CHECK_DEADLOCK FALSE
