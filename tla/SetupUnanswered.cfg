\* One XAPI failure during a "setup" command: does the caller get a 404?
CONSTANTS
  Keys <- MCKeys
  Vals <- MCVals
  Creds = {c1, c2}
  UserDevices = {0}
  NONE = NONE
  MaxXapiFaults = 1
  MaxServerErrors = 0
  MaxDrifts = 0
  MaxBoots = 0
  Listening = FALSE
  VM = vm
  VmIds = {vm}
SPECIFICATION Spec
INVARIANT EveryRequestAnswered
