\* One XAPI failure in an earlier request, then a fault-free SETUP.
CONSTANTS
  Keys <- MCKeys
  Vals <- MCVals
  Creds = {c1, c2}
  UserDevices = {0}
  NONE = NONE
  MaxXapiFaults = 1
  MaxServerErrors = 0
  MaxDrifts = 0
  MaxBoots = 0
  Listening = FALSE
  VM = vm
  VmIds = {vm}
SPECIFICATION Spec
INVARIANT FaultFreeSetupSucceeds
