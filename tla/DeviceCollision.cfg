\* A VM whose ordinary VIFs use devices 0 and 3, no faults at all.
CONSTANTS
  Keys <- MCKeys
  Vals <- MCVals
  Creds = {c1, c2}
  UserDevices = {0, 3}
  NONE = NONE
  MaxXapiFaults = 0
  MaxServerErrors = 0
  MaxDrifts = 0
  MaxBoots = 0
  Listening = FALSE
  VM = vm
  VmIds = {vm}
SPECIFICATION Spec
INVARIANT FaultFreeSetupSucceeds
