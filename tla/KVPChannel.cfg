\* Faults of every kind, one of each, with the listener re-setting the VM up on each start.
CONSTANTS
  Keys <- MCKeys
  Vals <- MCVals
  Creds = {c1, c2}
  UserDevices = {0}
  NONE = NONE
  MaxXapiFaults = 1
  MaxServerErrors = 1
  MaxDrifts = 1
  MaxBoots = 1
  Listening = TRUE
  VM = vm
  VmIds = {vm, other}
SPECIFICATION Spec
INVARIANTS
  TypeOK
  ResponseReflectsState
  RetryMasksDrift
