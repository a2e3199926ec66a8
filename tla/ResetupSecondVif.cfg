\* The listener on and one reboot: re_setup_vms runs _setup without _clearup.
CONSTANTS
  Keys <- MCKeys
  Vals <- MCVals
  Creds = {c1, c2}
  UserDevices = {0}
  NONE = NONE
  MaxXapiFaults = 0
  MaxServerErrors = 0
  MaxDrifts = 0
  MaxBoots = 1
  Listening = TRUE
  VM = vm
  VmIds = {vm}
SPECIFICATION Spec
INVARIANT AtMostOneMgmtVif
