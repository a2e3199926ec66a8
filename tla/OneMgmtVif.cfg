\* The listener off, as in this build: faults of every kind, one of each.
CONSTANTS
  Keys <- MCKeys
  Vals <- MCVals
  Creds = {c1, c2}
  UserDevices = {0}
  NONE = NONE
  MaxXapiFaults = 1
  MaxServerErrors = 1
  MaxDrifts = 1
  MaxBoots = 1
  Listening = FALSE
  VM = vm
  VmIds = {vm}
SPECIFICATION FairSpec
INVARIANTS
  AtMostOneMgmtVif
  MigrationRoundTrip
PROPERTIES
  ChannelRefinement
  RequestTerminates
