SPECIFICATION PatientSpec
CONSTANTS
  Contexts = {dev}
  NoContext = none
  MaxFailures = 1
PROPERTIES RetryRecovers
CHECK_DEADLOCK FALSE
