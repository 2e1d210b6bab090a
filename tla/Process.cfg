\* The clock and the number of authentications are bounded, so a run ends.
CHECK_DEADLOCK FALSE
SPECIFICATION Spec
CONSTANTS
  Nil = Nil
  Configs <- MCConfigs
  Invocations <- MCInvocations
  MaxTime = 2
  MaxReporters = 2
  MaxAuths = 3
INVARIANTS
  AdvertisesAsAsked
  RecordsStay
