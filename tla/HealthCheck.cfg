SPECIFICATION FairSpec
CONSTANTS
  Interval = 3
  Timeout = 2
  Retries = 2
  MaxDelay = 3
  MaxDown = 14
  MaxLoss = 2
  MaxAdd = 1
INVARIANTS
  TypeOK
  DetectedInTime
  AskedInTime
PROPERTIES
  OfflineOnlyAfterSilence
  ComesBack
