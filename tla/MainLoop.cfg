CONSTANTS
  Texts = {t1}
  TransferReadyTimeout = 1
  StatusReportMillis = 1
  ClockMod = 3
  MaxLoopTime = 1
SPECIFICATION FairSpec
INVARIANTS
  TypeOK
  SignalledBeforeCleared
PROPERTIES
  ServedOnceUnlessRaced
  RequestServed
  StatusFetchedOrCleared
