CONSTANTS
  Texts = {t1}
  TransferReadyTimeout = 1
  StatusReportMillis = 2
  ClockMod = 4
  MaxLoopTime = 1
SPECIFICATION Spec
PROPERTY
  ServedOnce
