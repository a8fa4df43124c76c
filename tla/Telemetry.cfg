\* A queue smaller than what is emitted, batches of two, a second attempt and a
\* second delivery; one stray message and one message left undeleted.
SPECIFICATION FairSpec
CONSTANTS
  EventBound = 2
  SendRetries = 2
  MaxReceive = 2
  MaxQueue = 1
  BatchSize = 2
  StrayBound = 1
  ReceiveBatch = 2
  RepeatBound = 1
INVARIANTS TelemetryTypeOK CountersBalance DeletedOnlyStored NothingVanishes DuplicatesHaveCause
PROPERTY DeliverySpec
CHECK_DEADLOCK FALSE
