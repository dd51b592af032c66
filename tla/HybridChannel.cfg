SPECIFICATION ChannelSpec
CONSTANTS
  MaxRetries = 1
  MaxTexts = 3
  MaxAttempts = 5
  Huge = Huge
INVARIANTS DeliveredPrinted Whole
PROPERTIES AtLeastOnceInOrder TextsSettled
CHECK_DEADLOCK FALSE
