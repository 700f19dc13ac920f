\* Progress of each publisher: both events may fail for ever.
SPECIFICATION FairSpec
CONSTANTS
  Publishers = {p1, p2}
  MaxId = 2
  BatchSize = 2
  MaxRetries = 2
  MaxFaults = 0
CHECK_DEADLOCK FALSE
PROPERTIES
  NoPublisherStalls
