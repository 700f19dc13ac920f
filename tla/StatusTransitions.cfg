SPECIFICATION SubSpec
CHECK_DEADLOCK FALSE
CONSTANTS
  l1 = l1
  Editors = {d1, d2}
  MaxVersion = 3
  Loads = {l1}
  LoadId <- OneId
  MaxBatch = 2
  Streams = {w1}
  SendCap = 1
  BroadcastCap = 1
PROPERTIES
  TransitionsAllowed
