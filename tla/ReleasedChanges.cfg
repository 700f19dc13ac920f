SPECIFICATION CdcSpec
CHECK_DEADLOCK FALSE
CONSTANTS
  Wal <- OneChangeEach
  CdcSinks = {k1}
  MaxReconnectAttempts = 2
  MaxProcesses = 1
INVARIANTS
  ReleasedIsWritten
