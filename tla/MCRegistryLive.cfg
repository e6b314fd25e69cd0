CONSTANTS
  Threads = {t1, t2, t3}
  NoEntry = NoEntry
  NoName = NoName
  NoThread = NoThread
  Names <- LiveNames
  LogTypes <- LiveLogTypes
  Batches <- LiveBatches
SPECIFICATION Spec
PROPERTIES
  CallsReturn
