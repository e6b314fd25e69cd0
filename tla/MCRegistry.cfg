CONSTANTS
  Threads = {t1, t2}
  NoEntry = NoEntry
  NoName = NoName
  NoThread = NoThread
  Names <- MCNames
  LogTypes <- MCLogTypes
  Batches <- MCBatches
SPECIFICATION Spec
INVARIANTS
  TypeOK
  NoDataRace
  FirstRegistrationWins
  ListedNamesResolve
PROPERTIES
  AbsSpec
