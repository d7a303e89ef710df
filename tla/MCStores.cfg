\* Everything that is kept in a file, one store at a time.
SPECIFICATION StoresSpec
CONSTANTS
  Suites = {"playback", "appearance", "diagnostics", "database", "records", "files", "profile", "statistics"}
  Keys = {"first", "second"}
  Callers = {"gui", "other"}
  Owner = "gui"
  MaxUpdates = 2
  MaxRevision = 3
  MaxAppearances = 4
  Flushers = {"gui"}
  Capacity = 2
  ErrorReserve = 1
  MaxLines = 2
  MaxRecords = 3
  MaxDropped = 1
  MaxCrashes = 1
  Clients = {"gui", "other"}
  MaxOpens = 2
  MaxCalls = 2
  Connections = {"player", "other", "third"}
  Nobody = "nobody"
  MaxCommits = 2
  MaxDatabases = 3
  MaxRenames = 3
  Files = {"preferences", "appearance", "other"}
  MaxChanges = 4
  MaxImports = 2
  s1 = s1
  s2 = s2
  NoAlbum = NoAlbum
  album = album
  NoSession = NoSession
  CountedSeconds = 1
  JumpTicks = 2
  Archive <- OldArchive
  Tables <- OldTables
  kMaxStatsRows = 2
  LastTick = 3
  MaxListens = 1
  MaxTrouble = 1
INVARIANTS NothingLost QuietAfterStop PairsStayWhole QuarantineLosesNothing ListensAreTrue
PROPERTIES ImplementsStore AppearanceIsKept RecordsAreKept ImportIsSafe EveryCallReturns
CHECK_DEADLOCK FALSE
