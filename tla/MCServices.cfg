\* Calls to the upstream and the pages that live on late answers, one at a time.
SPECIFICATION ServicesSpec
CONSTANTS
  Suites = {"retry", "transport", "url", "favorites", "library", "queue", "lyrics", "account", "vip", "home", "history"}
  Budgets = {100, 500, 501, 600, 1000, 1600, 2000, 2001, 3000, 4000, 5500, 5501, 6000, 7000, 9000, 10000}
  r1 = r1
  r2 = r2
  r3 = r3
  a = a
  b = b
  Requests = {r1, r2, r3}
  Hosts = {"gateway", "other"}
  HostOf <- TwoHosts
  NoHandle = NoHandle
  MaxAsyncRequests = 2
  PoolCapacity = 1
  MaxSessions = 2
  V5Replies <- FiveReplies
  V6Replies <- SixReplies
  Delay = 1200
  NoHash = 0
  AudioId <- SomeIds
  PageLimit = 3
  Accounts = {a, b}
  Nobody = Nobody
  FavoriteSongs = {1, 2}
  Clouds <- OneLiked
  Local = {2}
  FavoritePage = 1
  MaxWishes = 1
  MaxLoads = 2
  MaxSwitches = 2
  own = own
  other = other
  public = public
  Owned = {own, other}
  Public = {public}
  NoList = NoList
  Shelves <- SomeShelves
  Silent = {public}
  ShelfPage = 2
  MaxOpens = 3
  MaxEdits = 1
  MaxTrouble = 1
  QueueSongs = {1, 2, 3}
  NoSong = 0
  RadioAnswers <- SomeRadio
  History = 0
  MaxQueue = 4
  MaxCommands = 3
  Workers = {r1, r2}
  Hashes = {a, b}
  Candidates = {k1, k2}
  Lists <- LyricLists
  Costs = {1, 2, 4}
  MaxEntries = 2
  MaxBytes = 3
  MaxEntryBytes = 2
  SearchLife = 1
  DetailLife = 2
  LyricTicks = 1
  MaxUses = 3
  Failures = 2
  MaxAttempts = 2
  MaxSignings = 2
  MaxTroubles = 2
  Entitlements <- SomeEntitlements
  Confirmations = 2
  VipTicks = 1
  MaxAsks = 2
  MaxRefusals = 3
  MaxGrants = 1
  HomeAlbums <- ThreeAlbums
  HomeAtOnce = 1
  HomeLookups = 2
  MaxHomes = 2
  MaxDays = 2
  Played = {1, 2, 3}
  Remote <- SomePlayed
  Kept = 2
  Recently = 2
  MaxPlays = 3
  MaxRefreshes = 4
INVARIANTS CallsKeepBudget TransportIsSafe AnswerIsOfOneReply PagesAreOfAccount PlaysWhole
INVARIANTS MarkIsWhatPlays LyricCacheIsSound TierIsTrue PanelIsAlive
PROPERTIES RadioKeepsUnplayed SessionsMoveForward StopIsFinal
CHECK_DEADLOCK FALSE
SYMMETRY Symmetry
