SPECIFICATION MCSpec
CONSTANTS
  Clients = {c1, c2}
  Keys = {k1, k2}
  Names = {n1, n2}
  NoEntry = NoEntry
  NoClient = NoClient
  MaxWrites = 2
  DiskFails = {"learn"}
  None = None
  Partial = Partial
  Missing = Missing
  Broken = Broken
  Blank = Blank
  Unreadable = Unreadable
  NoId = NoId
  Pause = Pause
  i1 = i1
  i2 = i2
  Rooms = {"a", "b", "c"}
  Ttl = 2
  MaxFiles = 2
  MaxSaves = 4
  MaxEnds = 1
  Companies = {1, 2}
  GovernorateFiles <- MCGovernorateFiles
  DistrictFiles <- MCDistrictFiles
  Server = "server"
  Cli = "cli"
  UsesCli = TRUE
  Alone = TRUE
  MaxEdits = 1
  MaxKills = 1
  Governorates <- MCGovernorates
  GovernorateOrder <- MCGovernorateOrder
  AllDistricts <- MCDistricts
  Bare <- MCBare
  TooShort = {"hay"}
  NearState <- MCNearState
  NearDistrict <- MCNearDistrict
  MaxWords = 2
  Requests = {"r1"}
  CustomerNames = {"absent", "good"}
  CustomerPhones = {"absent", "bad", "good"}
  Cities <- MCCities
  Areas <- MCAreas
  Streets <- MCStreets
  Prices = {None, Unreadable, 5}
  Vocabulary = {"x", "y"}
  Garbles = {}
  Lengths = {1, 2}
  MaxItems = 4
  ChunkSize = 4
  Overlap = 2
  MaxShared = 2
  Products = {"p1", "p2"}
  Infos <- MCInfos
  Storage = "here"
  PageSize = 1
  MaxPages = 2
  MaxInfos = 3
  MaxChanges = 1
  Orders = {"o1", "o2", "o3"}
  NoOrder = "none"
  OrdersPage = 2
  Phones = {"local", "international", "stranger", "anonymous"}
  NumberOf <- MCNumberOf
  NoNumber = "none"
  MaxOrders = 1
  ServerTools = {"orders", "products"}
  ClientTools = {"orders", "notes", "start"}
  StartCall = "start"
  Foreign = "foreign"
  MaxRounds = 3
  MaxCalls = 2
  Contents <- MCContents
  RawCalls <- MCRawCalls
  Ids = {i1, i2, NoId}
CHECK_DEADLOCK FALSE
INVARIANTS
  TypesHold
  AliasesSafe
  StoresServe
  OrderIsWhatWasSaid
  ToolsAreTrue
  ConversationIsValid
PROPERTIES
  StoresRecover
