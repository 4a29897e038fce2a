SPECIFICATION MCSpec
CONSTANTS
  Cases = {1, 2}
  Names = {d1, center}
  Center = center
  NoName = NoName
  Groups = {"g1", "g2"}
  GroupOf <- Governorate
  Chunk = 1
  MaxLlm = 1
  Concurrency = 1
  Kinds = {"settled", "strong", "fair", "doubt", "none", "refused"}
  Modes = {"off", "shadow", "decide"}
  Requests = {r1, r2, r3}
  Keys = {k1, k2}
  NameBatches = 2
  None = None
  Labels = {"hay", "mujamma"}
  Hay = "hay"
  GovLabel = "mohafaza"
  StateNames = {"wasit"}
  Centers = {"wasit", "kut"}
  AllCenters = {"wasit", "kut"}
  Honorifics = {"ashraf"}
  Sides = {"rusafa"}
  AddressWords = {"near", "hay", "mujamma"}
  Other = "other"
  Edits <- MCEdits
  Alike <- MCAlike
  PlaceNames <- MCPlaceNames
  Swapped <- MCSwapped
  MaxNames = 2
  Texts <- MCTexts
  Addresses <- MCAddresses
  Governorates <- MCGovernorates
  GovernorateOrder <- MCGovernorateOrder
  AllDistricts <- MCDistrictNames
  Bare <- MCBare
  TooShort = {"hay"}
  NearState <- MCNearState
  NearDistrict <- MCNearDistrict
  NGram = 2
  MessageWords = {"basra", "salah", "din", "hay", "jumhuri", "karrada", "basrah", "jumhury", "tothe"}
  MaxMessage = 4
  TopK = 2
CHECK_DEADLOCK FALSE
INVARIANTS
  RulesStand
  MethodsBounded
  IndexSafe
  PlacesReadRight
PROPERTIES
  RequestsEnd
