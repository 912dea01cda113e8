SPECIFICATION MessagesSpec
CONSTANTS
  x1 = x1  x2 = x2  y1 = y1  y2 = y2
  NoticeReplicas = {1, 2}
  MaxCopies = 3
  MaxNoticeFaults = 2
  Resting = Resting
  Partners = {x1, x2}
  Posts = {y1, y2}
  MaxMessages = 2
  MaxOpened = 2
  MaxDrops = 1
  NoPartner = NoPartner
  Claimants = {x1, x2}
  LfWorkers = {y1, y2}
  Analyses = {1, 2}
  MaxClaims = 3
  MaxImages = 2
  MaxLfRequests = 5
  MaxEdits = 2
  EditStatuses = {"OPEN", "RESOLVED"}
  Nobody = Nobody
  OcrCalls = {y1, y2}
  MaxOcr = 2
  MaxCounted = 4
  Users = {x1, x2}
  BellCalls = {y1, y2}
  MaxNotices = 2
  MaxBellAsks = 3
  MaxSignIns = 2
  NoUser = NoUser
  Kinds = {"LOST"}
  NoKind = NoKind
  Sends = {1}
  MaxSays = 3
  MaxPhotos = 2
  MaxLeft = 2
  MAX_TOOL_ROUNDS = 3
  SearchTexts = {"all", "book"}
  Filters = {"any", "new"}
  LastPage = 1
  MaxBrowsed = 3
  KeyWord = "khoa"
  PurseWord = "vi"
  Titles = {{"khoa"}, {"khoa", "vi"}, {"den"}}
  Descriptions = {{}}
  Tags = {{}, {"khoa"}}
  Places = {{}, {"h"}}
  Categories = {"KEYS", "OTHER"}
  FavouriteCalls = {x1, x2}
  MaxFavouriteCalls = 6
SYMMETRY ActorsAlike
CHECK_DEADLOCK FALSE
INVARIANTS
  MessagesTypeOK
  NobodyIsForgotten
  ApprovalStands
  ClaimantsHear
  AnalysisSettles
  LimitEnds
  WindowShowsItsConversation
  ListsAreHonest
  PhotosEndUpInOnePost
  CopiesAgree
  NoMatchIsMissed
  ButtonShowsTheRecord
