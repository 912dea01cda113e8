SPECIFICATION MarketSpec
CONSTANTS
  t1 = t1  x1 = x1  x2 = x2  y1 = y1  y2 = y2  a1 = a1  r1 = r1
  Tabs = {t1}
  Elsewhere = Elsewhere
  Clients <- AllClients
  HttpWorkers = {1, 2}
  MAX_ATTEMPTS = 2
  MaxIds = 3
  Free = Free
  Calls = {x1, x2}
  OtherOps = {"updateProfile", "login", "changePassword"}
  MaxOthers = 1
  MaxRequests = 3
  Buyers = {x1, x2}
  OfferWorkers = {y1, y2}
  MaxOffers = 2
  NoRequest = NoRequest
  OthersOps = {"markAwaitingSellerConfirmation", "cancelOrder", "confirmOrder", "reportBankTransfer", "confirmBankTransfer", "resolveDispute", "resolvePaymentIssue", "openPaymentIssue", "processRefund"}
  Pressed <- Buttons
  PageMethods = {"CASH", "BANK_TRANSFER"}
  MaxChanges = 3
  MaxFetches = 2
  Absent = Absent
  Admins = {a1}
  Moderators = {r1}
  MaxReports = 1
  MaxToggles = 1
  NoTask = NoTask
  Writers = {y1, y2}
  Readers = {r1}
  Texts = {1, 2}
  MaxWrites = 2
  MaxMishaps = 1
  NoPost = NoPost
  Reviewers = {"an", "binh"}
  ReviewWorkers = {y1, y2}
  Sales <- TwoSales
  MaxOrderSteps = 3
  NoReview = NoReview
SYMMETRY ActorsAlike
CHECK_DEADLOCK FALSE
INVARIANTS
  ReviewsAreEarned
  GuessesAreBounded
  RevokedStaysRevoked
  KeepsSession
  NothingWaitsInVain
  DecisionsStand
  OneOfferPerBuyer
  ButtonsAreHonoured
  SanctionsHold
  CacheIsCurrent
