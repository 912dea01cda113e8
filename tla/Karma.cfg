\* Rewards of an order twice or more, one fault, requests on the same row; or the
\* same fine in three messages.
SPECIFICATION KarmaSpec
CONSTANTS
  seller = seller  buyer = buyer
  asSeller = asSeller  asBuyer = asBuyer
  atFault = atFault
  done = done
  again1 = again1  again2 = again2  again3 = again3
  Users = {seller, buyer}
  Credits = {asSeller, asBuyer, atFault}
  userOf <- TheUsers
  amountOf <- Amounts
  Messages = {done, again1, again2, again3}
  creditsOf <- Carried
  r1 = r1  r2 = r2
  Replicas = {r1, r2}
  HttpWorkers = {1}
  Requests <- All
  AdminAmounts <- Fines
  AdminPermissions <- Lists
  MinKarma <- Lowest
  MaxKarma = 20
  MaxFaults = 1
  Idle = Idle
SYMMETRY Alike
INVARIANTS
  PermissionsFollowKarma
  CountedOncePerMessage
  RecordedWasApplied
  NoCreditIsLost
CHECK_DEADLOCK FALSE
