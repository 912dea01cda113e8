\* Nobody uses the list of users: only reports lock the account.
SPECIFICATION ReportsSpec
CONSTANTS
  Admins = {"admin"}
  Moderators = {"moderator"}
  MaxReports = 2
  MaxToggles = 0
  NoTask = NoTask
CHECK_DEADLOCK FALSE
INVARIANTS
  LockedMeansLocked
