SPECIFICATION FairSpec
CONSTANTS
  Approval = {a1}
  Item = {i1}
  User = {u1, u2}
  AllowedUser = {u1}
  Ladder <- MCLadder
  ExternalStep = 2
  ApprovalWait = 3
  None = None
  Page = Page
  Clock = Clock
  MaxTime = 3
  MaxTaps = 2
  MaxCrashes = 1
CHECK_DEADLOCK FALSE
INVARIANTS TypeOK AnnouncedOnce AnnouncedWasRecorded NotedTruthfully DecidedByButton
PROPERTIES LocalStaysLocal ImplementsApprovalFlow TapHandled
