SPECIFICATION FairSpec
CONSTANTS
  Grace = 4
  ApprovalWait = 3
  SessionTimeout = 1
  HelloGiveUp = 2
  MaxUnread = 2
INVARIANTS
  TypeOK
  SilenceIsRedialled
PROPERTIES
  LinkComesToAnAnswer
  WindowEnds
CHECK_DEADLOCK FALSE
