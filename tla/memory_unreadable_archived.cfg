SPECIFICATION Spec
CHECK_DEADLOCK FALSE
CONSTANTS
  rule = rule
  plain = plain
  e1 = e1
  e2 = e2
  Id <- Ids
  Text <- Texts
  Fresh <- DropTriggers
  Manual = {e1}
  Expiring = {e1}
  Cap = 1
  MaxRevisions = 2
  MaxTime = 1
  MaxEdits = 2
  MaxWrites = 2
  NoRow = NoRow
  NoFile = NoFile
  Unreadable = Unreadable
  NoHash = NoHash
  NoId = NoId
  Diff = Diff
PROPERTY
  UnreadableIsNoDeletion
