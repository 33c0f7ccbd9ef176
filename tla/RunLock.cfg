\* Two collector processes and two audits.
SPECIFICATION LockSpec
CONSTANTS
  Collectors = {c1, c2}
  Audits = {a1, a2}
  MaxCommits = 2
  MaxPlugins = 2
CHECK_DEADLOCK FALSE
INVARIANT LockTypeOK
INVARIANT OneAtATime
INVARIANT NothingChangesUnderneath
