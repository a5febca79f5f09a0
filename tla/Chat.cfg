SPECIFICATION MCSpec
CONSTANTS
  t1 = t1
  s1 = s1
  Tabs = {t1, t2}
  Sessions = {s1, s2}
  Machines = {m1, m2}
  WorkerIds = {i1, i2}
  Nobody = Nobody
  None = None
  MaxSends = 2
  MaxTokens = 1
  acts = 2
CHECK_DEADLOCK FALSE
INVARIANTS WorkersTable ReplyFollowsPrompt ShownIsStored
PROPERTIES BusyEnds
