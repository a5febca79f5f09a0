SPECIFICATION Spec
CONSTANTS
  None = None
  Servers = {s1, s2}
  Tools = {t1}
  MaxConnects = 2
  MaxCalls = 1
  MaxCloses = 1
CHECK_DEADLOCK FALSE
INVARIANTS IInv OrphanHasCause ToolsFollowTheMap
PROPERTIES CallsSettle
