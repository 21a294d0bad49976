SPECIFICATION Spec
CONSTANTS
  NoSession = NoSession
  ToolCalls = {"t1", "t2", "t3"}
  MaxCreations = 3
INVARIANTS
  TypeOK
  OneCreation
  OneSession
  NoStalePromise
PROPERTY CallsSettle
