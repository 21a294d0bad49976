SPECIFICATION Spec
CONSTANTS
  NoSession = NoSession
  LastOption = 1
  Wizard = 1
  Text <- MCText
  Blank = "blank"
  WorkingDirectory = "cwd"
  DefaultGraph = "default"
  MaxAttempts = 2
  MaxDisconnects = 2
CHECK_DEADLOCK FALSE
INVARIANTS
  TypeOK
  NewestWins
  FormHasRepository
PROPERTIES
  SessionStable
  DisconnectSticks
  ConnectingEnds
