SPECIFICATION Spec
CONSTANTS
  MaxFrame = 3
  MaxSessions = 2
  main = main
  side = side
  sandbox = sandbox
  Lane = {main, side, sandbox}
  LanesAt <- MCLanesAt
  SitesAt <- MCSitesAt
  TreeAt <- MCTreeAt
  Moves <- MCMoves
  NoLane = NoLane
  NoSite = NoSite
INVARIANTS
  TypeOK
  FramesOfSession
  FocusIsSelection
  CursorOnRow
PROPERTIES
  TimelineOfLane
  FocusCatchesUp
  WorldlineFills
