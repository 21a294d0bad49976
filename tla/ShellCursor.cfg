SPECIFICATION Spec
CONSTANTS
  MaxFrame = 3
  MaxSessions = 1
  main = main
  side = side
  sandbox = sandbox
  Lane = {main, side, sandbox}
  LanesAt <- MCLanesAt
  SitesAt <- MCSitesAt
  TreeAt <- MCTreeAt
  Moves = {}
  NoLane = NoLane
  NoSite = NoSite
PROPERTY CursorFollowsFrame
