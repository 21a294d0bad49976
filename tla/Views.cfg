SPECIFICATION Spec
CONSTANTS
  Hosts <- MCHosts
  Requests = {0, 2, 5}
  MaxLanes = 2
INVARIANTS
  FramesChain
  ViewsAgree
  WorldlineDrawn
