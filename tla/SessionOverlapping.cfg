SPECIFICATION Spec
CONSTANTS
  Absent = Absent
  NoSession = NoSession
  c1 = c1
  c2 = c2
  o1 = o1
  o2 = o2
  o3 = o3
  e1 = e1
  e2 = e2
  e3 = e3
  ObservationId = {o1, o2}
  EmissionId = {e1, e2}
  EmissionsAt <- MCEmissionsAt
  ObservationsAt <- TwoFramesObserved
  HostFacts <- MisdescribedFacts
  Requests <- MCRequests
  MaxFrame = 2
  Calls = {c1, c2}
  HostCapabilities <- FullAndGitWarp
  Suspending <- SomeSuspending
  Fallible = {"emissions"}
  MaxPins = 1
INVARIANTS
  PublishedAsOffered
  PinsPaired
  SlowEmissionsCoherent
PROPERTY CommandsSettle
