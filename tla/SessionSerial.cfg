SPECIFICATION Spec
CONSTANTS
  Absent = Absent
  NoSession = NoSession
  c1 = c1
  c2 = c2
  o1 = o1
  o2 = o2
  o3 = o3
  e1 = e1
  e2 = e2
  e3 = e3
  ObservationId = {o1, o2, o3}
  EmissionId = {e1, e2, e3}
  EmissionsAt <- MCEmissionsAt
  ObservationsAt <- MCObservationsAt
  HostFacts <- MCHostFacts
  Requests <- MCRequests
  MaxFrame = 2
  Calls = {c1}
  HostCapabilities <- MixedCapabilities
  Suspending <- AllSuspending
  Fallible = {"hello", "move", "head", "frame", "receipts", "emissions", "observations", "context", "facts"}
  MaxPins = 2
INVARIANTS
  TypeOK
  SnapshotCoherent
PROPERTY ImplementsContract
