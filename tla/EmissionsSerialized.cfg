SPECIFICATION Spec
CONSTANTS
  n1 = n1
  n2 = n2
  n3 = n3
  k1 = k1
  k2 = k2
  NoKind = NoKind
  NotCached = NotCached
  MaxFrame = 4
  Callers = {"c1", "c2"}
  Asked = {0, 1, 2, 3, 4}
  EffectNode = {n1, n2, n3}
  Kind = {k1, k2}
  Candidates <- MCCandidates
  KindAt <- MCKindAt
  Together <- SameFrame
INVARIANTS
  TypeOK
  CacheReflectsFrame
  AnswersReflectFrame
PROPERTIES
  CacheStable
  CallsSettle
