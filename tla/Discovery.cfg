SPECIFICATION Spec
CONSTANTS
  EntryId <- MCEntryId
  DescriptorId <- MCDescriptorId
  RegistryId = "warp-ttd-runtime-registry"
  TargetsId = "warp-ttd-targets-json"
  Jedit = "jedit"
  Graft = "graft"
  JeditRoot = "p"
  GraftRoot = "q"
  GraftGraph = "graft-ast"
  RegistryLabel = "registry"
  BuiltInLabel = "witness"
  TargetsLabel = "targets"
  Kinds = {"targets", "sessions", "hello", "discover"}
  Configurations <- MCConfigurations
  Disks <- MCDisks
  Contents <- MCContents
  MaxChanges = 1
CHECK_DEADLOCK FALSE
INVARIANTS
  TypeOK
  ReachableExactly
  DuplicatesObstructed
  RecordAgreesWithHello
  DefectsNamed
  IntakeTruthful
PROPERTY InspectionEnds
