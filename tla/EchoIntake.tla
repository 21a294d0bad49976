----------------------------- MODULE EchoIntake -----------------------------
(***************************************************************************)
(* What WARP TTD makes of the files an Echo target leaves under its root:  *)
(* the adapter probe descriptor (echoAdapterProbe.ts), the manifest of the *)
(* families it publishes (liveEchoFamilyIntake.ts) and the generated       *)
(* artifacts that manifest names (sharedFamilyHydration.ts).               *)
(*                                                                         *)
(* A root is a record: whether it is there, its two manifests as JSON that *)
(* may be anything, and the files it holds, each a sequence of path        *)
(* segments.  An optional member of a JSON object is a set of at most one  *)
(* element, empty also when the member has another type.                   *)
(***************************************************************************)
EXTENDS Integers, SequencesExt

FactKeys == <<"neighborhoodCore", "reintegrationDetail", "receiptShell">>

SupportedAbiVersions == {1}
SupportedTransports  == {"native", "wasm"}

----------------------------------------------------------------------------
(* The adapter probe *)

\* The checks of a descriptor in the order they are made: the first that
\* fails decides.
DescriptorPosture(probe) ==
  IF ~probe.schema \/ ~probe.echo THEN "PROBE_OBSTRUCTED"
  ELSE IF probe.abi = {} THEN "PROBE_OBSTRUCTED"
  ELSE IF ~(probe.abi \subseteq SupportedAbiVersions) THEN "ABI_UNSUPPORTED"
  ELSE IF probe.transport = {} THEN "PROBE_OBSTRUCTED"
  ELSE IF ~(probe.transport \subseteq SupportedTransports) THEN "ABI_UNSUPPORTED"
  ELSE "BRIDGE_PRESENT"

BridgePosture(root) ==
  CASE ~root.there -> "ROOT_UNAVAILABLE"
    [] root.there /\ root.probe.file = "ABSENT" -> "BRIDGE_ABSENT"
    [] root.there /\ root.probe.file \in {"UNREADABLE", "NOT_OBJECT"} -> "PROBE_OBSTRUCTED"
    [] root.there /\ root.probe.file = "OBJECT" -> DescriptorPosture(root.probe)

ProbePosture ==
  [ROOT_UNAVAILABLE |-> "UNAVAILABLE", BRIDGE_ABSENT    |-> "UNAVAILABLE",
   PROBE_OBSTRUCTED |-> "OBSTRUCTED",  ABI_UNSUPPORTED  |-> "UNSUPPORTED",
   BRIDGE_PRESENT   |-> "PRESENT"]

Probe(root) ==
  [bridge  |-> BridgePosture(root),
   posture |-> ProbePosture[BridgePosture(root)],
   session |-> IF BridgePosture(root) = "BRIDGE_PRESENT"
                 THEN "SESSION_OBSTRUCTED" ELSE "NOT_OPENED"]

----------------------------------------------------------------------------
(* Paths relative to the root of the target *)

\* path.normalize: "." vanishes, and ".." takes the segment before it.
Normalized(segments) ==
  FoldLeft(LAMBDA path, segment :
             CASE segment = "." -> path
               [] segment = ".." /\ path # <<>> /\ Last(path) # ".." -> Front(path)
               [] OTHER -> Append(path, segment),
           <<>>, segments)

\* A blank path has no segments; normalised, "./" is not ".".
SafePath(path) ==
  /\ path.segments # <<>>
  /\ ~path.absolute
  /\ LET normalized == Normalized(path.segments)
     IN  IF normalized = <<>> THEN path.slash ELSE Head(normalized) # ".."

----------------------------------------------------------------------------
(* The manifest of published families *)

\* Every entry a known key, repetitions dropped; or no field list at all.
PublishedFields(manifest) ==
  {ToSet(fields) : fields \in
     {list \in manifest.fields : ToSet(list) \subseteq ToSet(FactKeys)}}

SoundArtifact(artifact) ==
  /\ artifact.known
  /\ artifact.schema # "OTHER"
  /\ \E path \in artifact.root : SafePath(path)
  /\ \E files \in artifact.files :
       /\ files # <<>>
       /\ \A k \in DOMAIN files : SafePath(files[k])

\* Mutant: artifacts that are not sound are dropped, not refused.
GeneratedArtifactsDropping(manifest) ==
  CASE manifest.artifacts = "ABSENT"    -> {<<>>}
    [] manifest.artifacts = "NOT_ARRAY" -> {}
    [] manifest.artifacts = "ARRAY"     ->
         {SelectSeq(manifest.list, SoundArtifact)}

GeneratedArtifacts(manifest) ==
  CASE manifest.artifacts = "ABSENT"    -> {<<>>}
    [] manifest.artifacts = "NOT_ARRAY" -> {}
    [] manifest.artifacts = "ARRAY"     ->
         {list \in {manifest.list} : \A k \in DOMAIN list : SoundArtifact(list[k])}

NoManifest(posture) == [posture |-> posture, published |-> {}, artifacts |-> <<>>]

FamilyManifest(root) ==
  IF ~root.there \/ root.intake.file = "ABSENT" THEN NoManifest("MISSING")
  ELSE IF root.intake.file # "OBJECT" THEN NoManifest("OBSTRUCTED")
  ELSE IF PublishedFields(root.intake) = {} \/ GeneratedArtifacts(root.intake) = {}
    THEN NoManifest("OBSTRUCTED")
  ELSE [posture   |-> "PRESENT",
        published |-> UNION PublishedFields(root.intake),
        artifacts |-> CHOOSE list \in GeneratedArtifacts(root.intake) : TRUE]

\* generatedFamilyIngress.ts builds a fact of one of three postures.
FamilyFact(field, posture, origin) ==
  [field |-> field, posture |-> posture, origin |-> origin, scope |-> "TARGET"]

IntakeFact(field, manifest) ==
  CASE manifest.posture = "OBSTRUCTED" -> FamilyFact(field, "OBSTRUCTED", "HOST_PUBLISHED")
    [] manifest.posture # "OBSTRUCTED" /\ field \in manifest.published ->
         FamilyFact(field, "PRESENT", "HOST_PUBLISHED")
    [] manifest.posture # "OBSTRUCTED" /\ field \notin manifest.published ->
         FamilyFact(field, "ABSENT", "UNAVAILABLE")

IntakePosture(manifest) ==
  CASE manifest.posture = "OBSTRUCTED" -> "OBSTRUCTED"
    [] manifest.posture # "OBSTRUCTED" /\ manifest.published # {} -> "PRESENT"
    [] manifest.posture # "OBSTRUCTED" /\ manifest.published = {} -> "UNAVAILABLE"

----------------------------------------------------------------------------
(* The generated artifacts *)

Located(artifact, file) ==
  Normalized((CHOOSE path \in artifact.root : TRUE).segments \o file.segments)

MissingFiles(root, artifact) ==
  LET files == CHOOSE list \in artifact.files : TRUE
  IN  {file \in ToSet(files) : Located(artifact, file) \notin root.files}

Consumption(root, artifacts) ==
  IF artifacts = <<>>
    THEN [consumer |-> "LOCAL_MIRROR_FALLBACK", artifact |-> "ABSENT", missing |-> {}]
    ELSE LET missing == UNION {MissingFiles(root, artifact) : artifact \in ToSet(artifacts)}
         IN  IF missing # {}
               THEN [consumer |-> "GENERATED_FAMILY_UNAVAILABLE",
                     artifact |-> "OBSTRUCTED", missing |-> missing]
               ELSE [consumer |-> "GENERATED_FAMILY_PRESENT",
                     artifact |-> "PRESENT", missing |-> missing]

FamilyIntake(root) ==
  LET manifest == FamilyManifest(root)
  IN  [manifest    |-> manifest.posture,
       posture     |-> IntakePosture(manifest),
       facts       |-> [k \in DOMAIN FactKeys |-> IntakeFact(FactKeys[k], manifest)],
       consumption |-> Consumption(root, manifest.artifacts)]
============================================================================
