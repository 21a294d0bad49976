----------------------------- MODULE LiveTargets -----------------------------
(***************************************************************************)
(* What is said of one target: its inspection (liveTargetInspection.ts),   *)
(* what happens to its session (liveTargetSessionInspection.ts), its       *)
(* runtime hello (runtimeHelloInspection.ts) and its discovery record      *)
(* (runtimeDiscovery.ts).                                                  *)
(*                                                                         *)
(* Wording is left out: a reason is its code.  disk maps a root path to    *)
(* what is found there.                                                    *)
(***************************************************************************)
EXTENDS RuntimeRegistry, EchoIntake

CONSTANTS
  DescriptorId,        \* DescriptorId[k]: made up for a descriptor without an id
  TargetsId,           \* the one target of a WARP_TTD_TARGETS_JSON not usable
  TargetsLabel

----------------------------------------------------------------------------
(* The descriptors *)

\* WARP_TTD_TARGETS_JSON holds a bare array of descriptors, read with the same
\* rules for their connections and no metadata.
DescriptorFromJson(raw, k) ==
  IF ~raw.object \/ raw.id = {}
    THEN Runtime(DescriptorId[k], {}, {}, Obstruction)
    ELSE Runtime(CHOOSE name \in raw.id : TRUE, raw.label, {},
                 ConnectionFromJson(raw.connection))

\* Mutant: the first of the descriptors that share an id is kept.
ObstructDuplicateIdsButFirst(descriptors) ==
  [k \in DOMAIN descriptors |->
     IF \E j \in 1 .. k - 1 : descriptors[j].id = descriptors[k].id
       THEN Runtime(descriptors[k].id, {}, {}, Obstruction)
       ELSE descriptors[k]]

\* A duplicate loses its label here too.
ObstructDuplicateIds(descriptors) ==
  [k \in DOMAIN descriptors |->
     IF descriptors[k].id \in DuplicateIds(descriptors)
       THEN Runtime(descriptors[k].id, {}, {}, Obstruction)
       ELSE descriptors[k]]

DescriptorsFromEnv(config) ==
  IF config.targets = {} THEN DefaultDescriptors(config)
  ELSE LET document == CHOOSE d \in config.targets : TRUE
       IN  IF document.shape = "RUNTIMES"
             THEN ObstructDuplicateIds(
                    [k \in DOMAIN document.entries |->
                       DescriptorFromJson(document.entries[k], k)])
             ELSE <<Runtime(TargetsId, {TargetsLabel}, {}, Obstruction)>>

----------------------------------------------------------------------------
(* inspectLiveTargets *)

RootPosture(connection, disk) ==
  CASE connection.root = {} -> "NOT_APPLICABLE"
    [] connection.root # {} /\ (\A path \in connection.root : disk[path].there) -> "PRESENT"
    [] connection.root # {} /\ (\E path \in connection.root : ~disk[path].there) -> "MISSING"

AdapterPostureFromProbe ==
  [PRESENT     |-> "CONFIGURED",  UNSUPPORTED |-> "UNSUPPORTED",
   OBSTRUCTED  |-> "OBSTRUCTED",  UNAVAILABLE |-> "UNAVAILABLE"]

Inspected(descriptor, disk, adapter, evidence, intake) ==
  [target   |-> descriptor.id,
   label    |-> descriptor.label,
   mode     |-> descriptor.connection.mode,
   root     |-> RootPosture(descriptor.connection, disk),
   graph    |-> descriptor.connection.graph,
   endpoint |-> descriptor.connection.endpoint,
   adapter  |-> adapter,
   evidence |-> evidence,
   intake   |-> intake]

InspectEchoRoot(descriptor, disk) ==
  LET found == disk[CHOOSE path \in descriptor.connection.root : TRUE]
  IN  Inspected(descriptor, disk, AdapterPostureFromProbe[Probe(found).posture],
                "UNAVAILABLE", {FamilyIntake(found)})

InspectGitWarp(descriptor, disk) ==
  Inspected(descriptor, disk, "CONFIGURED", "TRANSLATED_SUBSTRATE", {})

InspectDescriptorOnly(descriptor, disk) ==
  Inspected(descriptor, disk,
            IF descriptor.connection.posture = {"OBSTRUCTED"} THEN "OBSTRUCTED" ELSE "UNSUPPORTED",
            "UNAVAILABLE", {})

InspectDescriptor(descriptor, disk) ==
  CASE descriptor.connection.mode = "echo-root"       -> InspectEchoRoot(descriptor, disk)
    [] descriptor.connection.mode = "git-warp"        -> InspectGitWarp(descriptor, disk)
    [] descriptor.connection.mode = "descriptor-only" -> InspectDescriptorOnly(descriptor, disk)

----------------------------------------------------------------------------
(* inspectLiveTargetSessions *)

\* Only a git-warp target with a graph on a root that is there is opened.
SessionBegins(target) ==
  IF target.mode = "git-warp" /\ target.graph # {} /\ target.root = "PRESENT"
    THEN "OPENING" ELSE "OBSTRUCTED"

----------------------------------------------------------------------------
(* inspectRuntimeHello *)

Hello(posture, evidence) == [posture |-> posture, evidence |-> evidence]

EchoHello(target) ==
  CASE target.root = "MISSING" -> Hello("UNAVAILABLE", "UNAVAILABLE")
    [] target.root # "MISSING" /\ target.adapter \in {"OBSTRUCTED", "UNSUPPORTED"} ->
         Hello(target.adapter, target.evidence)
    [] target.root # "MISSING" /\ target.adapter \notin {"OBSTRUCTED", "UNSUPPORTED"} ->
         Hello("ABSENT", target.evidence)

GitWarpHello(target, session) ==
  CASE target.root = "MISSING" -> Hello("UNAVAILABLE", "UNAVAILABLE")
    [] target.root # "MISSING" /\ session = "OBSTRUCTED" -> Hello("OBSTRUCTED", "UNAVAILABLE")
    [] target.root # "MISSING" /\ session = "PRESENT" -> Hello("PRESENT", target.evidence)

DescriptorOnlyHello(target) == Hello(target.adapter, target.evidence)

RuntimeHello(target, session) ==
  CASE target.mode = "git-warp"        -> GitWarpHello(target, session)
    [] target.mode = "echo-root"       -> EchoHello(target)
    [] target.mode = "descriptor-only" -> DescriptorOnlyHello(target)

----------------------------------------------------------------------------
(* inspectRuntimeDiscovery *)

DiscoveryPostureByHello ==
  [PRESENT     |-> "REACHABLE",   ABSENT     |-> "ABSENT", UNAVAILABLE |-> "ABSENT",
   UNSUPPORTED |-> "UNSUPPORTED", OBSTRUCTED |-> "OBSTRUCTED"]

\* Mutant: the adapter's posture decides before the root's.
DiscoveryPostureAdapterFirst(target, hello) ==
  CASE target.adapter \in {"OBSTRUCTED", "UNSUPPORTED"} -> target.adapter
    [] target.adapter \notin {"OBSTRUCTED", "UNSUPPORTED"} ->
         DiscoveryPostureByHello[hello.posture]

DiscoveryPosture(target, hello) ==
  CASE target.root = "MISSING" -> "ABSENT"
    [] target.root # "MISSING" /\ target.adapter \in {"OBSTRUCTED", "UNSUPPORTED"} ->
         target.adapter
    [] target.root # "MISSING" /\ target.adapter \notin {"OBSTRUCTED", "UNSUPPORTED"} ->
         DiscoveryPostureByHello[hello.posture]

EndpointUnsupported(target) ==
  target.mode = "descriptor-only" /\ target.adapter = "UNSUPPORTED" /\ target.endpoint

TargetReason(target) ==
  CASE target.root = "MISSING" -> {"LOCAL_ROOT_MISSING"}
    [] target.root # "MISSING" /\ EndpointUnsupported(target) ->
         {"ENDPOINT_CONSENT_NOT_DESIGNED"}
    [] target.root # "MISSING" /\ ~EndpointUnsupported(target) /\ target.adapter = "UNSUPPORTED" ->
         {"DESCRIPTOR_UNSUPPORTED"}
    [] target.root # "MISSING" /\ target.adapter = "OBSTRUCTED" ->
         {"TARGET_DESCRIPTOR_OBSTRUCTED"}
    [] OTHER -> {}

\* Mutant: the redactions of the whole registry.
RedactionsOfAnyEntry(registry, k) == registry.redactions

RedactionsOf(registry, k) ==
  {redaction \in registry.redactions : redaction.entry = k}

\* An obstructed target is given the reasons of the whole registry.
RegistryReasons(registry, target) ==
  IF registry.posture = "OBSTRUCTED" /\ target.adapter = "OBSTRUCTED"
    THEN registry.reasons ELSE {}

DiscoveryRecord(target, hello, registry, k) ==
  [target     |-> target,
   hello      |-> hello,
   posture    |-> DiscoveryPosture(target, hello),
   evidence   |-> hello.evidence,
   consent    |-> IF EndpointUnsupported(target) THEN "DESIGN_DEFERRED" ELSE "NOT_REQUIRED",
   redactions |-> RedactionsOf(registry, k),
   reasons    |-> RegistryReasons(registry, target) \cup TargetReason(target)
                    \cup {hello.posture}
                    \cup {"REGISTRY_SECRET_FIELD_REDACTED" :
                             redaction \in RedactionsOf(registry, k)}]
============================================================================
