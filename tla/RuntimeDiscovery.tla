-------------------------- MODULE RuntimeDiscovery --------------------------
(***************************************************************************)
(* One inspection of the live targets: `discover`, `hello`, `sessions` or  *)
(* `targets`, from the command line or as an MCP tool.                     *)
(*                                                                         *)
(* discover looks at every target's root three times: for its own records, *)
(* again for the hellos and again for the sessions, which it then opens    *)
(* all together and awaits.  hello looks twice and sessions once.  Other   *)
(* programs change the disk meanwhile.  The several calls with which one   *)
(* target's root is looked at are one step.                                *)
(***************************************************************************)
EXTENDS LiveTargets

CONSTANTS
  Kinds,               \* the inspections asked for
  Configurations,      \* the environments and arguments they are asked with
  Disks,               \* what the roots may hold at first
  Contents,            \* what a root may come to hold
  MaxChanges           \* bound on the changes other programs make

Looks == [targets |-> 1, sessions |-> 1, hello |-> 2, discover |-> 3]

\* The paths of which the disk says what is there.
Roots == UNION {DOMAIN disk : disk \in Disks}

ASSUME InspectionAssumption ==
  /\ Kinds \subseteq DOMAIN Looks
  /\ MaxChanges \in Nat
  /\ Disks \subseteq [Roots -> Contents]
  /\ \A content \in Contents :
       /\ content.there \in BOOLEAN
       /\ content.probe.file \in {"ABSENT", "UNREADABLE", "NOT_OBJECT", "OBJECT"}

\* What is optional is a set of one element or none.
AtMostOne(S) == \A one, other \in S : one = other

\* An array of JSON, or the members of an object in the order of their names.
InOrder(list) == list \in Seq(ToSet(list))

\* Of each source there is one document at most; its entries, and the fields of
\* their metadata, are in order, and the roots it names are paths of the disk.
ASSUME DocumentAssumption ==
  \A config \in Configurations :
    /\ {JeditRoot, GraftRoot} \cup config.jedit \cup config.graft \subseteq Roots
    /\ AtMostOne(config.jedit) /\ AtMostOne(config.graft)
    /\ \A documents \in {config.cli, config.json, config.path, config.targets} :
         /\ AtMostOne(documents)
         /\ \A document \in documents :
              /\ InOrder(document.entries)
              /\ \A entry \in ToSet(document.entries) :
                   /\ InOrder(entry.metadata.fields)
                   /\ entry.connection.root \subseteq Roots
                   /\ AtMostOne(entry.connection.root)

\* A manifest without artifacts lists none; those it lists, the files they name
\* and the segments of a path are in order.
ASSUME ManifestAssumption ==
  \A content \in Contents :
    LET manifest == content.intake
    IN  /\ AtMostOne(manifest.fields)
        /\ \A fields \in manifest.fields : InOrder(fields)
        /\ manifest.artifacts \in {"ABSENT", "NOT_ARRAY", "ARRAY"}
        /\ manifest.artifacts = "ABSENT" => manifest.list = <<>>
        /\ InOrder(manifest.list)
        /\ \A artifact \in ToSet(manifest.list) :
             /\ AtMostOne(artifact.root) /\ AtMostOne(artifact.files)
             /\ \A root \in artifact.root : InOrder(root.segments)
             /\ \A files \in artifact.files :
                  InOrder(files) /\ \A file \in ToSet(files) : InOrder(file.segments)

VARIABLES
  disk,                \* path -> what is there
  changes,             \* how often it has changed
  call,                \* what was asked, and with which configuration
  registry,            \* the loaded registry; for the others one without entries
  descriptors,
  looks,               \* looks[r]: the targets as the r-th look found them
  sessions,            \* one for each target, once they are opened
  answer               \* the records given back, once they are: a set of one

vars == <<disk, changes, call, registry, descriptors, looks, sessions, answer>>

NoRegistry == Registry("DEFAULT", <<>>, {}, {})

Init ==
  /\ disk \in Disks
  /\ changes = 0
  /\ call \in [kind : Kinds, config : Configurations]
  /\ registry = NoRegistry
  /\ descriptors = <<>>
  /\ looks = <<>>
  /\ sessions = <<>>
  /\ answer = {}

\* The descriptors given to inspectLiveTargets have their duplicates
\* obstructed once more.
Load ==
  /\ looks = <<>>
  /\ registry' = IF call.kind = "discover" THEN LoadRegistry(call.config) ELSE NoRegistry
  /\ descriptors' = ObstructDuplicateIds(
       IF call.kind = "discover" THEN registry'.runtimes ELSE DescriptorsFromEnv(call.config))
  /\ looks' = [r \in 1 .. Looks[call.kind] |-> <<>>]
  /\ UNCHANGED <<disk, changes, call, sessions, answer>>

Looked(r) == Len(looks[r]) = Len(descriptors)

Look ==
  \E r \in DOMAIN looks :
    /\ ~Looked(r)
    /\ \A q \in 1 .. r - 1 : Looked(q)
    /\ looks' = [looks EXCEPT ![r] =
         Append(@, InspectDescriptor(descriptors[Len(@) + 1], disk))]
    /\ UNCHANGED <<disk, changes, call, registry, descriptors, sessions, answer>>

AllLooked == looks # <<>> /\ \A r \in DOMAIN looks : Looked(r)

Begin ==
  /\ AllLooked
  /\ sessions = <<>>
  /\ descriptors # <<>>
  /\ call.kind # "targets"
  /\ sessions' = [k \in DOMAIN descriptors |-> SessionBegins(looks[Len(looks)][k])]
  /\ UNCHANGED <<disk, changes, call, registry, descriptors, looks, answer>>

\* resolveAdapter and DebuggerSession.create, for one target among those
\* opened together; a failure is caught and is that target's alone.
Settle(k, posture) ==
  /\ sessions[k] = "OPENING"
  /\ sessions' = [sessions EXCEPT ![k] = posture]
  /\ UNCHANGED <<disk, changes, call, registry, descriptors, looks, answer>>

Opened(k)  == Settle(k, "PRESENT")

\* Mutant: a session that fails to open is lost.
RefusedUncaught(k) ==
  /\ sessions[k] = "OPENING"
  /\ sessions' = [sessions EXCEPT ![k] = "REJECTED"]
  /\ UNCHANGED <<disk, changes, call, registry, descriptors, looks, answer>>

Refused(k) == Settle(k, "OBSTRUCTED")

\* Mutant: one session that is refused rejects the whole inspection.
AwaitedAllPresent ==
  /\ AllLooked
  /\ call.kind = "targets" \/ Len(sessions) = Len(descriptors)
  /\ \A k \in DOMAIN sessions :
       sessions[k] = "PRESENT" \/ looks[Len(looks)][k].mode # "git-warp"

Awaited ==
  /\ AllLooked
  /\ call.kind = "targets" \/ Len(sessions) = Len(descriptors)
  /\ \A k \in DOMAIN sessions : sessions[k] \in {"PRESENT", "OBSTRUCTED"}

HelloTo(k) == RuntimeHello(looks[Len(looks) - 1][k], sessions[k])

Records ==
  [k \in DOMAIN descriptors |->
     CASE call.kind = "targets"  -> looks[1][k]
       [] call.kind = "sessions" -> [target |-> looks[1][k], session |-> sessions[k]]
       [] call.kind = "hello"    -> HelloTo(k)
       [] call.kind = "discover" ->
            DiscoveryRecord(looks[1][k], HelloTo(k), registry, k)]

Answer ==
  /\ Awaited
  /\ answer = {}
  /\ answer' = {Records}
  /\ UNCHANGED <<disk, changes, call, registry, descriptors, looks, sessions>>

\* Another program creates, fills or removes a root.
DiskChanges(path) ==
  /\ changes < MaxChanges
  /\ changes' = changes + 1
  /\ \E content \in Contents \ {disk[path]} : disk' = [disk EXCEPT ![path] = content]
  /\ UNCHANGED <<call, registry, descriptors, looks, sessions, answer>>

Next ==
  \/ Load \/ Look \/ Begin \/ Answer
  \/ \E k \in DOMAIN sessions : Opened(k) \/ Refused(k)
  \/ \E path \in DOMAIN disk : DiskChanges(path)

\* The loop that looks at the targets does not stop, and a promise to open a
\* session settles one way or the other.
Fairness ==
  /\ WF_vars(Load \/ Look \/ Begin \/ Answer)
  /\ WF_vars(\E k \in DOMAIN sessions : Opened(k) \/ Refused(k))

Spec == Init /\ [][Next]_vars /\ Fairness
----------------------------------------------------------------------------
(* What an inspection promises, said of the document it was asked about *)

\* The documents in use: none for the built-in targets.
Documents ==
  LET config == call.config
  IN  CASE call.kind # "discover" -> config.targets
        [] call.kind = "discover" /\ config.cli # {} -> config.cli
        [] call.kind = "discover" /\ config.cli = {} /\ config.json # {} -> config.json
        [] call.kind = "discover" /\ config.cli = {} /\ config.json = {} -> config.path

\* The entries of each document that has a list of them.
EntryLists == {d.entries : d \in {e \in Documents : e.shape = "RUNTIMES"}}

IdOf(entries, k) ==
  IF entries[k].object /\ entries[k].id # {} THEN CHOOSE id \in entries[k].id : TRUE
  ELSE IF call.kind = "discover" THEN EntryId[k] ELSE DescriptorId[k]

Unique(entries, k) == \A j \in DOMAIN entries : IdOf(entries, j) = IdOf(entries, k) => j = k

Invalid(field) == ~field.secret /\ ~field.scalar

MetadataSound(entry) ==
  \/ entry.metadata.kind = "ABSENT"
  \/ /\ entry.metadata.kind = "OBJECT"
     /\ \A i \in DOMAIN entry.metadata.fields : ~Invalid(entry.metadata.fields[i])

\* An entry that says all it takes to open a git-warp session.
Openable(entries, k) ==
  LET entry == entries[k]
      Given(member) == entry.connection[member] # {}
  IN  /\ entry.object /\ entry.id # {} /\ Unique(entries, k)
      /\ entry.connection.object /\ entry.connection.mode = {"git-warp"}
      /\ Given("root") /\ Given("graph")
      /\ call.kind = "discover" => MetadataSound(entry)

RootPostures    == {"PRESENT", "MISSING", "NOT_APPLICABLE"}
AdapterPostures == {"CONFIGURED", "UNAVAILABLE", "UNSUPPORTED", "OBSTRUCTED"}

TypeOK ==
  /\ \A path \in DOMAIN disk : disk[path] \in Contents
  /\ changes \in 0 .. MaxChanges
  /\ \A r \in DOMAIN looks :
       /\ Len(looks[r]) \leq Len(descriptors)
       /\ \A k \in DOMAIN looks[r] :
            /\ looks[r][k].target = descriptors[k].id
            /\ looks[r][k].root \in RootPostures
            /\ looks[r][k].adapter \in AdapterPostures
  /\ sessions # <<>> =>
       sessions \in [DOMAIN descriptors -> {"OPENING", "PRESENT", "OBSTRUCTED"}]
  /\ \A records \in answer : DOMAIN records = DOMAIN descriptors

\* A target is REACHABLE exactly when its own entry is sound, its root was
\* there whenever it was looked at and its session was opened: no defect of an
\* entry gets through normalisation, and none costs another target its record
\* (from normalizeRuntimeRegistry to discoveryRecord).
ReachableExactly ==
  call.kind = "discover" =>
    \A records \in answer, entries \in EntryLists :
      \A k \in DOMAIN entries :
        records[k].posture = "REACHABLE" <=>
          /\ Openable(entries, k)
          /\ \A r \in 1 .. 2 : looks[r][k].root = "PRESENT"
          /\ sessions[k] = "PRESENT"

\* No session is opened for a target that another one shares its id with, and
\* all of them are obstructed, the first too and an entry that happens to have
\* the id made up for another (duplicateRuntimeIds, obstructDuplicateIds).
DuplicatesObstructed ==
  \A entries \in EntryLists :
    \A k \in DOMAIN entries :
      ~Unique(entries, k) =>
        /\ sessions # <<>> => sessions[k] = "OBSTRUCTED"
        /\ \A records \in answer :
             /\ call.kind = "targets"  => records[k].adapter = "OBSTRUCTED"
             /\ call.kind = "hello"    => records[k].posture = "OBSTRUCTED"
             /\ call.kind = "discover" => records[k].posture = "OBSTRUCTED"

\* A record and the hello it carries come to the same verdict when the target was
\* found alike the two times, though each has looked at the root by itself.  The
\* one exception is a descriptor-only target whose root is missing: the record
\* says ABSENT, its hello what the descriptor says.  When the root came or went
\* or changed in between, the two may differ, but the record calls no target
\* REACHABLE whose hello does not answer, and one whose hello does answer is
\* REACHABLE unless the record's own look missed the root (discoveryPosture,
\* discoveryPostureFromTarget, DISCOVERY_POSTURE_BY_HELLO).
RecordAgreesWithHello ==
  call.kind = "discover" =>
    \A records \in answer :
      \A k \in DOMAIN records :
        LET record  == records[k]
            missing == record.target.root = "MISSING"
        IN  /\ looks[2][k] = record.target =>
                 record.posture = IF record.target.mode = "descriptor-only" /\ missing
                                    THEN "ABSENT"
                                    ELSE DiscoveryPostureByHello[record.hello.posture]
            /\ record.posture = "REACHABLE" => record.hello.posture = "PRESENT"
            /\ record.hello.posture = "PRESENT" => record.posture = "REACHABLE" \/ missing

\* What is wrong with an entry by itself.
OwnDefects(entry) ==
  LET connection == entry.connection
  IN  CASE ~entry.object -> {"REGISTRY_ENTRY_NOT_OBJECT"}
        [] entry.object /\ entry.id = {} -> {"REGISTRY_ENTRY_ID_INVALID"}
        [] entry.object /\ entry.id # {} /\ ~MetadataSound(entry) ->
             {"REGISTRY_ENTRY_METADATA_INVALID"}
        [] entry.object /\ entry.id # {} /\ MetadataSound(entry) ->
             IF \/ ~connection.object \/ connection.mode = {}
                \/ /\ connection.mode = {"git-warp"}
                   /\ connection.root = {} \/ connection.graph = {}
               THEN {"REGISTRY_ENTRY_CONNECTION_OBSTRUCTED"} ELSE {}

EntryCodes ==
  {"REGISTRY_ENTRY_NOT_OBJECT", "REGISTRY_ENTRY_ID_INVALID",
   "REGISTRY_ENTRY_METADATA_INVALID", "REGISTRY_ENTRY_CONNECTION_OBSTRUCTED",
   "REGISTRY_DUPLICATE_ID"}

\* A record names what was redacted from its own entry, whatever the others
\* hold: every secret-like field of the connection, and those of the metadata
\* up to the first field that makes it invalid; none of them is kept.  It names
\* what is wrong with its entry, an id that is not its own included, and the
\* record of an entry that can be opened names no other entry's defect.  Of the
\* rest this is not promised: every obstructed target is given the reasons of
\* the whole registry (connectionRedactedFieldsFromJson, metadataFieldsFromJson,
\* redactionForIndex, registryReasons).
DefectsNamed ==
  call.kind = "discover" =>
    \A records \in answer, entries \in EntryLists :
      \A k \in DOMAIN entries :
        LET fields  == entries[k].metadata.fields
            secrets == {i \in DOMAIN fields : fields[i].secret}
            Named(part, names) ==
              {[entry |-> k, part |-> part, name |-> name] : name \in names}
        IN  /\ ~Unique(entries, k) => "REGISTRY_DUPLICATE_ID" \in records[k].reasons
            /\ OwnDefects(entries[k]) \subseteq records[k].reasons
            /\ Openable(entries, k) => records[k].reasons \cap EntryCodes = {}
            /\ entries[k].object =>
                 /\ records[k].redactions =
                      Named("connection", entries[k].connection.secrets)
                      \cup Named("metadata",
                             {fields[i].name : i \in
                                {j \in secrets : \A h \in 1 .. j : ~Invalid(fields[h])}})
                 /\ \A i \in secrets : fields[i] \notin registry.runtimes[k].metadata

\* The files an artifact names, as paths under the root of the target.
NamedFiles(artifact) ==
  UNION {{Normalized(root.segments \o files[i].segments) : i \in DOMAIN files} :
           root \in artifact.root, files \in artifact.files}

\* What a root bears out of what is said of its families: a manifest with a
\* defect anywhere is not used in part, a fact is PRESENT when the manifest lists
\* it and not otherwise, and the artifacts are when each file they name is there,
\* under the root.
BearsOut(content, intake) ==
  LET list     == content.intake.list
      required == UNION {NamedFiles(artifact) : artifact \in ToSet(list)}
      Listed(field) == \E fields \in content.intake.fields : Contains(fields, field)
      Claimed(artifact) == intake.consumption.artifact = artifact
  IN  /\ \A i \in DOMAIN FactKeys :
           intake.facts[i].posture = "PRESENT" <=>
             intake.posture = "PRESENT" /\ Listed(FactKeys[i])
      /\ Claimed("PRESENT") => required \subseteq content.files
      /\ Claimed("OBSTRUCTED") => ~(required \subseteq content.files)
      /\ ~Claimed("ABSENT") => \A file \in required : file = <<>> \/ Head(file) # ".."
      /\ Claimed("ABSENT") /\ intake.manifest = "PRESENT" => list = <<>>
      /\ intake.manifest # "PRESENT" =>
           Claimed("ABSENT") /\ intake.posture # "PRESENT"

\* What is said of the families an Echo root publishes is what its manifest and
\* its files bear out (inspectLiveEchoFamilyIntake,
\* inspectSharedFamilyConsumption).
IntakeTruthful ==
  changes = 0 =>
    \A r \in DOMAIN looks : \A k \in DOMAIN looks[r] :
      \A intake \in looks[r][k].intake, path \in descriptors[k].connection.root :
        BearsOut(disk[path], intake)

\* Every inspection is answered, whichever sessions fail to open.
InspectionEnds == <>(answer # {})
============================================================================
