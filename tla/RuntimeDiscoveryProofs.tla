----------------------- MODULE RuntimeDiscoveryProofs -----------------------
(***************************************************************************)
(* What an inspection reports, for every registry, any number of targets,  *)
(* any contents of the disk and any order in which the sessions opened for *)
(* it settle.                                                              *)
(***************************************************************************)
EXTENDS RuntimeDiscovery, SequenceLemmas

Modes == {"echo-root", "git-warp", "descriptor-only"}

----------------------------------------------------------------------------
(* Normalisation *)

\* A connection as normalisation makes them, to roots among paths.
Connects(connection, paths) ==
  /\ connection.mode \in Modes
  /\ connection.root \subseteq paths /\ AtMostOne(connection.root)
  /\ connection.mode = "echo-root" => connection.root # {}

LEMMA ObstructionConnects ==
  ASSUME NEW paths
  PROVE  Connects(Obstruction, paths) /\ Obstruction.mode = "descriptor-only"
BY DEF Obstruction, Connection, Connects, Modes, AtMostOne

LEMMA NormalizedConnects ==
  ASSUME NEW raw, NEW paths, raw.root \subseteq paths, AtMostOne(raw.root)
  PROVE  Connects(ConnectionFromJson(raw), paths)
<1>1. Connects(ConnectionForMode(raw), paths)
  BY ObstructionConnects
  DEF ConnectionForMode, Connection, Unsupported, Connects, Modes, AtMostOne
<1> QED BY <1>1, ObstructionConnects DEF ConnectionFromJson

\* Only a mode, a root and a graph make a git-warp connection.
LEMMA GitWarpConnections ==
  ASSUME NEW raw
  PROVE  LET connection == ConnectionFromJson(raw)
         IN  /\ connection.mode = "git-warp" <=>
                  /\ raw.object /\ raw.mode = {"git-warp"}
                  /\ raw.root # {} /\ raw.graph # {}
             /\ connection.mode = "git-warp" => connection.root # {} /\ connection.graph # {}
BY DEF ConnectionFromJson, ConnectionForMode, Connection, Unsupported, Obstruction

\* An id is a duplicate exactly when another entry has it, before or after.
LEMMA DuplicateIdsAre ==
  ASSUME NEW n \in Nat, NEW ds, DOMAIN ds = 1 .. n, NEW k \in 1 .. n
  PROVE  ds[k].id \in DuplicateIds(ds) <=>
           \E j \in 1 .. n : j # k /\ ds[j].id = ds[k].id
<1>1. ASSUME NEW j \in 1 .. n, j # k, ds[j].id = ds[k].id
      PROVE  ds[k].id \in DuplicateIds(ds)
  <2>1. CASE j < k
    BY <1>1, <2>1 DEF DuplicateIds
  <2>2. CASE k < j
    BY <1>1, <2>2 DEF DuplicateIds
  <2> QED BY <1>1, <2>1, <2>2
<1>2. ASSUME ds[k].id \in DuplicateIds(ds)
      PROVE  \E j \in 1 .. n : j # k /\ ds[j].id = ds[k].id
  <2>1. PICK j \in 1 .. n :
          ds[j].id = ds[k].id /\ \E i \in 1 .. j - 1 : ds[i].id = ds[j].id
    BY <1>2 DEF DuplicateIds
  <2>2. PICK i \in 1 .. j - 1 : ds[i].id = ds[j].id
    BY <2>1
  <2>3. i \in 1 .. n /\ i # j
    OBVIOUS
  <2> QED BY <2>1, <2>2, <2>3
<1> QED BY <1>1, <1>2

\* Obstructing duplicates keeps ids and places.
LEMMA IdsObstructed ==
  ASSUME NEW n \in Nat, NEW ds, DOMAIN ds = 1 .. n
  PROVE  LET kept == ObstructDuplicateIds(ds)
         IN  /\ DOMAIN kept = 1 .. n
             /\ \A k \in 1 .. n :
                  /\ kept[k].id = ds[k].id
                  /\ IF \E j \in 1 .. n : j # k /\ ds[j].id = ds[k].id
                       THEN kept[k].connection = Obstruction ELSE kept[k] = ds[k]
BY DuplicateIdsAre DEF ObstructDuplicateIds, Runtime

LEMMA RuntimesObstructed ==
  ASSUME NEW n \in Nat, NEW ds, DOMAIN ds = 1 .. n,
         \A k \in 1 .. n : "connection" \in DOMAIN ds[k]
  PROVE  LET kept == ObstructDuplicates(ds)
         IN  /\ DOMAIN kept = 1 .. n
             /\ \A k \in 1 .. n :
                  /\ kept[k].id = ds[k].id
                  /\ IF \E j \in 1 .. n : j # k /\ ds[j].id = ds[k].id
                       THEN kept[k].connection = Obstruction ELSE kept[k] = ds[k]
BY DuplicateIdsAre DEF ObstructDuplicates

\* What normalisation makes of one entry, whatever is in the others.
Normal(entries) == [k \in DOMAIN entries |-> EntryFromJson(entries[k], k).runtime]

LEMMA RegistryRuntimes ==
  ASSUME NEW source, NEW runtimes, NEW redactions, NEW reasons
  PROVE  Registry(source, runtimes, redactions, reasons).runtimes = runtimes
BY DEF Registry

LEMMA EntriesNormalised ==
  ASSUME NEW source, NEW entries
  PROVE  FromEntries(source, entries).runtimes = ObstructDuplicates(Normal(entries))
<1> DEFINE normalized == [k \in DOMAIN entries |-> EntryFromJson(entries[k], k)]
           runtimes   == [k \in DOMAIN entries |-> normalized[k].runtime]
<1>1. FromEntries(source, entries).runtimes = ObstructDuplicates(runtimes)
  BY RegistryRuntimes DEF FromEntries
<1> HIDE DEF normalized
<1>2. \A k \in DOMAIN entries : normalized[k] = EntryFromJson(entries[k], k)
  BY DEF normalized
<1>3. runtimes = Normal(entries)
  BY <1>2 DEF Normal
<1> QED BY <1>1, <1>3

LEMMA EntryRuntime ==
  ASSUME NEW raw, NEW k
  PROVE  LET runtime == EntryFromJson(raw, k).runtime
         IN  /\ "connection" \in DOMAIN runtime
             /\ runtime.id = IF raw.object /\ raw.id # {}
                               THEN CHOOSE id \in raw.id : TRUE ELSE EntryId[k]
             /\ runtime.connection =
                  IF raw.object /\ raw.id # {} /\ Metadata(raw.metadata).valid
                    THEN ConnectionFromJson(raw.connection) ELSE Obstruction
BY DEF EntryFromJson, Normalization, Runtime

----------------------------------------------------------------------------
(* The descriptors of an inspection *)

WellMade(ds, paths) ==
  \E n \in Nat : DOMAIN ds = 1 .. n /\ \A k \in 1 .. n : Connects(ds[k].connection, paths)

RootsIn(entries, paths) ==
  \A entry \in ToSet(entries) :
    entry.connection.root \subseteq paths /\ AtMostOne(entry.connection.root)

LEMMA EntriesWellMade ==
  ASSUME NEW entries, entries \in Seq(ToSet(entries)),
         NEW paths, RootsIn(entries, paths), NEW source
  PROVE  WellMade(FromEntries(source, entries).runtimes, paths)
<1> DEFINE n == Len(entries)
           ds == Normal(entries)
<1>1. n \in Nat /\ DOMAIN entries = 1 .. n /\ \A k \in 1 .. n : entries[k] \in ToSet(entries)
  BY LenProperties, ElementOfSeq
<1>2. /\ DOMAIN ds = 1 .. n
      /\ \A k \in 1 .. n : ds[k] = EntryFromJson(entries[k], k).runtime
  BY <1>1 DEF Normal
<1> HIDE DEF n, ds
<1>3. ASSUME NEW k \in 1 .. n
      PROVE  "connection" \in DOMAIN ds[k] /\ Connects(ds[k].connection, paths)
  <2> DEFINE runtime == EntryFromJson(entries[k], k).runtime
  <2>1. /\ "connection" \in DOMAIN runtime
        /\ runtime.connection \in {ConnectionFromJson(entries[k].connection), Obstruction}
    BY EntryRuntime
  <2>2. ds[k] = runtime
    BY <1>2
  <2> HIDE DEF runtime
  <2>3. Connects(ConnectionFromJson(entries[k].connection), paths)
    BY <1>1, NormalizedConnects DEF RootsIn
  <2> QED BY <2>1, <2>2, <2>3, ObstructionConnects
<1>4. DOMAIN ObstructDuplicates(ds) = 1 .. n
      /\ \A k \in 1 .. n : Connects(ObstructDuplicates(ds)[k].connection, paths)
  BY <1>1, <1>2, <1>3, RuntimesObstructed, ObstructionConnects
<1> QED BY <1>1, <1>4, EntriesNormalised DEF WellMade, ds

\* A document that is not usable makes one runtime, obstructed.
LEMMA OneObstructed ==
  ASSUME NEW id, NEW label, NEW paths
  PROVE  WellMade(<<Runtime(id, {label}, {}, Obstruction)>>, paths)
<1> DEFINE only == <<Runtime(id, {label}, {}, Obstruction)>>
<1>1. DOMAIN only = 1 .. 1 /\ only[1].connection = Obstruction
  BY DEF Runtime
<1> HIDE DEF only
<1>2. WellMade(only, paths)
  BY <1>1, ObstructionConnects DEF WellMade
<1> QED BY <1>2 DEF only

LEMMA DocumentWellMade ==
  ASSUME NEW document, document.entries \in Seq(ToSet(document.entries)),
         NEW paths, RootsIn(document.entries, paths), NEW source
  PROVE  WellMade(NormalizeRuntimeRegistry(document, source).runtimes, paths)
<1>1. CASE document.shape = "RUNTIMES"
  BY <1>1, EntriesWellMade DEF NormalizeRuntimeRegistry
<1>2. CASE document.shape # "RUNTIMES"
  <2>1. NormalizeRuntimeRegistry(document, source).runtimes =
          <<Runtime(RegistryId, {RegistryLabel}, {}, Obstruction)>>
    BY <1>2, RegistryRuntimes DEF NormalizeRuntimeRegistry, ObstructedRegistry
  <2> QED BY <2>1, OneObstructed
<1> QED BY <1>1, <1>2

LEMMA DefaultWellMade ==
  ASSUME NEW config, NEW paths,
         {JeditRoot, GraftRoot} \cup config.jedit \cup config.graft \subseteq paths,
         AtMostOne(config.jedit), AtMostOne(config.graft)
  PROVE  WellMade(DefaultDescriptors(config), paths)
<1> DEFINE ds == DefaultDescriptors(config)
<1>1. DOMAIN ds = 1 .. 2
  BY DEF DefaultDescriptors
<1>2. /\ ds[1].connection =
           Connection("echo-root", Configured(config.jedit, {JeditRoot}), {}, {}, FALSE)
      /\ ds[2].connection =
           Connection("git-warp", Configured(config.graft, {GraftRoot}), {GraftGraph}, {}, FALSE)
  BY DEF DefaultDescriptors, Runtime
<1> HIDE DEF ds
<1>3. Connects(ds[1].connection, paths)
  BY <1>2 DEF Connection, Configured, Connects, Modes, AtMostOne
<1>4. Connects(ds[2].connection, paths)
  BY <1>2 DEF Connection, Configured, Connects, Modes, AtMostOne
<1>5. WellMade(ds, paths)
  <2>1. \A k \in 1 .. 2 : Connects(ds[k].connection, paths)
    BY <1>3, <1>4
  <2> QED BY <1>1, <2>1 DEF WellMade
<1> QED BY <1>5 DEF ds

LEMMA RegistryWellMade ==
  ASSUME NEW config \in Configurations
  PROVE  WellMade(LoadRegistry(config).runtimes, Roots)
<1>1. ASSUME NEW documents \in {config.cli, config.json, config.path}, documents # {},
             NEW source
      PROVE  WellMade(NormalizeRuntimeRegistry(CHOOSE d \in documents : TRUE, source).runtimes,
                      Roots)
  <2>1. PICK document \in documents : document = CHOOSE d \in documents : TRUE
    BY <1>1
  <2>2. /\ document.entries \in Seq(ToSet(document.entries))
        /\ RootsIn(document.entries, Roots)
    BY DocumentAssumption DEF RootsIn, InOrder
  <2> QED BY <2>1, <2>2, DocumentWellMade
<1>2. WellMade(Registry("DEFAULT", DefaultDescriptors(config), {}, {}).runtimes, Roots)
  BY RegistryRuntimes, DefaultWellMade, DocumentAssumption
<1> QED BY <1>1, <1>2 DEF LoadRegistry

LEMMA ObstructedWellMade ==
  ASSUME NEW ds, NEW paths, WellMade(ds, paths)
  PROVE  WellMade(ObstructDuplicateIds(ds), paths)
<1>1. PICK n \in Nat : DOMAIN ds = 1 .. n /\ \A k \in 1 .. n : Connects(ds[k].connection, paths)
  BY DEF WellMade
<1>2. /\ DOMAIN ObstructDuplicateIds(ds) = 1 .. n
      /\ \A k \in 1 .. n : Connects(ObstructDuplicateIds(ds)[k].connection, paths)
  BY <1>1, IdsObstructed, ObstructionConnects
<1> QED BY <1>2 DEF WellMade

\* The descriptors of a document of targets, before duplicates are obstructed.
Listed(entries) == [k \in DOMAIN entries |-> DescriptorFromJson(entries[k], k)]

LEMMA DescriptorIs ==
  ASSUME NEW raw, NEW k
  PROVE  LET descriptor == DescriptorFromJson(raw, k)
         IN  /\ descriptor.id = IF raw.object /\ raw.id # {}
                                  THEN CHOOSE id \in raw.id : TRUE ELSE DescriptorId[k]
             /\ descriptor.connection =
                  IF raw.object /\ raw.id # {}
                    THEN ConnectionFromJson(raw.connection) ELSE Obstruction
BY DEF DescriptorFromJson, Runtime

LEMMA ListedWellMade ==
  ASSUME NEW entries, entries \in Seq(ToSet(entries)), NEW paths, RootsIn(entries, paths)
  PROVE  WellMade(Listed(entries), paths)
<1>1. Len(entries) \in Nat /\ DOMAIN entries = 1 .. Len(entries)
  BY LenProperties
<1>2. ASSUME NEW k \in DOMAIN entries
      PROVE  Connects(Listed(entries)[k].connection, paths)
  <2> DEFINE raw        == entries[k]
             descriptor == DescriptorFromJson(raw, k)
  <2>1. descriptor.connection \in {ConnectionFromJson(raw.connection), Obstruction}
    BY DescriptorIs
  <2>2. Listed(entries)[k] = descriptor
    BY DEF Listed
  <2>3. Connects(ConnectionFromJson(raw.connection), paths)
    <3>1. raw \in ToSet(entries)
      BY <1>1, ElementOfSeq
    <3> QED BY <3>1, NormalizedConnects DEF RootsIn
  <2> HIDE DEF descriptor
  <2> QED BY <2>1, <2>2, <2>3, ObstructionConnects
<1>3. DOMAIN Listed(entries) = 1 .. Len(entries)
  BY <1>1 DEF Listed
<1> QED BY <1>1, <1>2, <1>3 DEF WellMade

LEMMA TargetsWellMade ==
  ASSUME NEW config \in Configurations
  PROVE  WellMade(DescriptorsFromEnv(config), Roots)
<1> DEFINE document == CHOOSE d \in config.targets : TRUE
<1>1. CASE config.targets = {}
  BY <1>1, DefaultWellMade, DocumentAssumption DEF DescriptorsFromEnv
<1>2. CASE config.targets # {} /\ document.shape = "RUNTIMES"
  <2>1. /\ document.entries \in Seq(ToSet(document.entries))
        /\ RootsIn(document.entries, Roots)
    BY <1>2, DocumentAssumption DEF RootsIn, InOrder
  <2>2. WellMade(Listed(document.entries), Roots)
    BY <2>1, ListedWellMade
  <2>3. DescriptorsFromEnv(config) = ObstructDuplicateIds(Listed(document.entries))
    BY <1>2 DEF DescriptorsFromEnv, Listed
  <2> QED BY <2>2, <2>3, ObstructedWellMade
<1>3. CASE config.targets # {} /\ document.shape # "RUNTIMES"
  <2>1. DescriptorsFromEnv(config) = <<Runtime(TargetsId, {TargetsLabel}, {}, Obstruction)>>
    BY <1>3 DEF DescriptorsFromEnv
  <2> QED BY <2>1, OneObstructed
<1> QED BY <1>1, <1>2, <1>3

\* The descriptors as they are before duplicates are obstructed for good.
Given ==
  IF call.kind = "discover" THEN LoadRegistry(call.config).runtimes
                            ELSE DescriptorsFromEnv(call.config)

Loaded == ObstructDuplicateIds(Given)

RegistryInUse == IF call.kind = "discover" THEN LoadRegistry(call.config) ELSE NoRegistry

\* Obstructing once more makes a sequence of as many descriptors.
LEMMA LoadedWellMade ==
  ASSUME call \in [kind : Kinds, config : Configurations]
  PROVE  /\ Loaded \in Seq({Loaded[k] : k \in DOMAIN Loaded})
         /\ Len(Loaded) \in Nat
         /\ DOMAIN Loaded = 1 .. Len(Loaded)
         /\ \A k \in DOMAIN Loaded : Connects(Loaded[k].connection, Roots)
<1>1. WellMade(Given, Roots)
  BY RegistryWellMade, TargetsWellMade DEF Given
<1>2. PICK n \in Nat : /\ DOMAIN Loaded = 1 .. n
                       /\ \A k \in 1 .. n : Connects(Loaded[k].connection, Roots)
  BY <1>1, ObstructedWellMade DEF Loaded, WellMade
<1>3. Loaded \in [DOMAIN Loaded -> {Loaded[k] : k \in DOMAIN Loaded}]
  BY DEF Loaded, ObstructDuplicateIds
<1>4. Loaded \in Seq({Loaded[k] : k \in DOMAIN Loaded})
  BY <1>2, <1>3, SeqDef
<1> QED BY <1>2, <1>4, LenProperties

----------------------------------------------------------------------------
(* What one look at a target shows *)

LEMMA SightingIs ==
  ASSUME NEW descriptor, descriptor.connection.mode \in Modes, NEW d
  PROVE  LET sighting == InspectDescriptor(descriptor, d)
         IN  /\ sighting.mode = descriptor.connection.mode
             /\ sighting.root = RootPosture(descriptor.connection, d)
             /\ sighting.graph = descriptor.connection.graph
             /\ descriptor.connection.mode = "git-warp" => sighting.adapter = "CONFIGURED"
             /\ descriptor.connection.mode = "descriptor-only" =>
                  sighting.adapter = IF descriptor.connection.posture = {"OBSTRUCTED"}
                                       THEN "OBSTRUCTED" ELSE "UNSUPPORTED"
BY DEF InspectDescriptor, InspectEchoRoot, InspectGitWarp, InspectDescriptorOnly, Inspected, Modes

LEMMA RootPosturesAre ==
  ASSUME NEW connection, NEW d
  PROVE  /\ connection.root = {} <=> RootPosture(connection, d) = "NOT_APPLICABLE"
         /\ RootPosture(connection, d) \in RootPostures
BY DEF RootPosture, RootPostures

----------------------------------------------------------------------------
(* The invariant of an inspection *)

IsSequence(s) == \E S : s \in Seq(S)

LookedWell(r) ==
  /\ IsSequence(looks[r])
  /\ Len(looks[r]) \leq Len(descriptors)
  /\ \A k \in 1 .. Len(looks[r]) :
       /\ \E d \in [Roots -> Contents] :
            looks[r][k] = InspectDescriptor(descriptors[k], d)
       /\ changes = 0 => looks[r][k] = InspectDescriptor(descriptors[k], disk)

SessionsFit ==
  sessions # <<>> =>
    /\ AllLooked
    /\ sessions \in [DOMAIN descriptors -> {"OPENING", "PRESENT", "OBSTRUCTED"}]
    /\ \A k \in DOMAIN sessions :
         SessionBegins(looks[Len(looks)][k]) = "OBSTRUCTED" => sessions[k] = "OBSTRUCTED"

LooksFit ==
  looks # <<>> =>
    /\ registry = RegistryInUse
    /\ descriptors = Loaded
    /\ IsSequence(looks)
    /\ Len(looks) = Looks[call.kind]
    /\ \A r \in 1 .. Len(looks) : LookedWell(r)

AnswerFits ==
  /\ answer \subseteq {Records}
  /\ answer # {} => Awaited

InspectionInv ==
  /\ call \in [kind : Kinds, config : Configurations]
  /\ disk \in [Roots -> Contents]
  /\ changes \in 0 .. MaxChanges
  /\ looks = <<>> => sessions = <<>> /\ answer = {}
  /\ LooksFit
  /\ SessionsFit
  /\ AnswerFits

LEMMA SequenceFacts ==
  ASSUME NEW s, IsSequence(s)
  PROVE  Len(s) \in Nat /\ DOMAIN s = 1 .. Len(s)
BY LenProperties DEF IsSequence

LEMMA SequenceAppended ==
  ASSUME NEW s, IsSequence(s), NEW e
  PROVE  /\ IsSequence(Append(s, e))
         /\ Len(Append(s, e)) = Len(s) + 1
         /\ \A i \in 1 .. Len(s) : Append(s, e)[i] = s[i]
         /\ Append(s, e)[Len(s) + 1] = e
<1>1. PICK S : s \in Seq(S)
  BY DEF IsSequence
<1>2. s \in Seq(S \cup {e})
  BY <1>1, SeqDef
<1> QED BY <1>2, AppendProperties DEF IsSequence

LEMMA SequenceReplaced ==
  ASSUME NEW s, IsSequence(s), NEW i \in 1 .. Len(s), NEW e
  PROVE  /\ IsSequence([s EXCEPT ![i] = e])
         /\ Len([s EXCEPT ![i] = e]) = Len(s)
         /\ \A j \in 1 .. Len(s) : [s EXCEPT ![i] = e][j] = IF j = i THEN e ELSE s[j]
<1>1. PICK S : s \in Seq(S)
  BY DEF IsSequence
<1>2. s \in Seq(S \cup {e})
  BY <1>1, SeqDef
<1> QED BY <1>2, ExceptSeq DEF IsSequence

LEMMA LooksBegun ==
  ASSUME NEW n \in Nat
  PROVE  IsSequence([r \in 1 .. n |-> <<>>]) /\ Len([r \in 1 .. n |-> <<>>]) = n
<1> DEFINE begun == [r \in 1 .. n |-> <<>>]
<1>1. begun \in Seq({<<>>}) /\ DOMAIN begun = 1 .. n
  BY SeqDef
<1> HIDE DEF begun
<1>2. Len(begun) \in Nat /\ DOMAIN begun = 1 .. Len(begun)
  BY <1>1, LenProperties
<1>3. IsSequence(begun) /\ Len(begun) = n
  BY <1>1, <1>2 DEF IsSequence
<1> QED BY <1>3 DEF begun

LEMMA LooksNumbered == call.kind \in Kinds => Looks[call.kind] \in 1 .. 3
BY InspectionAssumption DEF Looks

LEMMA InspectionStarts == Init => InspectionInv
<1> SUFFICES ASSUME Init PROVE InspectionInv
  OBVIOUS
<1>1. looks = <<>> /\ sessions = <<>> /\ answer = {} /\ changes = 0
  BY DEF Init
<1>2. disk \in [Roots -> Contents] /\ changes \in 0 .. MaxChanges
  BY <1>1, InspectionAssumption DEF Init
<1> QED
  BY <1>1, <1>2 DEF Init, InspectionInv, LooksFit, SessionsFit, AnswerFits

LEMMA LoadKept == InspectionInv /\ Load => InspectionInv'
<1> SUFFICES ASSUME InspectionInv, Load PROVE InspectionInv'
  OBVIOUS
<1> USE DEF InspectionInv
<1>1. /\ looks = <<>> /\ sessions = <<>> /\ answer = {}
      /\ UNCHANGED <<disk, changes, call, sessions, answer>>
  BY DEF Load
<1>2. descriptors' = Loaded /\ registry' = RegistryInUse
  BY DEF Load, Loaded, Given, RegistryInUse
<1>3. Loaded' = Loaded /\ RegistryInUse' = RegistryInUse
  BY <1>1 DEF Loaded, Given, RegistryInUse
<1>4. Looks[call.kind] \in Nat
  BY LooksNumbered
<1>5. looks' = [r \in 1 .. Looks[call.kind] |-> <<>>]
  BY DEF Load
<1>6. IsSequence(looks') /\ Len(looks') = Looks[call.kind]
  BY <1>4, <1>5, LooksBegun
<1>7. Len(Loaded) \in Nat
  BY LoadedWellMade
<1>8. IsSequence(<<>>) /\ Len(<<>>) = 0
  BY EmptySeq DEF IsSequence
<1>9. ASSUME NEW r \in 1 .. Len(looks')
      PROVE  LookedWell(r)'
  <2>1. looks'[r] = <<>>
    BY <1>5, <1>6
  <2> QED BY <2>1, <1>2, <1>7, <1>8 DEF LookedWell
<1>10. LooksFit'
  BY <1>1, <1>2, <1>3, <1>6, <1>9 DEF LooksFit
<1>11. SessionsFit'
  BY <1>1 DEF SessionsFit
<1>12. AnswerFits'
  BY <1>1 DEF AnswerFits
<1> QED BY <1>1, <1>10, <1>11, <1>12

LEMMA LookKept == InspectionInv /\ Look => InspectionInv'
<1> SUFFICES ASSUME InspectionInv, Look PROVE InspectionInv'
  OBVIOUS
<1>1. PICK r \in DOMAIN looks :
        /\ ~Looked(r)
        /\ looks' = [looks EXCEPT ![r] =
             Append(@, InspectDescriptor(descriptors[Len(@) + 1], disk))]
        /\ UNCHANGED <<disk, changes, call, registry, descriptors, sessions, answer>>
  BY DEF Look
<1>0. disk' = disk /\ changes' = changes /\ descriptors' = descriptors
  BY <1>1
<1>2. ~AllLooked
  BY <1>1 DEF AllLooked
<1>3. sessions = <<>> /\ answer = {}
  BY <1>2 DEF InspectionInv, SessionsFit, AnswerFits, Awaited
<1>4. looks # <<>>
  <2>1. DOMAIN looks # {}
    BY <1>1
  <2>2. DOMAIN <<>> = {}
    BY EmptySeq, LenProperties
  <2> QED BY <2>1, <2>2
<1>5. /\ IsSequence(looks) /\ Len(looks) = Looks[call.kind]
      /\ descriptors = Loaded /\ registry = RegistryInUse
  BY <1>4 DEF InspectionInv, LooksFit
<1>6. r \in 1 .. Len(looks) /\ LookedWell(r)
  BY <1>1, <1>4, <1>5, SequenceFacts DEF InspectionInv, LooksFit
<1> DEFINE found == InspectDescriptor(descriptors[Len(looks[r]) + 1], disk)
           grown == Append(looks[r], found)
<1>7. looks' = [looks EXCEPT ![r] = grown]
  BY <1>1
<1>8. /\ IsSequence(grown)
       /\ Len(grown) = Len(looks[r]) + 1
       /\ \A i \in 1 .. Len(looks[r]) : grown[i] = looks[r][i]
       /\ grown[Len(looks[r]) + 1] = found
  BY <1>6, SequenceAppended DEF LookedWell
<1>15. grown[Len(looks[r]) + 1] = InspectDescriptor(descriptors[Len(looks[r]) + 1], disk)
  BY <1>8
<1> HIDE DEF found, grown
<1>10. /\ IsSequence(looks')
      /\ Len(looks') = Len(looks)
      /\ \A q \in 1 .. Len(looks) : looks'[q] = IF q = r THEN grown ELSE looks[q]
  <2>1. r \in 1 .. Len(looks) /\ IsSequence(looks)
    BY <1>5, <1>6
  <2>2. /\ IsSequence([looks EXCEPT ![r] = grown])
        /\ Len([looks EXCEPT ![r] = grown]) = Len(looks)
        /\ \A q \in 1 .. Len(looks) :
             [looks EXCEPT ![r] = grown][q] = IF q = r THEN grown ELSE looks[q]
    BY ONLY <2>1, SequenceReplaced
  <2> QED BY <1>7, <2>2
<1>9. Loaded' = Loaded /\ RegistryInUse' = RegistryInUse
  BY <1>1 DEF Loaded, Given, RegistryInUse
<1>11. /\ Len(looks[r]) \in Nat /\ Len(descriptors) \in Nat
       /\ Len(looks[r]) < Len(descriptors)
  BY <1>1, <1>5, <1>6, LoadedWellMade, SequenceFacts DEF LookedWell, Looked, InspectionInv
<1>12. ASSUME NEW q \in 1 .. Len(looks')
       PROVE  LookedWell(q)'
  <2>1. CASE q # r
    <3>1. looks'[q] = looks[q] /\ LookedWell(q)
      BY <1>4, <1>10, <2>1 DEF InspectionInv, LooksFit
    <3> QED BY <1>1, <3>1 DEF LookedWell
  <2>2. CASE q = r
    <3>1. looks'[r] = grown
      BY <1>6, <1>10
    <3>2. ASSUME NEW k \in 1 .. Len(grown)
          PROVE  /\ \E d \in [Roots -> Contents] :
                      grown[k] = InspectDescriptor(descriptors[k], d)
                 /\ changes = 0 => grown[k] = InspectDescriptor(descriptors[k], disk)
      <4>1. CASE k \in 1 .. Len(looks[r])
        BY <1>6, <1>8, <4>1 DEF LookedWell
      <4>2. CASE k = Len(looks[r]) + 1
        <5>1. disk \in [Roots -> Contents]
          BY DEF InspectionInv
        <5> QED BY <1>15, <4>2, <5>1, Zenon
      <4> QED BY <1>8, <1>11, <4>1, <4>2
    <3>3. Len(grown) \leq Len(descriptors)
      BY <1>8, <1>11
    <3>4. LookedWell(r)'
      BY <1>0, <1>8, <3>1, <3>2, <3>3 DEF LookedWell
    <3> QED BY <2>2, <3>4
  <2> QED BY <2>1, <2>2
<1>13. LooksFit'
  BY <1>1, <1>5, <1>10, <1>9, <1>12 DEF LooksFit
<1>14. SessionsFit' /\ AnswerFits'
  BY <1>1, <1>3 DEF SessionsFit, AnswerFits
<1> QED BY <1>1, <1>3, <1>13, <1>14 DEF InspectionInv

\* Nothing that was found changes with these; only the disk may.
LEMMA LooksStay ==
  ASSUME LooksFit, UNCHANGED <<call, registry, descriptors, looks>>,
         UNCHANGED <<disk, changes>> \/ changes' # 0
  PROVE  LooksFit'
<1> SUFFICES ASSUME looks # <<>> PROVE LooksFit'
  BY DEF LooksFit
<1>1. /\ registry = RegistryInUse /\ descriptors = Loaded
      /\ IsSequence(looks)
      /\ Len(looks) = Looks[call.kind]
      /\ \A r \in 1 .. Len(looks) : LookedWell(r)
  BY DEF LooksFit
<1>2. Loaded' = Loaded /\ RegistryInUse' = RegistryInUse
  BY DEF Loaded, Given, RegistryInUse
<1>3. ASSUME NEW r \in 1 .. Len(looks)
      PROVE  LookedWell(r)'
  BY <1>1 DEF LookedWell
<1> QED BY <1>1, <1>2, <1>3 DEF LooksFit

\* The targets as looked at are there for every descriptor.
LEMMA AllThere ==
  ASSUME InspectionInv, AllLooked
  PROVE  /\ DOMAIN looks = 1 .. Looks[call.kind] /\ Len(looks) = Looks[call.kind]
         /\ Looks[call.kind] \in 1 .. 3
         /\ Len(descriptors) \in Nat /\ DOMAIN descriptors = 1 .. Len(descriptors)
         /\ descriptors = Loaded /\ registry = RegistryInUse
         /\ \A r \in DOMAIN looks :
              Len(looks[r]) = Len(descriptors) /\ LookedWell(r)
<1>1. looks # <<>> /\ IsSequence(looks) /\ descriptors = Loaded /\ registry = RegistryInUse
      /\ Len(looks) = Looks[call.kind] /\ \A r \in 1 .. Len(looks) : LookedWell(r)
  BY DEF AllLooked, InspectionInv, LooksFit
<1>2. DOMAIN looks = 1 .. Len(looks)
  BY <1>1, SequenceFacts
<1>3. Looks[call.kind] \in 1 .. 3
  BY LooksNumbered DEF InspectionInv
<1>4. Len(Loaded) \in Nat /\ DOMAIN Loaded = 1 .. Len(Loaded)
  BY LoadedWellMade DEF InspectionInv
<1> QED BY <1>1, <1>2, <1>3, <1>4 DEF AllLooked, Looked

LEMMA BeginKept == InspectionInv /\ Begin => InspectionInv'
<1> SUFFICES ASSUME InspectionInv, Begin PROVE InspectionInv'
  OBVIOUS
<1>1. /\ AllLooked /\ sessions = <<>> /\ descriptors # <<>> /\ call.kind # "targets"
      /\ sessions' = [k \in DOMAIN descriptors |-> SessionBegins(looks[Len(looks)][k])]
      /\ UNCHANGED <<disk, changes, call, registry, descriptors, looks, answer>>
  BY DEF Begin
<1>2. looks # <<>> /\ AllLooked'
  BY <1>1 DEF AllLooked, Looked
<1>3. answer = {}
  <2>1. Len(descriptors) # 0
    <3>1. /\ Len(descriptors) \in Nat /\ DOMAIN descriptors = 1 .. Len(descriptors)
          /\ descriptors = Loaded
      BY <1>1, AllThere
    <3>2. Loaded \in [DOMAIN Loaded -> {Loaded[k] : k \in DOMAIN Loaded}]
      BY DEF Loaded, ObstructDuplicateIds
    <3>3. Loaded \in Seq({Loaded[k] : k \in DOMAIN Loaded})
      BY <3>1, <3>2, SeqDef
    <3> QED BY <1>1, <3>1, <3>3, EmptySeq
  <2>2. Len(sessions) = 0
    BY <1>1, EmptySeq
  <2> QED BY <1>1, <2>1, <2>2 DEF InspectionInv, AnswerFits, Awaited
<1>4. LooksFit'
  BY <1>1, LooksStay DEF InspectionInv
<1>5. SessionsFit'
  BY <1>1, <1>2 DEF SessionsFit, SessionBegins
<1>6. AnswerFits'
  BY <1>1, <1>3 DEF AnswerFits
<1> QED BY <1>1, <1>2, <1>4, <1>5, <1>6 DEF InspectionInv

LEMMA SettleKept ==
  ASSUME InspectionInv, NEW k \in DOMAIN sessions, NEW posture \in {"PRESENT", "OBSTRUCTED"},
         Settle(k, posture)
  PROVE  InspectionInv'
<1>1. /\ sessions[k] = "OPENING"
      /\ sessions' = [sessions EXCEPT ![k] = posture]
      /\ UNCHANGED <<disk, changes, call, registry, descriptors, looks, answer>>
  BY DEF Settle
<1>2. sessions # <<>>
  <2>1. DOMAIN <<>> = {}
    BY EmptySeq, LenProperties
  <2> QED BY <2>1
<1>3. /\ AllLooked
      /\ sessions \in [DOMAIN descriptors -> {"OPENING", "PRESENT", "OBSTRUCTED"}]
      /\ \A j \in DOMAIN sessions :
           SessionBegins(looks[Len(looks)][j]) = "OBSTRUCTED" => sessions[j] = "OBSTRUCTED"
  BY <1>2 DEF InspectionInv, SessionsFit
<1>4. answer = {}
  <2>1. ~Awaited
    BY <1>1 DEF Awaited
  <2> QED BY <2>1 DEF InspectionInv, AnswerFits
<1>5. looks # <<>> /\ AllLooked'
  BY <1>1, <1>3 DEF AllLooked, Looked
<1>6. LooksFit'
  BY <1>1, LooksStay DEF InspectionInv
<1>7. SessionsFit'
  BY <1>1, <1>3, <1>5 DEF SessionsFit
<1>8. AnswerFits'
  BY <1>1, <1>4 DEF AnswerFits
<1> QED BY <1>1, <1>5, <1>6, <1>7, <1>8 DEF InspectionInv

LEMMA AnswerKept == InspectionInv /\ Answer => InspectionInv'
<1> SUFFICES ASSUME InspectionInv, Answer PROVE InspectionInv'
  OBVIOUS
<1>1. /\ Awaited
      /\ answer' = {Records}
      /\ UNCHANGED <<disk, changes, call, registry, descriptors, looks, sessions>>
  BY DEF Answer
<1>2. looks # <<>>
  BY <1>1 DEF Awaited, AllLooked
<1>3. LooksFit'
  BY <1>1, LooksStay DEF InspectionInv
<1>4. SessionsFit'
  BY <1>1 DEF InspectionInv, SessionsFit, AllLooked, Looked
<1>5. Records' = Records /\ Awaited'
  BY <1>1 DEF Records, HelloTo, Awaited, AllLooked, Looked
<1>6. AnswerFits'
  BY <1>1, <1>5 DEF AnswerFits
<1> QED BY <1>1, <1>2, <1>3, <1>4, <1>6 DEF InspectionInv

LEMMA DiskKept ==
  ASSUME InspectionInv, NEW path \in DOMAIN disk, DiskChanges(path)
  PROVE  InspectionInv'
<1>1. /\ changes < MaxChanges /\ changes' = changes + 1
      /\ \E content \in Contents : disk' = [disk EXCEPT ![path] = content]
      /\ UNCHANGED <<call, registry, descriptors, looks, sessions, answer>>
  BY DEF DiskChanges
<1>2. /\ changes' \in 0 .. MaxChanges /\ changes' # 0
      /\ disk' \in [Roots -> Contents]
  BY <1>1, InspectionAssumption DEF InspectionInv
<1>3. LooksFit'
  BY <1>1, <1>2, LooksStay DEF InspectionInv
<1>4. SessionsFit'
  BY <1>1 DEF InspectionInv, SessionsFit, AllLooked, Looked
<1>5. Records' = Records /\ Awaited' = Awaited
  BY <1>1 DEF Records, HelloTo, Awaited, AllLooked, Looked
<1>6. AnswerFits'
  BY <1>1, <1>5 DEF InspectionInv, AnswerFits
<1> QED BY <1>1, <1>2, <1>3, <1>4, <1>6 DEF InspectionInv

LEMMA InspectionKept == InspectionInv /\ [Next]_vars => InspectionInv'
<1> SUFFICES ASSUME InspectionInv, [Next]_vars PROVE InspectionInv'
  OBVIOUS
<1>1. CASE Load
  BY <1>1, LoadKept
<1>2. CASE Look
  BY <1>2, LookKept
<1>3. CASE Begin
  BY <1>3, BeginKept
<1>4. CASE Answer
  BY <1>4, AnswerKept
<1>5. ASSUME NEW k \in DOMAIN sessions, Opened(k) \/ Refused(k)
      PROVE  InspectionInv'
  BY <1>5, SettleKept DEF Opened, Refused
<1>6. ASSUME NEW path \in DOMAIN disk, DiskChanges(path)
      PROVE  InspectionInv'
  BY <1>6, DiskKept
<1>7. CASE UNCHANGED vars
  <2>1. UNCHANGED <<disk, changes, call, registry, descriptors, looks, sessions, answer>>
    BY <1>7 DEF vars
  <2>2. LooksFit'
    BY <2>1, LooksStay DEF InspectionInv
  <2>3. SessionsFit'
    BY <2>1 DEF InspectionInv, SessionsFit, AllLooked, Looked
  <2>4. Records' = Records /\ Awaited' = Awaited
    BY <2>1 DEF Records, HelloTo, Awaited, AllLooked, Looked
  <2>5. AnswerFits'
    BY <2>1, <2>4 DEF InspectionInv, AnswerFits
  <2> QED BY <2>1, <2>2, <2>3, <2>5 DEF InspectionInv
<1> QED BY <1>1, <1>2, <1>3, <1>4, <1>5, <1>6, <1>7 DEF Next

\* Whatever is shown of a target was found with its own descriptor, and what is
\* answered is made of what was found (inspectLiveTargets,
\* inspectLiveTargetSessions).
THEOREM InspectionSound == Spec => []InspectionInv
BY InspectionStarts, InspectionKept, PTL DEF Spec

LEMMA ProbeTyped ==
  ASSUME NEW content \in Contents
  PROVE  AdapterPostureFromProbe[Probe(content).posture] \in AdapterPostures
<1>1. DescriptorPosture(content.probe) \in
        {"PROBE_OBSTRUCTED", "ABI_UNSUPPORTED", "BRIDGE_PRESENT"}
  BY DEF DescriptorPosture
<1>2. BridgePosture(content) \in DOMAIN ProbePosture
  <2> HIDE DEF DescriptorPosture
  <2> QED BY <1>1, InspectionAssumption DEF BridgePosture, ProbePosture
<1> HIDE DEF BridgePosture
<1>3. Probe(content).posture = ProbePosture[BridgePosture(content)]
  BY DEF Probe
<1>4. Probe(content).posture \in DOMAIN AdapterPostureFromProbe
  BY <1>2, <1>3 DEF ProbePosture, AdapterPostureFromProbe
<1> QED BY <1>4 DEF AdapterPostureFromProbe, AdapterPostures

LEMMA SightingTyped ==
  ASSUME NEW descriptor, Connects(descriptor.connection, Roots), NEW d \in [Roots -> Contents]
  PROVE  LET sighting == InspectDescriptor(descriptor, d)
         IN  /\ sighting.target = descriptor.id
             /\ sighting.root \in RootPostures
             /\ sighting.adapter \in AdapterPostures
<1> DEFINE connection == descriptor.connection
           found      == d[CHOOSE path \in connection.root : TRUE]
           sighting   == InspectDescriptor(descriptor, d)
<1>1. CASE connection.mode = "echo-root"
  <2>1. AdapterPostureFromProbe[Probe(found).posture] \in AdapterPostures
    <3>1. found \in Contents
      BY <1>1 DEF Connects
    <3> QED BY <3>1, ProbeTyped
  <2>2. /\ sighting.target = descriptor.id
        /\ sighting.root = RootPosture(connection, d)
        /\ sighting.adapter = AdapterPostureFromProbe[Probe(found).posture]
    BY <1>1 DEF InspectDescriptor, InspectEchoRoot, Inspected
  <2> QED BY <2>1, <2>2, RootPosturesAre
<1>2. CASE connection.mode # "echo-root"
  <2>1. /\ sighting.target = descriptor.id
        /\ sighting.root = RootPosture(connection, d)
        /\ sighting.adapter \in {"CONFIGURED", "OBSTRUCTED", "UNSUPPORTED"}
    BY <1>2 DEF InspectDescriptor, InspectGitWarp, InspectDescriptorOnly, Inspected, Connects, Modes
  <2> QED BY <2>1, RootPosturesAre DEF AdapterPostures
<1> QED BY <1>1, <1>2

\* The looks never show more than there are targets, each as itself, and every
\* target is answered for (inspectLiveTargets, inspectLiveTargetSessions).
THEOREM InspectionTyped == Spec => []TypeOK
<1>1. InspectionInv => TypeOK
  <2> SUFFICES ASSUME InspectionInv PROVE TypeOK
    OBVIOUS
  <2>1. /\ \A path \in DOMAIN disk : disk[path] \in Contents
        /\ changes \in 0 .. MaxChanges
    BY DEF InspectionInv
  <2>2. ASSUME NEW r \in DOMAIN looks
        PROVE  /\ Len(looks[r]) \leq Len(descriptors)
               /\ \A k \in DOMAIN looks[r] :
                    /\ looks[r][k].target = descriptors[k].id
                    /\ looks[r][k].root \in RootPostures
                    /\ looks[r][k].adapter \in AdapterPostures
    <3>1. looks # <<>>
      <4>1. DOMAIN <<>> = {}
        BY EmptySeq, LenProperties
      <4> QED BY <4>1
    <3>2. descriptors = Loaded /\ LookedWell(r)
      BY <3>1, SequenceFacts DEF InspectionInv, LooksFit
    <3>3. /\ Len(looks[r]) \in Nat /\ DOMAIN looks[r] = 1 .. Len(looks[r])
          /\ Len(looks[r]) \leq Len(descriptors)
      BY <3>2, SequenceFacts DEF LookedWell
    <3>4. ASSUME NEW k \in DOMAIN looks[r]
          PROVE  /\ looks[r][k].target = descriptors[k].id
                 /\ looks[r][k].root \in RootPostures
                 /\ looks[r][k].adapter \in AdapterPostures
      <4>1. k \in 1 .. Len(looks[r])
        BY <3>3
      <4>2. PICK d \in [Roots -> Contents] :
              looks[r][k] = InspectDescriptor(descriptors[k], d)
        BY <3>2, <4>1 DEF LookedWell
      <4>3. k \in DOMAIN Loaded /\ Connects(descriptors[k].connection, Roots)
        BY <3>2, <3>3, LoadedWellMade DEF InspectionInv
      <4> DEFINE descriptor == descriptors[k]
                 sighting   == InspectDescriptor(descriptor, d)
      <4>4. /\ sighting.target = descriptor.id
            /\ sighting.root \in RootPostures
            /\ sighting.adapter \in AdapterPostures
        BY <4>3, SightingTyped
      <4> HIDE DEF sighting
      <4>5. looks[r][k] = sighting
        BY <4>2 DEF sighting
      <4> QED BY <4>4, <4>5
    <3> QED BY <3>3, <3>4
  <2>3. sessions # <<>> =>
          sessions \in [DOMAIN descriptors -> {"OPENING", "PRESENT", "OBSTRUCTED"}]
    BY DEF InspectionInv, SessionsFit
  <2>4. \A records \in answer : DOMAIN records = DOMAIN descriptors
    BY DEF InspectionInv, AnswerFits, Records
  <2> QED BY <2>1, <2>2, <2>3, <2>4 DEF TypeOK
<1> QED BY <1>1, InspectionSound, PTL

----------------------------------------------------------------------------
(* What is answered *)

LEMMA AnsweredSessions ==
  ASSUME InspectionInv, answer # {}, call.kind # "targets", NEW k \in DOMAIN descriptors
  PROVE  /\ k \in DOMAIN sessions /\ sessions[k] \in {"PRESENT", "OBSTRUCTED"}
         /\ SessionBegins(looks[Len(looks)][k]) = "OBSTRUCTED" => sessions[k] = "OBSTRUCTED"
<1>1. Awaited /\ AllLooked /\ Len(sessions) = Len(descriptors)
  BY DEF InspectionInv, AnswerFits, Awaited
<1>2. Len(descriptors) \in Nat /\ DOMAIN descriptors = 1 .. Len(descriptors)
  BY <1>1, AllThere
<1>3. sessions # <<>>
  BY <1>1, <1>2, EmptySeq
<1> QED BY <1>1, <1>3 DEF InspectionInv, SessionsFit, Awaited

\* Of one target, at any two looks.
LEMMA SightingsOf ==
  ASSUME InspectionInv, AllLooked, NEW r \in DOMAIN looks, NEW k \in DOMAIN descriptors
  PROVE  LET sighting   == looks[r][k]
             connection == descriptors[k].connection
         IN  /\ connection.mode \in Modes
             /\ sighting.mode = connection.mode
             /\ sighting.graph = connection.graph
             /\ sighting.root \in RootPostures
             /\ connection.root = {} <=> sighting.root = "NOT_APPLICABLE"
             /\ connection.mode = "git-warp" => sighting.adapter = "CONFIGURED"
             /\ connection.mode = "descriptor-only" =>
                  sighting.adapter = IF connection.posture = {"OBSTRUCTED"}
                                       THEN "OBSTRUCTED" ELSE "UNSUPPORTED"
             /\ changes = 0 => sighting = InspectDescriptor(descriptors[k], disk)
<1>1. LookedWell(r) /\ k \in 1 .. Len(looks[r]) /\ descriptors = Loaded
  BY AllThere
<1>2. descriptors[k].connection.mode \in Modes
  <2>1. k \in DOMAIN Loaded
    BY <1>1
  <2>2. Connects(Loaded[k].connection, Roots)
    BY <2>1, LoadedWellMade DEF InspectionInv
  <2> QED BY <1>1, <2>2 DEF Connects
<1>3. /\ \E d : looks[r][k] = InspectDescriptor(descriptors[k], d)
      /\ changes = 0 => looks[r][k] = InspectDescriptor(descriptors[k], disk)
  BY <1>1 DEF LookedWell
<1>4. PICK d : looks[r][k] = InspectDescriptor(descriptors[k], d)
  BY <1>3
<1> DEFINE descriptor == descriptors[k]
           sighting   == InspectDescriptor(descriptor, d)
<1>5. /\ sighting.mode = descriptor.connection.mode
      /\ sighting.root = RootPosture(descriptor.connection, d)
      /\ sighting.graph = descriptor.connection.graph
      /\ descriptor.connection.mode = "git-warp" => sighting.adapter = "CONFIGURED"
      /\ descriptor.connection.mode = "descriptor-only" =>
           sighting.adapter = IF descriptor.connection.posture = {"OBSTRUCTED"}
                                THEN "OBSTRUCTED" ELSE "UNSUPPORTED"
  BY <1>2, SightingIs
<1> HIDE DEF sighting
<1>6. looks[r][k] = sighting
  BY <1>4 DEF sighting
<1> QED BY <1>2, <1>3, <1>5, <1>6, RootPosturesAre

LEMMA VerdictsAgree ==
  ASSUME NEW t, t.mode \in Modes, t.root \in RootPostures,
         t.mode = "git-warp" => t.adapter = "CONFIGURED",
         t.mode = "descriptor-only" => t.adapter \in {"OBSTRUCTED", "UNSUPPORTED"},
         NEW s \in {"PRESENT", "OBSTRUCTED"}
  PROVE  DiscoveryPosture(t, RuntimeHello(t, s)) =
           IF t.mode = "descriptor-only" /\ t.root = "MISSING"
             THEN "ABSENT" ELSE DiscoveryPostureByHello[RuntimeHello(t, s).posture]
<1> USE DEF DiscoveryPosture, DiscoveryPostureByHello, RuntimeHello, Hello, Modes, RootPostures
<1>1. CASE t.mode = "git-warp"
  BY <1>1 DEF GitWarpHello
<1>2. CASE t.mode = "echo-root"
  BY <1>2 DEF EchoHello
<1>3. CASE t.mode = "descriptor-only"
  BY <1>3 DEF DescriptorOnlyHello
<1> QED BY <1>1, <1>2, <1>3

\* For two looks that need not agree.
LEMMA ReachableWhen ==
  ASSUME NEW one, NEW two, one.mode \in Modes, two.mode = one.mode,
         one.root \in RootPostures, two.root \in RootPostures,
         one.mode = "git-warp" => one.adapter = "CONFIGURED",
         one.mode = "descriptor-only" => two.adapter \in {"OBSTRUCTED", "UNSUPPORTED"},
         NEW s \in {"PRESENT", "OBSTRUCTED"}
  PROVE  DiscoveryPosture(one, RuntimeHello(two, s)) = "REACHABLE" <=>
           /\ one.mode = "git-warp"
           /\ one.root # "MISSING" /\ two.root # "MISSING"
           /\ s = "PRESENT"
<1> USE DEF DiscoveryPosture, DiscoveryPostureByHello, RuntimeHello, Hello, Modes, RootPostures
<1>1. CASE one.mode = "git-warp"
  BY <1>1 DEF GitWarpHello
<1>2. CASE one.mode = "echo-root"
  BY <1>2 DEF EchoHello
<1>3. CASE one.mode = "descriptor-only"
  BY <1>3 DEF DescriptorOnlyHello
<1> QED BY <1>1, <1>2, <1>3

LEMMA DiscoveryRecords ==
  ASSUME InspectionInv, call.kind = "discover", NEW records \in answer,
         NEW k \in DOMAIN descriptors
  PROVE  LET hello == RuntimeHello(looks[2][k], sessions[k])
         IN  /\ 1 \in DOMAIN looks /\ 2 \in DOMAIN looks /\ AllLooked
             /\ records[k].target = looks[1][k]
             /\ records[k].hello = hello
             /\ records[k].posture = DiscoveryPosture(looks[1][k], hello)
<1>1. AllLooked /\ records = Records
  BY DEF InspectionInv, AnswerFits, Awaited
<1>2. Looks[call.kind] = 3
  BY DEF Looks
<1>3. DOMAIN looks = 1 .. 3 /\ Len(looks) = 3
  BY <1>1, <1>2, AllThere
<1>4. Records[k] = DiscoveryRecord(looks[1][k], HelloTo(k), registry, k)
  BY DEF Records
<1>5. HelloTo(k) = RuntimeHello(looks[2][k], sessions[k])
  BY <1>3 DEF HelloTo
<1> QED BY <1>1, <1>3, <1>4, <1>5 DEF DiscoveryRecord

\* For two looks that need not agree, the other way round.
LEMMA AnswersWhen ==
  ASSUME NEW one, NEW two, one.mode \in Modes, two.mode = one.mode,
         one.mode = "git-warp" => one.adapter = "CONFIGURED",
         one.mode = "descriptor-only" => two.adapter \in {"OBSTRUCTED", "UNSUPPORTED"},
         one.root \in RootPostures, two.root \in RootPostures,
         NEW s \in {"PRESENT", "OBSTRUCTED"}
  PROVE  LET hello == RuntimeHello(two, s)
         IN  /\ DiscoveryPosture(one, hello) = "REACHABLE" => hello.posture = "PRESENT"
             /\ hello.posture = "PRESENT"
                  => DiscoveryPosture(one, hello) = "REACHABLE" \/ one.root = "MISSING"
<1> USE DEF DiscoveryPosture, DiscoveryPostureByHello, RuntimeHello, Hello, Modes, RootPostures
<1>1. CASE one.mode = "git-warp"
  BY <1>1 DEF GitWarpHello
<1>2. CASE one.mode = "echo-root"
  BY <1>2 DEF EchoHello
<1>3. CASE one.mode = "descriptor-only"
  BY <1>3 DEF DescriptorOnlyHello
<1> QED BY <1>1, <1>2, <1>3

\* However the disk changes, a record and its hello come to the same verdict on
\* a target found alike the two times, a descriptor-only target with a missing
\* root excepted; and they differ about an answering target only if the record's
\* own look missed its root (discoveryPosture, DISCOVERY_POSTURE_BY_HELLO).
THEOREM VerdictsConsistent == Spec => []RecordAgreesWithHello
<1>1. InspectionInv => RecordAgreesWithHello
  <2> SUFFICES ASSUME InspectionInv, call.kind = "discover",
                      NEW records \in answer, NEW k \in DOMAIN records
               PROVE  LET record  == records[k]
                          missing == record.target.root = "MISSING"
                      IN  /\ looks[2][k] = record.target =>
                               record.posture =
                                 IF record.target.mode = "descriptor-only" /\ missing
                                   THEN "ABSENT"
                                   ELSE DiscoveryPostureByHello[record.hello.posture]
                          /\ record.posture = "REACHABLE" => record.hello.posture = "PRESENT"
                          /\ record.hello.posture = "PRESENT"
                               => record.posture = "REACHABLE" \/ missing
    BY DEF RecordAgreesWithHello
  <2>1. k \in DOMAIN descriptors
    BY DEF InspectionInv, AnswerFits, Records
  <2> DEFINE one   == looks[1][k]
             two   == looks[2][k]
             hello == RuntimeHello(two, sessions[k])
  <2>2. /\ 1 \in DOMAIN looks /\ 2 \in DOMAIN looks /\ AllLooked
        /\ records[k].target = one
        /\ records[k].hello = hello
        /\ records[k].posture = DiscoveryPosture(one, hello)
    BY <2>1, DiscoveryRecords
  <2>3. \A sighting \in {one, two} :
          /\ sighting.mode = descriptors[k].connection.mode
          /\ sighting.mode \in Modes /\ sighting.root \in RootPostures
          /\ sighting.mode = "git-warp" => sighting.adapter = "CONFIGURED"
          /\ sighting.mode = "descriptor-only" =>
               sighting.adapter \in {"OBSTRUCTED", "UNSUPPORTED"}
    BY <2>1, <2>2, SightingsOf
  <2>4. sessions[k] \in {"PRESENT", "OBSTRUCTED"}
    BY <2>1, AnsweredSessions
  <2>5. looks[2][k] = two
    OBVIOUS
  <2> HIDE DEF one, two
  <2>6. two = one =>
          DiscoveryPosture(one, hello) =
            IF one.mode = "descriptor-only" /\ one.root = "MISSING"
              THEN "ABSENT" ELSE DiscoveryPostureByHello[hello.posture]
    BY <2>3, <2>4, VerdictsAgree
  <2>7. /\ DiscoveryPosture(one, hello) = "REACHABLE" => hello.posture = "PRESENT"
        /\ hello.posture = "PRESENT"
             => DiscoveryPosture(one, hello) = "REACHABLE" \/ one.root = "MISSING"
    BY <2>3, <2>4, AnswersWhen
  <2> HIDE DEF hello
  <2> QED BY <2>2, <2>5, <2>6, <2>7
<1> QED BY <1>1, InspectionSound, PTL

----------------------------------------------------------------------------
(* What becomes of an entry *)

\* The fields of the metadata are read up to the first that is invalid.
LEMMA MetadataRead ==
  ASSUME NEW raw, raw.fields \in Seq(ToSet(raw.fields))
  PROVE  LET fields  == raw.fields
             secrets == {i \in DOMAIN fields : fields[i].secret}
         IN  /\ Metadata(raw).valid <=>
                  \/ raw.kind = "ABSENT"
                  \/ raw.kind = "OBJECT" /\ \A i \in DOMAIN fields : ~Invalid(fields[i])
             /\ Metadata(raw).hidden =
                  {fields[i].name : i \in {j \in secrets : \A h \in 1 .. j : ~Invalid(fields[h])}}
             /\ \A i \in secrets : fields[i] \notin Metadata(raw).kept
<1> DEFINE fields  == raw.fields
           secrets == {i \in DOMAIN fields : fields[i].secret}
           I       == {i \in 1 .. Len(fields) : ~fields[i].secret /\ ~fields[i].scalar}
           bad     == SelectInSeq(fields, LAMBDA field : ~field.secret /\ ~field.scalar)
           read    == {i \in DOMAIN fields : bad = 0 \/ i < bad}
           clear   == {j \in secrets : \A h \in 1 .. j : ~Invalid(fields[h])}
<1>1. Len(fields) \in Nat /\ DOMAIN fields = 1 .. Len(fields)
  BY LenProperties
<1>2. bad = IF I # {} THEN Min(I) ELSE 0
  BY DEF SelectInSeq
<1>3. I # {} => Min(I) \in I /\ \A i \in I : Min(I) <= i
  <2>1. I \in SUBSET Nat
    BY <1>1
  <2> HIDE DEF I
  <2> QED BY <2>1, MinIsLeast
<1>4. bad = 0 <=> \A i \in DOMAIN fields : ~Invalid(fields[i])
  BY <1>1, <1>2, <1>3 DEF Invalid
<1>5. {j \in read : fields[j].secret} = clear
  <2>1. \A h \in 1 .. Len(fields) : h \in I <=> Invalid(fields[h])
    BY DEF Invalid
  <2>2. ASSUME NEW j \in secrets
        PROVE  (bad = 0 \/ j < bad) <=> \A h \in 1 .. j : ~Invalid(fields[h])
    <3>1. j \in 1 .. Len(fields) /\ j \notin I
      BY <1>1
    <3> HIDE DEF I, bad, secrets
    <3>2. CASE I = {}
      BY <1>1, <1>2, <2>1, <3>1, <3>2
    <3>3. CASE I # {}
      <4>1. bad \in I /\ bad # 0 /\ bad \in Nat /\ \A i \in I : bad <= i
        BY <1>1, <1>2, <1>3, <3>3 DEF I
      <4>2. ASSUME j < bad, NEW h \in 1 .. j PROVE ~Invalid(fields[h])
        <5>1. h \in 1 .. Len(fields) /\ ~(bad <= h)
          BY <1>1, <3>1, <4>1, <4>2
        <5> QED BY <2>1, <4>1, <5>1
      <4>3. ASSUME \A h \in 1 .. j : ~Invalid(fields[h]) PROVE j < bad
        <5>1. bad \in 1 .. Len(fields) /\ Invalid(fields[bad])
          BY <2>1, <4>1 DEF I
        <5> QED BY <1>1, <3>1, <4>1, <4>3, <5>1
      <4> QED BY <4>1, <4>2, <4>3
    <3> QED BY <3>2, <3>3
  <2> HIDE DEF bad
  <2> QED BY <2>2
<1> HIDE DEF bad
<1>6. /\ Metadata(raw).valid <=> (raw.kind = "ABSENT" \/ (raw.kind = "OBJECT" /\ bad = 0))
      /\ Metadata(raw).hidden = {fields[i].name : i \in {j \in read : fields[j].secret}}
      /\ Metadata(raw).kept = {fields[i] : i \in {j \in read : bad = 0 /\ ~fields[j].secret}}
  BY DEF Metadata, bad
<1> HIDE DEF read, clear
<1>7. \A i \in secrets : fields[i] \notin Metadata(raw).kept
  BY <1>6
<1> QED BY <1>4, <1>5, <1>6, <1>7 DEF clear

\* The document in use is the one its source is loaded from.
LEMMA DocumentFrom ==
  ASSUME call \in [kind : Kinds, config : Configurations], NEW entries \in EntryLists
  PROVE  /\ entries \in Seq(ToSet(entries))
         /\ \A entry \in ToSet(entries) :
              entry.metadata.fields \in Seq(ToSet(entry.metadata.fields))
         /\ call.kind = "discover" =>
              \E source : LoadRegistry(call.config) = FromEntries(source, entries)
         /\ call.kind # "discover" =>
              DescriptorsFromEnv(call.config) = ObstructDuplicateIds(Listed(entries))
<1> DEFINE config == call.config
<1>1. PICK document \in Documents : document.shape = "RUNTIMES" /\ entries = document.entries
  BY DEF EntryLists
<1>2. config \in Configurations
  OBVIOUS
<1> DEFINE Sources == {config.cli, config.json, config.path, config.targets}
<1>3. ASSUME NEW documents \in Sources, document \in documents
      PROVE  /\ (CHOOSE d \in documents : TRUE) = document
             /\ document.entries \in Seq(ToSet(document.entries))
             /\ \A entry \in ToSet(document.entries) :
                  entry.metadata.fields \in Seq(ToSet(entry.metadata.fields))
  BY <1>2, <1>3, DocumentAssumption DEF AtMostOne, InOrder
<1>4. \A source : NormalizeRuntimeRegistry(document, source) = FromEntries(source, entries)
  BY <1>1 DEF NormalizeRuntimeRegistry
<1>5. CASE call.kind # "discover"
  <2>1. document \in config.targets
    BY <1>1, <1>5 DEF Documents
  <2>2. DescriptorsFromEnv(config) = ObstructDuplicateIds(Listed(entries))
    BY <1>1, <1>3, <2>1 DEF DescriptorsFromEnv, Listed
  <2> QED BY <1>1, <1>3, <1>5, <2>1, <2>2
<1>6. CASE call.kind = "discover"
  <2>1. CASE config.cli # {}
    <3>1. document \in config.cli
      BY <1>1, <1>6, <2>1 DEF Documents
    <3>2. LoadRegistry(config) = NormalizeRuntimeRegistry(document, "CLI_PATH")
      BY <1>3, <2>1, <3>1 DEF LoadRegistry
    <3> QED BY <1>1, <1>3, <1>4, <1>6, <3>1, <3>2
  <2>2. CASE config.cli = {} /\ config.json # {}
    <3>1. document \in config.json
      BY <1>1, <1>6, <2>2 DEF Documents
    <3>2. LoadRegistry(config) = NormalizeRuntimeRegistry(document, "ENV_JSON")
      BY <1>3, <2>2, <3>1 DEF LoadRegistry
    <3> QED BY <1>1, <1>3, <1>4, <1>6, <3>1, <3>2
  <2>3. CASE config.cli = {} /\ config.json = {}
    <3>1. document \in config.path
      BY <1>1, <1>6, <2>3 DEF Documents
    <3>2. LoadRegistry(config) = NormalizeRuntimeRegistry(document, "ENV_PATH")
      BY <1>3, <2>3, <3>1 DEF LoadRegistry
    <3> QED BY <1>1, <1>3, <1>4, <1>6, <3>1, <3>2
  <2> QED BY <2>1, <2>2, <2>3
<1> QED BY <1>5, <1>6

LEMMA GivenFrom ==
  ASSUME call \in [kind : Kinds, config : Configurations], NEW entries \in EntryLists
  PROVE  /\ entries \in Seq(ToSet(entries))
         /\ \A entry \in ToSet(entries) :
              entry.metadata.fields \in Seq(ToSet(entry.metadata.fields))
         /\ Given = IF call.kind = "discover" THEN ObstructDuplicates(Normal(entries))
                                             ELSE ObstructDuplicateIds(Listed(entries))
BY DocumentFrom, EntriesNormalised DEF Given

\* Once it is obstructed, obstructing again changes nothing.
LEMMA ObstructedTwice ==
  ASSUME NEW n \in Nat, NEW ds, DOMAIN ds = 1 .. n, NEW once, DOMAIN once = 1 .. n,
         \A k \in 1 .. n :
           /\ once[k].id = ds[k].id
           /\ once[k].connection =
                IF \E j \in 1 .. n : j # k /\ ds[j].id = ds[k].id
                  THEN Obstruction ELSE ds[k].connection
  PROVE  LET kept == ObstructDuplicateIds(once)
         IN  /\ DOMAIN kept = 1 .. n
             /\ \A k \in 1 .. n :
                  kept[k].connection =
                    IF \E j \in 1 .. n : j # k /\ ds[j].id = ds[k].id
                      THEN Obstruction ELSE ds[k].connection
BY IdsObstructed

\* The entries that say what it takes to be a target at all.
Sound(entries, k) ==
  /\ entries[k].object /\ entries[k].id # {} /\ Unique(entries, k)
  /\ call.kind = "discover" => Metadata(entries[k].metadata).valid

LEMMA LoadedFrom ==
  ASSUME call \in [kind : Kinds, config : Configurations], NEW entries \in EntryLists
  PROVE  /\ DOMAIN Loaded = DOMAIN entries
         /\ \A k \in DOMAIN entries :
              Loaded[k].connection =
                IF Sound(entries, k) THEN ConnectionFromJson(entries[k].connection)
                                     ELSE Obstruction
<1> DEFINE n  == Len(entries)
           ds == IF call.kind = "discover" THEN Normal(entries) ELSE Listed(entries)
<1>1. n \in Nat /\ DOMAIN entries = 1 .. n
  BY GivenFrom, LenProperties
<1>2. DOMAIN ds = 1 .. n
  BY <1>1 DEF Normal, Listed
<1>3. ASSUME NEW k \in 1 .. n
      PROVE  /\ call.kind = "discover" => "connection" \in DOMAIN ds[k]
             /\ ds[k].id = IdOf(entries, k)
             /\ ds[k].connection =
                  IF /\ entries[k].object /\ entries[k].id # {}
                     /\ call.kind = "discover" => Metadata(entries[k].metadata).valid
                    THEN ConnectionFromJson(entries[k].connection) ELSE Obstruction
  <2> DEFINE raw == entries[k]
  <2>1. CASE call.kind = "discover"
    <3>1. ds[k] = EntryFromJson(raw, k).runtime
      BY <1>1, <2>1 DEF Normal
    <3> HIDE DEF ds
    <3>2. /\ "connection" \in DOMAIN EntryFromJson(raw, k).runtime
          /\ EntryFromJson(raw, k).runtime.id =
               IF raw.object /\ raw.id # {} THEN CHOOSE id \in raw.id : TRUE ELSE EntryId[k]
          /\ EntryFromJson(raw, k).runtime.connection =
               IF raw.object /\ raw.id # {} /\ Metadata(raw.metadata).valid
                 THEN ConnectionFromJson(raw.connection) ELSE Obstruction
      BY EntryRuntime
    <3> QED BY <2>1, <3>1, <3>2 DEF IdOf
  <2>2. CASE call.kind # "discover"
    <3>1. ds[k] = DescriptorFromJson(raw, k)
      BY <1>1, <2>2 DEF Listed
    <3> HIDE DEF ds
    <3>2. /\ DescriptorFromJson(raw, k).id =
               IF raw.object /\ raw.id # {} THEN CHOOSE id \in raw.id : TRUE ELSE DescriptorId[k]
          /\ DescriptorFromJson(raw, k).connection =
               IF raw.object /\ raw.id # {}
                 THEN ConnectionFromJson(raw.connection) ELSE Obstruction
      BY DescriptorIs
    <3> QED BY <2>2, <3>1, <3>2 DEF IdOf
  <2> QED BY <2>1, <2>2
<1>4. Given = IF call.kind = "discover" THEN ObstructDuplicates(ds) ELSE ObstructDuplicateIds(ds)
  BY GivenFrom
<1> HIDE DEF n, ds
<1>5. /\ DOMAIN Given = 1 .. n
      /\ \A k \in 1 .. n :
           /\ Given[k].id = ds[k].id
           /\ Given[k].connection =
                IF \E j \in 1 .. n : j # k /\ ds[j].id = ds[k].id
                  THEN Obstruction ELSE ds[k].connection
  <2>1. CASE call.kind = "discover"
    BY <1>1, <1>2, <1>3, <1>4, <2>1, RuntimesObstructed
  <2>2. CASE call.kind # "discover"
    BY <1>1, <1>2, <1>4, <2>2, IdsObstructed
  <2> QED BY <2>1, <2>2
<1>6. /\ DOMAIN Loaded = 1 .. n
      /\ \A k \in 1 .. n :
           Loaded[k].connection =
             IF \E j \in 1 .. n : j # k /\ ds[j].id = ds[k].id
               THEN Obstruction ELSE ds[k].connection
  BY <1>1, <1>2, <1>5, ObstructedTwice DEF Loaded
<1>7. ASSUME NEW k \in 1 .. n
      PROVE  (\E j \in 1 .. n : j # k /\ ds[j].id = ds[k].id) <=> ~Unique(entries, k)
  BY <1>1, <1>3 DEF Unique
<1> QED BY <1>1, <1>3, <1>6, <1>7 DEF Sound

\* No session is opened for a target that shares its id, in whatever order the
\* entries come (duplicateRuntimeIds, obstructDuplicateIds).
THEOREM DuplicatesNeverOpened == Spec => []DuplicatesObstructed
<1>1. InspectionInv => DuplicatesObstructed
  <2> SUFFICES ASSUME InspectionInv, NEW entries \in EntryLists, NEW k \in DOMAIN entries,
                      ~Unique(entries, k)
               PROVE  /\ sessions # <<>> => sessions[k] = "OBSTRUCTED"
                      /\ \A records \in answer :
                           /\ call.kind = "targets"  => records[k].adapter = "OBSTRUCTED"
                           /\ call.kind = "hello"    => records[k].posture = "OBSTRUCTED"
                           /\ call.kind = "discover" => records[k].posture = "OBSTRUCTED"
    BY DEF DuplicatesObstructed
  <2>1. k \in DOMAIN Loaded /\ Loaded[k].connection = Obstruction
    BY LoadedFrom DEF InspectionInv, Sound
  <2>2. ASSUME AllLooked
        PROVE  /\ k \in DOMAIN descriptors
               /\ \A r \in DOMAIN looks :
                    /\ looks[r][k].mode = "descriptor-only"
                    /\ looks[r][k].root = "NOT_APPLICABLE"
                    /\ looks[r][k].adapter = "OBSTRUCTED"
    <3>1. k \in DOMAIN descriptors /\ descriptors[k].connection = Obstruction
      BY <2>1, <2>2, AllThere
    <3> QED BY <2>2, <3>1, SightingsOf DEF Obstruction, Connection
  <2>3. ASSUME sessions # <<>>
        PROVE  sessions[k] = "OBSTRUCTED"
    <3>1. AllLooked /\ DOMAIN sessions = DOMAIN descriptors
      BY <2>3 DEF InspectionInv, SessionsFit
    <3>2. Len(looks) \in DOMAIN looks
      BY <3>1, AllThere
    <3>3. SessionBegins(looks[Len(looks)][k]) = "OBSTRUCTED"
      BY <2>2, <3>1, <3>2 DEF SessionBegins
    <3> QED BY <2>2, <2>3, <3>1, <3>3 DEF InspectionInv, SessionsFit
  <2>4. ASSUME NEW records \in answer
        PROVE  /\ call.kind = "targets"  => records[k].adapter = "OBSTRUCTED"
               /\ call.kind = "hello"    => records[k].posture = "OBSTRUCTED"
               /\ call.kind = "discover" => records[k].posture = "OBSTRUCTED"
    <3>1. AllLooked /\ records = Records
      BY DEF InspectionInv, AnswerFits, Awaited
    <3>2. k \in DOMAIN descriptors /\ DOMAIN looks = 1 .. Looks[call.kind]
          /\ Len(looks) = Looks[call.kind]
      BY <2>2, <3>1, AllThere
    <3>3. CASE call.kind = "targets"
      <4>1. 1 \in DOMAIN looks
        BY <3>2, <3>3 DEF Looks
      <4> QED BY <2>2, <3>1, <3>2, <3>3, <4>1 DEF Records
    <3>4. CASE call.kind = "hello"
      <4>1. 1 \in DOMAIN looks /\ Len(looks) - 1 = 1
        BY <3>2, <3>4 DEF Looks
      <4>2. records[k] = RuntimeHello(looks[1][k], sessions[k])
        BY <3>1, <3>2, <3>4, <4>1 DEF Records, HelloTo
      <4> QED BY <2>2, <3>1, <3>4, <4>1, <4>2 DEF RuntimeHello, DescriptorOnlyHello, Hello
    <3>5. CASE call.kind = "discover"
      <4>1. 1 \in DOMAIN looks /\ records[k].posture =
               DiscoveryPosture(looks[1][k], RuntimeHello(looks[2][k], sessions[k]))
        BY <3>2, <3>5, DiscoveryRecords
      <4> QED BY <2>2, <3>1, <3>5, <4>1 DEF DiscoveryPosture
    <3> QED BY <3>3, <3>4, <3>5
  <2> QED BY <2>3, <2>4
<1> QED BY <1>1, InspectionSound, PTL

\* A target is REACHABLE exactly when its own entry says all it takes, its root
\* was there both times and its session opened (from normalizeRuntimeRegistry to
\* discoveryRecord).
THEOREM ReachabilityExact == Spec => []ReachableExactly
<1>1. InspectionInv => ReachableExactly
  <2> SUFFICES ASSUME InspectionInv, call.kind = "discover",
                      NEW records \in answer, NEW entries \in EntryLists,
                      NEW k \in DOMAIN entries
               PROVE  records[k].posture = "REACHABLE" <=>
                        /\ Openable(entries, k)
                        /\ \A r \in 1 .. 2 : looks[r][k].root = "PRESENT"
                        /\ sessions[k] = "PRESENT"
    BY DEF ReachableExactly
  <2> DEFINE raw        == entries[k]
             connection == ConnectionFromJson(raw.connection)
  <2>1. AllLooked
    BY DEF InspectionInv, AnswerFits, Awaited
  <2>2. k \in DOMAIN descriptors
        /\ descriptors[k].connection = IF Sound(entries, k) THEN connection ELSE Obstruction
    BY <2>1, AllThere, LoadedFrom DEF InspectionInv
  <2>3. /\ 1 \in DOMAIN looks /\ 2 \in DOMAIN looks
        /\ records[k].posture =
             DiscoveryPosture(looks[1][k], RuntimeHello(looks[2][k], sessions[k]))
    BY <2>2, DiscoveryRecords
  <2>4. /\ connection.mode = "git-warp" <=>
             /\ raw.connection.object /\ raw.connection.mode = {"git-warp"}
             /\ raw.connection.root # {} /\ raw.connection.graph # {}
        /\ connection.mode = "git-warp" => connection.root # {}
    BY GitWarpConnections
  <2>5. raw.metadata.fields \in Seq(ToSet(raw.metadata.fields))
    <3>1. raw \in ToSet(entries)
      <4>1. entries \in Seq(ToSet(entries))
        BY GivenFrom DEF InspectionInv
      <4> QED BY <4>1, ElementOfSeq, LenProperties
    <3> QED BY <3>1, GivenFrom DEF InspectionInv
  <2>6. Openable(entries, k) <=> Sound(entries, k) /\ connection.mode = "git-warp"
    BY <2>4, <2>5, MetadataRead DEF Openable, MetadataSound, Sound
  <2> HIDE DEF connection
  <2>7. Openable(entries, k) <=> descriptors[k].connection.mode = "git-warp"
    BY <2>2, <2>6, ObstructionConnects
  <2>8. descriptors[k].connection.mode = "git-warp" => descriptors[k].connection.root # {}
    BY <2>2, <2>4, ObstructionConnects
  <2>9. sessions[k] \in {"PRESENT", "OBSTRUCTED"}
    BY <2>2, AnsweredSessions
  <2> DEFINE one == looks[1][k]
             two == looks[2][k]
  <2>10. \A sighting \in {one, two} :
           /\ sighting.mode = descriptors[k].connection.mode
           /\ sighting.mode \in Modes /\ sighting.root \in RootPostures
           /\ sighting.mode = "git-warp" =>
                sighting.adapter = "CONFIGURED" /\ sighting.root # "NOT_APPLICABLE"
           /\ sighting.mode = "descriptor-only" =>
                sighting.adapter \in {"OBSTRUCTED", "UNSUPPORTED"}
    BY <2>1, <2>2, <2>3, <2>8, SightingsOf
  <2> HIDE DEF one, two
  <2>11. DiscoveryPosture(one, RuntimeHello(two, sessions[k])) = "REACHABLE" <=>
           /\ one.mode = "git-warp"
           /\ one.root # "MISSING" /\ two.root # "MISSING"
           /\ sessions[k] = "PRESENT"
    BY <2>9, <2>10, ReachableWhen
  <2>12. one.mode = "git-warp" =>
           /\ one.root # "MISSING" <=> one.root = "PRESENT"
           /\ two.root # "MISSING" <=> two.root = "PRESENT"
    BY <2>10 DEF RootPostures
  <2>13. (\A r \in 1 .. 2 : looks[r][k].root = "PRESENT") <=>
           one.root = "PRESENT" /\ two.root = "PRESENT"
    BY DEF one, two
  <2>14. records[k].posture = DiscoveryPosture(one, RuntimeHello(two, sessions[k]))
    BY <2>3 DEF one, two
  <2> QED BY <2>7, <2>10, <2>11, <2>12, <2>13, <2>14
<1> QED BY <1>1, InspectionSound, PTL

----------------------------------------------------------------------------
(* What a record says of the defects of its entry *)

LEMMA EntryDefects ==
  ASSUME NEW raw, NEW k
  PROVE  LET entry == EntryFromJson(raw, k)
         IN  /\ entry.redactions = IF raw.object THEN EntryRedactions(raw, k) ELSE {}
             /\ entry.runtime.metadata = IF raw.object THEN Metadata(raw.metadata).kept ELSE {}
BY DEF EntryFromJson, Normalization, Runtime

\* Of all that is redacted, what an entry finds is its own.
LEMMA RedactionsAre ==
  ASSUME NEW source, NEW entries, NEW k \in DOMAIN entries, entries[k].object
  PROVE  RedactionsOf(FromEntries(source, entries), k) = EntryRedactions(entries[k], k)
<1> DEFINE published == FromEntries(source, entries)
           Of(j)     == EntryFromJson(entries[j], j).redactions
<1>1. published.redactions = UNION {Of(j) : j \in DOMAIN entries}
  <2> DEFINE normalized == [j \in DOMAIN entries |-> EntryFromJson(entries[j], j)]
  <2>1. published.redactions = UNION {normalized[j]["redactions"] : j \in DOMAIN entries}
    BY DEF FromEntries, Registry
  <2>2. \A j \in DOMAIN entries : normalized[j] = EntryFromJson(entries[j], j)
    OBVIOUS
  <2> HIDE DEF normalized, published
  <2> QED BY <2>1, <2>2
<1>2. ASSUME NEW j \in DOMAIN entries, NEW redaction \in Of(j)
      PROVE  redaction.entry = j
  <2>1. Of(j) \in {EntryRedactions(entries[j], j), {}}
    BY EntryDefects
  <2> HIDE DEF Of
  <2> QED BY <2>1, <1>2 DEF EntryRedactions, Redactions
<1>3. Of(k) = EntryRedactions(entries[k], k)
  BY EntryDefects
<1> HIDE DEF published, Of
<1>4. {redaction \in published.redactions : redaction.entry = k} = Of(k)
  BY <1>1, <1>2
<1> QED BY <1>3, <1>4 DEF RedactionsOf, published

\* The registry says that an id is not one entry's own, and keeps the metadata.
LEMMA RegistrySays ==
  ASSUME NEW source, NEW entries, NEW k \in DOMAIN entries
  PROVE  LET published == FromEntries(source, entries)
         IN  /\ DuplicateIds(Normal(entries)) # {} =>
                  published.posture = "OBSTRUCTED" /\ "REGISTRY_DUPLICATE_ID" \in published.reasons
             /\ EntryFromJson(entries[k], k).reasons \subseteq published.reasons
             /\ published.reasons # {} => published.posture = "OBSTRUCTED"
             /\ published.runtimes[k].metadata = EntryFromJson(entries[k], k).runtime.metadata
<1> DEFINE published  == FromEntries(source, entries)
           normalized == [j \in DOMAIN entries |-> EntryFromJson(entries[j], j)]
           runtimes   == [j \in DOMAIN entries |-> normalized[j].runtime]
<1>1. runtimes = Normal(entries)
  <2>1. \A j \in DOMAIN entries : normalized[j] = EntryFromJson(entries[j], j)
    OBVIOUS
  <2> HIDE DEF normalized
  <2> QED BY <2>1 DEF Normal
<1> DEFINE own == UNION {normalized[j]["reasons"] : j \in DOMAIN entries}
<1>2. published.reasons =
        own \cup {"REGISTRY_DUPLICATE_ID" : id \in DuplicateIds(runtimes)}
  BY DEF FromEntries, Registry
<1>8. EntryFromJson(entries[k], k).reasons \subseteq own
  <2>1. normalized[k] = EntryFromJson(entries[k], k)
    OBVIOUS
  <2> HIDE DEF normalized
  <2> QED BY <2>1
<1>3. published.posture = IF published.reasons = {} THEN "PRESENT" ELSE "OBSTRUCTED"
  BY DEF FromEntries, Registry
<1>4. published.runtimes = ObstructDuplicates(Normal(entries))
  BY EntriesNormalised
<1> HIDE DEF published, runtimes, own
<1>5. DuplicateIds(Normal(entries)) # {} =>
        published.posture = "OBSTRUCTED" /\ "REGISTRY_DUPLICATE_ID" \in published.reasons
  BY <1>1, <1>2, <1>3
<1>6. published.runtimes[k].metadata = Normal(entries)[k].metadata
  <2>1. k \in DOMAIN Normal(entries)
    BY DEF Normal
  <2> QED BY <1>4, <2>1 DEF ObstructDuplicates
<1>7. Normal(entries)[k] = EntryFromJson(entries[k], k).runtime
  BY DEF Normal
<1> QED BY <1>2, <1>3, <1>5, <1>6, <1>7, <1>8 DEF published

\* An id that is not an entry's own is among the duplicates of its registry.
LEMMA SharedIds ==
  ASSUME call \in [kind : Kinds, config : Configurations], call.kind = "discover",
         NEW entries \in EntryLists, NEW k \in DOMAIN entries, ~Unique(entries, k)
  PROVE  DuplicateIds(Normal(entries)) # {}
<1> DEFINE n == Len(entries)
<1>1. n \in Nat /\ DOMAIN entries = 1 .. n
  BY DocumentFrom, LenProperties
<1>2. DOMAIN Normal(entries) = 1 .. n
  BY <1>1 DEF Normal
<1>3. ASSUME NEW j \in 1 .. n PROVE Normal(entries)[j].id = IdOf(entries, j)
  <2>1. Normal(entries)[j] = EntryFromJson(entries[j], j).runtime
    BY <1>1 DEF Normal
  <2>2. EntryFromJson(entries[j], j).runtime.id =
          IF entries[j].object /\ entries[j].id # {}
            THEN CHOOSE id \in entries[j].id : TRUE ELSE EntryId[j]
    BY EntryRuntime
  <2> QED BY <2>1, <2>2 DEF IdOf
<1>4. \E j \in 1 .. n : j # k /\ Normal(entries)[j].id = Normal(entries)[k].id
  BY <1>1, <1>3 DEF Unique
<1> QED BY <1>1, <1>2, <1>4, DuplicateIdsAre

\* An entry's own defect is reported for it, and it is obstructed.
LEMMA OwnDefectsAre ==
  ASSUME NEW raw, NEW k, raw.metadata.fields \in Seq(ToSet(raw.metadata.fields))
  PROVE  /\ OwnDefects(raw) \subseteq EntryFromJson(raw, k).reasons
         /\ OwnDefects(raw) # {} /\ raw.object /\ raw.id # {}
              /\ Metadata(raw.metadata).valid
                => ConnectionFromJson(raw.connection) = Obstruction
<1>1. Metadata(raw.metadata).valid <=> MetadataSound(raw)
  BY MetadataRead DEF MetadataSound
<1>2. ASSUME \/ ~raw.connection.object \/ raw.connection.mode = {}
             \/ /\ raw.connection.mode = {"git-warp"}
                /\ raw.connection.root = {} \/ raw.connection.graph = {}
      PROVE  ConnectionFromJson(raw.connection) = Obstruction
  BY <1>2 DEF ConnectionFromJson, ConnectionForMode
<1>3. Obstruction.posture = {"OBSTRUCTED"}
  BY DEF Obstruction, Connection
<1>4. CASE ~raw.object
  BY <1>4 DEF OwnDefects, EntryFromJson, Normalization
<1>5. CASE raw.object /\ raw.id = {}
  BY <1>5 DEF OwnDefects, EntryFromJson, Normalization
<1>6. CASE raw.object /\ raw.id # {} /\ ~MetadataSound(raw)
  BY <1>1, <1>6 DEF OwnDefects, EntryFromJson, Normalization
<1>7. CASE raw.object /\ raw.id # {} /\ MetadataSound(raw)
  <2>1. CASE OwnDefects(raw) = {}
    BY <2>1
  <2>2. CASE OwnDefects(raw) # {}
    <3>1. /\ OwnDefects(raw) = {"REGISTRY_ENTRY_CONNECTION_OBSTRUCTED"}
          /\ \/ ~raw.connection.object \/ raw.connection.mode = {}
             \/ /\ raw.connection.mode = {"git-warp"}
                /\ raw.connection.root = {} \/ raw.connection.graph = {}
      BY <1>7, <2>2 DEF OwnDefects
    <3>2. ConnectionFromJson(raw.connection) = Obstruction
      BY <1>2, <3>1
    <3>3. EntryFromJson(raw, k).reasons = {"REGISTRY_ENTRY_CONNECTION_OBSTRUCTED"}
      BY <1>1, <1>3, <1>7, <3>2 DEF EntryFromJson, Normalization
    <3> QED BY <3>1, <3>2, <3>3
  <2> QED BY <2>1, <2>2
<1> QED BY <1>4, <1>5, <1>6, <1>7

\* What a record names, whatever the other entries hold: every redaction of its
\* own entry and no other, the defect of its entry and an id it shares; and no
\* defect of another entry if its own can be opened.  Nothing that was redacted
\* is kept (redactionForIndex, metadataFieldsFromJson, registryReasons).
THEOREM DefectsAreNamed == Spec => []DefectsNamed
<1>1. InspectionInv => DefectsNamed
  <2> SUFFICES ASSUME InspectionInv, call.kind = "discover",
                      NEW records \in answer, NEW entries \in EntryLists,
                      NEW k \in DOMAIN entries
               PROVE  LET fields  == entries[k].metadata.fields
                          secrets == {i \in DOMAIN fields : fields[i].secret}
                          Named(part, names) ==
                            {[entry |-> k, part |-> part, name |-> name] : name \in names}
                      IN  /\ ~Unique(entries, k) =>
                               "REGISTRY_DUPLICATE_ID" \in records[k].reasons
                          /\ OwnDefects(entries[k]) \subseteq records[k].reasons
                          /\ Openable(entries, k) => records[k].reasons \cap EntryCodes = {}
                          /\ entries[k].object =>
                               /\ records[k].redactions =
                                    Named("connection", entries[k].connection.secrets)
                                    \cup Named("metadata",
                                           {fields[i].name : i \in
                                              {j \in secrets : \A h \in 1 .. j : ~Invalid(fields[h])}})
                               /\ \A i \in secrets : fields[i] \notin registry.runtimes[k].metadata
    BY DEF DefectsNamed
  <2> DEFINE raw == entries[k]
  <2>0. call \in [kind : Kinds, config : Configurations]
    BY DEF InspectionInv
  <2>1. AllLooked
    BY DEF InspectionInv, AnswerFits, Awaited
  <2>2. k \in DOMAIN descriptors
        /\ descriptors[k].connection =
             IF Sound(entries, k) THEN ConnectionFromJson(raw.connection) ELSE Obstruction
    BY <2>1, AllThere, LoadedFrom DEF InspectionInv
  <2>3. PICK source : registry = FromEntries(source, entries)
    BY <2>0, <2>1, AllThere, DocumentFrom DEF RegistryInUse
  <2> DEFINE hello == RuntimeHello(looks[2][k], sessions[k])
  <2>4. 1 \in DOMAIN looks /\ 2 \in DOMAIN looks
    BY <2>2, DiscoveryRecords
  <2>5. records[k] = DiscoveryRecord(looks[1][k], hello, registry, k)
    <3>1. Len(looks) - 1 = 2
      BY <2>1, AllThere DEF Looks
    <3>2. records = Records
      BY DEF InspectionInv, AnswerFits
    <3> QED BY <2>2, <3>1, <3>2 DEF Records, HelloTo
  <2>8. raw.metadata.fields \in Seq(ToSet(raw.metadata.fields))
    <3>1. entries \in Seq(ToSet(entries)) /\ raw \in ToSet(entries)
      BY <2>0, DocumentFrom, ElementOfSeq, LenProperties
    <3> QED BY <2>0, <3>1, DocumentFrom
  <2>9. ASSUME OwnDefects(raw) # {}
        PROVE  OwnDefects(raw) \subseteq records[k].reasons
    <3>1. descriptors[k].connection = Obstruction
      BY <2>2, <2>8, <2>9, OwnDefectsAre DEF Sound
    <3>2. looks[1][k].adapter = "OBSTRUCTED"
      BY <2>1, <2>2, <2>4, <3>1, SightingsOf DEF Obstruction, Connection
    <3>3. OwnDefects(raw) \subseteq registry.reasons
      BY <2>3, <2>8, OwnDefectsAre, RegistrySays
    <3>4. registry.posture = "OBSTRUCTED"
      BY <2>3, <2>9, <3>3, RegistrySays
    <3>5. OwnDefects(raw) \subseteq RegistryReasons(registry, looks[1][k])
      BY <3>2, <3>3, <3>4 DEF RegistryReasons
    <3> HIDE DEF RegistryReasons
    <3> QED BY <2>5, <3>5 DEF DiscoveryRecord
  <2>10. ASSUME Openable(entries, k)
         PROVE  records[k].reasons \cap EntryCodes = {}
    <3>1. descriptors[k].connection.mode = "git-warp"
      <4>1. Sound(entries, k)
        BY <2>8, <2>10, MetadataRead DEF Openable, MetadataSound, Sound
      <4>2. ConnectionFromJson(raw.connection).mode = "git-warp"
        BY <2>10, GitWarpConnections DEF Openable
      <4> QED BY <2>2, <4>1, <4>2
    <3>2. /\ looks[1][k].mode = "git-warp" /\ looks[1][k].adapter = "CONFIGURED"
          /\ looks[2][k].mode = "git-warp"
      BY <2>1, <2>2, <2>4, <3>1, SightingsOf
    <3>3. hello.posture \in {"UNAVAILABLE", "OBSTRUCTED", "PRESENT"}
      <4>1. sessions[k] \in {"PRESENT", "OBSTRUCTED"}
        BY <2>2, AnsweredSessions
      <4> QED BY <3>2, <4>1 DEF RuntimeHello, GitWarpHello, Hello
    <3>4. RegistryReasons(registry, looks[1][k]) = {}
      BY <3>2 DEF RegistryReasons
    <3>5. TargetReason(looks[1][k]) \subseteq {"LOCAL_ROOT_MISSING"}
      BY <3>2 DEF TargetReason, EndpointUnsupported
    <3> HIDE DEF hello
    <3>6. records[k].reasons \subseteq
            {"LOCAL_ROOT_MISSING", "UNAVAILABLE", "OBSTRUCTED", "PRESENT",
             "REGISTRY_SECRET_FIELD_REDACTED"}
      BY <2>5, <3>3, <3>4, <3>5 DEF DiscoveryRecord
    <3> QED BY <3>6 DEF EntryCodes
  <2> HIDE DEF hello
  <2>6. ASSUME ~Unique(entries, k)
        PROVE  "REGISTRY_DUPLICATE_ID" \in records[k].reasons
    <3>1. descriptors[k].connection = Obstruction
      BY <2>2, <2>6 DEF Sound
    <3>2. looks[1][k].adapter = "OBSTRUCTED"
      BY <2>1, <2>2, <2>4, <3>1, SightingsOf DEF Obstruction, Connection
    <3>3. registry.posture = "OBSTRUCTED" /\ "REGISTRY_DUPLICATE_ID" \in registry.reasons
      BY <2>0, <2>3, <2>6, SharedIds, RegistrySays
    <3>4. "REGISTRY_DUPLICATE_ID" \in RegistryReasons(registry, looks[1][k])
      BY <3>2, <3>3 DEF RegistryReasons
    <3> HIDE DEF RegistryReasons
    <3> QED BY <2>5, <3>4 DEF DiscoveryRecord
  <2> DEFINE fields  == raw.metadata.fields
             secrets == {i \in DOMAIN fields : fields[i].secret}
             clear   == {j \in secrets : \A h \in 1 .. j : ~Invalid(fields[h])}
  <2>7. ASSUME raw.object
        PROVE  /\ records[k].redactions =
                    {[entry |-> k, part |-> "connection", name |-> name] :
                       name \in raw.connection.secrets}
                    \cup {[entry |-> k, part |-> "metadata", name |-> name] :
                            name \in {fields[i].name : i \in clear}}
               /\ \A i \in secrets : fields[i] \notin registry.runtimes[k].metadata
    <3>1. fields \in Seq(ToSet(fields))
      BY <2>8
    <3>2. /\ Metadata(raw.metadata).hidden = {fields[i].name : i \in clear}
          /\ \A i \in secrets : fields[i] \notin Metadata(raw.metadata).kept
      BY <3>1, MetadataRead
    <3>3. records[k].redactions = RedactionsOf(registry, k)
      BY <2>5 DEF DiscoveryRecord
    <3>4. RedactionsOf(registry, k) = EntryRedactions(raw, k)
      BY <2>3, <2>7, RedactionsAre
    <3>5. registry.runtimes[k].metadata = Metadata(raw.metadata).kept
      BY <2>3, <2>7, RegistrySays, EntryDefects
    <3> HIDE DEF clear, secrets, fields
    <3> QED BY <3>2, <3>3, <3>4, <3>5 DEF EntryRedactions, Redactions
  <2> QED BY <2>6, <2>7, <2>9, <2>10
<1> QED BY <1>1, InspectionSound, PTL

----------------------------------------------------------------------------
(* Paths under a root *)

\* One step of the normalisation of a path.
Walked(path, segment) ==
  CASE segment = "." -> path
    [] segment = ".." /\ path # <<>> /\ Last(path) # ".." -> Front(path)
    [] OTHER -> Append(path, segment)

\* The fold over a path is there for every path, and takes one step after the
\* other.
LEMMA NormalizedWalk ==
  ASSUME NEW S, NEW segments \in Seq(S)
  PROVE  \E walk : /\ walk[0] = <<>>
                   /\ \A k \in 1 .. Len(segments) : walk[k] = Walked(walk[k - 1], segments[k])
                   /\ Normalized(segments) = walk[Len(segments)]
<1> DEFINE n == Len(segments)
           Unfolds(f, m) ==
             f = [s \in SUBSET (1 .. m) |->
                    IF s = {} THEN <<>> ELSE Walked(f[s \ {Max(s)}], segments[Max(s)])]
           T == {m \in 0 .. n : \E f : Unfolds(f, m)}
<1>1. n \in Nat /\ DOMAIN segments = 1 .. n
  BY LenProperties
<1>2. ASSUME NEW m \in Nat, NEW s \in SUBSET (1 .. m), m \in s
      PROVE  Max(s) = m
  <2>1. \A x \in s : x \in Nat /\ x <= m
    OBVIOUS
  <2>2. \A x \in s : (\A y \in s : x >= y) <=> x = m
    BY <1>2, <2>1
  <2>3. Max(s) \in s /\ \A y \in s : Max(s) >= y
    BY <1>2, <2>2 DEF Max
  <2> QED BY <2>2, <2>3
<1>3. 0 \in T
  <2> DEFINE f == [s \in SUBSET (1 .. 0) |-> <<>>]
  <2>1. SUBSET (1 .. 0) = {{}}
    OBVIOUS
  <2>2. Unfolds(f, 0)
    BY <2>1
  <2> HIDE DEF f, Unfolds
  <2> QED BY <1>1, <2>2
<1>4. ASSUME NEW m \in Nat, m < n, m \in T
      PROVE  m + 1 \in T
  <2>1. PICK f : Unfolds(f, m)
    BY <1>4
  <2> DEFINE g == [s \in SUBSET (1 .. m + 1) |->
                     IF m + 1 \in s THEN Walked(f[s \ {m + 1}], segments[m + 1]) ELSE f[s]]
  <2>2. ASSUME NEW s \in SUBSET (1 .. m + 1)
        PROVE  g[s] = IF s = {} THEN <<>> ELSE Walked(g[s \ {Max(s)}], segments[Max(s)])
    <3> HIDE DEF T
    <3>1. CASE m + 1 \in s
      <4>1. Max(s) = m + 1
        BY <1>2, <3>1
      <4>2. /\ s \ {m + 1} \in SUBSET (1 .. m + 1) /\ m + 1 \notin s \ {m + 1}
        OBVIOUS
      <4>3. g[s \ {m + 1}] = f[s \ {m + 1}]
        BY <4>2
      <4> QED BY <3>1, <4>1, <4>3
    <3>2. CASE m + 1 \notin s
      <4>1. s \in SUBSET (1 .. m)
        BY <3>2
      <4>2. f[s] = IF s = {} THEN <<>> ELSE Walked(f[s \ {Max(s)}], segments[Max(s)])
        BY <2>1, <4>1
      <4>3. g[s] = f[s] /\ g[s \ {Max(s)}] = f[s \ {Max(s)}]
        BY <3>2
      <4> QED BY <4>2, <4>3
    <3> QED BY <3>1, <3>2
  <2>3. Unfolds(g, m + 1)
    <3>1. g = [s \in SUBSET (1 .. m + 1) |-> g[s]]
      OBVIOUS
    <3> HIDE DEF g
    <3> QED BY <2>2, <3>1
  <2> HIDE DEF g, Unfolds
  <2> QED BY <1>1, <1>4, <2>3
<1> HIDE DEF T
<1>5. n \in T
  <2>1. \A k \in 0 .. n : k \in T
    BY <1>1, <1>3, <1>4, UpTo
  <2> QED BY <1>1, <2>1
<1> DEFINE iter == CHOOSE f : Unfolds(f, n)
           walk == [k \in 0 .. n |-> iter[1 .. k]]
<1>6. Unfolds(iter, n)
  <2>1. \E f : Unfolds(f, n)
    BY <1>5 DEF T
  <2> HIDE DEF Unfolds
  <2> QED BY <2>1
<1>7. Normalized(segments) = iter[1 .. n]
  BY <1>1 DEF Normalized, FoldLeft, MapThenFoldSet, Walked
<1> HIDE DEF iter
<1>8. walk[0] = <<>>
  <2>1. 1 .. 0 = {} /\ 0 \in 0 .. n
    BY <1>1
  <2> QED BY <1>6, <2>1
<1>9. ASSUME NEW k \in 1 .. n
      PROVE  walk[k] = Walked(walk[k - 1], segments[k])
  <2>1. k \in Nat /\ k \in 0 .. n /\ k - 1 \in 0 .. n
    BY <1>1
  <2>2. 1 .. k \in SUBSET (1 .. n) /\ k \in 1 .. k
    BY <1>1
  <2>3. (1 .. k) \ {k} = 1 .. k - 1
    BY <2>1
  <2>4. Max(1 .. k) = k
    BY <1>2, <2>1, <2>2
  <2>5. iter[1 .. k] = Walked(iter[1 .. k - 1], segments[k])
    BY <1>6, <2>2, <2>3, <2>4
  <2> QED BY <2>1, <2>5
<1>10. walk[n] = iter[1 .. n]
  BY <1>1
<1> HIDE DEF walk
<1> QED BY <1>7, <1>8, <1>9, <1>10

Leads(path) == path # <<>> /\ path[1] = ".."
Clean(path) == \A i \in 1 .. Len(path) : path[i] # ".."

\* A segment lengthens the path, leaves it or takes its last segment off; one that
\* leads up goes on to, and one without ".." gets one only when it is empty.
LEMMA OneSegment ==
  ASSUME NEW S, NEW path \in Seq(S), NEW segment \in S
  PROVE  LET next == Walked(path, segment)
         IN  /\ next \in Seq(S)
             /\ Leads(path) => Leads(next)
             /\ Clean(path) => Clean(next) \/ Leads(next)
             /\ Clean(path) /\ segment = ".." /\ path = <<>> => Leads(next)
             /\ Clean(path) /\ path # <<>> => Clean(next)
             /\ Clean(path) /\ segment # ".." => Clean(next)
             /\ Len(next) = IF segment = "." THEN Len(path)
                            ELSE IF segment = ".." /\ path # <<>> /\ Last(path) # ".."
                              THEN Len(path) - 1 ELSE Len(path) + 1
<1> DEFINE n == Len(path)
<1>1. n \in Nat /\ (path # <<>> <=> n # 0) /\ (path # <<>> => path[n] \in S /\ path[1] \in S)
  <2>1. n \in Nat /\ (n = 0 <=> path = <<>>)
    BY LenProperties, EmptySeq
  <2> QED BY <2>1, ElementOfSeq
<1>2. CASE segment = "."
  <2>1. Walked(path, segment) = path
    BY <1>2 DEF Walked
  <2> QED BY <1>2, <2>1
<1>3. CASE segment = ".." /\ path # <<>> /\ Last(path) # ".."
  <2>1. Walked(path, segment) = Front(path)
    BY <1>3 DEF Walked
  <2>2. /\ Front(path) \in Seq(S)
        /\ Len(Front(path)) = n - 1
        /\ \A i \in 1 .. n - 1 : Front(path)[i] = path[i]
    <3>1. \A i \in 1 .. n - 1 : path[i] \in S
      BY <1>1, ElementOfSeq
    <3>2. /\ SubSeq(path, 1, n - 1) \in Seq(S)
          /\ Len(SubSeq(path, 1, n - 1)) = IF 1 <= n - 1 THEN (n - 1) - 1 + 1 ELSE 0
          /\ \A i \in 1 .. (n - 1) - 1 + 1 : SubSeq(path, 1, n - 1)[i] = path[1 + i - 1]
      BY <1>1, <3>1, SubSeqProperties
    <3>0. n \in Nat /\ n # 0
      BY <1>1, <1>3
    <3>3. /\ n - 1 \in Nat /\ (n - 1) - 1 + 1 = n - 1
          /\ (IF 1 <= n - 1 THEN (n - 1) - 1 + 1 ELSE 0) = n - 1
          /\ \A i \in 1 .. n - 1 : 1 + i - 1 = i
      <4> HIDE DEF n
      <4> QED BY <3>0
    <3>4. Front(path) = SubSeq(path, 1, n - 1)
      BY DEF Front
    <3> QED BY <3>2, <3>3, <3>4
  <2>3. Leads(path) => n # 1
    BY <1>3 DEF Leads, Last
  <2>4. Leads(path) => Leads(Front(path))
    <3>1. Leads(path) => Len(Front(path)) # 0 /\ Front(path)[1] = ".."
      BY <1>1, <2>2, <2>3 DEF Leads
    <3> QED BY <2>2, <3>1, EmptySeq DEF Leads
  <2>5. Clean(path) => Clean(Front(path))
    BY <1>1, <2>2 DEF Clean
  <2> QED BY <1>1, <1>3, <2>1, <2>2, <2>4, <2>5
<1>4. CASE /\ segment # "."
           /\ ~(segment = ".." /\ path # <<>> /\ Last(path) # "..")
  <2>1. Walked(path, segment) = Append(path, segment)
    BY <1>4 DEF Walked
  <2>2. /\ Append(path, segment) \in Seq(S)
        /\ Append(path, segment) # <<>>
        /\ Len(Append(path, segment)) = n + 1
        /\ \A i \in 1 .. n : Append(path, segment)[i] = path[i]
        /\ Append(path, segment)[n + 1] = segment
    BY AppendProperties
  <2>3. Leads(path) => Leads(Append(path, segment))
    BY <1>1, <2>2 DEF Leads
  <2>4. Clean(path) /\ segment # ".." => Clean(Append(path, segment))
    BY <1>1, <2>2 DEF Clean
  <2>5. segment = ".." /\ path = <<>> => Leads(Append(path, segment))
    BY <1>1, <2>2 DEF Leads
  <2>6. Clean(path) /\ path # <<>> => segment # ".."
    BY <1>1, <1>4 DEF Clean, Last
  <2> QED BY <1>4, <2>1, <2>2, <2>3, <2>4, <2>5, <2>6
<1> QED BY <1>2, <1>3, <1>4

\* A path that leads up has always done so; the others have no ".." at all.
LEMMA WalkCleanOrLeads ==
  ASSUME NEW S, NEW s \in Seq(S), NEW walk, walk[0] = <<>>,
         \A k \in 1 .. Len(s) : walk[k] = Walked(walk[k - 1], s[k])
  PROVE  \A k \in 0 .. Len(s) :
           /\ walk[k] \in Seq(S)
           /\ Clean(walk[k]) \/ Leads(walk[k])
           /\ k # Len(s) /\ Leads(walk[k]) => Leads(walk[k + 1])
<1> DEFINE n == Len(s)
           T == {k \in 0 .. n : walk[k] \in Seq(S) /\ (Clean(walk[k]) \/ Leads(walk[k]))}
<1>1. n \in Nat /\ \A k \in 1 .. n : s[k] \in S
  BY LenProperties, ElementOfSeq
<1>2. 0 \in T
  <2>1. walk[0] \in Seq(S) /\ Len(walk[0]) = 0
    BY EmptySeq
  <2>2. Clean(walk[0])
    BY <2>1 DEF Clean
  <2>3. 0 \in 0 .. n
    BY <1>1
  <2> QED BY <2>1, <2>2, <2>3, Zenon
<1>3. ASSUME NEW k \in Nat, k < n, walk[k] \in Seq(S)
      PROVE  /\ walk[k + 1] \in Seq(S)
             /\ Leads(walk[k]) => Leads(walk[k + 1])
             /\ Clean(walk[k]) => Clean(walk[k + 1]) \/ Leads(walk[k + 1])
  <2>1. k + 1 \in 1 .. n /\ (k + 1) - 1 = k
    BY <1>1, <1>3
  <2>2. walk[k + 1] = Walked(walk[k], s[k + 1]) /\ s[k + 1] \in S
    BY <1>1, <2>1
  <2> QED BY <1>3, <2>2, OneSegment
<1>4. ASSUME NEW k \in Nat, k < n, k \in T PROVE k + 1 \in T
  BY <1>1, <1>3, <1>4
<1> HIDE DEF T
<1>5. \A k \in 0 .. n : k \in T
  BY <1>1, <1>2, <1>4, UpTo
<1>6. ASSUME NEW k \in 0 .. n
      PROVE  /\ walk[k] \in Seq(S)
             /\ Clean(walk[k]) \/ Leads(walk[k])
             /\ k # n /\ Leads(walk[k]) => Leads(walk[k + 1])
  <2>1. walk[k] \in Seq(S) /\ (Clean(walk[k]) \/ Leads(walk[k]))
    BY <1>5 DEF T
  <2>2. k # n => k \in Nat /\ k < n
    BY <1>1
  <2> QED BY <1>3, <2>1, <2>2
<1> QED BY <1>6

\* Once it leads up, to the end.
LEMMA LeadsToTheEnd ==
  ASSUME NEW S, NEW s \in Seq(S), NEW walk, walk[0] = <<>>,
         \A k \in 1 .. Len(s) : walk[k] = Walked(walk[k - 1], s[k]),
         ~Leads(walk[Len(s)])
  PROVE  \A k \in 0 .. Len(s) : walk[k] \in Seq(S) /\ Clean(walk[k]) /\ ~Leads(walk[k])
<1> DEFINE n == Len(s)
           T == {k \in 0 .. n : ~Leads(walk[n - k])}
<1>1. n \in Nat
  BY LenProperties
<1>2. \A k \in 0 .. n : /\ walk[k] \in Seq(S)
                        /\ Clean(walk[k]) \/ Leads(walk[k])
                        /\ k # n /\ Leads(walk[k]) => Leads(walk[k + 1])
  BY WalkCleanOrLeads
<1>3. 0 \in T
  BY <1>1
<1>4. ASSUME NEW k \in Nat, k < n, k \in T PROVE k + 1 \in T
  <2>1. /\ n - (k + 1) \in 0 .. n /\ n - (k + 1) # n /\ (n - (k + 1)) + 1 = n - k
        /\ k + 1 \in 0 .. n
    BY <1>1, <1>4
  <2>2. ~Leads(walk[n - k])
    BY <1>4
  <2>3. ~Leads(walk[n - (k + 1)])
    BY <1>2, <2>1, <2>2
  <2> QED BY <2>1, <2>3
<1> HIDE DEF T
<1>5. \A k \in 0 .. n : k \in T
  BY <1>1, <1>3, <1>4, UpTo
<1>6. ASSUME NEW k \in 0 .. n PROVE ~Leads(walk[k])
  <2>1. n - k \in T /\ n - (n - k) = k
    BY <1>1, <1>5
  <2> QED BY <2>1 DEF T
<1> QED BY <1>2, <1>6

\* A path that does not lead up leads nowhere else from a place that does not.
LEMMA JoinedStays ==
  ASSUME NEW S, NEW root \in Seq(S), NEW file \in Seq(S),
         ~Leads(Normalized(root)), ~Leads(Normalized(file))
  PROVE  ~Leads(Normalized(root \o file))
<1> DEFINE m == Len(root)
           n == Len(file)
           joined == root \o file
<1>1. /\ m \in Nat /\ n \in Nat /\ joined \in Seq(S) /\ Len(joined) = m + n
      /\ \A k \in 1 .. m + n : joined[k] = IF k <= m THEN root[k] ELSE file[k - m]
      /\ \A k \in 1 .. n : file[k] \in S
  BY LenProperties, ConcatProperties, ElementOfSeq
<1>2. PICK at : /\ at[0] = <<>>
                /\ \A k \in 1 .. m : at[k] = Walked(at[k - 1], root[k])
                /\ Normalized(root) = at[m]
  BY NormalizedWalk
<1>3. PICK from : /\ from[0] = <<>>
                  /\ \A k \in 1 .. n : from[k] = Walked(from[k - 1], file[k])
                  /\ Normalized(file) = from[n]
  BY NormalizedWalk
<1>4. PICK walk : /\ walk[0] = <<>>
                  /\ \A k \in 1 .. m + n : walk[k] = Walked(walk[k - 1], joined[k])
                  /\ Normalized(joined) = walk[m + n]
  BY <1>1, NormalizedWalk
<1> HIDE DEF m, n, joined
<1>5. \A k \in 0 .. m : walk[k] = at[k]
  <2> DEFINE T == {k \in 0 .. m : walk[k] = at[k]}
  <2>1. 0 \in T
    BY <1>1, <1>2, <1>4
  <2>2. ASSUME NEW k \in Nat, k < m, k \in T PROVE k + 1 \in T
    <3>1. k + 1 \in 1 .. m /\ k + 1 \in 1 .. m + n /\ (k + 1) - 1 = k /\ k + 1 <= m
      BY <1>1, <2>2
    <3>2. walk[k + 1] = Walked(walk[k], root[k + 1]) /\ at[k + 1] = Walked(at[k], root[k + 1])
      BY <1>1, <1>2, <1>4, <3>1
    <3> QED BY <2>2, <3>1, <3>2
  <2> HIDE DEF T
  <2>3. \A k \in 0 .. m : k \in T
    BY <1>1, <2>1, <2>2, UpTo
  <2> QED BY <2>3 DEF T
<1>6. walk[m] \in Seq(S) /\ Clean(walk[m])
  <2>1. ~Leads(at[m]) /\ m \in 0 .. m
    BY <1>1, <1>2
  <2>2. \A k \in 0 .. m : at[k] \in Seq(S) /\ Clean(at[k])
    BY <1>2, <2>1, LeadsToTheEnd DEF m
  <2> QED BY <1>1, <1>5, <2>1, <2>2
<1>7. \A k \in 0 .. n : from[k] \in Seq(S) /\ Clean(from[k]) /\ ~Leads(from[k])
  <2>1. ~Leads(from[n])
    BY <1>3
  <2> QED BY <1>3, <2>1, LeadsToTheEnd DEF n
<1>8. \A k \in 0 .. n : /\ walk[m + k] \in Seq(S) /\ Clean(walk[m + k])
                        /\ Len(walk[m + k]) >= Len(from[k])
  <2> DEFINE Ahead(k) == /\ walk[m + k] \in Seq(S) /\ Clean(walk[m + k])
                         /\ Len(walk[m + k]) >= Len(from[k])
             T == {k \in 0 .. n : Ahead(k)}
  <2>1. 0 \in T
    <3>1. Len(from[0]) = 0 /\ Len(walk[m]) \in Nat /\ m + 0 = m
      BY <1>1, <1>3, <1>6, EmptySeq, LenProperties
    <3> QED BY <1>1, <1>6, <3>1
  <2>2. ASSUME NEW k \in Nat, k < n, Ahead(k) PROVE Ahead(k + 1)
    <3>1. /\ k + 1 \in 1 .. n /\ k \in 0 .. n /\ (k + 1) - 1 = k /\ k + 1 \in 0 .. n
          /\ m + (k + 1) \in 1 .. m + n /\ (m + (k + 1)) - 1 = m + k
          /\ ~(m + (k + 1) <= m) /\ (m + (k + 1)) - m = k + 1
      BY <1>1, <2>2
    <3> DEFINE segment == file[k + 1]
               one     == from[k]
               both    == walk[m + k]
    <3>2. joined[m + (k + 1)] = segment /\ segment \in S
      BY <1>1, <3>1
    <3>3. walk[m + (k + 1)] = Walked(both, segment) /\ from[k + 1] = Walked(one, segment)
      BY <1>3, <1>4, <3>1, <3>2
    <3>4. /\ one \in Seq(S) /\ Clean(one) /\ ~Leads(from[k + 1])
          /\ both \in Seq(S) /\ Clean(both) /\ Len(both) >= Len(one)
      BY <1>7, <2>2, <3>1
    <3> HIDE DEF segment, one, both
    <3>5. segment = ".." => one # <<>>
      BY <3>2, <3>3, <3>4, OneSegment
    <3>6. /\ Len(one) \in Nat /\ Len(both) \in Nat
          /\ Len(one) = 0 <=> one = <<>>
          /\ Len(both) = 0 <=> both = <<>>
      BY <3>4, EmptySeq, LenProperties
    <3>7. segment = ".." => both # <<>> /\ Last(both) # ".." /\ Last(one) # ".."
      BY <3>4, <3>5, <3>6 DEF Clean, Last
    <3>8. /\ Walked(both, segment) \in Seq(S)
          /\ Clean(Walked(both, segment))
          /\ Len(Walked(both, segment)) = IF segment = "." THEN Len(both)
               ELSE IF segment = ".." THEN Len(both) - 1 ELSE Len(both) + 1
      <4>1. /\ Walked(both, segment) \in Seq(S)
            /\ both # <<>> => Clean(Walked(both, segment))
            /\ segment # ".." => Clean(Walked(both, segment))
            /\ Len(Walked(both, segment)) = IF segment = "." THEN Len(both)
                 ELSE IF segment = ".." /\ both # <<>> /\ Last(both) # ".."
                   THEN Len(both) - 1 ELSE Len(both) + 1
        BY <3>2, <3>4, OneSegment
      <4> QED BY <3>7, <4>1
    <3>9. Len(Walked(one, segment)) = IF segment = "." THEN Len(one)
            ELSE IF segment = ".." THEN Len(one) - 1 ELSE Len(one) + 1
      <4>1. Len(Walked(one, segment)) = IF segment = "." THEN Len(one)
              ELSE IF segment = ".." /\ one # <<>> /\ Last(one) # ".."
                THEN Len(one) - 1 ELSE Len(one) + 1
        BY <3>2, <3>4, OneSegment
      <4> QED BY <3>5, <3>7, <4>1
    <3>10. Len(Walked(both, segment)) >= Len(Walked(one, segment))
      BY <3>4, <3>6, <3>8, <3>9
    <3> QED BY <3>3, <3>8, <3>10
  <2>3. ASSUME NEW k \in Nat, k < n, k \in T PROVE k + 1 \in T
    <3>1. Ahead(k)
      BY <2>3
    <3> HIDE DEF Ahead
    <3>2. Ahead(k + 1)
      BY <2>2, <2>3, <3>1
    <3> QED BY <1>1, <2>3, <3>2
  <2> HIDE DEF T
  <2>4. \A k \in 0 .. n : k \in T
    BY <1>1, <2>1, <2>3, UpTo
  <2> QED BY <2>4 DEF T
<1>9. walk[m + n] \in Seq(S) /\ Clean(walk[m + n])
  <2>1. n \in 0 .. n
    BY <1>1
  <2> QED BY <1>8, <2>1
<1>10. ~Leads(walk[m + n])
  <2>1. walk[m + n] # <<>> => 1 \in 1 .. Len(walk[m + n])
    BY <1>9, EmptySeq, LenProperties
  <2> QED BY <1>9, <2>1 DEF Leads, Clean
<1> QED BY <1>4, <1>10 DEF joined

----------------------------------------------------------------------------
(* What is said of the families a root publishes *)

\* A manifest is used as a whole or not at all.
LEMMA ManifestIs ==
  ASSUME NEW content \in Contents
  PROVE  LET manifest == FamilyManifest(content)
             list     == content.intake.list
         IN  \/ /\ manifest.posture \in {"MISSING", "OBSTRUCTED"}
                /\ manifest.published = {} /\ manifest.artifacts = <<>>
             \/ /\ manifest.posture = "PRESENT"
                /\ PublishedFields(content.intake) # {}
                /\ manifest.published = UNION PublishedFields(content.intake)
                /\ manifest.artifacts = list
                /\ \A artifact \in ToSet(list) : SoundArtifact(artifact)
<1> DEFINE raw      == content.intake
           list     == raw.list
           manifest == FamilyManifest(content)
           sound    == GeneratedArtifacts(raw)
<1>1. CASE ~content.there \/ raw.file # "OBJECT" \/ PublishedFields(raw) = {} \/ sound = {}
  BY <1>1 DEF FamilyManifest, NoManifest
<1>2. CASE content.there /\ raw.file = "OBJECT" /\ PublishedFields(raw) # {} /\ sound # {}
  <2>1. /\ raw.artifacts \in {"ABSENT", "NOT_ARRAY", "ARRAY"}
        /\ raw.artifacts = "ABSENT" => list = <<>>
    BY ManifestAssumption
  <2>2. sound = {list} /\ \A k \in DOMAIN list : SoundArtifact(list[k])
    <3>1. CASE raw.artifacts = "ABSENT"
      <4>1. DOMAIN list = {}
        BY <2>1, <3>1, EmptySeq, LenProperties
      <4> QED BY <2>1, <3>1, <4>1 DEF GeneratedArtifacts
    <3>2. CASE raw.artifacts = "NOT_ARRAY"
      BY <1>2, <3>2 DEF GeneratedArtifacts
    <3>3. CASE raw.artifacts = "ARRAY"
      <4>1. sound = {l \in {list} : \A k \in DOMAIN l : SoundArtifact(l[k])}
        BY <3>3 DEF GeneratedArtifacts
      <4> HIDE DEF sound
      <4> QED BY <1>2, <4>1
    <3> QED BY <2>1, <3>1, <3>2, <3>3
  <2>3. \A artifact \in ToSet(list) : SoundArtifact(artifact)
    BY <2>2 DEF ToSet
  <2>4. manifest = [posture   |-> "PRESENT",
                    published |-> UNION PublishedFields(raw),
                    artifacts |-> CHOOSE l \in sound : TRUE]
    BY <1>2 DEF FamilyManifest
  <2>5. (CHOOSE l \in sound : TRUE) = list
    BY <2>2
  <2> QED BY <1>2, <2>3, <2>4, <2>5
<1> QED BY <1>1, <1>2

\* A fact is PRESENT when the manifest in use lists its field.
LEMMA FactsBorneOut ==
  ASSUME NEW content \in Contents, NEW i \in DOMAIN FactKeys
  PROVE  LET intake == FamilyIntake(content)
         IN  intake.facts[i].posture = "PRESENT" <=>
               /\ intake.posture = "PRESENT"
               /\ \E fields \in content.intake.fields : Contains(fields, FactKeys[i])
<1> DEFINE raw      == content.intake
           manifest == FamilyManifest(content)
           field    == FactKeys[i]
<1>1. /\ FamilyIntake(content).facts[i] = IntakeFact(field, manifest)
      /\ FamilyIntake(content).posture = IntakePosture(manifest)
  BY DEF FamilyIntake
<1>2. IntakeFact(field, manifest).posture = "PRESENT" <=>
        manifest.posture # "OBSTRUCTED" /\ field \in manifest.published
  BY DEF IntakeFact, FamilyFact
<1>3. IntakePosture(manifest) = "PRESENT" <=>
        manifest.posture # "OBSTRUCTED" /\ manifest.published # {}
  BY DEF IntakePosture
<1>4. CASE manifest.posture # "PRESENT"
  <2>1. manifest.published = {}
    BY <1>4, ManifestIs
  <2> QED BY <1>1, <1>2, <1>3, <2>1
<1>5. CASE manifest.posture = "PRESENT"
  <2>1. /\ PublishedFields(raw) # {}
        /\ manifest.published = UNION PublishedFields(raw)
    BY <1>5, ManifestIs
  <2>2. AtMostOne(raw.fields) /\ \A fields \in raw.fields : InOrder(fields)
    BY ManifestAssumption
  <2>3. PICK list \in raw.fields : PublishedFields(raw) = {ToSet(list)}
    BY <2>1, <2>2 DEF PublishedFields, AtMostOne
  <2>4. (\E fields \in raw.fields : Contains(fields, field)) <=> Contains(list, field)
    BY <2>2 DEF AtMostOne
  <2>5. Contains(list, field) <=> field \in ToSet(list)
    <3>1. DOMAIN list = 1 .. Len(list)
      BY <2>2, LenProperties DEF InOrder
    <3> QED BY <3>1 DEF Contains, ToSet
  <2>6. manifest.published = ToSet(list)
    BY <2>1, <2>3
  <2> HIDE DEF manifest, field
  <2>7. IntakeFact(field, manifest).posture = "PRESENT" <=> Contains(list, field)
    BY <1>2, <1>5, <2>5, <2>6
  <2>8. field \in manifest.published => IntakePosture(manifest) = "PRESENT"
    BY <1>3, <1>5
  <2> QED BY <1>1, <2>4, <2>5, <2>6, <2>7, <2>8 DEF field
<1> QED BY <1>4, <1>5

LEMMA ArtifactFiles ==
  ASSUME NEW content \in Contents, NEW artifact \in ToSet(content.intake.list),
         SoundArtifact(artifact)
  PROVE  /\ MissingFiles(content, artifact) = {} <=> NamedFiles(artifact) \subseteq content.files
         /\ \A file \in NamedFiles(artifact) : ~Leads(file)
<1> DEFINE root  == CHOOSE path \in artifact.root : TRUE
           files == CHOOSE list \in artifact.files : TRUE
<1>1. artifact.root = {root} /\ artifact.files = {files}
  BY ManifestAssumption DEF SoundArtifact, AtMostOne
<1>2. InOrder(root.segments) /\ InOrder(files)
      /\ \A file \in ToSet(files) : InOrder(file.segments)
  BY <1>1, ManifestAssumption
<1>3. SafePath(root) /\ \A k \in DOMAIN files : SafePath(files[k])
  BY <1>1 DEF SoundArtifact
<1> HIDE DEF root, files
<1>4. NamedFiles(artifact) = {Normalized(root.segments \o files[i].segments) : i \in DOMAIN files}
  <2> DEFINE Of(one, list) == {Normalized(one.segments \o list[i].segments) : i \in DOMAIN list}
  <2>1. NamedFiles(artifact) = UNION {Of(one, list) : one \in artifact.root, list \in artifact.files}
    BY DEF NamedFiles
  <2>2. NamedFiles(artifact) = Of(root, files)
    <3> HIDE DEF Of
    <3> QED BY <1>1, <2>1
  <2> QED BY <2>2
<1>5. MissingFiles(content, artifact) =
        {file \in ToSet(files) : Normalized(root.segments \o file.segments) \notin content.files}
  BY DEF MissingFiles, Located, root, files
<1>6. MissingFiles(content, artifact) = {} <=> NamedFiles(artifact) \subseteq content.files
  BY <1>4, <1>5 DEF ToSet
<1>7. ASSUME NEW path, SafePath(path)
      PROVE  ~Leads(Normalized(path.segments))
  BY <1>7 DEF SafePath, Leads
<1>8. ASSUME NEW k \in DOMAIN files
      PROVE  ~Leads(Normalized(root.segments \o files[k].segments))
  <2> DEFINE under == root.segments
             rest  == files[k].segments
             S     == ToSet(under) \cup ToSet(rest)
  <2>1. InOrder(under) /\ InOrder(rest)
    BY <1>2 DEF ToSet
  <2>2. under \in Seq(S) /\ rest \in Seq(S)
    BY <2>1, SeqDef DEF InOrder
  <2>3. ~Leads(Normalized(under)) /\ ~Leads(Normalized(rest))
    BY <1>3, <1>7
  <2> HIDE DEF under, rest, S
  <2>4. ~Leads(Normalized(under \o rest))
    BY <2>2, <2>3, JoinedStays
  <2> QED BY <2>4 DEF under, rest
<1> QED BY <1>4, <1>6, <1>8

LEMMA ConsumptionIs ==
  ASSUME NEW content, NEW artifacts
  PROVE  Consumption(content, artifacts).artifact =
           IF artifacts = <<>> THEN "ABSENT"
           ELSE IF \A artifact \in ToSet(artifacts) : MissingFiles(content, artifact) = {}
             THEN "PRESENT" ELSE "OBSTRUCTED"
BY DEF Consumption

\* What is said of one root.
LEMMA IntakeBorneOut ==
  ASSUME NEW content \in Contents
  PROVE  BearsOut(content, FamilyIntake(content))
<1> DEFINE intake   == FamilyIntake(content)
           list     == content.intake.list
           manifest == FamilyManifest(content)
           claim    == intake.consumption.artifact
           required == UNION {NamedFiles(artifact) : artifact \in ToSet(list)}
<1>1. /\ claim = Consumption(content, manifest.artifacts).artifact
      /\ intake.manifest = manifest.posture
      /\ intake.posture = IntakePosture(manifest)
  BY DEF FamilyIntake
<1>2. ASSUME manifest.posture # "PRESENT"
      PROVE  claim = "ABSENT" /\ intake.posture # "PRESENT"
  <2>1. manifest.published = {} /\ manifest.artifacts = <<>>
    BY <1>2, ManifestIs
  <2>2. claim = "ABSENT"
    BY <1>1, <2>1, ConsumptionIs
  <2>3. IntakePosture(manifest) # "PRESENT"
    BY <2>1 DEF IntakePosture
  <2> QED BY <1>1, <2>2, <2>3
<1>3. ASSUME manifest.posture = "PRESENT"
      PROVE  /\ claim = "PRESENT" => required \subseteq content.files
             /\ claim = "OBSTRUCTED" => ~(required \subseteq content.files)
             /\ \A file \in required : ~Leads(file)
             /\ claim = "ABSENT" => list = <<>>
  <2>1. manifest.artifacts = list /\ \A artifact \in ToSet(list) : SoundArtifact(artifact)
    BY <1>3, ManifestIs
  <2>2. claim = IF list = <<>> THEN "ABSENT"
                ELSE IF \A artifact \in ToSet(list) : MissingFiles(content, artifact) = {}
                  THEN "PRESENT" ELSE "OBSTRUCTED"
    BY <1>1, <2>1, ConsumptionIs
  <2>3. \A artifact \in ToSet(list) :
          /\ MissingFiles(content, artifact) = {} <=> NamedFiles(artifact) \subseteq content.files
          /\ \A file \in NamedFiles(artifact) : ~Leads(file)
    BY <2>1, ArtifactFiles
  <2> HIDE DEF claim, list, manifest
  <2>4. (\A artifact \in ToSet(list) : MissingFiles(content, artifact) = {}) <=>
          required \subseteq content.files
    BY <2>3
  <2>5. \A file \in required : ~Leads(file)
    BY <2>3
  <2> HIDE DEF required
  <2> QED BY <2>2, <2>4, <2>5
<1>4. \A i \in DOMAIN FactKeys :
        intake.facts[i].posture = "PRESENT" <=>
          /\ intake.posture = "PRESENT"
          /\ \E fields \in content.intake.fields : Contains(fields, FactKeys[i])
  BY FactsBorneOut
<1>5. \A file : ~Leads(file) => file = <<>> \/ Head(file) # ".."
  BY DEF Leads
<1> HIDE DEF intake, manifest
<1>6. /\ claim = "PRESENT" => required \subseteq content.files
      /\ claim = "OBSTRUCTED" => ~(required \subseteq content.files)
      /\ claim # "ABSENT" => \A file \in required : file = <<>> \/ Head(file) # ".."
      /\ claim = "ABSENT" /\ intake.manifest = "PRESENT" => list = <<>>
      /\ intake.manifest # "PRESENT" => claim = "ABSENT" /\ intake.posture # "PRESENT"
  BY <1>1, <1>2, <1>3, <1>5
<1>7. BearsOut(content, intake)
  BY <1>4, <1>6 DEF BearsOut
<1> QED BY <1>7 DEF intake

\* As long as the disk does not change, what is said of the families of an Echo
\* root is what its manifest and its files bear out, and none of the files it is
\* said of lies outside the root (inspectLiveEchoFamilyIntake,
\* isSafeRelativePath, inspectSharedFamilyConsumption).
THEOREM IntakeBornOut == Spec => []IntakeTruthful
<1>1. InspectionInv => IntakeTruthful
  <2> SUFFICES ASSUME InspectionInv, changes = 0, NEW r \in DOMAIN looks,
                      NEW k \in DOMAIN looks[r], NEW intake \in looks[r][k].intake,
                      NEW path \in descriptors[k].connection.root
               PROVE  BearsOut(disk[path], intake)
    BY DEF IntakeTruthful
  <2>1. looks # <<>>
    <3>1. DOMAIN <<>> = {}
      BY EmptySeq, LenProperties
    <3> QED BY <3>1
  <2>2. descriptors = Loaded /\ LookedWell(r)
    BY <2>1, SequenceFacts DEF InspectionInv, LooksFit
  <2>3. k \in 1 .. Len(looks[r]) /\ Len(looks[r]) <= Len(Loaded) /\ Len(looks[r]) \in Nat
    BY <2>2, SequenceFacts DEF LookedWell
  <2>4. looks[r][k] = InspectDescriptor(descriptors[k], disk)
    BY <2>2, <2>3 DEF LookedWell
  <2>5. k \in DOMAIN Loaded /\ Connects(descriptors[k].connection, Roots)
    BY <2>2, <2>3, LoadedWellMade DEF InspectionInv
  <2> DEFINE connection == descriptors[k].connection
             content    == disk[path]
  <2>6. content \in Contents
    BY <2>5 DEF Connects, InspectionInv
  <2>7. (CHOOSE root \in connection.root : TRUE) = path
    BY <2>5 DEF Connects, AtMostOne
  <2>8. connection.mode # "echo-root" => InspectDescriptor(descriptors[k], disk).intake = {}
    BY <2>5 DEF Connects, Modes, InspectDescriptor, InspectGitWarp, InspectDescriptorOnly, Inspected
  <2>9. connection.mode = "echo-root" =>
          InspectDescriptor(descriptors[k], disk).intake = {FamilyIntake(content)}
    BY <2>7 DEF InspectDescriptor, InspectEchoRoot, Inspected
  <2> HIDE DEF content, connection
  <2>10. intake = FamilyIntake(content)
    BY <2>4, <2>8, <2>9
  <2> QED BY <2>6, <2>10, IntakeBorneOut DEF content
<1> QED BY <1>1, InspectionSound, PTL
============================================================================
