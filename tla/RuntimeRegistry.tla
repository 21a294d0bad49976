--------------------------- MODULE RuntimeRegistry ---------------------------
(***************************************************************************)
(* The runtime registry of runtimeRegistry.ts: which document is loaded    *)
(* and how every entry of it, however malformed, is normalised to a        *)
(* runtime with a connection, with what was redacted and what went wrong.  *)
(*                                                                         *)
(* JSON may be anything.  An entry is a record that says whether it is an  *)
(* object and what its members hold; an optional string is a set of at     *)
(* most one element, empty also when the member is blank or not a string;  *)
(* of a mode only when it is not a string: a blank mode is a mode.         *)
(* Entries are numbered from 1, in the code from 0.  A label stands for    *)
(* the application kind too, which is carried the same way.  What is kept  *)
(* of the metadata, what is redacted and the codes of what went wrong are  *)
(* sets: the code lists them in the order of entry, part and name.         *)
(***************************************************************************)
EXTENDS Integers, SequencesExt

CONSTANTS
  EntryId,             \* EntryId[k]: the id made up for an entry without one
  RegistryId,          \* the one runtime of a registry that is not usable
  Jedit, Graft,        \* the ids of the built-in registry ...
  JeditRoot, GraftRoot,\* ... and the roots they have unless configured
  GraftGraph,
  RegistryLabel, BuiltInLabel

\* Connections and targets

Connection(mode, root, graph, posture, endpoint) ==
  [mode |-> mode, root |-> root, graph |-> graph, posture |-> posture,
   endpoint |-> endpoint]

Obstruction == Connection("descriptor-only", {}, {}, {"OBSTRUCTED"}, FALSE)

\* The explanation given for a mode that is not supported names the mode.
Unsupported(raw) ==
  Connection("descriptor-only", raw.root, {}, {"UNSUPPORTED"}, raw.mode = {"endpoint"})

ConnectionForMode(raw) ==
  CASE raw.mode = {"echo-root"} /\ raw.root # {} ->
         Connection("echo-root", raw.root, {}, {}, FALSE)
    [] raw.mode = {"git-warp"} /\ raw.root # {} /\ raw.graph # {} ->
         Connection("git-warp", raw.root, raw.graph, {}, FALSE)
    [] raw.mode = {"descriptor-only"} /\ raw.posture # {"OTHER"} ->
         Connection("descriptor-only", raw.root, {}, raw.posture, raw.endpoint)
    [] raw.mode # {} /\ raw.mode \cap {"echo-root", "git-warp", "descriptor-only"} = {} ->
         Unsupported(raw)
    [] OTHER -> Obstruction

ConnectionFromJson(raw) == IF raw.object THEN ConnectionForMode(raw) ELSE Obstruction

Runtime(id, label, metadata, connection) ==
  [id |-> id, label |-> label, metadata |-> metadata, connection |-> connection]

----------------------------------------------------------------------------
(* One entry *)

\* The fields are read in the order of their names up to the first that is
\* neither secret-like nor a scalar.  That one makes the metadata invalid and
\* what is after it is not looked at.
Metadata(raw) ==
  LET fields == raw.fields
      bad    == SelectInSeq(fields, LAMBDA field : ~field.secret /\ ~field.scalar)
      read   == {i \in DOMAIN fields : bad = 0 \/ i < bad}
  IN  [valid  |-> raw.kind = "ABSENT" \/ (raw.kind = "OBJECT" /\ bad = 0),
       kept   |-> {fields[i] : i \in {j \in read : bad = 0 /\ ~fields[j].secret}},
       hidden |-> {fields[i].name : i \in {j \in read : fields[j].secret}}]

Redactions(k, part, names) == {[entry |-> k, part |-> part, name |-> name] : name \in names}

EntryRedactions(raw, k) ==
  Redactions(k, "metadata", Metadata(raw.metadata).hidden)
    \cup Redactions(k, "connection", raw.connection.secrets)

Normalization(runtime, redactions, reasons) ==
  [runtime |-> runtime, redactions |-> redactions, reasons |-> reasons]

\* Mutant: an entry whose metadata is invalid is connected all the same.
EntryFromJsonAnyMetadata(raw, k) ==
  LET id         == IF raw.id = {} THEN EntryId[k] ELSE CHOOSE name \in raw.id : TRUE
      connection == ConnectionFromJson(raw.connection)
  IN  IF ~raw.object
        THEN Normalization(Runtime(EntryId[k], {}, {}, Obstruction), {},
                           {"REGISTRY_ENTRY_NOT_OBJECT"})
        ELSE Normalization(
               Runtime(id, raw.label, Metadata(raw.metadata).kept,
                       IF raw.id = {} THEN Obstruction ELSE connection),
               EntryRedactions(raw, k), {})

EntryFromJson(raw, k) ==
  LET metadata   == Metadata(raw.metadata)
      connection == ConnectionFromJson(raw.connection)
      id         == IF raw.id = {} THEN EntryId[k] ELSE CHOOSE name \in raw.id : TRUE
      With(c, reasons) ==
        Normalization(Runtime(id, raw.label, metadata.kept, c),
                      EntryRedactions(raw, k), reasons)
  IN  IF ~raw.object
        THEN Normalization(Runtime(EntryId[k], {}, {}, Obstruction), {},
                           {"REGISTRY_ENTRY_NOT_OBJECT"})
      ELSE IF raw.id = {} THEN With(Obstruction, {"REGISTRY_ENTRY_ID_INVALID"})
      ELSE IF ~metadata.valid
        THEN With(Obstruction, {"REGISTRY_ENTRY_METADATA_INVALID"})
      ELSE With(connection,
                IF connection.posture = {"OBSTRUCTED"}
                  THEN {"REGISTRY_ENTRY_CONNECTION_OBSTRUCTED"} ELSE {})

----------------------------------------------------------------------------
(* The registry *)

DuplicateIds(runtimes) ==
  {runtimes[j].id : j \in {k \in DOMAIN runtimes :
     \E i \in 1 .. k - 1 : runtimes[i].id = runtimes[k].id}}

ObstructDuplicates(runtimes) ==
  [k \in DOMAIN runtimes |->
     IF runtimes[k].id \in DuplicateIds(runtimes)
       THEN [runtimes[k] EXCEPT !.connection = Obstruction] ELSE runtimes[k]]

Registry(source, runtimes, redactions, reasons) ==
  [source |-> source, runtimes |-> runtimes, redactions |-> redactions,
   reasons |-> reasons,
   posture |-> IF reasons = {} THEN "PRESENT" ELSE "OBSTRUCTED"]

ObstructedRegistry(source, code) ==
  Registry(source, <<Runtime(RegistryId, {RegistryLabel}, {}, Obstruction)>>, {}, {code})

FromEntries(source, entries) ==
  LET normalized == [k \in DOMAIN entries |-> EntryFromJson(entries[k], k)]
      runtimes   == [k \in DOMAIN entries |-> normalized[k].runtime]
      Gathered(field) == UNION {normalized[k][field] : k \in DOMAIN entries}
  IN  Registry(source, ObstructDuplicates(runtimes), Gathered("redactions"),
               Gathered("reasons")
                 \cup {"REGISTRY_DUPLICATE_ID" : id \in DuplicateIds(runtimes)})

\* What is wrong with a document as a whole.  An object that has the members
\* of a reason is taken for one and reported with its own code.
DocumentObstruction ==
  [UNREADABLE    |-> "REGISTRY_PATH_READ_ERROR",
   MALFORMED     |-> "REGISTRY_JSON_PARSE_FAILED",
   NOT_OBJECT    |-> "REGISTRY_NOT_OBJECT",
   LIKE_REASON   |-> "CODE_OF_THE_DOCUMENT",
   OTHER_VERSION |-> "REGISTRY_SCHEMA_VERSION_UNSUPPORTED",
   NOT_ARRAY     |-> "REGISTRY_RUNTIMES_NOT_ARRAY"]

NormalizeRuntimeRegistry(document, source) ==
  IF document.shape = "RUNTIMES"
    THEN FromEntries(source, document.entries)
    ELSE ObstructedRegistry(source, DocumentObstruction[document.shape])

----------------------------------------------------------------------------
(* Where it is loaded from *)

Configured(root, default) == IF root = {} THEN default ELSE root

DefaultDescriptors(config) ==
  <<Runtime(Jedit, {BuiltInLabel}, {},
            Connection("echo-root", Configured(config.jedit, {JeditRoot}), {}, {}, FALSE)),
    Runtime(Graft, {BuiltInLabel}, {},
            Connection("git-warp", Configured(config.graft, {GraftRoot}), {GraftGraph}, {}, FALSE))>>

\* An explicit path first, then the environment's document, then its path:
\* a document that is given but not usable is not passed over for the next.
LoadRegistry(config) ==
  LET First(documents, source) ==
        NormalizeRuntimeRegistry(CHOOSE document \in documents : TRUE, source)
  IN  IF config.cli # {} THEN First(config.cli, "CLI_PATH")
      ELSE IF config.json # {} THEN First(config.json, "ENV_JSON")
      ELSE IF config.path # {} THEN First(config.path, "ENV_PATH")
      ELSE Registry("DEFAULT", DefaultDescriptors(config), {}, {})
============================================================================
