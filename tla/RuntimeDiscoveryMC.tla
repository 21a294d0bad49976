------------------------- MODULE RuntimeDiscoveryMC -------------------------
(***************************************************************************)
(* Small registries for RuntimeDiscovery: up to two entries, each in one   *)
(* of the shapes that normalisation tells apart, on two roots.             *)
(***************************************************************************)
EXTENDS RuntimeDiscovery

MCEntryId      == <<"entry1", "entry2">>
MCDescriptorId == <<"descriptor1", "descriptor2">>

Field(name, secret, scalar) == [name |-> name, secret |-> secret, scalar |-> scalar]

NoMetadata       == [kind |-> "ABSENT", fields |-> <<>>]
NoMetadataObject == [kind |-> "OTHER", fields |-> <<>>]
SecretMetadata   == [kind   |-> "OBJECT",
                     fields |-> <<Field("note", FALSE, TRUE), Field("token", TRUE, TRUE)>>]
NestedMetadata   == [kind   |-> "OBJECT",
                     fields |-> <<Field("apiKey", TRUE, FALSE), Field("nested", FALSE, FALSE),
                                  Field("token", TRUE, TRUE)>>]

RawConnection(mode, root, graph) ==
  [object |-> TRUE, mode |-> mode, root |-> root, graph |-> graph, posture |-> {},
   endpoint |-> FALSE, secrets |-> {}]

GitWarpAt(path) == RawConnection({"git-warp"}, {path}, {"graph"})
EndpointConnection ==
  [RawConnection({"endpoint"}, {}, {}) EXCEPT !.secrets = {"authToken"}]

Entry(id, metadata, connection) ==
  [object |-> TRUE, id |-> id, label |-> {"label"}, metadata |-> metadata,
   connection |-> connection]

MCEntries ==
  {[Entry({}, NoMetadata, GitWarpAt("p")) EXCEPT !.object = FALSE],
   Entry({"a"}, NoMetadata, GitWarpAt("p")),
   Entry({"b"}, SecretMetadata, GitWarpAt("q")),
   Entry({"a"}, NestedMetadata, GitWarpAt("p")),
   Entry({"a"}, NoMetadataObject, GitWarpAt("p")),
   Entry({"b"}, NoMetadata, RawConnection({"git-warp"}, {"q"}, {})),
   Entry({"b"}, NoMetadata, RawConnection({"echo-root"}, {"p"}, {})),
   Entry({"entry2"}, NoMetadata, RawConnection({"echo-root"}, {"q"}, {})),
   Entry({}, SecretMetadata, GitWarpAt("p")),
   Entry({"a"}, NoMetadata, EndpointConnection),
   Entry({"b"}, NoMetadata, RawConnection({}, {"p"}, {})),
   Entry({"a"}, NoMetadata, RawConnection({""}, {"q"}, {})),
   Entry({"b"}, NoMetadata, [GitWarpAt("p") EXCEPT !.object = FALSE]),
   Entry({"c"}, NoMetadata, RawConnection({"descriptor-only"}, {"p"}, {})),
   Entry({"c"}, NoMetadata,
         [RawConnection({"descriptor-only"}, {"q"}, {}) EXCEPT !.posture = {"OBSTRUCTED"}]),
   Entry({"d"}, NoMetadata,
         [RawConnection({"descriptor-only"}, {}, {}) EXCEPT !.posture = {"OTHER"}])}

Document(shape, entries) == [shape |-> shape, entries |-> entries]

Lists == {Document("RUNTIMES", entries) : entries \in BoundedSeq(MCEntries, 2)}
Unusable(shapes) == {Document(shape, <<>>) : shape \in shapes}

NoConfig == [cli |-> {}, json |-> {}, path |-> {}, targets |-> {}, jedit |-> {}, graft |-> {}]

One == Document("RUNTIMES", <<Entry({"a"}, NoMetadata, GitWarpAt("p"))>>)

\* Every list as the document of an explicit path and of the targets, and what
\* else can be given in its place.
MCConfigurations ==
  {[NoConfig EXCEPT !.cli = {document}, !.targets = {document}] : document \in Lists}
    \cup {[NoConfig EXCEPT !.cli = {document}, !.json = {One}, !.path = {One}] :
            document \in Unusable({"UNREADABLE", "MALFORMED", "OTHER_VERSION", "LIKE_REASON"})}
    \cup {[NoConfig EXCEPT !.json = {document}, !.path = {One}, !.targets = {document}] :
            document \in {One} \cup Unusable({"MALFORMED", "NOT_OBJECT", "NOT_ARRAY"})}
    \cup {[NoConfig EXCEPT !.path = {One}], NoConfig,
          [NoConfig EXCEPT !.jedit = {"q"}, !.graft = {"p"}]}

NoFile == [file |-> "ABSENT", fields |-> {}, artifacts |-> "ABSENT", list |-> <<>>]

Manifest(fields, list) ==
  [file |-> "OBJECT", fields |-> {fields}, artifacts |-> "ARRAY", list |-> list]

Path(segments) == [segments |-> segments, absolute |-> FALSE, slash |-> FALSE]

Artifact(files) ==
  [known |-> TRUE, schema |-> "ABSENT", root |-> {Path(<<"gen">>)}, files |-> {files}]

Here    == Artifact(<<Path(<<"core">>), Path(<<"old", "..", "shell">>)>>)
NotHere == Artifact(<<Path(<<"shell">>), Path(<<"detail">>)>>)
Outside == Artifact(<<Path(<<"core", "..", "..", "..", "detail">>)>>)

ProbeFile(abi, transport) ==
  [file |-> "OBJECT", schema |-> TRUE, echo |-> TRUE, abi |-> abi, transport |-> transport]

Root(probe, intake) ==
  [there |-> TRUE, probe |-> probe, intake |-> intake,
   files |-> {<<"gen", "core">>, <<"gen", "shell">>}]

NoProbe  == [file |-> "ABSENT", schema |-> FALSE, echo |-> FALSE, abi |-> {}, transport |-> {}]
Bare     == Root(NoProbe, NoFile)
Gone     == [Bare EXCEPT !.there = FALSE, !.files = {}]
Bridged  == Root(ProbeFile({1}, {"wasm"}),
                 Manifest(<<"receiptShell", "neighborhoodCore", "receiptShell">>, <<Here>>))
TooNew   == Root(ProbeFile({2}, {"wasm"}),
                 Manifest(<<"neighborhoodCore">>, <<Here, NotHere>>))
Spoilt   == Root([NoProbe EXCEPT !.file = "UNREADABLE"],
                 Manifest(<<"reintegrationDetail">>, <<Here, Outside>>))
Mistaken == Root(ProbeFile({}, {"native"}), Manifest(<<"receiptShell", "other">>, <<Here>>))

MCContents == {Gone, Bare, Bridged, TooNew, Spoilt, Mistaken}
MCDisks == {[p |-> Gone, q |-> Bridged], [p |-> Spoilt, q |-> Mistaken], [p |-> TooNew, q |-> Bare]}
============================================================================
