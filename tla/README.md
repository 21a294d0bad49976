# WARP TTD in TLA+

WARP TTD is a time-travel debugger for WARP hosts: an adapter presents a
recorded history of frames, a `DebuggerSession` moves a playback head over it
and keeps a snapshot of the frame on show, and a TUI, a CLI and an MCP server
read that snapshot. Before any of that, an inspection finds out which runtimes
there are and which of them a session can be opened on.

This directory models two kinds of thing. In the first, events happen in an
order nobody chose: awaited calls that interleave, results that arrive late,
caches filled after an `await`, a disk that changes between two looks at it,
commands that fail half-way. In the second, several pieces of code judge the
same data by themselves and are read side by side: the views of a frame, the
drawing of the lanes, the verdicts on a target.

## Inventory

| Component | State it keeps | Operations | Talks to |
|---|---|---|---|
| `DebuggerSession` (`src/src/app/debuggerSession.ts`) | active head, hello and capabilities, snapshot, pins | create, stepForward, stepBackward, seekToFrame, pin, unpin | the adapter port, one awaited call after the other; the neighborhood assembler |
| Adapters (`src/src/adapters/*.ts`) | the history, `currentFrameIndex` per head, git-warp's emission cache and graph | the port of `adapter.ts` | the git-warp graph (shared, mutable); fixtures in memory |
| Neighborhood assembler and family facts (`neighborhoodAssembler.ts`, `sessionFamilyFacts.ts`, `sharedFamilyHydration.ts`, `generatedFamilyIngress.ts`) | none | choose local, obstructed or host-published for each summary | called at the end of a refetch |
| Neighborhood summaries (`NeighborhoodCoreSummary.ts`, `...SiteCatalog.ts`, `...FocusSummary.ts`, `ReintegrationDetailSummary.ts`, `ReceiptShellSummary.ts`) | immutable values | construct, select, move a selection | the session, the TUI |
| Connect page (`tui/pages/connectPage.ts`) | menu, form, error, generation, connecting, session | keys; `session-ready`, `connect-error`, `disconnect` | resolves an adapter, creates the session |
| TUI shell (`tui/main.ts`, `tui/sessionSync.ts`) | the four page models | propagate the session, load the worldline, keep lane, site and cursor together | all pages; the adapter, directly, for the worldline load |
| Navigator, worldline, inspector pages | jump input; loaded frames, cursor, lane; selected site | keys, each starting a session command without waiting for the one before | the session |
| MCP surface (`mcp/admissionChainSurface.ts`) | one session, one promise of it | six read-only tools | `createSessionResolver`, the inspections |
| Admission chain read model (`admissionChainReadModel.ts`) | none | project a snapshot and a hello into the chain | MCP |
| Runtime registry (`runtimeRegistry.ts`) | the registry file, read once | choose the document, normalise its entries, redact, obstruct duplicates | discovery |
| Runtime discovery and hello (`runtimeDiscovery.ts`, `runtimeHelloInspection.ts`) | none | look at every target three times, join the looks to one record | CLI, MCP; live target inspection |
| Live target inspection (`liveTargetInspection.ts`, `liveTargetSessionInspection.ts`) | none | descriptors, one look at each, sessions opened together | the file system, the adapter registry |
| Echo intake and probe (`liveEchoFamilyIntake.ts`, `echoAdapterProbe.ts`) | none | classify the manifests and files under an Echo root | live target inspection |
| Adapter registry (`adapterRegistry.ts`) | a table | configuration to adapter | connect page, MCP, CLI |
| CLI (`cli.ts`) | none | one-shot commands, each awaited | adapter, session, inspections |
| Layouts, lane graph (`navigatorLayout.ts`, `worldlineLayout.ts`, `laneGraph.ts`), shaders | none | lane trees, tick rows, gutter, effect rows; pixels | TUI |

What is hard in it, and what makes each part correct:

* **The refetch of a session.** `fetchSnapshotProtocolFacts` awaits the head,
  the frame, the receipts, the emissions, the observations, the context and the
  family facts in turn. Only the last names a frame, the others are answered
  for wherever the head is. A snapshot should be about one frame, be gated by
  what the hello declared, follow the head, and survive a rejection; a pin
  should join two things of the same frame and keep them.
* **Commands that overlap.** The TUI emits a command per key. A command moves
  the head at once and assigns its snapshot when its refetch ends.
* **The git-warp graph.** One graph is materialized at a ceiling and then read
  node by node. The result is cached for good, so it should be the effects of
  that frame whatever else was asked meanwhile.
* **Connection attempts.** Several may be in flight and none can be cancelled;
  the newest selection should win, a disconnect should last, and the page
  should not stay connecting.
* **The MCP session.** Tool calls arrive before there is a session, creations
  fail; all tools should read one session and a failure should not stick.
* **The shell.** A snapshot changes between two messages and no message says so;
  loads end after their session has gone. The loaded frames should belong to the
  session on show, selection, focus, lane and cursor to each other and to the
  frame on show.
* **The inspection of targets.** A registry is a file somebody wrote: any entry
  of it may be anything. One defect should cost its own target and no other, no
  secret may be kept or go unnamed, and two entries with one id must both be
  out of use wherever they stand. A target is then looked at up to three times,
  on a disk that other programs change, and sessions are opened for all targets
  at once, any of which may fail. Records, hellos and sessions should still be
  about the right target and agree with each other, and there should always be
  an answer.
* **The views of a frame.** Core, detail, shell, site catalog, admission chain,
  effect rows and worldline each count receipts and lanes by themselves; they
  are shown together and should agree. The lanes are drawn from a catalog that
  comes in any order and is cut down first: no lane that takes part, and no
  fork, should be lost or drawn twice, and the cursor's row should be in the
  window.

The hazards, each at its line and with the properties that cover it, are in
`PROJECT.json`.

## Modules

| Module | Models | Uses |
|---|---|---|
| `PlaybackHead` | the cursor all three adapters keep: steps saturate, seeks clamp | |
| `SessionContract` | abstract: what a session promises its readers | `PlaybackHead` |
| `DebuggerSession` | the session over the adapter port, with the assembler | `PlaybackHead`, `SessionContract` (refinement) |
| `GitWarpEmissions` | `GitWarpAdapter.effectEmissions` and the extractor over the shared graph | |
| `ConnectPage` | the connect page and its attempts | |
| `McpSessionResolver` | `createSessionResolver` and the tool calls that await it | |
| `TuiShell` | `updateApp`, the synchronisation of the pages, the worldline and inspector pages, the site catalog's selection | `PlaybackHead` |
| `EchoIntake` | the probe descriptor, the intake manifest and the generated files under an Echo root | |
| `RuntimeRegistry` | which registry document is loaded and how each entry of it is normalised | |
| `LiveTargets` | what one look says of a target: inspection, session, hello, discovery record | `RuntimeRegistry`, `EchoIntake` |
| `RuntimeDiscovery` | an inspection from the call to the answer, on a disk that changes | `LiveTargets` |
| `HostHistories` | the frames, lanes and receipts the three adapters build | |
| `NeighborhoodViews` | the summaries of a frame, the admission chain, the effect rows | `HostHistories` |
| `LaneViews` | the catalog scoped to a neighborhood, the lane trees, the tick rows and the gutter beside them | `NeighborhoodViews` |
| `HostViews` | a head on a history, and all the views of the frame it is on | `LaneViews` |
| `*MC` | the small instances TLC checks | |
| `SequenceLemmas`, `*Proofs` | the theorems | |

### DebuggerSession

A command is a record of the promise it awaits (`calls[c].stage`) and the parts
it has fetched. `StepForward`, `StepBackward` and `SeekToFrame` move
`headIndex` at once, as every adapter does before it returns its promise. Each
`Read...` action is the settling of one promise and the next call, made in the
same turn; `Commit` is the end of `fetchSnapshot`, which builds the summaries
and assigns `#snapshot`; `Fail` is a rejection at any of those awaits. `Greet`
is the hello of `create`, which fixes the capabilities for the session's life.

Data is provenance. A fetched part is the index of the frame it was read at, or
`Absent` when the capability is missing; a summary is its origin and the set of
frames its content is about. A published fact has the frame its envelope targets
(`target`), which the assembler matches, and the frame its payload is about
(`about`), which nothing compares with it; it is `malformed` when the hydrator
rejects its payload and `unavailable` when the assembler does not take it.
`FaithfulPayloads` says that the two frames are one, as they are for the one
adapter that publishes facts; what needs it says so. Emissions and observations keep their ids, which pinning matches.

`Calls` is the set of commands that may be in flight together: one element is a
caller that awaits every command (the CLI, the MCP server, the tests), several
are the TUI. `Suspending` names the promises an adapter settles in a later turn
of the event loop. Between two that are already settled no event handler runs,
so no other command can begin (`Overtakable`). The fixtures suspend nowhere, the
git-warp adapter in its emissions only, a remote host anywhere.

### GitWarpEmissions

`ceiling` is the tick the shared graph is materialized at, `cache` the adapter's
`#emissionCache`, a call passes from `materializing` to `reading`, and reads its
candidate nodes in any order, as `Promise.all` does. `KindAt[n][f]` is the kind
property of node n at ceiling f; a node without one is dropped. `Reject` is a
rejection of the graph at any point, after which nothing is cached. `Together`
says which extractions the callers let overlap (`Serialized`): the adapter itself
lets any two, the extractor's comment asks its callers to let none. A run gives it
a value; the theorems hold for any.

### ConnectPage

`page` is the `ConnectModel` without its clock; `attempts` are the connect
commands launched, each with its generation, its configuration and how many of
its four awaits are done. `Ready` and `Refused` are `session-ready` and
`connect-error`; `Disconnect` is let through on any page and returns it to the
initial model. A session is named by the attempt that made it. Typing is the
whole of any number of `char` and `backspace` keys.

### McpSessionResolver

`creations` are the `DebuggerSession.create` calls; `sessionPromise` is the one
new callers are given. `Created` and `Rejected` are the two ends of
`initializeSession`. A call resumes in a turn after the promise it awaits
settles, so other calls may come in between.

### TuiShell

One action is one message through `updateApp`: what the page does with it, then
the branch of the synchronisation it leads to. `ctx` is the session the connect
page has, `frameIndex` the frame of its live snapshot, `worldline` the page's
frames (by the session they were loaded from), cursor, lane and lane cursor,
`site` the inspector's selection, `focus` the site the focus of both pages was
made from, `loads` the worldline load of each session. `Refetched` is the one
step that is no message: a command issued from the navigator or the worldline
ends and replaces the snapshot. `Pulse` stands for every message with no effect
of its own on these pages. `SessionReady` is `session-ready`, which the connect
page emits after seeking to the last frame, so that the load's own seek to the
end moves nothing. The framework is external: whether the pages get a
`disconnect` too is left open, since only the connect page's is in the
repository's hands. A frame has the lanes it has a view of, the lanes of its
sites, primary first, and its lane tree; the id of a site names its frame, as
`NeighborhoodCoreSummary` builds it.

### SessionContract

Three variables: the frame the host is on, the frame on show, the pins. `Move`
changes the first, `Show` copies it to the second in one step, pins name the
frame on show. `DebuggerSession!ImplementsContract` maps a coherent snapshot to
its frame and one that mixes frames to a value the contract never shows, so the
refinement fails as soon as a snapshot is torn, stale when committed, or pinned
under another frame's index.

### RuntimeRegistry, EchoIntake, LiveTargets

Pure functions of the code, as operators. JSON may be anything: an object is a
record that says whether it is one and what its members hold, an optional member
is a set of at most one element, empty also when the member is blank or has the
wrong type. A secret-like field is one whose name the code's list matches; what
matters is whether its value is kept and whether its name is reported.
`EntryFromJson` is one entry to one runtime with its redactions and reasons, the
built-in registry stands in when nothing is configured, and a document that is
given but not usable is one obstructed runtime, never passed over for the next
source. `LoadRegistry`, `DescriptorsFromEnv` and `ObstructDuplicateIds` make
the descriptors; `InspectDescriptor` is one look at one of them;
`SessionBegins`, `RuntimeHello` and `DiscoveryRecord` are the later stages,
each a function of the look it is given. Paths are sequences of segments and
`Normalized` does what `path.normalize` does with `.` and `..`.

### RuntimeDiscovery

`Load` reads the configuration and makes the descriptors; `Look` appends the
next target to the first look that is not complete (`looks[r]`: the records
discovery makes itself, the hellos' own inspection, the sessions' own
inspection); `Begin` starts the sessions for all targets of the last look, each
`Opened` or `Refused` by itself; `Answer` joins the looks by position.
`DiskChanges` is another program that creates, fills or removes a root between
any two of these steps. The four `Kinds` are the commands `targets`, `sessions`,
`hello` and `discover` of the CLI, of which the MCP server offers `targets` and
`hello`; they differ in how many looks they take.

### HostHistories, NeighborhoodViews, LaneViews, HostViews

`HostHistories` builds the history of each adapter from what the adapter is
given: a graph's patches, sorted and grouped to frames as
`gitWarpAdapter` does; a scenario, as the fixture adapter does; the Echo fixture.
What an adapter can be given is `HostsAssumption`: the strands of a graph and its
patches differ in their names (a strand's lane is `ws:` and its id, so none is
`wl:live`), Lamport ticks count from 1, the lanes of a scenario differ in their
ids, name one parent at most, and there is one. `Array.prototype.filter` is `Where`, written over the set of
positions that pass (`Picked`, in the order `Ascending` gives them), because the
provers can reason about that and not about the recursion in `SelectSeq`; the trees
are functions bounded by the length of the catalog, for the same reason.
The other two are the view functions, one operator per function of the code. In `HostViews`
a head steps and seeks through one of those histories; every property relates
views of the frame it is on, or the drawing of the whole history to the head.
These run over bounded inputs, and are checked against what the views must
say of each other rather than against a second copy of the code.

## What the runs show

| Run | Instance | Shows |
|---|---|---|
| `SessionSerial` | one command, three frames, hosts with all, no, or git-warp's capabilities, every promise slow and fallible, two pins | `TypeOK`, `SnapshotCoherent`, and that the session implements `SessionContract`, also after rejections |
| `SessionOverlapping` | two commands, three frames of which two have a delivery and its emission, one pin; a full host slow in its frame and its emissions, with a payload about another frame than its envelope's, and a host slow in its emissions only, which may be rejected | snapshots may be torn on the first host, yet each summary is what the host offers for the frame on show, whole and in the order of its facts, and a pin is about one frame; on the second, snapshots are whole, because a command can be overtaken only at a point where every part a git-warp host serves has been asked for; every command settles |
| `SessionOvertaken` | two commands, three frames, git-warp's capabilities | finding: `SnapshotCurrent` is violated |
| `EmissionsSerialized` | two callers on one frame at most at a time, five frames, three effect nodes (added, removed, added again with another kind, never with a kind) | cache and answers are the frame's own effects, redundant extractions agree, entries never change, calls settle |
| `EmissionsOverlap` | two callers, any frames | finding: `CacheReflectsFrame` is violated |
| `ConnectAttempts` | two attempts, two disconnects | until the first disconnect the newest selection wins and a shown session stays; answers to a disconnected page, sessions and errors, leave it as it is; no launch without a path, connecting ends |
| `ConnectRecycled` | two attempts, one disconnect | finding: `GenerationGuards` is violated |
| `ShellSync` | two sessions, four frames, three lanes, keys of both pages, any refetch between any two messages | frames, selection, focus and cursor stay together; a move brings up the timeline of the lane moved to, if that lane has a site, and no message but a change of frame takes it away; the focus catches up with the snapshot, a load that does not fail fills the worldline |
| `ShellCursor` | one session, no keys | finding: `CursorFollowsFrame` is violated |
| `McpSession` | three tool calls, three creations of which two may fail | one creation at a time, one session, no stale promise, every call answered |
| `Discovery` | registries of up to two entries in fifteen shapes, unusable documents of six kinds, the built-in targets; three disks, six contents of a root, one change between any two steps; sessions that open or fail | a target is reachable exactly when its entry, both looks and its session say so; duplicates are never opened and always obstructed; record and hello agree when they found the target alike, and when the root came or went between them no record says REACHABLE of a target its hello cannot reach; an entry's defects and redactions are named in its own record, and none of another entry's in the record of a sound one; an intake claims what its files bear out; every inspection is answered |
| `Views` | graphs of up to three of four patches, with and without strands, two of which share a tick and the digits of their receipt ids; scenarios of up to three frames on five catalogs; the Echo fixture | frames and receipts chain over the whole history, the views of a frame agree, lanes, forks and rows are drawn whole |

**Bounds.** Three frames give a first, a middle and a last one, so both ends
saturate and a step is distinct from staying; the requested frames lie below,
inside and above the history. Two commands are enough for one to overtake the
other at every await; a third adds no pair. Two pins give an oldest and a
newest, also of the same observation. In `GitWarpEmissionsMC` the history is
chosen so that reading a node at any wrong ceiling gives another answer; two callers that
overlap cover a redundant extraction, and a third would only repeat it. Two
attempts settle in both orders, before and after a disconnect, and are enough
for a generation to recur; what more of them could do is covered by the proofs,
which bound neither attempts nor disconnects. The menu of the
connect page is cut to two options, the git-warp form and one other: the five
others differ in the adapter they name only. Two sessions let a load outlive its
session; the four frames of `TuiShellMC` have one, two and three sites, a lane
of the tree without a site, and two sites on one lane, so that each outcome of a
lane move and of a normalised selection occurs. `MaxSessions`, `MaxPins`, `MaxAttempts`,
`MaxDisconnects` and `MaxCreations` bound what the code leaves unbounded; the
last creation allowed never fails, so that a run can settle.

Two entries are enough for one to disturb another (a shared id, also with an id
made up for an entry without one; a defect before or after a sound entry); the
fifteen shapes are one for each branch of the normalisation, the documents one
for each way of being unusable. The contents of a root are: gone, bare, with a
bridge that is current, too new, unreadable or without its ABI version, with
manifests whose fields and paths are sound, repeated, unknown, or lead out of the root.
`MaxChanges = 1` puts a change before, between or after any two looks. In
`Views` the patches come in an order that is not that of their ticks, one catalog
has a lane whose parent is nowhere, two have children before their parents; the
requests of a seek lie at, inside and beyond the history, and with `MaxLanes = 2` the
navigator has room for fewer lanes than some catalogs have.

**Deadlock** is checked except on the connect page, which on reaching its bounds,
or when connected, waits for a user who need not do anything, and in
`Discovery`, where an inspection ends with its answer; that it does not stop
before is `InspectionEnds`.

**Fairness.** Weak fairness of the steps that settle a promise or resume its
awaiter, one per command, call or attempt: adapters settle what they return, and
the event loop runs continuations. No key, no command and no tool call is
assumed to happen; in the shell the pulse is, which is a timer. In an inspection
the loop over the targets goes on, and an attempt to open a session settles one
way or the other; no change of the disk is assumed. `CommandsSettle`,
`ConnectingEnds`, `CallsSettle` and `InspectionEnds` allow rejections.

## What is proved

For every value of the constants that meets the named assumptions of the
modules, by the TLA+ proof system:

* **`DebuggerSessionProofs`.** `TypeCorrect`: the types, by one lemma for the
  reads (`ReadTyped`) and one per operation on pins; it is inductive because it
  also says that whatever is past its frame read knows its frame, which
  `Commit` needs. `PublishedCorrect`: each summary is what the
  host offers for the frame on show, whichever frames the other parts of the
  snapshot are of. The invariant it needs is about commands in flight: the frame
  a command has read, not the one the head is on when the facts are asked for, is
  the frame they are asked for. On a full host nothing is
  shown for another frame and nothing for this one is lost; that a published
  payload really speaks of the frame is the host's word (`FaithfulPayloads`). `PinsCorrect`: pins pair deliveries with emissions of the same
  frame; the pin step rests on `IdentityAssumption` (a delivery names an
  emission of its own frame), the unpin step on the lemma about removing an
  element of a sequence. `SerialCoherent`: under `OneCommandAtATime` and
  `FaithfulPayloads`, no snapshot mixes frames. Coherence alone is not inductive; `CallsCurrent` adds
  that every part of the command in flight was read at the frame the head is on
  now, which holds because nothing else moves the head.
  `SlowEmissionsWhole`: with any number of overlapping commands, on a host that
  awaits only for its emissions, no snapshot mixes frames. The invariant
  `OverlapInv` says of every command in flight what it has read (`ReadsTogether`):
  up to the emissions everything is of the frame the head is on now, since it is
  still in the turn it began to read in; after them everything is of one frame.
  The hypothesis `SlowHostsObserveNothing` says that
  such a host declares no delivery observations, which are read after the
  emissions; the git-warp adapter, the only one that awaits there, declares none,
  and publishes no facts of which `FaithfulPayloads` would have to hold.
  `SerialImplementsContract`: under the assumptions of `SerialCoherent` the session implements
  `SessionContract`. Each action maps to `Move`, to `Show`, to a pin or unpin, or
  to a stutter; `Commit` is the step that needs the invariant, without which what
  is assigned need not be the frame the host is on. The sentinel for "no session
  yet" must differ from every snapshot and frame (`SentinelAssumption`).
* **`McpSessionResolverProofs`.** `ResolverTyped`, `SharedSession` and
  `SharedCreation` (which also proves `NoStalePromise`): the
  invariant ties the promise, the session and every call to the last creation:
  all creations before it were rejected, so a call that got a session got the
  last one's.
* **`ConnectPageProofs`.** `PageTyped` (with a bound of the generation by the
  number of attempts, without which a launch could leave the type);
  `FormCorrect` (the step "input-graph" implies a path that is not blank, kept
  under results that move the step); `NewestSelectionWins` and
  `ShownSessionStays`: until the first disconnect the generation of an attempt
  is its position, so the one accepted is the newest; `DisconnectHolds`: every
  attempt launched has a generation of at least one, so nothing in flight
  matches a page that was reset, and an answer leaves all of it alone, the step
  an error would move to included. The run `ConnectRecycled` shows why the first
  two stop at a disconnect.
* **`GitWarpEmissionsProofs`.** `EmissionsTyped`, and what the cache guarantees
  to callers of whom nothing is assumed: any number of them, overlapping on any
  frames. A history variable, which restricts no behaviour, records the frames
  the graph was materialized away from while an extraction of them had nodes left
  to read (`RecordOverlap`). `CacheCorrect`, `AnswersCorrect` and `CacheKept` say
  that this is the only way to go wrong: a frame that was never overlapped like that is
  cached and answered with its own effects, and its entry never changes. The
  invariant adds that the graph is at the frame of every extraction that still
  reads (`AtFrame`), and that a call has found exactly the frame's effects on the
  nodes it has read (`FoundSoFar`). If the callers let only extractions of one
  frame overlap, nothing is ever recorded: that is the case
  `EmissionsSerialized` checks, with the properties stated for all frames. The run
  `EmissionsOverlap` shows that the exception is needed, and nothing in the code
  keeps it from happening.
* **`TuiShellProofs`.** `ShellTyped`, with the facts about the site catalog it
  needs (a normalised, moved or lane-driven selection is a site of the catalog).
  `FramesCorrect` and `FocusCorrect` are inductive on the types.
  `TimelineCorrect` is about steps: one that changes the lane or the site leaves the
  timeline of that lane on show, if it has a site in the frame; any other leaves lane and
  focus as they are, or brings another frame on show at its active site. It needs
  to know of the states between that the focus is made of the selection, and that
  its lane is the page's own or the primary lane of its frame (`TimelineKnown`). The two cases it leaves out are
  among the divergences below. `CursorCorrect`, under
  `PrimaryLane` (all adapters list one primary lane first in every frame, and a
  site is on a lane of its frame): the cursor itself does not stay within the
  rows of the page's own lane, but the timeline on show is then the primary
  lane's, which has every frame.
* **`RuntimeDiscoveryProofs`.** For registries of any number of entries, any
  contents of the disk and any number of changes to it. The invariant
  `InspectionInv` (`InspectionSound`) says that every target on show was found
  with the descriptor of its own place, on the disk as it is now if it has not
  changed, that a session is only ever opened on a look that allows one, and
  that the answer is made of nothing else; it rests on what normalisation makes
  of any entry (`NormalizedConnects`, `EntryRuntime`, `LoadedWellMade`).
  `InspectionTyped`: the types, for which a root that is named must be one the
  disk knows. `VerdictsConsistent` compares, mode by mode, the posture of a
  record with that of its hello: the same when the two looks found the target
  alike, with the one exception of a descriptor-only target whose root is missing; and
  when the root came, went or changed in between, REACHABLE still needs a hello
  that answers. `DuplicatesNeverOpened` and `ReachabilityExact`
  go back to the document: an id is a duplicate exactly when another entry has
  it, before or after (`DuplicateIdsAre`), obstructing twice is obstructing once
  (`ObstructedTwice`), metadata are read up to the first field that is invalid
  (`MetadataRead`). `DefectsAreNamed` follows the redactions of a record, and the
  defects of its entry among its reasons, back to the entry at its place, through the obstruction of duplicates
  (`EntryDefects`, `RedactionsAre`, `RegistrySays`, `SharedIds`).
  `IntakeBornOut`: what is said of the families a root publishes is what its
  manifest lists and its files bear out, and no file outside the root is looked
  at. Its core is about paths: `NormalizedWalk` unfolds the fold over the segments,
  and a path that does not lead up when normalised stays below any root it is
  joined to (`WalkCleanOrLeads`, `JoinedStays`). `DocumentAssumption` and
  `ManifestAssumption` say that entries, fields and paths are sequences, and that
  a source gives one document at most. What the code lists in order and only
  asks membership of (redactions, reasons, kept metadata, missing files) is a set.
* **`HostViewsProofs`.** For every graph, every scenario and the Echo fixture, of
  any size, within `HostsAssumption`. `HeadInvariant`: the head is on a frame of
  the history that its host has. The rest follows from that and from what the
  histories are. `FramesTellTheHistory`: a patch is told in the frame of its tick,
  once, and in no other, and a receipt takes its lane from the tick it had in
  the frame before to the one it has in its own (`GraphChains`, `ScenarioChains`,
  `EchoChains`). `ViewsTellTheSame`: all views of a frame come to one verdict. What
  the three kinds of history have in common is `Listed` (every frame lists the
  catalog's lanes in order, receipts and emissions are on lanes of it, the
  emissions of a frame have different ids), and that is all the views need: each
  view is shown to say something of one of two sets of receipts, those that
  reject (`Rejected`) and those that leave alternatives (`Open`), so the views
  agree through them (`OutcomeIs`, `ObligationsAre`, `SumsAre`, `LaneRowIs`). Under
  them lie what filtering, flattening, adding up and removing duplicates do to a
  sequence of any length (`PickedIs`, `FlattenWalk`, `FlattenPart`,
  `FlattenCounts`, `TotalWalk`, `DistinctIs`).
  `LanesDrawnWhole` is `WorldlineDrawn` under `WorldlinesAreRoots`: no worldline of
  a scenario names a parent. `buildScenario` does not look at it, every catalog
  in the repository is so, the run evaluates it on its hosts, and a worldline
  that names an unknown parent would be in neither tree. Then the catalog of
  every host is a forest, with the number of steps after which a lane resolves
  as its rank (`ScenarioDrawable`), and so is what is shown of it
  (`DisplayForest`). By induction over the height that is left, the walk down
  from a lane lists that lane and all below it, each once, after its parent and
  one deeper (`BranchGrows`, `BranchesJoin`, `WalksTellBranches`), the two trees
  list the same lanes in the same order (`TreesAgree`), and no lane is lost, for
  from each a way leads up to a root (`PathThere`, `TreeDrawn`). The graph beside
  the rows follows from the columns being the lanes shown, each once
  (`ColumnsAre`, `ForkedOnce`, `ForksJoined`), and the window from arithmetic
  (`WindowHolds`).
* **`SequenceLemmas`.** What the library operators for finding and removing an
  element return, that a set of numbers has a least member (`MinIsLeast`) and
  induction stated for a set of numbers (`UpTo`), which the proofs above cite.

The induction theorems of the library take an operator as a parameter and cannot be
used here. A fold or a recursive function is unfolded instead by induction over a
set of numbers: there is a function that takes its first k steps, for every
k up to the length of the data.

Model-checked only: liveness (`CommandsSettle`, `ConnectingEnds`, `CallsSettle`,
`FocusCatchesUp`, `WorldlineFills`, `InspectionEnds`), which is out of the proof
system's reach here. Every safety property of a run that passes is stated by a theorem, but for
`CacheReflectsFrame`, `AnswersReflectFrame` and `CacheStable`, which hold of the
callers of that run: the theorems state them for all callers, with the frames
they except.

## Findings

1. `SessionOvertaken`: of two overlapping commands the older refetch may be
   assigned last. At rest the session then shows a frame the host's head has
   left, against the design's "The materialized view at the current frame".
2. `EmissionsOverlap`: the extractor says that its callers must serialize calls
   on one graph; its caller does not, and caches what was read at the ceiling of
   another call.
3. `ConnectRecycled`: a disconnect resets the generation, so an attempt from
   before it can overwrite the selection made after it.
4. `ShellCursor`: the worldline cursor is said to be kept in sync with the
   session's frame index, but `updateApp` compares two readings of one live
   session inside one turn, and the session changes between turns: the change is
   never seen and the cursor stays where it was. Selection and focus do follow
   (`FocusCatchesUp`), because they are recomputed on every message.

Met while modelling, and not the subject of a run: where a line of the repository says
otherwise it is quoted, and a property that meets the case excludes it by name
or says what the code does instead.

* `buildPinLines` shows the three oldest pins and counts the newest as "older"
  (`navigatorLayout.ts`; pins are pushed at the end, `debuggerSession.ts:229`).
  The design of the navigator (`docs/design/0009-navigator-view/0013-navigator-view-design.md:220`)
  asks for the three most recent.
* A field of the metadata that is invalid and sorts before a secret ends the
  reading: the secret is dropped, and is not named. `DefectsNamed` says so.
* A registry file that is an object with the members of a reason is taken for one
  (`LIKE_REASON` in `RuntimeDiscoveryMC`).
* A descriptor-only target whose root is missing is ABSENT whatever its hello says
  (`runtimeDiscovery.ts:172`); `RecordAgreesWithHello` makes the exception.
* Every obstructed target is given the reasons of the whole registry, those of
  other entries included (`registryReasons`, `runtimeDiscovery.ts:132-139`).
  `DefectsNamed` promises that an entry's own are among them and that a sound
  entry's record names no entry's defect, and no more.
* Hydration validates the types of a published payload; neither it nor the
  assembler compares the payload's own frame index with the envelope's target
  (`neighborhoodAssembler.ts:77-86`, `sharedFamilyHydration.ts:185-201`,
  `NeighborhoodCoreSummary.ts:138-164`). A payload about another frame is shown as
  HOST_PUBLISHED for this one. `SessionOverlapping` has such a host.
* LOCAL_FALLBACK is said to mean that WARP TTD "derived the summary locally from protocol facts"
  (`docs/manual/002-host-published-family-facts.md:59-60`), but the local detail and shell are built from
  the core on show, which may be the host's (`ReintegrationDetailSummary.ts:265-281`,
  `ReceiptShellSummary.ts:45-66`).
* The timeline is not always that of the lane selected, as the design of the
  worldline has it ("Right pane: tick timeline scoped to the selected lane",
  `docs/design/0014-worldline-view-rethink/worldline-view-rethink.md:65`; also :25-26, :36,
  :75, :97, and `playback-witness.md:20-22` beside it). A lane of the tree without a site in the
  frame cannot be focused, and after a change of frame the selection starts again
  at the primary site while the lane pane keeps its cursor: in both cases the primary lane's
  timeline is shown. `TimelineOfLane` excludes exactly these two.
* Ancestors are followed without a check for cycles: a catalog with one would not
  terminate. The histories the adapters build have none, and neither have the catalogs of
  the model. A lane whose parent is not in the catalog is in neither tree.
* Receipt ids keep eight digits of a patch; the site catalog takes two with the
  same for one alternative. `Views` includes such a pair.

## Not modelled

* Shaders, widths, colors and terminal positions; the receipt rows of the navigator; the
  digits of its jump input; frames without lanes.
* Writers, wording, and the wire format; the hydrators and
  `sharedFamilyHydration`'s decoding beyond whether a payload is accepted: pure
  decoding of typed data.
* Generated types; the start-up of the MCP server and of the CLI, argument
  parsing and printing. The CLI awaits each command of one session, the case
  `SessionSerial` covers.
* The scripts that check and draw the repository's Markdown
  (`scripts/docs-verify.mjs`, `scripts/roadmap-dag.mjs`), which are no part of the
  debugger.
* Crash and restart: nothing is persisted, so there is nothing to recover.
* Multiple heads: a session has one active head, and no surface creates two
  sessions on one adapter.

In the modules about interleavings the contents of receipts, lanes and summaries
are abstracted to the frames they belong to; `HostViews` has the contents and no
interleaving. That the two fit is the meaning of `SnapshotCoherent`: a whole
snapshot is what the view functions are applied to.

## What is left

The order was: what interleaves first (session, graph, connect page, resolver,
shell), then the inspection of targets, then the views. What would come next:

1. In `TuiShell`, the tick rows and the lane tree of `LaneViews` in the place of
   constants, and with them a statement of which lanes of a real tree have no
   site and so never get their own timeline.
