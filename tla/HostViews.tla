------------------------------ MODULE HostViews ------------------------------
(***************************************************************************)
(* A head moves through the history of a host, and everything shown of     *)
(* the frame it is on is derived from that frame: the summaries, the       *)
(* admission chain, the lanes and the drawing of the whole history.        *)
(***************************************************************************)
EXTENDS LaneViews

CONSTANTS
  Hosts,               \* what the hosts are made from
  Requests,            \* the frames that are asked for
  MaxLanes             \* the lanes the navigator has room for

\* A host is what its adapter is given: of a graph, strands and patches that
\* differ in their names, Lamport ticks counted from 1; of a scenario, lanes
\* that differ in their ids, of which there is one, and have one parent at most.
IsGraph(given) ==
  /\ given \in [kind : {"GIT_WARP"}, strands : Seq(STRING),
                patches : Seq([sha : STRING, abbreviated : STRING, lamport : Nat \ {0},
                               ops : Seq(STRING)])]
  /\ \A i, j \in DOMAIN given.strands : given.strands[i] = given.strands[j] => i = j
  /\ \A i \in DOMAIN given.strands : given.strands[i] # Live.id
  /\ \A i, j \in DOMAIN given.patches : given.patches[i].sha = given.patches[j].sha => i = j

GivenLanes     == [id : STRING, kind : {"WORLDLINE", "STRAND"}, parent : SUBSET STRING]
GivenReceipts  == [lane : STRING,
                   counts : [admitted : Nat, rejected : Nat, counterfactual : Nat]]
GivenEmissions == [lane : STRING, kind : STRING,
                   deliveries : Seq([sink : STRING, outcome : STRING])]

IsScenario(given) ==
  /\ given \in [kind : {"SCENARIO"}, lanes : Seq(GivenLanes),
                frames : Seq([tick : Nat, receipts : Seq(GivenReceipts),
                              emissions : Seq(GivenEmissions)])]
  /\ given.lanes # <<>>
  /\ \A lane \in ToSet(given.lanes) : \A p, q \in lane.parent : p = q
  /\ \A i, j \in DOMAIN given.lanes : given.lanes[i].id = given.lanes[j].id => i = j

ASSUME HostsAssumption ==
  \A given \in Hosts : IsGraph(given) \/ IsScenario(given) \/ given = [kind |-> "ECHO"]

ASSUME RequestsAssumption == Requests \subseteq Int

ASSUME MaxLanesAssumption == MaxLanes \in Nat

\* A worldline of a scenario that names a parent is no root of a tree, and it
\* is in none when its parent is not: buildScenario takes it all the same, but
\* no scenario in the repository has one.
WorldlinesAreRoots ==
  \A given \in Hosts : given.kind = "SCENARIO" =>
    \A lane \in ToSet(given.lanes) : lane.kind = "WORLDLINE" => lane.parent = {}

VARIABLES
  host,
  history,
  head                 \* the frame the head is on

vars == <<host, history, head>>

LastFrame == Max(DOMAIN history.frames)

Playback == INSTANCE PlaybackHead WITH MaxFrame <- LastFrame

Init ==
  /\ host \in Hosts
  /\ history \in Histories(host)
  /\ head = 0

MoveTo(frame) == head' = frame /\ UNCHANGED <<host, history>>

StepForward  == MoveTo(Playback!Forward(head))
StepBackward == MoveTo(Playback!Backward(head))
SeekToFrame  == \E requested \in Requests : MoveTo(Playback!Clamp(requested))

Next == StepForward \/ StepBackward \/ SeekToFrame

Spec == Init /\ [][Next]_vars
----------------------------------------------------------------------------
(* The frame the head is on, and what is made of it *)

lanes        == history.frames[head]
receipts     == history.receipts[head]
emissions    == history.emissions[head]
observations == history.observations[head]

core   == Core(head, lanes, receipts, emissions)
detail == Detail(lanes, core, receipts)
shell  == Shell(core, receipts)
sites  == SiteCatalog(core)
chain  == AdmissionChain(lanes, core, receipts)

TickOf(n, lane) == (CHOOSE view \in ToSet(history.frames[n]) : view.lane = lane).tick

Recorded(n, patch) ==
  Cardinality({k \in DOMAIN history.receipts[n] : history.receipts[n][k].digest = patch.sha})

\* A receipt takes its lane from the tick it had in the frame before to the
\* one it has in its own, a lane is changed exactly when it has a receipt, and
\* no patch of a graph is lost, told twice or told out of the order of time
\* (buildFrameIndex, resolveInputTick, toLaneFrameView, populateFrameData).
FramesChain ==
  /\ \A k \in DOMAIN receipts :
       /\ receipts[k].output = TickOf(head, receipts[k].lane)
       /\ receipts[k].input = TickOf(head - 1, receipts[k].lane)
  /\ \A view \in ToSet(lanes) : view.changed <=> Contains(LaneIds(receipts), view.lane)
  /\ host.kind = "GIT_WARP" =>
       /\ \A patch \in ToSet(host.patches) :
            Recorded(head, patch) = IF head > 0 /\ patch.lamport = Head(lanes).tick THEN 1 ELSE 0
       /\ \A patch \in ToSet(host.patches) :
            \E n \in DOMAIN history.receipts : Recorded(n, patch) = 1
       /\ \A view \in ToSet(lanes) : head > 0 => TickOf(head - 1, view.lane) < view.tick

\* The row of the frame the head is on in the timeline of one lane.
LaneRow(lane) ==
  LET rows == TickRows(FilterFramesToLane(Timeline(history), lane), history.lanes)
  IN  rows[SelectInSeq(rows, LAMBDA row : row.frame = head)]

Status(status) == {k \in DOMAIN detail.obligations : detail.obligations[k].status = status}

\* Each view judges the receipts by itself, and they all come to the same
\* verdict; what one of them refers to, the others have (deriveOutcome,
\* obligationStatus, fromReceipts, frameToTickRow, filterFramesToLane,
\* normalizeSites, factsFor, buildEffectRows).
ViewsAgree ==
  LET rejected == core.outcome = "OBSTRUCTED"
      row      == FrameToTickRow(Timeline(history)[head + 1], history.lanes)
      rows     == EffectRows(emissions, observations, history.delivers)
  IN  /\ rejected <=> Status("VIOLATED") # {}
      /\ rejected <=> shell.rejected > 0
      /\ rejected <=> row.hasConflict
      /\ rejected <=> \E lane \in ToSet(history.lanes) : LaneRow(lane.id).hasConflict
      /\ \A lane \in ToSet(history.lanes) :
           LaneRow(lane.id).tick = TickOf(head, lane.id) /\ LaneRow(lane.id).lane = lane.id
      /\ shell.blocking <=> core.outcome # "LAWFUL"
      /\ Cardinality(Status("UNKNOWN")) = Len(core.alternatives)
      /\ ToSet(detail.evidence) \subseteq {o.id : o \in ToSet(detail.obligations)}
      /\ {anchor.lane : anchor \in ToSet(detail.anchors)} = {core.primary} \cup ToSet(core.participating)
      /\ {site.lane : site \in ToSet(sites)} \subseteq {anchor.lane : anchor \in ToSet(detail.anchors)}
      /\ {site.id : site \in ToSet(sites)} =
           {core.site} \cup {Append(core.site, a.id) : a \in ToSet(core.alternatives)}
      /\ \A i, j \in DOMAIN sites : sites[i].id = sites[j].id => i = j
      /\ \A fact \in ToSet(chain.facts) :
           /\ fact.source.field = fact.key /\ fact.source.posture = fact.posture
           /\ fact.key = "receipts" => (fact.posture = "PRESENT" <=> shell.receipts # <<>>)
      /\ ToSet(chain.reading.receipts) = ToSet(shell.receipts)
      /\ history.delivers =>
           \A emission \in ToSet(emissions) :
             LET Of(seq) == Where(seq, LAMBDA item : item.emission = emission.id)
                 shown   == [d \in DOMAIN Of(rows) |-> <<Of(rows)[d].sink, Of(rows)[d].status>>]
                 made    == [d \in DOMAIN Of(observations) |->
                               <<Of(observations)[d].sink, Of(observations)[d].outcome>>]
             IN  shown = IF made = <<>> THEN <<<<"(none)", "emitted">>>> ELSE made

Position(tree, id) == SelectInSeq(tree, LAMBDA line : line.lane = id)

\* The lanes drawn for a neighborhood hang together: each of them, and each
\* lane it descends from, is in the tree once and below its parent; a strand's
\* fork is drawn in the oldest row it is active in and nowhere else, joined to
\* its parent's column; and the row of the head is among those on show in a
\* window of any size (buildDisplayCatalog, buildLaneTreeLines, buildLaneTree,
\* detectForks, buildForkRanges, scrollWindow).
WorldlineDrawn ==
  LET shown   == DisplayCatalog(history.lanes, core.participating)
      tree    == LaneTreeLines(shown)
      rows    == TickRows(Timeline(history), history.lanes)
      cursor  == SelectInSeq(rows, LAMBDA row : row.frame = head)
      columns == AssignColumns(shown)
      cells   == [k \in DOMAIN rows |-> GutterCells(rows, shown, k)]
      lines   == LaneLines(history.lanes, MaxLanes)
  IN  /\ ToSet(core.participating) \subseteq {line.lane : line \in ToSet(tree)}
      /\ Len(tree) = Len(shown)
      /\ [k \in DOMAIN tree |-> tree[k].lane] = [k \in DOMAIN tree |-> LaneTree(shown)[k].id]
      /\ \A lane \in ToSet(shown) : \A parent \in lane.parent :
           /\ Position(tree, parent) \in 1 .. Position(tree, lane.id) - 1
           /\ tree[Position(tree, lane.id)].depth = tree[Position(tree, parent)].depth + 1
      /\ Len(lines.visible) + lines.more = Len(history.lanes)
      /\ \A c \in DOMAIN columns :
           LET strand == columns[c]
               active == {k \in DOMAIN rows : Contains(rows[k].active, strand.id)}
           IN  /\ {k \in DOMAIN rows : cells[k][c].char = "fork"} =
                    IF strand.kind = "STRAND" /\ active # {} THEN {Max(active)} ELSE {}
               /\ {k \in DOMAIN rows : cells[k][c].char \in {"fork", "active"}} = active
               /\ \A k \in DOMAIN rows, parent \in strand.parent :
                    cells[k][c].char = "fork" =>
                      LET other == Column(columns, parent)
                      IN  \A d \in Min({c, other}) .. Max({c, other}) - 1 : cells[k][d].line
      /\ \A k \in DOMAIN rows :
           (\E c \in DOMAIN columns : cells[k][c].line) =>
             \E c \in DOMAIN columns : cells[k][c].char = "fork"
      /\ \A size \in 1 .. Len(rows) :
           cursor - 1 - ScrollOffset(Len(rows), cursor - 1, size) \in 0 .. size - 1
=============================================================================
