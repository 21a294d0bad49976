---------------------------- MODULE HostHistories ----------------------------
(***************************************************************************)
(* The recorded histories that the adapters in the repository offer to a   *)
(* session, built from what each adapter is given: the patches of a graph  *)
(* (gitWarpAdapter.ts), a scenario (scenarioFixtureAdapter.ts), nothing    *)
(* (echoFixtureAdapter.ts).                                                *)
(*                                                                         *)
(* Of a lane, whether it can be written to and the worldline it resolves   *)
(* to are left out, and so are writers and wording.  Capabilities count    *)
(* only as far as deliveries can be read.  The effects of a graph are      *)
(* GitWarpEmissions' and are left out here.                                *)
(***************************************************************************)
EXTENDS Integers, SequencesExt, FiniteSetsExt

Lane(id, kind, parent) == [id |-> id, kind |-> kind, parent |-> parent]

LaneView(lane, tick, changed, digest) ==
  [lane |-> lane, tick |-> tick, changed |-> changed, digest |-> digest]

Receipt(id, lane, input, output, counts, digest) ==
  [id |-> id, lane |-> lane, input |-> input, output |-> output, counts |-> counts,
   digest |-> digest]

Counts(admitted, rejected, counterfactual) ==
  [admitted |-> admitted, rejected |-> rejected, counterfactual |-> counterfactual]

NoDigest == ""

\* The frame before anything happened, the same with every adapter.
Genesis(lanes) == [k \in DOMAIN lanes |-> LaneView(lanes[k].id, 0, FALSE, NoDigest)]

\* The members of a set of numbers, the least first.
Ascending(I) ==
  [k \in 1 .. Cardinality(I) |-> CHOOSE i \in I : Cardinality({j \in I : j <= i}) = k]

\* Array.prototype.filter: what is at the positions of I, and where Test holds.
Picked(seq, I) == [k \in DOMAIN Ascending(I) |-> seq[Ascending(I)[k]]]

Where(seq, Test(_)) == Picked(seq, {i \in DOMAIN seq : Test(seq[i])})

Total(values) == FoldLeft(+, 0, values)

----------------------------------------------------------------------------
(* git-warp: frame n holds the patches of the n-th Lamport tick *)

Live == Lane("wl:live", "WORLDLINE", {})

GitWarpLanes(strands) ==
  <<Live>> \o [k \in DOMAIN strands |-> Lane(strands[k], "STRAND", {Live.id})]

FrameIndex(patches) ==
  LET ticks == Ascending({patch.lamport : patch \in ToSet(patches)})
  IN  [n \in DOMAIN ticks |->
         [tick     |-> ticks[n],
          receipts |-> Where(patches, LAMBDA patch : patch.lamport = ticks[n])]]

CountOps(ops) ==
  LET Count(result) == Cardinality({i \in DOMAIN ops : ops[i] = result})
  IN  Counts(Count("applied"), Count("superseded"), Count("redundant"))

\* Mutant: the tick of the frame itself, not of the one before.
InputTickOwn(index, n) == IF n = 1 THEN 0 ELSE index[n].tick

InputTick(index, n) == IF n = 1 THEN 0 ELSE index[n - 1].tick

\* The id holds the first eight digits of the sha, which patches may share.
ToReceipt(patch, index, n) ==
  Receipt(patch.abbreviated, Live.id, InputTick(index, n), index[n].tick,
          CountOps(patch.ops), patch.sha)

ToLaneView(lane, index, n) ==
  LET changed == lane.kind = "WORLDLINE" /\ index[n].tick # InputTick(index, n)
  IN  LaneView(lane.id, index[n].tick, changed,
               IF changed THEN index[n].receipts[1].sha ELSE NoDigest)

GitWarpHistory(graph) ==
  LET lanes == GitWarpLanes(graph.strands)
      index == FrameIndex(graph.patches)
  IN  [lanes        |-> lanes,
       frames       |-> [n \in 0 .. Len(index) |->
         IF n = 0 THEN Genesis(lanes)
                  ELSE [k \in DOMAIN lanes |-> ToLaneView(lanes[k], index, n)]],
       receipts     |-> [n \in 0 .. Len(index) |->
         IF n = 0 THEN <<>>
                  ELSE [k \in DOMAIN index[n].receipts |->
                          ToReceipt(index[n].receipts[k], index, n)]],
       emissions    |-> [n \in 0 .. Len(index) |-> <<>>],
       observations |-> [n \in 0 .. Len(index) |-> <<>>],
       delivers     |-> FALSE]

----------------------------------------------------------------------------
(* The scenario builder *)

\* The lanes from which a worldline is reached in at most n steps.
Resolved(lanes) ==
  LET Reach[n \in 0 .. Len(lanes)] ==
        IF n = 0 THEN {lane.id : lane \in {l \in ToSet(lanes) : l.kind = "WORLDLINE"}}
        ELSE Reach[n - 1] \cup
               {lane.id : lane \in {l \in ToSet(lanes) :
                                      \E parent \in l.parent : parent \in Reach[n - 1]}}
  IN  Reach[Len(lanes)]

\* buildScenario throws when a strand leads nowhere or when a receipt or an
\* emission is on a lane that is not declared.
Declared(scenario) == {lane.id : lane \in ToSet(scenario.lanes)}

Builds(scenario) ==
  /\ Resolved(scenario.lanes) = Declared(scenario)
  /\ \A frame \in ToSet(scenario.frames) :
       /\ \A receipt \in ToSet(frame.receipts) : receipt.lane \in Declared(scenario)
       /\ \A emission \in ToSet(frame.emissions) : emission.lane \in Declared(scenario)

\* Ids are numbered across the frames.
Earlier(frames, n, part) == Total([i \in 1 .. n - 1 |-> Len(frames[i][part])])

ScenarioReceipts(frames, n) ==
  LET before == Earlier(frames, n, "receipts")
      given  == frames[n].receipts
  IN  [k \in DOMAIN given |->
         Receipt(before + k, given[k].lane, IF n = 1 THEN 0 ELSE frames[n - 1].tick,
                 frames[n].tick, given[k].counts, NoDigest)]

ScenarioEmissions(frames, n) ==
  LET before == Earlier(frames, n, "emissions")
      given  == frames[n].emissions
  IN  [k \in DOMAIN given |->
         [id |-> before + k, lane |-> given[k].lane, kind |-> given[k].kind]]

ScenarioObservations(frames, n) ==
  LET emissions == ScenarioEmissions(frames, n)
  IN  FlattenSeq([k \in DOMAIN emissions |->
         [d \in DOMAIN frames[n].emissions[k].deliveries |->
            [emission |-> emissions[k].id,
             sink     |-> frames[n].emissions[k].deliveries[d].sink,
             outcome  |-> frames[n].emissions[k].deliveries[d].outcome]]])

ScenarioFrame(lanes, frame) ==
  [k \in DOMAIN lanes |->
     LaneView(lanes[k].id, frame.tick,
              \E receipt \in ToSet(frame.receipts) : receipt.lane = lanes[k].id, NoDigest)]

ScenarioHistory(scenario) ==
  LET frames == scenario.frames
      At(n, none, Of(_, _)) == IF n = 0 THEN none ELSE Of(frames, n)
  IN  [lanes        |-> scenario.lanes,
       frames       |-> [n \in 0 .. Len(frames) |->
         IF n = 0 THEN Genesis(scenario.lanes) ELSE ScenarioFrame(scenario.lanes, frames[n])],
       receipts     |-> [n \in 0 .. Len(frames) |-> At(n, <<>>, ScenarioReceipts)],
       emissions    |-> [n \in 0 .. Len(frames) |-> At(n, <<>>, ScenarioEmissions)],
       observations |-> [n \in 0 .. Len(frames) |-> At(n, <<>>, ScenarioObservations)],
       delivers     |-> \E frame \in ToSet(frames) : frame.emissions # <<>>]

----------------------------------------------------------------------------
(* The Echo fixture *)

EchoLanes == <<Lane("wl:main", "WORLDLINE", {}), Lane("ws:sandbox", "STRAND", {"wl:main"})>>

EchoHistory ==
  LET Delivery(emission, sink, outcome) ==
        [emission |-> emission, sink |-> sink, outcome |-> outcome]
  IN  [lanes        |-> EchoLanes,
       frames       |-> [n \in 0 .. 2 |->
         CASE n = 0 -> Genesis(EchoLanes)
           [] n = 1 -> <<LaneView("wl:main", 1, TRUE, "btr:echo:main:0001"),
                         LaneView("ws:sandbox", 0, FALSE, NoDigest)>>
           [] n = 2 -> <<LaneView("wl:main", 1, FALSE, NoDigest),
                         LaneView("ws:sandbox", 1, TRUE, "btr:echo:sandbox:0001")>>],
       receipts     |-> [n \in 0 .. 2 |->
         CASE n = 0 -> <<>>
           [] n = 1 -> <<Receipt("main:0001", "wl:main", 0, 1, Counts(2, 0, 0), "rcpt:main:0001")>>
           [] n = 2 -> <<Receipt("sandbox:0001", "ws:sandbox", 0, 1, Counts(1, 1, 1),
                                 "rcpt:sandbox:0001")>>],
       emissions    |-> [n \in 0 .. 2 |->
         CASE n = 0 -> <<>>
           [] n = 1 -> <<[id |-> 1, lane |-> "wl:main", kind |-> "diagnostic"]>>
           [] n = 2 -> <<[id |-> 2, lane |-> "ws:sandbox", kind |-> "notification"]>>],
       observations |-> [n \in 0 .. 2 |->
         CASE n = 0 -> <<>>
           [] n = 1 -> <<Delivery(1, "tui-log", "DELIVERED"), Delivery(1, "chunk-file", "DELIVERED")>>
           [] n = 2 -> <<Delivery(2, "network", "SUPPRESSED"), Delivery(2, "tui-log", "DELIVERED")>>],
       delivers     |-> TRUE]

----------------------------------------------------------------------------
(* What a host is made from, and the history it then has: none when its *)
(* adapter cannot be built                                              *)

Histories(host) ==
  CASE host.kind = "GIT_WARP" -> {GitWarpHistory(host)}
    [] host.kind = "SCENARIO" -> {ScenarioHistory(s) : s \in {t \in {host} : Builds(t)}}
    [] host.kind = "ECHO"     -> {EchoHistory}
=============================================================================
