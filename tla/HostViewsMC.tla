----------------------------- MODULE HostViewsMC -----------------------------
(***************************************************************************)
(* Small hosts for HostViews: graphs of up to three patches, scenarios on  *)
(* five catalogs of lanes, the Echo fixture.                               *)
(***************************************************************************)
EXTENDS HostViews

Patch(sha, abbreviated, lamport, ops) ==
  [sha |-> sha, abbreviated |-> abbreviated, lamport |-> lamport, ops |-> ops]

\* As materialize returns them: not in the order of their ticks; two share a
\* tick and two, of which each is partly redundant, the digits of their ids.
Patches ==
  {Patch("aa1", "aa", 3, <<"applied", "redundant">>),
   Patch("bb1", "bb", 1, <<"applied">>),
   Patch("aa2", "aa", 3, <<"redundant">>),
   Patch("cc1", "cc", 7, <<"superseded", "applied">>)}

Graphs ==
  {[kind |-> "GIT_WARP", strands |-> strands, patches |-> patches] :
     strands \in {<<>>, <<"ws:a", "ws:b">>},
     patches \in {p \in BoundedSeq(Patches, 3) : IsInjective(p)}}

Given(lane, counts) == [lane |-> lane, counts |-> counts]
Emitted(lane, sinks) ==
  [lane |-> lane, kind |-> "diagnostic",
   deliveries |-> [k \in DOMAIN sinks |-> [sink |-> sinks[k], outcome |-> "DELIVERED"]]]
At(receiptsGiven, emitted) == [tick |-> 0, receipts |-> receiptsGiven, emissions |-> emitted]

Steps ==
  {At(<<>>, <<>>),
   At(<<Given("main", Counts(2, 0, 0)), Given("main", Counts(1, 1, 0))>>,
      <<Emitted("main", <<"log">>)>>),
   At(<<Given("strand", Counts(1, 0, 1))>>,
      <<Emitted("main", <<>>), Emitted("strand", <<"log", "network">>)>>),
   At(<<Given("nested", Counts(0, 1, 2)), Given("strand", Counts(0, 0, 1))>>, <<>>),
   At(<<>>, <<Emitted("nested", <<"export">>)>>)}

Catalogs ==
  LET main   == Lane("main", "WORLDLINE", {})
      other  == Lane("other", "WORLDLINE", {})
      strand == Lane("strand", "STRAND", {"main"})
      nested == Lane("nested", "STRAND", {"strand"})
      orphan == Lane("nested", "STRAND", {"nowhere"})
  IN  {<<main, strand>>, <<main, strand, nested>>, <<nested, strand, other, main>>,
       <<other, main, nested, strand>>, <<main, strand, orphan>>}

Scenarios ==
  {[kind |-> "SCENARIO", lanes |-> catalog,
    frames |-> [n \in DOMAIN steps |-> [steps[n] EXCEPT !.tick = 2 * n]]] :
     catalog \in Catalogs, steps \in BoundedSeq(Steps, 3)}

MCHosts == Graphs \cup Scenarios \cup {[kind |-> "ECHO"]}

ASSUME RootsAssumption == WorldlinesAreRoots
=============================================================================
