-------------------------- MODULE NeighborhoodViews --------------------------
(***************************************************************************)
(* The views of one frame that a session derives from its snapshot: the    *)
(* neighborhood core, the reintegration detail, the receipt shell, the     *)
(* catalog of sites (src/app/*.ts), the admission chain                    *)
(* (admissionChainReadModel.ts) and the navigator's effect rows.           *)
(*                                                                         *)
(* lanes is the frame: the views of its lanes, never empty; n its number.  *)
(* Summary sentences are left out, and an id is a tuple of the parts the   *)
(* code puts together.  That the summaries are published again after a     *)
(* round through JSON is DebuggerSession's.                                *)
(***************************************************************************)
EXTENDS HostHistories

\* Of what occurs more than once the first is kept.
Distinct(seq) == Picked(seq, {i \in DOMAIN seq : \A j \in 1 .. i - 1 : seq[j] # seq[i]})

LaneIds(seq) == [k \in DOMAIN seq |-> seq[k].lane]

----------------------------------------------------------------------------
(* NeighborhoodCoreSummary *)

Participating(lanes, receipts, emissions) ==
  LET Changed(view) == view.changed
      candidates == Distinct(LaneIds(Where(lanes, Changed))
                               \o LaneIds(receipts) \o LaneIds(emissions))
  IN  IF candidates # <<>> THEN candidates ELSE <<Head(lanes).lane>>

Alternatives(receipts) ==
  LET chosen == Where(receipts, LAMBDA receipt : receipt.counts.counterfactual > 0)
  IN  [k \in DOMAIN chosen |-> [id |-> chosen[k].id, lane |-> chosen[k].lane, outcome |-> "PENDING"]]

Rejects(receipt) == receipt.counts.rejected > 0

\* Mutant: what is still open hides what was rejected.
OutcomePendingFirst(receipts) ==
  IF Alternatives(receipts) # <<>> THEN "PENDING"
  ELSE IF \E receipt \in ToSet(receipts) : Rejects(receipt) THEN "OBSTRUCTED" ELSE "LAWFUL"

Outcome(receipts) ==
  IF \E receipt \in ToSet(receipts) : Rejects(receipt) THEN "OBSTRUCTED"
  ELSE IF Alternatives(receipts) # <<>> THEN "PENDING" ELSE "LAWFUL"

Core(n, lanes, receipts, emissions) ==
  [site          |-> <<n, Head(lanes).lane>>,
   frame         |-> n,
   primary       |-> Head(lanes).lane,
   tick          |-> Head(lanes).tick,
   participating |-> Participating(lanes, receipts, emissions),
   alternatives  |-> Alternatives(receipts),
   outcome       |-> Outcome(receipts)]

----------------------------------------------------------------------------
(* ReintegrationDetailSummary *)

Anchors(lanes, core) ==
  <<[lane |-> core.primary, kind |-> "PRIMARY_LANE"]>> \o
    LET others == Where(lanes, LAMBDA view :
                    view.lane # core.primary /\ Contains(core.participating, view.lane))
    IN  [k \in DOMAIN others |-> [lane |-> others[k].lane, kind |-> "PARTICIPATING_LANE"]]

Obligations(receipt) ==
  <<[id |-> <<receipt.id, "admission">>,
     status |-> IF Rejects(receipt) THEN "VIOLATED" ELSE "SATISFIED"]>> \o
    IF receipt.counts.counterfactual = 0 THEN <<>>
    ELSE <<[id |-> <<receipt.id, "counterfactual">>, status |-> "UNKNOWN"]>>

Detail(lanes, core, receipts) ==
  [site        |-> core.site,
   anchors     |-> Anchors(lanes, core),
   obligations |-> FlattenSeq([k \in DOMAIN receipts |-> Obligations(receipts[k])]),
   evidence    |-> [k \in DOMAIN receipts |-> <<receipts[k].id, "admission">>]]

----------------------------------------------------------------------------
(* ReceiptShellSummary *)

SumOf(receipts, field) == Total([k \in DOMAIN receipts |-> receipts[k].counts[field]])

Shell(core, receipts) ==
  LET rejected == SumOf(receipts, "rejected")
  IN  [site       |-> core.site,
       receipts   |-> Distinct([k \in DOMAIN receipts |-> receipts[k].id]),
       candidates |-> SumOf(receipts, "admitted") + rejected + SumOf(receipts, "counterfactual"),
       rejected   |-> rejected,
       blocking   |-> rejected > 0
                        \/ \E receipt \in ToSet(receipts) : receipt.counts.counterfactual > 0]

----------------------------------------------------------------------------
(* NeighborhoodSiteCatalog *)

PrimarySite(core) ==
  [id |-> core.site, kind |-> "PRIMARY", outcome |-> core.outcome, lane |-> core.primary]

AlternativeSite(core, alternative) ==
  [id      |-> Append(core.site, alternative.id), kind |-> "ALTERNATIVE",
   outcome |-> alternative.outcome, lane |-> alternative.lane]

\* Of the sites that share an id the first is kept.
NormalizeSites(sites) ==
  Picked(sites, {i \in DOMAIN sites : \A j \in 1 .. i - 1 : sites[j].id # sites[i].id})

SiteCatalog(core) ==
  NormalizeSites(<<PrimarySite(core)>> \o
    [k \in DOMAIN core.alternatives |-> AlternativeSite(core, core.alternatives[k])])

----------------------------------------------------------------------------
(* The admission chain *)

ChainKeys ==
  <<"basis", "artifactRegistration", "opticArtifactHandle", "opticAdmissionRequirements",
    "capabilityGrant", "capabilityPresentation", "admissionTicket", "lawWitness",
    "receipts", "reading">>

Reading(lanes, core, receipts) ==
  [frame    |-> core.frame,
   receipts |-> [k \in DOMAIN receipts |-> receipts[k].id],
   lanes    |-> LaneIds(lanes),
   site     |-> core.site,
   outcome  |-> core.outcome]

\* Nothing in the repository provides the seven in between.
ChainField(key, receipts) ==
  IF key \in {"basis", "reading"} \/ (key = "receipts" /\ receipts # <<>>)
    THEN "PRESENT" ELSE "ABSENT"

SourceFamilyFact(key, posture) ==
  LET ofCoordinate == key \in {"basis", "receipts", "reading"}
  IN  [field   |-> key,
       posture |-> posture,
       scope   |-> IF ofCoordinate THEN "COORDINATE" ELSE "SESSION",
       origin  |-> IF posture # "PRESENT" THEN "UNAVAILABLE"
                   ELSE IF ofCoordinate THEN "LOCAL_FALLBACK" ELSE "HOST_PUBLISHED"]

AdmissionChain(lanes, core, receipts) ==
  LET sources == [k \in DOMAIN ChainKeys |->
                    SourceFamilyFact(ChainKeys[k], ChainField(ChainKeys[k], receipts))]
  IN  [facts   |-> [k \in DOMAIN ChainKeys |->
                      [key |-> ChainKeys[k], posture |-> ChainField(ChainKeys[k], receipts),
                       source |-> sources[k]]],
       reading |-> Reading(lanes, core, receipts)]

----------------------------------------------------------------------------
(* The navigator's effect rows *)

\* One row for each delivery, or one for the emission when it has none or
\* deliveries cannot be read.
EffectRows(emissions, observations, delivers) ==
  FlattenSeq([k \in DOMAIN emissions |->
    LET of == Where(observations, LAMBDA o : o.emission = emissions[k].id)
        Row(sink, status) ==
          [emission |-> emissions[k].id, lane |-> emissions[k].lane, sink |-> sink, status |-> status]
    IN  IF ~delivers THEN <<Row("", "(delivery unsupported)")>>
        ELSE IF of = <<>> THEN <<Row("(none)", "emitted")>>
        ELSE [d \in DOMAIN of |-> Row(of[d].sink, of[d].outcome)]])
=============================================================================
