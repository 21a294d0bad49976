------------------------------ MODULE LaneViews ------------------------------
(***************************************************************************)
(* What is drawn of the lanes and their history: the catalog scoped to a   *)
(* neighborhood (NeighborhoodCoreSummary.ts), the lane trees of navigator  *)
(* and worldline page (navigatorLayout.ts, worldlineLayout.ts), the tick   *)
(* rows and the graph beside them (laneGraph.ts).                          *)
(*                                                                         *)
(* Widths, colors, padding and the terminal are left out.  catalog is a    *)
(* sequence of lanes with different ids, columns count from 1.             *)
(***************************************************************************)
EXTENDS NeighborhoodViews

----------------------------------------------------------------------------
(* The lanes shown *)

\* The ancestors are followed as far as the catalog knows them.
Ancestors(catalog, ids) ==
  LET Up[n \in 0 .. Len(catalog)] ==
        IF n = 0 THEN ids
        ELSE Up[n - 1] \cup UNION {lane.parent : lane \in {l \in ToSet(catalog) : l.id \in Up[n - 1]}}
  IN  Up[Len(catalog)]

\* Mutant: only the lanes themselves and the parents they name.
DisplayCatalogOfParents(catalog, participating) ==
  LET ids == ToSet(participating)
      shown == ids \cup UNION {lane.parent : lane \in {l \in ToSet(catalog) : l.id \in ids}}
  IN  Where(catalog, LAMBDA lane : lane.id \in shown)

DisplayCatalog(catalog, participating) ==
  Where(catalog, LAMBDA lane : lane.id \in Ancestors(catalog, ToSet(participating)))

Roots(catalog)        == Where(catalog, LAMBDA lane : lane.parent = {})
Children(catalog, id) == Where(catalog, LAMBDA lane : lane.parent = {id})

Ids(catalog) == {lane.id : lane \in ToSet(catalog)}

\* The navigator's tree.  A lane has one parent at most, so that the lanes
\* met on the way down from a root are different ones, no more than there are.
Descendants(catalog, id) ==
  LET Below[height \in 0 .. Len(catalog)] ==
        [parent \in Ids(catalog) |->
           LET children == Children(catalog, parent)
           IN  IF height = 0 THEN <<>>
               ELSE FlattenSeq([k \in DOMAIN children |->
                                  <<children[k]>> \o Below[height - 1][children[k].id]])]
  IN  Below[Len(catalog)][id]

LaneTree(catalog) ==
  LET roots == Roots(catalog)
  IN  FlattenSeq([k \in DOMAIN roots |-> <<roots[k]>> \o Descendants(catalog, roots[k].id)])

\* At most max of them, with a line for the number of those left out.
LaneLines(catalog, max) ==
  LET tree == LaneTree(catalog)
  IN  [visible |-> SubSeq(tree, 1, IF Len(tree) > max THEN max ELSE Len(tree)),
       more    |-> IF Len(tree) > max THEN Len(tree) - max ELSE 0]

\* The worldline page's tree.
Walk(catalog, id) ==
  LET From[height \in 0 .. Len(catalog)] ==
        [lane \in Ids(catalog) |->
           LET children == Children(catalog, lane)
           IN  <<[lane |-> lane, depth |-> Len(catalog) - height]>> \o
                 IF height = 0 THEN <<>>
                 ELSE FlattenSeq([k \in DOMAIN children |-> From[height - 1][children[k].id]])]
  IN  From[Len(catalog)][id]

LaneTreeLines(catalog) ==
  LET roots == Roots(catalog)
  IN  FlattenSeq([k \in DOMAIN roots |-> Walk(catalog, roots[k].id)])

----------------------------------------------------------------------------
(* Tick rows *)

\* The history collected frame by frame.
Timeline(history) ==
  [i \in 1 .. Cardinality(DOMAIN history.frames) |->
     [frame    |-> i - 1,
      lanes    |-> history.frames[i - 1],
      receipts |-> history.receipts[i - 1]]]

FilterFramesToLane(frames, lane) ==
  LET Of(view) == view.lane = lane
      OnLane   == [i \in DOMAIN frames |->
                     [frames[i] EXCEPT !.lanes    = Where(@, Of),
                                       !.receipts = Where(@, Of)]]
  IN  Where(OnLane, LAMBDA frame : frame.lanes # <<>>)

FrameToTickRow(frame, catalog) ==
  LET Strand(id) == \E lane \in ToSet(catalog) : lane.id = id /\ lane.kind = "STRAND"
  IN  [frame       |-> frame.frame,
       lane        |-> Head(frame.lanes).lane,
       tick        |-> Head(frame.lanes).tick,
       digest      |-> Head(frame.lanes).digest,
       hasConflict |-> \E receipt \in ToSet(frame.receipts) : Rejects(receipt),
       strands     |-> LaneIds(Where(frame.lanes, LAMBDA view : Strand(view.lane))),
       active      |-> LaneIds(Where(frame.lanes, LAMBDA view : view.changed))]

\* Newest first.
TickRows(frames, catalog) ==
  LET shown == Where(frames, LAMBDA frame : frame.lanes # <<>>)
  IN  Reverse([i \in DOMAIN shown |-> FrameToTickRow(shown[i], catalog)])

\* The rows on show are offset + 1 to offset + size, or all of them.
ScrollOffset(length, cursor, size) ==
  LET centered == cursor - size \div 2
  IN  CASE length <= size -> 0
        [] length > size /\ centered < 0 -> 0
        [] length > size /\ centered > length - size -> length - size
        [] length > size /\ centered \in 0 .. length - size -> centered

----------------------------------------------------------------------------
(* The graph beside the rows *)

AssignColumns(catalog) ==
  LET worldlines == Where(catalog, LAMBDA lane : lane.kind = "WORLDLINE")
      strands    == Where(catalog, LAMBDA lane : lane.kind = "STRAND")
  IN  worldlines \o strands

Column(columns, id) == SelectInSeq(columns, LAMBDA lane : lane.id = id)

\* The strands that no older row has had active.
DetectForks(rows, catalog, k) ==
  Where(rows[k].active, LAMBDA id :
    /\ \E lane \in ToSet(catalog) : lane.id = id /\ lane.kind = "STRAND"
    /\ \A older \in k + 1 .. Len(rows) : ~Contains(rows[older].active, id))

AliveLanes(rows) == UNION {ToSet(rows[k].active) : k \in DOMAIN rows}

Glyph(rows, k, id, forks) ==
  CASE Contains(rows[k].active, id) /\ Contains(forks, id)     -> "fork"
    [] Contains(rows[k].active, id) /\ ~Contains(forks, id)    -> "active"
    [] ~Contains(rows[k].active, id) /\ id \in AliveLanes(rows) -> "pass"
    [] OTHER -> "blank"

\* From the column of the parent to that of the fork, whichever is left.
ForkRange(columns, fork) ==
  LET own == Column(columns, fork)
      Between(parent) == Min({own, parent}) .. Max({own, parent}) - 1
  IN  IF own = 0 THEN {}
      ELSE UNION {Between(Column(columns, id)) : id \in
             {parent \in columns[own].parent : Column(columns, parent) # 0}}

GutterCells(rows, catalog, k) ==
  LET columns == AssignColumns(catalog)
      forks   == DetectForks(rows, catalog, k)
  IN  [c \in DOMAIN columns |->
         [char |-> Glyph(rows, k, columns[c].id, forks),
          line |-> \E fork \in ToSet(forks) : c \in ForkRange(columns, fork)]]
=============================================================================
