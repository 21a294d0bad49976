--------------------------- MODULE TuiShellProofs ---------------------------
(***************************************************************************)
(* What the shell keeps together, for any number of sessions, lanes and    *)
(* frames and whatever the order of loads, refetches, keys and pulses.     *)
(***************************************************************************)
EXTENDS TuiShell, SequenceLemmas, FiniteSetTheorems

\* Every adapter lists the same lane first in each frame, and a site is on a
\* lane of its frame.
PrimaryLane ==
  /\ \A f, g \in Frames : SitesAt[f][1] = SitesAt[g][1]
  /\ \A f \in Frames : \A i \in DOMAIN SitesAt[f] : SitesAt[f][i] \in LanesAt[f]

LEMMA FramesBounded == 0 \in Frames /\ MaxFrame \in Frames /\ Frames \subseteq Nat
BY MaxFrameAssumption DEF Frames

----------------------------------------------------------------------------
(* The site catalog *)

LEMMA FindLaneProperties ==
  ASSUME NEW lanes \in Seq(Lane), NEW lane
  PROVE  /\ FindLane(lanes, lane) \in 0..Len(lanes)
         /\ FindLane(lanes, lane) # 0 => lanes[FindLane(lanes, lane)] = lane
         /\ (\E i \in DOMAIN lanes : lanes[i] = lane) => FindLane(lanes, lane) # 0
<1> DEFINE hits == {i \in 1..Len(lanes) : lanes[i] = lane}
<1>1. Len(lanes) \in Nat /\ hits \in SUBSET Nat /\ DOMAIN lanes = 1..Len(lanes)
  BY LenProperties
<1>2. FindLane(lanes, lane) = IF hits # {} THEN Min(hits) ELSE 0
  BY DEF FindLane, SelectInSeq
<1>3. CASE hits = {}
  BY <1>1, <1>2, <1>3
<1>4. CASE hits # {}
  <2>1. Min(hits) \in hits
    BY <1>1, <1>4, MinIsLeast
  <2> QED BY <1>1, <1>2, <1>4, <2>1
<1> QED BY <1>3, <1>4

LEMMA SiteIs ==
  ASSUME NEW f \in Frames, NEW i \in 1..Len(SitesAt[f])
  PROVE  [frame |-> f, index |-> i] \in Site
<1>1. SitesAt[f] \in Seq(Lane)
  BY HistoryAssumption
<1>2. i \in DOMAIN SitesAt[f]
  BY <1>1, LenProperties
<1> QED BY <1>2 DEF Site

LEMMA SiteOfFrame ==
  ASSUME NEW s \in Site
  PROVE  /\ s.frame \in Frames
         /\ s.index \in 1..Len(SitesAt[s.frame])
         /\ s = [frame |-> s.frame, index |-> s.index]
         /\ LaneOf(s) \in Lane
<1>1. PICK f \in Frames : s \in [frame : {f}, index : DOMAIN SitesAt[f]]
  BY DEF Site
<1>2. SitesAt[f] \in Seq(Lane)
  BY HistoryAssumption
<1>3. s.frame = f /\ s.index \in 1..Len(SitesAt[f])
  BY <1>1, <1>2, LenProperties
<1>4. LaneOf(s) \in Lane
  BY <1>2, <1>3, ElementOfSeq DEF LaneOf
<1> QED BY <1>1, <1>3, <1>4

LEMMA ActiveIs ==
  ASSUME NEW f \in Frames
  PROVE  Active(f) \in Site /\ Active(f).frame = f
<1>1. SitesAt[f] \in Seq(Lane) /\ Len(SitesAt[f]) \in Nat /\ Len(SitesAt[f]) > 0
  BY HistoryAssumption, LenProperties
<1>2. 1 \in 1..Len(SitesAt[f])
  BY <1>1
<1> QED BY <1>2, SiteIs DEF Active

\* A normalized selection is a site of the frame's catalog.
LEMMA NormalizeIs ==
  ASSUME NEW f \in Frames, NEW s \in Site \cup {NoSite}
  PROVE  /\ NormalizeSelection(f, s) \in Site
         /\ NormalizeSelection(f, s).frame = f
         /\ NormalizeSelection(f, s) \in {s, Active(f)}
BY ActiveIs DEF NormalizeSelection

LEMMA SiteIdForLaneIs ==
  ASSUME NEW f \in Frames, NEW lane \in Lane, NEW s \in Site \cup {NoSite}
  PROVE  /\ SiteIdForLane(f, lane, s) \in Site
         /\ SiteIdForLane(f, lane, s).frame = f
         /\ LaneOf(SiteIdForLane(f, lane, s)) \in {lane, LaneOf(Active(f))}
         /\ (\E i \in DOMAIN SitesAt[f] : SitesAt[f][i] = lane)
              => LaneOf(SiteIdForLane(f, lane, s)) = lane
<1> DEFINE found == FindLane(SitesAt[f], lane)
<1>1. CASE LaneOf(NormalizeSelection(f, s)) = lane
  BY <1>1, NormalizeIs DEF SiteIdForLane
<1>2. CASE LaneOf(NormalizeSelection(f, s)) # lane
  <2>1. /\ SitesAt[f] \in Seq(Lane) /\ Len(SitesAt[f]) \in Nat /\ Len(SitesAt[f]) > 0
        /\ found \in 0..Len(SitesAt[f])
        /\ found # 0 => SitesAt[f][found] = lane
        /\ (\E i \in DOMAIN SitesAt[f] : SitesAt[f][i] = lane) => found # 0
    BY HistoryAssumption, LenProperties, FindLaneProperties
  <2>2. Greater(1, found) \in 1..Len(SitesAt[f])
    BY <2>1 DEF Greater
  <2>3. SiteIdForLane(f, lane, s) = [frame |-> f, index |-> Greater(1, found)]
    BY <1>2 DEF SiteIdForLane
  <2>4. /\ SitesAt[f][Greater(1, found)] \in {lane, SitesAt[f][1]}
        /\ found # 0 => SitesAt[f][Greater(1, found)] = lane
    <3>1. found \in Nat
      BY <2>1
    <3>2. CASE found = 0
      BY <3>2 DEF Greater
    <3>3. CASE found # 0
      BY <2>1, <3>1, <3>3 DEF Greater
    <3> QED BY <3>2, <3>3
  <2>5. LaneOf(SiteIdForLane(f, lane, s)) \in {lane, LaneOf(Active(f))}
    BY <2>3, <2>4 DEF LaneOf, Active
  <2>6. found # 0 => LaneOf(SiteIdForLane(f, lane, s)) = lane
    BY <2>3, <2>4 DEF LaneOf
  <2> QED BY <2>1, <2>2, <2>3, <2>5, <2>6, SiteIs
<1> QED BY <1>1, <1>2

LEMMA MoveSelectionIs ==
  ASSUME NEW f \in Frames, NEW s \in Site \cup {NoSite}, NEW delta \in Moves
  PROVE  /\ MoveSelection(f, s, delta) \in Site
         /\ MoveSelection(f, s, delta).frame = f
<1>1. SitesAt[f] \in Seq(Lane) /\ Len(SitesAt[f]) \in Nat /\ Len(SitesAt[f]) > 0
  BY HistoryAssumption, LenProperties
<1>2. NormalizeSelection(f, s).index \in 1..Len(SitesAt[f])
  BY NormalizeIs, SiteOfFrame
<1>3. delta \in Int
  BY HistoryAssumption
<1>4. Greater(1, Lesser(NormalizeSelection(f, s).index + delta, Len(SitesAt[f])))
        \in 1..Len(SitesAt[f])
  BY <1>1, <1>2, <1>3 DEF Greater, Lesser
<1> QED BY <1>4, SiteIs DEF MoveSelection

----------------------------------------------------------------------------
(* Rows and cursors *)

LEMMA RowsAreFinite ==
  ASSUME NEW frames, NEW lane
  PROVE  /\ IsFiniteSet(RowsOf(frames, lane))
         /\ Cardinality(RowsOf(frames, lane)) \in 0..(MaxFrame + 1)
<1>1. IsFiniteSet(Frames) /\ Cardinality(Frames) = MaxFrame + 1
  BY MaxFrameAssumption, FS_Interval DEF Frames
<1>2. RowsOf(frames, lane) \in SUBSET Frames
  BY DEF RowsOf
<1>3. /\ IsFiniteSet(RowsOf(frames, lane))
      /\ Cardinality(RowsOf(frames, lane)) <= MaxFrame + 1
  BY <1>1, <1>2, FS_Subset
<1> QED BY <1>3, FS_CardinalityType, MaxFrameAssumption

LEMMA SomeRow ==
  ASSUME NEW frames, NEW lane, NEW f \in RowsOf(frames, lane)
  PROVE  Cardinality(RowsOf(frames, lane)) > 0
<1>1. Cardinality(RowsOf(frames, lane)) # 0
  BY RowsAreFinite, FS_EmptySet
<1> QED BY <1>1, RowsAreFinite

\* The cursor of a frame is a row, if there is any.
LEMMA CursorForFrameIs ==
  ASSUME NEW frames, NEW lane, NEW f \in Frames
  PROVE  /\ CursorForFrame(frames, lane, f) \in Frames
         /\ Cardinality(RowsOf(frames, lane)) > 0 =>
              CursorForFrame(frames, lane, f) < Cardinality(RowsOf(frames, lane))
<1> DEFINE rows  == RowsOf(frames, lane)
           newer == {g \in rows : g > f}
<1>1. CASE f \notin rows
  BY <1>1, FramesBounded DEF CursorForFrame
<1>2. CASE f \in rows
  <2>1. newer \in SUBSET rows /\ newer # rows
    BY <1>2, FramesBounded
  <2>2. IsFiniteSet(newer) /\ Cardinality(newer) <= Cardinality(rows)
        /\ Cardinality(newer) # Cardinality(rows)
    BY <2>1, RowsAreFinite, FS_Subset
  <2>3. Cardinality(newer) \in Nat
    BY <2>2, FS_CardinalityType
  <2>4. Cardinality(rows) \in 0..(MaxFrame + 1)
    BY RowsAreFinite
  <2>5. CursorForFrame(frames, lane, f) = Cardinality(newer)
    BY <1>2 DEF CursorForFrame
  <2> QED BY <2>2, <2>3, <2>4, <2>5, MaxFrameAssumption DEF Frames
<1> QED BY <1>1, <1>2

LEMMA CursorWithinIs ==
  ASSUME NEW frames, NEW lane, NEW cursor \in Int
  PROVE  /\ CursorWithin(frames, lane, cursor) \in Frames
         /\ Cardinality(RowsOf(frames, lane)) > 0 =>
              CursorWithin(frames, lane, cursor) < Cardinality(RowsOf(frames, lane))
BY RowsAreFinite, MaxFrameAssumption DEF CursorWithin, Greater, Lesser, Frames

----------------------------------------------------------------------------
(* Types *)

Worldline == [frames : Session \cup {NoContext}, cursor : Frames,
              lane : Lane \cup {NoLane}, laneCursor : Nat]

LEMMA BlankTyped == Blank \in Worldline
BY FramesBounded DEF Blank, Worldline

LEMMA SiteDrivenIs ==
  ASSUME NEW w \in Worldline, NEW f \in Frames, NEW s \in Site \cup {NoSite}
  PROVE  LET lane == LaneOf(NormalizeSelection(f, s))
         IN  /\ SiteDriven(w, f, s) \in Worldline
             /\ SiteDriven(w, f, s).frames = w.frames
             /\ SiteDriven(w, f, s).lane = lane
             /\ SiteDriven(w, f, s).cursor = CursorForFrame(w.frames, lane, f)
<1> DEFINE lane == LaneOf(NormalizeSelection(f, s))
<1>1. lane \in Lane
  BY NormalizeIs, SiteOfFrame
<1>2. LaneCursorFor(f, lane) \in Nat
  <2>1. TreeAt[f] \in Seq(Lane) /\ Len(TreeAt[f]) \in Nat
    BY HistoryAssumption, LenProperties
  <2>2. FindLane(TreeAt[f], lane) \in 0..Len(TreeAt[f])
    BY <2>1, FindLaneProperties
  <2> QED BY <2>1, <2>2 DEF LaneCursorFor, Greater
<1>3. CursorForFrame(w.frames, lane, f) \in Frames
  BY CursorForFrameIs
<1> QED BY <1>1, <1>2, <1>3 DEF SiteDriven, Worldline

LEMMA SyncFocusTyped ==
  ASSUME TypeOK, NEW s \in Site \cup {NoSite}, SyncFocus(s)
  PROVE  /\ site' \in Site \cup {NoSite}
         /\ focus' \in Site \cup {NoSite}
BY NormalizeIs DEF SyncFocus, TypeOK

LEMMA PagesTyped ==
  ASSUME TypeOK
  PROVE  /\ frameIndex \in Frames /\ worldline \in Worldline
         /\ site \in Site \cup {NoSite} /\ focus \in Site \cup {NoSite}
         /\ worldline.cursor \in Frames /\ worldline.cursor \in Int
<1>1. /\ frameIndex \in Frames /\ worldline \in Worldline
      /\ site \in Site \cup {NoSite} /\ focus \in Site \cup {NoSite}
  BY DEF TypeOK, Worldline
<1>2. worldline.cursor \in Frames
  BY <1>1 DEF Worldline
<1>3. worldline.cursor \in Int
  <2>1. \A f \in Frames : f \in Int
    BY MaxFrameAssumption DEF Frames
  <2> QED BY <1>2, <2>1
<1> QED BY <1>1, <1>2, <1>3

\* The lane moved to, its rows, and the site selected with it.
LEMMA MoveLaneIs ==
  ASSUME TypeOK, NEW delta \in Moves, MoveLane(delta)
  PROVE  LET at   == Greater(0, Lesser(worldline.laneCursor + delta, Len(TreeAt[frameIndex]) - 1))
             lane == TreeAt[frameIndex][at + 1]
         IN  /\ worldline' \in Worldline
             /\ worldline'.lane = lane
             /\ worldline'.frames = worldline.frames
             /\ worldline'.cursor = CursorWithin(worldline.frames, lane, worldline.cursor)
             /\ SiteIdForLane(frameIndex, lane, site) \in Site
             /\ SiteIdForLane(frameIndex, lane, site).frame = frameIndex
             /\ LaneOf(SiteIdForLane(frameIndex, lane, site)) \in {lane, LaneOf(Active(frameIndex))}
             /\ (\E i \in DOMAIN SitesAt[frameIndex] : SitesAt[frameIndex][i] = lane)
                  => LaneOf(SiteIdForLane(frameIndex, lane, site)) = lane
<1> DEFINE at   == Greater(0, Lesser(worldline.laneCursor + delta, Len(TreeAt[frameIndex]) - 1))
           lane == TreeAt[frameIndex][at + 1]
<1>1. /\ frameIndex \in Frames /\ worldline \in Worldline
      /\ site \in Site \cup {NoSite} /\ worldline.cursor \in Int
  BY PagesTyped
<1>2. at \in Nat /\ at + 1 \in 1..Len(TreeAt[frameIndex])
  <2>1. /\ TreeAt[frameIndex] \in Seq(Lane)
        /\ Len(TreeAt[frameIndex]) \in Nat /\ Len(TreeAt[frameIndex]) > 0
    BY <1>1, HistoryAssumption, LenProperties
  <2>2. worldline.laneCursor \in Nat /\ delta \in Int
    BY <1>1, HistoryAssumption DEF Worldline
  <2> QED BY <2>1, <2>2 DEF Greater, Lesser
<1>3. lane \in Lane
  BY <1>1, <1>2, HistoryAssumption, ElementOfSeq
<1>4. CursorWithin(worldline.frames, lane, worldline.cursor) \in Frames
  BY <1>1, CursorWithinIs
<1>5. worldline' = [worldline EXCEPT !.lane = lane, !.laneCursor = at,
                      !.cursor = CursorWithin(worldline.frames, lane, @)]
  BY DEF MoveLane
<1> HIDE DEF at, lane
<1>6. /\ worldline' \in Worldline
      /\ worldline'.lane = lane
      /\ worldline'.frames = worldline.frames
      /\ worldline'.cursor = CursorWithin(worldline.frames, lane, worldline.cursor)
  BY <1>1, <1>2, <1>3, <1>4, <1>5 DEF Worldline
<1>7. /\ SiteIdForLane(frameIndex, lane, site) \in Site
      /\ SiteIdForLane(frameIndex, lane, site).frame = frameIndex
      /\ LaneOf(SiteIdForLane(frameIndex, lane, site)) \in {lane, LaneOf(Active(frameIndex))}
      /\ (\E i \in DOMAIN SitesAt[frameIndex] : SitesAt[frameIndex][i] = lane)
           => LaneOf(SiteIdForLane(frameIndex, lane, site)) = lane
  BY <1>1, <1>3, SiteIdForLaneIs
<1> QED BY <1>6, <1>7 DEF at, lane

LEMMA StepTyped == TypeOK /\ [Next]_vars => TypeOK'
<1> SUFFICES ASSUME TypeOK, [Next]_vars PROVE TypeOK'
  OBVIOUS
<1>1. /\ frameIndex \in Frames /\ worldline \in Worldline
      /\ site \in Site \cup {NoSite} /\ worldline.cursor \in Int
  BY PagesTyped
<1>2. CASE UNCHANGED vars
  BY <1>2 DEF vars, TypeOK
<1>3. ASSUME NEW s \in Session, SessionReady(s) PROVE TypeOK'
  <2>1. worldline' \in Worldline
    BY <1>1, <1>3, FramesBounded, BlankTyped, SiteDrivenIs DEF SessionReady
  <2>2. site' \in Site /\ focus' = site'
    BY <1>1, <1>3, FramesBounded, NormalizeIs DEF SessionReady
  <2> QED BY <1>3, <2>1, <2>2, FramesBounded DEF SessionReady, TypeOK, Worldline
<1>4. ASSUME NEW s \in Session, WorldlineLoaded(s) PROVE TypeOK'
  <2>1. CursorForFrame(s, worldline.lane, frameIndex) \in Frames
    BY <1>1, CursorForFrameIs
  <2>2. worldline' \in Worldline
    BY <1>1, <1>4, <2>1 DEF WorldlineLoaded, Worldline
  <2> QED BY <1>4, <2>2 DEF WorldlineLoaded, TypeOK, Worldline
<1>5. ASSUME NEW s \in Session, WorldlineLoadFailed(s) PROVE TypeOK'
  BY <1>5 DEF WorldlineLoadFailed, TypeOK
<1>6. CASE Disconnect
  BY <1>6, BlankTyped DEF Disconnect, TypeOK, Worldline
<1>7. ASSUME NEW f \in Frames, Refetched(f) PROVE TypeOK'
  BY <1>7 DEF Refetched, TypeOK
<1>8. CASE Pulse
  BY <1>1, <1>8, SyncFocusTyped DEF Pulse, TypeOK
<1>9. ASSUME NEW delta \in Moves, MoveCursor(delta) PROVE TypeOK'
  <2>1. worldline.cursor + delta \in Int
    BY <1>1, HistoryAssumption
  <2>2. CursorWithin(worldline.frames, ShownLane, worldline.cursor + delta) \in Frames
    BY <2>1, CursorWithinIs
  <2>3. worldline' \in Worldline
    BY <1>1, <1>9, <2>2 DEF MoveCursor, Worldline
  <2> QED BY <1>1, <1>9, <2>3, SyncFocusTyped DEF MoveCursor, TypeOK, Worldline
<1>10. ASSUME NEW delta \in Moves, MoveLane(delta) PROVE TypeOK'
  BY <1>10, MoveLaneIs, SyncFocusTyped DEF MoveLane, TypeOK, Worldline
<1>11. ASSUME NEW delta \in Moves, MoveSite(delta) PROVE TypeOK'
  <2>1. MoveSelection(frameIndex, site, delta) \in Site
    BY <1>1, MoveSelectionIs
  <2>2. worldline' \in Worldline
    BY <1>1, <1>11, <2>1, SiteDrivenIs DEF MoveSite
  <2> QED BY <1>11, <2>1, <2>2, SyncFocusTyped DEF MoveSite, TypeOK, Worldline
<1> QED BY <1>2, <1>3, <1>4, <1>5, <1>6, <1>7, <1>8, <1>9, <1>10, <1>11 DEF Next

LEMMA InitTyped == Init => TypeOK
BY FramesBounded, BlankTyped DEF Init, TypeOK, Worldline

\* The state of the pages is well typed; the cursor never leaves the history
\* and the selection never the sites there are.
THEOREM ShellTyped == Spec => []TypeOK
BY InitTyped, StepTyped, PTL DEF Spec

----------------------------------------------------------------------------
(* What the worldline shows the frames of *)

LEMMA StepFrames == TypeOK /\ FramesOfSession /\ [Next]_vars => FramesOfSession'
<1> SUFFICES ASSUME TypeOK, FramesOfSession, [Next]_vars PROVE FramesOfSession'
  OBVIOUS
<1>1. /\ frameIndex \in Frames /\ worldline \in Worldline
      /\ site \in Site \cup {NoSite}
      /\ loads \in [Session -> {"none", "loading", "done", "failed"}]
  BY PagesTyped DEF TypeOK
<1>2. CASE UNCHANGED <<ctx, loads>> /\ worldline'.frames = worldline.frames
  BY <1>2 DEF FramesOfSession
<1>3. ASSUME NEW s \in Session, SessionReady(s) PROVE FramesOfSession'
  <2>1. MaxFrame \in Frames
    BY FramesBounded
  <2>2. worldline'.frames = Blank.frames
    BY <1>1, <1>3, <2>1, BlankTyped, SiteDrivenIs DEF SessionReady
  <2> QED BY <1>1, <1>3, <2>2 DEF SessionReady, FramesOfSession, Blank
<1>4. ASSUME NEW s \in Session, WorldlineLoaded(s) PROVE FramesOfSession'
  <2>1. CASE s = ctx
    <3>1. worldline'.frames = s
      BY <1>1, <1>4, <2>1 DEF WorldlineLoaded, Worldline
    <3> QED BY <1>1, <1>4, <2>1, <3>1 DEF WorldlineLoaded, FramesOfSession
  <2>2. CASE s # ctx
    BY <1>1, <1>4, <2>2 DEF WorldlineLoaded, FramesOfSession, TypeOK
  <2> QED BY <2>1, <2>2
<1>5. ASSUME NEW s \in Session, WorldlineLoadFailed(s) PROVE FramesOfSession'
  BY <1>1, <1>5 DEF WorldlineLoadFailed, FramesOfSession, TypeOK
<1>6. CASE Disconnect
  BY <1>6 DEF Disconnect, FramesOfSession
<1>7. ASSUME NEW delta \in Moves, MoveCursor(delta) PROVE FramesOfSession'
  BY <1>1, <1>2, <1>7 DEF MoveCursor, Worldline
<1>8. ASSUME NEW delta \in Moves, MoveLane(delta) PROVE FramesOfSession'
  BY <1>1, <1>2, <1>8 DEF MoveLane, Worldline
<1>9. ASSUME NEW delta \in Moves, MoveSite(delta) PROVE FramesOfSession'
  <2>1. MoveSelection(frameIndex, site, delta) \in Site
    BY <1>1, MoveSelectionIs
  <2>2. worldline'.frames = worldline.frames
    BY <1>1, <1>9, <2>1, SiteDrivenIs DEF MoveSite
  <2> QED BY <1>2, <1>9, <2>2 DEF MoveSite
<1> QED BY <1>2, <1>3, <1>4, <1>5, <1>6, <1>7, <1>8, <1>9
        DEF Next, Pulse, Refetched, vars

\* Whichever loads of whichever sessions arrive, in any order and number: the
\* worldline never shows the frames of a session that is not on show, and
\* never loses those of the one that is.
THEOREM FramesCorrect == Spec => []FramesOfSession
<1>1. Init => FramesOfSession
  BY DEF Init, FramesOfSession
<1> QED BY <1>1, StepFrames, ShellTyped, PTL DEF Spec

----------------------------------------------------------------------------
(* Selection and focus *)

\* What a synchronised selection and focus are.
LEMMA SyncFocusIs ==
  ASSUME TypeOK, ctx # NoContext, NEW s \in Site \cup {NoSite}, SyncFocus(s)
  PROVE  /\ focus' \in Site /\ focus' = site'
         /\ focus'.frame = frameIndex
         /\ focus' \in {s, Active(frameIndex)}
         /\ s \in Site /\ s.frame = frameIndex => focus' = s
<1>1. frameIndex \in Frames
  BY DEF TypeOK
<1>2. focus' = NormalizeSelection(frameIndex, s) /\ site' = focus'
  BY DEF SyncFocus
<1>3. s \in Site => s # NoSite
  BY HistoryAssumption
<1> QED BY <1>1, <1>2, <1>3, NormalizeIs DEF NormalizeSelection

LEMMA StepFocus == TypeOK /\ FocusIsSelection /\ [Next]_vars => FocusIsSelection'
<1> SUFFICES ASSUME TypeOK, FocusIsSelection, [Next]_vars PROVE FocusIsSelection'
  OBVIOUS
<1>1. frameIndex \in Frames /\ site \in Site \cup {NoSite} /\ NoSite \notin Site
  BY HistoryAssumption DEF TypeOK
<1>2. CASE UNCHANGED <<ctx, site, focus>>
  BY <1>2 DEF FocusIsSelection
<1>3. ASSUME NEW s \in Site \cup {NoSite}, SyncFocus(s), ctx' = ctx
      PROVE  FocusIsSelection'
  BY <1>1, <1>3, SyncFocusIs DEF FocusIsSelection
<1>4. ASSUME NEW s \in Session, SessionReady(s) PROVE FocusIsSelection'
  BY <1>1, <1>4, FramesBounded, NormalizeIs DEF SessionReady, FocusIsSelection
<1>5. CASE Disconnect
  BY <1>5 DEF Disconnect, FocusIsSelection
<1>6. CASE Pulse
  BY <1>1, <1>3, <1>6 DEF Pulse
<1>7. ASSUME NEW delta \in Moves, MoveCursor(delta) PROVE FocusIsSelection'
  BY <1>1, <1>3, <1>7 DEF MoveCursor
<1>8. ASSUME NEW delta \in Moves, MoveLane(delta) PROVE FocusIsSelection'
  BY <1>3, <1>8, MoveLaneIs DEF MoveLane
<1>9. ASSUME NEW delta \in Moves, MoveSite(delta) PROVE FocusIsSelection'
  BY <1>1, <1>3, <1>9, MoveSelectionIs DEF MoveSite
<1> QED BY <1>2, <1>4, <1>5, <1>6, <1>7, <1>8, <1>9
        DEF Next, WorldlineLoaded, WorldlineLoadFailed, Refetched, vars

\* The inspector and the worldline never drift apart over the site they show,
\* and never show none, however many frames, sites and refetches there are.
THEOREM FocusCorrect == Spec => []FocusIsSelection
<1>1. Init => FocusIsSelection
  BY DEF Init, FocusIsSelection
<1> QED BY <1>1, StepFocus, ShellTyped, PTL DEF Spec

----------------------------------------------------------------------------
(* The timeline on show *)

\* The timeline on show is that of the lane moved to or of the primary lane of
\* the frame in focus.
TimelineKnown ==
  ctx # NoContext => LaneOf(focus) \in {worldline.lane, LaneOf(Active(focus.frame))}

LEMMA StepTimeline ==
  TypeOK /\ FocusIsSelection /\ TimelineKnown /\ [Next]_vars => TimelineKnown'
<1> SUFFICES ASSUME TypeOK, FocusIsSelection, TimelineKnown, [Next]_vars
             PROVE  TimelineKnown'
  OBVIOUS
<1>1. /\ frameIndex \in Frames /\ worldline \in Worldline
      /\ site \in Site \cup {NoSite}
  BY PagesTyped
<1>2. CASE UNCHANGED <<ctx, focus>> /\ worldline'.lane = worldline.lane
  BY <1>2 DEF TimelineKnown, LaneOf, Active
<1>3. CASE ctx' = NoContext
  BY <1>3 DEF TimelineKnown
<1>4. ASSUME SyncFocus(site), ctx' = ctx, worldline'.lane = worldline.lane
      PROVE  TimelineKnown'
  <2>1. CASE ctx = NoContext
    BY <1>4, <2>1 DEF TimelineKnown
  <2>2. CASE ctx # NoContext
    <3>1. focus' \in {focus, Active(frameIndex)} /\ focus'.frame = frameIndex
      BY <1>1, <1>4, <2>2, SyncFocusIs DEF FocusIsSelection
    <3> QED BY <1>4, <2>2, <3>1 DEF TimelineKnown, LaneOf, Active
  <2> QED BY <2>1, <2>2
<1>5. ASSUME NEW s \in Session, SessionReady(s) PROVE TimelineKnown'
  <2>1. worldline'.lane = LaneOf(NormalizeSelection(MaxFrame, site))
    BY <1>1, <1>5, FramesBounded, BlankTyped, SiteDrivenIs DEF SessionReady
  <2> QED BY <1>5, <2>1 DEF SessionReady, TimelineKnown, LaneOf
<1>6. ASSUME NEW s \in Session, WorldlineLoaded(s) PROVE TimelineKnown'
  BY <1>1, <1>2, <1>6 DEF WorldlineLoaded, Worldline
<1>7. CASE Pulse
  BY <1>4, <1>7 DEF Pulse
<1>8. ASSUME NEW delta \in Moves, MoveCursor(delta) PROVE TimelineKnown'
  BY <1>1, <1>4, <1>8 DEF MoveCursor, Worldline
<1>9. ASSUME NEW delta \in Moves, MoveLane(delta) PROVE TimelineKnown'
  <2> DEFINE at   == Greater(0, Lesser(worldline.laneCursor + delta, Len(TreeAt[frameIndex]) - 1))
             lane == TreeAt[frameIndex][at + 1]
             to   == SiteIdForLane(frameIndex, lane, site)
  <2>1. /\ worldline'.lane = lane
        /\ to \in Site /\ to.frame = frameIndex
        /\ LaneOf(to) \in {lane, LaneOf(Active(frameIndex))}
    BY <1>9, MoveLaneIs
  <2>2. ctx # NoContext /\ ctx' = ctx /\ SyncFocus(to)
    BY <1>9 DEF MoveLane
  <2> HIDE DEF at, lane, to
  <2>3. focus' = to
    BY <2>1, <2>2, SyncFocusIs
  <2> QED BY <2>1, <2>2, <2>3 DEF TimelineKnown, LaneOf, Active
<1>10. ASSUME NEW delta \in Moves, MoveSite(delta) PROVE TimelineKnown'
  <2> DEFINE moved == MoveSelection(frameIndex, site, delta)
  <2>1. moved \in Site /\ moved.frame = frameIndex
    BY <1>1, MoveSelectionIs
  <2>2. /\ ctx # NoContext /\ ctx' = ctx /\ SyncFocus(moved)
        /\ worldline' = IF moved = site THEN worldline
                                        ELSE SiteDriven(worldline, frameIndex, moved)
    BY <1>10 DEF MoveSite
  <2> HIDE DEF moved
  <2>3. focus' = moved
    BY <2>1, <2>2, SyncFocusIs
  <2>4. CASE moved = site
    BY <1>2, <2>2, <2>3, <2>4 DEF FocusIsSelection
  <2>5. CASE moved # site
    <3>1. NormalizeSelection(frameIndex, moved) = moved
      BY <2>1, HistoryAssumption DEF NormalizeSelection
    <3>2. worldline'.lane = LaneOf(moved)
      BY <1>1, <2>1, <2>2, <2>5, <3>1, SiteDrivenIs
    <3> QED BY <2>3, <3>2 DEF TimelineKnown, LaneOf
  <2> QED BY <2>4, <2>5
<1> QED BY <1>2, <1>3, <1>5, <1>6, <1>7, <1>8, <1>9, <1>10
        DEF Next, Disconnect, WorldlineLoadFailed, Refetched, vars

LEMMA TimelineIsKnown == Spec => []TimelineKnown
<1>1. Init => TimelineKnown
  BY DEF Init, TimelineKnown
<1> QED BY <1>1, StepTimeline, ShellTyped, FocusCorrect, PTL DEF Spec

\* What a step may do to the timeline on show.
LaneStep ==
  ctx' # NoContext
    => \/ LaneShown'
       \/ UNCHANGED focus /\ worldline'.lane = worldline.lane
       \/ /\ focus'.frame # focus.frame /\ focus' = Active(focus'.frame)
          /\ worldline'.lane = worldline.lane

LEMMA StepLane == TypeOK /\ FocusIsSelection /\ [Next]_vars => LaneStep
<1> SUFFICES ASSUME TypeOK, FocusIsSelection, [Next]_vars PROVE LaneStep
  OBVIOUS
<1>1. /\ frameIndex \in Frames /\ worldline \in Worldline
      /\ site \in Site \cup {NoSite}
  BY PagesTyped
<1>2. CASE UNCHANGED focus /\ worldline'.lane = worldline.lane
  BY <1>2 DEF LaneStep
<1>3. CASE ctx' = NoContext
  BY <1>3 DEF LaneStep
<1>4. ASSUME SyncFocus(site), ctx' = ctx, worldline'.lane = worldline.lane
      PROVE  LaneStep
  <2>1. CASE ctx = NoContext
    BY <1>4, <2>1 DEF LaneStep
  <2>2. CASE ctx # NoContext
    <3>1. /\ focus = site /\ site \in Site
          /\ focus' \in {focus, Active(frameIndex)} /\ focus'.frame = frameIndex
          /\ focus.frame = frameIndex => focus' = focus
      BY <1>1, <1>4, <2>2, SyncFocusIs DEF FocusIsSelection
    <3> QED BY <1>4, <3>1 DEF LaneStep
  <2> QED BY <2>1, <2>2
<1>5. ASSUME NEW s \in Session, SessionReady(s) PROVE LaneStep
  <2>1. worldline'.lane = LaneOf(NormalizeSelection(MaxFrame, site))
    BY <1>1, <1>5, FramesBounded, BlankTyped, SiteDrivenIs DEF SessionReady
  <2>2. LaneOf(focus') = worldline'.lane
    BY <1>5, <2>1 DEF SessionReady, LaneOf
  <2> QED BY <2>2 DEF LaneStep, LaneShown, LaneOf
<1>6. ASSUME NEW s \in Session, WorldlineLoaded(s) PROVE LaneStep
  BY <1>1, <1>2, <1>6 DEF WorldlineLoaded, Worldline
<1>7. CASE Pulse
  BY <1>4, <1>7 DEF Pulse
<1>8. ASSUME NEW delta \in Moves, MoveCursor(delta) PROVE LaneStep
  BY <1>1, <1>4, <1>8 DEF MoveCursor, Worldline
<1>9. ASSUME NEW delta \in Moves, MoveLane(delta) PROVE LaneStep
  <2> DEFINE at   == Greater(0, Lesser(worldline.laneCursor + delta, Len(TreeAt[frameIndex]) - 1))
             lane == TreeAt[frameIndex][at + 1]
             to   == SiteIdForLane(frameIndex, lane, site)
  <2>1. /\ worldline'.lane = lane
        /\ to \in Site /\ to.frame = frameIndex
        /\ (\E i \in DOMAIN SitesAt[frameIndex] : SitesAt[frameIndex][i] = lane)
             => LaneOf(to) = lane
    BY <1>9, MoveLaneIs
  <2>2. ctx # NoContext /\ SyncFocus(to)
    BY <1>9 DEF MoveLane
  <2> HIDE DEF at, lane, to
  <2>3. focus' = to
    BY <2>1, <2>2, SyncFocusIs
  <2>4. LaneShown'
    BY <2>1, <2>3 DEF LaneShown, LaneOf
  <2> QED BY <2>4 DEF LaneStep
<1>10. ASSUME NEW delta \in Moves, MoveSite(delta) PROVE LaneStep
  <2> DEFINE moved == MoveSelection(frameIndex, site, delta)
  <2>1. moved \in Site /\ moved.frame = frameIndex
    BY <1>1, MoveSelectionIs
  <2>2. /\ ctx # NoContext /\ SyncFocus(moved)
        /\ worldline' = IF moved = site THEN worldline
                                        ELSE SiteDriven(worldline, frameIndex, moved)
    BY <1>10 DEF MoveSite
  <2> HIDE DEF moved
  <2>3. focus' = moved
    BY <2>1, <2>2, SyncFocusIs
  <2>4. CASE moved = site
    BY <1>2, <2>2, <2>3, <2>4 DEF FocusIsSelection
  <2>5. CASE moved # site
    <3>1. NormalizeSelection(frameIndex, moved) = moved
      BY <2>1, HistoryAssumption DEF NormalizeSelection
    <3>2. worldline'.lane = LaneOf(moved)
      BY <1>1, <2>1, <2>2, <2>5, <3>1, SiteDrivenIs
    <3> QED BY <2>3, <3>2 DEF LaneStep, LaneShown, LaneOf
  <2> QED BY <2>4, <2>5
<1> QED BY <1>2, <1>3, <1>5, <1>6, <1>7, <1>8, <1>9, <1>10
        DEF Next, Disconnect, WorldlineLoadFailed, Refetched, vars

\* Whichever lane or site the user moves to, the timeline becomes that lane's and
\* stays so until another move or another frame.  Left out are a lane without a
\* site in the frame on show and a lane moved to under an earlier frame, for
\* which the code shows the primary lane (siteIdForLaneId, normalizeSelection).
THEOREM TimelineCorrect == Spec => TimelineOfLane
<1>1. TypeOK /\ FocusIsSelection /\ [Next]_vars
        => [ctx' # NoContext
              => \/ LaneShown'
                 \/ UNCHANGED focus /\ worldline'.lane = worldline.lane
                 \/ /\ focus'.frame # focus.frame /\ focus' = Active(focus'.frame)
                    /\ worldline'.lane = worldline.lane]_vars
  BY StepLane DEF LaneStep
<1> QED BY <1>1, ShellTyped, FocusCorrect, PTL DEF Spec, TimelineOfLane

----------------------------------------------------------------------------
(* The cursor of the timeline on show *)

\* The primary lane has a row for every frame.
LEMMA PrimaryRows ==
  ASSUME PrimaryLane, NEW frames \in Session, NEW f \in Frames
  PROVE  Cardinality(RowsOf(frames, LaneOf(Active(f)))) = MaxFrame + 1
<1> DEFINE primary == LaneOf(Active(f))
<1>1. ASSUME NEW g \in Frames PROVE primary \in LanesAt[g]
  <2>1. SitesAt[g] \in Seq(Lane) /\ Len(SitesAt[g]) \in Nat /\ Len(SitesAt[g]) > 0
    BY HistoryAssumption, LenProperties
  <2>2. 1 \in DOMAIN SitesAt[g]
    BY <2>1, LenProperties
  <2> QED BY <2>2 DEF PrimaryLane, LaneOf, Active
<1>2. frames # NoContext
  BY HistoryAssumption DEF Session, NoContext
<1>3. RowsOf(frames, primary) = Frames
  BY <1>1, <1>2 DEF RowsOf
<1>4. Cardinality(Frames) = MaxFrame + 1
  BY MaxFrameAssumption, FS_Interval DEF Frames
<1> QED BY <1>3, <1>4

\* The lane of a site has a row for the site's frame.
LEMMA SiteRow ==
  ASSUME PrimaryLane, NEW frames \in Session, NEW s \in Site
  PROVE  Cardinality(RowsOf(frames, LaneOf(s))) > 0
<1>1. s.frame \in Frames /\ s.index \in 1..Len(SitesAt[s.frame])
  BY SiteOfFrame
<1>2. SitesAt[s.frame] \in Seq(Lane)
  BY <1>1, HistoryAssumption
<1>3. LaneOf(s) \in LanesAt[s.frame]
  BY <1>1, <1>2, LenProperties DEF PrimaryLane, LaneOf
<1>4. frames # NoContext
  BY HistoryAssumption DEF Session, NoContext
<1>5. s.frame \in RowsOf(frames, LaneOf(s))
  BY <1>1, <1>3, <1>4 DEF RowsOf
<1> QED BY <1>5, SomeRow

\* A cursor is on a row of the primary lane wherever it is, and on one of
\* another lane if it was placed for that lane.
LEMMA OnRow ==
  ASSUME PrimaryLane, NEW frames \in Session, NEW s \in Site, NEW cursor \in Frames,
         \/ LaneOf(s) = LaneOf(Active(s.frame))
         \/ Cardinality(RowsOf(frames, LaneOf(s))) > 0 =>
              cursor < Cardinality(RowsOf(frames, LaneOf(s)))
  PROVE  cursor < Cardinality(RowsOf(frames, LaneOf(s)))
<1>1. s.frame \in Frames
  BY SiteOfFrame
<1>2. CASE LaneOf(s) = LaneOf(Active(s.frame))
  <2>1. Cardinality(RowsOf(frames, LaneOf(s))) = MaxFrame + 1
    BY <1>1, <1>2, PrimaryRows
  <2>2. cursor < MaxFrame + 1
    BY MaxFrameAssumption DEF Frames
  <2> QED BY <2>1, <2>2
<1> QED BY <1>2, SiteRow

LEMMA StepCursor ==
  ASSUME PrimaryLane, TypeOK, TypeOK', FocusIsSelection, FocusIsSelection',
         TimelineKnown, TimelineKnown', CursorOnRow, [Next]_vars
  PROVE  CursorOnRow'
<1> SUFFICES ASSUME ctx' # NoContext, worldline'.frames = ctx'
             PROVE  worldline'.cursor < Cardinality(RowsOf(ctx', LaneOf(focus')))
  BY DEF CursorOnRow, ShownLane, FocusIsSelection, LaneOf, RowsOf
<1> DEFINE Placed(lane) ==
      Cardinality(RowsOf(ctx', lane)) > 0 =>
        worldline'.cursor < Cardinality(RowsOf(ctx', lane))
<1>1. /\ frameIndex \in Frames /\ worldline \in Worldline
      /\ site \in Site \cup {NoSite} /\ focus \in Site \cup {NoSite}
      /\ worldline.cursor \in Int
  BY PagesTyped
<1>2. /\ ctx' \in Session /\ focus' \in Site /\ worldline'.cursor \in Frames
      /\ worldline' \in Worldline
  BY DEF TypeOK, FocusIsSelection, Worldline
<1>3. SUFFICES \/ LaneOf(focus') = LaneOf(Active(focus'.frame))
               \/ Placed(LaneOf(focus'))
  BY <1>2, OnRow
<1>4. LaneOf(focus') \in {worldline'.lane, LaneOf(Active(focus'.frame))}
  BY DEF TimelineKnown, LaneOf, Active
<1>5. CASE UNCHANGED <<ctx, worldline, focus>>
  BY <1>5 DEF CursorOnRow, ShownLane, FocusIsSelection
<1>6. ASSUME SyncFocus(site), UNCHANGED <<ctx, worldline>>
      PROVE  LaneOf(focus') = LaneOf(Active(focus'.frame)) \/ Placed(LaneOf(focus'))
  <2>1. focus' \in {focus, Active(frameIndex)} /\ focus'.frame = frameIndex
    BY <1>1, <1>6, SyncFocusIs DEF FocusIsSelection
  <2> QED BY <1>5, <1>6, <2>1
<1>7. ASSUME NEW s \in Session, SessionReady(s) PROVE FALSE
  <2>1. worldline'.frames = NoContext
    BY <1>1, <1>7, FramesBounded, BlankTyped, SiteDrivenIs DEF SessionReady, Blank
  <2> QED BY <2>1
<1>8. ASSUME NEW s \in Session, WorldlineLoaded(s)
      PROVE  LaneOf(focus') = LaneOf(Active(focus'.frame)) \/ Placed(LaneOf(focus'))
  <2>1. CASE s # ctx
    BY <1>5, <1>8, <2>1 DEF WorldlineLoaded
  <2>2. CASE s = ctx
    <3>1. /\ ctx' = s /\ worldline'.lane = worldline.lane
          /\ worldline'.cursor = CursorForFrame(s, worldline.lane, frameIndex)
      BY <1>1, <1>8, <2>2 DEF WorldlineLoaded, Worldline
    <3>2. Placed(worldline'.lane)
      BY <1>1, <3>1, CursorForFrameIs
    <3> QED BY <1>4, <3>2
  <2> QED BY <2>1, <2>2
<1>9. ASSUME NEW delta \in Moves, MoveCursor(delta)
      PROVE  LaneOf(focus') = LaneOf(Active(focus'.frame)) \/ Placed(LaneOf(focus'))
  <2>1. ctx # NoContext /\ ctx' = ctx /\ focus # NoSite /\ focus = site
    BY <1>9 DEF MoveCursor, FocusIsSelection
  <2>2. focus' \in {focus, Active(frameIndex)} /\ focus'.frame = frameIndex
    BY <1>1, <1>9, <2>1, SyncFocusIs DEF MoveCursor
  <2>3. worldline.cursor + delta \in Int
    BY <1>1, HistoryAssumption
  <2>4. /\ worldline'.frames = worldline.frames
        /\ worldline'.cursor = CursorWithin(worldline.frames, LaneOf(focus), worldline.cursor + delta)
    BY <1>1, <1>9, <2>1 DEF MoveCursor, Worldline, ShownLane
  <2>5. Placed(LaneOf(focus))
    BY <2>1, <2>3, <2>4, CursorWithinIs
  <2> QED BY <2>2, <2>5 DEF Active
<1>10. ASSUME NEW delta \in Moves, MoveLane(delta) PROVE Placed(worldline'.lane)
  <2>1. /\ worldline'.frames = worldline.frames
        /\ worldline'.cursor = CursorWithin(worldline.frames, worldline'.lane, worldline.cursor)
    BY <1>10, MoveLaneIs
  <2> QED BY <1>1, <2>1, CursorWithinIs
<1>11. ASSUME NEW delta \in Moves, MoveSite(delta)
       PROVE  LaneOf(focus') = LaneOf(Active(focus'.frame)) \/ Placed(LaneOf(focus'))
  <2> DEFINE moved == MoveSelection(frameIndex, site, delta)
  <2>1. moved \in Site /\ moved.frame = frameIndex
    BY <1>1, MoveSelectionIs
  <2>2. /\ ctx # NoContext /\ ctx' = ctx /\ SyncFocus(moved)
        /\ worldline' = IF moved = site THEN worldline
                                        ELSE SiteDriven(worldline, frameIndex, moved)
    BY <1>11 DEF MoveSite
  <2> HIDE DEF moved
  <2>3. focus' = moved
    BY <2>1, <2>2, SyncFocusIs
  <2>4. CASE moved = site
    BY <1>5, <2>2, <2>3, <2>4 DEF FocusIsSelection
  <2>5. CASE moved # site
    <3>1. NormalizeSelection(frameIndex, moved) = moved
      BY <2>1, HistoryAssumption DEF NormalizeSelection
    <3>2. /\ worldline'.frames = worldline.frames
          /\ worldline'.cursor = CursorForFrame(worldline.frames, LaneOf(moved), frameIndex)
      BY <1>1, <2>1, <2>2, <2>5, <3>1, SiteDrivenIs
    <3> QED BY <1>1, <2>3, <3>2, CursorForFrameIs
  <2> QED BY <2>4, <2>5
<1>12. CASE Disconnect
  BY <1>12 DEF Disconnect
<1>13. ASSUME NEW s \in Session, WorldlineLoadFailed(s) PROVE UNCHANGED <<ctx, worldline, focus>>
  BY <1>13 DEF WorldlineLoadFailed
<1> QED BY <1>4, <1>5, <1>6, <1>7, <1>8, <1>9, <1>10, <1>11, <1>12, <1>13
        DEF Next, Pulse, Refetched, vars

\* Whatever lane, site and frame did since the cursor was placed, it is on a
\* row of the timeline on show.  The primary lane carries the argument: its
\* timeline has every frame, and it is the only one the page falls back to.
THEOREM CursorCorrect ==
  ASSUME PrimaryLane PROVE Spec => []CursorOnRow
<1>1. Init => CursorOnRow
  BY DEF Init, CursorOnRow
<1>2. /\ TypeOK /\ TypeOK' /\ FocusIsSelection /\ FocusIsSelection'
      /\ TimelineKnown /\ TimelineKnown' /\ CursorOnRow /\ [Next]_vars
      => CursorOnRow'
  BY StepCursor
<1> QED BY <1>1, <1>2, ShellTyped, FocusCorrect, TimelineIsKnown, PTL DEF Spec
=============================================================================
