------------------------------ MODULE TuiShell ------------------------------
(***************************************************************************)
(* The TUI shell: updateApp of tui/main.ts, the synchronisation of the     *)
(* pages by tui/sessionSync.ts, and the worldline and inspector pages it   *)
(* keeps together.                                                         *)
(*                                                                         *)
(* Every message, the 30 Hz pulse included, goes through updateApp, which  *)
(* lets its page handle it and then synchronises.  A session's snapshot    *)
(* changes outside of any message, when a refetch ends (DebuggerSession).  *)
(* The framework that hands messages to pages is external.                 *)
(***************************************************************************)
EXTENDS PlaybackHead, Sequences, SequencesExt, FiniteSets

CONSTANTS
  MaxSessions,         \* sessions connected to, one after the other
  Lane,
  LanesAt,             \* LanesAt[f]: the lanes frame f has a view of
  SitesAt,             \* SitesAt[f]: the lane of each site of the catalog of
                       \* frame f, the active (primary) site first
  TreeAt,              \* TreeAt[f]: the lane tree shown at frame f, line by line
  Moves,               \* how the keys move a cursor or selection: -1 and 1
  NoLane, NoSite

Session  == 1..MaxSessions
NoContext == 0

\* A site id names its frame.
Site == UNION {[frame : {f}, index : DOMAIN SitesAt[f]] : f \in Frames}

ASSUME HistoryAssumption ==
  /\ MaxSessions \in Nat
  /\ LanesAt \in [Frames -> SUBSET Lane]
  /\ SitesAt \in [Frames -> Seq(Lane)]
  /\ TreeAt  \in [Frames -> Seq(Lane)]
  /\ \A f \in Frames : Len(SitesAt[f]) > 0 /\ Len(TreeAt[f]) > 0
  /\ Moves \subseteq {-1, 1}
  /\ NoLane \notin Lane
  /\ NoSite \notin Site

VARIABLES
  ctx,                 \* the connect page's sessionCtx
  frameIndex,          \* currentFrameIndex of its session's snapshot
  worldline,           \* the worldline page: whose frames, cursor, lane moved to
  site,                \* the inspector page's selectedSiteId
  focus,               \* the site both pages' focus was made from
  loads                \* the worldline load of each session

vars == <<ctx, frameIndex, worldline, site, focus, loads>>

Blank == [frames |-> NoContext, cursor |-> 0, lane |-> NoLane, laneCursor |-> 0]

Init ==
  /\ ctx = NoContext
  /\ frameIndex = 0
  /\ worldline = Blank
  /\ site = NoSite
  /\ focus = NoSite
  /\ loads = [s \in Session |-> "none"]

----------------------------------------------------------------------------
(* NeighborhoodSiteCatalog and the rows of the worldline *)

Active(f) == [frame |-> f, index |-> 1]

LaneOf(s) == SitesAt[s.frame][s.index]

\* A site of another frame is not in the catalog.
NormalizeSelection(f, s) ==
  IF s # NoSite /\ s.frame = f THEN s ELSE Active(f)

\* Counted from one; zero when the lane is not there.
FindLane(lanes, lane) == SelectInSeq(lanes, LAMBDA l : l = lane)

\* Mutant: the index of the lane's site is taken for one counted from zero.
SiteIdForLaneBefore(f, lane, current) ==
  IF LaneOf(NormalizeSelection(f, current)) = lane
    THEN NormalizeSelection(f, current)
    ELSE [frame |-> f, index |-> Greater(1, FindLane(SitesAt[f], lane) - 1)]

\* The selected site if it is on the lane, else the first one that is, else
\* the active site.
SiteIdForLane(f, lane, current) ==
  IF LaneOf(NormalizeSelection(f, current)) = lane
    THEN NormalizeSelection(f, current)
    ELSE [frame |-> f, index |-> Greater(1, FindLane(SitesAt[f], lane))]

MoveSelection(f, s, delta) ==
  [frame |-> f,
   index |-> Greater(1, Lesser(NormalizeSelection(f, s).index + delta, Len(SitesAt[f])))]

LaneCursorFor(f, lane) ==
  Greater(0, FindLane(TreeAt[f], lane) - 1)

\* The frames with a row in the timeline of a lane, once they are loaded.
RowsOf(frames, lane) ==
  {f \in Frames : frames # NoContext /\ (lane = NoLane \/ lane \in LanesAt[f])}

\* Rows are listed newest first; a frame without a row gets the first.
CursorForFrame(frames, lane, f) ==
  IF f \in RowsOf(frames, lane)
    THEN Cardinality({g \in RowsOf(frames, lane) : g > f}) ELSE 0

CursorWithin(frames, lane, cursor) ==
  Greater(0, Lesser(cursor, Cardinality(RowsOf(frames, lane)) - 1))

\* The lane whose rows the page shows and moves over.
ShownLane == IF focus # NoSite THEN LaneOf(focus) ELSE worldline.lane

----------------------------------------------------------------------------
(* sessionSync *)

\* Lane, lane cursor and cursor recomputed from the selected site.
SiteDriven(w, f, s) ==
  LET lane == LaneOf(NormalizeSelection(f, s))
  IN  [w EXCEPT !.lane = lane,
                !.laneCursor = LaneCursorFor(f, lane),
                !.cursor = CursorForFrame(w.frames, lane, f)]

\* syncNeighborhoodFocus: selection and focus normalized to the catalog of the
\* frame on show; without a session nothing is synchronised.
SyncFocus(s) ==
  /\ site' = IF ctx = NoContext THEN s ELSE NormalizeSelection(frameIndex, s)
  /\ focus' = IF ctx = NoContext THEN focus ELSE site'

\* Mutant: no load is started while another one is in flight.
SessionReadySharingLoad(s) ==
  /\ loads[s] = "none" /\ \A r \in 1..(s - 1) : loads[r] # "none"
  /\ ctx' = s
  /\ frameIndex' = MaxFrame
  /\ loads' = [loads EXCEPT ![s] =
                 IF \E r \in Session : loads[r] = "loading" THEN "done" ELSE "loading"]
  /\ worldline' = SiteDriven(Blank, MaxFrame, site)
  /\ site' = NormalizeSelection(MaxFrame, site)
  /\ focus' = site'

\* The connect page got a session, which it has sought to its last frame.  The
\* worldline is reset and loaded anew; lane and focus follow the selected site.
SessionReady(s) ==
  /\ loads[s] = "none" /\ \A r \in 1..(s - 1) : loads[r] # "none"
  /\ ctx' = s
  /\ frameIndex' = MaxFrame
  /\ loads' = [loads EXCEPT ![s] = "loading"]
  /\ worldline' = SiteDriven(Blank, MaxFrame, site)
  /\ site' = NormalizeSelection(MaxFrame, site)
  /\ focus' = site'

\* The shell passes on that there is no session; whether the pages get the
\* message too, and reset themselves, is up to the framework.
Disconnect ==
  /\ ctx # NoContext
  /\ ctx' = NoContext
  /\ \/ UNCHANGED <<worldline, site, focus>>
     \/ worldline' = Blank /\ site' = NoSite /\ focus' = NoSite
  /\ UNCHANGED <<frameIndex, loads>>

\* Mutant: the frames are taken whichever session they were loaded from.
WorldlineLoadedAny(s) ==
  /\ loads[s] = "loading"
  /\ loads' = [loads EXCEPT ![s] = "done"]
  /\ worldline' = [worldline EXCEPT !.frames = s,
                     !.cursor = CursorForFrame(s, worldline.lane, frameIndex)]
  /\ UNCHANGED <<ctx, frameIndex, site, focus>>

\* worldline-loaded: frames of another session than the one on show are
\* dropped.  updateApp synchronises nothing else after it.
WorldlineLoaded(s) ==
  /\ loads[s] = "loading"
  /\ loads' = [loads EXCEPT ![s] = "done"]
  /\ worldline' =
       IF s = ctx
         THEN [worldline EXCEPT !.frames = s,
                 !.cursor = CursorForFrame(s, worldline.lane, frameIndex)]
         ELSE worldline
  /\ UNCHANGED <<ctx, frameIndex, site, focus>>

\* A rejected read of the load is ignored.
WorldlineLoadFailed(s) ==
  /\ loads[s] = "loading"
  /\ loads' = [loads EXCEPT ![s] = "failed"]
  /\ UNCHANGED <<ctx, frameIndex, worldline, site, focus>>

----------------------------------------------------------------------------
(* The session and the pages *)

\* A command issued by the navigator, or by Enter on a row of the worldline,
\* has replaced the snapshot: no message of the shell is involved.
Refetched(f) ==
  /\ ctx # NoContext
  /\ f # frameIndex
  /\ frameIndex' = f
  /\ UNCHANGED <<ctx, worldline, site, focus, loads>>

\* Mutant: the pulse synchronises nothing.
PulseOnly == UNCHANGED vars

\* Any message without an effect of its own on these pages: the pulse, a page
\* switch, snapshot-updated.
Pulse ==
  /\ SyncFocus(site)
  /\ UNCHANGED <<ctx, frameIndex, worldline, loads>>

\* Mutant: the cursor may move one past the last row.
MoveCursorPast(delta) ==
  /\ worldline' = [worldline EXCEPT !.cursor =
       Greater(0, Lesser(@ + delta, Cardinality(RowsOf(worldline.frames, ShownLane))))]
  /\ SyncFocus(site)
  /\ UNCHANGED <<ctx, frameIndex, loads>>

MoveCursor(delta) ==
  /\ worldline' = [worldline EXCEPT !.cursor =
       CursorWithin(worldline.frames, ShownLane, @ + delta)]
  /\ SyncFocus(site)
  /\ UNCHANGED <<ctx, frameIndex, loads>>

\* Mutant: the cursor stays where it was in the rows of the lane before.
MoveLaneKeepingCursor(delta) ==
  LET at   == Greater(0, Lesser(worldline.laneCursor + delta, Len(TreeAt[frameIndex]) - 1))
      lane == TreeAt[frameIndex][at + 1]
  IN  /\ ctx # NoContext
      /\ worldline' = [worldline EXCEPT !.lane = lane, !.laneCursor = at]
      /\ SyncFocus(SiteIdForLane(frameIndex, lane, site))
      /\ UNCHANGED <<ctx, frameIndex, loads>>

\* lane-left and lane-right: the selection follows the lane, if it has a site.
MoveLane(delta) ==
  LET at   == Greater(0, Lesser(worldline.laneCursor + delta, Len(TreeAt[frameIndex]) - 1))
      lane == TreeAt[frameIndex][at + 1]
  IN  /\ ctx # NoContext
      /\ worldline' = [worldline EXCEPT !.lane = lane, !.laneCursor = at,
                         !.cursor = CursorWithin(worldline.frames, lane, @)]
      /\ SyncFocus(SiteIdForLane(frameIndex, lane, site))
      /\ UNCHANGED <<ctx, frameIndex, loads>>

\* Mutant: the inspector selects a site and the focus is left behind.
MoveSiteOnly(delta) ==
  /\ ctx # NoContext
  /\ site' = MoveSelection(frameIndex, site, delta)
  /\ UNCHANGED <<ctx, frameIndex, worldline, focus, loads>>

\* site-up and site-down: shouldResyncWorldlineFocus sees another selection.
MoveSite(delta) ==
  LET moved == MoveSelection(frameIndex, site, delta)
  IN  /\ ctx # NoContext
      /\ worldline' = IF moved = site THEN worldline
                                      ELSE SiteDriven(worldline, frameIndex, moved)
      /\ SyncFocus(moved)
      /\ UNCHANGED <<ctx, frameIndex, loads>>

----------------------------------------------------------------------------
Next ==
  \/ \E s \in Session : SessionReady(s) \/ WorldlineLoaded(s) \/ WorldlineLoadFailed(s)
  \/ Disconnect
  \/ \E f \in Frames : Refetched(f)
  \/ Pulse
  \/ \E delta \in Moves : MoveCursor(delta) \/ MoveLane(delta) \/ MoveSite(delta)

\* The pulse is a timer, and the adapter settles what the load asks for.
Fairness ==
  /\ WF_vars(Pulse)
  /\ \A s \in Session : WF_vars(WorldlineLoaded(s) \/ WorldlineLoadFailed(s))

Spec == Init /\ [][Next]_vars /\ Fairness

----------------------------------------------------------------------------
(* Properties *)

TypeOK ==
  /\ ctx \in Session \cup {NoContext}
  /\ frameIndex \in Frames
  /\ worldline \in [frames : Session \cup {NoContext}, cursor : Frames,
                    lane : Lane \cup {NoLane}, laneCursor : Nat]
  /\ site \in Site \cup {NoSite}
  /\ focus \in Site \cup {NoSite}
  /\ loads \in [Session -> {"none", "loading", "done", "failed"}]

\* The worldline shows the frames of the session on show once its load is done
\* and nothing before, whichever loads of earlier sessions arrive when
\* (handleWorldlineLoaded, resetWorldlineSession).
FramesOfSession ==
  ctx # NoContext =>
    worldline.frames = IF loads[ctx] = "done" THEN ctx ELSE NoContext

\* The inspector's selection and the focus both pages render are one site,
\* also while the snapshot has moved on under them (syncNeighborhoodFocus).
FocusIsSelection == ctx # NoContext => focus = site /\ site # NoSite

\* "Right pane: tick timeline scoped to the selected lane": the timeline on show
\* is that of the lane moved to, where that lane has a site to be focused.
LaneShown ==
  (\E i \in DOMAIN SitesAt[focus.frame] : SitesAt[focus.frame][i] = worldline.lane)
    => LaneOf(focus) = worldline.lane

\* Whichever lane or site the user moves to, the timeline becomes that lane's and
\* stays so until the next move or until another frame comes on show, when the
\* selection starts again at the primary site of that frame.  Two cases are left
\* out, where the code shows the primary lane of the frame instead: a lane
\* without a site in the frame on show, and a lane moved to under an earlier
\* frame (siteIdForLaneId, normalizeSelection, renderConnectedWorldline).
TimelineOfLane ==
  [][ctx' # NoContext
       => \/ LaneShown'
          \/ UNCHANGED focus /\ worldline'.lane = worldline.lane
          \/ /\ focus'.frame # focus.frame /\ focus' = Active(focus'.frame)
             /\ worldline'.lane = worldline.lane]_vars

\* The cursor is on a row of the timeline on show, so that Enter has a frame
\* to seek to (buildSeekCommand), whatever lane, site and frame did since it
\* was placed.
CursorOnRow ==
  ctx # NoContext /\ worldline.frames = ctx
    => worldline.cursor < Cardinality(RowsOf(ctx, ShownLane))

\* Selection and focus follow the frame on show, although no message tells
\* the shell that it changed.
FocusCatchesUp ==
  \A f \in Frames :
    ctx # NoContext /\ frameIndex = f
      ~> ctx = NoContext \/ frameIndex # f \/ focus.frame = f

\* A load that does not fail fills the worldline of its session, unless the
\* user has left it.
WorldlineFills ==
  \A s \in Session :
    ctx = s ~> ctx # s \/ worldline.frames = s \/ loads[s] = "failed"

\* "The worldline cursor is kept in sync with the session's current frame
\* index": with the frames loaded, a frame that stays on show gets the cursor.
CursorFollowsFrame ==
  \A f \in Frames :
    ctx # NoContext /\ worldline.frames = ctx /\ frameIndex = f
      ~> \/ ctx = NoContext \/ worldline.frames # ctx \/ frameIndex # f
         \/ worldline.cursor = CursorForFrame(ctx, ShownLane, f)
=============================================================================
