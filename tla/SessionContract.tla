-------------------------- MODULE SessionContract --------------------------
(***************************************************************************)
(* What a DebuggerSession promises the surfaces that read it (the TUI, the *)
(* CLI, the MCP tools), without its fetch protocol: the session shows one  *)
(* whole frame, "the materialized view at the current frame", and a pin is *)
(* an observation of the frame that was on show when it was made.          *)
(***************************************************************************)
EXTENDS PlaybackHead, SequencesExt

CONSTANTS
  Requests,            \* the frame indices a caller may seek to, in range or not
  ObservationId,
  Deliveries,          \* Deliveries[f]: the ids of the deliveries a session can
                       \* pin while it shows frame f
  MaxPins,             \* bound on the pins held at once
  Nothing              \* no session has been created yet

VARIABLES
  host,                \* the frame the host's playback head is on
  shown,               \* the frame the session shows, or Nothing
  pinned               \* sequence of [frame, observation]

contractVars == <<host, shown, pinned>>

ContractInit ==
  /\ host \in Frames
  /\ shown = Nothing
  /\ pinned = <<>>

\* Navigation moves the host's head; what is shown follows later.
Move ==
  /\ shown # Nothing
  /\ host' \in {Forward(host), Backward(host)} \cup {Clamp(n) : n \in Requests}
  /\ UNCHANGED <<shown, pinned>>

\* The session shows the frame the head is on, whole.
Show ==
  /\ shown # host
  /\ shown' = host
  /\ UNCHANGED <<host, pinned>>

PinShown(id) ==
  /\ shown # Nothing
  /\ Len(pinned) < MaxPins
  /\ id \in Deliveries[shown]
  /\ pinned' = Append(pinned, [frame |-> shown, observation |-> id])
  /\ UNCHANGED <<host, shown>>

\* The oldest pin of that observation goes, the others keep their order.
Release(id) ==
  /\ \E k \in DOMAIN pinned : pinned[k].observation = id
  /\ pinned' = RemoveFirstMatch(pinned, LAMBDA pin : pin.observation = id)
  /\ UNCHANGED <<host, shown>>

ContractNext ==
  \/ Move
  \/ Show
  \/ \E id \in ObservationId : PinShown(id) \/ Release(id)

ContractSpec == ContractInit /\ [][ContractNext]_contractVars
============================================================================
