------------------------------ MODULE GateTile ------------------------------
(***************************************************************************)
(* src/hkgate.go over src/centsys.go (setStatus) and                       *)
(* src/centsys_packets.go (decodeOverview): the gate's telemetry moves the *)
(* controller's status, a change of status the HomeKit tile; a HomeKit     *)
(* write pulses the gate's one trigger and then guesses how the tile will  *)
(* move.  Telemetry and writes run on goroutines of their own, and no lock *)
(* covers the tile.                                                        *)
(*                                                                         *)
(* Telemetry frames may be lost, and the latest one is what matters: at    *)
(* most one is on its way.  Its connection handles one frame at a time.    *)
(***************************************************************************)
CONSTANTS
  Controller   \* goroutines of the paired HomeKit controllers' connections

VARIABLES
  gate,       \* what the gate does
  frame,      \* the telemetry frame on its way
  status,     \* c.status
  update,     \* where onUpdate stands, and with which status
  current,    \* CurrentDoorState, the tile
  target,     \* TargetDoorState
  writing,    \* where each controller's write stands
  want,       \* the target it writes
  guess       \* since the last update a write has set: "current", "target"

tileVars == <<current, target, guess>>
writeVars == <<writing, want>>
gateTileVars == <<gate, frame, status, update, tileVars, writeVars>>

Position == {"open", "closed", "opening", "closing", "stopped"}
Target   == {"open", "closed"}

\* A frame holds the gate's status byte, or a byte that is in no table, or has
\* a length that no family of operators has.
Frame   == Position \cup {"odd", "unplaced"}
NoFrame == "none"

NoUpdate == [at |-> "none", s |-> "unknown"]

\* The controller is up before its first frame; newHKGate applies gateUnknown.
TileInit ==
  /\ gate \in Position
  /\ frame = NoFrame
  /\ status = "unknown"
  /\ update = NoUpdate
  /\ current = "closed"
  /\ target = "closed"
  /\ writing = [k \in Controller |-> "idle"]
  /\ want = [k \in Controller |-> "closed"]
  /\ guess = {}

WriteGoes(k, from, to) ==
  /\ writing[k] = from
  /\ writing' = [writing EXCEPT ![k] = to]

-----------------------------------------------------------------------------
\* The trigger starts, stops or reverses the gate; it ends its way by itself.
Toggled(g) ==
  IF g \in {"opening", "closing"} THEN {"stopped"}
  ELSE IF g = "closed" THEN {"opening"}
  ELSE IF g = "open" THEN {"closing"}
  ELSE {"opening", "closing"}

Arrived(g) ==
  IF g = "opening" THEN {"open"} ELSE IF g = "closing" THEN {"closed"} ELSE {}

\* By itself, by an obstacle, a remote or the app.
GateMoves ==
  /\ gate' \in Toggled(gate) \cup Arrived(gate)
  /\ UNCHANGED <<frame, status, update, tileVars, writeVars>>

\* The operator reports when it changes and when it is woken.
Reports ==
  /\ frame = NoFrame /\ frame' = gate
  /\ UNCHANGED <<gate, status, update, tileVars, writeVars>>

\* Or sends what this code cannot read, or nothing, or it is lost.
Babbles ==
  /\ frame = NoFrame /\ frame' \in {"odd", "unplaced"}
  /\ UNCHANGED <<gate, status, update, tileVars, writeVars>>

FrameLost ==
  /\ frame # NoFrame /\ frame' = NoFrame
  /\ UNCHANGED <<gate, status, update, tileVars, writeVars>>

\* decodeOverview: a byte that is in no table is the map's zero, gateOpen.
Decoded(f) == IF f = "unplaced" THEN "unknown" ELSE IF f = "odd" THEN "open" ELSE f

\* A plausible slip: a frame that cannot be placed forgets the status.
ReceiveResets ==
  LET s == Decoded(frame) IN
    /\ frame # NoFrame /\ frame' = NoFrame
    /\ update = NoUpdate
    /\ status' = s
    /\ update' = IF s = status \/ s = "unknown" THEN NoUpdate ELSE [at |-> "current", s |-> s]
    /\ UNCHANGED <<gate, tileVars, writeVars>>

\* follow's onMsg: setStatus, which calls onUpdate on a change.
Receive ==
  LET s == Decoded(frame) IN
    /\ frame # NoFrame /\ frame' = NoFrame
    /\ update = NoUpdate
    /\ IF s \in {"unknown", status}
         THEN UNCHANGED <<status, update>>
         ELSE status' = s /\ update' = [at |-> "current", s |-> s]
    /\ UNCHANGED <<gate, tileVars, writeVars>>

\* The way the gate goes or has gone; nothing for one that stopped.
Heading(s) ==
  IF s \in {"open", "opening"} THEN {"open"}
  ELSE IF s \in {"closed", "closing"} THEN {"closed"} ELSE {}

\* A plausible slip: apply leaves out the case of a gate that stopped.
UpdateSkipsStopped ==
  /\ update.at = "current"
  /\ current' = IF update.s = "stopped" THEN current ELSE update.s
  /\ guess' = guess \ {"current"}
  /\ update' = IF Heading(update.s) = {} THEN NoUpdate ELSE [update EXCEPT !.at = "target"]
  /\ UNCHANGED <<gate, frame, status, target, writeVars>>

\* apply shows the state, ...
UpdateCurrent ==
  /\ update.at = "current"
  /\ current' = update.s
  /\ guess' = guess \ {"current"}
  /\ update' = IF Heading(update.s) = {} THEN NoUpdate ELSE [update EXCEPT !.at = "target"]
  /\ UNCHANGED <<gate, frame, status, target, writeVars>>

\* ... then the target that goes with it.
UpdateTarget ==
  /\ update.at = "target"
  /\ target' \in Heading(update.s)
  /\ guess' = guess \ {"target"}
  /\ update' = NoUpdate
  /\ UNCHANGED <<gate, frame, status, current, writeVars>>

-----------------------------------------------------------------------------
\* setTarget: Open pulses the trigger, whichever target is written, ...
TargetBegins(k) ==
  /\ WriteGoes(k, "idle", "opening")
  /\ want' \in {[want EXCEPT ![k] = w] : w \in Target}
  /\ UNCHANGED <<gate, frame, status, update, tileVars>>

Triggers(k) ==
  /\ WriteGoes(k, "opening", "triggered")
  /\ gate' \in Toggled(gate)
  /\ UNCHANGED <<frame, status, update, tileVars, want>>

\* ... or fails, with the gate left alone ...
OpenFails(k) ==
  /\ WriteGoes(k, "opening", "idle")
  /\ UNCHANGED <<gate, frame, status, update, tileVars, want>>

\* ... or with only its answer lost.
AnswerLost(k) ==
  /\ WriteGoes(k, "triggered", "idle")
  /\ UNCHANGED <<gate, frame, status, update, tileVars, want>>

Guessed(w) == IF w = "open" THEN "opening" ELSE "closing"

\* Motion towards the written target is shown at once, wherever it goes, ...
ShowsMotion(k) ==
  /\ WriteGoes(k, "triggered", "shown")
  /\ current' = Guessed(want[k])
  /\ guess' = guess \cup {"current"}
  /\ UNCHANGED <<gate, frame, status, update, target, want>>

\* ... and the HAP library stores the target that was written.
StoreTarget(k) ==
  /\ WriteGoes(k, "shown", "idle")
  /\ target' = want[k]
  /\ guess' = guess \cup {"target"}
  /\ UNCHANGED <<gate, frame, status, update, current, want>>

-----------------------------------------------------------------------------
WriteGoesOn(k) ==
  \/ Triggers(k) \/ OpenFails(k) \/ AnswerLost(k)
  \/ ShowsMotion(k)
  \/ StoreTarget(k)

TileNext ==
  \/ GateMoves
  \/ Reports \/ Babbles \/ FrameLost
  \/ Receive
  \/ UpdateCurrent
  \/ UpdateTarget
  \/ \E k \in Controller : TargetBegins(k) \/ WriteGoesOn(k)

TileSpec == TileInit /\ [][TileNext]_gateTileVars

\* The listener goes on, a frame comes or is lost, Open has a timeout, and a
\* gate that is asked again and again (wake) gets a report of where it is
\* through.  The gate need not move and nobody has to write.
TileFairSpec ==
  /\ TileSpec
  /\ WF_gateTileVars(UpdateCurrent) /\ WF_gateTileVars(UpdateTarget)
  /\ WF_gateTileVars(Receive \/ FrameLost)
  /\ SF_gateTileVars(Reports) /\ SF_gateTileVars(Receive /\ frame = gate)
  /\ \A k \in Controller : WF_gateTileVars(WriteGoesOn(k))

-----------------------------------------------------------------------------
\* Every variable has its type.
TileTypes ==
  /\ gate \in Position
  /\ frame \in Frame \cup {NoFrame}
  /\ status \in Position \cup {"unknown"}
  /\ update \in [at : {"none", "current", "target"}, s : Position \cup {"unknown"}]
  /\ current \in Position
  /\ target \in Target
  /\ writing \in [Controller -> {"idle", "opening", "triggered", "shown"}]
  /\ want \in [Controller -> Target]
  /\ guess \subseteq {"current", "target"}

\* What the tile shows was told by telemetry or guessed by a write since, and
\* then its target goes with it too: "the tile's displayed state is not guessed
\* from the command but driven by the operator's own telemetry" (hkgate.go:5-6)
\* as far as it is true of the code.
TileIsToldOrGuessed ==
  update = NoUpdate /\ status # "unknown" =>
    /\ "current" \notin guess => current = status
    /\ "target" \notin guess /\ Heading(status) # {} => target \in Heading(status)

\* When the gate comes to rest and sends nothing it should not, the
\* controller's status ends at where it rests (follow, setStatus, decodeOverview).
StatusFollowsGate ==
  \A s \in Position : <>[](gate = s /\ frame # "odd") => <>[](status = s)

\* "Show motion immediately; telemetry corrects it via Update" (hkgate.go:54):
\* when the gate has come to rest, nobody writes and telemetry goes on, the
\* tile ends at where it rests.
TelemetryCorrectsTile ==
  \A s \in Position :
    <>[](gate = s /\ frame # "odd" /\ \A k \in Controller : writing[k] = "idle")
      => <>[](current = s)
=============================================================================
