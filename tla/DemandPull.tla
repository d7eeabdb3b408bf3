----------------------------- MODULE DemandPull -----------------------------
(***************************************************************************)
(* What the stream hub promises (src/streamhub.go:39-40, "serves it to any *)
(* number of viewers ... The pull runs only while someone is watching"),   *)
(* with no counters, timers, locks or goroutines: a camera is pulled from  *)
(* the moment somebody watches it, its pull may end only while nobody      *)
(* does, and an unwatched camera's pull does end.                          *)
(***************************************************************************)
CONSTANTS Camera, Viewer, NoCamera

VARIABLES
  watching,   \* the camera each viewer watches, or NoCamera
  pulled,     \* the cameras being pulled
  shut        \* the hub has been closed

vars == <<watching, pulled, shut>>

Init ==
  /\ watching = [v \in Viewer |-> NoCamera]
  /\ pulled = {}
  /\ shut = FALSE

\* A viewer turns up; its camera is pulled from this very step on.
Watch(v, c) ==
  /\ ~shut
  /\ watching[v] = NoCamera
  /\ watching' = [watching EXCEPT ![v] = c]
  /\ pulled' = pulled \cup {c}
  /\ UNCHANGED shut

Leave(v) ==
  /\ watching[v] # NoCamera
  /\ watching' = [watching EXCEPT ![v] = NoCamera]
  /\ UNCHANGED <<pulled, shut>>

\* A pull ends only when nobody watches the camera.
Drop(c) ==
  /\ c \in pulled
  /\ \A v \in Viewer : watching[v] # c
  /\ pulled' = pulled \ {c}
  /\ UNCHANGED <<watching, shut>>

\* Closing ends every pull at once, watched or not.
Shut ==
  /\ ~shut
  /\ shut' = TRUE
  /\ pulled' = {}
  /\ UNCHANGED watching

Next ==
  \/ \E v \in Viewer : Leave(v) \/ \E c \in Camera : Watch(v, c)
  \/ \E c \in Camera : Drop(c)
  \/ Shut

\* An unwatched camera is not pulled for ever.
Fairness == \A c \in Camera : WF_vars(Drop(c))

Spec == Init /\ [][Next]_vars

FairSpec == Spec /\ Fairness
=============================================================================
