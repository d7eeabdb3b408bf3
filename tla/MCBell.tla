------------------------------- MODULE MCBell -------------------------------
(* Two streams whose presses are reported twice over, and one subscriber   *)
(* with room for a single event.  A history of two is full after two rings. *)
EXTENDS Bell
=============================================================================
