------------------------------ MODULE MCHKLock ------------------------------
(***************************************************************************)
(* Three controllers on one door, with enough timers that an unlock always *)
(* finds a fresh one while the callbacks of earlier ones still run.        *)
(***************************************************************************)
EXTENDS HKLock
=============================================================================
