----------------------------- MODULE MCHKStream -----------------------------
(***************************************************************************)
(* Two controllers on one camera.  Four sockets: two setups on their way,  *)
(* the pending one and the one of a live stream that outlives its setup.   *)
(* Two forwarders: a live one and one whose cancelled reader is to return. *)
(***************************************************************************)
EXTENDS HKStream
=============================================================================
