---------------------------- MODULE MCStreamHub -----------------------------
(* The stream hub with two requests, one camera and two pulls at a time.   *)
EXTENDS StreamHub
=============================================================================
