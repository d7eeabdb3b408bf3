----------------------------- MODULE MCGateLink -----------------------------
(***************************************************************************)
(* Two logins at once that may yield two sessions.                         *)
(***************************************************************************)
EXTENDS GateLink
=============================================================================
