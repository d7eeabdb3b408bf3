----------------------------- MODULE MCGateTile -----------------------------
(***************************************************************************)
(* Two HomeKit controllers and a gate that others work too.                *)
(***************************************************************************)
EXTENDS GateTile
=============================================================================
