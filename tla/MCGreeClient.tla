---------------------------- MODULE MCGreeClient ----------------------------
EXTENDS GreeClient, TLC

=============================================================================
