----------------------------- MODULE MCStation -----------------------------
EXTENDS Station
=============================================================================
