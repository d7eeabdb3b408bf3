------------------------------- MODULE MCHub -------------------------------
EXTENDS Hub
=============================================================================
