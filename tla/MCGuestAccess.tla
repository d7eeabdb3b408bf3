--------------------------- MODULE MCGuestAccess ---------------------------
EXTENDS GuestAccess, TLC

Symmetry ==
  Permutations(Guest) \cup Permutations(Token) \cup Permutations(Request)
=============================================================================
