--------------------------- MODULE MCGuestStreams ---------------------------
EXTENDS GuestStreams, TLC

Symmetry ==
  Permutations(Guest) \cup Permutations(Token) \cup Permutations(Request) \cup Permutations(Watcher)

\* How long a session may take from its authentication to its expiry.
MaxLag == 1

\* What is explored: two guests together without their sessions, one guest with
\* two watchers for as long as the clock runs, and two requests of the public
\* surface at once beside sessions that begin at the first instant.  A session
\* computes its expiry within MaxLag of its authentication.
WhoMeets ==
  /\ (\A g \in Guest : mem[g].known) => now = 0 /\ \A w \in Watcher : watcher[w] = Away
  /\ now > 0 => \E r \in Request : request[r] = Idle
  /\ \A w \in Watcher : watcher[w].pc = "sign" => now - watcher[w].since <= MaxLag
=============================================================================
