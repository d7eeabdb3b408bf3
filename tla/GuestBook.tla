----------------------------- MODULE GuestBook -----------------------------
(***************************************************************************)
(* What guest access promises (src/gueststore.go and the handlers that     *)
(* call it), with no records, files, saves, codes or tokens to look up: a  *)
(* guest is given one pass and keeps it, whoever presents a pass is let in *)
(* as the guest it was given to and as nobody else, a pass for visitors    *)
(* opens no door, and a pass that was declared void never opens one again, *)
(* restarts included.                                                      *)
(***************************************************************************)
CONSTANTS Guest, Token, Request, NoGuest, NoToken

VARIABLES
  pass,      \* what each guest was given: nothing yet, or one token
  visitor,   \* the guests whose pass is for looking around only
  void,      \* the guests whose pass was declared void
  opening    \* the guest each request opens a door for and the pass it presented

vars == <<pass, visitor, void, opening>>

Nobody == [guest |-> NoGuest, pass |-> NoToken]

Init ==
  /\ pass = [g \in Guest |-> {}]
  /\ visitor = {}
  /\ void = {}
  /\ opening = [r \in Request |-> Nobody]

\* A guest without a pass is given one that nobody else has.
Give(g, t) ==
  /\ pass[g] = {}
  /\ \A h \in Guest : t \notin pass[h]
  /\ pass' = [pass EXCEPT ![g] = {t}]
  /\ visitor' \in {visitor, visitor \cup {g}}
  /\ UNCHANGED <<void, opening>>

\* The owner, or the guest, is told that the pass is void.
Void(g) ==
  /\ void' = void \cup {g}
  /\ UNCHANGED <<pass, visitor, opening>>

\* A door begins to open for who presents a pass: the guest it was given to,
\* and a pass that is good for it.
OpenFor(r, g, t) ==
  /\ opening[r] = Nobody
  /\ t \in pass[g] /\ g \notin visitor \cup void
  /\ opening' = [opening EXCEPT ![r] = [guest |-> g, pass |-> t]]
  /\ UNCHANGED <<pass, visitor, void>>

Opened(r) ==
  /\ opening[r] # Nobody
  /\ opening' = [opening EXCEPT ![r] = Nobody]
  /\ UNCHANGED <<pass, visitor, void>>

\* The process stops: whatever it was opening, what was given and what was
\* declared void stands.
Stop ==
  /\ opening' = [r \in Request |-> Nobody]
  /\ UNCHANGED <<pass, visitor, void>>

Next ==
  \/ \E g \in Guest : Void(g) \/ \E t \in Token : Give(g, t)
  \/ \E r \in Request : Opened(r) \/ \E g \in Guest, t \in Token : OpenFor(r, g, t)
  \/ Stop

Spec == Init /\ [][Next]_vars
=============================================================================
