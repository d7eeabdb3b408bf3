---------------------------- MODULE GuestAccess ----------------------------
(***************************************************************************)
(* src/gueststore.go and the handlers of src/guestapi.go, guestadmin.go    *)
(* and streamapi.go that call it: invited guests, their one-time codes and *)
(* device tokens, kept in memory under one mutex and saved as a whole to a *)
(* file.  A save may fail, an answer may be lost, the process may stop at  *)
(* any point; handlers of several phones run at once and hold the mutex    *)
(* for one store call at a time, never across two.                         *)
(*                                                                         *)
(* A store call is one step: the file is replaced by a rename, so a stop   *)
(* in the middle of a call leaves what a stop before or after it leaves.   *)
(* A call that fails and puts everything back is no step.                  *)
(***************************************************************************)
EXTENDS Naturals

CONSTANTS
  Guest,     \* guest ids; 8 random bytes, taken not to collide
  Token,     \* device tokens; 32 random bytes, taken not to collide
  Request,   \* goroutines serving the public surface
  NoGuest,
  NoToken    \* TokenHash == ""

ASSUME NilAssumption == NoGuest \notin Guest /\ NoToken \notin Token

VARIABLES
  mem,       \* GuestStore.guests
  disk,      \* the file at GuestStore.path
  expired,   \* guests whose CodeExpiry has passed
  request,   \* what each handler in flight is doing, and for whom
  minted,    \* tokens drawn so far
  held,      \* tokens that reached a phone, by the guest they were issued to
  acked      \* guests whose Revoke has returned nil

vars == <<mem, disk, expired, request, minted, held, acked>>

\* guestRecord: a code is a BOOLEAN, "a CodeHash is set"; Enrolled is token # NoToken.
Record == [known : BOOLEAN, demo : BOOLEAN, revoked : BOOLEAN,
           code : BOOLEAN, token : Token \cup {NoToken}]

Absent  == [known |-> FALSE, demo |-> FALSE, revoked |-> FALSE,
            code |-> FALSE, token |-> NoToken]
Invited == [Absent EXCEPT !.known = TRUE, !.code = TRUE]
Demo(t) == [Absent EXCEPT !.known = TRUE, !.demo = TRUE, !.token = t]

Idle == [pc |-> "idle", guest |-> NoGuest, token |-> NoToken]

Init ==
  /\ mem = [g \in Guest |-> Absent]
  /\ disk = mem
  /\ expired = {}
  /\ request = [r \in Request |-> Idle]
  /\ minted = {}
  /\ held = [g \in Guest |-> {}]
  /\ acked = {}

Becomes(r, pc, g, t) ==
  request' = [request EXCEPT ![r] = [pc |-> pc, guest |-> g, token |-> t]]

\* save: the store as it now is in memory goes to a temporary file that is
\* renamed over the old one.
Saved == disk' = mem'

-----------------------------------------------------------------------------
\* POST /admin/guests: a new record and its code.
Create(g) ==
  /\ ~mem[g].known
  /\ mem' = [mem EXCEPT ![g] = Invited]
  /\ Saved
  /\ UNCHANGED <<expired, request, minted, held, acked>>

\* Ten minutes after it was created a code is too old.
CodeExpires(g) ==
  /\ mem[g].known
  /\ g \notin expired
  /\ expired' = expired \cup {g}
  /\ UNCHANGED <<mem, disk, request, minted, held, acked>>

\* POST /guest/enroll with g's code: the code is traded for a token.  A failed
\* save is answered with an error; memory keeps the trade all the same.
Enroll(r, g, t) ==
  /\ request[r] = Idle
  /\ mem[g].code /\ ~mem[g].revoked /\ g \notin expired
  /\ t \notin minted
  /\ mem' = [mem EXCEPT ![g].token = t, ![g].code = FALSE]
  /\ minted' = minted \cup {t}
  /\ \/ Saved /\ Becomes(r, "enrolled", g, t)
     \/ UNCHANGED <<disk, request>>
  /\ UNCHANGED <<expired, held, acked>>

\* A plausible slip: the demo record is saved with the next guest's, not now.
EnrollDemoUnsaved(r, g, t) ==
  /\ request[r] = Idle
  /\ ~mem[g].known
  /\ t \notin minted
  /\ mem' = [mem EXCEPT ![g] = Demo(t)]
  /\ minted' = minted \cup {t}
  /\ Becomes(r, "enrolled", g, t)
  /\ UNCHANGED <<disk, expired, held, acked>>

\* POST /guest/enroll with the shared demo code: a record of its own.
EnrollDemo(r, g, t) ==
  /\ request[r] = Idle
  /\ ~mem[g].known
  /\ t \notin minted
  /\ mem' = [mem EXCEPT ![g] = Demo(t)]
  /\ Saved
  /\ minted' = minted \cup {t}
  /\ Becomes(r, "enrolled", g, t)
  /\ UNCHANGED <<expired, held, acked>>

\* The answer reaches the phone, or is lost with its connection.
EnrollAnswers(r) ==
  /\ request[r].pc = "enrolled"
  /\ request' = [request EXCEPT ![r] = Idle]
  /\ \/ held' = [held EXCEPT ![request[r].guest] = @ \cup {request[r].token}]
     \/ UNCHANGED held
  /\ UNCHANGED <<mem, disk, expired, minted, acked>>

-----------------------------------------------------------------------------
\* A plausible slip: any enrolled record will do, whosever token was presented.
AuthenticateAnybody(g, t) ==
  /\ t \in UNION {held[h] : h \in Guest}
  /\ mem[g].token # NoToken /\ ~mem[g].revoked
  /\ UNCHANGED mem
  /\ Saved \/ UNCHANGED disk

\* Authenticate finds g by a token some phone holds.  LastSeen is written with
\* the whole store, on a best-effort basis: a save that works also carries out
\* what an earlier failed save left in memory.
Authenticate(g, t) ==
  /\ t \in UNION {held[h] : h \in Guest}
  /\ mem[g].token = t /\ ~mem[g].revoked
  /\ UNCHANGED mem
  /\ Saved \/ UNCHANGED disk

\* POST /guest/cam/{camera}/session, and a demo pass refused at a door: the
\* caller is authenticated and nothing more happens to the store.
AuthenticateOnly(r, g, t) ==
  /\ request[r] = Idle
  /\ Authenticate(g, t)
  /\ UNCHANGED <<expired, request, minted, held, acked>>

\* POST /guest/gate/open and /guest/outdoor/open: authenticated, then opening.
OpenBegins(r, g, t) ==
  /\ request[r] = Idle
  /\ Authenticate(g, t)
  /\ ~mem[g].demo
  /\ Becomes(r, "opening", g, t)
  /\ UNCHANGED <<expired, minted, held, acked>>

\* The door has opened, or the attempt failed or timed out.
OpenReturns(r) ==
  /\ request[r].pc = "opening"
  /\ request' = [request EXCEPT ![r] = Idle]
  /\ UNCHANGED <<mem, disk, expired, minted, held, acked>>

-----------------------------------------------------------------------------
\* A plausible slip: the store is saved before the flag is set.
RevokeSavesFirst(g) ==
  /\ mem[g].known
  /\ mem' = [mem EXCEPT ![g].revoked = TRUE]
  /\ \/ disk' = mem /\ acked' = acked \cup {g}
     \/ UNCHANGED <<disk, acked>>

\* Revoke: flagged, then saved; a failed save is an error but the flag stays.
Revoke(g) ==
  /\ mem[g].known
  /\ mem' = [mem EXCEPT ![g].revoked = TRUE]
  /\ \/ Saved /\ acked' = acked \cup {g}
     \/ UNCHANGED <<disk, acked>>

\* DELETE /admin/guests/{id}.
AdminRevokes(g) ==
  /\ Revoke(g)
  /\ UNCHANGED <<expired, request, minted, held>>

\* POST /guest/forget: the caller is authenticated, ...
ForgetBegins(r, g, t) ==
  /\ request[r] = Idle
  /\ Authenticate(g, t)
  /\ Becomes(r, "forgetting", g, t)
  /\ UNCHANGED <<expired, minted, held, acked>>

\* ... and revoked in a second store call.
ForgetRevokes(r) ==
  /\ request[r].pc = "forgetting"
  /\ Revoke(request[r].guest)
  /\ request' = [request EXCEPT ![r] = Idle]
  /\ UNCHANGED <<expired, minted, held>>

\* The process stops, its handlers with it, and OpenGuestStore reads the file.
Restart ==
  /\ mem' = disk
  /\ request' = [r \in Request |-> Idle]
  /\ UNCHANGED <<disk, expired, minted, held, acked>>

-----------------------------------------------------------------------------
Handler(r) ==
  \/ \E g \in Guest, t \in Token :
       \/ Enroll(r, g, t)
       \/ EnrollDemo(r, g, t)
       \/ AuthenticateOnly(r, g, t)
       \/ OpenBegins(r, g, t)
       \/ ForgetBegins(r, g, t)
  \/ EnrollAnswers(r)
  \/ OpenReturns(r)
  \/ ForgetRevokes(r)

\* What goes on while the process runs.
Running ==
  \/ \E r \in Request : Handler(r)
  \/ \E g \in Guest : Create(g) \/ CodeExpires(g) \/ AdminRevokes(g)

Next == Running \/ Restart

Spec == Init /\ [][Next]_vars

-----------------------------------------------------------------------------
\* Every variable has its type.
TypeOK ==
  /\ mem \in [Guest -> Record]
  /\ disk \in [Guest -> Record]
  /\ expired \subseteq Guest
  /\ request \in [Request -> [pc : {"idle", "enrolled", "opening", "forgetting"},
                              guest : Guest \cup {NoGuest},
                              token : Token \cup {NoToken}]]
  /\ minted \subseteq Token
  /\ held \in [Guest -> SUBSET Token]
  /\ acked \subseteq Guest

\* A phone that was given a token is not logged out by a restart, nor by a
\* later enrolment, nor by another guest's failed save: memory and the file
\* both know the token as its guest's (Enroll, EnrollDemo, Authenticate, save).
HeldTokensStand ==
  \A g \in Guest : \A t \in held[g] : mem[g].token = t /\ disk[g].token = t

\* Once Revoke has told the owner, or the guest, that it is done, no request
\* ever starts opening a door for that guest, restarts and failed saves of
\* other calls included; nor does one ever for a demo guest (requireToken,
\* guestapi.go:108-132).
RevokeIsFinal ==
  [][\A r \in Request :
       request[r].pc # "opening" /\ request'[r].pc = "opening" =>
         /\ request'[r].guest \notin acked
         /\ ~mem[request'[r].guest].demo]_vars

\* The store, its file and its handlers implement the promise of GuestBook: a
\* phone's token is its pass, the one it presents at a door is the one in its
\* request, and void means that Revoke returned nil.
Book == INSTANCE GuestBook WITH
  pass    <- held,
  visitor <- {g \in Guest : held[g] # {} /\ mem[g].demo},
  void    <- acked,
  opening <- [r \in Request |-> IF request[r].pc = "opening"
                                THEN [guest |-> request[r].guest, pass |-> request[r].token]
                                ELSE [guest |-> NoGuest, pass |-> NoToken]]

\* Whatever fails to be saved, is lost on the way or stops: an invitation puts at
\* most one token into the world and no two guests share one, the token a phone
\* presents admits it as the guest that token was issued to and as nobody else, a
\* demo pass opens nothing, and a revocation that was acknowledged stands
\* (Authenticate, gueststore.go:184-196).
RefinesGuestBook == Book!Spec

\* docs/superpowers/plans/2026-10-21-guest-access-control-backend.md:18, codes
\* are "consumed on first successful enroll": a code is used up only by a call
\* that goes on to answer with a token.
ConsumedBySuccess ==
  [][\A g \in Guest :
       mem[g].code /\ ~mem'[g].code =>
         \E r \in Request : request'[r].pc = "enrolled" /\ request'[r].guest = g]_vars
=============================================================================
