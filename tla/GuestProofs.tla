---------------------------- MODULE GuestProofs ----------------------------
(***************************************************************************)
(* Proofs about GuestAccess for any guests, tokens and handlers, any       *)
(* number of failed saves and any number of restarts; and about            *)
(* GuestStreams, which composes it with camera sessions, for any watchers, *)
(* cameras and durations as well.                                          *)
(***************************************************************************)
EXTENDS GuestStreams, Integers, TLAPS

\* How far memory may be ahead of the file.  The same guests are in both; a
\* live code in memory is live on disk, so what a failed save left in memory
\* alone is always something a restart takes back to a state without a token.
StoreInv ==
  \A g \in Guest :
    /\ mem[g].known <=> disk[g].known
    /\ ~mem[g].known => ~mem[g].code /\ mem[g].token = NoToken
    /\ ~disk[g].known => ~disk[g].code /\ disk[g].token = NoToken
    /\ mem[g].code => disk[g].code /\ mem[g].token = NoToken
    /\ disk[g].code => disk[g].token = NoToken

\* A token on its way to a phone, or there, is in memory and on disk.
IssuedInv ==
  /\ HeldTokensStand
  /\ \A r \in Request : request[r].pc = "enrolled" =>
       /\ request[r].guest \in Guest
       /\ request[r].token \in Token
       /\ mem[request[r].guest].token = request[r].token
       /\ disk[request[r].guest].token = request[r].token
  /\ \A r \in Request : request[r].pc = "forgetting" => request[r].guest \in Guest

\* A revocation that was reported is in memory and on disk.
AckedInv ==
  \A g \in acked : mem[g].known /\ mem[g].revoked /\ disk[g].known /\ disk[g].revoked

GuestInv == TypeOK /\ StoreInv /\ IssuedInv /\ AckedInv

\* The empty store satisfies the invariant.
LEMMA InitGuestInv == Init => GuestInv
BY NilAssumption
   DEF Init, GuestInv, TypeOK, Record, Absent, Idle, StoreInv, IssuedInv, HeldTokensStand, AckedInv

\* Inviting a guest touches nobody else's record.
LEMMA CreateGuestInv ==
  ASSUME GuestInv, NEW g \in Guest, Create(g)
  PROVE  GuestInv'
<1> USE NilAssumption DEF GuestInv, Create, Saved, Invited, Absent
<1>1. TypeOK'
  BY DEF TypeOK, Record
<1>2. mem' = [mem EXCEPT ![g] = Invited] /\ disk' = mem'
  OBVIOUS
<1>3. StoreInv'
  BY <1>2 DEF TypeOK, Record, StoreInv
<1>4. \A h \in Guest : mem[h].token \in Token => mem'[h].token = mem[h].token
  BY <1>2 DEF TypeOK, StoreInv
<1>5. IssuedInv'
  BY <1>4 DEF TypeOK, IssuedInv, HeldTokensStand
<1>6. AckedInv'
  BY <1>2 DEF TypeOK, AckedInv
<1>7. QED
  BY <1>1, <1>3, <1>5, <1>6

\* Trading a code, saved or not: the guest had no token before, in memory or
\* on disk, so no token that was issued is replaced.
LEMMA EnrollGuestInv ==
  ASSUME GuestInv, NEW r \in Request, NEW g \in Guest, NEW t \in Token,
         Enroll(r, g, t)
  PROVE  GuestInv'
<1>1. mem' = [mem EXCEPT ![g].token = t, ![g].code = FALSE] /\ mem \in [Guest -> Record]
  BY DEF GuestInv, Enroll, TypeOK
<1>2. mem' \in [Guest -> Record]
  BY <1>1 DEF Record
<1>3. \/ disk' = mem' /\ Becomes(r, "enrolled", g, t)
      \/ disk' = disk /\ request' = request
  BY DEF Enroll, Saved
<1>4. TypeOK'
  <2>1. disk' \in [Guest -> Record]
    BY <1>2, <1>3 DEF GuestInv, TypeOK
  <2>2. request' \in [Request -> [pc : {"idle", "enrolled", "opening", "forgetting"},
                                  guest : Guest \cup {NoGuest},
                                  token : Token \cup {NoToken}]]
    BY <1>3 DEF GuestInv, TypeOK, Becomes
  <2>3. QED
    BY <1>2, <2>1, <2>2 DEF GuestInv, TypeOK, Enroll
<1>5. mem'[g] = [mem[g] EXCEPT !.token = t, !.code = FALSE]
        /\ \A h \in Guest \ {g} : mem'[h] = mem[h]
  BY <1>1
<1>6. mem[g] \in Record
  BY DEF GuestInv, TypeOK
<1>7. /\ mem[g].known /\ disk[g].known /\ mem[g].token = NoToken /\ disk[g].token = NoToken
      /\ mem'[g].known /\ ~mem'[g].code /\ mem'[g].token = t
      /\ mem'[g].revoked = mem[g].revoked
  <2>1. mem[g].code
    BY DEF Enroll
  <2>2. mem[g].known /\ disk[g].known /\ mem[g].token = NoToken /\ disk[g].token = NoToken
    BY <2>1 DEF GuestInv, StoreInv
  <2>3. /\ mem'[g].known = mem[g].known /\ ~mem'[g].code /\ mem'[g].token = t
        /\ mem'[g].revoked = mem[g].revoked
    <3>1. mem'[g].token = t /\ ~mem'[g].code
      BY <1>5, <1>6 DEF Record
    <3>2. mem'[g].known = mem[g].known /\ mem'[g].revoked = mem[g].revoked
      BY <1>5, <1>6 DEF Record
    <3> QED
      BY <3>1, <3>2
  <2>4. QED
    BY <2>2, <2>3
<1>8. disk' \in {disk, mem'}
  BY <1>3
<1>9. StoreInv'
  <2>1. t # NoToken
    BY NilAssumption
  <2>2. CASE disk' = mem'
    BY <1>5, <1>7, <2>1, <2>2 DEF GuestInv, StoreInv
  <2>3. CASE disk' = disk
    BY <1>5, <1>7, <2>1, <2>3 DEF GuestInv, StoreInv
  <2>4. QED
    BY <1>8, <2>2, <2>3
<1>10. ASSUME NEW h \in Guest, mem[h].token \in Token, disk[h].token = mem[h].token
       PROVE  h # g /\ mem'[h].token = mem[h].token /\ disk'[h].token = mem[h].token
  BY <1>5, <1>7, <1>8, <1>10, NilAssumption
<1>11. HeldTokensStand'
  BY <1>10 DEF GuestInv, Enroll, IssuedInv, HeldTokensStand, TypeOK
<1>12. \A q \in Request : \/ request'[q] = request[q]
                          \/ /\ request'[q].pc = "enrolled"
                             /\ request'[q].guest = g
                             /\ request'[q].token = t
                             /\ disk'[g].token = t
  BY <1>3, <1>7 DEF GuestInv, TypeOK, Becomes
<1>13. IssuedInv'
  <2>1. ASSUME NEW q \in Request, request'[q].pc = "enrolled"
        PROVE  /\ request'[q].guest \in Guest
               /\ request'[q].token \in Token
               /\ mem'[request'[q].guest].token = request'[q].token
               /\ disk'[request'[q].guest].token = request'[q].token
    BY <1>7, <1>10, <1>12, <2>1 DEF GuestInv, IssuedInv
  <2>2. ASSUME NEW q \in Request, request'[q].pc = "forgetting"
        PROVE  request'[q].guest \in Guest
    BY <1>12, <2>2 DEF GuestInv, IssuedInv
  <2>3. QED
    BY <1>11, <2>1, <2>2 DEF IssuedInv
<1>14. AckedInv'
  BY <1>5, <1>7, <1>8 DEF GuestInv, Enroll, AckedInv, TypeOK
<1>15. QED
  BY <1>4, <1>9, <1>13, <1>14 DEF GuestInv

\* A demo pass is a new record with its token, in memory and on disk.
LEMMA EnrollDemoGuestInv ==
  ASSUME GuestInv, NEW r \in Request, NEW g \in Guest, NEW t \in Token,
         EnrollDemo(r, g, t)
  PROVE  GuestInv'
<1> USE NilAssumption DEF GuestInv, EnrollDemo, Saved, Becomes, Demo, Absent
<1>1. TypeOK'
  BY DEF TypeOK, Record
<1>2. mem' = [mem EXCEPT ![g] = Demo(t)] /\ disk' = mem'
  OBVIOUS
<1>3. StoreInv'
  BY <1>2 DEF TypeOK, StoreInv
<1>4. \A h \in Guest : mem[h].token \in Token => h # g /\ mem'[h].token = mem[h].token
  BY <1>2 DEF TypeOK, StoreInv
<1>5. HeldTokensStand'
  BY <1>4 DEF TypeOK, IssuedInv, HeldTokensStand
<1>6. mem'[g].token = t
  BY <1>2 DEF TypeOK
<1>7. IssuedInv'
  BY <1>2, <1>4, <1>5, <1>6 DEF TypeOK, IssuedInv
<1>8. AckedInv'
  BY <1>2 DEF TypeOK, AckedInv
<1>9. QED
  BY <1>1, <1>3, <1>7, <1>8

\* A save that is due to somebody else's call makes the file equal to memory.
LEMMA AuthenticateGuestInv ==
  ASSUME GuestInv, NEW g \in Guest, NEW t \in Token, Authenticate(g, t),
         UNCHANGED <<expired, minted, held, acked>>,
         TypeOK',
         \A r \in Request : \/ request'[r] = request[r]
                            \/ request'[r].pc \in {"opening", "forgetting"} /\ request'[r].guest = g
  PROVE  GuestInv'
<1> USE DEF GuestInv, Authenticate, Saved
<1>1. mem' = mem /\ disk' \in {disk, mem}
  OBVIOUS
<1>2. StoreInv'
  BY <1>1 DEF StoreInv
<1>3. IssuedInv'
  BY <1>1 DEF IssuedInv, HeldTokensStand
<1>4. AckedInv'
  BY <1>1 DEF AckedInv
<1>5. QED
  BY <1>2, <1>3, <1>4

\* Revoke keeps the types of what it changes.
LEMMA RevokeTypes ==
  ASSUME TypeOK, NEW g \in Guest, Revoke(g)
  PROVE  mem' \in [Guest -> Record] /\ disk' \in [Guest -> Record] /\ acked' \subseteq Guest
<1>1. mem' = [mem EXCEPT ![g].revoked = TRUE] /\ mem \in [Guest -> Record]
  BY DEF TypeOK, Revoke
<1>2. [mem[g] EXCEPT !.revoked = TRUE] \in Record
  BY <1>1 DEF Record
<1>3. mem' \in [Guest -> Record]
  BY <1>1, <1>2
<1> QED
  BY <1>3 DEF TypeOK, Revoke, Saved

\* Revoking keeps every token and code where it is.
LEMMA RevokeGuestInv ==
  ASSUME GuestInv, NEW g \in Guest, Revoke(g),
         UNCHANGED <<expired, minted, held>>,
         TypeOK',
         \A r \in Request : request'[r] = request[r] \/ request'[r] = Idle
  PROVE  GuestInv'
<1>1. mem' = [mem EXCEPT ![g].revoked = TRUE] /\ mem \in [Guest -> Record]
  BY DEF GuestInv, Revoke, TypeOK
<1>2. \A h \in Guest : /\ mem'[h].known = mem[h].known
                       /\ mem'[h].code = mem[h].code
                       /\ mem'[h].token = mem[h].token
                       /\ mem[h].revoked => mem'[h].revoked
  BY <1>1 DEF Record
<1>3. mem'[g].known /\ mem'[g].revoked
  BY <1>1 DEF Revoke, Record
<1>4. \/ disk' = mem' /\ acked' = acked \cup {g}
      \/ disk' = disk /\ acked' = acked
  BY DEF Revoke, Saved
<1>5. StoreInv'
  BY <1>2, <1>4 DEF GuestInv, StoreInv
<1>6. HeldTokensStand'
  BY <1>2, <1>4 DEF GuestInv, IssuedInv, HeldTokensStand
<1>7. IssuedInv'
  <2>1. ASSUME NEW q \in Request, request'[q].pc # "idle"
        PROVE  request'[q] = request[q]
    BY <2>1 DEF Idle
  <2>2. QED
    BY <1>2, <1>4, <1>6, <2>1 DEF GuestInv, IssuedInv
<1>8. AckedInv'
  <2>1. acked \subseteq Guest
    BY DEF GuestInv, TypeOK
  <2>2. \A h \in acked : mem'[h].known /\ mem'[h].revoked
    BY <1>2, <2>1 DEF GuestInv, AckedInv
  <2>3. QED
    BY <1>3, <1>4, <2>2 DEF GuestInv, AckedInv
<1>9. QED
  BY <1>5, <1>7, <1>8 DEF GuestInv

\* Every step of a handler keeps the invariant.
LEMMA HandlerGuestInv ==
  ASSUME GuestInv, NEW r \in Request, Handler(r)
  PROVE  GuestInv'
<1>1. ASSUME NEW g \in Guest, NEW t \in Token, AuthenticateOnly(r, g, t)
      PROVE  GuestInv'
  <2>1. TypeOK'
    BY <1>1 DEF AuthenticateOnly, Authenticate, Saved, GuestInv, TypeOK
  <2>2. QED
    BY <1>1, <2>1, AuthenticateGuestInv DEF AuthenticateOnly
<1>2. ASSUME NEW g \in Guest, NEW t \in Token, OpenBegins(r, g, t) \/ ForgetBegins(r, g, t)
      PROVE  GuestInv'
  <2>1. TypeOK'
    BY <1>2 DEF OpenBegins, ForgetBegins, Authenticate, Saved, Becomes, GuestInv, TypeOK
  <2>2. \A q \in Request : \/ request'[q] = request[q]
                           \/ request'[q].pc \in {"opening", "forgetting"} /\ request'[q].guest = g
    BY <1>2 DEF OpenBegins, ForgetBegins, Becomes, GuestInv, TypeOK
  <2>3. QED
    BY <1>2, <2>1, <2>2, AuthenticateGuestInv DEF OpenBegins, ForgetBegins
<1>3. CASE EnrollAnswers(r)
  <2>1. request[r].guest \in Guest /\ request[r].token \in Token
    BY <1>3 DEF EnrollAnswers, GuestInv, IssuedInv
  <2>2. TypeOK'
    BY <1>3, <2>1 DEF EnrollAnswers, GuestInv, TypeOK, Idle
  <2>3. IssuedInv'
    BY <1>3, <2>1 DEF EnrollAnswers, GuestInv, IssuedInv, HeldTokensStand, TypeOK, Idle
  <2>4. QED
    BY <1>3, <2>2, <2>3 DEF EnrollAnswers, GuestInv, StoreInv, AckedInv
<1>4. CASE OpenReturns(r)
  <2>1. TypeOK' /\ IssuedInv'
    BY <1>4 DEF OpenReturns, GuestInv, TypeOK, IssuedInv, HeldTokensStand, Idle
  <2>2. QED
    BY <1>4, <2>1 DEF OpenReturns, GuestInv, StoreInv, AckedInv
<1>5. CASE ForgetRevokes(r)
  <2>1. request[r].guest \in Guest
    BY <1>5 DEF ForgetRevokes, GuestInv, IssuedInv
  <2>2. TypeOK'
    BY <1>5, <2>1, RevokeTypes DEF ForgetRevokes, GuestInv, TypeOK, Idle
  <2>3. \A q \in Request : request'[q] = request[q] \/ request'[q] = Idle
    BY <1>5 DEF ForgetRevokes, GuestInv, TypeOK
  <2>4. QED
    BY <1>5, <2>1, <2>2, <2>3, RevokeGuestInv DEF ForgetRevokes
<1>6. QED
  BY <1>1, <1>2, <1>3, <1>4, <1>5, EnrollGuestInv, EnrollDemoGuestInv DEF Handler

\* So do the owner's calls, the clock, a restart and a stuttering step.
LEMMA NextGuestInv == GuestInv /\ [Next]_vars => GuestInv'
<1> SUFFICES ASSUME GuestInv, [Next]_vars PROVE GuestInv'
  OBVIOUS
<1>1. ASSUME NEW g \in Guest, CodeExpires(g) PROVE GuestInv'
  BY <1>1 DEF CodeExpires, GuestInv, TypeOK, StoreInv, IssuedInv, HeldTokensStand, AckedInv
<1>2. ASSUME NEW g \in Guest, AdminRevokes(g) PROVE GuestInv'
  <2>1. TypeOK'
    BY <1>2, RevokeTypes DEF AdminRevokes, GuestInv, TypeOK
  <2>2. QED
    BY <1>2, <2>1, RevokeGuestInv DEF AdminRevokes
<1>3. CASE Restart
  <2>1. TypeOK'
    BY <1>3, NilAssumption DEF Restart, GuestInv, TypeOK, Idle
  <2>2. IssuedInv'
    BY <1>3 DEF Restart, GuestInv, TypeOK, IssuedInv, HeldTokensStand, Idle
  <2>3. QED
    BY <1>3, <2>1, <2>2 DEF Restart, GuestInv, StoreInv, AckedInv
<1>4. CASE UNCHANGED vars
  BY <1>4 DEF vars, GuestInv, TypeOK, StoreInv, IssuedInv, HeldTokensStand, AckedInv
<1>5. QED
  BY <1>1, <1>2, <1>3, <1>4, HandlerGuestInv, CreateGuestInv DEF Next, Running

\* The invariant holds in every state the program reaches.
THEOREM GuestInductive == Spec => []GuestInv
BY InitGuestInv, NextGuestInv, PTL DEF Spec

\* Whatever fails to be saved and whenever the process stops, a phone's token
\* goes on being its guest's, in memory and on disk.
THEOREM PhonesStayEnrolled == Spec => []HeldTokensStand
<1>1. GuestInv => HeldTokensStand
  BY DEF GuestInv, IssuedInv
<1>2. QED
  BY <1>1, GuestInductive, PTL

\* What an invitation puts into the world, although a failed save leaves the traded
\* code on disk and a restart makes it good again (Enroll, gueststore.go:126-152).
OneTokenPerInvite == \A g \in Guest : \A t, u \in held[g] : t = u

\* One invitation, one token: two phones never enrol with the same code.
THEOREM CodesAreOneTime == Spec => []OneTokenPerInvite
<1>1. GuestInv => OneTokenPerInvite
  BY DEF GuestInv, IssuedInv, HeldTokensStand, OneTokenPerInvite
<1>2. QED
  BY <1>1, GuestInductive, PTL

\* A request only begins to open a door for a guest who is in, ...
Final ==
  \A r \in Request :
    request[r].pc # "opening" /\ request'[r].pc = "opening" =>
      /\ request'[r].guest \notin acked
      /\ ~mem[request'[r].guest].demo

\* ... whatever step is taken.
LEMMA NextFinal ==
  ASSUME GuestInv, [Next]_vars
  PROVE  [Final]_vars
<1> SUFFICES ASSUME NEW r \in Request,
                    request[r].pc # "opening", request'[r].pc = "opening"
             PROVE  /\ request'[r].guest \notin acked
                    /\ ~mem[request'[r].guest].demo
  BY DEF Final
<1>1. request' # request
  OBVIOUS
<1>2. ~ (\E g \in Guest : Create(g) \/ CodeExpires(g) \/ AdminRevokes(g))
  BY <1>1 DEF Create, CodeExpires, AdminRevokes
<1>3. ~Restart
  BY DEF Restart, Idle
<1>4. PICK q \in Request : Handler(q)
  BY <1>1, <1>2, <1>3 DEF Next, Running, vars
<1>5. request \in [Request -> [pc : {"idle", "enrolled", "opening", "forgetting"},
                               guest : Guest \cup {NoGuest},
                               token : Token \cup {NoToken}]]
  BY DEF GuestInv, TypeOK
<1>6. ~EnrollAnswers(q) /\ ~OpenReturns(q) /\ ~ForgetRevokes(q)
  BY <1>5 DEF EnrollAnswers, OpenReturns, ForgetRevokes, Idle
<1>7. PICK g \in Guest, t \in Token : OpenBegins(q, g, t)
  <2>1. ASSUME NEW g \in Guest, NEW t \in Token
        PROVE  ~Enroll(q, g, t) /\ ~EnrollDemo(q, g, t)
                 /\ ~AuthenticateOnly(q, g, t) /\ ~ForgetBegins(q, g, t)
    BY <1>1, <1>5 DEF Enroll, EnrollDemo, AuthenticateOnly, ForgetBegins, Becomes
  <2>2. QED
    BY <1>4, <1>6, <2>1 DEF Handler
<1>8. request'[r].guest = g
  BY <1>5, <1>7 DEF OpenBegins, Becomes
<1>9. QED
  BY <1>7, <1>8 DEF OpenBegins, Authenticate, GuestInv, AckedInv

\* A revocation that was reported as done is never undone: no door is opened
\* for that guest again.
THEOREM RevocationsLast == Spec => RevokeIsFinal
<1>1. [][Final]_vars => RevokeIsFinal
  BY PTL DEF RevokeIsFinal, Final
<1> QED
  BY <1>1, NextFinal, GuestInductive, PTL DEF Spec

-----------------------------------------------------------------------------
\* The camera sessions.  An expiry is at most a TTL away.
Times == 0..MaxTime

StreamTypes ==
  /\ now \in Times
  /\ watcher \in [Watcher -> [pc : {"idle", "sign", "log", "record", "answer"},
                              guest : Guest \cup {NoGuest}, camera : Camera,
                              since : Nat, exp : Nat]]
  /\ logged \in [Guest \X Camera -> Times \cup {Never}]
  /\ rows \in [Guest -> Times \cup {Never}]
  /\ urls \in [Guest \X Camera -> Nat]
  /\ revokedAt \in [Guest -> Times \cup {Never}]
  /\ lag \in [Guest -> Nat]
  /\ \A w \in Watcher :
       /\ watcher[w].pc # "idle" => watcher[w].guest \in Guest
       /\ watcher[w].since <= now
       /\ watcher[w].exp <= now + TTL
  /\ \A g \in Guest :
       /\ rows[g] # Never => rows[g] <= now
       /\ revokedAt[g] # Never => revokedAt[g] <= now
  /\ \A g \in Guest, c \in Camera :
       /\ logged[<<g, c>>] # Never => logged[<<g, c>>] <= now
       /\ urls[<<g, c>>] # Never => urls[<<g, c>>] <= now + TTL

\* When the last stream of a guest ends that was revoked.
LastEnd(g) == revokedAt[g] + TTL + lag[g]

\* What a guest has, or a handler is about to give, expires then at the latest; a
\* handler that has no expiry yet authenticated the guest before the revocation.
RevokedInv ==
  \A g \in acked :
    /\ revokedAt[g] # Never
    /\ \A c \in Camera : urls[<<g, c>>] # Never => urls[<<g, c>>] <= LastEnd(g)
    /\ \A w \in Watcher : watcher[w].guest = g =>
         /\ watcher[w].pc = "sign" => watcher[w].since <= revokedAt[g]
         /\ watcher[w].pc \in {"log", "record", "answer"} => watcher[w].exp <= LastEnd(g)

\* The sessions of a guest since x are on record, or soon to be, unless a row was lost.
OnRecord(g, x) ==
  \/ g \in lost
  \/ rows[g] # Never /\ rows[g] >= x
  \/ \E w \in Watcher : watcher[w].pc = "record" /\ watcher[w].guest = g

\* What the throttle has noted within a TTL is on record; so is what gave a live
\* URL, or is about to, within a TTL before its beginning.
RecordInv ==
  \A g \in Guest, c \in Camera :
    /\ LoggedBefore(g, c) => OnRecord(g, logged[<<g, c>>])
    /\ VerifyStream(urls[<<g, c>>], now) => OnRecord(g, urls[<<g, c>>] - 2 * TTL)

AnswerInv ==
  \A w \in Watcher :
    watcher[w].pc = "answer" /\ VerifyStream(watcher[w].exp, now)
      => OnRecord(watcher[w].guest, watcher[w].exp - 2 * TTL)

SessionInv == StreamTypes /\ RevokedInv /\ RecordInv /\ AnswerInv

\* Nobody has watched at the start.
LEMMA InitSessionInv == ASSUME StreamInit PROVE SessionInv
<1> USE DEF StreamInit
<1>1. Never \in Nat /\ 0 \in Times
  BY StreamAssumption DEF Never, Times
<1>2. Away \in [pc : {"idle", "sign", "log", "record", "answer"},
                guest : Guest \cup {NoGuest}, camera : Camera, since : Nat, exp : Nat]
  BY StreamAssumption DEF Away
<1>3. \A w \in Watcher : watcher[w] = Away
  OBVIOUS
<1>4. StreamTypes
  BY <1>1, <1>2, StreamAssumption DEF StreamTypes, Away
<1>5. RevokedInv
  BY DEF RevokedInv, Init
<1>6. RecordInv /\ AnswerInv
  BY <1>3 DEF RecordInv, AnswerInv, LoggedBefore, VerifyStream, Away
<1> QED
  BY <1>4, <1>5, <1>6 DEF SessionInv

State == [pc : {"idle", "sign", "log", "record", "answer"}, guest : Guest \cup {NoGuest},
          camera : Camera, since : Nat, exp : Nat]

\* A watcher's step that leaves the clock, the URLs and the guests alone, and is not
\* the writing of a row: the rest of the invariant is as before.
LEMMA WatcherMoves ==
  ASSUME GuestInv, SessionInv, NEW w \in Watcher, NEW s \in State, watcher[w].pc # "record",
         Watches(w, s), s.exp <= now + TTL, s.since <= now, s.pc # "idle" => s.guest \in Guest,
         s.pc = "answer" /\ VerifyStream(s.exp, now) => OnRecord(s.guest, s.exp - 2 * TTL),
         s.pc = "sign" => s.guest \notin acked,
         s.guest \in acked => s.exp <= revokedAt[s.guest] + TTL + lag'[s.guest],
         lag' \in [Guest -> Nat], \A g \in Guest : lag[g] <= lag'[g],
         UNCHANGED <<now, rows, urls, revokedAt, lost, acked>>
  PROVE  /\ logged' = logged => StreamTypes' /\ RecordInv'
         /\ RevokedInv' /\ AnswerInv'
         /\ \A g, x : OnRecord(g, x) => OnRecord(g, x)'
<1> USE DEF SessionInv, Watches
<1>1. watcher \in [Watcher -> State]
  BY DEF StreamTypes, State
<1>2. watcher' \in [Watcher -> State] /\ watcher'[w] = s
        /\ \A v \in Watcher \ {w} : watcher'[v] = watcher[v]
  BY <1>1
<1>3. \A g, x : OnRecord(g, x) => OnRecord(g, x)'
  BY <1>2 DEF OnRecord
<1>4. logged' = logged => StreamTypes'
  BY <1>2 DEF StreamTypes, State
<1>5. RevokedInv'
  <2> SUFFICES ASSUME NEW h \in acked
               PROVE  /\ revokedAt[h] # Never
                      /\ \A d \in Camera : urls[<<h, d>>] # Never => urls[<<h, d>>] <= LastEnd(h)'
                      /\ \A v \in Watcher : watcher'[v].guest = h =>
                           /\ watcher'[v].pc = "sign" => watcher'[v].since <= revokedAt[h]
                           /\ watcher'[v].pc \in {"log", "record", "answer"}
                                => watcher'[v].exp <= LastEnd(h)'
    BY DEF RevokedInv
  <2>1. h \in Guest
    BY DEF GuestInv, TypeOK
  <2>2. LastEnd(h) <= LastEnd(h)' /\ LastEnd(h) \in Nat /\ LastEnd(h)' \in Nat
    BY <2>1, StreamAssumption DEF LastEnd, StreamTypes, Times, Never
  <2>3. ASSUME NEW d \in Camera, urls[<<h, d>>] # Never PROVE urls[<<h, d>>] <= LastEnd(h)'
    <3>1. urls[<<h, d>>] \in Nat /\ urls[<<h, d>>] <= LastEnd(h)
      BY <2>1, <2>3 DEF RevokedInv, StreamTypes
    <3> QED
      BY <2>2, <3>1
  <2>4. ASSUME NEW v \in Watcher, watcher'[v].guest = h
        PROVE  /\ watcher'[v].pc = "sign" => watcher'[v].since <= revokedAt[h]
               /\ watcher'[v].pc \in {"log", "record", "answer"}
                    => watcher'[v].exp <= LastEnd(h)'
    <3>1. CASE v = w
      BY <1>2, <2>4, <3>1 DEF LastEnd
    <3>2. CASE v # w
      <4>1. watcher'[v] = watcher[v] /\ watcher[v].exp \in Nat
        BY <1>1, <1>2, <3>2 DEF State
      <4> QED
        BY <2>2, <2>4, <4>1 DEF RevokedInv
    <3> QED
      BY <3>1, <3>2
  <2> QED
    BY <2>3, <2>4 DEF RevokedInv
<1>6. logged' = logged => RecordInv'
  <2>1. ASSUME NEW g \in Guest, NEW c \in Camera, logged' = logged, LoggedBefore(g, c)'
        PROVE  OnRecord(g, logged[<<g, c>>])'
    <3>1. OnRecord(g, logged[<<g, c>>])
      BY <2>1 DEF RecordInv, LoggedBefore
    <3> QED
      BY <1>3, <2>1, <3>1 DEF OnRecord
  <2>2. ASSUME NEW g \in Guest, NEW c \in Camera, VerifyStream(urls[<<g, c>>], now)'
        PROVE  OnRecord(g, urls[<<g, c>>] - 2 * TTL)'
    <3>1. OnRecord(g, urls[<<g, c>>] - 2 * TTL)
      BY <2>2 DEF RecordInv, VerifyStream
    <3> QED
      BY <1>3, <3>1 DEF OnRecord
  <2> QED
    BY <2>1, <2>2 DEF RecordInv
<1>7. AnswerInv'
  BY <1>2, <1>3 DEF AnswerInv, VerifyStream, OnRecord
<1> QED
  BY <1>3, <1>4, <1>5, <1>6, <1>7

\* A session that leaves the lags alone leaves them of their type.
LEMMA LagStays ==
  ASSUME SessionInv, lag' = lag
  PROVE  lag' \in [Guest -> Nat] /\ \A g \in Guest : lag[g] <= lag'[g]
BY DEF SessionInv, StreamTypes

\* A session begins for a guest who is not revoked, and so not acknowledged as such.
LEMMA BeginsSessionInv ==
  ASSUME GuestInv, SessionInv, NEW w \in Watcher, NEW c \in Camera, SessionBegins(w, c)
  PROVE  SessionInv'
<1> PICK g \in Guest, t \in Token :
      /\ Authenticate(g, t)
      /\ Watches(w, [pc |-> "sign", guest |-> g, camera |-> c, since |-> now, exp |-> 0])
  BY DEF SessionBegins
<1> DEFINE s == [pc |-> "sign", guest |-> g, camera |-> c, since |-> now, exp |-> 0]
<1>1. g \notin acked
  BY DEF Authenticate, GuestInv, AckedInv
<1>2. s \in State
  BY StreamAssumption DEF SessionInv, StreamTypes, State, Times
<1>3. watcher[w].pc # "record" /\ UNCHANGED <<now, logged, rows, urls, revokedAt, lag, lost, acked>>
  BY DEF SessionBegins
<1>4. s.exp <= now + TTL /\ s.since <= now
  BY StreamAssumption DEF SessionInv, StreamTypes, Times
<1> HIDE DEF s
<1>5. s.pc = "sign" /\ s.guest = g /\ Watches(w, s)
  BY DEF s
<1> QED
  BY <1>1, <1>2, <1>3, <1>4, <1>5, LagStays, WatcherMoves DEF SessionInv

\* The expiry of a session is a TTL from now: of one that was revoked meanwhile, its
\* lag and a TTL from its authentication, which came before.
LEMMA ExpirySessionInv ==
  ASSUME GuestInv, SessionInv, NEW w \in Watcher, SessionExpiry(w)
  PROVE  SessionInv'
<1> DEFINE g == watcher[w].guest   i == watcher[w].since
           s == [watcher[w] EXCEPT !.pc = "log", !.since = 0, !.exp = now + TTL]
<1> USE DEF SessionExpiry
<1>1. watcher[w] \in State /\ g \in Guest /\ i \in Nat /\ i <= now /\ watcher[w].pc = "sign"
  BY DEF SessionInv, StreamTypes, State
<1>2. now \in Nat /\ TTL \in Nat /\ now + TTL \in Nat
  BY StreamAssumption DEF SessionInv, StreamTypes, Times
<1>3. s \in State /\ s.pc = "log" /\ s.guest = g /\ s.since = 0 /\ s.exp = now + TTL
  BY <1>1, <1>2 DEF State
<1>4. Watches(w, s) /\ UNCHANGED <<now, logged, rows, urls, revokedAt, lost, acked>>
        /\ lag' = [lag EXCEPT ![g] = IF g \in acked /\ @ < now - i THEN now - i ELSE @]
  BY DEF vars
<1>5. lag \in [Guest -> Nat]
  BY DEF SessionInv, StreamTypes
<1>6. g \in acked => i <= revokedAt[g] /\ revokedAt[g] \in Nat
  BY <1>1, StreamAssumption DEF SessionInv, RevokedInv, StreamTypes, Times, Never
<1> HIDE DEF g, i, s
<1> DEFINE l == IF g \in acked /\ lag[g] < now - i THEN now - i ELSE lag[g]
<1>7. /\ l \in Nat /\ lag[g] <= l /\ (g \in acked => now - i <= l)
      /\ lag' = [lag EXCEPT ![g] = l]
  <2>1. now - i \in Nat /\ lag[g] \in Nat
    BY <1>1, <1>2, <1>5
  <2>2. l \in Nat /\ lag[g] <= l /\ (g \in acked => now - i <= l)
    BY ONLY <2>1
  <2>3. lag' = [lag EXCEPT ![g] = l]
    BY <1>4
  <2> QED
    BY <2>2, <2>3
<1> HIDE DEF l
<1>8. lag' \in [Guest -> Nat] /\ lag'[g] = l /\ \A h \in Guest : lag[h] <= lag'[h]
  BY ONLY <1>1, <1>5, <1>7
<1>9. g \in acked => s.exp <= revokedAt[g] + TTL + lag'[g]
  BY ONLY <1>1, <1>2, <1>3, <1>6, <1>7, <1>8
<1> HIDE DEF SessionExpiry
<1> QED
  BY <1>1, <1>2, <1>3, <1>4, <1>8, <1>9, WatcherMoves DEF SessionInv

\* The throttle says no: what it noted is on record.
LEMMA IsLoggedSessionInv ==
  ASSUME GuestInv, SessionInv, NEW w \in Watcher, SessionIsLogged(w)
  PROVE  SessionInv'
<1> DEFINE g == watcher[w].guest   c == watcher[w].camera   e == watcher[w].exp
           s == [watcher[w] EXCEPT !.pc = "answer"]
<1> USE DEF SessionIsLogged
<1>1. watcher[w] \in State /\ g \in Guest /\ c \in Camera /\ e \in Nat /\ e <= now + TTL
        /\ watcher[w].since <= now
  BY DEF SessionInv, StreamTypes, State
<1>2. now \in Nat /\ logged[<<g, c>>] \in Nat /\ TTL \in Nat
  BY <1>1, StreamAssumption DEF SessionInv, StreamTypes, Times, Never
<1>3. OnRecord(g, logged[<<g, c>>])
  BY <1>1 DEF SessionInv, RecordInv
<1>4. e - 2 * TTL <= logged[<<g, c>>]
  BY <1>1, <1>2 DEF LoggedBefore
<1>5. rows[g] # Never => rows[g] \in Nat
  BY <1>1, <1>2 DEF SessionInv, StreamTypes, Times
<1>6. OnRecord(g, e - 2 * TTL)
  BY <1>1, <1>2, <1>3, <1>4, <1>5 DEF OnRecord
<1>7. s \in State /\ s.pc = "answer" /\ s.guest = g /\ s.since = watcher[w].since /\ s.exp = e
  BY <1>1 DEF State
<1>8. watcher[w].pc = "log" /\ Watches(w, s)
        /\ UNCHANGED <<now, logged, rows, urls, revokedAt, lag, lost, acked>>
  BY DEF vars
<1>9. g \in acked => e <= revokedAt[g] + TTL + lag'[g]
  BY <1>8 DEF SessionInv, RevokedInv, LastEnd
<1> HIDE DEF g, c, e, s
<1> QED
  BY <1>1, <1>6, <1>7, <1>8, <1>9, LagStays, WatcherMoves DEF SessionInv

\* It says yes: a row is about to be written.
LEMMA IsNotedSessionInv ==
  ASSUME GuestInv, SessionInv, NEW w \in Watcher, SessionIsNoted(w)
  PROVE  SessionInv'
<1> DEFINE g == watcher[w].guest   c == watcher[w].camera   e == watcher[w].exp
           s == [watcher[w] EXCEPT !.pc = "record"]
<1> USE DEF SessionIsNoted
<1>1. watcher[w] \in State /\ g \in Guest /\ c \in Camera /\ e \in Nat /\ e <= now + TTL
        /\ watcher[w].since <= now
  BY DEF SessionInv, StreamTypes, State
<1>2. s \in State /\ s.pc = "record" /\ s.guest = g /\ s.since = watcher[w].since /\ s.exp = e
  BY <1>1 DEF State
<1>3. watcher[w].pc = "log" /\ Watches(w, s)
        /\ UNCHANGED <<now, rows, urls, revokedAt, lag, lost, acked>>
        /\ logged' = [logged EXCEPT ![<<g, c>>] = now]
  BY DEF vars
<1>4. g \in acked => e <= revokedAt[g] + TTL + lag'[g]
  BY <1>3 DEF SessionInv, RevokedInv, LastEnd
<1> HIDE DEF g, c, e, s
<1>5. RevokedInv' /\ AnswerInv' /\ \A h, x : OnRecord(h, x) => OnRecord(h, x)'
  BY <1>1, <1>2, <1>3, <1>4, LagStays, WatcherMoves
<1>6. watcher \in [Watcher -> State] /\ watcher' = [watcher EXCEPT ![w] = s]
  BY <1>3 DEF SessionInv, StreamTypes, State, Watches
<1>7. watcher' \in [Watcher -> State]
        /\ \A v \in Watcher : watcher'[v] = IF v = w THEN s ELSE watcher[v]
  BY <1>2, <1>6
<1>8. StreamTypes'
  <2>1. logged' \in [Guest \X Camera -> Times \cup {Never}]
    BY <1>3 DEF SessionInv, StreamTypes
  <2>2. \A h \in Guest, d \in Camera : logged'[<<h, d>>] # Never => logged'[<<h, d>>] <= now
    BY <1>3, StreamAssumption DEF SessionInv, StreamTypes, Times
  <2>3. \A v \in Watcher :
          /\ watcher'[v].pc # "idle" => watcher'[v].guest \in Guest
          /\ watcher'[v].since <= now
          /\ watcher'[v].exp <= now + TTL
    BY <1>1, <1>2, <1>7 DEF SessionInv, StreamTypes
  <2> QED
    BY <1>3, <1>7, <2>1, <2>2, <2>3 DEF SessionInv, StreamTypes, State
<1>9. RecordInv'
  <2> SUFFICES ASSUME NEW h \in Guest, NEW d \in Camera
               PROVE  /\ LoggedBefore(h, d)' => OnRecord(h, logged[<<h, d>>])'
                      /\ VerifyStream(urls[<<h, d>>], now)'
                           => OnRecord(h, urls[<<h, d>>] - 2 * TTL)'
    BY DEF RecordInv
  <2>1. CASE <<h, d>> = <<g, c>>
    BY <1>2, <1>3, <1>5, <1>7, <2>1 DEF SessionInv, RecordInv, VerifyStream, OnRecord
  <2>2. CASE <<h, d>> # <<g, c>>
    <3>1. logged'[<<h, d>>] = logged[<<h, d>>]
      BY <1>3, <2>2 DEF SessionInv, StreamTypes
    <3> QED
      BY <1>3, <1>5, <3>1 DEF SessionInv, RecordInv, LoggedBefore, VerifyStream, OnRecord
  <2> QED
    BY <2>1, <2>2
<1> QED
  BY <1>5, <1>8, <1>9 DEF SessionInv

\* The row is written, or lost; one that is written covers all that was noted.
LEMMA RecordsSessionInv ==
  ASSUME SessionInv, NEW w \in Watcher, SessionRecords(w)
  PROVE  SessionInv'
<1> DEFINE g == watcher[w].guest
           s == [watcher[w] EXCEPT !.pc = "answer"]
<1> USE DEF SessionRecords
<1>1. watcher[w] \in State /\ g \in Guest /\ watcher[w].exp \in Nat /\ watcher[w].exp <= now + TTL
        /\ watcher[w].since <= now
  BY DEF SessionInv, StreamTypes, State
<1>2. s \in State /\ s.pc = "answer" /\ s.guest = g /\ s.since = watcher[w].since
        /\ s.exp = watcher[w].exp
  BY <1>1 DEF State
<1>3. now \in Times /\ now \in Nat /\ TTL \in Nat /\ now # Never /\ Never \in Nat
  BY StreamAssumption DEF SessionInv, StreamTypes, Times, Never
<1>4. watcher[w].pc = "record" /\ watcher' = [watcher EXCEPT ![w] = s]
        /\ UNCHANGED <<acked, now, logged, urls, revokedAt, lag>>
  BY DEF Watches, vars
<1>5. watcher \in [Watcher -> State]
  BY DEF SessionInv, StreamTypes, State
<1>6. watcher' \in [Watcher -> State]
        /\ \A v \in Watcher : watcher'[v] = IF v = w THEN s ELSE watcher[v]
  BY <1>2, <1>4, <1>5
<1>7. \/ rows' = [rows EXCEPT ![g] = now] /\ lost' = lost \ {g}
      \/ rows' = rows /\ lost' = lost \cup {g}
  OBVIOUS
<1> HIDE DEF g, s
<1>8. ASSUME NEW h \in Guest, NEW x \in Int, x <= now, OnRecord(h, x)
      PROVE  \/ h \in lost'
             \/ rows'[h] # Never /\ rows'[h] >= x
             \/ \E v \in Watcher : watcher'[v].pc = "record" /\ watcher'[v].guest = h
  <2>1. rows \in [Guest -> Times \cup {Never}]
    BY DEF SessionInv, StreamTypes
  <2>2. CASE h = g
    BY <1>1, <1>3, <1>7, <1>8, <2>1, <2>2
  <2>3. CASE h # g
    <3>1. rows'[h] = rows[h] /\ (h \in lost => h \in lost')
      BY <1>7, <2>1, <2>3
    <3>2. ASSUME NEW v \in Watcher, watcher[v].pc = "record", watcher[v].guest = h
          PROVE  watcher'[v].pc = "record" /\ watcher'[v].guest = h
      BY <1>6, <2>3, <3>2 DEF g
    <3> QED
      BY <1>8, <3>1, <3>2 DEF OnRecord
  <2> QED
    BY <2>2, <2>3
<1>9. StreamTypes'
  <2>1. rows' \in [Guest -> Times \cup {Never}]
          /\ \A h \in Guest : rows'[h] # Never => rows'[h] <= now
    <3>1. /\ rows \in [Guest -> Times \cup {Never}]
          /\ \A h \in Guest : rows[h] # Never => rows[h] <= now
      BY DEF SessionInv, StreamTypes
    <3>2. CASE rows' = rows
      BY <3>1, <3>2
    <3>3. CASE rows' = [rows EXCEPT ![g] = now]
      <4>1. rows' \in [Guest -> Times \cup {Never}]
        BY ONLY <1>3, <3>1, <3>3
      <4>2. \A h \in Guest : rows'[h] = IF h = g THEN now ELSE rows[h]
        BY ONLY <3>1, <3>3
      <4>3. now <= now
        BY <1>3
      <4> QED
        BY ONLY <3>1, <4>1, <4>2, <4>3
    <3> QED
      BY <1>7, <3>2, <3>3
  <2>2. \A v \in Watcher :
          /\ watcher'[v].pc # "idle" => watcher'[v].guest \in Guest
          /\ watcher'[v].since <= now
          /\ watcher'[v].exp <= now + TTL
    BY <1>1, <1>2, <1>6 DEF SessionInv, StreamTypes
  <2> QED
    BY <1>4, <1>6, <2>1, <2>2 DEF SessionInv, StreamTypes, State
<1>10. RevokedInv'
  BY <1>2, <1>4, <1>6 DEF SessionInv, RevokedInv, LastEnd, g
<1>11. RecordInv'
  <2>1. ASSUME NEW h \in Guest, NEW d \in Camera, LoggedBefore(h, d)'
        PROVE  OnRecord(h, logged[<<h, d>>])'
    <3>1. LoggedBefore(h, d) /\ logged[<<h, d>>] \in Nat /\ logged[<<h, d>>] <= now
      BY <1>4, <2>1, <1>3 DEF LoggedBefore, SessionInv, StreamTypes, Times
    <3>2. OnRecord(h, logged[<<h, d>>])
      BY <3>1 DEF SessionInv, RecordInv
    <3> QED
      BY <1>4, <1>8, <3>1, <3>2 DEF OnRecord
  <2>2. ASSUME NEW h \in Guest, NEW d \in Camera, VerifyStream(urls[<<h, d>>], now)'
        PROVE  OnRecord(h, urls[<<h, d>>] - 2 * TTL)'
    <3>1. VerifyStream(urls[<<h, d>>], now)
      BY <1>4, <2>2 DEF VerifyStream
    <3>2. urls[<<h, d>>] - 2 * TTL \in Int /\ urls[<<h, d>>] - 2 * TTL <= now
      BY <1>3, <3>1 DEF VerifyStream, SessionInv, StreamTypes
    <3>3. OnRecord(h, urls[<<h, d>>] - 2 * TTL)
      BY <3>1 DEF SessionInv, RecordInv
    <3> QED
      BY <1>4, <1>8, <3>2, <3>3 DEF OnRecord
  <2> QED
    BY <2>1, <2>2 DEF RecordInv
<1>12. AnswerInv'
  <2> SUFFICES ASSUME NEW v \in Watcher, watcher'[v].pc = "answer",
                      VerifyStream(watcher'[v].exp, now)
               PROVE  OnRecord(watcher[v].guest, watcher[v].exp - 2 * TTL)'
    BY <1>4 DEF AnswerInv, VerifyStream
  <2>1. CASE v = w
    <3>1. s.exp - 2 * TTL \in Int /\ s.exp - 2 * TTL <= now
      BY <1>1, <1>2, <1>3
    <3>2. OnRecord(g, s.exp - 2 * TTL)
      BY <1>4 DEF OnRecord, g
    <3> QED
      BY <1>1, <1>2, <1>6, <1>8, <1>4, <2>1, <3>1, <3>2 DEF OnRecord
  <2>2. CASE v # w
    <3>1. watcher'[v] = watcher[v] /\ watcher[v].guest \in Guest
      BY <1>6, <2>2 DEF SessionInv, StreamTypes
    <3>2. watcher[v].exp - 2 * TTL \in Int /\ watcher[v].exp - 2 * TTL <= now
      BY <1>3 DEF SessionInv, StreamTypes
    <3>3. OnRecord(watcher[v].guest, watcher[v].exp - 2 * TTL)
      BY <3>1 DEF SessionInv, AnswerInv
    <3> QED
      BY <1>8, <1>4, <3>1, <3>2, <3>3 DEF OnRecord
  <2> QED
    BY <2>1, <2>2
<1> QED
  BY <1>9, <1>10, <1>11, <1>12 DEF SessionInv

\* A URL is given; a guest's later one is kept.
LEMMA AnswersSessionInv ==
  ASSUME GuestInv, SessionInv, NEW w \in Watcher, SessionAnswers(w)
  PROVE  SessionInv'
<1> DEFINE g == watcher[w].guest   c == watcher[w].camera   e == watcher[w].exp
           u == IF urls[<<g, c>>] # Never /\ urls[<<g, c>>] > e THEN urls[<<g, c>>] ELSE e
<1> USE DEF SessionAnswers
<1>1. watcher[w] \in State /\ g \in Guest /\ c \in Camera /\ e \in Nat /\ e <= now + TTL
  BY DEF SessionInv, StreamTypes, State
<1>2. watcher[w].pc = "answer" /\ watcher' = [watcher EXCEPT ![w] = Away]
        /\ urls' = [urls EXCEPT ![<<g, c>>] = u]
        /\ UNCHANGED <<acked, now, logged, rows, revokedAt, lag, lost>>
  BY DEF Watches, vars
<1>3. urls \in [Guest \X Camera -> Nat] /\ u \in {urls[<<g, c>>], e} /\ u \in Nat
  BY <1>1 DEF SessionInv, StreamTypes
<1>4. Away \in State /\ Away.pc = "idle" /\ Away.since = 0 /\ Away.exp = 0
  BY StreamAssumption DEF Away, State
<1>5. watcher \in [Watcher -> State]
  BY DEF SessionInv, StreamTypes, State
<1>6. watcher' \in [Watcher -> State]
        /\ \A v \in Watcher : watcher'[v] = IF v = w THEN Away ELSE watcher[v]
  BY <1>2, <1>4, <1>5
<1>7. urls' \in [Guest \X Camera -> Nat] /\ urls'[<<g, c>>] = u
        /\ \A h \in Guest, d \in Camera :
             <<h, d>> # <<g, c>> => urls'[<<h, d>>] = urls[<<h, d>>]
  BY <1>1, <1>2, <1>3
<1>8. OnRecord(g, e - 2 * TTL) \/ ~VerifyStream(e, now)
  BY <1>2 DEF SessionInv, AnswerInv
<1>9. VerifyStream(u, now) => OnRecord(g, u - 2 * TTL)
  <2>1. CASE u = e
    BY <1>8, <2>1
  <2>2. CASE u = urls[<<g, c>>]
    BY <1>1, <2>2 DEF SessionInv, RecordInv
  <2> QED
    BY <1>3, <2>1, <2>2
<1>10. u # Never => u <= now + TTL
  BY <1>1, <1>3 DEF SessionInv, StreamTypes
<1>11. ASSUME NEW h, h = g, h \in acked, u # Never PROVE u <= LastEnd(h)
  BY <1>1, <1>2, <1>3, <1>11 DEF SessionInv, RevokedInv
<1>12. \A h, x : OnRecord(h, x) => OnRecord(h, x)'
  BY <1>2, <1>6 DEF OnRecord
<1> HIDE DEF g, c, e, u
<1>13. StreamTypes'
  <2>1. now \in Nat /\ TTL \in Nat /\ now' = now
    BY <1>2, StreamAssumption DEF SessionInv, StreamTypes, Times
  <2>2. ASSUME NEW v \in Watcher
        PROVE  /\ watcher'[v].pc # "idle" => watcher'[v].guest \in Guest
               /\ watcher'[v].since <= now'
               /\ watcher'[v].exp <= now' + TTL
    BY <1>4, <1>6, <2>1 DEF SessionInv, StreamTypes
  <2>3. ASSUME NEW h \in Guest, NEW d \in Camera
        PROVE  /\ logged'[<<h, d>>] # Never => logged'[<<h, d>>] <= now'
               /\ urls'[<<h, d>>] # Never => urls'[<<h, d>>] <= now' + TTL
    <3>1. urls'[<<h, d>>] # Never => urls'[<<h, d>>] <= now + TTL
      BY <1>7, <1>10 DEF SessionInv, StreamTypes
    <3>2. logged'[<<h, d>>] # Never => logged'[<<h, d>>] <= now
      BY <1>2 DEF SessionInv, StreamTypes
    <3> QED
      BY <2>1, <3>1, <3>2
  <2>4. ASSUME NEW h \in Guest
        PROVE  /\ rows'[h] # Never => rows'[h] <= now'
               /\ revokedAt'[h] # Never => revokedAt'[h] <= now'
    BY <1>2 DEF SessionInv, StreamTypes
  <2>5. /\ now' \in Times
        /\ logged' \in [Guest \X Camera -> Times \cup {Never}]
        /\ rows' \in [Guest -> Times \cup {Never}]
        /\ revokedAt' \in [Guest -> Times \cup {Never}]
        /\ lag' \in [Guest -> Nat]
    BY <1>2 DEF SessionInv, StreamTypes
  <2>6. watcher' \in [Watcher -> State] /\ urls' \in [Guest \X Camera -> Nat]
    BY <1>6, <1>7
  <2> QED
    BY ONLY <2>2, <2>3, <2>4, <2>5, <2>6, Zenon DEF StreamTypes, State
<1>14. RevokedInv'
  <2> SUFFICES ASSUME NEW h \in acked
               PROVE  /\ revokedAt[h] # Never
                      /\ \A d \in Camera : urls'[<<h, d>>] # Never => urls'[<<h, d>>] <= LastEnd(h)
                      /\ \A v \in Watcher : watcher'[v].guest = h =>
                           /\ watcher'[v].pc = "sign" => watcher'[v].since <= revokedAt[h]
                           /\ watcher'[v].pc \in {"log", "record", "answer"}
                                => watcher'[v].exp <= LastEnd(h)
    BY <1>2 DEF RevokedInv, LastEnd
  <2>1. \A v \in Watcher : watcher'[v].pc # "idle" => watcher'[v] = watcher[v]
    BY <1>4, <1>6
  <2>2. ASSUME NEW d \in Camera, urls'[<<h, d>>] # Never
        PROVE  urls'[<<h, d>>] <= LastEnd(h)
    <3>1. CASE <<h, d>> = <<g, c>>
      BY <1>7, <1>11, <2>2, <3>1
    <3>2. CASE <<h, d>> # <<g, c>>
      <4>1. h \in Guest
        BY DEF GuestInv, TypeOK
      <4> QED
        BY <1>7, <2>2, <3>2, <4>1 DEF SessionInv, RevokedInv
    <3> QED
      BY <3>1, <3>2
  <2> QED
    BY <2>1, <2>2 DEF SessionInv, RevokedInv
<1>15. RecordInv'
  <2>1. ASSUME NEW h \in Guest, NEW d \in Camera, LoggedBefore(h, d)'
        PROVE  OnRecord(h, logged[<<h, d>>])'
    <3>1. OnRecord(h, logged[<<h, d>>])
      BY <1>2, <2>1 DEF SessionInv, RecordInv, LoggedBefore
    <3> QED
      BY <1>2, <1>12, <3>1 DEF OnRecord
  <2>2. ASSUME NEW h \in Guest, NEW d \in Camera, VerifyStream(urls[<<h, d>>], now)'
        PROVE  OnRecord(h, urls[<<h, d>>] - 2 * TTL)'
    <3>1. CASE <<h, d>> = <<g, c>>
      BY <1>2, <1>7, <1>9, <1>12, <2>2, <3>1 DEF VerifyStream, OnRecord
    <3>2. CASE <<h, d>> # <<g, c>>
      BY <1>2, <1>7, <1>12, <2>2, <3>2 DEF SessionInv, RecordInv, VerifyStream, OnRecord
    <3> QED
      BY <3>1, <3>2
  <2> QED
    BY <2>1, <2>2 DEF RecordInv
<1>16. AnswerInv'
  <2> SUFFICES ASSUME NEW v \in Watcher, watcher'[v].pc = "answer",
                      VerifyStream(watcher'[v].exp, now)
               PROVE  OnRecord(watcher[v].guest, watcher[v].exp - 2 * TTL)'
    BY <1>2 DEF AnswerInv, VerifyStream
  <2>1. watcher'[v] = watcher[v]
    BY <1>4, <1>6
  <2>2. OnRecord(watcher[v].guest, watcher[v].exp - 2 * TTL)
    BY <2>1 DEF SessionInv, AnswerInv
  <2> QED
    BY <1>12, <2>1, <2>2 DEF OnRecord
<1> QED
  BY <1>13, <1>14, <1>15, <1>16 DEF SessionInv

\* A prune takes only rows older than those that matter.
LEMMA PruneKeeps ==
  ASSUME StreamTypes, now > Retention, Prune(now - Retention)
  PROVE  /\ rows' \in [Guest -> Times \cup {Never}]
         /\ \A h \in Guest : rows'[h] # Never => rows'[h] <= now
         /\ \A h \in Guest, x \in Int :
              x >= now - 2 * TTL /\ rows[h] # Never /\ rows[h] >= x
                => rows'[h] # Never /\ rows'[h] >= x
<1>1. now \in Nat /\ TTL \in Nat /\ Retention \in Nat /\ Never \in Nat /\ Times \subseteq Nat
  BY StreamAssumption DEF StreamTypes, Times, Never
<1>2. rows \in [Guest -> Times \cup {Never}]
        /\ \A h \in Guest : rows[h] # Never => rows[h] <= now
  BY DEF StreamTypes
<1>3. rows' = [h \in Guest |-> IF rows[h] < now - Retention THEN Never ELSE rows[h]]
  BY DEF Prune
<1>4. ASSUME NEW h \in Guest, NEW x \in Int, x >= now - 2 * TTL, rows[h] # Never, rows[h] >= x
      PROVE  rows'[h] # Never /\ rows'[h] >= x
  <2>1. x > now - Retention
    BY <1>1, <1>4, StreamAssumption
  <2>2. rows[h] \in Nat
    BY <1>1, <1>2
  <2> QED
    BY <1>1, <1>3, <1>4, <2>1, <2>2
<1> QED
  BY <1>2, <1>3, <1>4

\* Whatever looks at a row looks at one of the last two TTLs.
LEMMA LooksBack ==
  ASSUME StreamTypes
  PROVE  /\ \A g \in Guest, c \in Camera :
              /\ LoggedBefore(g, c) =>
                   logged[<<g, c>>] \in Int /\ logged[<<g, c>>] >= now - 2 * TTL
              /\ VerifyStream(urls[<<g, c>>], now) =>
                   urls[<<g, c>>] - 2 * TTL \in Int /\ urls[<<g, c>>] - 2 * TTL >= now - 2 * TTL
         /\ \A w \in Watcher : VerifyStream(watcher[w].exp, now) =>
              watcher[w].exp - 2 * TTL \in Int /\ watcher[w].exp - 2 * TTL >= now - 2 * TTL
<1>1. now \in Nat /\ TTL \in Nat /\ Never \in Nat /\ Times \subseteq Nat
  BY StreamAssumption DEF StreamTypes, Times, Never
<1>2. \A g \in Guest, c \in Camera : logged[<<g, c>>] \in Nat /\ urls[<<g, c>>] \in Nat
  BY <1>1 DEF StreamTypes
<1>3. \A w \in Watcher : watcher[w].exp \in Nat
  BY DEF StreamTypes
<1>4. \A g \in Guest, c \in Camera : LoggedBefore(g, c) => logged[<<g, c>>] >= now - 2 * TTL
  BY <1>1, <1>2 DEF LoggedBefore
<1>5. \A g \in Guest, c \in Camera :
        VerifyStream(urls[<<g, c>>], now) => urls[<<g, c>>] - 2 * TTL >= now - 2 * TTL
  BY <1>1, <1>2 DEF VerifyStream
<1>6. \A w \in Watcher :
        VerifyStream(watcher[w].exp, now) => watcher[w].exp - 2 * TTL >= now - 2 * TTL
  BY <1>1, <1>3 DEF VerifyStream
<1> QED
  BY <1>1, <1>2, <1>3, <1>4, <1>5, <1>6

\* The daily prune.
LEMMA PrunesSessionInv ==
  ASSUME SessionInv, PrunesDaily
  PROVE  SessionInv'
<1>1. UNCHANGED <<acked, now, watcher, logged, urls, revokedAt, lag, lost>>
  BY DEF PrunesDaily, vars
<1>2. /\ rows' \in [Guest -> Times \cup {Never}]
      /\ \A h \in Guest : rows'[h] # Never => rows'[h] <= now
      /\ \A h \in Guest, x \in Int :
           x >= now - 2 * TTL /\ rows[h] # Never /\ rows[h] >= x
             => rows'[h] # Never /\ rows'[h] >= x
  BY PruneKeeps DEF PrunesDaily, SessionInv
<1>3. \A h \in Guest, x \in Int : x >= now - 2 * TTL /\ OnRecord(h, x) => OnRecord(h, x)'
  BY <1>1, <1>2 DEF OnRecord
<1>4. StreamTypes' /\ RevokedInv'
  BY <1>1, <1>2 DEF SessionInv, StreamTypes, RevokedInv, LastEnd
<1>5. RecordInv'
  <2>1. ASSUME NEW h \in Guest, NEW d \in Camera, LoggedBefore(h, d)'
        PROVE  OnRecord(h, logged[<<h, d>>])'
    <3>1. LoggedBefore(h, d)
      BY <1>1, <2>1 DEF LoggedBefore
    <3>2. OnRecord(h, logged[<<h, d>>])
      BY <3>1 DEF SessionInv, RecordInv
    <3>3. logged[<<h, d>>] \in Int /\ logged[<<h, d>>] >= now - 2 * TTL
      BY <3>1, LooksBack DEF SessionInv
    <3> QED
      BY <1>1, <1>3, <3>2, <3>3 DEF OnRecord
  <2>2. ASSUME NEW h \in Guest, NEW d \in Camera, VerifyStream(urls[<<h, d>>], now)'
        PROVE  OnRecord(h, urls[<<h, d>>] - 2 * TTL)'
    <3>1. VerifyStream(urls[<<h, d>>], now)
      BY <1>1, <2>2 DEF VerifyStream
    <3>2. OnRecord(h, urls[<<h, d>>] - 2 * TTL)
      BY <3>1 DEF SessionInv, RecordInv
    <3>3. urls[<<h, d>>] - 2 * TTL \in Int /\ urls[<<h, d>>] - 2 * TTL >= now - 2 * TTL
      BY <3>1, LooksBack DEF SessionInv
    <3> QED
      BY <1>1, <1>3, <3>2, <3>3 DEF OnRecord
  <2> QED
    BY <2>1, <2>2 DEF RecordInv
<1>6. AnswerInv'
  <2> SUFFICES ASSUME NEW v \in Watcher, watcher[v].pc = "answer",
                      VerifyStream(watcher[v].exp, now)
               PROVE  OnRecord(watcher[v].guest, watcher[v].exp - 2 * TTL)'
    BY <1>1 DEF AnswerInv, VerifyStream
  <2>1. OnRecord(watcher[v].guest, watcher[v].exp - 2 * TTL) /\ watcher[v].guest \in Guest
    BY DEF SessionInv, AnswerInv, StreamTypes
  <2>2. watcher[v].exp - 2 * TTL \in Int /\ watcher[v].exp - 2 * TTL >= now - 2 * TTL
    BY LooksBack DEF SessionInv
  <2> QED
    BY <1>1, <1>3, <2>1, <2>2 DEF OnRecord
<1> QED
  BY <1>4, <1>5, <1>6 DEF SessionInv

\* A restart loses what is under way; a row under way is counted as lost.
LEMMA RestartSessionInv ==
  ASSUME GuestInv, SessionInv, StreamsRestart
  PROVE  SessionInv'
<1>1. /\ UNCHANGED <<acked, now, urls, revokedAt, lag>>
      /\ watcher' = [w \in Watcher |-> Away]
      /\ logged' = [x \in Guest \X Camera |-> Never]
      /\ lost' = lost \cup {watcher[w].guest : w \in {w \in Watcher : watcher[w].pc = "record"}}
  BY DEF StreamsRestart, Restart
<1>2. /\ rows' \in [Guest -> Times \cup {Never}]
      /\ \A h \in Guest : rows'[h] # Never => rows'[h] <= now
      /\ \A h \in Guest, x \in Int :
           x >= now - 2 * TTL /\ rows[h] # Never /\ rows[h] >= x
             => rows'[h] # Never /\ rows'[h] >= x
  <2>1. CASE now > Retention /\ Prune(now - Retention)
    BY <2>1, PruneKeeps DEF SessionInv
  <2>2. CASE rows' = rows
    BY <2>2 DEF SessionInv, StreamTypes
  <2> QED
    BY <2>1, <2>2 DEF StreamsRestart
<1>3. ASSUME NEW h \in Guest, NEW x \in Int, x >= now - 2 * TTL, OnRecord(h, x)
      PROVE  OnRecord(h, x)'
  <2>1. CASE h \in lost
    BY <1>1, <2>1 DEF OnRecord
  <2>2. CASE rows[h] # Never /\ rows[h] >= x
    BY <1>2, <1>3, <2>2 DEF OnRecord
  <2>3. CASE \E w \in Watcher : watcher[w].pc = "record" /\ watcher[w].guest = h
    <3>1. h \in lost'
      BY <1>1, <2>3
    <3> QED
      BY <3>1 DEF OnRecord
  <2> QED
    BY <1>3, <2>1, <2>2, <2>3 DEF OnRecord
<1>4. Away \in State /\ Away.pc = "idle" /\ Away.since = 0 /\ Away.exp = 0
  BY StreamAssumption DEF Away, State
<1>5. \A w \in Watcher :
        watcher'[w].pc = "idle" /\ watcher'[w].since = 0 /\ watcher'[w].exp = 0
  BY <1>1, <1>4
<1>6. StreamTypes'
  <2>1. now \in Nat /\ TTL \in Nat
    BY StreamAssumption DEF SessionInv, StreamTypes, Times
  <2>2. \A v \in Watcher :
          /\ watcher'[v].pc # "idle" => watcher'[v].guest \in Guest
          /\ watcher'[v].since <= now
          /\ watcher'[v].exp <= now + TTL
    BY <1>5, <2>1
  <2>3. watcher' \in [Watcher -> State]
    BY <1>1, <1>4
  <2>4. /\ logged' \in [Guest \X Camera -> Times \cup {Never}]
        /\ \A h \in Guest, d \in Camera : logged'[<<h, d>>] = Never
    BY <1>1
  <2> QED
    BY <1>1, <1>2, <2>2, <2>3, <2>4 DEF SessionInv, StreamTypes, State
<1>7. RevokedInv'
  BY <1>1, <1>5 DEF SessionInv, RevokedInv, LastEnd
<1>8. RecordInv'
  <2>1. \A h \in Guest, d \in Camera : ~LoggedBefore(h, d)'
    BY <1>1 DEF LoggedBefore
  <2>2. ASSUME NEW h \in Guest, NEW d \in Camera, VerifyStream(urls[<<h, d>>], now)'
        PROVE  OnRecord(h, urls[<<h, d>>] - 2 * TTL)'
    <3>1. VerifyStream(urls[<<h, d>>], now)
      BY <1>1, <2>2 DEF VerifyStream
    <3>2. OnRecord(h, urls[<<h, d>>] - 2 * TTL)
      BY <3>1 DEF SessionInv, RecordInv
    <3>3. urls[<<h, d>>] - 2 * TTL \in Int /\ urls[<<h, d>>] - 2 * TTL >= now - 2 * TTL
      BY <3>1, LooksBack DEF SessionInv
    <3> QED
      BY <1>1, <1>3, <3>2, <3>3 DEF OnRecord
  <2> QED
    BY <2>1, <2>2 DEF RecordInv
<1>9. AnswerInv'
  BY <1>5 DEF AnswerInv
<1> QED
  BY <1>6, <1>7, <1>8, <1>9 DEF SessionInv

\* No step of the store takes an acknowledged revocation back.
LEMMA AckedGrows == ASSUME Running PROVE acked \subseteq acked'
<1>1. ASSUME NEW r \in Request, Handler(r) PROVE acked \subseteq acked'
  <2>1. CASE EnrollAnswers(r) \/ OpenReturns(r) \/ ForgetRevokes(r)
    BY <2>1 DEF EnrollAnswers, OpenReturns, ForgetRevokes, Revoke
  <2>2. ASSUME NEW g \in Guest, NEW t \in Token,
               \/ Enroll(r, g, t) \/ EnrollDemo(r, g, t)
               \/ AuthenticateOnly(r, g, t) \/ OpenBegins(r, g, t) \/ ForgetBegins(r, g, t)
        PROVE  acked \subseteq acked'
    BY <2>2 DEF Enroll, EnrollDemo, AuthenticateOnly, OpenBegins, ForgetBegins
  <2> QED
    BY <1>1, <2>1, <2>2 DEF Handler
<1>2. ASSUME NEW g \in Guest, Create(g) \/ CodeExpires(g) \/ AdminRevokes(g)
      PROVE  acked \subseteq acked'
  BY <1>2 DEF Create, CodeExpires, AdminRevokes, Revoke
<1> QED
  BY <1>1, <1>2 DEF Running

\* The store's own steps: a revocation acknowledged now bounds all there is.
LEMMA StoreSessionInv ==
  ASSUME GuestInv, GuestInv', SessionInv, StoreSteps
  PROVE  SessionInv'
<1>1. /\ UNCHANGED <<now, watcher, logged, rows, urls, lag, lost>>
      /\ revokedAt' = [g \in Guest |-> IF g \in acked' \ acked THEN now ELSE revokedAt[g]]
      /\ acked \subseteq acked' /\ acked' \subseteq Guest
  BY AckedGrows DEF StoreSteps, GuestInv, TypeOK
<1>2. now \in Times /\ now # Never /\ now \in Nat
  BY StreamAssumption DEF SessionInv, StreamTypes, Times, Never
<1>3. StreamTypes'
  BY <1>1, <1>2 DEF SessionInv, StreamTypes
<1>4. RevokedInv'
  <2> SUFFICES ASSUME NEW h \in acked'
               PROVE  /\ revokedAt'[h] # Never
                      /\ \A d \in Camera : urls[<<h, d>>] # Never => urls[<<h, d>>] <= LastEnd(h)'
                      /\ \A v \in Watcher : watcher[v].guest = h =>
                           /\ watcher[v].pc = "sign" => watcher[v].since <= revokedAt'[h]
                           /\ watcher[v].pc \in {"log", "record", "answer"}
                                => watcher[v].exp <= LastEnd(h)'
    BY <1>1 DEF RevokedInv
  <2>1. CASE h \in acked
    <3>1. revokedAt'[h] = revokedAt[h] /\ LastEnd(h)' = LastEnd(h)
      BY <1>1, <2>1 DEF LastEnd
    <3> QED
      BY <2>1, <3>1 DEF SessionInv, RevokedInv
  <2>2. CASE h \notin acked
    <3>1. revokedAt'[h] = now /\ h \in Guest
      BY <1>1, <2>2
    <3>2. lag[h] \in Nat /\ LastEnd(h)' = now + TTL + lag[h] /\ LastEnd(h)' >= now + TTL
      BY <1>1, <1>2, <3>1, StreamAssumption DEF SessionInv, StreamTypes, LastEnd
    <3>3. ASSUME NEW d \in Camera, urls[<<h, d>>] # Never
          PROVE  urls[<<h, d>>] <= LastEnd(h)'
      <4>1. urls[<<h, d>>] \in Nat /\ urls[<<h, d>>] <= now + TTL
        BY <3>1, <3>3 DEF SessionInv, StreamTypes
      <4> QED
        BY <1>2, <3>2, <4>1, StreamAssumption
    <3>4. ASSUME NEW v \in Watcher
          PROVE  watcher[v].since <= now /\ watcher[v].exp <= LastEnd(h)'
      <4>1. watcher[v].exp \in Nat /\ watcher[v].exp <= now + TTL /\ watcher[v].since <= now
        BY DEF SessionInv, StreamTypes
      <4> QED
        BY <1>2, <3>2, <4>1, StreamAssumption
    <3> QED
      BY <1>2, <3>1, <3>3, <3>4
  <2> QED
    BY <2>1, <2>2
<1>5. RecordInv' /\ AnswerInv'
  BY <1>1 DEF SessionInv, RecordInv, AnswerInv, OnRecord, LoggedBefore, VerifyStream
<1> QED
  BY <1>3, <1>4, <1>5 DEF SessionInv

\* Time passes: less is recent, and fewer URLs are let through.
LEMMA TickSessionInv == ASSUME GuestInv, SessionInv, Tick PROVE SessionInv'
<1>1. /\ UNCHANGED <<acked, watcher, logged, rows, revokedAt, lag, lost>>
      /\ now' = now + 1 /\ now < MaxTime
      /\ urls' = [x \in Guest \X Camera |-> IF VerifyStream(urls[x], now') THEN urls[x] ELSE Never]
  BY DEF Tick, vars
<1>2. now \in Nat /\ now' \in Times /\ TTL \in Nat /\ Never \in Nat /\ Times \subseteq Nat
  BY <1>1, StreamAssumption DEF SessionInv, StreamTypes, Times, Never
<1>3. urls' \in [Guest \X Camera -> Nat]
        /\ \A h \in Guest, d \in Camera :
             urls'[<<h, d>>] # Never => urls'[<<h, d>>] = urls[<<h, d>>]
  BY <1>1, <1>2 DEF SessionInv, StreamTypes
<1>4. StreamTypes'
  <2>1. ASSUME NEW v \in Watcher
        PROVE  /\ watcher[v].pc # "idle" => watcher[v].guest \in Guest
               /\ watcher[v].since <= now'
               /\ watcher[v].exp <= now' + TTL
    <3>1. /\ watcher[v].exp \in Nat /\ watcher[v].exp <= now + TTL
          /\ watcher[v].since \in Nat /\ watcher[v].since <= now
      BY DEF SessionInv, StreamTypes
    <3>2. watcher[v].pc # "idle" => watcher[v].guest \in Guest
      BY DEF SessionInv, StreamTypes
    <3> QED
      BY <1>1, <1>2, <3>1, <3>2
  <2>2. ASSUME NEW g \in Guest
        PROVE  /\ rows[g] # Never => rows[g] <= now'
               /\ revokedAt[g] # Never => revokedAt[g] <= now'
    <3>1. rows[g] \in Nat /\ revokedAt[g] \in Nat
      BY <1>2 DEF SessionInv, StreamTypes
    <3>2. /\ rows[g] # Never => rows[g] <= now
          /\ revokedAt[g] # Never => revokedAt[g] <= now
      BY DEF SessionInv, StreamTypes
    <3> QED
      BY <1>1, <1>2, <3>1, <3>2
  <2>3. ASSUME NEW g \in Guest, NEW c \in Camera
        PROVE  /\ logged[<<g, c>>] # Never => logged[<<g, c>>] <= now'
               /\ urls'[<<g, c>>] # Never => urls'[<<g, c>>] <= now' + TTL
    <3>1. logged[<<g, c>>] \in Nat /\ urls[<<g, c>>] \in Nat
      BY <1>2 DEF SessionInv, StreamTypes
    <3>2. /\ logged[<<g, c>>] # Never => logged[<<g, c>>] <= now
          /\ urls[<<g, c>>] # Never => urls[<<g, c>>] <= now + TTL
      BY DEF SessionInv, StreamTypes
    <3> QED
      BY <1>1, <1>2, <1>3, <3>1, <3>2
  <2> QED
    BY <1>1, <1>2, <1>3, <2>1, <2>2, <2>3 DEF SessionInv, StreamTypes
<1>5. RevokedInv'
  <2> SUFFICES ASSUME NEW h \in acked
               PROVE  /\ revokedAt[h] # Never
                      /\ \A d \in Camera : urls'[<<h, d>>] # Never => urls'[<<h, d>>] <= LastEnd(h)
                      /\ \A v \in Watcher : watcher[v].guest = h =>
                           /\ watcher[v].pc = "sign" => watcher[v].since <= revokedAt[h]
                           /\ watcher[v].pc \in {"log", "record", "answer"}
                                => watcher[v].exp <= LastEnd(h)
    BY <1>1 DEF RevokedInv, LastEnd
  <2>1. h \in Guest
    BY DEF GuestInv, TypeOK
  <2> QED
    BY <1>3, <2>1 DEF SessionInv, RevokedInv
<1>6. RecordInv'
  <2>1. ASSUME NEW h \in Guest, NEW d \in Camera, LoggedBefore(h, d)'
        PROVE  OnRecord(h, logged[<<h, d>>])'
    <3>1. LoggedBefore(h, d)
      <4>1. logged[<<h, d>>] \in Nat
        BY <1>2 DEF SessionInv, StreamTypes
      <4> QED
        BY <1>1, <1>2, <2>1, <4>1 DEF LoggedBefore
    <3>2. OnRecord(h, logged[<<h, d>>])
      BY <3>1 DEF SessionInv, RecordInv
    <3> QED
      BY <1>1, <3>2 DEF OnRecord
  <2>2. ASSUME NEW h \in Guest, NEW d \in Camera, VerifyStream(urls[<<h, d>>], now)'
        PROVE  OnRecord(h, urls[<<h, d>>] - 2 * TTL)'
    <3>1. urls'[<<h, d>>] = urls[<<h, d>>] /\ VerifyStream(urls[<<h, d>>], now)
      BY <1>1, <1>2, <1>3, <2>2 DEF VerifyStream, SessionInv, StreamTypes
    <3>2. OnRecord(h, urls[<<h, d>>] - 2 * TTL)
      BY <3>1 DEF SessionInv, RecordInv
    <3> QED
      BY <1>1, <3>1, <3>2 DEF OnRecord
  <2> QED
    BY <2>1, <2>2 DEF RecordInv
<1>7. AnswerInv'
  <2> SUFFICES ASSUME NEW v \in Watcher, watcher[v].pc = "answer",
                      VerifyStream(watcher[v].exp, now')
               PROVE  OnRecord(watcher[v].guest, watcher[v].exp - 2 * TTL)'
    BY <1>1 DEF AnswerInv, VerifyStream
  <2>1. watcher[v].exp \in Nat
    BY DEF SessionInv, StreamTypes
  <2>2. VerifyStream(watcher[v].exp, now)
    BY <1>1, <1>2, <2>1 DEF VerifyStream
  <2>3. OnRecord(watcher[v].guest, watcher[v].exp - 2 * TTL)
    BY <2>2 DEF SessionInv, AnswerInv
  <2> QED
    BY <1>1, <2>3 DEF OnRecord
<1> QED
  BY <1>4, <1>5, <1>6, <1>7 DEF SessionInv

\* Beside the store's own steps only a session that begins touches it.
LEMMA StepsOfStore ==
  StreamNext => [Next]_vars \/ \E w \in Watcher, c \in Camera : SessionBegins(w, c)
BY DEF StreamNext, StoreSteps, StreamsRestart, PrunesDaily, Tick, SessionIsLogged,
       SessionExpiry, SessionIsNoted, SessionRecords, SessionAnswers, Next

\* Whatever the streams do to the store, GuestInv stands.
LEMMA StreamGuestInv ==
  ASSUME GuestInv, [StreamNext]_allVars
  PROVE  GuestInv'
<1>1. [Next]_vars => GuestInv'
  BY NextGuestInv
<1>2. ASSUME NEW w \in Watcher, NEW c \in Camera, SessionBegins(w, c)
      PROVE  GuestInv'
  <2> PICK g \in Guest, t \in Token : Authenticate(g, t)
    BY <1>2 DEF SessionBegins
  <2>1. UNCHANGED <<expired, request, minted, held, acked>>
    BY <1>2 DEF SessionBegins
  <2>2. TypeOK'
    BY <2>1 DEF Authenticate, Saved, GuestInv, TypeOK
  <2> QED
    BY <2>1, <2>2, AuthenticateGuestInv
<1>3. StreamNext =>
        [Next]_vars \/ \E w \in Watcher, c \in Camera : SessionBegins(w, c)
  BY StepsOfStore
<1>4. CASE StreamNext
  BY <1>1, <1>2, <1>3, <1>4
<1>5. CASE UNCHANGED allVars
  <2>1. UNCHANGED vars
    BY <1>5 DEF allVars
  <2> QED
    BY <1>1, <2>1
<1> QED
  BY <1>4, <1>5

\* GuestInv and SessionInv are inductive together.
LEMMA NextSessionInv ==
  ASSUME GuestInv, SessionInv, [StreamNext]_allVars
  PROVE  GuestInv' /\ SessionInv'
<1>1. GuestInv'
  BY StreamGuestInv
<1>2. CASE UNCHANGED allVars
  <2>1. UNCHANGED <<acked, now, watcher, logged, rows, urls, revokedAt, lag, lost>>
    BY <1>2 DEF allVars, vars, streamVars
  <2>2. StreamTypes'
    BY <2>1 DEF SessionInv, StreamTypes
  <2>3. RevokedInv'
    BY <2>1 DEF SessionInv, RevokedInv, LastEnd
  <2>4. RecordInv'
    BY <2>1 DEF SessionInv, RecordInv, OnRecord, LoggedBefore, VerifyStream
  <2>5. AnswerInv'
    BY <2>1 DEF SessionInv, AnswerInv, OnRecord, VerifyStream
  <2> QED
    BY <1>1, <2>2, <2>3, <2>4, <2>5 DEF SessionInv
<1>3. CASE StreamNext
  BY <1>1, <1>3, BeginsSessionInv, ExpirySessionInv, IsLoggedSessionInv, IsNotedSessionInv, RecordsSessionInv,
     AnswersSessionInv, PrunesSessionInv, RestartSessionInv, StoreSessionInv, TickSessionInv
     DEF StreamNext
<1> QED
  BY <1>1, <1>2, <1>3, StreamGuestInv

\* The invariant of guests and their streams holds in every state the program reaches.
THEOREM StreamInductive == StreamSpec => [](GuestInv /\ SessionInv)
<1>1. StreamInit => GuestInv /\ SessionInv
  <2>1. StreamInit => SessionInv
    BY InitSessionInv
  <2>2. StreamInit => GuestInv
    BY InitGuestInv DEF StreamInit
  <2> QED
    BY <2>1, <2>2
<1> QED
  BY <1>1, NextSessionInv, PTL DEF StreamSpec

\* Whoever watches does not undo what the store promises: codes are one-time and
\* phones stay enrolled with the sessions running beside.
THEOREM GuestsStandWithStreams == StreamSpec => [](OneTokenPerInvite /\ HeldTokensStand)
<1>1. GuestInv /\ SessionInv => OneTokenPerInvite /\ HeldTokensStand
  BY DEF GuestInv, IssuedInv, HeldTokensStand, OneTokenPerInvite
<1> QED
  BY <1>1, StreamInductive, PTL

\* Nor does a session undo a revocation: with any watchers beside, no door is
\* opened for a guest whose revocation was reported as done.
THEOREM RevocationsLastWithStreams == StreamSpec => RevokeIsFinal
<1>1. ASSUME GuestInv, [StreamNext]_allVars
      PROVE  [Final]_vars
  <2>1. [Next]_vars => [Final]_vars
    BY <1>1, NextFinal
  <2>2. ASSUME NEW w \in Watcher, NEW c \in Camera, SessionBegins(w, c)
        PROVE  Final
    BY <2>2 DEF SessionBegins, Final
  <2>3. StreamNext =>
          [Next]_vars \/ \E w \in Watcher, c \in Camera : SessionBegins(w, c)
    BY StepsOfStore
  <2>4. UNCHANGED allVars => UNCHANGED vars
    BY DEF allVars
  <2> QED
    BY <1>1, <2>1, <2>2, <2>3, <2>4
<1>2. [][Final]_vars => RevokeIsFinal
  BY PTL DEF RevokeIsFinal, Final
<1> QED
  BY <1>1, <1>2, StreamInductive, PTL DEF StreamSpec

\* A TTL after a revocation was acknowledged none of the guest's URLs is let through,
\* whatever session was under way and whatever it waited for once it had its expiry;
\* one that the revocation overtook before adds what it took so far (session, hls).
THEOREM StreamsEnd == StreamSpec => []StreamsEndAfterRevoke
<1>1. GuestInv /\ SessionInv => StreamsEndAfterRevoke
  <2> SUFFICES ASSUME GuestInv, SessionInv, NEW g \in acked, NEW c \in Camera,
                      VerifyStream(urls[<<g, c>>], now)
               PROVE  now <= LastEnd(g)
    BY DEF StreamsEndAfterRevoke, LastEnd
  <2>1. g \in Guest
    BY DEF GuestInv, TypeOK
  <2>2. now \in Nat /\ TTL \in Nat /\ Never \in Nat /\ Times \subseteq Nat
    BY StreamAssumption DEF SessionInv, StreamTypes, Times, Never
  <2>3. urls[<<g, c>>] \in Nat /\ LastEnd(g) \in Nat
    <3>1. urls[<<g, c>>] \in Nat /\ revokedAt[g] \in Nat /\ lag[g] \in Nat
      BY <2>1, <2>2 DEF SessionInv, StreamTypes
    <3> QED
      BY <2>2, <3>1 DEF LastEnd
  <2>4. now <= urls[<<g, c>>] /\ urls[<<g, c>>] # Never
    BY DEF VerifyStream
  <2>5. urls[<<g, c>>] <= LastEnd(g)
    BY <2>4 DEF SessionInv, RevokedInv
  <2> QED
    BY <2>2, <2>3, <2>4, <2>5
<1> QED
  BY <1>1, StreamInductive, PTL

\* A URL that is let through has a row of its guest in the last two TTLs, one about to
\* be written, or one that was lost (shouldLogSession, record, Prune).
THEOREM WatchersStayOnRecord == StreamSpec => []WatchersAreOnRecord
<1>1. GuestInv /\ SessionInv => WatchersAreOnRecord
  <2> SUFFICES ASSUME SessionInv, NEW g \in Guest \ lost, NEW c \in Camera,
                      VerifyStream(urls[<<g, c>>], now)
               PROVE  \/ rows[g] # Never /\ now - rows[g] <= 2 * TTL
                      \/ \E w \in Watcher : watcher[w].pc = "record" /\ watcher[w].guest = g
    BY DEF WatchersAreOnRecord
  <2>1. now \in Nat /\ TTL \in Nat /\ Never \in Nat /\ Times \subseteq Nat
    BY StreamAssumption DEF SessionInv, StreamTypes, Times, Never
  <2>2. urls[<<g, c>>] \in Nat /\ rows[g] \in Nat
    BY <2>1 DEF SessionInv, StreamTypes
  <2>3. now <= urls[<<g, c>>]
    BY DEF VerifyStream
  <2>4. OnRecord(g, urls[<<g, c>>] - 2 * TTL)
    BY DEF SessionInv, RecordInv
  <2> QED
    BY <2>1, <2>2, <2>3, <2>4 DEF OnRecord
<1> QED
  BY <1>1, StreamInductive, PTL
-----------------------------------------------------------------------------
(* Guest access implements GuestBook: whatever the store, its file and its  *)
(* handlers do is giving, voiding or using a pass, or cannot be seen.       *)

\* No token is two guests', so that who shows one is taken for its owner.
Unmistaken(store) ==
  \A g, h \in Guest : store[g].token = store[h].token /\ store[g].token # NoToken => g = h

\* What the mapping needs beyond GuestInv: tokens are told apart in memory and
\* on disk, new ones are new, and a pass is a demo pass in both or in neither.
BookInv ==
  /\ \A g \in Guest : {mem[g].token, disk[g].token} \subseteq minted \cup {NoToken}
  /\ Unmistaken(mem) /\ Unmistaken(disk)
  /\ \A g \in Guest : mem[g].demo = disk[g].demo

LEMMA InitBookInv == Init => BookInv
BY DEF Init, BookInv, Unmistaken, Absent

\* One guest's record changes: its token stays, goes, or is a new one; what is
\* not written to the file leaves the kind of the pass alone.
LEMMA RecordBookInv ==
  ASSUME BookInv, NEW g \in Guest, NEW t,
         \A h \in Guest \ {g} : mem'[h].token = mem[h].token,
         \/ mem'[g].token \in {mem[g].token, NoToken} /\ minted' = minted
         \/ t \notin minted /\ mem'[g].token = t /\ minted' = minted \cup {t},
         \/ disk' = mem'
         \/ disk' = disk /\ \A h \in Guest : mem'[h].demo = mem[h].demo
  PROVE  BookInv'
<1>1. minted \subseteq minted'
  OBVIOUS
<1>2. \A h \in Guest : mem'[h].token \in minted' \cup {NoToken}
  BY DEF BookInv
<1>3. Unmistaken(mem')
  <2> SUFFICES ASSUME NEW h \in Guest, NEW k \in Guest,
                      mem'[h].token = mem'[k].token, mem'[h].token # NoToken
               PROVE  h = k
    BY DEF Unmistaken
  <2>1. CASE h # g /\ k # g
    BY <2>1 DEF BookInv, Unmistaken
  <2>2. CASE mem'[g].token \in {mem[g].token, NoToken}
    BY <2>2 DEF BookInv, Unmistaken
  <2>3. CASE t \notin minted /\ mem'[g].token = t
    <3>1. \A i \in Guest : mem[i].token \in minted \/ mem[i].token = NoToken
      BY DEF BookInv
    <3>2. \A i \in Guest \ {g} : mem'[i].token # t \/ t = NoToken
      BY <2>3, <3>1
    <3> QED
      BY <2>1, <2>3, <3>2
  <2> QED
    BY <2>1, <2>2, <2>3
<1>4. CASE disk' = mem'
  <2>1. Unmistaken(disk')
    BY <1>3, <1>4 DEF Unmistaken
  <2> QED
    BY <1>2, <1>3, <1>4, <2>1 DEF BookInv, Unmistaken
<1>5. CASE disk' = disk /\ \A h \in Guest : mem'[h].demo = mem[h].demo
  <2>1. \A h \in Guest : disk'[h].token \in minted' \cup {NoToken} /\ mem'[h].demo = disk'[h].demo
    BY <1>1, <1>5 DEF BookInv
  <2>2. Unmistaken(disk')
    BY <1>5 DEF BookInv, Unmistaken
  <2> QED
    BY <1>2, <1>3, <2>1, <2>2 DEF BookInv, Unmistaken
<1> QED
  BY <1>4, <1>5

\* A save that is due to somebody else's call, as in Authenticate.
LEMMA SaveBookInv ==
  ASSUME BookInv, mem' = mem, minted' = minted, disk' \in {disk, mem}
  PROVE  BookInv'
BY DEF BookInv, Unmistaken

\* Every step of the program keeps tokens apart.
LEMMA NextBookInv ==
  ASSUME GuestInv, BookInv, [Next]_vars
  PROVE  BookInv'
<1> USE DEF GuestInv, TypeOK
<1>1. ASSUME NEW g \in Guest, Create(g)
      PROVE  BookInv'
  <2>1. mem' = [mem EXCEPT ![g] = Invited] /\ disk' = mem' /\ minted' = minted
    BY <1>1 DEF Create, Saved
  <2>2. mem'[g].token = NoToken /\ \A h \in Guest \ {g} : mem'[h].token = mem[h].token
    BY <2>1 DEF Invited, Absent
  <2> QED
    BY <2>1, <2>2, RecordBookInv
<1>2. ASSUME NEW r \in Request, NEW g \in Guest, NEW t \in Token, Enroll(r, g, t)
      PROVE  BookInv'
  <2>1. mem' = [mem EXCEPT ![g].token = t, ![g].code = FALSE] /\ mem \in [Guest -> Record]
    BY <1>2 DEF Enroll
  <2>2. /\ t \notin minted /\ minted' = minted \cup {t}
        /\ disk' = mem' \/ disk' = disk
    BY <1>2 DEF Enroll, Saved
  <2>3. /\ mem'[g].token = t
        /\ \A h \in Guest \ {g} : mem'[h].token = mem[h].token
        /\ \A h \in Guest : mem'[h].demo = mem[h].demo
    BY ONLY <2>1 DEF Record
  <2> QED
    BY <2>2, <2>3, RecordBookInv
<1>3. ASSUME NEW r \in Request, NEW g \in Guest, NEW t \in Token, EnrollDemo(r, g, t)
      PROVE  BookInv'
  <2>1. /\ mem' = [mem EXCEPT ![g] = Demo(t)] /\ disk' = mem'
        /\ t \notin minted /\ minted' = minted \cup {t}
    BY <1>3 DEF EnrollDemo, Saved
  <2>2. mem'[g].token = t /\ \A h \in Guest \ {g} : mem'[h].token = mem[h].token
    BY <2>1 DEF Demo, Absent
  <2> QED
    BY <2>1, <2>2, RecordBookInv
<1>4. ASSUME NEW g \in Guest, Revoke(g), minted' = minted
      PROVE  BookInv'
  <2>1. mem' = [mem EXCEPT ![g].revoked = TRUE] /\ mem \in [Guest -> Record]
    BY <1>4 DEF Revoke
  <2>2. disk' = mem' \/ disk' = disk
    BY <1>4 DEF Revoke, Saved
  <2>3. /\ \A h \in Guest : mem'[h].token = mem[h].token
        /\ \A h \in Guest : mem'[h].demo = mem[h].demo
    BY ONLY <2>1 DEF Record
  <2> QED
    BY <1>4, <2>2, <2>3, RecordBookInv
<1>5. ASSUME NEW r \in Request, NEW g \in Guest, NEW t \in Token,
             AuthenticateOnly(r, g, t) \/ OpenBegins(r, g, t) \/ ForgetBegins(r, g, t)
      PROVE  BookInv'
  <2>1. mem' = mem /\ minted' = minted /\ disk' \in {disk, mem}
    BY <1>5 DEF AuthenticateOnly, OpenBegins, ForgetBegins, Authenticate, Saved
  <2> QED
    BY <2>1, SaveBookInv
<1>6. ASSUME NEW r \in Request, EnrollAnswers(r) \/ OpenReturns(r)
      PROVE  BookInv'
  BY <1>6, SaveBookInv DEF EnrollAnswers, OpenReturns
<1>7. ASSUME NEW r \in Request, ForgetRevokes(r)
      PROVE  BookInv'
  BY <1>4, <1>7 DEF ForgetRevokes, IssuedInv
<1>8. ASSUME NEW g \in Guest, CodeExpires(g) \/ AdminRevokes(g)
      PROVE  BookInv'
  BY <1>4, <1>8, SaveBookInv DEF CodeExpires, AdminRevokes
<1>9. CASE Restart
  <2>1. mem' = disk /\ disk' = disk /\ minted' = minted
    BY <1>9 DEF Restart
  <2> QED
    BY <2>1 DEF BookInv, Unmistaken
<1>10. CASE UNCHANGED vars
  BY <1>10, SaveBookInv DEF vars
<1> QED
  BY <1>1, <1>2, <1>3, <1>5, <1>6, <1>7, <1>8, <1>9, <1>10 DEF Next, Running, Handler

\* The door each request opens and the visitors, as the mapping names them.
Opening == [r \in Request |-> IF request[r].pc = "opening"
                             THEN [guest |-> request[r].guest, pass |-> request[r].token]
                             ELSE [guest |-> NoGuest, pass |-> NoToken]]
Visitors == {g \in Guest : held[g] # {} /\ mem[g].demo}

\* A store that was just built is an initial state of GuestBook.
LEMMA InitBook == Init => Book!Init
<1> SUFFICES ASSUME Init PROVE Book!Init
  OBVIOUS
<1>1. Visitors = {} /\ Opening = [r \in Request |-> Book!Nobody]
  BY DEF Init, Visitors, Opening, Idle, Book!Nobody
<1> QED
  BY <1>1 DEF Init, Book!Init, Visitors, Opening

\* A step that gives no token and leaves the kind of what was given alone is not
\* seen in the visitors, ...
LEMMA VisitorsStay ==
  ASSUME held' = held, \A g \in Guest : held[g] # {} => mem'[g].demo = mem[g].demo
  PROVE  Visitors' = Visitors
BY DEF Visitors

\* ... nor is a step of a request in the doors, unless it opens one.
LEMMA OpeningStays ==
  ASSUME \A r \in Request : \/ request'[r] = request[r]
                            \/ request'[r].pc # "opening" /\ request[r].pc # "opening"
  PROVE  Opening' = Opening
BY DEF Opening

\* A step that shows in neither, nor in passes and revocations, is a stutter.
LEMMA BookStutters ==
  ASSUME UNCHANGED <<held, acked>>, Visitors' = Visitors, Opening' = Opening
  PROVE  UNCHANGED Book!vars
BY DEF Book!vars, Visitors, Opening

\* Nobody who was given a token has a record that is still to be made.
LEMMA HeldIsKnown ==
  ASSUME GuestInv, NEW g \in Guest, held[g] # {}
  PROVE  mem[g].known
<1> PICK t \in held[g] : TRUE
  OBVIOUS
<1>1. t \in Token /\ mem[g].token = t
  BY DEF GuestInv, TypeOK, IssuedInv, HeldTokensStand
<1> QED
  BY <1>1, NilAssumption DEF GuestInv, StoreInv

\* A code that is traded and a demo pass that is made are not seen before the answer.
LEMMA EnrollUnseen ==
  ASSUME GuestInv, NEW r \in Request, NEW g \in Guest, NEW t \in Token,
         Enroll(r, g, t) \/ EnrollDemo(r, g, t)
  PROVE  UNCHANGED Book!vars
<1>1. UNCHANGED <<held, acked>>
  BY DEF Enroll, EnrollDemo
<1>2. mem \in [Guest -> Record] /\ request \in [Request -> [pc : {"idle", "enrolled", "opening", "forgetting"},
                                                         guest : Guest \cup {NoGuest},
                                                         token : Token \cup {NoToken}]]
  BY DEF GuestInv, TypeOK
<1>3. Visitors' = Visitors
  <2>1. CASE Enroll(r, g, t)
    <3>1. mem' = [mem EXCEPT ![g].token = t, ![g].code = FALSE]
      BY <2>1 DEF Enroll
    <3>2. \A h \in Guest : mem'[h].demo = mem[h].demo
      BY ONLY <1>2, <3>1 DEF Record
    <3> QED
      BY <1>1, <3>2, VisitorsStay
  <2>2. CASE EnrollDemo(r, g, t)
    <3>1. ~mem[g].known /\ \A h \in Guest \ {g} : mem'[h] = mem[h]
      BY <1>2, <2>2 DEF EnrollDemo
    <3>2. held[g] = {}
      BY <3>1, HeldIsKnown
    <3> QED
      BY <1>1, <3>1, <3>2, VisitorsStay
  <2> QED
    BY <2>1, <2>2
<1>4. Opening' = Opening
  <2>1. \/ request' = request
        \/ request[r] = Idle /\ request' = [request EXCEPT ![r] = [pc |-> "enrolled", guest |-> g, token |-> t]]
    BY DEF Enroll, EnrollDemo, Becomes
  <2> QED
    BY <1>2, <2>1, OpeningStays DEF Idle
<1> QED
  BY <1>1, <1>3, <1>4, BookStutters

\* The answer that reaches a phone gives its guest a pass; one that is lost, or
\* that says nothing new, does not.
LEMMA AnswerGives ==
  ASSUME GuestInv, BookInv, NEW r \in Request, EnrollAnswers(r)
  PROVE  [Book!Next]_(Book!vars)
<1>1. PICK g \in Guest, t \in Token :
        /\ g = request[r].guest /\ t = request[r].token
        /\ mem[g].token = t /\ request[r].pc = "enrolled"
  BY DEF EnrollAnswers, GuestInv, IssuedInv
<1>2. /\ UNCHANGED <<mem, acked>>
      /\ request' = [request EXCEPT ![r] = Idle]
      /\ held' = held \/ held' = [held EXCEPT ![g] = @ \cup {t}]
  BY <1>1 DEF EnrollAnswers
<1>3. Opening' = Opening
  BY <1>1, <1>2, OpeningStays DEF GuestInv, TypeOK, Idle
<1>4. held \in [Guest -> SUBSET Token] /\ \A h \in Guest : \A u \in held[h] : mem[h].token = u
  BY DEF GuestInv, TypeOK, IssuedInv, HeldTokensStand
<1>5. \A h \in Guest : t \in held[h] => h = g
  BY <1>1, <1>4, NilAssumption DEF BookInv, Unmistaken
<1>6. CASE held' = held
  BY <1>2, <1>3, <1>6, VisitorsStay, BookStutters
<1>7. CASE held' = [held EXCEPT ![g] = @ \cup {t}] /\ held[g] # {}
  <2>1. held[g] = {t}
    BY <1>1, <1>4, <1>7
  <2>2. held' = held
    BY <1>1, <1>4, <1>7, <2>1
  <2> QED
    BY <1>2, <1>3, <2>2, VisitorsStay, BookStutters
<1>8. CASE held' = [held EXCEPT ![g] = @ \cup {t}] /\ held[g] = {}
  <2>1. held' = [held EXCEPT ![g] = {t}]
    BY <1>1, <1>4, <1>8
  <2>2. \A h \in Guest : held'[h] = IF h = g THEN {t} ELSE held[h]
    BY <1>4, <2>1
  <2>3. Visitors' \in {Visitors, Visitors \cup {g}}
    BY <1>1, <1>2, <1>8, <2>2 DEF Visitors
  <2>4. Book!Give(g, t)
    BY <1>2, <1>3, <1>5, <1>8, <2>1, <2>3 DEF Book!Give, Visitors, Opening
  <2> QED
    BY <1>1, <2>4 DEF Book!Next
<1> QED
  BY <1>2, <1>6, <1>7, <1>8

\* A token admits the guest it was given to, whose pass is good, or nobody.
LEMMA TokenIsGuests ==
  ASSUME GuestInv, BookInv, NEW g \in Guest, NEW t \in Token, Authenticate(g, t)
  PROVE  t \in held[g] /\ g \notin acked
<1>1. PICK h \in Guest : t \in held[h]
  BY DEF Authenticate
<1>2. mem[h].token = t /\ mem[g].token = t /\ t # NoToken /\ ~mem[g].revoked
  BY <1>1, NilAssumption DEF Authenticate, GuestInv, IssuedInv, HeldTokensStand
<1>3. h = g
  BY <1>2 DEF BookInv, Unmistaken
<1> QED
  BY <1>1, <1>2, <1>3 DEF GuestInv, AckedInv

\* A door begins to open for a good pass, and is done.
LEMMA DoorsOpen ==
  ASSUME GuestInv, BookInv, NEW r \in Request,
         OpenReturns(r) \/ \E g \in Guest, t \in Token : OpenBegins(r, g, t)
  PROVE  [Book!Next]_(Book!vars)
<1>1. request \in [Request -> [pc : {"idle", "enrolled", "opening", "forgetting"},
                               guest : Guest \cup {NoGuest},
                               token : Token \cup {NoToken}]]
  BY DEF GuestInv, TypeOK
<1>2. UNCHANGED <<mem, held, acked>>
  BY DEF OpenReturns, OpenBegins, Authenticate
<1>3. Visitors' = Visitors
  BY <1>2, VisitorsStay
<1>4. Opening \in [Request -> [guest : Guest \cup {NoGuest}, pass : Token \cup {NoToken}]]
  BY <1>1 DEF Opening
<1>5. CASE OpenReturns(r)
  <2>1. request' = [request EXCEPT ![r] = Idle]
    BY <1>5 DEF OpenReturns
  <2>2. Opening' = [Opening EXCEPT ![r] = Book!Nobody]
    BY <1>1, <2>1 DEF Opening, Idle, Book!Nobody
  <2>3. CASE Opening[r] = Book!Nobody
    <3>1. Opening' = Opening
      BY <1>4, <2>2, <2>3
    <3> QED
      BY <1>2, <1>3, <3>1, BookStutters
  <2>4. CASE Opening[r] # Book!Nobody
    <3>1. Book!Opened(r)
      BY <1>2, <1>3, <2>2, <2>4 DEF Book!Opened, Visitors, Opening
    <3> QED
      BY <3>1 DEF Book!Next
  <2> QED
    BY <2>3, <2>4
<1>6. ASSUME NEW g \in Guest, NEW t \in Token, OpenBegins(r, g, t)
      PROVE  Book!OpenFor(r, g, t)
  <2>1. /\ request[r] = Idle
        /\ request' = [request EXCEPT ![r] = [pc |-> "opening", guest |-> g, token |-> t]]
        /\ Authenticate(g, t) /\ ~mem[g].demo
    BY <1>6 DEF OpenBegins, Becomes
  <2>2. Opening[r] = Book!Nobody /\ Opening' = [Opening EXCEPT ![r] = [guest |-> g, pass |-> t]]
    <3>1. \A q \in Request : request'[q] = IF q = r THEN [pc |-> "opening", guest |-> g, token |-> t]
                                                    ELSE request[q]
      BY <1>1, <2>1
    <3>2. Opening' = [q \in Request |-> IF q = r THEN [guest |-> g, pass |-> t] ELSE Opening[q]]
      BY <3>1 DEF Opening
    <3>3. Opening[r] = Book!Nobody
      BY <2>1 DEF Opening, Idle, Book!Nobody
    <3> QED
      BY <1>4, <3>2, <3>3
  <2>3. t \in held[g] /\ g \notin acked /\ g \notin Visitors
    BY <2>1, TokenIsGuests DEF Visitors
  <2> QED
    BY <1>2, <1>3, <2>2, <2>3 DEF Book!OpenFor, Visitors, Opening
<1> QED
  BY <1>5, <1>6 DEF Book!Next

\* A revocation that is acknowledged voids the pass; one that is not does not show.
LEMMA RevokeVoids ==
  ASSUME GuestInv, NEW g \in Guest, Revoke(g), held' = held, Opening' = Opening
  PROVE  [Book!Next]_(Book!vars)
<1>1. mem' = [mem EXCEPT ![g].revoked = TRUE] /\ mem \in [Guest -> Record]
  BY DEF GuestInv, TypeOK, Revoke
<1>2. \A h \in Guest : mem'[h].demo = mem[h].demo
  BY ONLY <1>1 DEF Record
<1>3. Visitors' = Visitors
  BY <1>2, VisitorsStay
<1>4. CASE acked' = acked \cup {g}
  <2>1. Book!Void(g)
    BY <1>3, <1>4 DEF Book!Void, Visitors, Opening
  <2> QED
    BY <2>1 DEF Book!Next
<1>5. CASE acked' = acked
  BY <1>3, <1>5, BookStutters
<1> QED
  BY <1>4, <1>5 DEF Revoke

\* What is authenticated and opens no door is not seen.
LEMMA LooksOnly ==
  ASSUME NEW g \in Guest, NEW t \in Token, Authenticate(g, t), UNCHANGED <<held, acked>>, Opening' = Opening
  PROVE  UNCHANGED Book!vars
BY VisitorsStay, BookStutters DEF Authenticate

\* Every step of the program is a step of GuestBook, or changes nothing it can see.
LEMMA NextBook ==
  ASSUME GuestInv, BookInv, [Next]_vars
  PROVE  [Book!Next]_(Book!vars)
<1>1. request \in [Request -> [pc : {"idle", "enrolled", "opening", "forgetting"},
                               guest : Guest \cup {NoGuest},
                               token : Token \cup {NoToken}]]
  BY DEF GuestInv, TypeOK
<1>2. ASSUME NEW r \in Request, Handler(r)
      PROVE  [Book!Next]_(Book!vars)
  <2>1. ASSUME NEW g \in Guest, NEW t \in Token, Enroll(r, g, t) \/ EnrollDemo(r, g, t)
        PROVE  UNCHANGED Book!vars
    BY <2>1, EnrollUnseen
  <2>2. ASSUME NEW g \in Guest, NEW t \in Token, AuthenticateOnly(r, g, t) \/ ForgetBegins(r, g, t)
        PROVE  UNCHANGED Book!vars
    <3>1. Authenticate(g, t) /\ UNCHANGED <<held, acked>>
      BY <2>2 DEF AuthenticateOnly, ForgetBegins
    <3>2. \/ request' = request
          \/ request[r] = Idle /\ request' = [request EXCEPT ![r] = [pc |-> "forgetting", guest |-> g, token |-> t]]
      BY <2>2 DEF AuthenticateOnly, ForgetBegins, Becomes
    <3>3. Opening' = Opening
      BY <1>1, <3>2, OpeningStays DEF Idle
    <3> QED
      BY <3>1, <3>3, LooksOnly
  <2>3. CASE ForgetRevokes(r)
    <3>1. request[r].guest \in Guest /\ Revoke(request[r].guest) /\ held' = held
      BY <2>3 DEF ForgetRevokes, GuestInv, IssuedInv
    <3>2. request[r].pc = "forgetting" /\ request' = [request EXCEPT ![r] = Idle]
      BY <2>3 DEF ForgetRevokes
    <3>3. Opening' = Opening
      BY <1>1, <3>2, OpeningStays DEF Idle
    <3> QED
      BY <3>1, <3>3, RevokeVoids
  <2> QED
    BY <1>2, <2>1, <2>2, <2>3, AnswerGives, DoorsOpen DEF Handler
<1>3. ASSUME NEW g \in Guest, Create(g) \/ CodeExpires(g)
      PROVE  UNCHANGED Book!vars
  <2>1. CASE Create(g)
    <3>1. ~mem[g].known /\ UNCHANGED <<held, acked, request>>
            /\ \A h \in Guest \ {g} : mem'[h] = mem[h]
      BY <2>1 DEF Create, GuestInv, TypeOK
    <3>2. Visitors' = Visitors
      BY <3>1, HeldIsKnown, VisitorsStay
    <3> QED
      BY <3>1, <3>2, OpeningStays, BookStutters
  <2>2. CASE CodeExpires(g)
    BY <2>2, VisitorsStay, OpeningStays, BookStutters DEF CodeExpires
  <2> QED
    BY <1>3, <2>1, <2>2
<1>4. ASSUME NEW g \in Guest, AdminRevokes(g)
      PROVE  [Book!Next]_(Book!vars)
  BY <1>4, RevokeVoids, OpeningStays DEF AdminRevokes
<1>5. CASE Restart
  <2>1. Visitors' = Visitors
    BY <1>5, VisitorsStay DEF Restart, BookInv
  <2>2. Opening' = [r \in Request |-> Book!Nobody]
    BY <1>5 DEF Restart, Opening, Idle, Book!Nobody
  <2>3. Book!Stop
    BY <1>5, <2>1, <2>2 DEF Restart, Book!Stop, Visitors, Opening
  <2> QED
    BY <2>3 DEF Book!Next
<1>6. CASE UNCHANGED vars
  BY <1>6, VisitorsStay, OpeningStays, BookStutters DEF vars
<1> QED
  BY <1>2, <1>3, <1>4, <1>5, <1>6 DEF Next, Running

\* Guest access keeps the promise of GuestBook, for any guests, requests, failed
\* saves, lost answers and restarts.
THEOREM ImplementsGuestBook == Spec => RefinesGuestBook
<1>1. Init => GuestInv /\ BookInv
  BY InitGuestInv, InitBookInv
<1>2. GuestInv /\ BookInv /\ [Next]_vars => GuestInv' /\ BookInv'
  BY NextGuestInv, NextBookInv
<1>3. GuestInv /\ BookInv /\ [Next]_vars => [Book!Next]_(Book!vars)
  BY NextBook
<1> QED
  BY <1>1, <1>2, <1>3, InitBook, PTL DEF Spec, RefinesGuestBook, Book!Spec

\* A session that begins looks a token up and may save the store.
LEMMA SessionBook ==
  ASSUME GuestInv, BookInv, [StreamNext]_allVars
  PROVE  BookInv' /\ [Book!Next]_(Book!vars)
<1>1. [Next]_vars => BookInv' /\ [Book!Next]_(Book!vars)
  BY NextBookInv, NextBook
<1>2. ASSUME NEW w \in Watcher, NEW c \in Camera, SessionBegins(w, c)
      PROVE  BookInv' /\ UNCHANGED Book!vars
  <2> PICK g \in Guest, t \in Token : Authenticate(g, t)
    BY <1>2 DEF SessionBegins
  <2>1. UNCHANGED <<request, minted, held, acked>>
    BY <1>2 DEF SessionBegins
  <2>2. BookInv'
    BY <2>1, SaveBookInv DEF Authenticate, Saved
  <2> QED
    BY <2>1, <2>2, OpeningStays, LooksOnly
<1>3. UNCHANGED allVars => UNCHANGED vars
  BY DEF allVars
<1> QED
  BY <1>1, <1>2, <1>3, StepsOfStore

\* So it does with any number of watchers beside.
THEOREM ImplementsGuestBookWithStreams == StreamSpec => RefinesGuestBook
<1>1. StreamInit => GuestInv /\ BookInv /\ Book!Init
  BY InitGuestInv, InitBookInv, InitBook DEF StreamInit
<1>2. GuestInv /\ BookInv /\ [StreamNext]_allVars => GuestInv' /\ BookInv'
  BY StreamGuestInv, SessionBook
<1>3. GuestInv /\ BookInv /\ [StreamNext]_allVars => [Book!Next]_(Book!vars)
  BY SessionBook
<1> QED
  BY <1>1, <1>2, <1>3, PTL DEF StreamSpec, RefinesGuestBook, Book!Spec
=============================================================================
