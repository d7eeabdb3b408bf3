---------------------------- MODULE GuestStreams ----------------------------
(***************************************************************************)
(* The camera sessions of guests: src/streamapi.go, streamsign.go and the  *)
(* audit log of src/auditstore.go, over GuestAccess.  A guest who is       *)
(* authenticated is handed a signed URL that is good for streamSessionTTL  *)
(* from when the expiry is computed, whatever becomes of the guest;        *)
(* sessions are logged, one per guest, camera and TTL.  The hub behind the *)
(* URLs is StreamHub.                                                      *)
(*                                                                         *)
(* The signature is taken to be good; the contents of playlists, the rows  *)
(* of other actions and refused sessions are left out.  Of a guest's URLs  *)
(* and rows the last is kept: the properties ask for no other.             *)
(***************************************************************************)
EXTENDS GuestAccess

CONSTANTS
  Watcher,     \* goroutines serving POST /session
  Camera,
  TTL,         \* streamSessionTTL, in steps of the clock
  Retention,   \* auditRetention
  MaxTime      \* how long the clock runs

ASSUME StreamAssumption ==
  /\ TTL \in Nat \ {0} /\ Retention \in Nat /\ Retention > 2 * TTL /\ MaxTime \in Nat
  /\ Camera # {}

VARIABLES
  now,
  watcher,     \* what each session handler has done: pc, guest, camera, when it
               \* authenticated the guest (for the properties), exp
  logged,      \* lastLoggedAt: a time by guest and camera, or Never
  rows,        \* the audit table: the time of each guest's last session row
  urls,        \* the expiry of the last URL by guest and camera
  revokedAt,   \* when a revocation was acknowledged (for the properties)
  lag,         \* the longest a session of the guest took to compute its expiry
               \* that was revoked meanwhile (for the properties)
  lost         \* guests of whom no row was written since one failed (for the properties)

streamVars == <<now, watcher, logged, rows, urls, revokedAt, lag, lost>>
allVars == <<vars, streamVars>>

Never == MaxTime + TTL + 1
Away == [pc |-> "idle", guest |-> NoGuest, camera |-> CHOOSE c \in Camera : TRUE,
         since |-> 0, exp |-> 0]

StreamInit ==
  /\ Init
  /\ now = 0
  /\ watcher = [w \in Watcher |-> Away]
  /\ logged = [x \in Guest \X Camera |-> Never]
  /\ rows = [g \in Guest |-> Never]
  /\ urls = [x \in Guest \X Camera |-> Never]
  /\ revokedAt = [g \in Guest |-> Never]
  /\ lag = [g \in Guest |-> 0]
  /\ lost = {}

-----------------------------------------------------------------------------
\* verifyStream, at time t: the expiry has not passed.
VerifyStream(exp, t) == exp # Never /\ t <= exp

Watches(w, s) == watcher' = [watcher EXCEPT ![w] = s]

\* session: the caller is authenticated, ...
SessionBegins(w, c) ==
  /\ watcher[w].pc = "idle"
  /\ \E g \in Guest, t \in Token :
       /\ Authenticate(g, t)
       /\ Watches(w, [pc |-> "sign", guest |-> g, camera |-> c, since |-> now, exp |-> 0])
  /\ UNCHANGED <<expired, request, minted, held, acked>>
  /\ UNCHANGED <<now, logged, rows, urls, revokedAt, lag, lost>>

\* ... and the expiry computed by a clock that is read later, with no lock in
\* between: the guest may have been revoked meanwhile.
SessionExpiry(w) ==
  /\ watcher[w].pc = "sign"
  /\ Watches(w, [watcher[w] EXCEPT !.pc = "log", !.since = 0, !.exp = now + TTL])
  /\ lag' = [lag EXCEPT ![watcher[w].guest] =
       IF watcher[w].guest \in acked /\ @ < now - watcher[w].since
       THEN now - watcher[w].since ELSE @]
  /\ UNCHANGED <<vars, now, logged, rows, urls, revokedAt, lost>>

LoggedBefore(g, c) == logged[<<g, c>>] # Never /\ now - logged[<<g, c>>] < TTL

\* shouldLogSession, when it says no.
SessionIsLogged(w) ==
  /\ watcher[w].pc = "log" /\ LoggedBefore(watcher[w].guest, watcher[w].camera)
  /\ Watches(w, [watcher[w] EXCEPT !.pc = "answer"])
  /\ UNCHANGED <<vars, now, logged, rows, urls, revokedAt, lag, lost>>

\* When it says yes, which it notes at once, ...
SessionIsNoted(w) ==
  /\ watcher[w].pc = "log" /\ ~LoggedBefore(watcher[w].guest, watcher[w].camera)
  /\ logged' = [logged EXCEPT ![<<watcher[w].guest, watcher[w].camera>>] = now]
  /\ Watches(w, [watcher[w] EXCEPT !.pc = "record"])
  /\ UNCHANGED <<vars, now, rows, urls, revokedAt, lag, lost>>

\* ... the row is written, or not: record ignores an error of Log.
SessionRecords(w) ==
  /\ watcher[w].pc = "record"
  /\ \/ rows' = [rows EXCEPT ![watcher[w].guest] = now]
        /\ lost' = lost \ {watcher[w].guest}
     \/ lost' = lost \cup {watcher[w].guest} /\ UNCHANGED rows
  /\ Watches(w, [watcher[w] EXCEPT !.pc = "answer"])
  /\ UNCHANGED <<vars, now, logged, urls, revokedAt, lag>>

\* A plausible slip: the expiry is computed for the answer, after the log.
SessionAnswersAfresh(w) ==
  /\ watcher[w].pc = "answer"
  /\ urls' = [urls EXCEPT ![<<watcher[w].guest, watcher[w].camera>>] = now + TTL]
  /\ Watches(w, Away)
  /\ UNCHANGED <<vars, now, logged, rows, revokedAt, lag, lost>>

\* The answer: the URL, signed; one that was computed earlier adds nothing.
SessionAnswers(w) ==
  /\ watcher[w].pc = "answer"
  /\ urls' = [urls EXCEPT ![<<watcher[w].guest, watcher[w].camera>>] =
       IF @ # Never /\ @ > watcher[w].exp THEN @ ELSE watcher[w].exp]
  /\ Watches(w, Away)
  /\ UNCHANGED <<vars, now, logged, rows, revokedAt, lag, lost>>

\* A plausible slip: the days are counted from the wrong end.
PruneNewer(before) ==
  rows' = [g \in Guest |-> IF rows[g] >= before THEN Never ELSE rows[g]]

Prune(before) ==
  rows' = [g \in Guest |-> IF rows[g] < before THEN Never ELSE rows[g]]

\* pruneAuditDaily, which may find the table busy.
PrunesDaily ==
  /\ now > Retention /\ Prune(now - Retention)
  /\ UNCHANGED <<vars, now, watcher, logged, urls, revokedAt, lag, lost>>

\* A stop and a start: OpenAuditStore prunes, what was noted is forgotten, and a
\* row that was noted but not written is lost.  The secret, of the configuration,
\* and with it every URL stays good.
StreamsRestart ==
  /\ Restart
  /\ watcher' = [w \in Watcher |-> Away]
  /\ logged' = [x \in Guest \X Camera |-> Never]
  /\ IF now > Retention THEN Prune(now - Retention) ELSE UNCHANGED rows
  /\ lost' = lost \cup {watcher[w].guest : w \in {w \in Watcher : watcher[w].pc = "record"}}
  /\ UNCHANGED <<now, urls, revokedAt, lag>>

\* A step of GuestAccess.
StoreSteps ==
  /\ Running
  /\ revokedAt' = [g \in Guest |-> IF g \in acked' \ acked THEN now ELSE revokedAt[g]]
  /\ UNCHANGED <<now, watcher, logged, rows, urls, lag, lost>>

\* Time passes; a URL that is not let through any more is forgotten.
Tick ==
  /\ now < MaxTime /\ now' = now + 1
  /\ urls' = [x \in Guest \X Camera |-> IF VerifyStream(urls[x], now') THEN urls[x] ELSE Never]
  /\ UNCHANGED <<vars, watcher, logged, rows, revokedAt, lag, lost>>

StreamNext ==
  \/ StoreSteps \/ StreamsRestart \/ PrunesDaily \/ Tick
  \/ \E w \in Watcher :
       \/ \E c \in Camera : SessionBegins(w, c)
       \/ SessionExpiry(w) \/ SessionIsLogged(w) \/ SessionIsNoted(w) \/ SessionRecords(w) \/ SessionAnswers(w)

StreamSpec == StreamInit /\ [][StreamNext]_allVars

-----------------------------------------------------------------------------
\* A guest's streams end with the TTL: once a revocation has been acknowledged
\* for that long, no URL of that guest is let through, save for as long as a
\* session that was revoked in between took from authenticating the guest to
\* reading the clock for its expiry, where it looks a camera up (streamapi.go:81,
\* 87, 91).  What a session under way waits for later, the throttle's mutex, the
\* row and the client, adds nothing (session, 78-101; hls, 103-108).
StreamsEndAfterRevoke ==
  \A g \in acked, c \in Camera :
    VerifyStream(urls[<<g, c>>], now) => now <= revokedAt[g] + TTL + lag[g]

\* Whoever can watch is on record: a URL that is let through has a row of its
\* guest that is at most two TTLs old, or one is about to be written, unless
\* writing one failed (shouldLogSession and record, streamapi.go:57-76).
WatchersAreOnRecord ==
  \A g \in Guest \ lost, c \in Camera : VerifyStream(urls[<<g, c>>], now) =>
    \/ rows[g] # Never /\ now - rows[g] <= 2 * TTL
    \/ \E w \in Watcher : watcher[w].pc = "record" /\ watcher[w].guest = g
=============================================================================
