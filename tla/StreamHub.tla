----------------------------- MODULE StreamHub ------------------------------
(***************************************************************************)
(* src/streamhub.go: the hub that pulls each guest camera's RTSP stream    *)
(* while somebody watches it and serves it as LL-HLS.  Three kinds of      *)
(* goroutine meet here: the HTTP requests (Viewer), the idle timers'       *)
(* callbacks (per camera) and the pulls (RunId), plus the one that closes  *)
(* the hub.  Every action is one critical section of h.mu or r.mu, or one  *)
(* step outside them.                                                      *)
(*                                                                         *)
(* A run identity that has ended may serve a later pull: RunId bounds the  *)
(* pulls alive at once, not those ever started.                            *)
(***************************************************************************)
EXTENDS Integers, FiniteSets

CONSTANTS
  Camera,        \* the cameras of the configuration (h.cams)
  Viewer,        \* concurrent HTTP requests
  RunId,         \* identities of *streamRun values
  NoRun,         \* cam.run == nil
  NoCamera,      \* a request that is not in the hub
  MaxMuxers,     \* bound: muxers one run creates
  MaxCallbacks   \* bound: fired idle callbacks waiting for h.mu, per camera

ASSUME ViewerAssumption == IsFiniteSet(Viewer)
ASSUME NilAssumption == NoRun \notin RunId /\ NoCamera \notin Camera
ASSUME BoundAssumption == MaxMuxers \in Nat /\ MaxCallbacks \in Nat

VARIABLES
  closed,      \* h.closed
  viewers,     \* cam.viewers
  timer,       \* what cam.idleTimer points at
  callbacks,   \* fired idle callbacks that have not got h.mu yet
  run,         \* cam.run
  phase,       \* where the goroutine of a run stands in pull and source.Run
  camOf,       \* the camera a run was started for
  cancelled,   \* runs whose context is cancelled
  muxer,       \* runs with r.muxer # nil
  chan,        \* which channel r.ready holds: the chan[r]-th this run made
  closedChan,  \* <<r, k>>: the k-th ready channel of r has been closed
  pc,          \* where a request stands
  vcam,        \* the camera a request is for
  vrun,        \* serve's local r
  vchan,       \* serve's local ready
  closer       \* where the goroutine in Close stands

camVars  == <<closed, viewers, timer, callbacks, run>>
pullVars == <<phase, camOf, cancelled, muxer, chan, closedChan>>
viewVars == <<pc, vcam, vrun, vchan>>
vars     == <<camVars, pullVars, viewVars, closer>>

\* The requests that have acquired their camera and not released it yet.
Holding == {"priming", "acquired", "looking", "waiting", "handling", "releasing"}
Watching == {"looking", "waiting", "handling"}
Holders(c) == {v \in Viewer : pc[v] \in Holding /\ vcam[v] = c}

Init ==
  /\ closed = FALSE
  /\ viewers = [c \in Camera |-> 0]
  /\ timer = [c \in Camera |-> "nil"]
  /\ callbacks = [c \in Camera |-> 0]
  /\ run = [c \in Camera |-> NoRun]
  /\ phase = [r \in RunId |-> "off"]
  /\ camOf = [r \in RunId |-> NoCamera]
  /\ cancelled = {}
  /\ muxer = {}
  /\ chan = [r \in RunId |-> 0]
  /\ closedChan = {}
  /\ pc = [v \in Viewer |-> "out"]
  /\ vcam = [v \in Viewer |-> NoCamera]
  /\ vrun = [v \in Viewer |-> NoRun]
  /\ vchan = [v \in Viewer |-> 0]
  /\ closer = "open"

-----------------------------------------------------------------------------
(* The critical sections on h.mu.                                          *)

\* startLocked: a fresh run, and the goroutine that pulls for it.
StartLocked(c, r) ==
  /\ phase[r] = "off"
  /\ run' = [run EXCEPT ![c] = r]
  /\ phase' = [phase EXCEPT ![r] = "head"]
  /\ camOf' = [camOf EXCEPT ![r] = c]
  /\ muxer' = muxer \ {r}
  /\ chan' = [chan EXCEPT ![r] = 0]
  /\ closedChan' = {k \in closedChan : k[1] # r}
  /\ UNCHANGED cancelled

\* A plausible slip: the counter is bumped only when a pull is started.
AcquireCountsStarts(c) ==
  /\ ~closed
  /\ viewers' = [viewers EXCEPT ![c] = IF run[c] = NoRun THEN @ + 1 ELSE @]
  /\ timer' = [timer EXCEPT ![c] = "nil"]
  /\ IF run[c] = NoRun
       THEN \E r \in RunId : StartLocked(c, r)
       ELSE UNCHANGED <<run, pullVars>>
  /\ UNCHANGED <<closed, callbacks>>

\* A plausible slip: the pull is restarted whenever the count was zero.
AcquireRestartsAtZero(c) ==
  /\ ~closed
  /\ viewers' = [viewers EXCEPT ![c] = @ + 1]
  /\ timer' = [timer EXCEPT ![c] = "nil"]
  /\ IF viewers[c] = 0
       THEN \E r \in RunId : StartLocked(c, r)
       ELSE UNCHANGED <<run, pullVars>>
  /\ UNCHANGED <<closed, callbacks>>

\* acquire: a viewer more, the idle timer stopped (a fired callback is not),
\* the pull started if there is none.
Acquire(c) ==
  /\ ~closed
  /\ viewers' = [viewers EXCEPT ![c] = @ + 1]
  /\ timer' = [timer EXCEPT ![c] = "nil"]
  /\ IF run[c] = NoRun
       THEN \E r \in RunId : StartLocked(c, r)
       ELSE UNCHANGED <<run, pullVars>>
  /\ UNCHANGED <<closed, callbacks>>

\* A plausible slip: an off-by-one in the early return.
ReleaseOffByOne(c) ==
  /\ viewers' = [viewers EXCEPT ![c] = @ - 1]
  /\ timer' = IF viewers[c] > 0 \/ closed
                THEN timer ELSE [timer EXCEPT ![c] = "armed"]
  /\ UNCHANGED <<closed, callbacks, run, pullVars>>

\* release: the last viewer arms the idle timer, unless the hub is closed.
Release(c) ==
  /\ viewers' = [viewers EXCEPT ![c] = @ - 1]
  /\ timer' = IF viewers[c] > 1 \/ closed
                THEN timer ELSE [timer EXCEPT ![c] = "armed"]
  /\ UNCHANGED <<closed, callbacks, run, pullVars>>

\* The idle timer fires: its callback is a goroutine that still needs h.mu.
TimerFires(c) ==
  /\ timer[c] = "armed"
  /\ callbacks[c] < MaxCallbacks
  /\ timer' = [timer EXCEPT ![c] = "spent"]
  /\ callbacks' = [callbacks EXCEPT ![c] = @ + 1]
  /\ UNCHANGED <<closed, viewers, run, pullVars, viewVars, closer>>

\* A plausible slip: the callback trusts the timer and not the count.
IdleTrustsTimer(c) == run[c] # NoRun

\* The callback's test, under h.mu.
IdleTest(c) == viewers[c] = 0 /\ run[c] # NoRun

\* The callback: an unwatched camera's pull is cancelled and forgotten.  It
\* belongs to whichever timer fired, not to the one armed now.
IdleCallback(c) ==
  /\ callbacks[c] > 0
  /\ callbacks' = [callbacks EXCEPT ![c] = @ - 1]
  /\ IF IdleTest(c)
       THEN /\ cancelled' = cancelled \cup {run[c]}
            /\ run' = [run EXCEPT ![c] = NoRun]
       ELSE UNCHANGED <<cancelled, run>>
  /\ UNCHANGED <<closed, viewers, timer, phase, camOf, muxer, chan, closedChan,
                 viewVars, closer>>

\* Close, first half: no more pulls, timers stopped, every pull cancelled.
CloseBegin ==
  /\ closer = "open"
  /\ closer' = "waiting"
  /\ closed' = TRUE
  /\ timer' = [c \in Camera |-> IF timer[c] = "armed" THEN "spent" ELSE timer[c]]
  /\ cancelled' = cancelled \cup {run[c] : c \in {d \in Camera : run[d] # NoRun}}
  /\ run' = [c \in Camera |-> NoRun]
  /\ UNCHANGED <<viewers, callbacks, phase, camOf, muxer, chan, closedChan, viewVars>>

\* Close, second half: h.wg.Wait().
CloseReturn ==
  /\ closer = "waiting"
  /\ \A r \in RunId : phase[r] = "off"
  /\ closer' = "returned"
  /\ UNCHANGED <<camVars, pullVars, viewVars>>

-----------------------------------------------------------------------------
(* A pull: the goroutine startLocked spawned.                              *)

PullAt(r, from, to) ==
  /\ phase[r] = from
  /\ phase' = [phase EXCEPT ![r] = to]

\* A plausible slip: the muxer is dropped without its nil check, so that a
\* connection that never had one replaces an open ready channel.
DropMuxerAlways(r) ==
  /\ muxer' = muxer \ {r}
  /\ chan' = [chan EXCEPT ![r] = @ + 1]

\* closeMuxer, under r.mu: the next connection gets a new ready channel.
DropMuxer(r) ==
  /\ muxer' = muxer \ {r}
  /\ chan' = IF r \in muxer THEN [chan EXCEPT ![r] = @ + 1] ELSE chan

\* A plausible slip: a cancelled pull keeps reconnecting.
PullHeadIgnoresCtx(r) ==
  /\ PullAt(r, "head", "dialing")
  /\ UNCHANGED <<camVars, camOf, cancelled, muxer, chan, closedChan, viewVars, closer>>

\* The loop condition: stop if the context is done (the deferred closeMuxer
\* runs on the way out, and nothing is left of the goroutine), else connect.
PullHead(r) ==
  /\ IF r \in cancelled
       THEN /\ PullAt(r, "head", "off")
            /\ DropMuxer(r)
            /\ camOf' = [camOf EXCEPT ![r] = NoCamera]
            /\ cancelled' = cancelled \ {r}
       ELSE /\ PullAt(r, "head", "dialing")
            /\ UNCHANGED <<muxer, chan, camOf, cancelled>>
  /\ UNCHANGED <<camVars, closedChan, viewVars, closer>>

\* source.Run up to PLAY, which does not look at the context: it connects or
\* fails.
Dial(r) ==
  /\ PullAt(r, "dialing", "playing") \/ PullAt(r, "dialing", "ended")
  /\ UNCHANGED <<camVars, camOf, cancelled, muxer, chan, closedChan, viewVars, closer>>

\* write on the first keyframe: the muxer exists and ready is closed.  Later
\* frames change nothing here, and an error of Start or WriteH265 ends the
\* connection (SourceEnds).
Write(r) ==
  /\ phase[r] = "playing"
  /\ r \notin muxer
  /\ chan[r] < MaxMuxers
  /\ muxer' = muxer \cup {r}
  /\ closedChan' = closedChan \cup {<<r, chan[r]>>}
  /\ UNCHANGED <<camVars, phase, camOf, cancelled, chan, viewVars, closer>>

\* source.Run returns: the context is done, or the upstream failed.
SourceEnds(r) ==
  /\ PullAt(r, "playing", "ended")
  /\ UNCHANGED <<camVars, camOf, cancelled, muxer, chan, closedChan, viewVars, closer>>

\* pull drops the muxer of the connection that ended.  The select on the
\* context and the backoff that follows only delays the loop condition.
CloseMuxer(r) ==
  /\ PullAt(r, "ended", "head")
  /\ DropMuxer(r)
  /\ UNCHANGED <<camVars, camOf, cancelled, closedChan, viewVars, closer>>

-----------------------------------------------------------------------------
(* A request: Handler, then the http.Handler it returned.                  *)

\* Handler's acquire: it fails on a closed hub.
HandlerAcquire(v, c) ==
  /\ pc[v] = "out"
  /\ Acquire(c)
  /\ pc' = [pc EXCEPT ![v] = "priming"]
  /\ vcam' = [vcam EXCEPT ![v] = c]
  /\ UNCHANGED <<vrun, vchan, closer>>

\* Handler's release "arms the idle timer; real viewers are the requests".
HandlerRelease(v) ==
  /\ pc[v] = "priming"
  /\ Release(vcam[v])
  /\ pc' = [pc EXCEPT ![v] = "routed"]
  /\ UNCHANGED <<vcam, vrun, vchan, closer>>

Answer(v) ==
  /\ pc' = [pc EXCEPT ![v] = "out"]
  /\ vcam' = [vcam EXCEPT ![v] = NoCamera]
  /\ vrun' = [vrun EXCEPT ![v] = NoRun]
  /\ vchan' = [vchan EXCEPT ![v] = 0]

\* POST .../session only asks whether the camera is known.
SessionDone(v) ==
  /\ pc[v] = "routed"
  /\ Answer(v)
  /\ UNCHANGED <<camVars, pullVars, closer>>

\* The handler's own acquire ...
ServeAcquire(v) ==
  /\ pc[v] = "routed"
  /\ Acquire(vcam[v])
  /\ pc' = [pc EXCEPT ![v] = "acquired"]
  /\ UNCHANGED <<vcam, vrun, vchan, closer>>

\* ... which answers 503 once the hub is closed.
ServeRejected(v) ==
  /\ pc[v] = "routed"
  /\ closed
  /\ Answer(v)
  /\ UNCHANGED <<camVars, pullVars, closer>>

\* serve reads cam.run in a critical section of its own; nil is a 503.
ServeReadsRun(v) ==
  /\ pc[v] = "acquired"
  /\ vrun' = [vrun EXCEPT ![v] = run[vcam[v]]]
  /\ pc' = [pc EXCEPT ![v] = IF run[vcam[v]] = NoRun THEN "releasing" ELSE "looking"]
  /\ UNCHANGED <<camVars, pullVars, vcam, vchan, closer>>

\* serve reads muxer and ready together under r.mu.
ServeLooks(v) ==
  /\ pc[v] = "looking"
  /\ vchan' = [vchan EXCEPT ![v] = chan[vrun[v]]]
  /\ pc' = [pc EXCEPT ![v] = IF vrun[v] \in muxer THEN "handling" ELSE "waiting"]
  /\ UNCHANGED <<camVars, pullVars, vcam, vrun, closer>>

\* case <-ready
ServeWakes(v) ==
  /\ pc[v] = "waiting"
  /\ <<vrun[v], vchan[v]>> \in closedChan
  /\ pc' = [pc EXCEPT ![v] = "looking"]
  /\ UNCHANGED <<camVars, pullVars, vcam, vrun, vchan, closer>>

\* A plausible slip: only Close ends a request's wait, there is no timeout.
ServeWaitsForClose(v) ==
  /\ pc[v] = "waiting"
  /\ closed
  /\ pc' = [pc EXCEPT ![v] = "releasing"]
  /\ UNCHANGED <<camVars, pullVars, vcam, vrun, vchan, closer>>

\* case <-timeout.C, or the client is gone.
ServeGivesUp(v) ==
  /\ pc[v] = "waiting"
  /\ pc' = [pc EXCEPT ![v] = "releasing"]
  /\ UNCHANGED <<camVars, pullVars, vcam, vrun, vchan, closer>>

\* m.Handle has answered (a muxer that is closed meanwhile answers at once).
ServeHandled(v) ==
  /\ pc[v] = "handling"
  /\ pc' = [pc EXCEPT ![v] = "releasing"]
  /\ UNCHANGED <<camVars, pullVars, vcam, vrun, vchan, closer>>

\* The deferred release.
ServeRelease(v) ==
  /\ pc[v] = "releasing"
  /\ Release(vcam[v])
  /\ Answer(v)
  /\ UNCHANGED closer

-----------------------------------------------------------------------------
ViewerStep(v) ==
  \/ HandlerRelease(v)
  \/ ServeAcquire(v)
  \/ ServeRejected(v)
  \/ ServeReadsRun(v)
  \/ ServeLooks(v)
  \/ ServeWakes(v)
  \/ ServeGivesUp(v)
  \/ ServeHandled(v)
  \/ ServeRelease(v)

PullStep(r) ==
  \/ PullHead(r)
  \/ Dial(r)
  \/ Write(r)
  \/ SourceEnds(r)
  \/ CloseMuxer(r)

Next ==
  \/ \E v \in Viewer, c \in Camera : HandlerAcquire(v, c)
  \/ \E v \in Viewer : ViewerStep(v) \/ SessionDone(v)
  \/ \E c \in Camera : TimerFires(c) \/ IdleCallback(c)
  \/ \E r \in RunId : PullStep(r)
  \/ CloseBegin
  \/ CloseReturn

Spec == Init /\ [][Next]_vars

\* Timers fire, callbacks and goroutines run.  No request has to arrive, the
\* hub need not be closed, a request need not go on after Handler (session),
\* and an upstream that works need not fail: only a cancelled one must end.
\* In the code an acquire never lacks a run identity; here RunId may be used
\* up for a while, so a request that can go on again and again does (SF).
Fairness ==
  /\ \A c \in Camera : WF_vars(TimerFires(c)) /\ WF_vars(IdleCallback(c))
  /\ \A r \in RunId :
       /\ WF_vars(PullHead(r))
       /\ WF_vars(Dial(r))
       /\ WF_vars(r \in cancelled /\ SourceEnds(r))
       /\ WF_vars(CloseMuxer(r))
  /\ \A v \in Viewer : WF_vars(ViewerStep(v)) /\ SF_vars(ServeAcquire(v))
  /\ WF_vars(CloseReturn)

FairSpec == Spec /\ Fairness

-----------------------------------------------------------------------------
(* Properties.                                                             *)

Phases == {"off", "head", "dialing", "playing", "ended"}

\* Every variable has its type; cam.viewers in particular is never negative,
\* although release decrements it without looking.
TypeOK ==
  /\ closed \in BOOLEAN
  /\ viewers \in [Camera -> Nat]
  /\ timer \in [Camera -> {"nil", "armed", "spent"}]
  /\ callbacks \in [Camera -> Nat]
  /\ run \in [Camera -> RunId \cup {NoRun}]
  /\ phase \in [RunId -> Phases]
  /\ camOf \in [RunId -> Camera \cup {NoCamera}]
  /\ cancelled \subseteq RunId
  /\ muxer \subseteq RunId
  /\ chan \in [RunId -> Nat]
  /\ closedChan \subseteq RunId \X Nat
  /\ pc \in [Viewer -> Holding \cup {"out", "routed"}]
  /\ vcam \in [Viewer -> Camera \cup {NoCamera}]
  /\ vrun \in [Viewer -> RunId \cup {NoRun}]
  /\ vchan \in [Viewer -> Nat]
  /\ closer \in {"open", "waiting", "returned"}

\* While the hub is open, a request that holds its camera finds a pull that is
\* alive, is that camera's and has not been cancelled, and the run it serves
\* from is still the camera's current one: no idle callback, however late,
\* takes the pull from under a viewer (acquire, release and the callback of
\* streamhub.go:137-144, with serve reading cam.run in a later section).
WatchedIsPulled ==
  ~closed =>
    \A v \in Viewer : pc[v] \in Holding =>
      LET r == run[vcam[v]] IN
        /\ r \in RunId \ cancelled
        /\ phase[r] # "off"
        /\ camOf[r] = vcam[v]
        /\ pc[v] \in Watching => vrun[v] = r

\* No pull leaks: one that has not been told to stop is its camera's current
\* one (so a camera has at most one), and when Close has returned there is
\* none left (the wg.Wait of streamhub.go:233 against late acquires).
NoLeakedPull ==
  /\ \A r \in RunId : phase[r] # "off" /\ r \notin cancelled => run[camOf[r]] = r
  /\ closer = "returned" => \A r \in RunId : phase[r] = "off"

\* The ready channel: closed exactly while the muxer exists, so that write
\* never closes it twice (a panic), and every channel a request may still be
\* waiting on is closed or is the one the next write closes (closeMuxer may
\* not swap an open channel away).
ReadyMatchesMuxer ==
  /\ \A r \in RunId : r \in muxer <=> <<r, chan[r]>> \in closedChan
  /\ \A v \in Viewer : pc[v] = "waiting" =>
       vchan[v] = chan[vrun[v]] \/ <<vrun[v], vchan[v]>> \in closedChan

\* The counters, timers and goroutines implement the promise of DemandPull.
Promise == INSTANCE DemandPull WITH
  watching <- [v \in Viewer |-> IF pc[v] \in Holding THEN vcam[v] ELSE NoCamera],
  pulled   <- {c \in Camera : run[c] # NoRun},
  shut     <- closed

\* Safety and liveness of the promise: a watched camera is pulled from the
\* step a viewer arrives, its pull ends only when nobody watches or on Close,
\* and an unwatched camera's pull is dropped in the end.
RefinesDemandPull == Promise!FairSpec

\* Close returns: every pull it waits for notices its cancelled context, also
\* one that was still dialling (streamhub.go:216-234).
CloseReturns == closed ~> closer = "returned"

\* Every HTTP request that Handler lets in is answered, whatever becomes of
\* the upstream: serve's loop cannot turn for ever.
RequestsAnswered == \A v \in Viewer : pc[v] # "out" ~> pc[v] = "out"
=============================================================================
