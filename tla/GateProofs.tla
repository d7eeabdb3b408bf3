----------------------------- MODULE GateProofs -----------------------------
(***************************************************************************)
(* Proofs about the gate: about GateLink for any sessions and any number   *)
(* of logins, and about GateTile for any number of HomeKit controllers.    *)
(***************************************************************************)
EXTENDS GateLink, GateTile, TLAPS

Following == run \in {"connecting", "following"}

\* At most one goroutine competes with Run for the token: that of the follow
\* under way while it is not cancelled, or that of the last one in a backoff.
OneTaker ==
  /\ watcher => Following /\ ~done
  /\ done => Following
  /\ leftover => run = "backoff"

LinkInv == TypeOK /\ OneTaker /\ NoLostWakeup

\* A controller that was just built satisfies the invariant.
LEMMA InitLinkInv == Init => LinkInv
BY DEF Init, LinkInv, TypeOK, OneTaker, Following, NoLostWakeup, MaybeSession

\* A login's steps keep it: whoever stores creds is about to leave a token.
LEMMA LoginLinkInv ==
  ASSUME LinkInv, NEW l \in Login, LoginTruncates(l) \/ LoginGoesOn(l)
  PROVE  LinkInv'
<1> USE DEF LinkInv, Goto, loginVars, runVars
<1>1. TypeOK'
  <2>1. CASE LoginTruncates(l) \/ LoginFails(l)
    BY <2>1 DEF LoginTruncates, LoginFails, TypeOK, MaybeSession
  <2>2. CASE LoginWrites(l)
    BY <2>2 DEF LoginWrites, TypeOK, MaybeSession
  <2>3. CASE LoadReads(l)
    BY <2>3 DEF LoadReads, TypeOK, MaybeSession
  <2>4. CASE LoadStores(l)
    BY <2>4 DEF LoadStores, TypeOK, MaybeSession
  <2>5. CASE ReloadWakes(l)
    BY <2>5 DEF ReloadWakes, TypeOK
  <2>6. QED
    BY <2>1, <2>2, <2>3, <2>4, <2>5 DEF LoginGoesOn
<1>2. OneTaker'
  BY DEF LoginGoesOn, LoginTruncates, LoginWrites, LoginFails, LoadReads, LoadStores,
         ReloadWakes, OneTaker, Following
<1>3. CASE LoadStores(l)
  <2>1. pc'[l] = "stored"
    BY <1>3 DEF LoadStores, TypeOK
  <2>2. QED
    BY <1>1, <1>2, <2>1 DEF NoLostWakeup
<1>4. CASE ReloadWakes(l)
  BY <1>1, <1>2, <1>4 DEF ReloadWakes, NoLostWakeup
<1>5. CASE LoginTruncates(l) \/ LoginWrites(l) \/ LoginFails(l) \/ LoadReads(l)
  <2>1. UNCHANGED <<creds, reload, run, cr, done>>
    BY <1>5 DEF LoginTruncates, LoginWrites, LoginFails, LoadReads
  <2>2. \A k \in Login : pc[k] = "stored" => pc'[k] = "stored"
    BY <1>5 DEF LoginTruncates, LoginWrites, LoginFails, LoadReads, TypeOK
  <2>3. QED
    BY <1>1, <1>2, <2>1, <2>2 DEF NoLostWakeup
<1>6. QED
  BY <1>3, <1>4, <1>5 DEF LoginGoesOn

\* So do Run and the goroutines of its follows: the token is taken by Run, by
\* a goroutine that cancels its follow, or in a backoff, where Run does not wait.
LEMMA ListenLinkInv ==
  ASSUME LinkInv, Listen
  PROVE  LinkInv'
<1> USE DEF LinkInv, RunGoes, FollowReturns, loginVars
<1>1. TypeOK'
  BY DEF Listen, RunChecks, RunWakes, WatcherTakes, Connects, ConnectFails, ConnectionLost,
         FollowEnds, LeftoverTakes, LeftoverEnds, BackoffEnds, TypeOK, MaybeSession
<1>2. OneTaker'
  BY DEF Listen, RunChecks, RunWakes, WatcherTakes, Connects, ConnectFails, ConnectionLost,
         FollowEnds, LeftoverTakes, LeftoverEnds, BackoffEnds, OneTaker, Following, TypeOK
<1>3. NoLostWakeup'
  BY DEF Listen, RunChecks, RunWakes, WatcherTakes, Connects, ConnectFails, ConnectionLost,
         FollowEnds, LeftoverTakes, LeftoverEnds, BackoffEnds, OneTaker, Following, NoLostWakeup
<1>4. QED
  BY <1>1, <1>2, <1>3

\* A new process starts over with what the file holds.
LEMMA RestartLinkInv ==
  ASSUME LinkInv, Restart
  PROVE  LinkInv'
BY DEF LinkInv, Restart, TypeOK, OneTaker, Following, NoLostWakeup, MaybeSession

\* LinkInv is an invariant of the gate's listener.
THEOREM LinkInductive == Spec => []LinkInv
<1>1. LinkInv /\ [Next]_vars => LinkInv'
  <2>1. LinkInv /\ UNCHANGED vars => LinkInv'
    BY DEF LinkInv, vars, loginVars, runVars, TypeOK, OneTaker, Following, NoLostWakeup
  <2>2. QED
    BY <2>1, LoginLinkInv, ListenLinkInv, RestartLinkInv DEF Next
<1>2. QED
  BY <1>1, InitLinkInv, PTL DEF Spec

\* Nobody waits on old creds without being told, however many logins race each
\* other, the goroutines of follow and Run for the token (Reload, follow, Run).
THEOREM WakeupsAreNotLost == Spec => []NoLostWakeup
<1>1. LinkInv => NoLostWakeup
  BY DEF LinkInv
<1>2. QED
  BY <1>1, LinkInductive, PTL

\* Whatever the token is for finds somebody to take it: in every follow its goroutine
\* waits for one or has had one and cancelled the follow.
FollowCanBeEnded == Following => watcher \/ done

\* A listener that has other creds than the controller's, and rests, has been
\* told so, or is just about to be: there is a token with somebody to take it, or
\* one was taken and the follow is ending, or a login is about to leave one
\* (Reload, Run and follow, centsys.go:171-180, 437-482).
THEOREM WakeupsAreTaken ==
  Spec => [](run \in {"dormant", "connecting", "following"} /\ cr # creds =>
               \/ reload /\ (run = "dormant" \/ watcher)
               \/ done
               \/ \E l \in Login : pc[l] = "stored")
<1>1. Init => FollowCanBeEnded
  BY DEF Init, FollowCanBeEnded, Following
<1>2. LinkInv /\ FollowCanBeEnded /\ [Next]_vars => FollowCanBeEnded'
  <2> SUFFICES ASSUME LinkInv, FollowCanBeEnded, [Next]_vars PROVE FollowCanBeEnded'
    OBVIOUS
  <2>1. CASE Listen
    BY <2>1 DEF Listen, RunChecks, RunWakes, WatcherTakes, Connects, ConnectFails, ConnectionLost,
       FollowEnds, LeftoverTakes, LeftoverEnds, BackoffEnds, RunGoes, FollowReturns,
       FollowCanBeEnded, Following
  <2>2. ASSUME NEW l \in Login, LoginTruncates(l) \/ LoginGoesOn(l) PROVE FollowCanBeEnded'
    <3>1. UNCHANGED runVars
      BY <2>2 DEF LoginGoesOn, LoginTruncates, LoginWrites, LoginFails, LoadReads, LoadStores,
         ReloadWakes
    <3> QED
      BY <3>1 DEF runVars, FollowCanBeEnded, Following
  <2>3. CASE Restart
    BY <2>3 DEF Restart, FollowCanBeEnded, Following
  <2>4. CASE UNCHANGED vars
    BY <2>4 DEF vars, runVars, FollowCanBeEnded, Following
  <2> QED
    BY <2>1, <2>2, <2>3, <2>4 DEF Next
<1>3. LinkInv /\ FollowCanBeEnded =>
        (run \in {"dormant", "connecting", "following"} /\ cr # creds =>
           \/ reload /\ (run = "dormant" \/ watcher)
           \/ done
           \/ \E l \in Login : pc[l] = "stored")
  BY DEF LinkInv, NoLostWakeup, FollowCanBeEnded, Following
<1> QED
  BY <1>1, <1>2, <1>3, LinkInductive, PTL DEF Spec

-----------------------------------------------------------------------------
\* An update under way is about the current status, and shows it bit by bit:
\* telemetry is handled one frame at a time.
UpdateInv ==
  /\ update.at = "none" => update = NoUpdate
  /\ update.at # "none" => update.s = status /\ status \in Position
  /\ update.at = "target" =>
       Heading(status) # {} /\ ("current" \notin guess => current = status)

TileInv == TileTypes /\ UpdateInv /\ TileIsToldOrGuessed

\* What the tile can show of a status.
LEMMA HeadingIsTarget == \A s \in Position : Heading(s) \subseteq Target
BY DEF Heading, Position, Target

\* A freshly built accessory satisfies the invariant.
LEMMA InitTileInv == TileInit => TileInv
BY DEF TileInit, TileInv, TileTypes, UpdateInv, TileIsToldOrGuessed, NoUpdate, NoFrame, Frame,
       Position, Target

\* What the gate does and sends does not concern the tile.
LEMMA GateTileInv ==
  ASSUME TileInv, GateMoves \/ Reports \/ Babbles \/ FrameLost
  PROVE  TileInv'
<1>1. UNCHANGED <<status, update, current, target, guess, writing, want>>
  BY DEF GateMoves, Reports, Babbles, FrameLost, tileVars, writeVars
<1>2. TileTypes'
  BY <1>1 DEF TileInv, TileTypes, GateMoves, Reports, Babbles, FrameLost, Toggled, Arrived,
              Frame, NoFrame, Position
<1>3. QED
  BY <1>1, <1>2 DEF TileInv, UpdateInv, TileIsToldOrGuessed

\* A frame that changes the status begins an update about that status.
LEMMA ReceiveTileInv ==
  ASSUME TileInv, Receive
  PROVE  TileInv'
<1> DEFINE s == Decoded(frame)
<1>1. s \in Position \cup {"unknown"} /\ UNCHANGED <<gate, current, target, guess, writing, want>>
  BY DEF TileInv, TileTypes, Receive, Decoded, Frame, NoFrame, Position, tileVars, writeVars
<1>2. CASE s \in {"unknown", status}
  <2>1. UNCHANGED <<status, update>> /\ frame' = NoFrame
    BY <1>2 DEF Receive
  <2>2. QED
    BY <1>1, <2>1 DEF TileInv, TileTypes, UpdateInv, TileIsToldOrGuessed
<1>3. CASE s \notin {"unknown", status}
  <2>1. status' = s /\ update' = [at |-> "current", s |-> s] /\ frame' = NoFrame
    BY <1>3 DEF Receive
  <2>2. QED
    BY <1>1, <1>3, <2>1 DEF TileInv, TileTypes, UpdateInv, TileIsToldOrGuessed, NoUpdate
<1>4. QED
  BY <1>2, <1>3

\* The two steps of an update bring the tile to the status.
LEMMA UpdateTileInv ==
  ASSUME TileInv, UpdateCurrent \/ UpdateTarget
  PROVE  TileInv'
<1>1. CASE UpdateCurrent
  <2>1. update.s = status /\ status \in Position
    BY <1>1 DEF UpdateCurrent, TileInv, UpdateInv
  <2>2. TileTypes'
    BY <1>1, <2>1 DEF UpdateCurrent, TileInv, TileTypes, NoUpdate, writeVars
  <2>3. current' = status' /\ status' = status
    BY <1>1, <2>1 DEF UpdateCurrent
  <2>4. CASE Heading(status) = {}
    <3>1. update' = NoUpdate
      BY <1>1, <2>1, <2>4 DEF UpdateCurrent
    <3>2. QED
      BY <2>2, <2>3, <2>4, <3>1 DEF TileInv, UpdateInv, TileIsToldOrGuessed, NoUpdate
  <2>5. CASE Heading(status) # {}
    <3>1. update' = [update EXCEPT !.at = "target"]
      BY <1>1, <2>1, <2>5 DEF UpdateCurrent
    <3>2. update'.at = "target" /\ update'.s = status'
      BY <2>1, <2>3, <3>1 DEF TileInv, TileTypes
    <3>3. QED
      BY <2>1, <2>2, <2>3, <2>5, <3>2 DEF TileInv, UpdateInv, TileIsToldOrGuessed, NoUpdate
  <2>6. QED
    BY <2>4, <2>5
<1>2. CASE UpdateTarget
  <2>1. update.s = status /\ status \in Position /\ ("current" \notin guess => current = status)
    BY <1>2 DEF UpdateTarget, TileInv, UpdateInv
  <2>2. TileTypes'
    BY <1>2, <2>1, HeadingIsTarget DEF UpdateTarget, TileInv, TileTypes, NoUpdate, writeVars
  <2>3. UpdateInv' /\ TileIsToldOrGuessed'
    BY <1>2, <2>1 DEF UpdateTarget, UpdateInv, TileIsToldOrGuessed, NoUpdate
  <2>4. QED
    BY <2>2, <2>3 DEF TileInv
<1>3. QED
  BY <1>1, <1>2

\* Whatever a write shows, it is remembered as a guess.
LEMMA WriteTileInv ==
  ASSUME TileInv, NEW k \in Controller, TargetBegins(k) \/ WriteGoesOn(k)
  PROVE  TileInv'
<1> USE DEF WriteGoes, tileVars
<1>1. TileTypes'
  <2>1. CASE TargetBegins(k)
    BY <2>1 DEF TileInv, TileTypes, TargetBegins, Position, Target
  <2>2. CASE OpenFails(k)
    BY <2>2 DEF TileInv, TileTypes, OpenFails, Position, Target
  <2>3. CASE Triggers(k)
    BY <2>3 DEF TileInv, TileTypes, Triggers, Toggled, Position, Target
  <2>4. CASE AnswerLost(k)
    BY <2>4 DEF TileInv, TileTypes, AnswerLost, Toggled, Position, Target
  <2>5. CASE ShowsMotion(k)
    BY <2>5 DEF TileInv, TileTypes, ShowsMotion, Guessed, Position, Target
  <2>6. CASE StoreTarget(k)
    BY <2>6 DEF TileInv, TileTypes, StoreTarget, Guessed, Position, Target
  <2>7. QED
    BY <2>1, <2>2, <2>3, <2>4, <2>5, <2>6 DEF WriteGoesOn
<1>2. CASE ShowsMotion(k)
  BY <1>1, <1>2 DEF ShowsMotion, TileInv, UpdateInv, TileIsToldOrGuessed
<1>3. CASE StoreTarget(k)
  BY <1>1, <1>3 DEF StoreTarget, TileInv, UpdateInv, TileIsToldOrGuessed
<1>4. CASE TargetBegins(k) \/ Triggers(k) \/ OpenFails(k) \/ AnswerLost(k)
  <2>1. UNCHANGED <<status, update, current, target, guess>>
    BY <1>4 DEF TargetBegins, Triggers, OpenFails, AnswerLost
  <2>2. QED
    BY <1>1, <2>1 DEF TileInv, UpdateInv, TileIsToldOrGuessed
<1>5. QED
  BY <1>2, <1>3, <1>4 DEF WriteGoesOn

\* TileInv is an invariant of the gate's tile.
THEOREM TileInductive == TileSpec => []TileInv
<1>1. TileInv /\ [TileNext]_gateTileVars => TileInv'
  <2>1. TileInv /\ UNCHANGED gateTileVars => TileInv'
    BY DEF TileInv, gateTileVars, tileVars, writeVars, TileTypes, UpdateInv, TileIsToldOrGuessed
  <2>2. QED
    BY <2>1, GateTileInv, ReceiveTileInv, UpdateTileInv, WriteTileInv DEF TileNext
<1>2. QED
  BY <1>1, InitTileInv, PTL DEF TileSpec

\* Between updates the tile shows what telemetry said last, or a guess of a
\* write since then, and so does its target (apply, setTarget).
THEOREM TileIsTold == TileSpec => []TileIsToldOrGuessed
<1>1. TileInv => TileIsToldOrGuessed
  BY DEF TileInv
<1>2. QED
  BY <1>1, TileInductive, PTL
=============================================================================
