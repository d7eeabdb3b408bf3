------------------------------ MODULE GateLink ------------------------------
(***************************************************************************)
(* src/centsys.go, the session of the gate: logins over the web save a     *)
(* session file, load it into c.creds and leave a token in c.reload, a     *)
(* channel of one; Run listens to the gate's telemetry with the creds it   *)
(* finds, and a goroutine of each follow waits for the token to end it.    *)
(* No lock is shared: creds is an atomic pointer.                          *)
(*                                                                         *)
(* A goroutine that waits in a select notices a cancelled context long     *)
(* before a backoff of five seconds is over (BackoffEnds).                 *)
(***************************************************************************)
CONSTANTS
  Session,     \* what logins yield
  NoSession,   \* no session file, or half of one; creds == nil
  Login        \* web requests that log in

ASSUME NilAssumption == NoSession \notin Session

VARIABLES
  file,       \* the session file
  creds,      \* c.creds
  reload,     \* c.reload holds a token
  pc,         \* where each login stands
  read,       \* the session a login has read back
  run,        \* where Run stands
  cr,         \* Run's local cr
  watcher,    \* the goroutine of the current follow waits for the token
  done,       \* the context of the current follow is cancelled
  leftover    \* the goroutine of the last follow has not noticed its end

loginVars == <<file, creds, pc, read>>
runVars   == <<run, cr, watcher, done, leftover>>
vars      == <<loginVars, reload, runVars>>

MaybeSession == Session \cup {NoSession}

\* NewCentsysController loads what there is.
Init ==
  /\ file \in MaybeSession
  /\ creds = file
  /\ reload = FALSE
  /\ pc = [l \in Login |-> "idle"]
  /\ read = [l \in Login |-> NoSession]
  /\ run = "check"
  /\ cr = NoSession
  /\ watcher = FALSE
  /\ done = FALSE
  /\ leftover = FALSE

Goto(l, from, to) ==
  /\ pc[l] = from
  /\ pc' = [pc EXCEPT ![l] = to]

-----------------------------------------------------------------------------
\* centsysCompleteLogin: the file is truncated and written in place, ...
LoginTruncates(l) ==
  /\ Goto(l, "idle", "writing")
  /\ file' = NoSession
  /\ UNCHANGED <<creds, read, reload, runVars>>

LoginWrites(l) ==
  /\ Goto(l, "writing", "saved")
  /\ file' \in Session
  /\ UNCHANGED <<creds, read, reload, runVars>>

\* ... or not to its end.
LoginFails(l) ==
  /\ Goto(l, "writing", "idle")
  /\ UNCHANGED <<file, creds, read, reload, runVars>>

\* load reads it back; what another login is writing does not parse.
LoadReads(l) ==
  /\ Goto(l, "saved", IF file = NoSession THEN "idle" ELSE "loaded")
  /\ read' = [read EXCEPT ![l] = file]
  /\ UNCHANGED <<file, creds, reload, runVars>>

\* load stores the creds, whatever was stored since it read the file ...
LoadStores(l) ==
  /\ Goto(l, "loaded", "stored")
  /\ creds' = read[l]
  /\ read' = [read EXCEPT ![l] = NoSession]
  /\ UNCHANGED <<file, reload, runVars>>

\* ... and Reload leaves a token, unless there is one.
ReloadWakes(l) ==
  /\ Goto(l, "stored", "idle")
  /\ reload' = TRUE
  /\ UNCHANGED <<file, creds, read, runVars>>

-----------------------------------------------------------------------------
RunGoes(from, to) == run = from /\ run' = to

\* Run's loop: without creds it waits for them, with creds it follows.
RunChecks ==
  /\ RunGoes("check", IF creds = NoSession THEN "dormant" ELSE "connecting")
  /\ cr' = creds
  /\ watcher' = (creds # NoSession)
  /\ done' = FALSE
  /\ UNCHANGED <<loginVars, reload, leftover>>

RunWakes ==
  /\ RunGoes("dormant", "check")
  /\ reload /\ reload' = FALSE
  /\ UNCHANGED <<loginVars, cr, watcher, done, leftover>>

\* A plausible slip: the goroutine takes the token and merely returns.
WatcherReturns ==
  /\ watcher /\ watcher' = FALSE
  /\ reload /\ reload' = FALSE
  /\ UNCHANGED <<loginVars, run, cr, done, leftover>>

\* follow's goroutine takes the token and cancels follow's context.
WatcherTakes ==
  /\ watcher /\ watcher' = FALSE
  /\ reload /\ reload' = FALSE
  /\ done' = TRUE
  /\ UNCHANGED <<loginVars, run, cr, leftover>>

\* A plausible slip: follow clears old tokens once it is connected.
ConnectsAfresh ==
  /\ RunGoes("connecting", "following")
  /\ reload' = FALSE
  /\ UNCHANGED <<loginVars, cr, watcher, done, leftover>>

\* follow dials, connects and subscribes, ...
Connects ==
  /\ RunGoes("connecting", "following")
  /\ UNCHANGED <<loginVars, reload, cr, watcher, done, leftover>>

\* follow returns; its deferred cancel leaves the goroutine to notice.
FollowReturns(from, to) ==
  /\ RunGoes(from, to)
  /\ leftover' = watcher
  /\ watcher' = FALSE
  /\ done' = FALSE
  /\ UNCHANGED <<loginVars, reload, cr>>

\* ... which fails, because of the network or of the context, ...
ConnectFails == FollowReturns("connecting", "backoff")

\* ... is lost later on, ...
ConnectionLost == FollowReturns("following", "backoff")

\* ... or ends with its context, and Run goes on at once.
FollowEnds == done /\ FollowReturns("following", "check")

\* The goroutine of a follow that has returned finds both of its channels
\* ready, if there is a token, and takes either.
LeftoverTakes ==
  /\ leftover /\ leftover' = FALSE
  /\ reload /\ reload' = FALSE
  /\ UNCHANGED <<loginVars, run, cr, watcher, done>>

LeftoverEnds ==
  /\ leftover /\ leftover' = FALSE
  /\ UNCHANGED <<loginVars, reload, run, cr, watcher, done>>

\* Long after the goroutine of the last follow has ended.
BackoffEnds ==
  /\ ~leftover
  /\ RunGoes("backoff", "check")
  /\ UNCHANGED <<loginVars, reload, cr, watcher, done, leftover>>

\* The process stops and starts again.
Restart ==
  /\ creds' = file
  /\ reload' = FALSE
  /\ pc' = [l \in Login |-> "idle"]
  /\ read' = [l \in Login |-> NoSession]
  /\ run' = "check"
  /\ cr' = NoSession
  /\ watcher' = FALSE
  /\ done' = FALSE
  /\ leftover' = FALSE
  /\ UNCHANGED file

-----------------------------------------------------------------------------
LoginGoesOn(l) ==
  LoginWrites(l) \/ LoginFails(l) \/ LoadReads(l) \/ LoadStores(l) \/ ReloadWakes(l)

Listen ==
  \/ RunChecks
  \/ RunWakes
  \/ WatcherTakes
  \/ Connects
  \/ ConnectFails
  \/ ConnectionLost
  \/ FollowEnds
  \/ LeftoverTakes
  \/ LeftoverEnds
  \/ BackoffEnds

Next ==
  \/ \E l \in Login : LoginTruncates(l) \/ LoginGoesOn(l)
  \/ Listen
  \/ Restart

Spec == Init /\ [][Next]_vars

\* Goroutines that can go on do.  Neither a login nor the network has to: a
\* connection may be up or hang for ever, but not against its context.
FairSpec ==
  /\ Spec
  /\ \A l \in Login : WF_vars(LoginGoesOn(l))
  /\ WF_vars(RunChecks) /\ WF_vars(RunWakes) /\ WF_vars(BackoffEnds)
  /\ WF_vars(WatcherTakes) /\ WF_vars(LeftoverTakes \/ LeftoverEnds)
  /\ WF_vars(done /\ ConnectFails) /\ WF_vars(FollowEnds)

-----------------------------------------------------------------------------
\* Every variable has its type.
TypeOK ==
  /\ file \in MaybeSession
  /\ creds \in MaybeSession
  /\ reload \in BOOLEAN
  /\ pc \in [Login -> {"idle", "writing", "saved", "loaded", "stored"}]
  /\ read \in [Login -> MaybeSession]
  /\ run \in {"check", "dormant", "connecting", "following", "backoff"}
  /\ cr \in MaybeSession
  /\ watcher \in BOOLEAN
  /\ done \in BOOLEAN
  /\ leftover \in BOOLEAN

\* Run never rests, waiting for a login or on a connection, with other creds
\* than the controller's, unless it is about to be told: there is a token, it
\* was taken and the context cancelled, or a login is about to leave one
\* (Reload, follow's goroutine, Run).
NoLostWakeup ==
  run \in {"dormant", "connecting", "following"} /\ cr # creds =>
    reload \/ done \/ \E l \in Login : pc[l] = "stored"

\* Once a session is loaded the listener comes to use it, unless another takes
\* its place: "wakes the status listener, so the gate goes live without a
\* restart" (centsys.go:169-170).
NewLoginIsFollowed ==
  \A s \in Session :
    creds = s ~> creds # s \/ (cr = s /\ run \in {"connecting", "following"})
=============================================================================
