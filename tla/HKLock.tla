------------------------------- MODULE HKLock -------------------------------
(***************************************************************************)
(* src/hklock.go: the HomeKit tile of a door whose relay only pulses.  An  *)
(* unlock opens the door, shows Unsecured and arms a timer that shows      *)
(* Secured again.  Each paired controller writes on its own goroutine and  *)
(* each timer callback is one more; only the timer handle is under a lock. *)
(***************************************************************************)
EXTENDS FiniteSets

CONSTANTS
  Controller,   \* goroutines of the paired controllers' connections
  TimerId,      \* identities of relock timers; one that is over is reused
  NoTimer       \* cancelPending == nil

ASSUME NoTimerAssumption == NoTimer \notin TimerId

VARIABLES
  current,   \* LockCurrentState, the tile
  target,    \* LockTargetState
  timer,     \* each timer: idle, armed, or where its callback stands
  pending,   \* the timer cancelPending stops
  pc         \* where each controller's write stands

vars == <<current, target, timer, pending, pc>>

Init ==
  /\ current = "secured"
  /\ target = "secured"
  /\ timer = [t \in TimerId |-> "idle"]
  /\ pending = NoTimer
  /\ pc = [k \in Controller |-> "idle"]

Goto(k, from, to) ==
  /\ pc[k] = from
  /\ pc' = [pc EXCEPT ![k] = to]

\* A plausible slip: the handle is replaced without stopping its timer.
StoppedForgets(tm) == tm

\* cancelLocked on the timers: an armed one never fires; one whose callback
\* has started is not stopped by it.
Stopped(tm) ==
  [t \in TimerId |-> IF t = pending /\ tm[t] = "armed" THEN "idle" ELSE tm[t]]

-----------------------------------------------------------------------------
\* setTarget(Unsecured): unlock calls doors.Open ...
UnlockBegins(k) ==
  /\ Goto(k, "idle", "opening")
  /\ UNCHANGED <<current, target, timer, pending>>

\* ... which fails within its timeout, and the tile is left alone ...
OpenFails(k) ==
  /\ Goto(k, "opening", "idle")
  /\ UNCHANGED <<current, target, timer, pending>>

\* ... or pulses the relay, at which point the relay's window is open, ...
OpenSucceeds(k) ==
  /\ Goto(k, "opening", "opened")
  /\ UNCHANGED <<current, target, timer, pending>>

\* ... shows Unsecured ...
ShowUnsecured(k) ==
  /\ Goto(k, "opened", "shown")
  /\ current' = "unsecured"
  /\ UNCHANGED <<target, timer, pending>>

\* A plausible slip: only the first unlock arms a timer.
ScheduleOnce(k) ==
  /\ Goto(k, "shown", "unlocked")
  /\ \E t \in TimerId :
       /\ timer[t] = "idle"
       /\ IF pending = NoTimer
            THEN timer' = [timer EXCEPT ![t] = "armed"] /\ pending' = t
            ELSE UNCHANGED <<timer, pending>>
  /\ UNCHANGED <<current, target>>

\* ... and scheduleRelock, under mu: the pending timer stopped, a new one armed.
ScheduleRelock(k) ==
  /\ Goto(k, "shown", "unlocked")
  /\ \E t \in TimerId :
       /\ timer[t] = "idle"
       /\ timer' = [Stopped(timer) EXCEPT ![t] = "armed"]
       /\ pending' = t
  /\ UNCHANGED <<current, target>>

\* setTarget(Secured): secure cancels the pending timer under mu ...
SecureCancels(k) ==
  /\ Goto(k, "idle", "securing")
  /\ timer' = Stopped(timer)
  /\ pending' = NoTimer
  /\ UNCHANGED <<current, target>>

\* A plausible slip: secure leaves the tile to the timer it has cancelled.
SecureLeavesTile(k) ==
  /\ Goto(k, "securing", "locked")
  /\ UNCHANGED <<current, target, timer, pending>>

\* ... and settles the tile after giving mu back.
SecureSettles(k) ==
  /\ Goto(k, "securing", "locked")
  /\ current' = "secured"
  /\ UNCHANGED <<target, timer, pending>>

\* The HAP library stores the value written once setTarget has returned nil.
StoreTarget(k) ==
  /\ \/ Goto(k, "unlocked", "idle") /\ target' = "unsecured"
     \/ Goto(k, "locked", "idle") /\ target' = "secured"
  /\ UNCHANGED <<current, timer, pending>>

\* A relock timer expires and its callback starts.
Fires(t) ==
  /\ timer[t] = "armed"
  /\ timer' = [timer EXCEPT ![t] = "fired"]
  /\ UNCHANGED <<current, target, pending, pc>>

\* The callback settles the tile, without mu and without looking ...
RelockCurrent(t) ==
  /\ timer[t] = "fired"
  /\ current' = "secured"
  /\ timer' = [timer EXCEPT ![t] = "relocking"]
  /\ UNCHANGED <<target, pending, pc>>

\* ... and then the target.  It leaves cancelPending as it is.
RelockTarget(t) ==
  /\ timer[t] = "relocking"
  /\ target' = "secured"
  /\ timer' = [timer EXCEPT ![t] = "idle"]
  /\ UNCHANGED <<current, pending, pc>>

-----------------------------------------------------------------------------
WriteGoesOn(k) ==
  \/ OpenFails(k)
  \/ OpenSucceeds(k)
  \/ ShowUnsecured(k)
  \/ ScheduleRelock(k)
  \/ SecureSettles(k)
  \/ StoreTarget(k)

TimerGoesOn(t) == Fires(t) \/ RelockCurrent(t) \/ RelockTarget(t)

Next ==
  \/ \E k \in Controller : UnlockBegins(k) \/ SecureCancels(k) \/ WriteGoesOn(k)
  \/ \E t \in TimerId : TimerGoesOn(t)

Spec == Init /\ [][Next]_vars

\* A write that has begun comes to an end (doors.Open has a deadline), armed
\* timers fire and callbacks run.  Nobody has to write.
Fairness ==
  /\ \A k \in Controller : WF_vars(WriteGoesOn(k))
  /\ \A t \in TimerId : WF_vars(TimerGoesOn(t))

FairSpec == Spec /\ Fairness

-----------------------------------------------------------------------------
Tile == {"secured", "unsecured"}

\* Every variable has its type.
TypeOK ==
  /\ current \in Tile
  /\ target \in Tile
  /\ timer \in [TimerId -> {"idle", "armed", "fired", "relocking"}]
  /\ pending \in TimerId \cup {NoTimer}
  /\ pc \in [Controller ->
       {"idle", "opening", "opened", "shown", "unlocked", "securing", "locked"}]

\* However the controllers' unlocks interleave, at most one timer is armed and
\* it is the one the handle stops (hklock.go:108-132: "restarts the timer
\* rather than stacking").
OneLiveTimer == \A t \in TimerId : timer[t] = "armed" => pending = t

\* The tile never stays Unsecured with nobody left to settle it: a timer is
\* armed or its callback is about to, or an unlock is about to arm one, or a
\* secure that cancelled it is about to settle the tile itself.
UnsecuredIsOwned ==
  current = "unsecured" =>
    \/ \E t \in TimerId : timer[t] \in {"armed", "fired"}
    \/ \E k \in Controller : pc[k] \in {"shown", "securing"}

Quiet == \A k \in Controller : pc[k] = "idle"

\* Once the controllers leave the door alone the tile settles at Secured and
\* stays there, whatever stale callbacks are still to run.
RelocksWhenQuiet == <>[]Quiet => <>[](current = "secured")

\* hklock.go:108-110, "concurrent unlocks extend the window instead of one of
\* them slamming the tile back to Secured while another's relay window is
\* still open": a callback settles the tile only when no timer of a later
\* unlock is running.
NoSlam ==
  [][\A t \in TimerId :
       timer[t] = "fired" /\ timer'[t] = "relocking" =>
         \A u \in TimerId : timer[u] # "armed"]_vars
=============================================================================
