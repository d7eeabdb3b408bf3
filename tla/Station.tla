------------------------------ MODULE Station ------------------------------
(***************************************************************************)
(* How one door station's call button reaches the bell bus: by the INVITE  *)
(* of its SIP server, for which src/sip.go keeps a registration alive, and *)
(* by its HTTP event stream, which src/eventattach.go keeps attached.      *)
(*                                                                         *)
(* Time is in seconds and passes in steps of Second; whoever has waited    *)
(* long enough acts before it passes on.  The bus's debounce, which makes  *)
(* one ring of what both report, is Bell's; digest fields, SIP headers and *)
(* codes other than the button's are left out.                             *)
(***************************************************************************)
EXTENDS Integers

CONSTANTS
  Second,      \* step of the clock, no longer than the shortest wait
  Grants,      \* expiries the station grants, 0 when its answer has none
  MaxTrouble,  \* how often the station or the network fails
  MaxPresses   \* presses of the button

ASSUME StationAssumption ==
  /\ Second \in 1..5 /\ Grants \subseteq Nat
  /\ MaxTrouble \in Nat /\ MaxPresses \in Nat

VARIABLES
  station,   \* state: "well", "hung" or "off"; expiry: seconds left of our registration;
             \* named: its INVITEs come from an address that is some stream's Host
  sip,       \* registerLoop: pc, and the seconds left of its wait or request
  server,    \* SIPServer.Run: "listening", "deaf" (the listener exited), "returned"
  attach,    \* subscribeLoop: pc, left, and its connection
  press,     \* the last press: its INVITE, its event, whether Fire was called, and
             \* the ways that have to bring it (for the properties)
  calm,      \* the last grant, 0 since a registration failed (for the properties)
  stopped,   \* the context is cancelled
  trouble, presses   \* what is left of the bounds

stationVars == <<station, sip, server, attach, press, calm, stopped, trouble, presses>>

RegisterRefresh == 1800   RetryWait == 30   RequestTimeout == 10   ReconnectDelay == 5

NoPress == [invite |-> "none", event |-> "none", fired |-> FALSE, due |-> {}]

StationInit ==
  /\ \E named \in BOOLEAN : station = [state |-> "well", expiry |-> 0, named |-> named]
  /\ sip = [pc |-> "wait", left |-> 0]
  /\ server = "listening"
  /\ attach = [pc |-> "wait", left |-> 0, conn |-> "none"]
  /\ press = NoPress
  /\ calm = 0 /\ stopped = FALSE
  /\ trouble = MaxTrouble /\ presses = MaxPresses

\* Something goes wrong.
Trouble == trouble > 0 /\ trouble' = trouble - 1

-----------------------------------------------------------------------------
\* A plausible slip: the registration is refreshed when it expires.
RefreshAtExpiry(e) ==
  CASE e <= 0 -> RegisterRefresh [] e < 15 -> 15 [] e > RegisterRefresh -> RegisterRefresh
    [] OTHER -> e

\* Half the expiry, at least 15 s.
RefreshInterval(e) ==
  CASE e <= 0 -> RegisterRefresh
    [] e > 0 /\ e < 30 -> 15
    [] e \div 2 > RegisterRefresh -> RegisterRefresh
    [] OTHER -> e \div 2

\* The station keeps a registration for as long as it says, or as it was asked.
Expiry(e) == IF e = 0 THEN 3600 ELSE e

Registers ==
  /\ sip.pc = "wait" /\ sip.left = 0 /\ ~stopped
  /\ sip' = [pc |-> "ask", left |-> RequestTimeout]
  /\ UNCHANGED <<station, server, attach, press, calm, stopped, trouble, presses>>

\* A 401 with a challenge: the request goes out again, in the same time.
Challenged ==
  /\ sip.pc = "ask" /\ station.state = "well"
  /\ sip' = [sip EXCEPT !.pc = "auth"]
  /\ UNCHANGED <<station, server, attach, press, calm, stopped, trouble, presses>>

Granted ==
  /\ sip.pc \in {"ask", "auth"} /\ station.state = "well"
  /\ \E e \in Grants :
       /\ station' = [station EXCEPT !.expiry = Expiry(e)]
       /\ \/ /\ sip' = [pc |-> "wait", left |-> RefreshInterval(e)]
             /\ calm' = Expiry(e) /\ UNCHANGED trouble
          \/ /\ sip' = [pc |-> "lost", left |-> sip.left]   \* the answer is lost
             /\ Trouble /\ calm' = 0
  /\ UNCHANGED <<server, attach, press, stopped, presses>>

\* A plausible slip: a timeout is taken for the cancellation.
RegisterGivesUp ==
  /\ sip.pc \in {"ask", "auth", "lost"} /\ sip.left = 0
  /\ sip' = [pc |-> "ended", left |-> 0]
  /\ UNCHANGED <<station, server, attach, press, calm, stopped, trouble, presses>>

\* No answer in time, or nobody there; another status or no usable challenge.
RegisterFails ==
  /\ sip.pc \in {"ask", "auth", "lost"}
  /\ \/ /\ sip.left = 0 \/ station.state = "off"
        /\ sip.pc = "lost" \/ station.state # "well"
        /\ UNCHANGED <<calm, trouble>>
     \/ sip.pc # "lost" /\ station.state = "well" /\ Trouble /\ calm' = 0
  /\ sip' = [pc |-> "wait", left |-> RetryWait]
  /\ UNCHANGED <<station, server, attach, press, stopped, presses>>

RegisterEnds ==
  /\ stopped /\ sip.pc # "ended"
  /\ sip' = [pc |-> "ended", left |-> 0]
  /\ UNCHANGED <<station, server, attach, press, calm, stopped, trouble, presses>>

\* Run only logs that its listener is gone, ...
ListenerExits ==
  /\ server = "listening" /\ ~stopped
  /\ Trouble
  /\ server' = "deaf"
  /\ press' = [press EXCEPT !.due = @ \ {"invite"}]
  /\ UNCHANGED <<station, sip, attach, calm, stopped, presses>>

\* ... and returns once it is cancelled and its registration loops have ended.
ServerReturns ==
  /\ stopped /\ sip.pc = "ended" /\ server # "returned"
  /\ server' = "returned"
  /\ UNCHANGED <<station, sip, attach, press, calm, stopped, trouble, presses>>

-----------------------------------------------------------------------------
\* attachOnce dials and asks.
Dials ==
  /\ attach.pc = "wait" /\ attach.left = 0 /\ ~stopped
  /\ attach' = CASE station.state = "well" -> [pc |-> "ask", left |-> 0, conn |-> "live"]
                 [] station.state = "hung" -> [pc |-> "ask", left |-> 0, conn |-> "mute"]
                 [] station.state = "off"  -> [pc |-> "wait", left |-> ReconnectDelay, conn |-> "none"]
  /\ UNCHANGED <<station, sip, server, press, calm, stopped, trouble, presses>>

\* A challenge, and then the stream; some firmware streams at once.
Attaches ==
  /\ attach.pc \in {"ask", "auth"} /\ attach.conn = "live"
  /\ \E pc \in {"auth", "consume"} \ {attach.pc} : attach' = [attach EXCEPT !.pc = pc]
  /\ UNCHANGED <<station, sip, server, press, calm, stopped, trouble, presses>>

\* A plausible slip: who is registered leaves the press to the INVITE.
EventLeftToSIP ==
  /\ attach.pc = "consume" /\ attach.conn = "live" /\ press.event = "sent"
  /\ press' = [press EXCEPT !.event = "none", !.fired = @ \/ ~(station.expiry > 0)]
  /\ UNCHANGED <<station, sip, server, attach, calm, stopped, trouble, presses>>

\* consume: an event of the button.
EventArrives ==
  /\ attach.pc = "consume" /\ attach.conn = "live" /\ press.event = "sent"
  /\ press' = [press EXCEPT !.event = "none", !.fired = TRUE]
  /\ UNCHANGED <<station, sip, server, attach, calm, stopped, trouble, presses>>

\* The connection is gone, another status refused the request, or the station ended
\* the stream or sent a part of no length; what was under way is lost.
AttachFails ==
  /\ \/ attach.conn = "broken" /\ UNCHANGED trouble
     \/ attach.conn = "live" /\ Trouble
  /\ attach' = [pc |-> "wait", left |-> ReconnectDelay, conn |-> "none"]
  /\ press' = [press EXCEPT !.event = "none", !.due = @ \ {"event"}]
  /\ UNCHANGED <<station, sip, server, calm, stopped, presses>>

AttachEnds ==
  /\ stopped /\ attach.pc # "ended"
  /\ attach' = [pc |-> "ended", left |-> 0, conn |-> "none"]
  /\ press' = [press EXCEPT !.event = "none"]
  /\ UNCHANGED <<station, sip, server, calm, stopped, trouble, presses>>

\* No read has a deadline: the keepalive of TCP, which Go's transport turns on,
\* breaks a connection whose other end is gone.
PeerIsGone ==
  /\ attach.conn = "gone"
  /\ attach' = [attach EXCEPT !.conn = "broken"]
  /\ UNCHANGED <<station, sip, server, press, calm, stopped, trouble, presses>>

-----------------------------------------------------------------------------
Registered == station.expiry > 0
Attached == attach.pc = "consume" /\ attach.conn = "live"

\* The button: an INVITE to whoever is registered, an event to whoever is attached.
Press ==
  /\ station.state = "well" /\ presses > 0 /\ presses' = presses - 1
  /\ ~stopped /\ press.invite = "none" /\ press.event = "none"
  /\ press' = [invite |-> IF Registered THEN "sent" ELSE "none",
               event |-> IF Attached THEN "sent" ELSE "none",
               fired |-> FALSE,
               due |-> {way \in {"invite", "event"} :
                          IF way = "event" THEN Attached
                          ELSE Registered /\ server = "listening" /\ station.named}]
  /\ UNCHANGED <<station, sip, server, attach, calm, stopped, trouble>>

\* handleInvite: answered so that the station stops ringing, with 486 when it was
\* fired, with 404 when its source is nobody's Host.
InviteArrives ==
  /\ press.invite = "sent" /\ server = "listening"
  /\ press' = [press EXCEPT !.invite = "none", !.fired = @ \/ station.named]
  /\ UNCHANGED <<station, sip, server, attach, calm, stopped, trouble, presses>>

\* Nobody listens any more and the station gives up calling, or it calls no more.
InviteLost ==
  /\ press.invite = "sent" /\ (server # "listening" \/ station.state # "well")
  /\ press' = [press EXCEPT !.invite = "none"]
  /\ UNCHANGED <<station, sip, server, attach, calm, stopped, trouble, presses>>

\* The station hangs (its kernel goes on), loses power, or comes back: from power
\* off without our registration.
StationFails ==
  /\ Trouble /\ calm' = 0
  /\ press' = [press EXCEPT !.due = {}]
  /\ \/ station.state = "well" /\ station' = [station EXCEPT !.state = "hung"]
        /\ attach' = [attach EXCEPT !.conn = IF @ = "live" THEN "mute" ELSE @]
     \/ station.state # "off" /\ station' = [station EXCEPT !.state = "off", !.expiry = 0]
        /\ attach' = [attach EXCEPT !.conn = IF @ = "none" THEN @ ELSE "gone"]
  /\ UNCHANGED <<sip, server, stopped, presses>>

StationRecovers ==
  /\ station.state # "well" /\ station' = [station EXCEPT !.state = "well"]
  /\ attach' = [attach EXCEPT !.conn = IF @ = "mute" THEN "live" ELSE @]
  /\ UNCHANGED <<sip, server, press, calm, stopped, trouble, presses>>

Stop ==
  /\ ~stopped /\ stopped' = TRUE
  /\ press' = [press EXCEPT !.due = {}]
  /\ UNCHANGED <<station, sip, server, attach, calm, trouble, presses>>

\* Time passes, unless somebody's is up or an answer that will come is due.
Less(t) == IF t > Second THEN t - Second ELSE 0
SecondsPass ==
  /\ sip.pc # "ended" => sip.left > 0
  /\ attach.pc = "wait" => attach.left > 0
  /\ station' = [station EXCEPT !.expiry = Less(@)]
  /\ sip' = [sip EXCEPT !.left = Less(@)]
  /\ attach' = [attach EXCEPT !.left = Less(@)]
  /\ UNCHANGED <<server, press, calm, stopped, trouble, presses>>

-----------------------------------------------------------------------------
Loops ==
  \/ Registers \/ Challenged \/ Granted \/ RegisterFails \/ RegisterEnds \/ ServerReturns
  \/ Dials \/ Attaches \/ AttachFails \/ AttachEnds

StationNext ==
  \/ Loops \/ EventArrives \/ InviteArrives \/ InviteLost \/ ListenerExits
  \/ PeerIsGone \/ Press \/ StationFails \/ StationRecovers \/ Stop \/ SecondsPass

\* Time passes, goroutines run, what was sent arrives, the station is repaired.
Fairness ==
  /\ WF_stationVars(SecondsPass) /\ WF_stationVars(StationRecovers) /\ WF_stationVars(PeerIsGone)
  /\ WF_stationVars(Registers) /\ SF_stationVars(Granted)
  /\ WF_stationVars(RegisterFails) /\ WF_stationVars(RegisterEnds)
  /\ WF_stationVars(ServerReturns)
  /\ WF_stationVars(Dials) /\ SF_stationVars(Attaches)
  /\ WF_stationVars(AttachFails) /\ WF_stationVars(AttachEnds)
  /\ WF_stationVars(EventArrives) /\ WF_stationVars(InviteArrives) /\ WF_stationVars(InviteLost)

StationSpec == StationInit /\ [][StationNext]_stationVars /\ Fairness

-----------------------------------------------------------------------------
\* Grants of at least half a minute do not lapse between refreshes, as long as
\* no exchange fails, however much of its time a refresh takes (registerLoop and
\* refreshInterval, sip.go:198-252; shorter ones do lapse).
KeepsRegistered == calm >= 30 /\ ~stopped => Registered

\* In the end, whatever failed before, either we are attached again and the station
\* has granted us a registration again, or all has been shut down: every loop has ended
\* and Run has returned.  That somebody listens for its INVITEs is no part of it: a
\* listener that exits is not replaced (registerLoop, subscribeLoop, sip.go:167-177).
ListensAgain ==
  <>[](IF stopped THEN server = "returned" /\ attach.pc = "ended"
       ELSE Attached /\ calm > 0)

\* A press is fired whenever one of its two ways has to bring it, whatever becomes of
\* the other: an INVITE of a known source to a listener that stays, or an event on a
\* stream that does not end.  A listener that exits, a source that is not known or a
\* registration that lapses costs no press that the event stream brings, and the end
\* of that stream none that the INVITE brings (handleInvite, sip.go:179-196; consume,
\* eventattach.go:158-246; main.go:457-463).
PressesAreHeard == press.due # {} ~> press.fired \/ press.due = {}
=============================================================================
