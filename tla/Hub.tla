-------------------------------- MODULE Hub --------------------------------
(***************************************************************************)
(* src/hub.go: the reader that feeds one stream's shared tracks, replaced  *)
(* when somebody picks another quality, and the sessions of browsers.      *)
(* Streams share nothing but the sessions, and one is modelled; a session  *)
(* is its PeerConnection and its entry in the map.                         *)
(***************************************************************************)
EXTENDS RTSPReader

CONSTANTS
  Setter,       \* requests of /stream/quality
  Session,      \* sessions of browsers, their ids taken not to collide
  MaxSwitches   \* how many switches are asked for

\* Who holds a mutex that is free.
Free == "free"

ASSUME HubAssumption == MaxSwitches \in Nat /\ Reader # {} /\ Free \notin Setter

Quality == {"sd", "hd"}

VARIABLES
  runner,     \* streamRunner: current (whose cancel and done it has), quality, holder
  setter,     \* where each request is, and the quality it wants
  switches,   \* what is left of MaxSwitches
  stopped,    \* the parent context is cancelled
  session     \* each session: pc (the connection), known (in Hub.sessions),
              \* remote (it has an answer), reaper, answer and drop (their goroutines)

hubVars == <<runner, setter, switches, stopped>>
vars == <<rtspVars, hubVars, session>>

NoSession == [pc |-> "none", known |-> FALSE, remote |-> FALSE, reaper |-> "off",
              answer |-> "idle", drop |-> "no"]

\* NewHub starts every stream's reader in HD.
Init ==
  /\ runner = [current |-> CHOOSE r \in Reader : TRUE, quality |-> "hd", holder |-> Free]
  /\ reader = [r \in Reader |-> IF r = runner.current THEN Started("hd") ELSE Ended]
  /\ camera = "well" /\ trouble = MaxTrouble
  /\ setter = [p \in Setter |-> [pc |-> "idle", want |-> "hd"]]
  /\ switches = MaxSwitches /\ stopped = FALSE
  /\ session = [s \in Session |-> NoSession]

-----------------------------------------------------------------------------
SetQuality(p, q) ==
  /\ setter[p].pc = "idle" /\ switches > 0
  /\ switches' = switches - 1
  /\ setter' = [setter EXCEPT ![p] = [pc |-> "lock", want |-> q]]
  /\ UNCHANGED <<rtspVars, runner, stopped, session>>

SetterAt(p, pc) == setter' = [setter EXCEPT ![p].pc = pc]

\* startReader: the stream has that quality already.
SwitchIsNoop(p) ==
  /\ setter[p].pc = "lock" /\ runner.holder = Free
  /\ runner.quality = setter[p].want
  /\ SetterAt(p, "idle")
  /\ UNCHANGED <<rtspVars, runner, switches, stopped, session>>

\* The reader is cancelled, runner.mu kept.
SwitchCancels(p) ==
  /\ setter[p].pc = "lock" /\ runner.holder = Free
  /\ runner.quality # setter[p].want
  /\ runner' = [runner EXCEPT !.holder = p]
  /\ Set(runner.current, IF runner.current \in Alive
                         THEN [reader[runner.current] EXCEPT !.cancelled = TRUE] ELSE Ended)
  /\ SetterAt(p, "wait")
  /\ UNCHANGED <<camera, trouble, switches, stopped, session>>

Starts(p) ==
  LET r == CHOOSE r \in Reader : r \notin Alive IN
  /\ Set(r, [Started(setter[p].want) EXCEPT !.cancelled = stopped])
  /\ runner' = [current |-> r, quality |-> setter[p].want, holder |-> Free]
  /\ SetterAt(p, "idle")
  /\ UNCHANGED <<camera, trouble, switches, stopped, session>>

\* A plausible slip: the new reader does not wait for the old one's end.
StartsAtOnce(p) == setter[p].pc = "wait" /\ Alive # Reader /\ Starts(p)

\* Once done is closed, the new reader is started, on the parent context.
SwitchStarts(p) ==
  /\ setter[p].pc = "wait" /\ runner.current \notin Alive
  /\ Starts(p)

\* The process is told to stop.
Stop ==
  /\ ~stopped /\ stopped' = TRUE
  /\ reader' = [r \in Reader |-> IF r \in Alive THEN [reader[r] EXCEPT !.cancelled = TRUE]
                                 ELSE Ended]
  /\ UNCHANGED <<camera, trouble, runner, setter, switches, session>>

-----------------------------------------------------------------------------
Changes(s, new) ==
  session' = [session EXCEPT ![s] = new] /\ UNCHANGED <<rtspVars, hubVars>>

\* HandleOffer: the session is in the map and its reaper armed before the
\* browser learns of it.
Offer(s) ==
  /\ session[s].pc = "none"
  /\ Changes(s, [NoSession EXCEPT !.pc = "open", !.known = TRUE, !.reaper = "armed"])

\* HandleAnswer looks the session up, ...
AnswerFinds(s) ==
  /\ session[s].known /\ session[s].answer = "idle"
  /\ Changes(s, [session[s] EXCEPT !.answer = "found"])

\* ... and sets the answer, which a closed connection or one that has an answer
\* refuses.
AnswerSets(s) ==
  /\ session[s].answer = "found"
  /\ Changes(s, [session[s] EXCEPT !.answer = "idle",
                                   !.remote = @ \/ session[s].pc = "open"])

\* A plausible slip: the reaper only forgets who was answered.
ReaperForgets(s) ==
  /\ session[s].reaper = "armed"
  /\ Changes(s, [session[s] EXCEPT !.reaper = "off",
                                   !.known = @ /\ session[s].remote])

\* The reaper, sessionAnswerTimeout after the offer.
ReaperLooks(s) ==
  /\ session[s].reaper = "armed"
  /\ Changes(s, [session[s] EXCEPT !.reaper = "off",
                                   !.drop = IF session[s].remote THEN @ ELSE "delete"])

\* The browser cannot be reached or is gone: the state change drops the session.
ConnectionFails(s) ==
  /\ session[s].pc = "open" /\ session[s].remote /\ session[s].drop = "no"
  /\ Changes(s, [session[s] EXCEPT !.drop = "delete"])

\* dropSession: out of the map, ...
DropDeletes(s) ==
  /\ session[s].drop = "delete"
  /\ Changes(s, [session[s] EXCEPT !.known = FALSE, !.drop = "close"])

\* ... and closed; the state change that brings calls it once more for nothing.
DropCloses(s) ==
  /\ session[s].drop = "close"
  /\ Changes(s, [session[s] EXCEPT !.pc = "closed", !.drop = "no"])

-----------------------------------------------------------------------------
Switch(p) == SwitchIsNoop(p) \/ SwitchCancels(p) \/ SwitchStarts(p)
Drop(s) == DropDeletes(s) \/ DropCloses(s)

Next ==
  \/ ReaderNext /\ UNCHANGED <<hubVars, session>>
  \/ \E p \in Setter : Switch(p) \/ \E q \in Quality : SetQuality(p, q)
  \/ Stop
  \/ \E s \in Session : Offer(s) \/ AnswerFinds(s) \/ AnswerSets(s) \/ ReaperLooks(s)
                        \/ ConnectionFails(s) \/ Drop(s)

\* As the reader's; a waiter gets runner.mu in its turn.
Fairness ==
  /\ ReaderFairness
  /\ \A p \in Setter : SF_vars(Switch(p))

Spec == Init /\ [][Next]_vars /\ Fairness

-----------------------------------------------------------------------------
TypeOK ==
  /\ reader \in [Reader -> [pc : Asking \cup {"dial", "playing", "backoff", "ended"},
                            conn : {"none", "live", "mute", "broken"}, cancelled : BOOLEAN,
                            quality : Quality \cup {"none"}, unread : BOOLEAN,
                            keepalive : BOOLEAN, timer : {"new", "fed", "due"}]]
  /\ camera \in {"well", "hung", "off"} /\ trouble \in Nat /\ switches \in Nat
  /\ stopped \in BOOLEAN
  /\ runner \in [current : Reader, quality : Quality, holder : Setter \cup {Free}]
  /\ setter \in [Setter -> [pc : {"idle", "lock", "wait"}, want : Quality]]
  /\ session \in [Session -> [pc : {"none", "open", "closed"}, known : BOOLEAN, remote : BOOLEAN,
                              reaper : {"off", "armed"}, answer : {"idle", "found"},
                              drop : {"no", "delete", "close"}]]

\* Whoever may write to the tracks is the runner's reader, at the quality the
\* browsers are shown, and unless a switch or the end is under way it is not
\* being cancelled (startReader, hub.go:127-158).
OneReaderFeeds ==
  \A r \in Alive :
    /\ r = runner.current /\ reader[r].quality = runner.quality
    /\ reader[r].cancelled => stopped \/ runner.holder # Free

\* Every switch returns, whatever the camera does to the reader it waits for.
SwitchesReturn == \A p \in Setter : setter[p].pc # "idle" ~> setter[p].pc = "idle"

\* When the camera stays well, no frame and no viewer's write ends the reading any
\* more (rtsp.go:326-328) and nobody switches, the stream comes to play and plays on:
\* dead connections are noticed, a reader that gave up comes back, and the camera's
\* session timer is reset in time (rtsp.go:14-16, 85-99, 146-166, 298-306).  Told to
\* stop, the last reader ends, one that a switch has started since included.
StreamStays ==
  <>[](IF stopped THEN Alive = {} ELSE reader[runner.current].pc = "playing")

\* No session is left behind: one that is open has an answer, or a reaper or a
\* drop that will close it; one that is closed, or about to be, is not in the map,
\* where an answer would find it (hub.go:75-78, 283-310).
NoSessionLeak ==
  \A s \in Session :
    LET x == session[s] IN
    /\ x.pc = "open" => x.remote \/ x.reaper = "armed" \/ x.drop # "no"
    /\ x.pc = "closed" \/ x.drop = "close" => ~x.known
=============================================================================
