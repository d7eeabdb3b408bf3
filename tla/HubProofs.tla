----------------------------- MODULE HubProofs -----------------------------
(***************************************************************************)
(* Proofs about Hub for any set of readers, requests and sessions.         *)
(***************************************************************************)
EXTENDS Hub, TLAPS

PC == Asking \cup {"dial", "playing", "backoff", "ended"}

ReaderState == [pc : PC, conn : {"none", "live", "mute", "broken"}, cancelled : BOOLEAN,
                quality : Quality \cup {"none"}, unread : BOOLEAN, keepalive : BOOLEAN,
                timer : {"new", "fed", "due"}]

HubInv == TypeOK /\ OneReaderFeeds

\* The steps of the handshake, one by one.
LEMMA AskingIs == Asking = {"OPTIONS", "DESCRIBE", "SETUP video", "SETUP audio", "PLAY"}
<1>1. Asking = {Requests[1], Requests[2], Requests[3], Requests[4], Requests[5]}
  <2>1. 1..5 = {1, 2, 3, 4, 5}
    OBVIOUS
  <2> QED
    BY <2>1, Zenon DEF Asking
<1> QED
  BY <1>1 DEF Requests

\* The request after a request is one, or the stream plays.
LEMMA AfterType == ASSUME NEW pc \in Asking PROVE After[pc] \in Asking \cup {"playing"}
<1> DEFINE i == CHOOSE i \in 1..5 : Requests[i] = pc
<1>1. i \in 1..5
  BY DEF Asking
<1>2. After[pc] = IF i = 5 THEN "playing" ELSE Requests[i + 1]
  BY DEF After
<1>3. i # 5 => Requests[i + 1] \in Asking
  BY <1>1 DEF Asking
<1> QED
  BY <1>2, <1>3

\* A reader that goes on keeps its quality and whether it was told to stop, and only
\* one that was told to stop ends.
Continues(old, new) ==
  /\ new \in ReaderState
  /\ new.pc # "ended" => /\ old.pc # "ended" /\ new.quality = old.quality
                         /\ new.cancelled = old.cancelled
  /\ new.pc = "ended" => old.pc = "ended" \/ old.cancelled

\* Whatever one reader does, whether it is told to stop and what it streams is
\* not its own doing.
LEMMA ReaderContinues ==
  ASSUME TypeOK, NEW r \in Reader,
         Advances(r) \/ Refuses(r) \/ Misreads(r) \/ FrameFails(r)
           \/ CtxCloses(r) \/ KeepsAlive(r) \/ SessionTimer(r)
  PROVE  /\ Continues(reader[r], reader'[r])
         /\ reader' = [reader EXCEPT ![r] = reader'[r]]
         /\ camera' = camera /\ trouble' \in Nat
<1> USE DEF Continues, Set
<1>0. reader \in [Reader -> ReaderState] /\ reader[r] \in ReaderState /\ trouble \in Nat
  BY DEF TypeOK, ReaderState, PC
<1>1. ASSUME reader[r].pc # "ended"
      PROVE  Continues(reader[r], Returned(reader[r]))
  <2>1. reader[r] \in ReaderState
    BY <1>0
  <2>2. CASE reader[r].cancelled
    BY <1>1, <2>1, <2>2 DEF Returned, Ended, ReaderState, PC
  <2>3. CASE ~reader[r].cancelled
    BY <1>1, <2>1, <2>3 DEF Returned, Ended, ReaderState, PC
  <2> QED
    BY <2>2, <2>3
<1>2. ASSUME NEW u \in BOOLEAN, reader[r].pc # "ended"
      PROVE  Continues(reader[r], Failed(reader[r], u))
  <2>1. CASE reader[r].pc = "SETUP audio"
    BY <1>0, <2>1, AskingIs DEF Failed, ReaderState, PC
  <2>2. CASE reader[r].pc # "SETUP audio"
    BY <1>1, <1>2, <2>2 DEF Failed
  <2> QED
    BY <2>1, <2>2
<1>3. CASE Dials(r)
  <2>1. camera \in {"well", "hung", "off"} /\ "OPTIONS" \in PC
    BY AskingIs DEF TypeOK, PC
  <2>2. CASE camera = "well"
    BY <1>0, <1>3, <2>1, <2>2 DEF Dials, ReaderState
  <2>3. CASE camera = "hung"
    BY <1>0, <1>3, <2>1, <2>3 DEF Dials, ReaderState
  <2>4. CASE camera = "off"
    BY <1>0, <1>3, <2>4 DEF Dials, ReaderState, PC
  <2> QED
    BY <2>1, <2>2, <2>3, <2>4
<1>4. CASE Answers(r)
  <2> DEFINE next == After[reader[r].pc]
             fed == reader[r].pc = "PLAY"
  <2>1. /\ reader[r].pc \in Asking /\ reader[r].pc # "ended" /\ camera' = camera /\ trouble' = trouble
        /\ reader' = [reader EXCEPT ![r] = [reader[r] EXCEPT !.pc = next, !.unread = FALSE,
                                                          !.keepalive = fed]]
    BY <1>4, AskingIs DEF Answers
  <2>2. next \in PC /\ next # "ended" /\ fed \in BOOLEAN
    BY <2>1, AfterType, AskingIs DEF PC
  <2> HIDE DEF next, fed
  <2> QED
    BY <1>0, <2>1, <2>2 DEF ReaderState
<1>5. CASE TimesOut(r)
  BY <1>0, <1>2, <1>5, AskingIs DEF TimesOut, InOnce
<1>6. CASE BackoffEnds(r)
  BY <1>0, <1>6 DEF BackoffEnds, ReaderState, PC
<1>7. CASE Ends(r)
  BY <1>0, <1>7 DEF Ends, Ended, ReaderState, PC
<1>8. CASE Refuses(r)
  <2>1. PICK u \in BOOLEAN : reader' = [reader EXCEPT ![r] = Failed(reader[r], u)]
    BY <1>8 DEF Refuses
  <2>2. reader[r].pc # "ended" /\ camera' = camera
    BY <1>8, AskingIs DEF Refuses
  <2>3. trouble > 0 /\ trouble' = trouble - 1
    BY <1>8 DEF Refuses
  <2>4. trouble' \in Nat
    BY <1>0, <2>3
  <2> QED
    BY <1>0, <1>2, <2>1, <2>2, <2>4
<1>9. CASE Misreads(r)
  BY <1>0, <1>1, <1>9 DEF Misreads
<1>10. CASE CtxCloses(r)
  BY <1>0, <1>10 DEF CtxCloses, ReaderState, PC
<1>11. CASE KeepsAlive(r)
  <2> PICK works \in BOOLEAN :
        Set(r, [reader[r] EXCEPT
          !.timer = IF reader[r].keepalive /\ reader[r].conn = "live" THEN "fed" ELSE "due",
          !.keepalive = @ /\ works])
    BY <1>11 DEF KeepsAlive
  <2>1. reader[r].pc = "playing" /\ camera' = camera /\ trouble' = trouble
    BY <1>11 DEF KeepsAlive
  <2>2. (reader[r].keepalive /\ works) \in BOOLEAN
    OBVIOUS
  <2> QED
    BY <1>0, <2>1, <2>2 DEF ReaderState, PC
<1>12. CASE SessionTimer(r)
  BY <1>0, <1>12 DEF SessionTimer, ReaderState, PC
<1>13. CASE FrameFails(r)
  <2>1. /\ reader' = [reader EXCEPT ![r] = Returned(reader[r])]
        /\ reader[r].pc # "ended" /\ camera' = camera
    BY <1>13 DEF FrameFails
  <2>2. trouble > 0 /\ trouble' = trouble - 1
    BY <1>13 DEF FrameFails
  <2>3. trouble' \in Nat
    BY <1>0, <2>2
  <2> QED
    BY <1>0, <1>1, <2>1, <2>3
<1> QED
  BY <1>3, <1>4, <1>5, <1>6, <1>7, <1>8, <1>9, <1>10, <1>11, <1>12, <1>13 DEF Advances

\* The camera's failures touch nothing but the connections.
LEMMA CameraContinues ==
  ASSUME TypeOK, CameraFails \/ CameraRecovers
  PROVE  /\ \A r \in Reader : Continues(reader[r], reader'[r])
         /\ reader' \in [Reader -> ReaderState]
         /\ camera' \in {"well", "hung", "off"} /\ trouble' \in Nat
<1>0. reader \in [Reader -> ReaderState] /\ trouble \in Nat
  BY DEF TypeOK, ReaderState, PC
<1>1. ASSUME NEW r \in Reader, NEW c \in {"none", "live", "mute", "broken"}
      PROVE  Continues(reader[r], [reader[r] EXCEPT !.conn = c])
  BY <1>0 DEF Continues, ReaderState
<1>2. \A r \in Reader : Continues(reader[r], reader[r])
  BY <1>0 DEF Continues
<1>3. CASE CameraFails
  <2>1. PICK left \in {"mute", "broken"} :
          reader' = [r \in Reader |-> IF reader[r].conn \in {"live", "mute"}
                                      THEN [reader[r] EXCEPT !.conn = left] ELSE reader[r]]
    BY <1>3 DEF CameraFails
  <2>2. camera' \in {"well", "hung", "off"}
    BY <1>3 DEF CameraFails
  <2>3. trouble > 0 /\ trouble' = trouble - 1
    BY <1>3 DEF CameraFails
  <2>4. trouble' \in Nat
    BY <1>0, <2>3
  <2> QED
    BY <1>1, <1>2, <2>1, <2>2, <2>4 DEF Continues
<1>4. CASE CameraRecovers
  <2>1. reader' = [r \in Reader |-> IF camera = "hung" /\ reader[r].conn = "mute"
                                    THEN [reader[r] EXCEPT !.conn = "live"] ELSE reader[r]]
    BY <1>4 DEF CameraRecovers
  <2>2. camera' = "well" /\ trouble' = trouble
    BY <1>4 DEF CameraRecovers
  <2> QED
    BY <1>0, <1>1, <1>2, <2>1, <2>2 DEF Continues
<1> QED
  BY <1>3, <1>4

\* A reader that is told to stop, and one that is not there, are states of a reader.
LEMMA StoppedType ==
  ASSUME TypeOK
  PROVE  /\ reader \in [Reader -> ReaderState] /\ Ended \in ReaderState
         /\ \A r \in Reader : [reader[r] EXCEPT !.cancelled = TRUE] \in ReaderState
<1>1. reader \in [Reader -> ReaderState]
  BY DEF TypeOK, ReaderState, PC
<1>2. Ended \in ReaderState
  BY DEF Ended, ReaderState, PC
<1> QED
  BY <1>1, <1>2 DEF ReaderState

\* A hub that was just made satisfies the invariant.
LEMMA InitHubInv == ASSUME Init PROVE HubInv
<1>1. runner.current \in Reader
  BY HubAssumption DEF Init
<1>2. TypeOK
  BY <1>1, ReaderAssumption, HubAssumption
     DEF Init, TypeOK, Started, Ended, Quality, NoSession
<1>3. OneReaderFeeds
  BY <1>1 DEF Init, OneReaderFeeds, Alive, Started, Ended
<1> QED
  BY <1>2, <1>3 DEF HubInv

\* Whatever the readers and the camera do, no reader is started or told to stop.
LEMMA ReadersContinue ==
  ASSUME TypeOK, ReaderNext
  PROVE  /\ \A r \in Reader : Continues(reader[r], reader'[r])
         /\ reader' \in [Reader -> ReaderState]
         /\ camera' \in {"well", "hung", "off"} /\ trouble' \in Nat
<1>1. CASE CameraFails \/ CameraRecovers
  BY <1>1, CameraContinues
<1>2. ASSUME NEW r \in Reader,
             Advances(r) \/ Refuses(r) \/ Misreads(r) \/ FrameFails(r)
               \/ CtxCloses(r) \/ KeepsAlive(r) \/ SessionTimer(r)
      PROVE  /\ \A q \in Reader : Continues(reader[q], reader'[q])
             /\ reader' \in [Reader -> ReaderState]
             /\ camera' \in {"well", "hung", "off"} /\ trouble' \in Nat
  <2>1. /\ Continues(reader[r], reader'[r])
        /\ reader' = [reader EXCEPT ![r] = reader'[r]]
        /\ camera' = camera /\ trouble' \in Nat
    BY <1>2, ReaderContinues
  <2>2. reader \in [Reader -> ReaderState]
    BY DEF TypeOK, ReaderState, PC
  <2> QED
    BY <2>1, <2>2 DEF Continues, TypeOK
<1> QED
  BY <1>1, <1>2 DEF ReaderNext

\* Readers and the camera keep the invariant: none of them starts a reader.
LEMMA ReaderHubInv ==
  ASSUME HubInv, ReaderNext, UNCHANGED <<hubVars, session>>
  PROVE  HubInv'
<1> USE DEF HubInv, hubVars
<1>1. /\ \A r \in Reader : Continues(reader[r], reader'[r])
      /\ reader' \in [Reader -> ReaderState]
      /\ camera' \in {"well", "hung", "off"} /\ trouble' \in Nat
  BY ReadersContinue
<1>2. TypeOK'
  BY <1>1 DEF TypeOK, ReaderState, PC
<1>3. OneReaderFeeds'
  BY <1>1 DEF OneReaderFeeds, Alive, Continues
<1> QED
  BY <1>2, <1>3

\* A switch keeps it: the new reader starts when the old one has ended, and there
\* was no other.
LEMMA SwitchHubInv ==
  ASSUME HubInv, NEW p \in Setter, Switch(p) \/ \E q \in Quality : SetQuality(p, q)
  PROVE  HubInv'
<1> USE DEF HubInv, SetterAt
<1>1. CASE \E q \in Quality : SetQuality(p, q)
  <2> PICK q \in Quality : SetQuality(p, q)
    BY <1>1
  <2>1. TypeOK'
    BY DEF SetQuality, rtspVars, TypeOK
  <2>2. OneReaderFeeds'
    BY DEF SetQuality, rtspVars, OneReaderFeeds, Alive
  <2> QED
    BY <2>1, <2>2
<1>2. CASE SwitchIsNoop(p)
  <2>1. TypeOK'
    BY <1>2 DEF SwitchIsNoop, rtspVars, TypeOK
  <2>2. OneReaderFeeds'
    BY <1>2 DEF SwitchIsNoop, rtspVars, OneReaderFeeds, Alive
  <2> QED
    BY <2>1, <2>2
<1>3. CASE SwitchCancels(p)
  <2> USE <1>3 DEF SwitchCancels, Set
  <2>1. runner.current \in Reader
    BY DEF TypeOK
  <2>2. reader' \in [Reader -> ReaderState]
    BY <2>1, StoppedType
  <2>3. TypeOK'
    BY <2>2 DEF TypeOK, ReaderState, PC
  <2>4. runner' = [runner EXCEPT !.holder = p] /\ runner'.holder # Free
    BY HubAssumption DEF TypeOK
  <2>5. OneReaderFeeds'
    BY <2>1, <2>4 DEF TypeOK, OneReaderFeeds, Alive, Ended
  <2> QED
    BY <2>3, <2>5
<1>4. CASE SwitchStarts(p)
  <2> DEFINE r == CHOOSE r \in Reader : r \notin Alive
             s == [Started(setter[p].want) EXCEPT !.cancelled = stopped]
  <2>1. Alive = {}
    BY <1>4 DEF SwitchStarts, OneReaderFeeds
  <2>2. r \in Reader
    BY <2>1 DEF TypeOK
  <2>3. /\ reader' = [reader EXCEPT ![r] = s]
        /\ runner' = [current |-> r, quality |-> setter[p].want, holder |-> Free]
        /\ setter' = [setter EXCEPT ![p].pc = "idle"]
        /\ UNCHANGED <<camera, trouble, switches, stopped, session>>
    BY <1>4 DEF SwitchStarts, Starts, Set
  <2>4. setter[p].want \in Quality /\ stopped \in BOOLEAN
    BY DEF TypeOK
  <2>5. s \in ReaderState /\ s.quality = setter[p].want /\ s.cancelled = stopped
    BY <2>4 DEF Started, Ended, ReaderState, PC
  <2> HIDE DEF r, s
  <2>6. TypeOK'
    BY <2>2, <2>3, <2>4, <2>5 DEF TypeOK, ReaderState, PC
  <2>7. OneReaderFeeds'
    BY <2>1, <2>2, <2>3, <2>5 DEF TypeOK, OneReaderFeeds, Alive
  <2> QED
    BY <2>6, <2>7
<1> QED
  BY <1>1, <1>2, <1>3, <1>4 DEF Switch

\* So does the end of the process.
LEMMA StopHubInv == ASSUME HubInv, Stop PROVE HubInv'
<1> USE DEF HubInv, Stop
<1>2. reader' \in [Reader -> ReaderState]
  BY StoppedType
<1>3. TypeOK'
  BY <1>2 DEF TypeOK, ReaderState, PC
<1>4. OneReaderFeeds'
  BY DEF TypeOK, OneReaderFeeds, Alive, Ended
<1> QED
  BY <1>3, <1>4

\* A session's own steps: NoSessionLeak is inductive with the types.
LEMMA SessionKeeps ==
  ASSUME TypeOK, NoSessionLeak, NEW s \in Session,
         Offer(s) \/ AnswerFinds(s) \/ AnswerSets(s) \/ ReaperLooks(s)
           \/ ConnectionFails(s) \/ Drop(s)
  PROVE  TypeOK' /\ NoSessionLeak' /\ UNCHANGED <<rtspVars, hubVars>>
<1> DEFINE x == session[s]
           y == session'[s]
           State == [pc : {"none", "open", "closed"}, known : BOOLEAN, remote : BOOLEAN,
                     reaper : {"off", "armed"}, answer : {"idle", "found"},
                     drop : {"no", "delete", "close"}]
           Kept(z) == /\ z.pc = "open" => z.remote \/ z.reaper = "armed" \/ z.drop # "no"
                      /\ z.pc = "closed" \/ z.drop = "close" => ~z.known
<1>1. session \in [Session -> State] /\ x \in State /\ Kept(x)
  BY DEF TypeOK, NoSessionLeak
<1>2. session' = [session EXCEPT ![s] = y] /\ y \in State /\ Kept(y)
  <2>1. CASE Offer(s)
    BY <1>1, <2>1 DEF Offer, Changes, NoSession
  <2>2. CASE AnswerFinds(s)
    BY <1>1, <2>2 DEF AnswerFinds, Changes
  <2>3. CASE AnswerSets(s)
    <3>1. session' = [session EXCEPT ![s] = [x EXCEPT !.answer = "idle",
                                                      !.remote = @ \/ x.pc = "open"]]
      BY <2>3 DEF AnswerSets, Changes
    <3>2. (x.remote \/ x.pc = "open") \in BOOLEAN
      OBVIOUS
    <3>3. y = [x EXCEPT !.answer = "idle", !.remote = x.remote \/ x.pc = "open"]
      BY <1>1, <3>1
    <3> QED
      BY <1>1, <3>1, <3>2, <3>3
  <2>4. CASE ReaperLooks(s)
    BY <1>1, <2>4 DEF ReaperLooks, Changes
  <2>5. CASE ConnectionFails(s)
    BY <1>1, <2>5 DEF ConnectionFails, Changes
  <2>6. CASE DropDeletes(s)
    BY <1>1, <2>6 DEF DropDeletes, Changes
  <2>7. CASE DropCloses(s)
    BY <1>1, <2>7 DEF DropCloses, Changes
  <2> QED
    BY <2>1, <2>2, <2>3, <2>4, <2>5, <2>6, <2>7 DEF Drop
<1>3. UNCHANGED <<rtspVars, hubVars>>
  BY DEF Offer, AnswerFinds, AnswerSets, ReaperLooks, ConnectionFails, Drop, DropDeletes,
         DropCloses, Changes
<1>4. session' \in [Session -> State]
  BY <1>1, <1>2
<1>5. TypeOK'
  BY <1>3, <1>4 DEF TypeOK, rtspVars, hubVars
<1>6. NoSessionLeak'
  BY <1>1, <1>2 DEF NoSessionLeak
<1> QED
  BY <1>3, <1>5, <1>6

\* No other step touches a session.
LEMMA SessionsAlone ==
  ASSUME Next
  PROVE  \/ UNCHANGED session
         \/ \E s \in Session : Offer(s) \/ AnswerFinds(s) \/ AnswerSets(s) \/ ReaperLooks(s)
                              \/ ConnectionFails(s) \/ Drop(s)
BY DEF Next, Switch, SwitchIsNoop, SwitchCancels, SwitchStarts, Starts, SetQuality, Stop

\* HubInv and NoSessionLeak are inductive together.
THEOREM HubInductive == Spec => [](HubInv /\ NoSessionLeak)
<1>1. Init => HubInv /\ NoSessionLeak
  <2>1. Init => HubInv
    BY InitHubInv
  <2>2. Init => NoSessionLeak
    <3> SUFFICES ASSUME Init, NEW s \in Session
                 PROVE  /\ session[s].pc = "open" => session[s].remote
                        /\ ~(session[s].pc = "closed" \/ session[s].drop = "close")
      BY DEF NoSessionLeak
    <3>1. session[s] = NoSession
      BY DEF Init
    <3> QED
      BY <3>1 DEF NoSession
  <2> QED
    BY <2>1, <2>2
<1>2. ASSUME HubInv, NoSessionLeak, [Next]_vars PROVE HubInv' /\ NoSessionLeak'
  <2>1. CASE UNCHANGED vars
    BY <1>2, <2>1 DEF HubInv, TypeOK, OneReaderFeeds, Alive, NoSessionLeak, vars, rtspVars, hubVars
  <2>2. ASSUME NEW s \in Session,
               Offer(s) \/ AnswerFinds(s) \/ AnswerSets(s) \/ ReaperLooks(s)
                 \/ ConnectionFails(s) \/ Drop(s)
        PROVE  HubInv' /\ NoSessionLeak'
    <3>1. TypeOK' /\ NoSessionLeak' /\ UNCHANGED <<rtspVars, hubVars>>
      BY <1>2, <2>2, SessionKeeps DEF HubInv
    <3>2. OneReaderFeeds'
      BY <1>2, <3>1 DEF HubInv, OneReaderFeeds, Alive, rtspVars, hubVars
    <3> QED
      BY <3>1, <3>2 DEF HubInv
  <2>3. CASE Next /\ UNCHANGED session
    <3>1. NoSessionLeak'
      BY <1>2, <2>3 DEF NoSessionLeak
    <3>2. HubInv'
      BY <1>2, <2>2, <2>3, ReaderHubInv, SwitchHubInv, StopHubInv DEF Next
    <3> QED
      BY <3>1, <3>2
  <2> QED
    BY <1>2, <2>1, <2>2, <2>3, SessionsAlone
<1> QED
  BY <1>1, <1>2, PTL DEF Spec

\* However qualities are switched and whatever the camera does, at most one reader
\* feeds the stream, the runner's (startReader).
THEOREM TracksHaveOneReader == Spec => []OneReaderFeeds
<1>1. HubInv /\ NoSessionLeak => OneReaderFeeds
  BY DEF HubInv
<1> QED
  BY <1>1, HubInductive, PTL

\* A session that is open has an answer, or somebody who will close it; one that
\* is closed cannot be found (HandleOffer, dropSession).
THEOREM SessionsDoNotLeak == Spec => []NoSessionLeak
<1>1. HubInv /\ NoSessionLeak => NoSessionLeak
  OBVIOUS
<1> QED
  BY <1>1, HubInductive, PTL

-----------------------------------------------------------------------------
\* What switches wait for comes, and what the stream needs is there: whoever waits
\* has the mutex, and the reader it waits for was told to stop, as every reader is at
\* the end; at any other time the runner's reader is alive.
ReaderIsAtHand ==
  /\ \A p \in Setter : setter[p].pc = "wait" <=> runner.holder = p
  /\ IF stopped \/ runner.holder # Free THEN \A r \in Alive : reader[r].cancelled
     ELSE runner.current \in Alive

\* A hub that was just made has a reader.
LEMMA InitAtHand == ASSUME Init PROVE ReaderIsAtHand
<1>1. runner.current \in Reader /\ runner.holder = Free /\ ~stopped
  BY HubAssumption DEF Init
<1>2. runner.current \in Alive
  BY <1>1 DEF Init, Alive, Started, Ended
<1>3. \A p \in Setter : setter[p].pc # "wait" /\ p # Free
  BY HubAssumption DEF Init
<1> QED
  BY <1>1, <1>2, <1>3 DEF ReaderIsAtHand

\* No reader that is wanted ends by itself.
LEMMA ReaderAtHand ==
  ASSUME HubInv, ReaderIsAtHand, ReaderNext, UNCHANGED <<hubVars, session>>
  PROVE  ReaderIsAtHand'
<1>1. \A r \in Reader : Continues(reader[r], reader'[r])
  BY ReadersContinue DEF HubInv
<1>2. UNCHANGED <<runner, setter, stopped>>
  BY DEF hubVars
<1>3. ASSUME NEW r \in Alive'
      PROVE  r \in Alive /\ reader'[r].cancelled = reader[r].cancelled
  BY <1>1, <1>3 DEF Alive, Continues
<1>4. ASSUME ~stopped, runner.holder = Free, runner.current \in Alive
      PROVE  runner.current \in Alive'
  <2>1. ~reader[runner.current].cancelled
    BY <1>4 DEF HubInv, OneReaderFeeds
  <2> QED
    BY <1>1, <1>2, <1>4, <2>1 DEF Alive, Continues
<1> QED
  BY <1>2, <1>3, <1>4 DEF ReaderIsAtHand

\* A switch tells the reader to stop, waits with the mutex, and starts the next.
LEMMA SwitchAtHand ==
  ASSUME HubInv, ReaderIsAtHand, NEW p \in Setter, Switch(p) \/ \E q \in Quality : SetQuality(p, q)
  PROVE  ReaderIsAtHand'
<1>0. /\ setter \in [Setter -> [pc : {"idle", "lock", "wait"}, want : Quality]]
      /\ runner \in [current : Reader, quality : Quality, holder : Setter \cup {Free}]
      /\ reader \in [Reader -> ReaderState]
  BY DEF HubInv, TypeOK, ReaderState, PC
<1>1. CASE SwitchIsNoop(p) \/ \E q \in Quality : SetQuality(p, q)
  <2>1. UNCHANGED <<reader, runner, stopped>>
    BY <1>1 DEF SwitchIsNoop, SetQuality, rtspVars
  <2>2. setter[p].pc # "wait" /\ setter'[p].pc # "wait" /\ \A q \in Setter \ {p} : setter'[q] = setter[q]
    BY <1>0, <1>1 DEF SwitchIsNoop, SetQuality, SetterAt
  <2> QED
    BY <2>1, <2>2 DEF ReaderIsAtHand, Alive
<1>2. CASE SwitchCancels(p)
  <2>1. /\ runner.holder = Free /\ runner'.holder = p /\ p # Free /\ runner'.current = runner.current
    BY <1>0, <1>2, HubAssumption DEF SwitchCancels
  <2>2. setter'[p].pc = "wait" /\ \A q \in Setter \ {p} : setter'[q] = setter[q]
    BY <1>0, <1>2 DEF SwitchCancels, SetterAt
  <2>3. \A q \in Setter : setter[q].pc # "wait"
    BY <2>1, HubAssumption DEF ReaderIsAtHand
  <2>4. Alive \subseteq {runner.current}
    BY DEF HubInv, OneReaderFeeds
  <2>5. \A r \in Alive' : reader'[r].cancelled
    <3>1. CASE runner.current \in Alive
      BY <1>0, <1>2, <2>4, <3>1 DEF SwitchCancels, Set, Alive, ReaderState
    <3>2. CASE runner.current \notin Alive
      BY <1>0, <1>2, <2>4, <3>2 DEF SwitchCancels, Set, Alive, Ended
    <3> QED
      BY <3>1, <3>2
  <2> QED
    BY <2>1, <2>2, <2>3, <2>5 DEF ReaderIsAtHand
<1>3. CASE SwitchStarts(p)
  <2> DEFINE r == CHOOSE r \in Reader : r \notin Alive
             s == [Started(setter[p].want) EXCEPT !.cancelled = stopped]
  <2>1. Alive = {}
    BY <1>3 DEF SwitchStarts, HubInv, OneReaderFeeds
  <2>2. r \in Reader
    BY <2>1, HubAssumption
  <2>3. /\ reader' = [reader EXCEPT ![r] = s]
        /\ runner' = [current |-> r, quality |-> setter[p].want, holder |-> Free]
        /\ setter' = [setter EXCEPT ![p].pc = "idle"]
        /\ UNCHANGED stopped /\ setter[p].pc = "wait"
    BY <1>3 DEF SwitchStarts, Starts, Set, SetterAt
  <2>4. s.pc = "dial" /\ s.cancelled = stopped
    BY DEF Started, Ended
  <2> HIDE DEF r, s
  <2>5. Alive' = {r} /\ reader'[r] = s /\ runner'.current = r /\ runner'.holder = Free
    BY <1>0, <2>1, <2>2, <2>3, <2>4 DEF Alive
  <2>6. \A q \in Setter : setter'[q].pc # "wait" /\ q # Free
    <3>1. runner.holder = p
      BY <2>3 DEF ReaderIsAtHand
    <3> QED
      BY <1>0, <2>3, <3>1, HubAssumption DEF ReaderIsAtHand
  <2> QED
    BY <2>3, <2>4, <2>5, <2>6 DEF ReaderIsAtHand
<1> QED
  BY <1>1, <1>2, <1>3 DEF Switch

\* ReaderIsAtHand is inductive beside HubInv.
LEMMA NextAtHand ==
  ASSUME HubInv, ReaderIsAtHand, [Next]_vars
  PROVE  ReaderIsAtHand'
<1>1. CASE Stop
  <2>1. UNCHANGED <<runner, setter>> /\ stopped'
    BY <1>1 DEF Stop
  <2>2. \A r \in Alive' : reader'[r].cancelled
    BY <1>1, StoppedType DEF Stop, Alive, Ended, HubInv, ReaderState
  <2> QED
    BY <2>1, <2>2 DEF ReaderIsAtHand
<1>2. ASSUME NEW s \in Session,
             Offer(s) \/ AnswerFinds(s) \/ AnswerSets(s) \/ ReaperLooks(s)
               \/ ConnectionFails(s) \/ Drop(s)
      PROVE  UNCHANGED <<rtspVars, hubVars>>
  BY <1>2 DEF Offer, AnswerFinds, AnswerSets, ReaperLooks, ConnectionFails, Drop, DropDeletes,
     DropCloses, Changes
<1>3. CASE UNCHANGED <<rtspVars, hubVars>>
  BY <1>3 DEF rtspVars, hubVars, ReaderIsAtHand, Alive
<1>4. UNCHANGED vars => UNCHANGED <<rtspVars, hubVars>>
  BY DEF vars
<1> QED
  BY <1>1, <1>2, <1>3, <1>4, ReaderAtHand, SwitchAtHand DEF Next

\* A switch under way waits for a reader that was told to stop, and between switches
\* there is always a reader, though no reader and no request knows of the others
\* (startReader, hub.go:127-158).
THEOREM StreamsKeepAReader == Spec => []ReaderIsAtHand
<1>1. Init => ReaderIsAtHand
  BY InitAtHand
<1>2. HubInv /\ NoSessionLeak /\ ReaderIsAtHand /\ [Next]_vars => ReaderIsAtHand'
  BY NextAtHand
<1> QED
  BY <1>1, <1>2, HubInductive, PTL DEF Spec
=============================================================================
