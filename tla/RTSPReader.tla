----------------------------- MODULE RTSPReader -----------------------------
(***************************************************************************)
(* runRTSPReader of src/rtsp.go: a goroutine that keeps one stream of a    *)
(* camera connected until its context is cancelled, with its keepalive     *)
(* goroutine and the one that closes the connection on cancellation; and   *)
(* the camera at the other end, which may hang, go away, refuse a request  *)
(* or drop a session that was not kept alive.                              *)
(*                                                                         *)
(* What is sent and received is left out but for who answers whom.  The    *)
(* waits (rtspIOTimeout, rtpReadIdle, the backoff) end when nothing comes. *)
(***************************************************************************)
EXTENDS Naturals

CONSTANTS
  Reader,      \* goroutines of runRTSPReader
  MaxTrouble   \* how often the camera fails, hangs or refuses, or forwarding a frame fails

ASSUME ReaderAssumption == MaxTrouble \in Nat

VARIABLES
  reader,      \* the state of each goroutine, Ended when there is none
  camera,      \* "well", "hung" (connects, says nothing) or "off"
  trouble      \* what is left of MaxTrouble

rtspVars == <<reader, camera, trouble>>

\* handshake, in its order; every request but the audio SETUP has to succeed.
Requests == <<"OPTIONS", "DESCRIBE", "SETUP video", "SETUP audio", "PLAY">>
Asking == {Requests[i] : i \in 1..5}
After == [pc \in Asking |-> LET i == CHOOSE i \in 1..5 : Requests[i] = pc
                            IN IF i = 5 THEN "playing" ELSE Requests[i + 1]]

\* conn: "live", "mute" (open here, nothing will come) or "broken".
\* unread: the answer of a timed out audio SETUP that may still come.
\* keepalive: the ticker runs.  timer: where the camera's session timer is, "new",
\* "fed" by a keepalive or "due" because none came when it was time.
Ended == [pc |-> "ended", conn |-> "none", cancelled |-> FALSE, quality |-> "none",
          unread |-> FALSE, keepalive |-> FALSE, timer |-> "new"]
Started(q) == [Ended EXCEPT !.pc = "dial", !.quality = q]

InOnce == Asking \cup {"playing"}          \* streamOnce has a connection
Alive == {r \in Reader : reader[r].pc # "ended"}

Set(r, s) == reader' = [reader EXCEPT ![r] = s]

-----------------------------------------------------------------------------
\* A camera that is off refuses, or nobody answers and the dialer's time is up.
Dials(r) ==
  /\ reader[r].pc = "dial" /\ ~reader[r].cancelled
  /\ Set(r, CASE camera = "well" -> [reader[r] EXCEPT !.pc = "OPTIONS", !.conn = "live"]
              [] camera = "hung" -> [reader[r] EXCEPT !.pc = "OPTIONS", !.conn = "mute"]
              [] camera = "off"  -> [reader[r] EXCEPT !.pc = "backoff"])
  /\ UNCHANGED <<camera, trouble>>

\* do: the camera answers with 200, at once or to the digest after a 401.  The
\* answer to PLAY starts the keepalive ticker.
Answers(r) ==
  /\ reader[r].pc \in Asking /\ reader[r].conn = "live"
  /\ Set(r, [reader[r] EXCEPT !.pc = After[@], !.unread = FALSE,
                              !.keepalive = reader[r].pc = "PLAY"])
  /\ UNCHANGED <<camera, trouble>>

\* streamOnce returns: its connection is closed, its ticker stopped.
Returned(s) ==
  IF s.cancelled THEN Ended ELSE [Ended EXCEPT !.pc = "backoff", !.quality = s.quality]

\* A request that failed.  Without audio the stream goes on.
Failed(s, unread) ==
  IF s.pc = "SETUP audio" THEN [s EXCEPT !.pc = "PLAY", !.unread = unread] ELSE Returned(s)

\* Another status, no media in the SDP, no session, or an answer that is late:
\* only the audio SETUP's can still be read, by PLAY.
Refuses(r) ==
  /\ trouble > 0 /\ trouble' = trouble - 1
  /\ reader[r].pc \in Asking /\ reader[r].conn = "live"
  /\ \E unread \in BOOLEAN : Set(r, Failed(reader[r], unread))
  /\ UNCHANGED camera

\* The late answer to the audio SETUP refuses, and is taken for PLAY's.
Misreads(r) ==
  /\ reader[r].pc = "PLAY" /\ reader[r].unread /\ reader[r].conn = "live"
  /\ Set(r, Returned(reader[r]))
  /\ UNCHANGED <<camera, trouble>>

\* No answer before rtspIOTimeout, no frame before rtpReadIdle, or the connection
\* is broken; answers to keepalives do not push readPackets' deadline back.
TimesOut(r) ==
  /\ reader[r].pc \in InOnce /\ reader[r].conn # "live"
  /\ Set(r, Failed(reader[r], FALSE))
  /\ UNCHANGED <<camera, trouble>>

\* readPackets returns on a connection that works: what came is no frame and no
\* response, or the track's WriteRTP fails, as it does when that of one of its
\* viewers does.
FrameFails(r) ==
  /\ trouble > 0 /\ trouble' = trouble - 1
  /\ reader[r].pc = "playing" /\ reader[r].conn = "live"
  /\ Set(r, Returned(reader[r]))
  /\ UNCHANGED camera

BackoffEnds(r) ==
  /\ reader[r].pc = "backoff" /\ ~reader[r].cancelled
  /\ Set(r, [reader[r] EXCEPT !.pc = "dial"])
  /\ UNCHANGED <<camera, trouble>>

\* Cancelled while it dials, waits or is about to: DialContext and select see it.
Ends(r) ==
  /\ reader[r].pc \in {"dial", "backoff"} /\ reader[r].cancelled
  /\ Set(r, Ended)
  /\ UNCHANGED <<camera, trouble>>

\* A plausible slip: nobody closes the connection under a reader that is told to stop.
CtxIgnored(r) == FALSE /\ UNCHANGED rtspVars

\* Cancelled on a connection: closing it ends the read.
CtxCloses(r) ==
  /\ reader[r].cancelled /\ reader[r].pc \in InOnce /\ reader[r].conn # "broken"
  /\ Set(r, [reader[r] EXCEPT !.conn = "broken"])
  /\ UNCHANGED <<camera, trouble>>

-----------------------------------------------------------------------------
\* A plausible slip: one keepalive after PLAY and no ticker.
KeepsAliveOnce(r) ==
  /\ reader[r].pc = "playing" /\ reader[r].timer = "new" /\ reader[r].conn # "broken"
  /\ Set(r, [reader[r] EXCEPT !.timer = IF reader[r].keepalive THEN "fed" ELSE "due",
                              !.keepalive = FALSE])
  /\ UNCHANGED <<camera, trouble>>

\* sendKeepalive, once in every period of the camera's timer.  It may fail, or
\* seem to work, on a connection whose other end is not there; the ticker stops
\* at the first failure.
KeepsAlive(r) ==
  /\ reader[r].pc = "playing" /\ reader[r].timer = "new" /\ reader[r].conn # "broken"
  /\ \E works \in BOOLEAN :
       /\ reader[r].conn = "live" => works
       /\ Set(r, [reader[r] EXCEPT
            !.timer = IF reader[r].keepalive /\ reader[r].conn = "live" THEN "fed" ELSE "due",
            !.keepalive = @ /\ works])
  /\ UNCHANGED <<camera, trouble>>

\* The camera's session timer: a session nobody kept alive is dropped.
SessionTimer(r) ==
  /\ camera = "well" /\ reader[r].pc = "playing" /\ reader[r].conn = "live"
  /\ reader[r].timer # "new"
  /\ Set(r, IF reader[r].timer = "fed" THEN [reader[r] EXCEPT !.timer = "new"]
            ELSE [reader[r] EXCEPT !.conn = "broken"])
  /\ UNCHANGED <<camera, trouble>>

\* The camera hangs, or goes away with or without a word to its connections.
CameraFails ==
  /\ trouble > 0 /\ trouble' = trouble - 1
  /\ \E c \in {"hung", "off"} \ {camera}, left \in {"mute", "broken"} :
       /\ c = "hung" => camera = "well" /\ left = "mute"
       /\ camera' = c
       /\ reader' = [r \in Reader |-> IF reader[r].conn \in {"live", "mute"}
                                      THEN [reader[r] EXCEPT !.conn = left] ELSE reader[r]]

\* One that hung goes on where it was; one that was off has forgotten.
CameraRecovers ==
  /\ camera # "well" /\ camera' = "well"
  /\ reader' = [r \in Reader |-> IF camera = "hung" /\ reader[r].conn = "mute"
                                 THEN [reader[r] EXCEPT !.conn = "live"] ELSE reader[r]]
  /\ UNCHANGED trouble

Advances(r) ==
  \/ Dials(r) \/ Answers(r) \/ TimesOut(r) \/ BackoffEnds(r) \/ Ends(r)

ReaderNext ==
  \/ \E r \in Reader :
       \/ Advances(r) \/ Refuses(r) \/ Misreads(r) \/ FrameFails(r)
       \/ CtxCloses(r) \/ KeepsAlive(r) \/ SessionTimer(r)
  \/ CameraFails \/ CameraRecovers

\* Goroutines run, deadlines pass, and the camera comes back in the end.
ReaderFairness ==
  /\ \A r \in Reader : WF_rtspVars(Advances(r)) /\ WF_rtspVars(CtxCloses(r))
  /\ WF_rtspVars(CameraRecovers)
=============================================================================
