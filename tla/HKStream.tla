------------------------------ MODULE HKStream ------------------------------
(***************************************************************************)
(* src/hkcamera.go and src/hksrtp.go: one door camera's HomeKit stream.  A *)
(* controller sets up endpoints, for which a socket is bound and kept as   *)
(* pending, and then starts, suspends, resumes, reconfigures and ends the  *)
(* stream: an SRTP forwarder on the pending socket fed by an RTSP reader   *)
(* of its own.  Each controller's writes run on its connection's           *)
(* goroutine; s.mu covers the fields for single reads and swaps.           *)
(***************************************************************************)
CONSTANTS
  Controller,
  Socket,      \* identities of UDP sockets; one nobody refers to is reused
  Forwarder,   \* identities of forwarders, each with its reader, likewise
  None

ASSUME NoneAssumption == None \notin Socket \cup Forwarder

VARIABLES
  pending,     \* s.pending, by its socket
  cur,         \* s.fwd, and s.cancel, which is set and cleared with it
  open,        \* the sockets that are open
  conn,        \* the socket of each forwarder
  closed,      \* forwarders with f.closed
  cancelled,   \* forwarders whose reader's context is cancelled
  reader,      \* readers that are running
  status,      \* StreamingStatus
  pc,          \* where each controller's write stands
  next,        \* what a Reconfigure has still to do: its start
  socket,      \* local: setup.conn or previous.conn
  fwd          \* local: fwd

sessVars == <<pending, cur, status>>
fwdVars  == <<conn, closed, cancelled>>
vars == <<sessVars, open, fwdVars, reader, pc, next, socket, fwd>>

Init ==
  /\ pending = None
  /\ cur = None
  /\ open = {}
  /\ conn = [f \in Forwarder |-> None]
  /\ closed = {}
  /\ cancelled = {}
  /\ reader = {}
  /\ status = "available"
  /\ pc = [k \in Controller |-> "idle"]
  /\ next = [k \in Controller |-> "done"]
  /\ socket = [k \in Controller |-> None]
  /\ fwd = [k \in Controller |-> None]

Goto(k, from, to) ==
  /\ pc[k] = from
  /\ pc' = [pc EXCEPT ![k] = to]

\* A goroutine's last step clears its locals.
Finish(k, from) ==
  /\ Goto(k, from, "idle")
  /\ socket' = [socket EXCEPT ![k] = None]
  /\ fwd' = [fwd EXCEPT ![k] = None]

FreshSocket(c) ==
  /\ c \notin open \cup {pending}
  /\ \A k \in Controller : socket[k] # c
  /\ \A f \in reader : conn[f] # c
  /\ cur # None => conn[cur] # c

FreshForwarder(f) == f # cur /\ f \notin reader /\ \A k \in Controller : fwd[k] # f

-----------------------------------------------------------------------------
\* onSetupEndpoints binds a socket, so as to advertise its port, ...
SetupBinds(k) ==
  /\ Goto(k, "idle", "bound")
  /\ \E c \in Socket :
       /\ FreshSocket(c)
       /\ open' = open \cup {c}
       /\ socket' = [socket EXCEPT ![k] = c]
  /\ UNCHANGED <<sessVars, fwdVars, reader, next, fwd>>

\* ... puts it in the place of the pending one ...
SetupSwaps(k) ==
  /\ Goto(k, "bound", "swapped")
  /\ pending' = socket[k]
  /\ socket' = [socket EXCEPT ![k] = pending]
  /\ UNCHANGED <<cur, status, open, fwdVars, reader, next, fwd>>

\* A plausible slip: the socket of the setup that was replaced stays open.
SetupForgetsPrevious(k) ==
  /\ Finish(k, "swapped")
  /\ UNCHANGED <<sessVars, open, fwdVars, reader, next>>

\* ... and closes that, whoever uses it.
SetupClosesPrevious(k) ==
  /\ Finish(k, "swapped")
  /\ open' = open \ {socket[k]}
  /\ UNCHANGED <<sessVars, fwdVars, reader, next>>

-----------------------------------------------------------------------------
\* startStream reads the pending setup and prepares a forwarder on its socket.
\* Without one the write fails.
StartReads(k) ==
  /\ pending # None
  /\ socket' = [socket EXCEPT ![k] = pending]
  /\ UNCHANGED <<sessVars, open, fwdVars, reader, fwd>>

\* Start and Resume.
StartBegins(k) ==
  /\ Goto(k, "idle", "prepared")
  /\ StartReads(k)
  /\ UNCHANGED next

\* No forwarder comes of the controller's keys, and the write fails.
StartFails(k) ==
  /\ Finish(k, "prepared")
  /\ UNCHANGED <<sessVars, open, fwdVars, reader, next>>

\* The forwarder stopLocked finds in s.fwd, if any.
Live == {cur} \ {None}

\* A plausible slip: the reader is left to notice that its socket is closed.
CancelsNothing == cancelled

\* stopLocked cancels its reader, ...
StopCancels == cancelled \cup Live

\* ... and closes it and, with it, its socket.
StopCloses == closed \cup Live
StopFrees == open \ {conn[f] : f \in Live \ closed}

\* A new forwarder on the setup that was read, in s.fwd.
Installs(k, f) ==
  /\ FreshForwarder(f)
  /\ cur' = f
  /\ fwd' = [fwd EXCEPT ![k] = f]
  /\ conn' = [conn EXCEPT ![f] = socket[k]]

\* A plausible slip: the session is taken to be stopped already.
StartOverwrites(k) ==
  /\ Goto(k, "prepared", "installed")
  /\ \E f \in Forwarder :
       /\ Installs(k, f)
       /\ cancelled' = cancelled \ {f}
       /\ closed' = closed \ {f}
  /\ UNCHANGED <<pending, status, open, reader, next, socket>>

\* Under s.mu, whatever was started in the meantime is stopped and replaced.
StartInstalls(k) ==
  /\ Goto(k, "prepared", "installed")
  /\ \E f \in Forwarder :
       /\ Installs(k, f)
       /\ cancelled' = StopCancels \ {f}
       /\ closed' = StopCloses \ {f}
  /\ open' = StopFrees
  /\ UNCHANGED <<pending, status, reader, next, socket>>

\* After s.mu the status is set ...
StartShowsBusy(k) ==
  /\ Goto(k, "installed", "busy")
  /\ status' = "busy"
  /\ UNCHANGED <<pending, cur, open, fwdVars, reader, next, socket, fwd>>

\* ... and the reader started.
StartSpawns(k) ==
  /\ Finish(k, "busy")
  /\ reader' = reader \cup {fwd[k]}
  /\ UNCHANGED <<sessVars, open, fwdVars, next>>

\* End, Suspend and Reconfigure: the session is stopped under s.mu ...
StopBegins(k) ==
  /\ Goto(k, "idle", IF cur = None THEN "available" ELSE "stopped")
  /\ cancelled' = StopCancels
  /\ closed' = StopCloses
  /\ open' = StopFrees
  /\ cur' = None
  /\ next' \in {[next EXCEPT ![k] = "done"], [next EXCEPT ![k] = "start"]}
  /\ UNCHANGED <<pending, status, conn, reader, socket, fwd>>

\* ... and if there was one the status is set after it.
StopShowsAvailable(k) ==
  /\ Goto(k, "stopped", "available")
  /\ status' = "available"
  /\ UNCHANGED <<pending, cur, open, fwdVars, reader, next, socket, fwd>>

\* The write is over, or its start fails for want of a setup.
StopEnds(k) ==
  /\ next[k] = "done" \/ pending = None
  /\ Finish(k, "available")
  /\ next' = [next EXCEPT ![k] = "done"]
  /\ UNCHANGED <<sessVars, open, fwdVars, reader>>

\* Reconfigure goes on to start, on the pending setup as it finds it.
ReconfigureStarts(k) ==
  /\ next[k] = "start"
  /\ Goto(k, "available", "prepared")
  /\ StartReads(k)
  /\ next' = [next EXCEPT ![k] = "done"]

\* A reader whose context is cancelled returns and closes its forwarder.
ReaderEnds(f) ==
  /\ f \in reader \cap cancelled
  /\ reader' = reader \ {f}
  /\ closed' = closed \cup {f}
  /\ open' = IF f \in closed THEN open ELSE open \ {conn[f]}
  /\ UNCHANGED <<sessVars, conn, cancelled, pc, next, socket, fwd>>

-----------------------------------------------------------------------------
WriteGoesOn(k) ==
  \/ SetupSwaps(k)
  \/ SetupClosesPrevious(k)
  \/ StartFails(k)
  \/ StartInstalls(k)
  \/ StartShowsBusy(k)
  \/ StartSpawns(k)
  \/ StopShowsAvailable(k)
  \/ StopEnds(k)
  \/ ReconfigureStarts(k)

Next ==
  \/ \E k \in Controller : SetupBinds(k) \/ StartBegins(k) \/ StopBegins(k) \/ WriteGoesOn(k)
  \/ \E f \in Forwarder : ReaderEnds(f)

Spec == Init /\ [][Next]_vars

\* Writes that have begun go on, and readers notice that they are cancelled.
FairSpec ==
  /\ Spec
  /\ \A k \in Controller : WF_vars(WriteGoesOn(k))
  /\ \A f \in Forwarder : WF_vars(ReaderEnds(f))

-----------------------------------------------------------------------------
\* Every variable has its type.
TypeOK ==
  /\ pending \in Socket \cup {None}
  /\ cur \in Forwarder \cup {None}
  /\ open \subseteq Socket
  /\ conn \in [Forwarder -> Socket \cup {None}]
  /\ closed \subseteq Forwarder
  /\ cancelled \subseteq Forwarder
  /\ reader \subseteq Forwarder
  /\ status \in {"available", "busy"}
  /\ pc \in [Controller -> {"idle", "bound", "swapped", "prepared", "installed",
                            "busy", "stopped", "available"}]
  /\ next \in [Controller -> {"done", "start"}]
  /\ socket \in [Controller -> Socket \cup {None}]
  /\ fwd \in [Controller -> Forwarder \cup {None}]

\* However starts, stops and setups of two controllers interleave, a reader
\* that nobody has told to stop is the one s.cancel stops ("a start over a
\* live session would otherwise orphan it", hkcamera.go:414).
OneReader == \A f \in reader \ cancelled : f = cur

\* A socket that is open is the pending one, or a setup has yet to put it there
\* or to close it ("without this each attempt leaks a socket",
\* hkcamera.go:357); in particular a stopped stream leaves none behind.
NoSocketLeak ==
  \A c \in open :
    c = pending \/ \E k \in Controller : pc[k] \in {"bound", "swapped"} /\ socket[k] = c

\* A forwarder that was closed has no reader for long, so the camera is not
\* pulled for a stream that has ended (startStream's goroutine, stopLocked).
ClosedStreamsEnd == \A f \in Forwarder : f \in closed ~> f \notin reader

\* hkcamera.go:379-380, "tear down and rebuild on the new parameters": the
\* socket that a Reconfigure rebuilds the stream on is open.
ReconfigureRebuilds ==
  [][\A k \in Controller : ReconfigureStarts(k) => socket'[k] \in open]_vars
=============================================================================
