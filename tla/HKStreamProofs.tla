--------------------------- MODULE HKStreamProofs ---------------------------
(***************************************************************************)
(* Proofs about HKStream for any set of controllers, sockets and           *)
(* forwarders.                                                             *)
(***************************************************************************)
EXTENDS HKStream, TLAPS

\* A forwarder between its installation and its reader's start is either the
\* current one or was stopped already, so that its reader starts cancelled.
StartInv ==
  \A k \in Controller : pc[k] \in {"installed", "busy"} =>
    fwd[k] \in Forwarder /\ (fwd[k] = cur \/ fwd[k] \in cancelled)

\* A setup under way has a socket of its own until it has swapped it.
SetupInv == \A k \in Controller : pc[k] = "bound" => socket[k] \in Socket

StreamInv == TypeOK /\ StartInv /\ SetupInv /\ OneReader /\ NoSocketLeak

\* A freshly built session satisfies the invariant.
LEMMA InitStreamInv == Init => StreamInv
BY DEF Init, StreamInv, TypeOK, StartInv, SetupInv, OneReader, NoSocketLeak

\* The three steps of a setup keep the invariant.
LEMMA SetupStreamInv ==
  ASSUME StreamInv, NEW k \in Controller,
         SetupBinds(k) \/ SetupSwaps(k) \/ SetupClosesPrevious(k)
  PROVE  StreamInv'
<1> USE DEF StreamInv, Goto
<1>1. CASE SetupBinds(k)
  <2> PICK c \in Socket : open' = open \cup {c} /\ socket' = [socket EXCEPT ![k] = c]
    BY <1>1 DEF SetupBinds
  <2>1. TypeOK'
    BY <1>1 DEF SetupBinds, sessVars, fwdVars, TypeOK
  <2>2. StartInv' /\ SetupInv' /\ OneReader'
    BY <1>1 DEF SetupBinds, sessVars, fwdVars, TypeOK, StartInv, SetupInv, OneReader
  <2>3. NoSocketLeak'
    BY <1>1 DEF SetupBinds, sessVars, fwdVars, TypeOK, NoSocketLeak
  <2> QED
    BY <2>1, <2>2, <2>3
<1>2. CASE SetupSwaps(k)
  <2>1. TypeOK'
    BY <1>2 DEF SetupSwaps, fwdVars, TypeOK, SetupInv
  <2>2. StartInv' /\ SetupInv' /\ OneReader'
    BY <1>2 DEF SetupSwaps, fwdVars, TypeOK, StartInv, SetupInv, OneReader
  <2>3. NoSocketLeak'
    BY <1>2 DEF SetupSwaps, fwdVars, TypeOK, NoSocketLeak
  <2> QED
    BY <2>1, <2>2, <2>3
<1>3. CASE SetupClosesPrevious(k)
  <2> USE <1>3 DEF SetupClosesPrevious, Finish, sessVars, fwdVars
  <2>1. TypeOK'
    BY DEF TypeOK
  <2>2. StartInv' /\ SetupInv' /\ OneReader'
    BY DEF TypeOK, StartInv, SetupInv, OneReader
  <2>3. NoSocketLeak'
    BY DEF TypeOK, NoSocketLeak
  <2> QED
    BY <2>1, <2>2, <2>3
<1> QED
  BY <1>1, <1>2, <1>3

\* A start keeps the invariant: whatever it replaces is stopped in the step
\* that replaces it.
LEMMA StartStreamInv ==
  ASSUME StreamInv, NEW k \in Controller,
         StartBegins(k) \/ ReconfigureStarts(k) \/ StartFails(k)
           \/ StartInstalls(k) \/ StartShowsBusy(k) \/ StartSpawns(k)
  PROVE  StreamInv'
<1> USE DEF StreamInv, Goto
<1>1. CASE StartBegins(k) \/ ReconfigureStarts(k)
  <2> USE <1>1 DEF StartBegins, ReconfigureStarts, StartReads, sessVars, fwdVars
  <2>1. TypeOK'
    BY DEF TypeOK
  <2>2. StartInv' /\ SetupInv' /\ OneReader'
    BY DEF TypeOK, StartInv, SetupInv, OneReader
  <2>3. NoSocketLeak'
    BY DEF TypeOK, NoSocketLeak
  <2> QED
    BY <2>1, <2>2, <2>3
<1>2. CASE StartFails(k)
  <2> USE <1>2 DEF StartFails, Finish, sessVars, fwdVars
  <2>1. TypeOK'
    BY DEF TypeOK
  <2>2. StartInv' /\ SetupInv' /\ OneReader'
    BY DEF TypeOK, StartInv, SetupInv, OneReader
  <2>3. NoSocketLeak'
    BY DEF TypeOK, NoSocketLeak
  <2> QED
    BY <2>1, <2>2, <2>3
<1>3. CASE StartInstalls(k)
  <2> PICK f \in Forwarder :
        Installs(k, f) /\ cancelled' = StopCancels \ {f} /\ closed' = StopCloses \ {f}
    BY <1>3 DEF StartInstalls
  <2> USE <1>3 DEF StartInstalls, Installs, StopCancels, StopCloses, StopFrees, Live
  <2>1. TypeOK'
    BY DEF TypeOK
  <2>2. StartInv'
    <3> SUFFICES ASSUME NEW j \in Controller, pc'[j] \in {"installed", "busy"}
                 PROVE  fwd'[j] \in Forwarder /\ (fwd'[j] = cur' \/ fwd'[j] \in cancelled')
      BY DEF StartInv
    <3>1. CASE j = k
      BY <3>1 DEF TypeOK
    <3>2. CASE j # k
      <4>1. fwd'[j] = fwd[j] /\ fwd[j] # f /\ pc[j] \in {"installed", "busy"}
        BY <3>2 DEF TypeOK, FreshForwarder
      <4>2. fwd[j] \in Forwarder /\ (fwd[j] = cur \/ fwd[j] \in cancelled)
        BY <4>1 DEF StartInv
      <4> QED
        BY <4>1, <4>2, NoneAssumption
    <3> QED
      BY <3>1, <3>2
  <2>3. OneReader'
    BY NoneAssumption DEF TypeOK, OneReader, FreshForwarder
  <2>4. SetupInv' /\ NoSocketLeak'
    BY DEF TypeOK, SetupInv, NoSocketLeak
  <2> QED
    BY <2>1, <2>2, <2>3, <2>4
<1>4. CASE StartShowsBusy(k)
  <2> USE <1>4 DEF StartShowsBusy, fwdVars
  <2>1. TypeOK'
    BY DEF TypeOK
  <2>2. StartInv' /\ SetupInv' /\ OneReader'
    BY DEF TypeOK, StartInv, SetupInv, OneReader
  <2>3. NoSocketLeak'
    BY DEF TypeOK, NoSocketLeak
  <2> QED
    BY <2>1, <2>2, <2>3
<1>5. CASE StartSpawns(k)
  <2> USE <1>5 DEF StartSpawns, Finish, sessVars, fwdVars
  <2>1. fwd[k] \in Forwarder /\ (fwd[k] = cur \/ fwd[k] \in cancelled)
    BY DEF StartInv
  <2>2. TypeOK'
    BY <2>1 DEF TypeOK
  <2>3. StartInv' /\ SetupInv'
    BY DEF TypeOK, StartInv, SetupInv
  <2>4. OneReader'
    BY <2>1 DEF OneReader
  <2>5. NoSocketLeak'
    BY DEF TypeOK, NoSocketLeak
  <2> QED
    BY <2>2, <2>3, <2>4, <2>5
<1> QED
  BY <1>1, <1>2, <1>3, <1>4, <1>5

\* A stop keeps the invariant.
LEMMA StopStreamInv ==
  ASSUME StreamInv, NEW k \in Controller,
         StopBegins(k) \/ StopShowsAvailable(k) \/ StopEnds(k)
  PROVE  StreamInv'
<1> USE DEF StreamInv, Goto
<1>1. CASE StopBegins(k)
  <2> USE <1>1 DEF StopBegins, StopCancels, StopCloses, StopFrees, Live
  <2>1. TypeOK'
    BY DEF TypeOK
  <2>2. StartInv' /\ SetupInv'
    BY DEF TypeOK, StartInv, SetupInv
  <2>3. OneReader'
    BY NoneAssumption DEF TypeOK, OneReader
  <2>4. NoSocketLeak'
    BY DEF TypeOK, NoSocketLeak
  <2> QED
    BY <2>1, <2>2, <2>3, <2>4
<1>2. CASE StopShowsAvailable(k)
  <2> USE <1>2 DEF StopShowsAvailable, fwdVars
  <2>1. TypeOK'
    BY DEF TypeOK
  <2>2. StartInv' /\ SetupInv' /\ OneReader'
    BY DEF TypeOK, StartInv, SetupInv, OneReader
  <2>3. NoSocketLeak'
    BY DEF TypeOK, NoSocketLeak
  <2> QED
    BY <2>1, <2>2, <2>3
<1>3. CASE StopEnds(k)
  <2> USE <1>3 DEF StopEnds, Finish, sessVars, fwdVars
  <2>1. TypeOK'
    BY DEF TypeOK
  <2>2. StartInv' /\ SetupInv' /\ OneReader'
    BY DEF TypeOK, StartInv, SetupInv, OneReader
  <2>3. NoSocketLeak'
    BY DEF TypeOK, NoSocketLeak
  <2> QED
    BY <2>1, <2>2, <2>3
<1> QED
  BY <1>1, <1>2, <1>3

\* So does the end of a reader.
LEMMA ReaderStreamInv ==
  ASSUME StreamInv, NEW f \in Forwarder, ReaderEnds(f)
  PROVE  StreamInv'
<1> USE DEF StreamInv, ReaderEnds, sessVars
<1>1. TypeOK'
  BY DEF TypeOK
<1>2. StartInv' /\ SetupInv' /\ OneReader'
  BY DEF StartInv, SetupInv, OneReader
<1>3. NoSocketLeak'
  BY DEF NoSocketLeak
<1> QED
  BY <1>1, <1>2, <1>3

\* StreamInv is an inductive invariant of the session.
THEOREM StreamInductive == Spec => []StreamInv
<1>1. StreamInv /\ UNCHANGED vars => StreamInv'
  BY DEF StreamInv, vars, sessVars, fwdVars, TypeOK, StartInv, SetupInv, OneReader, NoSocketLeak
<1>2. StreamInv /\ Next => StreamInv'
  BY SetupStreamInv, StartStreamInv, StopStreamInv, ReaderStreamInv DEF Next, WriteGoesOn
<1> QED
  BY InitStreamInv, <1>1, <1>2, PTL DEF Spec

\* However the controllers interleave, at most the current stream's reader runs
\* without having been told to stop (startStream, stopLocked).
THEOREM ReadersAreNotOrphaned == Spec => []OneReader
<1>1. StreamInv => OneReader
  BY DEF StreamInv
<1> QED
  BY <1>1, StreamInductive, PTL

\* An open socket is always pending or in the hands of a setup under way
\* (onSetupEndpoints, srtpForwarder.Close).
THEOREM SocketsDoNotLeak == Spec => []NoSocketLeak
<1>1. StreamInv => NoSocketLeak
  BY DEF StreamInv
<1> QED
  BY <1>1, StreamInductive, PTL

-----------------------------------------------------------------------------
\* A stream that nobody has stopped is fed: its forwarder has a reader that was not
\* told to stop, or the start that installed it has still to start one; and what was
\* closed is just what was told to stop, so that its reader ends.
CurrentIsRead ==
  /\ closed = cancelled
  /\ cur # None =>
       /\ cur \notin cancelled
       /\ cur \in reader \/ \E k \in Controller : pc[k] \in {"installed", "busy"} /\ fwd[k] = cur

\* Whoever started the current stream goes on to start its reader.
LEMMA StartIsRead ==
  ASSUME StreamInv, CurrentIsRead, NEW k \in Controller,
         StartInstalls(k) \/ StartShowsBusy(k) \/ StartSpawns(k)
  PROVE  CurrentIsRead'
<1>0. pc \in [Controller -> {"idle", "bound", "swapped", "prepared", "installed",
                             "busy", "stopped", "available"}]
      /\ fwd \in [Controller -> Forwarder \cup {None}]
  BY DEF StreamInv, TypeOK
<1>1. CASE StartInstalls(k)
  <2> PICK f \in Forwarder :
        Installs(k, f) /\ cancelled' = StopCancels \ {f} /\ closed' = StopCloses \ {f}
    BY <1>1 DEF StartInstalls
  <2>1. cur' = f /\ fwd'[k] = f /\ pc'[k] = "installed"
    BY <1>0, <1>1 DEF Installs, StartInstalls, Goto
  <2>2. closed' = cancelled' /\ f \notin cancelled'
    BY DEF CurrentIsRead, StopCancels, StopCloses
  <2> QED
    BY <2>1, <2>2 DEF CurrentIsRead
<1>2. CASE StartShowsBusy(k)
  <2>1. UNCHANGED <<cur, closed, cancelled, reader, fwd>>
    BY <1>2 DEF StartShowsBusy, fwdVars
  <2>2. \A j \in Controller : pc[j] \in {"installed", "busy"} => pc'[j] \in {"installed", "busy"}
    BY <1>0, <1>2 DEF StartShowsBusy, Goto
  <2> QED
    BY <2>1, <2>2 DEF CurrentIsRead
<1>3. CASE StartSpawns(k)
  <2>1. UNCHANGED <<cur, closed, cancelled>> /\ reader' = reader \cup {fwd[k]}
    BY <1>3 DEF StartSpawns, sessVars, fwdVars
  <2>2. \A j \in Controller \ {k} : pc'[j] = pc[j] /\ fwd'[j] = fwd[j]
    BY <1>0, <1>3 DEF StartSpawns, Finish, Goto
  <2> QED
    BY <2>1, <2>2 DEF CurrentIsRead
<1> QED
  BY <1>1, <1>2, <1>3

\* Every other step leaves the current stream and whoever started it alone, or
\* leaves no stream.
LEMMA OthersAreRead ==
  ASSUME StreamInv, CurrentIsRead, NEW k \in Controller,
         \/ SetupBinds(k) \/ SetupSwaps(k) \/ SetupClosesPrevious(k)
         \/ StartBegins(k) \/ ReconfigureStarts(k) \/ StartFails(k)
         \/ StopBegins(k) \/ StopShowsAvailable(k) \/ StopEnds(k)
  PROVE  CurrentIsRead'
<1>0. pc \in [Controller -> {"idle", "bound", "swapped", "prepared", "installed",
                             "busy", "stopped", "available"}]
      /\ fwd \in [Controller -> Forwarder \cup {None}]
  BY DEF StreamInv, TypeOK
<1>1. CASE StopBegins(k)
  BY <1>1 DEF StopBegins, StopCancels, StopCloses, CurrentIsRead
<1>2. CASE ~StopBegins(k)
  <2>1. UNCHANGED <<cur, closed, cancelled, reader>>
    BY <1>2 DEF SetupBinds, SetupSwaps, SetupClosesPrevious, StartBegins, ReconfigureStarts, StartReads,
       StartFails, StopShowsAvailable, StopEnds, sessVars, fwdVars
  <2>2. pc[k] \notin {"installed", "busy"} /\ \A j \in Controller \ {k} : pc'[j] = pc[j] /\ fwd'[j] = fwd[j]
    BY <1>0, <1>2 DEF SetupBinds, SetupSwaps, SetupClosesPrevious, StartBegins, ReconfigureStarts,
       StartReads, StartFails, StopShowsAvailable, StopEnds, Finish, Goto, sessVars
  <2>3. \A j \in Controller : pc[j] \in {"installed", "busy"} =>
          pc'[j] \in {"installed", "busy"} /\ fwd'[j] = fwd[j]
    BY <2>2
  <2> QED
    BY <2>1, <2>3 DEF CurrentIsRead
<1> QED
  BY <1>1, <1>2

\* A reader ends only when it was told to, and the current stream's was not.
LEMMA NextIsRead == StreamInv /\ CurrentIsRead /\ [Next]_vars => CurrentIsRead'
<1> SUFFICES ASSUME StreamInv, CurrentIsRead, [Next]_vars PROVE CurrentIsRead'
  OBVIOUS
<1>1. ASSUME NEW f \in Forwarder, ReaderEnds(f) PROVE CurrentIsRead'
  BY <1>1 DEF ReaderEnds, sessVars, CurrentIsRead
<1>2. CASE UNCHANGED vars
  BY <1>2 DEF vars, sessVars, fwdVars, CurrentIsRead
<1> QED
  BY <1>1, <1>2, StartIsRead, OthersAreRead DEF Next, WriteGoesOn

\* However starts, stops and setups interleave, the stream the session takes for
\* its own has a reader or is about to have one, and a closed one has none for long
\* (startStream and stopLocked, hkcamera.go:387-457).
THEOREM StreamsAreRead == Spec => []CurrentIsRead
<1>1. Init => CurrentIsRead
  BY DEF Init, CurrentIsRead
<1> QED
  BY <1>1, NextIsRead, StreamInductive, PTL DEF Spec
=============================================================================
