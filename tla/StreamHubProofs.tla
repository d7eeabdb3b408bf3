--------------------------- MODULE StreamHubProofs --------------------------
(***************************************************************************)
(* Proofs about StreamHub for every set of cameras, every finite set of    *)
(* requests and any number of pulls: types, the three safety invariants of *)
(* the runs, and that every step is a step of DemandPull or stutters.      *)
(***************************************************************************)
EXTENDS StreamHub, FiniteSetTheorems, TLAPS

-----------------------------------------------------------------------------
(* The inductive invariant, in parts.                                      *)

\* The counter under h.mu counts the requests that hold the camera.
CountInv == \A c \in Camera : viewers[c] = Cardinality(Holders(c))

\* What cam.run and the goroutines know of each other.
RunInv ==
  /\ \A c \in Camera : run[c] # NoRun =>
       /\ run[c] \notin cancelled
       /\ phase[run[c]] # "off"
       /\ camOf[run[c]] = c
  /\ \A r \in RunId : phase[r] # "off" /\ r \notin cancelled =>
       camOf[r] \in Camera /\ run[camOf[r]] = r
  /\ \A r \in cancelled : phase[r] # "off"

\* A request in the hub has a camera; while the hub is open its camera has a
\* run, and serve's r is that run.
ViewInv ==
  /\ \A v \in Viewer : pc[v] \in Holding \cup {"routed"} => vcam[v] \in Camera
  /\ \A v \in Viewer : pc[v] \in Watching => vrun[v] \in RunId
  /\ ~closed => \A v \in Viewer : pc[v] \in Holding =>
       /\ run[vcam[v]] # NoRun
       /\ pc[v] \in Watching => vrun[v] = run[vcam[v]]

CloseInv ==
  /\ closed <=> closer # "open"
  /\ closed => \A c \in Camera : run[c] = NoRun
  /\ closer = "returned" => \A r \in RunId : phase[r] = "off"

\* The channels a run has left behind are closed; the current one is closed
\* while the muxer exists.
ReadyInv ==
  /\ \A r \in RunId : r \in muxer <=> <<r, chan[r]>> \in closedChan
  /\ \A r \in RunId : \A k \in 0..(chan[r] - 1) : <<r, k>> \in closedChan
  /\ \A p \in closedChan : p[2] <= chan[p[1]]
  /\ \A v \in Viewer : pc[v] = "waiting" => vchan[v] <= chan[vrun[v]]

IInv == TypeOK /\ CountInv /\ RunInv /\ ViewInv /\ CloseInv /\ ReadyInv

-----------------------------------------------------------------------------
(* Counting holders.                                                       *)

\* The holders of a camera are a finite set, so they have a number.
LEMMA HoldersFinite ==
  ASSUME NEW c \in Camera
  PROVE  IsFiniteSet(Holders(c)) /\ Cardinality(Holders(c)) \in Nat
<1>1. Holders(c) \subseteq Viewer
  BY DEF Holders
<1>2. QED
  BY <1>1, ViewerAssumption, FS_Subset, FS_CardinalityType

\* A camera somebody holds has a positive count, one nobody holds has none.
LEMMA HeldCount ==
  ASSUME TypeOK, CountInv, NEW c \in Camera
  PROVE  /\ viewers[c] \in Nat
         /\ viewers[c] = 0 <=> \A v \in Viewer : ~(pc[v] \in Holding /\ vcam[v] = c)
<1>1. viewers[c] = Cardinality(Holders(c))
  BY DEF CountInv
<1>2. Holders(c) = {} <=> Cardinality(Holders(c)) = 0
  BY HoldersFinite, FS_EmptySet
<1>3. QED
  BY <1>1, <1>2, HoldersFinite DEF Holders

\* A request that comes to hold a camera makes its count one larger.
LEMMA CountAcquire ==
  ASSUME TypeOK, CountInv,
         NEW v \in Viewer, NEW c \in Camera, NEW x \in Holding,
         pc[v] \notin Holding,
         viewers' = [viewers EXCEPT ![c] = @ + 1],
         pc' = [pc EXCEPT ![v] = x],
         vcam' = [vcam EXCEPT ![v] = c]
  PROVE  CountInv'
<1>1. Holders(c)' = Holders(c) \cup {v} /\ v \notin Holders(c)
  BY DEF Holders, TypeOK
<1>2. Cardinality(Holders(c)') = Cardinality(Holders(c)) + 1
  BY <1>1, HoldersFinite, FS_AddElement
<1>3. ASSUME NEW d \in Camera, d # c
      PROVE  Holders(d)' = Holders(d)
  BY <1>3 DEF Holders, TypeOK
<1>4. QED
  BY <1>2, <1>3 DEF CountInv, TypeOK

\* A request that stops holding its camera makes its count one smaller.
LEMMA CountRelease ==
  ASSUME TypeOK, CountInv,
         NEW v \in Viewer, NEW c \in Camera, NEW x, x \notin Holding,
         pc[v] \in Holding, vcam[v] = c,
         viewers' = [viewers EXCEPT ![c] = @ - 1],
         pc' = [pc EXCEPT ![v] = x],
         \A w \in Viewer \ {v} : vcam'[w] = vcam[w]
  PROVE  CountInv' /\ viewers' \in [Camera -> Nat]
<1>1. Holders(c)' = Holders(c) \ {v} /\ v \in Holders(c)
  BY DEF Holders, TypeOK
<1>2. Cardinality(Holders(c)') = Cardinality(Holders(c)) - 1
  BY <1>1, HoldersFinite, FS_RemoveElement
<1>3. ASSUME NEW d \in Camera, d # c
      PROVE  Holders(d)' = Holders(d)
  BY <1>3 DEF Holders, TypeOK
<1>4. CountInv'
  BY <1>2, <1>3 DEF CountInv, TypeOK
<1>5. viewers[c] \in Nat /\ viewers[c] # 0
  BY HeldCount
<1>6. QED
  BY <1>4, <1>5 DEF TypeOK

\* Steps that leave the holders and the counts alone keep the count exact.
LEMMA CountSame ==
  ASSUME CountInv, UNCHANGED viewers,
         \A v \in Viewer : /\ pc'[v] \in Holding <=> pc[v] \in Holding
                           /\ pc[v] \in Holding => vcam'[v] = vcam[v]
  PROVE  CountInv'
<1>1. \A c \in Camera : Holders(c)' = Holders(c)
  BY DEF Holders
<1>2. QED
  BY <1>1 DEF CountInv

-----------------------------------------------------------------------------
(* Each action preserves the invariant.                                    *)

\* acquire, by Handler or by its handler, for a request without a camera.
LEMMA AcquireStep ==
  ASSUME IInv, NEW v \in Viewer, NEW c \in Camera, NEW x \in {"priming", "acquired"},
         pc[v] \in {"out", "routed"}, Acquire(c),
         pc' = [pc EXCEPT ![v] = x], vcam' = [vcam EXCEPT ![v] = c],
         UNCHANGED <<vrun, vchan, closer>>
  PROVE  IInv'
<1> USE DEF IInv
<1>1. CountInv'
  <2>1. pc[v] \notin Holding /\ x \in Holding
    BY DEF Holding
  <2>2. QED
    BY <2>1, CountAcquire DEF Acquire
<1>2. CASE run[c] = NoRun
  <2>1. PICK r \in RunId : StartLocked(c, r)
    BY <1>2 DEF Acquire
  <2>2. TypeOK'
    <3>1. /\ run' \in [Camera -> RunId \cup {NoRun}]
          /\ phase' \in [RunId -> Phases]
          /\ camOf' \in [RunId -> Camera \cup {NoCamera}]
          /\ chan' \in [RunId -> Nat]
      BY <2>1 DEF TypeOK, StartLocked, Phases
    <3>2. closedChan' \subseteq closedChan /\ muxer' \subseteq muxer /\ cancelled' = cancelled
      BY <2>1 DEF StartLocked
    <3>3. /\ viewers' \in [Camera -> Nat]
          /\ timer' \in [Camera -> {"nil", "armed", "spent"}]
          /\ pc' \in [Viewer -> Holding \cup {"out", "routed"}]
          /\ vcam' \in [Viewer -> Camera \cup {NoCamera}]
      BY DEF TypeOK, Acquire, Holding
    <3>4. QED
      BY <3>1, <3>2, <3>3 DEF TypeOK, Acquire
  <2>3. RunInv'
    <3>1. /\ run'[c] = r /\ phase'[r] = "head" /\ camOf'[r] = c /\ r \notin cancelled'
          /\ phase[r] = "off"
      BY <2>1 DEF TypeOK, StartLocked, RunInv
    <3>2. \A d \in Camera \ {c} : run'[d] = run[d]
      BY <2>1 DEF TypeOK, StartLocked
    <3>3. \A s \in RunId \ {r} : phase'[s] = phase[s] /\ camOf'[s] = camOf[s]
      BY <2>1 DEF TypeOK, StartLocked
    <3>4. cancelled' = cancelled
      BY <2>1 DEF StartLocked
    <3>5. ASSUME NEW d \in Camera, run'[d] # NoRun
          PROVE  /\ run'[d] \notin cancelled'
                 /\ phase'[run'[d]] # "off"
                 /\ camOf'[run'[d]] = d
      <4>1. CASE d = c
        BY <3>1, <4>1
      <4>2. CASE d # c
        <5>1. run'[d] = run[d] /\ run[d] \in RunId /\ phase[run[d]] # "off"
          BY <3>2, <3>5, <4>2 DEF TypeOK, RunInv
        <5>2. QED
          BY <3>1, <3>3, <3>4, <5>1, <3>5 DEF RunInv
      <4>3. QED
        BY <4>1, <4>2
    <3>6. ASSUME NEW s \in RunId, phase'[s] # "off", s \notin cancelled'
          PROVE  camOf'[s] \in Camera /\ run'[camOf'[s]] = s
      <4>1. CASE s = r
        BY <3>1, <4>1
      <4>2. CASE s # r
        <5>1. camOf[s] \in Camera /\ run[camOf[s]] = s
          BY <3>3, <3>4, <3>6, <4>2 DEF RunInv
        <5>2. camOf[s] # c
          BY <1>2, <5>1, NilAssumption
        <5>3. QED
          BY <3>2, <3>3, <4>2, <5>1, <5>2
      <4>3. QED
        BY <4>1, <4>2
    <3>7. \A s \in cancelled' : phase'[s] # "off"
      BY <3>1, <3>3, <3>4 DEF RunInv, TypeOK
    <3>8. QED
      BY <3>5, <3>6, <3>7 DEF RunInv
  <2>4. ViewInv'
    BY <1>2, <2>1, NilAssumption DEF ViewInv, TypeOK, Acquire, StartLocked, Holding, Watching
  <2>5. CloseInv'
    BY <2>1 DEF CloseInv, TypeOK, Acquire, StartLocked
  <2>6. ReadyInv'
    <3>1. ASSUME NEW w \in Viewer, pc'[w] = "waiting"
          PROVE  pc[w] = "waiting" /\ vrun[w] \in RunId \ {r}
      <4>1. pc[w] = "waiting" /\ pc[w] \in Holding /\ pc[w] \in Watching
        BY <3>1 DEF TypeOK, Holding, Watching
      <4>2. vcam[w] \in Camera /\ vrun[w] \in RunId /\ vrun[w] = run[vcam[w]]
            /\ run[vcam[w]] # NoRun
        BY <4>1 DEF ViewInv, Acquire
      <4>3. phase[vrun[w]] # "off"
        BY <4>2 DEF RunInv
      <4>4. QED
        BY <4>1, <4>2, <4>3, <2>1 DEF StartLocked
    <3>2. \A w \in Viewer : pc'[w] = "waiting" => vchan'[w] <= chan'[vrun'[w]]
      BY <2>1, <3>1 DEF ReadyInv, TypeOK, StartLocked
    <3>3. \A s \in RunId : s \in muxer' <=> <<s, chan'[s]>> \in closedChan'
      BY <2>1 DEF ReadyInv, TypeOK, StartLocked
    <3>4. ASSUME NEW s \in RunId, NEW k \in 0..(chan'[s] - 1)
          PROVE  <<s, k>> \in closedChan'
      <4>1. s # r /\ chan'[s] = chan[s]
        BY <2>1 DEF TypeOK, StartLocked
      <4>2. <<s, k>> \in closedChan
        BY <4>1 DEF ReadyInv
      <4>3. QED
        BY <2>1, <4>1, <4>2 DEF StartLocked
    <3>5. \A p \in closedChan' : p[2] <= chan'[p[1]]
      BY <2>1 DEF ReadyInv, TypeOK, StartLocked
    <3>6. QED
      BY <3>2, <3>3, <3>4, <3>5 DEF ReadyInv
  <2>7. QED
    BY <1>1, <2>2, <2>3, <2>4, <2>5, <2>6
<1>3. CASE run[c] # NoRun
  <2>1. UNCHANGED <<run, pullVars, closed>>
    BY <1>3 DEF Acquire
  <2>2. TypeOK'
    BY <2>1 DEF TypeOK, Acquire, pullVars, Holding
  <2>3. RunInv' /\ CloseInv'
    BY <2>1 DEF RunInv, CloseInv, pullVars
  <2>4. ViewInv'
    <3>1. ASSUME NEW w \in Viewer, w # v
          PROVE  pc'[w] = pc[w] /\ vcam'[w] = vcam[w] /\ vrun'[w] = vrun[w]
      BY <3>1 DEF TypeOK
    <3>2. pc'[v] = x /\ vcam'[v] = c /\ x \notin Watching
      BY DEF TypeOK, Watching
    <3>3. QED
      BY <1>3, <2>1, <3>1, <3>2 DEF ViewInv
  <2>5. ReadyInv'
    BY <2>1 DEF ReadyInv, TypeOK, pullVars
  <2>6. QED
    BY <1>1, <2>2, <2>3, <2>4, <2>5
<1>4. QED
  BY <1>2, <1>3

\* release, by Handler (the request goes on) or deferred (it is answered).
LEMMA ReleaseStep ==
  ASSUME IInv, NEW v \in Viewer, NEW x \in {"routed", "out"}, pc[v] \in Holding,
         Release(vcam[v]), pc' = [pc EXCEPT ![v] = x],
         vcam' \in [Viewer -> Camera \cup {NoCamera}],
         vrun' \in [Viewer -> RunId \cup {NoRun}],
         vchan' \in [Viewer -> Nat],
         x = "routed" => vcam'[v] = vcam[v],
         \A w \in Viewer \ {v} :
           vcam'[w] = vcam[w] /\ vrun'[w] = vrun[w] /\ vchan'[w] = vchan[w],
         UNCHANGED closer
  PROVE  IInv'
<1> USE DEF IInv
<1>1. CountInv' /\ viewers' \in [Camera -> Nat]
  <2>1. x \notin Holding /\ vcam[v] \in Camera
    BY DEF Holding, ViewInv
  <2>2. QED
    BY <2>1, CountRelease DEF Release
<1>2. UNCHANGED <<run, pullVars, closed, callbacks>>
  BY DEF Release
<1>3. TypeOK'
  BY <1>1, <1>2 DEF TypeOK, Release, pullVars, Holding
<1>4. RunInv' /\ CloseInv'
  BY <1>2 DEF RunInv, CloseInv, pullVars
<1>5. ViewInv'
  BY <1>2 DEF ViewInv, TypeOK, Holding, Watching
<1>6. ReadyInv'
  BY <1>2 DEF ReadyInv, TypeOK, pullVars
<1>7. QED
  BY <1>1, <1>3, <1>4, <1>5, <1>6

\* The other steps of a request: it stays where it was with its camera, reads
\* the run, or leaves without having acquired.
LEMMA ViewerLocalStep ==
  ASSUME IInv, NEW v \in Viewer,
         \/ SessionDone(v) \/ ServeRejected(v) \/ ServeReadsRun(v) \/ ServeLooks(v)
         \/ ServeWakes(v) \/ ServeGivesUp(v) \/ ServeHandled(v)
  PROVE  IInv'
<1> USE DEF IInv, SessionDone, ServeRejected, ServeReadsRun, ServeLooks, ServeWakes,
            ServeGivesUp, ServeHandled, Answer
<1>1. UNCHANGED <<camVars, pullVars, closer>>
  OBVIOUS
<1>2. CountInv'
  <2>1. \A w \in Viewer : /\ pc'[w] \in Holding <=> pc[w] \in Holding
                          /\ pc[w] \in Holding => vcam'[w] = vcam[w]
    BY DEF TypeOK, Holding
  <2>2. QED
    BY <1>1, <2>1, CountSame DEF camVars
<1>3. TypeOK'
  BY <1>1 DEF TypeOK, camVars, pullVars, Holding, ViewInv, Watching
<1>4. RunInv' /\ CloseInv'
  BY <1>1 DEF RunInv, CloseInv, camVars, pullVars
<1>5. ViewInv'
  BY <1>1 DEF ViewInv, CloseInv, TypeOK, Holding, Watching, camVars, pullVars
<1>6. ReadyInv'
  BY <1>1 DEF ReadyInv, ViewInv, TypeOK, Watching, camVars, pullVars
<1>7. QED
  BY <1>2, <1>3, <1>4, <1>5, <1>6

\* The idle callback: cancelling is sound because a zero count means that no
\* request holds the camera.
LEMMA IdleCallbackStep ==
  ASSUME IInv, NEW c \in Camera, IdleCallback(c)
  PROVE  IInv'
<1> USE DEF IInv, IdleCallback
<1>1. CountInv'
  BY CountSame DEF viewVars
<1>2. TypeOK'
  BY DEF TypeOK, IdleTest, viewVars
<1>3. RunInv' /\ CloseInv'
  BY NilAssumption DEF RunInv, CloseInv, TypeOK, IdleTest
<1>4. ViewInv'
  <2>1. IdleTest(c) => \A v \in Viewer : ~(pc[v] \in Holding /\ vcam[v] = c)
    BY HeldCount DEF IdleTest
  <2>2. QED
    BY <2>1 DEF ViewInv, TypeOK, viewVars, Holding, Watching
<1>5. ReadyInv'
  BY DEF ReadyInv, viewVars
<1>6. QED
  BY <1>1, <1>2, <1>3, <1>4, <1>5

\* The timer, and the two halves of Close.
LEMMA HubStep ==
  ASSUME IInv, (\E c \in Camera : TimerFires(c)) \/ CloseBegin \/ CloseReturn
  PROVE  IInv'
<1> USE DEF IInv
<1>1. CountInv'
  BY CountSame DEF TimerFires, CloseBegin, CloseReturn, viewVars, camVars
<1>2. CASE \E c \in Camera : TimerFires(c)
  BY <1>1, <1>2 DEF TimerFires, TypeOK, RunInv, ViewInv, CloseInv, ReadyInv, pullVars, viewVars
<1>3. CASE CloseBegin
  <2>1. TypeOK'
    BY <1>3 DEF CloseBegin, TypeOK, viewVars
  <2>2. RunInv' /\ CloseInv'
    BY <1>3 DEF CloseBegin, TypeOK, RunInv, CloseInv
  <2>3. ViewInv' /\ ReadyInv'
    BY <1>3 DEF CloseBegin, TypeOK, ViewInv, ReadyInv, viewVars
  <2>4. QED
    BY <1>1, <2>1, <2>2, <2>3
<1>4. CASE CloseReturn
  BY <1>1, <1>4 DEF CloseReturn, TypeOK, RunInv, ViewInv, CloseInv, ReadyInv, camVars, pullVars, viewVars
<1>5. QED
  BY <1>2, <1>3, <1>4

\* A muxer that is dropped leaves a closed channel behind and a new one open.
LEMMA DropMuxerReady ==
  ASSUME TypeOK, ViewInv, ReadyInv, NEW r \in RunId, DropMuxer(r), UNCHANGED <<closedChan, viewVars>>
  PROVE  ReadyInv'
<1>1. /\ muxer' = muxer \ {r}
      /\ chan \in [RunId -> Nat] /\ chan' \in [RunId -> Nat]
      /\ \A q \in RunId : chan'[q] = IF q = r /\ r \in muxer THEN chan[q] + 1 ELSE chan[q]
  BY DEF DropMuxer, TypeOK
<1>2. \A p \in closedChan : p \in RunId \X Nat /\ p[2] <= chan[p[1]]
  BY DEF TypeOK, ReadyInv
<1>3. ASSUME NEW q \in RunId PROVE q \in muxer' <=> <<q, chan'[q]>> \in closedChan
  <2>1. CASE q = r /\ r \in muxer
    <3>1. <<q, chan[q] + 1>> \notin closedChan
      BY <1>1, <1>2
    <3> QED
      BY <1>1, <2>1, <3>1
  <2>2. CASE ~(q = r /\ r \in muxer)
    BY <1>1, <2>2 DEF ReadyInv
  <2> QED
    BY <2>1, <2>2
<1>4. ASSUME NEW q \in RunId, NEW k \in 0..(chan'[q] - 1) PROVE <<q, k>> \in closedChan
  <2>1. k \in 0..(chan[q] - 1) \/ (k = chan[q] /\ q \in muxer)
    BY <1>1
  <2> QED
    BY <2>1 DEF ReadyInv
<1>5. \A p \in closedChan : p[2] <= chan'[p[1]]
  BY <1>1, <1>2
<1>6. ASSUME NEW v \in Viewer, pc[v] = "waiting" PROVE vchan[v] <= chan'[vrun[v]]
  <2>1. vrun[v] \in RunId /\ vchan[v] \in Nat /\ vchan[v] <= chan[vrun[v]]
    BY <1>6 DEF TypeOK, ViewInv, ReadyInv, Watching
  <2> QED
    BY <1>1, <2>1
<1> QED
  BY <1>3, <1>4, <1>5, <1>6 DEF ReadyInv, viewVars

\* A pull moves on.
LEMMA PullStepInv ==
  ASSUME IInv, NEW r \in RunId, PullStep(r)
  PROVE  IInv'
<1> USE DEF IInv
<1>1. UNCHANGED <<camVars, viewVars, closer>>
  BY DEF PullStep, PullHead, Dial, Write, SourceEnds, CloseMuxer
<1>2. CountInv'
  BY <1>1, CountSame DEF camVars, viewVars
<1>3. CASE PullHead(r)
  <2>1. TypeOK'
    BY <1>1, <1>3 DEF PullHead, PullAt, DropMuxer, TypeOK, camVars, viewVars, Phases
  <2>2. RunInv' /\ CloseInv'
    BY <1>1, <1>3 DEF PullHead, PullAt, DropMuxer, TypeOK, RunInv, CloseInv, camVars
  <2>3. ViewInv'
    BY <1>1 DEF ViewInv, camVars, viewVars
  <2>4. ReadyInv'
    <3>1. CASE r \in cancelled /\ r \in muxer
      BY <1>3, <3>1, DropMuxerReady DEF PullHead
    <3>2. CASE ~(r \in cancelled /\ r \in muxer)
      <4>1. UNCHANGED <<muxer, chan, closedChan, pc, vchan, vrun>>
        BY <1>1, <1>3, <3>2 DEF PullHead, DropMuxer, viewVars
      <4> QED
        BY <4>1 DEF ReadyInv
    <3> QED
      BY <3>1, <3>2
  <2>5. QED
    BY <1>2, <2>1, <2>2, <2>3, <2>4
<1>4. CASE Dial(r) \/ SourceEnds(r)
  BY <1>1, <1>2, <1>4 DEF Dial, SourceEnds, PullAt, TypeOK, RunInv, ViewInv, CloseInv, ReadyInv,
     camVars, viewVars, Phases
<1>5. CASE Write(r)
  BY <1>1, <1>2, <1>5 DEF Write, TypeOK, RunInv, ViewInv, CloseInv, ReadyInv, camVars, viewVars
<1>6. CASE CloseMuxer(r)
  <2>1. TypeOK'
    BY <1>1, <1>6 DEF CloseMuxer, PullAt, DropMuxer, TypeOK, camVars, viewVars, Phases
  <2>2. RunInv' /\ CloseInv'
    BY <1>1, <1>6 DEF CloseMuxer, PullAt, DropMuxer, TypeOK, RunInv, CloseInv, camVars
  <2>3. ViewInv'
    BY <1>1 DEF ViewInv, camVars, viewVars
  <2>4. ReadyInv'
    BY <1>1, <1>6, DropMuxerReady DEF CloseMuxer, viewVars
  <2>5. QED
    BY <1>2, <2>1, <2>2, <2>3, <2>4
<1>7. QED
  BY <1>3, <1>4, <1>5, <1>6 DEF PullStep

-----------------------------------------------------------------------------
(* The theorems.                                                           *)

\* A new hub satisfies the invariant.
LEMMA InitInv == Init => IInv
<1> SUFFICES ASSUME Init PROVE IInv
  OBVIOUS
<1>1. TypeOK
  BY DEF Init, TypeOK, Phases
<1>2. CountInv
  <2>1. \A c \in Camera : Holders(c) = {}
    BY DEF Init, Holders, Holding
  <2>2. QED
    BY <2>1, FS_EmptySet DEF Init, CountInv
<1>3. RunInv /\ ViewInv /\ CloseInv /\ ReadyInv
  BY DEF Init, RunInv, ViewInv, CloseInv, ReadyInv, Holding, Watching
<1>4. QED
  BY <1>1, <1>2, <1>3 DEF IInv

\* Every step of the hub, its requests and its pulls keeps the invariant.
LEMMA NextInv == IInv /\ [Next]_vars => IInv'
<1> SUFFICES ASSUME IInv, [Next]_vars PROVE IInv'
  OBVIOUS
<1>1. ASSUME NEW v \in Viewer, NEW c \in Camera, HandlerAcquire(v, c)
      PROVE  IInv'
  BY <1>1, AcquireStep DEF HandlerAcquire
<1>2. ASSUME NEW v \in Viewer, HandlerRelease(v)
      PROVE  IInv'
  BY <1>2, ReleaseStep DEF HandlerRelease, IInv, TypeOK, Holding
<1>3. ASSUME NEW v \in Viewer, ServeAcquire(v)
      PROVE  IInv'
  <2>1. vcam[v] \in Camera /\ vcam' = [vcam EXCEPT ![v] = vcam[v]]
    BY <1>3 DEF ServeAcquire, IInv, ViewInv, TypeOK
  <2>2. QED
    BY <1>3, <2>1, AcquireStep DEF ServeAcquire
<1>4. ASSUME NEW v \in Viewer, ServeRelease(v)
      PROVE  IInv'
  <2>1. /\ vcam' \in [Viewer -> Camera \cup {NoCamera}]
        /\ vrun' \in [Viewer -> RunId \cup {NoRun}]
        /\ vchan' \in [Viewer -> Nat]
        /\ \A w \in Viewer \ {v} :
             vcam'[w] = vcam[w] /\ vrun'[w] = vrun[w] /\ vchan'[w] = vchan[w]
    BY <1>4 DEF ServeRelease, Answer, IInv, TypeOK
  <2>2. QED
    BY <1>4, <2>1, ReleaseStep DEF ServeRelease, Answer, Holding
<1>5. ASSUME NEW v \in Viewer, ViewerStep(v) \/ SessionDone(v)
      PROVE  IInv'
  BY <1>2, <1>3, <1>4, <1>5, ViewerLocalStep DEF ViewerStep
<1>6. CASE UNCHANGED vars
  <2>1. CountInv'
    BY <1>6, CountSame DEF vars, camVars, viewVars, IInv
  <2>2. TypeOK' /\ RunInv' /\ ViewInv' /\ CloseInv' /\ ReadyInv'
    BY <1>6 DEF vars, camVars, pullVars, viewVars, IInv, TypeOK, RunInv, ViewInv,
       CloseInv, ReadyInv
  <2>3. QED
    BY <2>1, <2>2 DEF IInv
<1>7. QED
  BY <1>1, <1>5, <1>6, HubStep, IdleCallbackStep, PullStepInv DEF Next

\* The invariant holds in every state the hub reaches.
THEOREM Inductive == Spec => []IInv
<1>1. QED
  BY InitInv, NextInv, PTL DEF Spec

\* Every variable keeps its type; in particular no release, in whatever order
\* the requests come and go, takes cam.viewers below zero.
THEOREM TypeCorrect == Spec => []TypeOK
<1>1. IInv => TypeOK
  BY DEF IInv
<1>2. QED
  BY <1>1, Inductive, PTL

\* An idle callback never takes the pull from under a request: while the hub
\* is open, whoever holds a camera finds its one current, uncancelled pull.
THEOREM WatchedCamerasArePulled == Spec => []WatchedIsPulled
<1>1. IInv => WatchedIsPulled
  BY DEF IInv, TypeOK, RunInv, ViewInv, WatchedIsPulled, Holding, Watching
<1>2. QED
  BY <1>1, Inductive, PTL

\* A pull that has not been told to stop is its camera's current one, and
\* none is alive when Close has returned.
THEOREM NoPullLeaks == Spec => []NoLeakedPull
<1>1. IInv => NoLeakedPull
  BY DEF IInv, RunInv, CloseInv, NoLeakedPull
<1>2. QED
  BY <1>1, Inductive, PTL

\* The ready channel is closed exactly while the muxer exists, and no request
\* waits on a channel that was swapped away open.
THEOREM ReadyChannelsAreSound == Spec => []ReadyMatchesMuxer
<1>1. IInv => ReadyMatchesMuxer
  <2> SUFFICES ASSUME IInv PROVE ReadyMatchesMuxer
    OBVIOUS
  <2>1. ASSUME NEW v \in Viewer, pc[v] = "waiting", vchan[v] # chan[vrun[v]]
        PROVE  <<vrun[v], vchan[v]>> \in closedChan
    <3>1. vrun[v] \in RunId
      BY <2>1 DEF IInv, ViewInv, Watching
    <3>2. vchan[v] \in 0..(chan[vrun[v]] - 1)
      BY <2>1, <3>1 DEF IInv, ReadyInv, TypeOK
    <3>3. QED
      BY <3>1, <3>2 DEF IInv, ReadyInv
  <2>2. QED
    BY <2>1 DEF IInv, ReadyInv, ReadyMatchesMuxer
<1>2. QED
  BY <1>1, Inductive, PTL

-----------------------------------------------------------------------------
\* No pull is forgotten: that of a camera nobody watches has an idle timer that is
\* running or a callback that is on its way, so that something will drop it, however
\* many callbacks found a viewer and let it be (acquire, release and the callback,
\* streamhub.go:111-145).
UnwatchedIsTimed ==
  \A c \in Camera : run[c] # NoRun /\ viewers[c] = 0 => timer[c] = "armed" \/ callbacks[c] > 0

LEMMA AcquireTimed ==
  ASSUME IInv, UnwatchedIsTimed, NEW c \in Camera, Acquire(c)
  PROVE  UnwatchedIsTimed'
<1>1. viewers'[c] > 0
  BY DEF Acquire, IInv, TypeOK
<1>2. \A d \in Camera \ {c} :
        run'[d] = run[d] /\ viewers'[d] = viewers[d] /\ timer'[d] = timer[d] /\ callbacks'[d] = callbacks[d]
  BY DEF Acquire, StartLocked, IInv, TypeOK
<1> QED
  BY <1>1, <1>2 DEF UnwatchedIsTimed

\* The last one out arms the timer; after Close there is nothing to time.
LEMMA ReleaseTimed ==
  ASSUME IInv, UnwatchedIsTimed, NEW c \in Camera, Release(c), viewers[c] > 0
  PROVE  UnwatchedIsTimed'
<1>1. UNCHANGED <<closed, callbacks, run>> /\ (closed => run[c] = NoRun)
  BY DEF Release, IInv, CloseInv
<1>2. viewers'[c] = 0 /\ ~closed => timer'[c] = "armed"
  BY DEF Release, IInv, TypeOK
<1>3. \A d \in Camera \ {c} : viewers'[d] = viewers[d] /\ timer'[d] = timer[d]
  BY DEF Release, IInv, TypeOK
<1> QED
  BY <1>1, <1>2, <1>3 DEF UnwatchedIsTimed

LEMMA NextTimed == IInv /\ UnwatchedIsTimed /\ [Next]_vars => UnwatchedIsTimed'
<1> SUFFICES ASSUME IInv, UnwatchedIsTimed, [Next]_vars PROVE UnwatchedIsTimed'
  OBVIOUS
<1>1. ASSUME NEW v \in Viewer, NEW c \in Camera, HandlerAcquire(v, c) PROVE UnwatchedIsTimed'
  BY <1>1, AcquireTimed DEF HandlerAcquire
<1>2. ASSUME NEW v \in Viewer, ServeAcquire(v) PROVE UnwatchedIsTimed'
  BY <1>2, AcquireTimed DEF ServeAcquire, IInv, ViewInv
<1>3. ASSUME NEW v \in Viewer, HandlerRelease(v) \/ ServeRelease(v) PROVE UnwatchedIsTimed'
  <2>1. pc[v] \in Holding /\ vcam[v] \in Camera /\ Release(vcam[v])
    BY <1>3 DEF HandlerRelease, ServeRelease, Holding, IInv, ViewInv
  <2>2. viewers[vcam[v]] > 0
    BY <2>1, HeldCount DEF IInv
  <2> QED
    BY <2>1, <2>2, ReleaseTimed
<1>4. ASSUME NEW c \in Camera, TimerFires(c) PROVE UnwatchedIsTimed'
  BY <1>4 DEF TimerFires, UnwatchedIsTimed, IInv, TypeOK
<1>5. ASSUME NEW c \in Camera, IdleCallback(c) PROVE UnwatchedIsTimed'
  <2>1. viewers[c] = 0 => run'[c] = NoRun
    BY <1>5 DEF IdleCallback, IdleTest, IInv, TypeOK
  <2>2. /\ UNCHANGED <<viewers, timer>>
        /\ \A d \in Camera \ {c} : run'[d] = run[d] /\ callbacks'[d] = callbacks[d]
    BY <1>5 DEF IdleCallback, IInv, TypeOK
  <2> QED
    BY <2>1, <2>2 DEF UnwatchedIsTimed
<1>6. CASE CloseBegin
  BY <1>6 DEF CloseBegin, UnwatchedIsTimed
<1>7. ASSUME UNCHANGED <<run, viewers, timer, callbacks>> PROVE UnwatchedIsTimed'
  BY <1>7 DEF UnwatchedIsTimed
<1>8. ASSUME NEW v \in Viewer, ViewerStep(v), ~ServeAcquire(v), ~HandlerRelease(v), ~ServeRelease(v)
      PROVE  UnwatchedIsTimed'
  BY <1>7, <1>8 DEF ViewerStep, ServeRejected, ServeReadsRun, ServeLooks, ServeWakes, ServeGivesUp,
     ServeHandled, camVars
<1>9. ASSUME NEW r \in RunId, PullStep(r) PROVE UnwatchedIsTimed'
  BY <1>7, <1>9 DEF PullStep, PullHead, Dial, Write, SourceEnds, CloseMuxer, camVars
<1>10. CASE CloseReturn \/ UNCHANGED vars \/ \E v \in Viewer : SessionDone(v)
  BY <1>7, <1>10 DEF CloseReturn, SessionDone, camVars, vars
<1> QED
  BY <1>1, <1>2, <1>3, <1>4, <1>5, <1>6, <1>8, <1>9, <1>10 DEF Next

\* A camera that is pulled while nobody watches it has its idle timer armed, or the
\* timer's callback is under way: however requests come and go, no pull is forgotten
\* (Acquire and Release, streamhub.go:111-145).
THEOREM NoPullIsForgotten == Spec => []UnwatchedIsTimed
<1>1. Init => UnwatchedIsTimed
  BY DEF Init, UnwatchedIsTimed
<1> QED
  BY <1>1, NextTimed, Inductive, PTL DEF Spec

-----------------------------------------------------------------------------
(* Refinement: what the requests, the counter, the timers and the run      *)
(* pointer do is what DemandPull promises (its safety part).               *)

\* A new hub is an initial state of DemandPull.
LEMMA InitRefines == Init => Promise!Init
BY DEF Init, Promise!Init, Holding

\* Every step is a step of DemandPull, or changes nothing it can see.
LEMMA StepRefines == IInv /\ [Next]_vars => [Promise!Next]_(Promise!vars)
<1> SUFFICES ASSUME IInv, [Next]_vars PROVE [Promise!Next]_(Promise!vars)
  OBVIOUS
<1> DEFINE W == [v \in Viewer |-> IF pc[v] \in Holding THEN vcam[v] ELSE NoCamera]
           P == {c \in Camera : run[c] # NoRun}
<1>1. ASSUME NEW v \in Viewer, NEW c \in Camera, Acquire(c), pc[v] \notin Holding,
             NEW x \in Holding, pc' = [pc EXCEPT ![v] = x], vcam' = [vcam EXCEPT ![v] = c]
      PROVE  Promise!Watch(v, c)
  <2>1. W[v] = NoCamera /\ W' = [W EXCEPT ![v] = c]
    BY <1>1 DEF IInv, TypeOK
  <2>2. P' = P \cup {c}
    BY <1>1, NilAssumption DEF Acquire, StartLocked, IInv, TypeOK
  <2>3. QED
    BY <1>1, <2>1, <2>2 DEF Promise!Watch, Acquire
<1>2. ASSUME NEW v \in Viewer, pc[v] \in Holding, Release(vcam[v]),
             NEW x, x \notin Holding, pc' = [pc EXCEPT ![v] = x],
             \A w \in Viewer \ {v} : vcam'[w] = vcam[w]
      PROVE  Promise!Leave(v)
  <2>1. W[v] # NoCamera
    BY <1>2, NilAssumption DEF IInv, ViewInv, Holding
  <2>2. W' = [W EXCEPT ![v] = NoCamera]
    BY <1>2 DEF IInv, TypeOK
  <2>3. QED
    BY <1>2, <2>1, <2>2 DEF Promise!Leave, Release
<1>3. ASSUME NEW c \in Camera, IdleCallback(c)
      PROVE  Promise!Drop(c) \/ UNCHANGED Promise!vars
  <2>1. CASE IdleTest(c)
    <3>1. \A v \in Viewer : W[v] # c
      BY <2>1, HeldCount, NilAssumption DEF IdleTest, IInv
    <3>2. P' = P \ {c} /\ c \in P
      BY <1>3, <2>1, NilAssumption DEF IdleCallback, IdleTest, IInv, TypeOK
    <3>3. QED
      BY <1>3, <3>1, <3>2 DEF IdleCallback, Promise!Drop, viewVars
  <2>2. CASE ~IdleTest(c)
    BY <1>3, <2>2 DEF IdleCallback, Promise!vars, viewVars
  <2>3. QED
    BY <2>1, <2>2
<1>4. ASSUME CloseBegin
      PROVE  Promise!Shut
  BY <1>4 DEF CloseBegin, Promise!Shut, IInv, CloseInv, viewVars
<1>5. ASSUME UNCHANGED <<pc, vcam, run, closed>>
      PROVE  UNCHANGED Promise!vars
  BY <1>5 DEF Promise!vars
<1>6. ASSUME NEW v \in Viewer, ViewerStep(v) \/ SessionDone(v)
      PROVE  [Promise!Next]_(Promise!vars)
  <2>1. CASE ServeAcquire(v)
    <3>1. vcam[v] \in Camera /\ vcam' = [vcam EXCEPT ![v] = vcam[v]]
      BY <2>1 DEF ServeAcquire, IInv, ViewInv, TypeOK
    <3>2. QED
      BY <1>1, <2>1, <3>1 DEF ServeAcquire, Promise!Next, Holding
  <2>2. CASE HandlerRelease(v) \/ ServeRelease(v)
    <3>1. Promise!Leave(v)
      BY <1>2, <2>2 DEF HandlerRelease, ServeRelease, Answer, Holding, IInv, TypeOK
    <3>2. QED
      BY <3>1 DEF Promise!Next
  <2>3. CASE \/ SessionDone(v) \/ ServeRejected(v) \/ ServeReadsRun(v) \/ ServeLooks(v)
             \/ ServeWakes(v) \/ ServeGivesUp(v) \/ ServeHandled(v)
    <3>1. W' = W
      BY <2>3 DEF SessionDone, ServeRejected, ServeReadsRun, ServeLooks, ServeWakes,
         ServeGivesUp, ServeHandled, Answer, IInv, TypeOK, Holding
    <3>2. UNCHANGED <<run, closed>>
      BY <2>3 DEF SessionDone, ServeRejected, ServeReadsRun, ServeLooks, ServeWakes,
         ServeGivesUp, ServeHandled, Answer, camVars
    <3>3. QED
      BY <3>1, <3>2 DEF Promise!vars
  <2>4. QED
    BY <1>6, <2>1, <2>2, <2>3 DEF ViewerStep
<1>7. ASSUME NEW v \in Viewer, NEW c \in Camera, HandlerAcquire(v, c)
      PROVE  Promise!Next
  BY <1>1, <1>7 DEF HandlerAcquire, Promise!Next, Holding
<1>8. ASSUME \/ \E c \in Camera : TimerFires(c)
             \/ \E r \in RunId : PullStep(r)
             \/ CloseReturn
             \/ UNCHANGED vars
      PROVE  UNCHANGED Promise!vars
  BY <1>5, <1>8 DEF TimerFires, PullStep, PullHead, Dial, Write, SourceEnds, CloseMuxer,
     CloseReturn, vars, viewVars, camVars
<1>9. QED
  BY <1>3, <1>4, <1>6, <1>7, <1>8 DEF Next, Promise!Next

\* The hub implements the safety of its promise: a camera is pulled from the
\* step its first viewer arrives, and a pull is given up only when nobody
\* watches or when the hub is closed.
THEOREM ImplementsDemandPull == Spec => Promise!Spec
<1>1. QED
  BY InitRefines, StepRefines, Inductive, PTL DEF Spec, Promise!Spec
=============================================================================
