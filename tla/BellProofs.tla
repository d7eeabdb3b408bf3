----------------------------- MODULE BellProofs -----------------------------
(***************************************************************************)
(* Proofs about the doorbell, for any streams, subscribers, capacities,    *)
(* debounce, grants and bounds.  About Bell: the debounce holds, whatever  *)
(* the callers of Fire, the rings' goroutines and the restarts do; the     *)
(* history and latest agree; the subscribers' channels are up to date.     *)
(* About Station: a registration does not lapse while nothing fails.       *)
(***************************************************************************)
EXTENDS Bell, Station, FiniteSetTheorems, WellFoundedInduction, TLAPS

\* The debounce.

Stages == {"none", "fetching", "recorded", "saved", "stored", "casting", "done", "past"}

\* The types of what the debounce looks at.
FireTypes ==
  /\ now \in Int
  /\ booted \in Int
  /\ lastFire \in [Stream -> Int]
  /\ stream \in [Ring -> Stream \cup {None}]
  /\ at \in [Ring -> Int]
  /\ pc \in [Ring -> Stages]

\* The rings this process has let through.
Passed == {r \in Ring : pc[r] \notin {"none", "past"}}

\* lastFire is not before any of them, so that what is Debounce after it is
\* Debounce after them all.
LastFireInv == \A r \in Passed : stream[r] \in Stream /\ at[r] <= lastFire[stream[r]]

FireInv == FireTypes /\ LastFireInv /\ Debounced

\* A bus that has just been built for the first time satisfies the invariant.
LEMMA InitFireInv == Init => FireInv
<1> SUFFICES ASSUME Init PROVE FireInv
  OBVIOUS
<1>1. FireTypes
  BY TimingAssumption DEF Init, FireTypes, Stages, LongAgo
<1>2. \A r \in Ring : pc[r] = "none"
  BY DEF Init
<1> QED
  BY <1>1, <1>2 DEF FireInv, Passed, LastFireInv, Debounced

\* A ring let through keeps the invariant: its reading of the clock is compared
\* with lastFire under the mutex, so a stale one is refused.
LEMMA FireFireInv ==
  ASSUME FireInv, NEW s \in Stream, NEW t \in Reading, Fire(s, t)
  PROVE  FireInv'
<1> USE DEF FireInv
<1> PICK r \in Ring : /\ pc[r] = "none"
                      /\ stream' = [stream EXCEPT ![r] = s]
                      /\ at' = [at EXCEPT ![r] = t]
                      /\ pc' = [pc EXCEPT ![r] = "fetching"]
  BY DEF Fire, Rings
<1>1. /\ t \in Int
      /\ lastFire' = [lastFire EXCEPT ![s] = t]
      /\ lastFire[s] \in Int
      /\ Debounce \in Nat
      /\ t - lastFire[s] >= Debounce
      /\ UNCHANGED <<now, booted>>
  BY TimingAssumption DEF Fire, Reading, Allowed, FireTypes
<1>2. FireTypes'
  BY <1>1 DEF FireTypes, Stages
<1>3. r \in Passed' /\ stream'[r] = s /\ at'[r] = t
  BY DEF Passed, FireTypes
<1>4. ASSUME NEW q \in Passed', q # r
      PROVE  q \in Passed /\ stream'[q] = stream[q] /\ at'[q] = at[q] /\ at[q] \in Int
  BY <1>4 DEF Passed, FireTypes
<1>5. LastFireInv'
  <2> SUFFICES ASSUME NEW q \in Passed'
               PROVE  stream'[q] \in Stream /\ at'[q] <= lastFire'[stream'[q]]
    BY DEF LastFireInv
  <2>1. CASE q = r
    BY <1>1, <1>3, <2>1 DEF FireTypes
  <2>2. CASE q # r
    <3>1. stream[q] \in Stream /\ at[q] <= lastFire[stream[q]]
      BY <1>4, <2>2 DEF LastFireInv
    <3>2. lastFire[stream[q]] <= lastFire'[stream[q]]
      BY <1>1, <3>1 DEF FireTypes
    <3>3. lastFire[stream[q]] \in Int /\ lastFire'[stream[q]] \in Int
      BY <1>2, <3>1 DEF FireTypes
    <3> QED
      BY <1>4, <2>2, <3>1, <3>2, <3>3
  <2> QED
    BY <2>1, <2>2
<1>6. Debounced'
  <2>1. ASSUME NEW q \in Passed', q # r, stream'[q] = s
        PROVE  t - at'[q] >= Debounce
    <3>1. at[q] <= lastFire[s]
      BY <1>4, <2>1 DEF LastFireInv
    <3> QED
      BY <1>1, <1>4, <2>1, <3>1
  <2> SUFFICES ASSUME NEW p \in Ring, NEW q \in Ring, p # q, stream'[p] = stream'[q],
                      p \in Passed', q \in Passed'
               PROVE  at'[p] - at'[q] >= Debounce \/ at'[q] - at'[p] >= Debounce
    BY DEF Debounced, Passed
  <2>2. CASE p = r
    BY <1>3, <2>1, <2>2
  <2>3. CASE q = r
    BY <1>3, <2>1, <2>3
  <2>4. CASE p # r /\ q # r
    <3>1. p \in Passed /\ q \in Passed /\ stream[p] = stream[q]
      BY <1>4, <2>4
    <3>2. at[p] - at[q] >= Debounce \/ at[q] - at[p] >= Debounce
      BY <3>1 DEF Debounced, Passed
    <3> QED
      BY <1>4, <2>4, <3>2
  <2> QED
    BY <2>2, <2>3, <2>4
<1> QED
  BY <1>2, <1>5, <1>6

\* Nothing else that happens while the process runs touches lastFire or a
\* ring's time, nor does a ring come back that was over.
LEMMA RunningFireInv ==
  ASSUME FireInv, UNCHANGED <<fireVars, ringVars>>, now' \in Int,
         pc' \in [Ring -> Stages],
         \A r \in Ring : pc'[r] # pc[r] => pc[r] \notin {"none", "past"}
  PROVE  FireInv'
<1>1. FireTypes'
  BY DEF FireInv, FireTypes, fireVars, ringVars
<1>2. Passed' \subseteq Passed
  BY DEF Passed
<1>3. LastFireInv'
  BY <1>2 DEF FireInv, LastFireInv, fireVars, ringVars
<1>4. Debounced'
  <2> SUFFICES ASSUME NEW p \in Ring, NEW q \in Ring, p # q, stream'[p] = stream'[q],
                      p \in Passed', q \in Passed'
               PROVE  at'[p] - at'[q] >= Debounce \/ at'[q] - at'[p] >= Debounce
    BY DEF Debounced, Passed
  <2>1. p \in Passed /\ q \in Passed /\ stream[p] = stream[q]
    BY <1>2 DEF ringVars
  <2>2. at[p] - at[q] >= Debounce \/ at[q] - at[p] >= Debounce
    BY <2>1 DEF FireInv, Debounced, Passed
  <2> QED
    BY <2>2 DEF ringVars
<1> QED
  BY <1>1, <1>3, <1>4 DEF FireInv

\* The steps of a ring's goroutine.
LEMMA HandleFireInv ==
  ASSUME FireInv, NEW r \in Ring, Handle(r)
  PROVE  FireInv'
<1>1. /\ UNCHANGED <<now, fireVars, ringVars>>
      /\ \/ UNCHANGED pc
         \/ \E to \in Stages : pc[r] \notin {"none", "past"} /\ pc' = [pc EXCEPT ![r] = to]
  <2>1. CASE AppendHistory(r) \/ Save(r) \/ Prune(r)
    BY <2>1 DEF AppendHistory, Save, Prune, Stages
  <2>2. CASE Broadcast(r)
    BY <2>2 DEF Broadcast, BroadcastBegins, Offer, DropOldest, BroadcastEnds, Stages
  <2> QED
    BY <2>1, <2>2 DEF Handle
<1>2. now \in Int /\ pc \in [Ring -> Stages]
  BY DEF FireInv, FireTypes
<1>3. pc' \in [Ring -> Stages] /\ \A q \in Ring : pc'[q] # pc[q] => pc[q] \notin {"none", "past"}
  BY <1>1, <1>2
<1> QED
  BY <1>1, <1>2, <1>3, RunningFireInv

\* A restart forgets lastFire, and with it every ring it was about.
LEMMA RestartFireInv ==
  ASSUME FireInv, Restart
  PROVE  FireInv'
<1>1. FireTypes'
  BY TimingAssumption DEF FireInv, FireTypes, Restart, ringVars, LongAgo, Stages
<1>2. Passed' = {}
  BY DEF Restart, Passed
<1> QED
  BY <1>1, <1>2 DEF FireInv, LastFireInv, Debounced, Passed

\* FireInv is an inductive invariant of the bus.
LEMMA NextFireInv == FireInv /\ [Next]_vars => FireInv'
<1> SUFFICES ASSUME FireInv, [Next]_vars PROVE FireInv'
  OBVIOUS
<1>1. ASSUME UNCHANGED <<fireVars, ringVars, pc>>, now' \in Int PROVE FireInv'
  BY <1>1, RunningFireInv DEF FireInv, FireTypes
<1>2. now \in Int /\ now + 1 \in Int
  BY DEF FireInv, FireTypes
<1>3. CASE Tick
  BY <1>1, <1>2, <1>3 DEF Tick
<1>4. ASSUME NEW s \in Stream, NEW t \in Reading, Fire(s, t) PROVE FireInv'
  BY <1>4, FireFireInv
<1>5. ASSUME NEW r \in Ring, Handle(r) PROVE FireInv'
  BY <1>5, HandleFireInv
<1>6. ASSUME NEW b \in Sub, Receive(b) \/ Subscribe(b) \/ Unsubscribe(b) PROVE FireInv'
  BY <1>1, <1>2, <1>6 DEF Receive, Subscribe, Unsubscribe
<1>7. CASE Restart
  BY <1>7, RestartFireInv
<1>8. CASE UNCHANGED vars
  BY <1>1, <1>2, <1>8 DEF vars
<1> QED
  BY <1>3, <1>4, <1>5, <1>6, <1>7, <1>8 DEF Next

\* Two rings of one stream that one process lets through are Debounce apart
\* (Fire, bell.go:133-158).
THEOREM RingsAreDebounced == Spec => []Debounced
<1>1. FireInv => Debounced
  BY DEF FireInv
<1> QED
  BY <1>1, InitFireInv, NextFireInv, PTL DEF Spec

-----------------------------------------------------------------------------
\* The history, which needs the debounce: a ring that a slow fetch keeps from the
\* history is not overtaken by the next one of its stream.

\* A set of indices that is not empty has a greatest, which Max picks.
LEMMA MaxIndex ==
  ASSUME NEW n \in Nat, NEW S, S \subseteq 1..n, S # {}
  PROVE  Max(S) \in S /\ \A i \in S : Max(S) >= i
<1> DEFINE T == {n - i : i \in S}
           R == OpToRel(<, Nat)
<1>1. T \subseteq Nat
  BY SMT
<1>2. T # {} /\ \A i \in S : n - i \in T
  OBVIOUS
<1>3. \A x, y \in Nat : x < y => <<x, y>> \in R
  BY Zenon DEF OpToRel
<1>4. PICK t \in T : \A u \in T : <<u, t>> \notin R
  BY <1>1, <1>2, NatLessThanWellFounded, WFMin
<1>5. PICK m \in S : t = n - m
  OBVIOUS
<1> HIDE DEF R, T
<1>6. \A u \in T : ~(u < t)
  BY <1>1, <1>3, <1>4
<1>7. \A i \in S : m >= i
  <2> TAKE i \in S
  <2>1. n - i \in T /\ i \in Nat /\ m \in Nat
    BY <1>2
  <2>2. ~(n - i < n - m)
    BY <1>5, <1>6, <2>1
  <2> QED
    BY <2>1, <2>2
<1> QED
  BY <1>7 DEF Max

\* The rings that got as far as the history.
Entered == {r \in Ring : pc[r] \notin {"none", "fetching"}}

\* A ring that is not in the history yet was rung just now, and those of a
\* process before this one were rung before it.
ClockInv ==
  /\ booted <= now
  /\ \A r \in Passed : booted <= at[r] /\ at[r] <= now
  /\ \A r \in Ring : pc[r] = "fetching" => now <= at[r] + FetchLimit
  /\ \A r \in Ring : pc[r] = "past" => at[r] < booted /\ stream[r] \in Stream

HistoryTypes ==
  /\ history \in Seq(Ring) /\ table \subseteq Entered
  /\ \A i \in 1..Len(history) : history[i] \in Entered
  /\ latest \in [Stream -> Ring \cup {NoRing}]

HistoryInv == FireInv /\ ClockInv /\ HistoryTypes /\ LatestIsNewest

\* The ring that enters the history is newer than those of its stream there.
LEMMA EntersLast ==
  ASSUME FireInv, ClockInv, NEW r \in Ring, pc[r] = "fetching",
         NEW q \in Entered, stream[q] = stream[r]
  PROVE  Older(q, r)
<1>1. /\ now \in Int /\ booted \in Int /\ at[r] \in Int /\ at[q] \in Int
      /\ FetchLimit \in Nat /\ Debounce \in Nat /\ FetchLimit < Debounce
  BY TimingAssumption DEF FireInv, FireTypes, Entered
<1>2. r \in Passed /\ q # r /\ q \in Ring
  BY DEF Passed, Entered
<1>3. booted <= at[r] /\ now <= at[r] + FetchLimit
  BY <1>2 DEF ClockInv
<1>4. CASE pc[q] = "past"
  BY <1>1, <1>2, <1>3, <1>4 DEF ClockInv, Older
<1>5. CASE pc[q] # "past"
  <2>1. q \in Passed
    BY <1>2, <1>5 DEF Passed, Entered
  <2>2. at[q] <= now
    BY <2>1 DEF ClockInv
  <2>3. at[q] - at[r] >= Debounce \/ at[r] - at[q] >= Debounce
    BY <1>2, <2>1 DEF FireInv, Debounced, Passed
  <2> QED
    BY <1>1, <1>3, <2>2, <2>3 DEF Older
<1> QED
  BY <1>4, <1>5

\* The stream of a ring in the history is one of the streams.
LEMMA StreamOfEntered ==
  ASSUME FireInv, ClockInv, NEW r \in Ring, pc[r] # "none"
  PROVE  stream[r] \in Stream
BY DEF FireInv, LastFireInv, ClockInv, Passed

\* What happens beside the history keeps it, as long as no ring leaves it.
LEMMA BesideHistory ==
  ASSUME HistoryInv, UNCHANGED histVars, table' \subseteq Entered', Entered \subseteq Entered',
         \A r \in Entered : stream'[r] = stream[r] /\ at'[r] = at[r]
  PROVE  HistoryTypes' /\ LatestIsNewest'
<1> USE DEF HistoryInv
<1>1. HistoryTypes'
  BY DEF HistoryTypes, histVars
<1>2. ASSUME NEW i \in 1..Len(history)
      PROVE  /\ stream'[history[i]] = stream[history[i]]
             /\ stream'[latest[stream[history[i]]]] = stream[latest[stream[history[i]]]]
  BY DEF HistoryTypes, LatestIsNewest
<1>3. LatestIsNewest'
  <2> SUFFICES ASSUME NEW i \in 1..Len(history)
               PROVE  LET s == stream[history[i]]
                      IN  /\ stream'[latest[s]] = s
                          /\ \E j \in i..Len(history) : history[j] = latest[s]
                          /\ \A j \in 1..(i - 1) : stream'[history[j]] = s => Older(history[j], history[i])'
    BY <1>2 DEF LatestIsNewest, histVars
  <2> DEFINE s == stream[history[i]]
  <2>1. /\ stream[latest[s]] = s
        /\ \E j \in i..Len(history) : history[j] = latest[s]
        /\ \A j \in 1..(i - 1) : stream[history[j]] = s => Older(history[j], history[i])
    BY DEF LatestIsNewest
  <2>2. ASSUME NEW j \in 1..(i - 1), stream'[history[j]] = s PROVE Older(history[j], history[i])'
    <3>1. j \in 1..Len(history)
      BY DEF HistoryTypes
    <3>2. history[j] \in Entered /\ history[i] \in Entered /\ UNCHANGED history
      BY <3>1 DEF HistoryTypes, histVars
    <3> QED
      BY <1>2, <2>1, <2>2, <3>1, <3>2 DEF Older
  <2> QED
    BY <1>2, <2>1, <2>2
<1> QED
  BY <1>1, <1>3

\* The history without what makes room for a ring.
Kept(h) == IF Len(h) >= HistoryCap THEN Tail(h) ELSE h

\* A ring enters the history, at its end, and latest names it.
LEMMA AppendHistoryInv ==
  ASSUME HistoryInv, NEW r \in Ring, AppendHistory(r)
  PROVE  HistoryTypes' /\ LatestIsNewest'
<1> USE DEF HistoryInv
<1> DEFINE t == Kept(history)
           k == Len(history) - Len(t)
           g == Append(t, r)
<1>1. /\ history \in Seq(Ring) /\ Len(history) \in Nat /\ HistoryCap \in Nat \ {0}
  BY CapAssumption DEF HistoryTypes
<1>2. /\ t \in Seq(Ring) /\ Len(t) \in Nat /\ k \in {0, 1} /\ Len(t) + k = Len(history)
      /\ \A i \in 1..Len(t) : t[i] = history[i + k]
  <2>1. CASE Len(history) >= HistoryCap
    <3>1. t = Tail(history) /\ history # <<>>
      BY <1>1, <2>1 DEF Kept
    <3>2. Tail(history) \in Seq(Ring) /\ Len(Tail(history)) = Len(history) - 1
          /\ \A i \in 1..Len(Tail(history)) : Tail(history)[i] = history[i + 1]
      BY <1>1, <3>1
    <3> HIDE DEF t
    <3> QED
      BY <1>1, <3>1, <3>2
  <2>2. CASE ~(Len(history) >= HistoryCap)
    BY <1>1, <2>2 DEF Kept
  <2> QED
    BY <2>1, <2>2
<1> HIDE DEF t, k
<1>3. /\ pc[r] = "fetching" /\ pc' = [pc EXCEPT ![r] = "recorded"]
      /\ history' = g /\ latest' = [latest EXCEPT ![stream[r]] = r]
      /\ UNCHANGED <<at, stream, table>>
  BY DEF AppendHistory, Appended, Kept, t, ringVars
<1>4. stream[r] \in Stream /\ latest \in [Stream -> Ring \cup {NoRing}]
  BY <1>3, StreamOfEntered DEF HistoryTypes
<1>5. /\ g \in Seq(Ring) /\ Len(g) = Len(t) + 1 /\ g[Len(t) + 1] = r
      /\ \A i \in 1..Len(t) : g[i] = t[i]
  BY <1>2
<1> HIDE DEF g
<1>6. Entered' = Entered \cup {r}
  BY <1>3 DEF Entered, FireInv, FireTypes, Stages
<1>7. ASSUME NEW i \in 1..Len(t)
      PROVE  /\ i + k \in 1..Len(history) /\ g[i] = history[i + k]
             /\ history[i + k] \in Entered /\ stream[history[i + k]] \in Stream
  <2>1. i + k \in 1..Len(history) /\ g[i] = history[i + k]
    BY <1>2, <1>5
  <2>2. history[i + k] \in Entered
    BY <2>1 DEF HistoryTypes
  <2> QED
    BY <2>1, <2>2, StreamOfEntered DEF Entered
<1>8. HistoryTypes'
  <2>1. ASSUME NEW i \in 1..Len(g) PROVE g[i] \in Entered'
    BY <1>2, <1>5, <1>6, <1>7
  <2> QED
    BY <1>3, <1>4, <1>5, <1>6, <2>1 DEF HistoryTypes
<1>9. ASSUME NEW i \in 1..Len(g)
      PROVE  LET s == stream[g[i]]
             IN  /\ stream[latest'[s]] = s
                 /\ \E j \in i..Len(g) : g[j] = latest'[s]
                 /\ \A j \in 1..(i - 1) : stream[g[j]] = s => Older(g[j], g[i])
  <2>1. CASE i = Len(t) + 1
    <3>1. latest'[stream[r]] = r /\ g[i] = r /\ i \in i..Len(g)
      BY <1>2, <1>3, <1>4, <1>5, <2>1
    <3>2. ASSUME NEW j \in 1..(i - 1), stream[g[j]] = stream[r] PROVE Older(g[j], r)
      <4>1. j \in 1..Len(t)
        BY <1>2, <2>1
      <4> QED
        BY <1>3, <1>7, <3>2, <4>1, EntersLast
    <3> QED
      BY <3>1, <3>2
  <2>2. CASE i \in 1..Len(t)
    <3>0. PICK m \in 1..Len(history) : m = i + k
      BY <1>7, <2>2
    <3> DEFINE h == history[m]
               s == stream[h]
    <3>1. /\ stream[latest[s]] = s
          /\ \E j \in m..Len(history) : history[j] = latest[s]
          /\ \A j \in 1..(m - 1) : stream[history[j]] = s => Older(history[j], h)
      BY DEF LatestIsNewest
    <3>2. g[i] = h /\ s \in Stream
      BY <1>7, <2>2, <3>0
    <3> HIDE DEF h
    <3>3. ASSUME NEW j \in 1..(i - 1), stream[g[j]] = s PROVE Older(g[j], h)
      <4>1. j \in 1..Len(t) /\ j + k \in 1..(m - 1)
        BY <1>2, <2>2, <3>0
      <4> QED
        BY <1>7, <3>1, <3>3, <4>1
    <3>4. CASE s = stream[r]
      <4>1. latest'[s] = r /\ Len(t) + 1 \in i..Len(g)
        BY <1>2, <1>3, <1>4, <1>5, <2>2, <3>4
      <4> QED
        BY <1>5, <3>2, <3>3, <3>4, <4>1
    <3>5. CASE s # stream[r]
      <4>1. latest'[s] = latest[s]
        BY <1>3, <1>4, <3>2, <3>5
      <4>2. PICK j \in m..Len(history) : history[j] = latest[s]
        BY <3>1
      <4>3. j - k \in i..Len(g) /\ j - k \in 1..Len(t) /\ j - k + k = j
        BY <1>2, <1>5, <2>2, <3>0
      <4>4. g[j - k] = history[j]
        BY <1>7, <4>3
      <4> QED
        BY <3>1, <3>2, <3>3, <4>1, <4>2, <4>3, <4>4
    <3> QED
      BY <3>4, <3>5
  <2> QED
    BY <1>2, <1>5, <2>1, <2>2
<1>10. LatestIsNewest'
  BY <1>3, <1>9 DEF LatestIsNewest, Older
<1> QED
  BY <1>8, <1>10

\* The rows of the table can be counted.
LEMMA CountOfRows ==
  ASSUME NEW rows, rows \subseteq Ring
  PROVE  Cardinality(rows) \in Nat
<1>1. IsFiniteSet(Ring)
  BY BoundAssumption, FS_Interval DEF Ring
<1> QED
  BY <1>1, FS_Subset, FS_CardinalityType

\* What is replayed is in order, and latest names the last of each stream.
LEMMA RestartHistoryInv ==
  ASSUME HistoryInv, Restart
  PROVE  HistoryTypes' /\ LatestIsNewest'
<1> USE DEF HistoryInv
<1>0. PICK rows \in LoadRecent :
        \E h \in Ascending(rows) : history' = h /\ latest' = LastOfStream(h)
  BY DEF Restart
<1>1. PICK h \in Ascending(rows) : history' = h /\ latest' = LastOfStream(h)
  BY <1>0
<1>2. UNCHANGED <<stream, at, table>> /\ pc' = [r \in Ring |-> IF pc[r] = "none" THEN "none" ELSE "past"]
  BY DEF Restart, ringVars
<1>3. rows \subseteq table /\ table \subseteq Entered /\ Entered \subseteq Ring /\ Entered \subseteq Entered'
  BY <1>2 DEF LoadRecent, Newest, HistoryTypes, Entered
<1> DEFINE n == Cardinality(rows)
<1>4. n \in Nat
  BY <1>3, CountOfRows
<1> HIDE DEF n
<1>5. /\ h \in [1..n -> rows] /\ h \in Seq(Ring) /\ Len(h) = n
      /\ \A i, j \in 1..n : i < j => Older(h[i], h[j])
  <2>1. h \in [1..n -> rows] /\ \A i, j \in 1..n : i < j => Older(h[i], h[j])
    BY DEF Ascending, n
  <2> QED
    BY <1>3, <1>4, <2>1
<1>6. \A i \in 1..n : h[i] \in Entered /\ stream[h[i]] \in Stream
  BY <1>3, <1>5, StreamOfEntered DEF Entered
<1>7. latest' \in [Stream -> Ring \cup {NoRing}]
      /\ \A i \in 1..n : \E j \in i..n : latest'[stream[h[i]]] = h[j] /\ stream[h[j]] = stream[h[i]]
  <2> DEFINE own(s) == {i \in 1..n : stream[h[i]] = s}
  <2>1. latest' = [s \in Stream |-> IF own(s) = {} THEN NoRing ELSE h[Max(own(s))]]
    BY <1>1, <1>5 DEF LastOfStream
  <2>2. ASSUME NEW s \in Stream, own(s) # {}
        PROVE  Max(own(s)) \in own(s) /\ \A i \in own(s) : Max(own(s)) >= i
    BY <1>4, <2>2, MaxIndex
  <2>3. ASSUME NEW s \in Stream PROVE latest'[s] \in Ring \cup {NoRing}
    <3>1. CASE own(s) = {}
      BY <2>1, <3>1
    <3>2. CASE own(s) # {}
      <4>1. Max(own(s)) \in 1..n
        BY <2>2, <3>2
      <4> QED
        BY <1>3, <1>5, <2>1, <3>2, <4>1
    <3> QED
      BY <3>1, <3>2
  <2>4. ASSUME NEW i \in 1..n
        PROVE  \E j \in i..n : latest'[stream[h[i]]] = h[j] /\ stream[h[j]] = stream[h[i]]
    <3> DEFINE s == stream[h[i]]
               j == Max(own(s))
    <3>1. s \in Stream /\ i \in own(s)
      BY <1>6
    <3>2. j \in own(s) /\ j >= i
      BY <2>2, <3>1
    <3>3. latest'[s] = h[j]
      BY <2>1, <3>1
    <3>4. j \in i..n /\ stream[h[j]] = s
      BY <3>2
    <3> QED
      BY <3>3, <3>4
  <2> QED
    BY <2>1, <2>3, <2>4
<1>8. HistoryTypes'
  BY <1>1, <1>2, <1>3, <1>5, <1>6, <1>7 DEF HistoryTypes
<1>9. ASSUME NEW i \in 1..n
      PROVE  LET s == stream[h[i]]
             IN  /\ stream[latest'[s]] = s
                 /\ \E j \in i..n : h[j] = latest'[s]
                 /\ \A j \in 1..(i - 1) : stream[h[j]] = s => Older(h[j], h[i])
  <2>1. \A j \in 1..(i - 1) : j \in 1..n /\ j < i
    BY <1>4
  <2> QED
    BY <1>5, <1>7, <2>1
<1>10. LatestIsNewest'
  BY <1>1, <1>2, <1>5, <1>9 DEF LatestIsNewest, Older
<1> QED
  BY <1>8, <1>10
\* The clock, and what is rung at its time.
LEMMA TickClockInv ==
  ASSUME FireInv, ClockInv, Tick
  PROVE  ClockInv'
<1>1. /\ now \in Int /\ now' = now + 1 /\ booted \in Int /\ \A r \in Ring : at[r] \in Int
      /\ UNCHANGED <<booted, stream, at, pc>> /\ FetchLimit \in Nat
      /\ \A r \in Ring : pc[r] = "fetching" => now < at[r] + FetchLimit
  BY TimingAssumption DEF Tick, DueBy, FireInv, FireTypes, fireVars, ringVars
<1> QED
  BY <1>1 DEF ClockInv, Passed

LEMMA FireClockInv ==
  ASSUME FireInv, ClockInv, NEW s \in Stream, NEW t \in Reading, Fire(s, t)
  PROVE  ClockInv'
<1> PICK r \in Ring : /\ pc[r] = "none"
                      /\ stream' = [stream EXCEPT ![r] = s]
                      /\ at' = [at EXCEPT ![r] = t]
                      /\ pc' = [pc EXCEPT ![r] = "fetching"]
  BY DEF Fire, Rings
<1>1. t \in Int /\ booted <= t /\ t <= now /\ now <= t + FetchLimit /\ UNCHANGED <<now, booted>>
  BY TimingAssumption DEF Fire, Reading, FireInv, FireTypes
<1>2. at'[r] = t /\ pc'[r] = "fetching" /\ \A q \in Ring \ {r} : UNCHANGED <<at[q], pc[q], stream[q]>>
  BY DEF FireInv, FireTypes
<1> QED
  BY <1>1, <1>2 DEF ClockInv, Passed

\* A ring's goroutine goes on from the fetch, not back to it.
LEMMA OtherClockInv ==
  ASSUME FireInv, ClockInv, UNCHANGED <<now, booted, stream, at>>,
         \A r \in Ring : pc'[r] # pc[r] => pc[r] \notin {"none", "past"} /\ pc'[r] \notin {"fetching", "past"}
  PROVE  ClockInv'
<1>1. Passed' \subseteq Passed
  BY DEF Passed
<1> QED
  BY <1>1 DEF ClockInv

LEMMA RestartClockInv ==
  ASSUME FireInv, ClockInv, Restart
  PROVE  ClockInv'
<1>1. /\ now \in Int /\ booted \in Int /\ booted' = now + 1 /\ now' = now + 1
      /\ UNCHANGED <<stream, at>> /\ pc' = [r \in Ring |-> IF pc[r] = "none" THEN "none" ELSE "past"]
  BY DEF Restart, ringVars, FireInv, FireTypes
<1>2. ASSUME NEW r \in Ring, pc[r] # "none" PROVE at[r] < now + 1 /\ stream[r] \in Stream
  <2>1. CASE pc[r] = "past"
    BY <1>1, <2>1 DEF ClockInv, FireInv, FireTypes
  <2>2. CASE pc[r] # "past"
    BY <1>1, <1>2, <2>2 DEF ClockInv, Passed, FireInv, FireTypes, LastFireInv
  <2> QED
    BY <2>1, <2>2
<1> QED
  BY <1>1, <1>2 DEF ClockInv, Passed

\* HistoryInv is an inductive invariant of the bus.
LEMMA InitHistoryInv == Init => HistoryInv
<1> SUFFICES ASSUME Init PROVE HistoryInv
  OBVIOUS
<1>1. ClockInv /\ HistoryTypes
  BY TimingAssumption DEF Init, ClockInv, HistoryTypes, Passed, NoRing
<1>2. LatestIsNewest
  BY DEF Init, LatestIsNewest
<1> QED
  BY <1>1, <1>2, InitFireInv DEF HistoryInv

LEMMA NextHistoryInv == HistoryInv /\ [Next]_vars => HistoryInv'
<1> SUFFICES ASSUME HistoryInv, [Next]_vars PROVE HistoryInv'
  OBVIOUS
<1> USE DEF HistoryInv
<1>1. FireInv'
  BY NextFireInv
<1>2. ASSUME UNCHANGED <<now, fireVars, ringVars, pc, histVars, table>> PROVE HistoryInv'
  <2>1. ClockInv'
    BY <1>2, OtherClockInv DEF fireVars, ringVars
  <2>2. HistoryTypes' /\ LatestIsNewest'
    BY <1>2, BesideHistory DEF ringVars, Entered, HistoryTypes
  <2> QED
    BY <1>1, <2>1, <2>2
<1>3. CASE Tick
  <2>1. HistoryTypes' /\ LatestIsNewest'
    BY <1>3, BesideHistory DEF Tick, ringVars, Entered, HistoryTypes
  <2> QED
    BY <1>1, <1>3, <2>1, TickClockInv
<1>4. ASSUME NEW s \in Stream, NEW t \in Reading, Fire(s, t) PROVE HistoryInv'
  <2>1. ClockInv'
    BY <1>4, FireClockInv
  <2> PICK r \in Ring : /\ pc[r] = "none"
                        /\ stream' = [stream EXCEPT ![r] = s]
                        /\ at' = [at EXCEPT ![r] = t]
                        /\ pc' = [pc EXCEPT ![r] = "fetching"]
    BY <1>4 DEF Fire, Rings
  <2>2. r \notin Entered /\ Entered' = Entered /\ \A q \in Entered : stream'[q] = stream[q] /\ at'[q] = at[q]
    BY DEF Entered, FireInv, FireTypes
  <2>3. UNCHANGED <<histVars, table>>
    BY <1>4 DEF Fire
  <2>4. HistoryTypes' /\ LatestIsNewest'
    BY <2>2, <2>3, BesideHistory DEF HistoryTypes
  <2> QED
    BY <1>1, <2>1, <2>4
<1>5. ASSUME NEW r \in Ring, Handle(r) PROVE HistoryInv'
  <2>1. CASE AppendHistory(r)
    <3>1. ClockInv'
      BY <2>1, OtherClockInv DEF AppendHistory, fireVars, ringVars, FireInv, FireTypes
    <3> QED
      BY <1>1, <2>1, <3>1, AppendHistoryInv
  <2>2. CASE Save(r) \/ Prune(r) \/ Broadcast(r)
    <3>1. /\ UNCHANGED <<now, fireVars, ringVars, histVars>>
          /\ table' \subseteq table \cup {r}
          /\ table' = table \/ pc[r] \in {"recorded", "saved"}
          /\ \/ UNCHANGED pc
             \/ \E to \in Stages \ {"none", "fetching", "past"} :
                  pc[r] \notin {"none", "fetching", "past"} /\ pc' = [pc EXCEPT ![r] = to]
      <4>1. CASE Save(r)
        BY <4>1 DEF Save, Stages
      <4>2. CASE Prune(r)
        BY <4>2 DEF Prune, Newest, Stages
      <4>3. CASE Broadcast(r)
        BY <4>3 DEF Broadcast, BroadcastBegins, Offer, DropOldest, BroadcastEnds, Stages
      <4> QED
        BY <2>2, <4>1, <4>2, <4>3
    <3>2. Entered' = Entered /\ (pc[r] \in {"recorded", "saved"} => r \in Entered)
      BY <3>1 DEF Entered, FireInv, FireTypes
    <3>3. ClockInv'
      BY <3>1, OtherClockInv DEF fireVars, ringVars, FireInv, FireTypes
    <3>4. HistoryTypes' /\ LatestIsNewest'
      BY <3>1, <3>2, BesideHistory DEF HistoryTypes, ringVars
    <3> QED
      BY <1>1, <3>3, <3>4
  <2> QED
    BY <1>5, <2>1, <2>2 DEF Handle
<1>6. ASSUME NEW b \in Sub, Receive(b) \/ Subscribe(b) \/ Unsubscribe(b) PROVE HistoryInv'
  BY <1>2, <1>6 DEF Receive, Subscribe, Unsubscribe
<1>7. CASE Restart
  BY <1>1, <1>7, RestartClockInv, RestartHistoryInv
<1>8. CASE UNCHANGED vars
  BY <1>2, <1>8 DEF vars
<1> QED
  BY <1>3, <1>4, <1>5, <1>6, <1>7, <1>8 DEF Next

\* The history's last ring of each stream is the one latest names and the newest of
\* them, in whichever order the goroutines got there and after whichever restarts
\* (NewBellBus and appendHistory, bell.go:114-130,208-222).
THEOREM LatestStaysNewest == Spec => []LatestIsNewest
<1>1. HistoryInv => LatestIsNewest
  BY DEF HistoryInv
<1> QED
  BY <1>1, InitHistoryInv, NextHistoryInv, PTL DEF Spec

-----------------------------------------------------------------------------
\* The broadcast and its subscribers.

\* A queue holds the latest of the first n rings broadcast, in order, and when it
\* holds none the latest of them was received.
HoldsLatest(q, last, from, f, n) ==
  /\ Len(q) <= n
  /\ \A i \in 1..Len(q) : q[i] = f[n - Len(q) + i]
  /\ q = <<>> /\ n > from => last = f[n]

\* How many rings a subscriber has been offered: a broadcast that has yet to get to
\* it does not count.
Offered(b) == IF b \in cast.left THEN Len(feed) - 1 ELSE Len(feed)

FeedTypes ==
  /\ subs \subseteq Sub
  /\ queue \in [Sub -> Seq(Ring)]
  /\ lastRead \in [Sub -> Ring \cup {NoRing}]
  /\ cast \in [ring : Ring \cup {NoRing}, left : SUBSET Sub, full : Sub \cup {None}]
  /\ feed \in Seq(Ring)
  /\ since \in [Sub -> Nat]

\* The broadcast that holds b.mu offers the last ring of the feed.
CastInv ==
  /\ cast.left \subseteq subs
  /\ cast.full \in cast.left \cup {None}
  /\ cast.left # {} => feed # <<>> /\ cast.ring = feed[Len(feed)]

QueueInv ==
  \A b \in Sub :
    /\ b \in subs => /\ since[b] <= Offered(b)
                     /\ HoldsLatest(queue[b], lastRead[b], since[b], feed, Offered(b))
    /\ b \notin subs => queue[b] = <<>>

FeedInv == FeedTypes /\ CastInv /\ QueueInv

\* A suffix, index by index.
LEMMA SuffixByIndex ==
  ASSUME NEW q \in Seq(Ring), NEW f \in Seq(Ring), Len(q) <= Len(f),
         \A i \in 1..Len(q) : q[i] = f[Len(f) - Len(q) + i]
  PROVE  IsSuffix(q, f)
<1> DEFINE rq == Reverse(q)
           rf == Reverse(f)
<1>1. Len(q) \in Nat /\ Len(f) \in Nat
  OBVIOUS
<1>2. /\ rq \in Seq(Ring) /\ Len(rq) = Len(q) /\ \A i \in 1..Len(q) : rq[i] = q[Len(q) - i + 1]
      /\ rf \in Seq(Ring) /\ Len(rf) = Len(f) /\ \A i \in 1..Len(f) : rf[i] = f[Len(f) - i + 1]
  BY DEF Reverse
<1>3. \A i \in 1..Len(q) : rq[i] = rf[i]
  <2> TAKE i \in 1..Len(q)
  <2>1. Len(q) - i + 1 \in 1..Len(q) /\ Len(f) - Len(q) + (Len(q) - i + 1) = Len(f) - i + 1
        /\ i \in 1..Len(f)
    BY <1>1
  <2> QED
    BY <1>2, <2>1
<1> HIDE DEF rq, rf
<1>4. SubSeq(rq, 1, Len(rq)) = SubSeq(rf, 1, Len(rq))
  BY <1>1, <1>2, <1>3
<1> QED
  BY <1>1, <1>2, <1>4 DEF IsSuffix, IsPrefix, rq, rf

\* A free b.mu leaves no subscriber behind: what the property asks for.
LEMMA FeedInvIsFresh == FeedInv => FeedIsFresh
<1> SUFFICES ASSUME FeedInv, MuFree, NEW b \in subs
             PROVE  /\ IsSuffix(queue[b], feed)
                    /\ queue[b] = <<>> /\ Len(feed) > since[b] => lastRead[b] = Last(feed)
  BY DEF FeedIsFresh
<1>1. b \in Sub /\ Offered(b) = Len(feed) /\ queue[b] \in Seq(Ring) /\ feed \in Seq(Ring)
  BY DEF FeedInv, FeedTypes, MuFree, NoCast, Offered
<1>2. HoldsLatest(queue[b], lastRead[b], since[b], feed, Len(feed))
  BY <1>1 DEF FeedInv, QueueInv
<1> QED
  BY <1>1, <1>2, SuffixByIndex DEF HoldsLatest, Last

\* A bus has no subscriber when it is built, again and for the first time.
LEMMA InitFeedInv == Init => FeedInv
BY DEF Init, FeedInv, FeedTypes, CastInv, QueueInv, NoCast, NoRing

LEMMA RestartFeedInv == Restart => FeedInv'
BY DEF Restart, FeedInv, FeedTypes, CastInv, QueueInv, NoCast, NoRing

\* A queue that was offered the ring, at its end: what was received before no
\* longer matters.
LEMMA OfferedRing ==
  ASSUME NEW q \in Seq(Ring), NEW f \in Seq(Ring), NEW r \in Ring, NEW last, NEW from \in Nat,
         f # <<>>, r = f[Len(f)], HoldsLatest(q, last, from, f, Len(f) - 1)
  PROVE  Append(q, r) \in Seq(Ring) /\ \A any : HoldsLatest(Append(q, r), any, from, f, Len(f))
<1> DEFINE a == Append(q, r)
<1>1. /\ a \in Seq(Ring) /\ a # <<>> /\ Len(q) \in Nat /\ Len(f) \in Nat /\ Len(a) = Len(q) + 1
      /\ \A i \in 1..Len(q) : a[i] = q[i]
      /\ a[Len(q) + 1] = r
  OBVIOUS
<1>2. Len(q) <= Len(f) - 1 /\ \A i \in 1..Len(q) : q[i] = f[Len(f) - 1 - Len(q) + i]
  BY DEF HoldsLatest
<1> HIDE DEF a
<1>3. ASSUME NEW i \in 1..Len(a) PROVE a[i] = f[Len(f) - Len(a) + i]
  <2>1. CASE i \in 1..Len(q)
    <3>1. Len(f) - Len(a) + i = Len(f) - 1 - Len(q) + i
      BY <1>1
    <3> QED
      BY <1>1, <1>2, <2>1, <3>1
  <2>2. CASE i = Len(q) + 1
    <3>1. Len(f) - Len(a) + i = Len(f)
      BY <1>1, <2>2
    <3> QED
      BY <1>1, <2>2, <3>1
  <2> QED
    BY <1>1, <2>1, <2>2
<1>4. \A any : HoldsLatest(a, any, from, f, Len(f))
  BY <1>1, <1>2, <1>3 DEF HoldsLatest
<1> QED
  BY <1>1, <1>4 DEF a

\* A queue without its oldest ring, which may be its last.
LEMMA OldestGone ==
  ASSUME NEW q \in Seq(Ring), NEW f \in Seq(Ring), NEW last, NEW from \in Nat, NEW n \in 0..Len(f),
         q # <<>>, HoldsLatest(q, last, from, f, n)
  PROVE  Tail(q) \in Seq(Ring) /\ Head(q) \in Ring /\ HoldsLatest(Tail(q), Head(q), from, f, n)
<1> DEFINE t == Tail(q)
<1>1. /\ t \in Seq(Ring) /\ Head(q) \in Ring /\ Head(q) = q[1]
      /\ Len(q) \in Nat \ {0} /\ Len(t) = Len(q) - 1
      /\ \A i \in 1..Len(t) : t[i] = q[i + 1]
  OBVIOUS
<1> HIDE DEF t
<1>2. Len(q) <= n /\ n \in Nat /\ \A i \in 1..Len(q) : q[i] = f[n - Len(q) + i]
  BY DEF HoldsLatest
<1>3. ASSUME NEW i \in 1..Len(t) PROVE t[i] = f[n - Len(t) + i]
  <2>1. i + 1 \in 1..Len(q) /\ n - Len(q) + (i + 1) = n - Len(t) + i
    BY <1>1, <1>2
  <2> QED
    BY <1>1, <1>2, <2>1
<1>4. ASSUME t = <<>> PROVE q[1] = f[n]
  <2>1. Len(q) = 1
    BY <1>1, <1>4
  <2>2. q[1] = f[n - Len(q) + 1] /\ n - Len(q) + 1 = n
    BY <1>2, <2>1
  <2> QED
    BY <2>2
<1>5. HoldsLatest(t, q[1], from, f, n)
  BY <1>1, <1>2, <1>3, <1>4 DEF HoldsLatest
<1> QED
  BY <1>1, <1>5 DEF t

\* A ring broadcast after those.
LEMMA AnotherRing ==
  ASSUME NEW q \in Seq(Ring), NEW f \in Seq(Ring), NEW r \in Ring, NEW last, NEW from \in Nat,
         HoldsLatest(q, last, from, f, Len(f))
  PROVE  HoldsLatest(q, last, from, Append(f, r), Len(f))
<1>1. Len(f) \in Nat /\ Len(q) \in Nat /\ Len(q) <= Len(f)
      /\ \A i \in 1..Len(f) : Append(f, r)[i] = f[i]
  BY DEF HoldsLatest
<1>2. \A i \in 1..Len(q) : Len(f) - Len(q) + i \in 1..Len(f)
  BY <1>1
<1>3. Len(f) > from => Len(f) \in 1..Len(f)
  BY <1>1
<1> QED
  BY <1>1, <1>2, <1>3 DEF HoldsLatest

\* A broadcast begins: everyone has yet to be offered the ring.
LEMMA BeginsFeedInv ==
  ASSUME FeedInv, NEW r \in Ring, BroadcastBegins(r)
  PROVE  FeedInv'
<1> USE DEF FeedInv
<1>1. /\ feed \in Seq(Ring) /\ Len(feed) \in Nat /\ cast.left = {}
      /\ feed' = Append(feed, r) /\ feed' \in Seq(Ring) /\ Len(feed') = Len(feed) + 1
      /\ cast' = [ring |-> r, left |-> subs, full |-> None]
      /\ UNCHANGED <<subs, queue, lastRead, since>>
  BY DEF FeedTypes, BroadcastBegins, MuFree, NoCast, subVars
<1>2. FeedTypes'
  BY <1>1 DEF FeedTypes
<1>3. CastInv'
  BY <1>1 DEF CastInv
<1>4. \A b \in subs : Offered(b) = Len(feed) /\ Offered(b)' = Len(feed)
  BY <1>1 DEF Offered
<1>5. ASSUME NEW b \in Sub
      PROVE  /\ b \in subs' => since'[b] <= Offered(b)'
                               /\ HoldsLatest(queue'[b], lastRead'[b], since'[b], feed', Offered(b)')
             /\ b \notin subs' => queue'[b] = <<>>
  <2>1. CASE b \notin subs
    BY <1>1, <2>1 DEF QueueInv
  <2>2. CASE b \in subs
    <3>1. since[b] <= Len(feed) /\ HoldsLatest(queue[b], lastRead[b], since[b], feed, Len(feed))
          /\ queue[b] \in Seq(Ring) /\ since[b] \in Nat
      BY <1>4, <2>2 DEF QueueInv, FeedTypes
    <3>2. HoldsLatest(queue[b], lastRead[b], since[b], feed', Len(feed))
      BY <1>1, <3>1, AnotherRing
    <3> QED
      BY <1>1, <1>4, <2>2, <3>1, <3>2
  <2> QED
    BY <2>1, <2>2
<1> QED
  BY <1>2, <1>3, <1>5 DEF QueueInv

\* A subscriber takes the ring of the broadcast, without its oldest if it has no room.
LEMMA TakesRing ==
  ASSUME FeedInv, NEW b \in cast.left, NEW q \in Seq(Ring), NEW last,
         HoldsLatest(q, last, since[b], feed, Offered(b)),
         queue' = [queue EXCEPT ![b] = Append(q, cast.ring)],
         cast' = [cast EXCEPT !.left = @ \ {b}, !.full = None],
         UNCHANGED <<subs, lastRead, since, feed>>
  PROVE  FeedInv'
<1> USE DEF FeedInv
<1>1. /\ b \in Sub /\ b \in subs /\ feed # <<>> /\ cast.ring = feed[Len(feed)]
      /\ feed \in Seq(Ring) /\ Len(feed) \in Nat \ {0} /\ since[b] \in Nat
      /\ Offered(b) = Len(feed) - 1
  BY DEF FeedTypes, CastInv, Offered
<1>2. cast.ring \in Ring
  BY <1>1
<1>3. /\ Append(q, cast.ring) \in Seq(Ring)
      /\ HoldsLatest(Append(q, cast.ring), lastRead[b], since[b], feed, Len(feed))
  BY <1>1, <1>2, OfferedRing
<1>4. /\ cast'.left = cast.left \ {b} /\ cast'.ring = cast.ring /\ cast'.full = None
      /\ cast' \in [ring : Ring \cup {NoRing}, left : SUBSET Sub, full : Sub \cup {None}]
  BY DEF FeedTypes
<1>5. /\ queue' \in [Sub -> Seq(Ring)] /\ queue'[b] = Append(q, cast.ring)
      /\ \A c \in Sub \ {b} : queue'[c] = queue[c]
  BY <1>1, <1>3 DEF FeedTypes
<1>6. FeedTypes'
  BY <1>4, <1>5 DEF FeedTypes
<1>7. CastInv'
  BY <1>4 DEF CastInv
<1>8. ASSUME NEW c \in Sub
      PROVE  /\ c \in subs' => since'[c] <= Offered(c)'
                               /\ HoldsLatest(queue'[c], lastRead'[c], since'[c], feed', Offered(c)')
             /\ c \notin subs' => queue'[c] = <<>>
  <2>1. CASE c = b
    <3>1. Offered(c)' = Len(feed) /\ since[c] <= Len(feed)
      BY <1>1, <1>4, <2>1 DEF Offered, QueueInv
    <3> QED
      BY <1>1, <1>3, <1>5, <2>1, <3>1
  <2>2. CASE c # b
    <3>1. Offered(c)' = Offered(c)
      BY <1>4, <2>2 DEF Offered
    <3> QED
      BY <1>5, <2>2, <3>1 DEF QueueInv
  <2> QED
    BY <2>1, <2>2
<1> QED
  BY <1>6, <1>7, <1>8 DEF QueueInv

\* The rest of the broadcast.
LEMMA OfferFeedInv ==
  ASSUME FeedInv, NEW b \in Sub, Offer(b) \/ DropOldest(b)
  PROVE  FeedInv'
<1> USE DEF FeedInv
<1>1. CASE Offer(b) /\ Len(queue[b]) < QueueCap
  <2>1. /\ b \in cast.left /\ cast.full = None
        /\ cast' = [cast EXCEPT !.left = @ \ {b}, !.full = None]
        /\ queue' = [queue EXCEPT ![b] = Append(queue[b], cast.ring)]
        /\ UNCHANGED <<subs, lastRead, since, feed>>
    BY <1>1 DEF Offer, FeedTypes
  <2>2. queue[b] \in Seq(Ring) /\ HoldsLatest(queue[b], lastRead[b], since[b], feed, Offered(b))
    BY <2>1 DEF QueueInv, FeedTypes, CastInv
  <2> QED
    BY <2>1, <2>2, TakesRing
<1>2. CASE Offer(b) /\ ~(Len(queue[b]) < QueueCap)
  <2>1. /\ b \in cast.left /\ cast' = [cast EXCEPT !.full = b]
        /\ UNCHANGED <<subs, queue, lastRead, since, feed>>
    BY <1>2 DEF Offer
  <2>2. cast'.left = cast.left /\ cast'.ring = cast.ring /\ cast'.full = b
    BY <2>1 DEF FeedTypes
  <2>3. FeedTypes'
    BY <2>1 DEF FeedTypes
  <2>4. CastInv'
    BY <2>1, <2>2 DEF CastInv
  <2>5. QueueInv'
    BY <2>1, <2>2 DEF QueueInv, Offered
  <2> QED
    BY <2>3, <2>4, <2>5
<1>3. CASE DropOldest(b)
  <2>1. /\ b \in cast.left /\ b \in subs
        /\ cast' = [cast EXCEPT !.left = @ \ {b}, !.full = None]
        /\ UNCHANGED <<subs, lastRead, since, feed>>
    BY <1>3, NoneAssumption DEF DropOldest, FeedTypes, CastInv
  <2>2. /\ queue[b] \in Seq(Ring) /\ HoldsLatest(queue[b], lastRead[b], since[b], feed, Offered(b))
        /\ since[b] \in Nat /\ feed \in Seq(Ring) /\ Offered(b) \in 0..Len(feed)
    BY <2>1 DEF QueueInv, FeedTypes, CastInv, Offered
  <2>3. CASE queue[b] = <<>>
    BY <1>3, <2>1, <2>2, <2>3, TakesRing DEF DropOldest
  <2>4. CASE queue[b] # <<>>
    <3>1. /\ Tail(queue[b]) \in Seq(Ring)
          /\ HoldsLatest(Tail(queue[b]), Head(queue[b]), since[b], feed, Offered(b))
      BY <2>2, <2>4, OldestGone
    <3>2. queue' = [queue EXCEPT ![b] = Append(Tail(queue[b]), cast.ring)]
      BY <1>3, <2>1, <2>4 DEF DropOldest, FeedTypes
    <3> QED
      BY <2>1, <3>1, <3>2, TakesRing
  <2> QED
    BY <2>3, <2>4
<1> QED
  BY <1>1, <1>2, <1>3

LEMMA EndsFeedInv ==
  ASSUME FeedInv, NEW r \in Ring, BroadcastEnds(r)
  PROVE  FeedInv'
<1>1. cast.left = {} /\ cast' = NoCast /\ cast'.left = {} /\ cast'.full = None
      /\ UNCHANGED <<subs, queue, lastRead, since, feed>>
  BY DEF BroadcastEnds, NoCast, subVars
<1>2. FeedTypes'
  BY <1>1 DEF FeedInv, FeedTypes, NoCast
<1> QED
  BY <1>1, <1>2 DEF FeedInv, CastInv, QueueInv, Offered

\* What a subscriber does.
LEMMA SubscriberFeedInv ==
  ASSUME FeedInv, NEW b \in Sub, Receive(b) \/ Subscribe(b) \/ Unsubscribe(b)
  PROVE  FeedInv'
<1> USE DEF FeedInv
<1>1. UNCHANGED <<cast, feed>> /\ feed \in Seq(Ring) /\ Len(feed) \in Nat
      /\ \A c \in Sub : Offered(c)' = Offered(c)
  BY DEF Receive, Subscribe, Unsubscribe, castVars, FeedTypes, Offered
<1>2. CASE Receive(b)
  <2>1. /\ b \in subs /\ queue[b] # <<>> /\ queue[b] \in Seq(Ring) /\ since[b] \in Nat
        /\ Offered(b) \in 0..Len(feed)
        /\ HoldsLatest(queue[b], lastRead[b], since[b], feed, Offered(b))
    BY <1>1, <1>2 DEF Receive, FeedTypes, QueueInv, CastInv, Offered
  <2>2. /\ Tail(queue[b]) \in Seq(Ring) /\ Head(queue[b]) \in Ring
        /\ HoldsLatest(Tail(queue[b]), Head(queue[b]), since[b], feed, Offered(b))
    BY <1>1, <2>1, OldestGone
  <2>3. /\ queue'[b] = Tail(queue[b]) /\ lastRead'[b] = Head(queue[b])
        /\ \A c \in Sub \ {b} : queue'[c] = queue[c] /\ lastRead'[c] = lastRead[c]
        /\ UNCHANGED <<subs, since>>
    BY <1>2 DEF Receive, FeedTypes
  <2>4. FeedTypes'
    BY <1>1, <1>2, <2>2 DEF Receive, FeedTypes
  <2>5. QueueInv'
    BY <1>1, <2>1, <2>2, <2>3 DEF QueueInv
  <2> QED
    BY <1>1, <2>3, <2>4, <2>5 DEF CastInv
<1>3. CASE Subscribe(b)
  <2>1. /\ cast.left = {} /\ cast.full = None /\ b \notin subs /\ subs' = subs \cup {b}
        /\ UNCHANGED <<queue, lastRead>> /\ since' = [since EXCEPT ![b] = Len(feed)]
        /\ queue[b] = <<>>
    BY <1>3 DEF Subscribe, MuFree, NoCast, QueueInv
  <2>2. since'[b] = Len(feed) /\ \A c \in Sub \ {b} : since'[c] = since[c]
    BY <2>1 DEF FeedTypes
  <2>3. FeedTypes'
    BY <1>1, <2>1 DEF FeedTypes
  <2>4. HoldsLatest(<<>>, lastRead[b], Len(feed), feed, Len(feed)) /\ Offered(b) = Len(feed)
    BY <1>1, <2>1 DEF HoldsLatest, Offered
  <2>5. QueueInv'
    BY <1>1, <2>1, <2>2, <2>4 DEF QueueInv
  <2> QED
    BY <1>1, <2>1, <2>3, <2>5 DEF CastInv
<1>4. CASE Unsubscribe(b)
  <2>1. /\ cast.left = {} /\ cast.full = None /\ subs' = subs \ {b}
        /\ queue'[b] = <<>>
        /\ \A c \in Sub \ {b} : /\ queue'[c] = queue[c] /\ lastRead'[c] = lastRead[c]
                                /\ since'[c] = since[c]
    BY <1>4 DEF Unsubscribe, MuFree, NoCast, FeedTypes
  <2>2. FeedTypes'
    BY <1>1, <1>4 DEF Unsubscribe, FeedTypes, NoRing
  <2>3. QueueInv'
    BY <1>1, <2>1 DEF QueueInv
  <2> QED
    BY <1>1, <2>1, <2>2, <2>3 DEF CastInv
<1> QED
  BY <1>2, <1>3, <1>4

LEMMA NextFeedInv == FeedInv /\ [Next]_vars => FeedInv'
<1> SUFFICES ASSUME FeedInv, [Next]_vars PROVE FeedInv'
  OBVIOUS
<1>1. ASSUME UNCHANGED <<subVars, castVars>> PROVE FeedInv'
  BY <1>1 DEF subVars, castVars, FeedInv, FeedTypes, CastInv, QueueInv, Offered
<1>2. ASSUME NEW r \in Ring, Handle(r) PROVE FeedInv'
  <2>1. CASE AppendHistory(r) \/ Save(r) \/ Prune(r)
    BY <1>1, <2>1 DEF AppendHistory, Save, Prune
  <2>2. CASE Broadcast(r)
    BY <2>2, BeginsFeedInv, OfferFeedInv, EndsFeedInv DEF Broadcast
  <2> QED
    BY <1>2, <2>1, <2>2 DEF Handle
<1>3. ASSUME NEW b \in Sub, Receive(b) \/ Subscribe(b) \/ Unsubscribe(b) PROVE FeedInv'
  BY <1>3, SubscriberFeedInv
<1>4. CASE Tick \/ \E s \in Stream, t \in Reading : Fire(s, t)
  BY <1>1, <1>4 DEF Tick, Fire
<1>5. CASE Restart
  BY <1>5, RestartFeedInv
<1>6. CASE UNCHANGED vars
  BY <1>1, <1>6 DEF vars
<1> QED
  BY <1>2, <1>3, <1>4, <1>5, <1>6 DEF Next

\* Whenever no broadcast is under way, each subscriber's channel holds the latest
\* rings, in order, and if it is empty the latest was received (Subscribe and
\* broadcast, bell.go:266-304).
THEOREM FeedStaysFresh == Spec => []FeedIsFresh
BY InitFeedInv, NextFeedInv, FeedInvIsFresh, PTL DEF Spec

-----------------------------------------------------------------------------
\* Who holds b.mu over several steps can take the next: there is one broadcast, its
\* goroutine is at it, and either all have been offered its ring or there is somebody
\* to offer it to or to make room for it, who need not read.
BroadcastGoesOn ==
  ~MuFree => \E r \in Ring :
    /\ pc[r] = "casting" /\ cast.ring = r
    /\ cast.left = {} \/ \E b \in cast.left : cast.full \in {b, None}

\* b.mu is held over several steps by a broadcast under way, and by no other.
CastHolder ==
  /\ ~MuFree => cast.ring \in Ring /\ pc[cast.ring] = "casting"
  /\ \A r \in Ring : pc[r] = "casting" => cast.ring = r

LEMMA BroadcastKeepsHolder ==
  ASSUME CastHolder, FeedInv, pc \in [Ring -> Stages], NEW r \in Ring, Broadcast(r)
  PROVE  CastHolder'
<1>0. \A q \in Ring : q # NoRing
  BY DEF Ring, NoRing
<1>1. CASE BroadcastBegins(r)
  <2>1. \A q \in Ring : pc[q] # "casting"
    BY <1>0, <1>1 DEF BroadcastBegins, MuFree, NoCast, CastHolder
  <2>2. cast'.ring = r /\ pc' = [pc EXCEPT ![r] = "casting"]
    BY <1>1 DEF BroadcastBegins
  <2> QED
    BY <2>1, <2>2 DEF CastHolder
<1>2. CASE cast.ring = r /\ \E b \in Sub : Offer(b) \/ DropOldest(b)
  <2>1. UNCHANGED pc /\ cast'.ring = r
    BY <1>2 DEF Offer, DropOldest, FeedInv, FeedTypes
  <2>2. pc[r] = "casting"
    BY <1>0, <1>2 DEF CastHolder, MuFree, NoCast
  <2>3. \A q \in Ring : pc[q] = "casting" => q = r
    BY <1>2 DEF CastHolder
  <2> QED
    BY <2>1, <2>2, <2>3 DEF CastHolder
<1>3. CASE BroadcastEnds(r)
  <2>1. MuFree' /\ pc' = [pc EXCEPT ![r] = "done"] /\ cast.ring = r
    BY <1>3 DEF BroadcastEnds, MuFree
  <2>2. \A q \in Ring : pc'[q] # "casting"
    BY <2>1 DEF CastHolder
  <2> QED
    BY <2>1, <2>2 DEF CastHolder
<1> QED
  BY <1>1, <1>2, <1>3 DEF Broadcast

LEMMA NextCastHolder == CastHolder /\ FeedInv /\ FireInv /\ [Next]_vars => CastHolder'
<1> SUFFICES ASSUME CastHolder, FeedInv, FireInv, [Next]_vars PROVE CastHolder'
  OBVIOUS
<1>0. pc \in [Ring -> Stages]
  BY DEF FireInv, FireTypes
<1>1. ASSUME UNCHANGED cast,
             \A q \in Ring : (pc'[q] = "casting") <=> (pc[q] = "casting")
      PROVE  CastHolder'
  BY <1>1 DEF CastHolder, MuFree
<1>2. ASSUME NEW r \in Ring, Handle(r) PROVE CastHolder'
  <2>1. CASE AppendHistory(r) \/ Save(r) \/ Prune(r)
    <3>1. UNCHANGED cast /\ pc[r] # "casting"
      BY <2>1 DEF AppendHistory, Save, Prune, castVars
    <3>2. \E to \in {"recorded", "saved", "stored"} : pc' = [pc EXCEPT ![r] = to]
      BY <2>1 DEF AppendHistory, Save, Prune
    <3> QED
      BY <1>0, <1>1, <3>1, <3>2
  <2> QED
    BY <1>0, <1>2, <2>1, BroadcastKeepsHolder DEF Handle
<1>3. ASSUME NEW s \in Stream, NEW t \in Reading, Fire(s, t) PROVE CastHolder'
  <2>1. UNCHANGED cast
    BY <1>3 DEF Fire, castVars
  <2>2. PICK r \in Ring : pc[r] = "none" /\ pc' = [pc EXCEPT ![r] = "fetching"]
    BY <1>3 DEF Fire, Rings
  <2> QED
    BY <1>0, <1>1, <2>1, <2>2
<1>4. ASSUME NEW b \in Sub, Receive(b) \/ Subscribe(b) \/ Unsubscribe(b) PROVE CastHolder'
  BY <1>1, <1>4 DEF Receive, Subscribe, Unsubscribe, castVars
<1>5. CASE Restart
  BY <1>5 DEF Restart, CastHolder, MuFree
<1>6. CASE Tick \/ UNCHANGED vars
  BY <1>1, <1>6 DEF Tick, vars, castVars
<1> QED
  BY <1>2, <1>3, <1>4, <1>5, <1>6 DEF Next

\* A subscriber that does not read never keeps a broadcast, and with it b.mu, from
\* going on (broadcast, bell.go:286-304).
THEOREM BroadcastsGoOn == Spec => []BroadcastGoesOn
<1>1. Init => CastHolder
  BY DEF Init, CastHolder, MuFree
<1>2. CastHolder /\ FeedInv => BroadcastGoesOn
  <2> SUFFICES ASSUME CastHolder, FeedInv, ~MuFree PROVE BroadcastGoesOn
    BY DEF BroadcastGoesOn
  <2>1. cast.full \in cast.left \cup {None}
    BY DEF FeedInv, CastInv
  <2> QED
    BY <2>1 DEF CastHolder, BroadcastGoesOn
<1> QED
  BY <1>1, <1>2, InitFeedInv, NextFeedInv, InitFireInv, NextFireInv, NextCastHolder, PTL DEF Spec

-----------------------------------------------------------------------------
\* The registration with a station.

\* How many steps of the clock a wait of t seconds takes.
Steps(t) == (t + Second - 1) \div Second

StationTypes ==
  /\ station \in [state : {"well", "hung", "off"}, expiry : Nat, named : BOOLEAN]
  /\ sip \in [pc : {"wait", "ask", "auth", "lost", "ended"}, left : Nat]
  /\ calm \in Nat /\ trouble \in Nat /\ stopped \in BOOLEAN

\* As long as nothing failed since a grant, the station answers, and its registration
\* outlasts what is left of the wait and of the request after it.
LeaseInv ==
  calm >= 30 =>
    /\ station.state = "well" /\ sip.pc # "lost"
    /\ sip.pc = "ended" => stopped
    /\ sip.pc = "wait" => station.expiry > Second * (Steps(sip.left) + Steps(RequestTimeout))
    /\ sip.pc \in {"ask", "auth"} => station.expiry > Second * Steps(sip.left)

StationInv == StationTypes /\ LeaseInv

\* Steps of the clock and waits in its terms.
LEMMA StepsOfWait ==
  ASSUME NEW t \in Nat
  PROVE  /\ Steps(t) \in Nat
         /\ t > 0 => Steps(Less(t)) = Steps(t) - 1
         /\ \A n \in Nat : Second * n \in Nat /\ Second * (n + 1) = Second * n + Second
<1>1. Second \in {1, 2, 3, 4, 5}
  BY StationAssumption
<1> QED
  BY <1>1 DEF Steps, Less

\* A registration of half a minute or more outlasts the wait for its refresh and the
\* time a refresh may take.
LEMMA RefreshInTime ==
  ASSUME NEW e \in Nat, Expiry(e) >= 30
  PROVE  Expiry(e) > Second * (Steps(RefreshInterval(e)) + Steps(RequestTimeout))
<1>1. Second \in {1, 2, 3, 4, 5}
  BY StationAssumption
<1>2. RefreshInterval(e) \in Nat /\ RefreshInterval(e) <= 1800
      /\ (e >= 30 => RefreshInterval(e) <= e \div 2)
  BY DEF RefreshInterval, RegisterRefresh, Expiry
<1> QED
  BY <1>1, <1>2 DEF Steps, Expiry, RequestTimeout

\* Registered while calm: what the property asks for.
LEMMA LeaseIsKept == StationInv => KeepsRegistered
<1> SUFFICES ASSUME StationInv, calm >= 30, ~stopped PROVE station.expiry > 0
  BY DEF KeepsRegistered, Registered
<1>1. Second \in {1, 2, 3, 4, 5}
  BY StationAssumption
<1>2. station.expiry \in Nat /\ sip.left \in Nat
  BY DEF StationInv, StationTypes
<1>3. sip.pc \in {"wait", "ask", "auth"}
  BY DEF StationInv, StationTypes, LeaseInv
<1> QED
  BY <1>1, <1>2, <1>3, StepsOfWait DEF StationInv, LeaseInv, RequestTimeout

\* At the start there was no grant.
LEMMA InitStationInv == StationInit => StationInv
<1>1. StationInit => StationTypes
  <2>1. MaxTrouble \in Nat
    BY StationAssumption
  <2> SUFFICES ASSUME StationInit PROVE StationTypes
    OBVIOUS
  <2>2. station \in [state : {"well", "hung", "off"}, expiry : Nat, named : BOOLEAN]
    BY DEF StationInit
  <2>3. sip \in [pc : {"wait", "ask", "auth", "lost", "ended"}, left : Nat]
    BY DEF StationInit
  <2>4. calm \in Nat /\ trouble \in Nat
    BY <2>1 DEF StationInit
  <2>5. stopped \in BOOLEAN
    BY DEF StationInit
  <2> QED
    BY <2>2, <2>3, <2>4, <2>5 DEF StationTypes
<1>2. StationInit => LeaseInv
  BY DEF StationInit, LeaseInv
<1> QED
  BY <1>1, <1>2 DEF StationInv

\* Nothing is asked of a registration when there is no calm.
LEMMA RestlessStationInv ==
  ASSUME StationTypes', calm' = 0
  PROVE  StationInv'
BY DEF StationInv, LeaseInv

\* The registration loop keeps the invariant.
LEMMA SipStationInv ==
  ASSUME StationInv, Registers \/ Challenged \/ Granted \/ RegisterFails \/ RegisterEnds
  PROVE  StationInv'
<1> USE DEF StationInv
<1>1. CASE Registers
  <2>1. StationTypes'
    BY <1>1 DEF Registers, StationTypes, RequestTimeout
  <2>2. Second * (Steps(0) + Steps(RequestTimeout)) = Second * Steps(RequestTimeout)
    BY StationAssumption DEF Steps, RequestTimeout
  <2> QED
    BY <1>1, <2>1, <2>2 DEF Registers, LeaseInv
<1>2. CASE Challenged
  BY <1>2 DEF Challenged, StationTypes, LeaseInv
<1>3. CASE Granted
  <2> PICK e \in Grants :
        /\ station' = [station EXCEPT !.expiry = Expiry(e)]
        /\ \/ /\ sip' = [pc |-> "wait", left |-> RefreshInterval(e)]
              /\ calm' = Expiry(e) /\ UNCHANGED trouble
           \/ /\ sip' = [pc |-> "lost", left |-> sip.left]
              /\ Trouble /\ calm' = 0
    BY <1>3 DEF Granted
  <2>1. e \in Nat /\ Expiry(e) \in Nat /\ RefreshInterval(e) \in Nat
    BY StationAssumption DEF Expiry, RefreshInterval, RegisterRefresh
  <2>2. StationTypes'
    BY <1>3, <2>1 DEF Granted, StationTypes, Trouble
  <2>3. CASE calm' = 0
    BY <2>2, <2>3, RestlessStationInv
  <2>4. CASE calm' = Expiry(e) /\ sip' = [pc |-> "wait", left |-> RefreshInterval(e)]
    BY <1>3, <2>1, <2>2, <2>4, RefreshInTime DEF Granted, StationTypes, LeaseInv
  <2> QED
    BY <2>3, <2>4
<1>4. CASE RegisterFails
  <2>1. StationTypes'
    BY <1>4 DEF RegisterFails, StationTypes, Trouble, RetryWait
  <2>2. CASE calm' = 0
    BY <2>1, <2>2, RestlessStationInv
  <2>3. CASE (sip.pc = "lost" \/ station.state # "well") /\ UNCHANGED calm
    BY <1>4, <2>1, <2>3 DEF StationTypes, LeaseInv, RegisterFails
  <2> QED
    BY <1>4, <2>2, <2>3 DEF RegisterFails
<1>5. CASE RegisterEnds
  BY <1>5 DEF RegisterEnds, StationTypes, LeaseInv
<1> QED
  BY <1>1, <1>2, <1>3, <1>4, <1>5

\* Time takes from the registration what it takes from the wait.
LEMMA SecondsStationInv ==
  ASSUME StationInv, SecondsPass
  PROVE  StationInv'
<1> USE DEF StationInv
<1>1. Second \in {1, 2, 3, 4, 5}
  BY StationAssumption
<1>2. station.expiry \in Nat /\ sip.left \in Nat
  BY DEF StationTypes
<1>3. \A t \in Nat : Less(t) \in Nat
  BY <1>1 DEF Less
<1>4. StationTypes'
  BY <1>2, <1>3 DEF SecondsPass, StationTypes
<1>5. ASSUME calm' >= 30 PROVE calm >= 30
  BY <1>5 DEF SecondsPass
<1>6. CASE sip.pc = "ended"
  BY <1>4, <1>5, <1>6 DEF SecondsPass, LeaseInv, StationTypes
<1>7. CASE sip.pc # "ended"
  <2>1. sip.left > 0 /\ Steps(Less(sip.left)) = Steps(sip.left) - 1 /\ Steps(sip.left) \in Nat
    BY <1>2, <1>7, StepsOfWait DEF SecondsPass
  <2>2. sip'.left = Less(sip.left) /\ sip'.pc = sip.pc /\ station'.expiry = Less(station.expiry)
        /\ station'.state = station.state /\ stopped' = stopped
    BY DEF SecondsPass, StationTypes
  <2>3. Less(sip.left) \in Nat /\ Steps(Less(sip.left)) \in Nat /\ Steps(RequestTimeout) \in Nat
    BY <1>2, <1>3, StepsOfWait DEF RequestTimeout
  <2>4. \A n \in Nat : station.expiry > Second * (Steps(sip.left) + n)
                      => Less(station.expiry) > Second * (Steps(Less(sip.left)) + n)
    BY <1>1, <1>2, <2>1, <2>3 DEF Less
  <2>5. ASSUME calm >= 30, sip.pc = "wait"
        PROVE  station'.expiry > Second * (Steps(sip'.left) + Steps(RequestTimeout))
    BY <2>2, <2>3, <2>4, <2>5 DEF LeaseInv
  <2>6. ASSUME calm >= 30, sip.pc \in {"ask", "auth"}
        PROVE  station'.expiry > Second * Steps(sip'.left)
    <3>1. station.expiry > Second * (Steps(sip.left) + 0)
      BY <2>1, <2>6 DEF LeaseInv
    <3>2. Less(station.expiry) > Second * (Steps(Less(sip.left)) + 0)
      BY <2>4, <3>1
    <3> QED
      BY <2>2, <2>3, <3>2
  <2> QED
    BY <1>4, <1>5, <2>2, <2>5, <2>6 DEF LeaseInv
<1> QED
  BY <1>6, <1>7

\* So does everything else.
LEMMA OtherStationInv ==
  ASSUME StationInv,
         \/ ListenerExits \/ ServerReturns \/ Dials \/ Attaches \/ AttachFails \/ AttachEnds
         \/ PeerIsGone \/ Press \/ EventArrives \/ InviteArrives \/ InviteLost
         \/ StationFails \/ StationRecovers \/ Stop \/ UNCHANGED stationVars
  PROVE  StationInv'
<1> USE DEF StationInv
<1>1. CASE UNCHANGED <<station, sip, calm, stopped, trouble>>
  BY <1>1 DEF StationTypes, LeaseInv
<1>2. CASE Trouble /\ UNCHANGED <<station, sip, calm, stopped>>
  BY <1>2 DEF Trouble, StationTypes, LeaseInv
<1>3. CASE StationFails
  <2>1. UNCHANGED <<sip, stopped>> /\ calm' = 0 /\ trouble' \in Nat
    BY <1>3 DEF StationFails, StationTypes, Trouble
  <2>2. station' \in [state : {"well", "hung", "off"}, expiry : Nat, named : BOOLEAN]
    <3>1. CASE station' = [station EXCEPT !.state = "hung"]
      BY <3>1 DEF StationTypes
    <3>2. CASE station' = [station EXCEPT !.state = "off", !.expiry = 0]
      BY <3>2 DEF StationTypes
    <3> QED
      BY <1>3, <3>1, <3>2 DEF StationFails
  <2>3. StationTypes'
    BY <2>1, <2>2 DEF StationTypes
  <2> QED
    BY <2>1, <2>3, RestlessStationInv
<1>4. CASE StationRecovers
  BY <1>4 DEF StationRecovers, StationTypes, LeaseInv
<1>5. CASE Stop
  BY <1>5 DEF Stop, StationTypes, LeaseInv
<1>6. CASE ListenerExits
  BY <1>2, <1>6 DEF ListenerExits
<1>7. CASE AttachFails
  BY <1>1, <1>2, <1>7 DEF AttachFails
<1>8. CASE ServerReturns \/ Dials \/ Attaches \/ AttachEnds \/ PeerIsGone \/ Press
           \/ EventArrives \/ InviteArrives \/ InviteLost \/ UNCHANGED stationVars
  BY <1>1, <1>8 DEF ServerReturns, Dials, Attaches, AttachEnds, PeerIsGone, Press,
                    EventArrives, InviteArrives, InviteLost, stationVars
<1> QED
  BY <1>3, <1>4, <1>5, <1>6, <1>7, <1>8

\* While nothing failed since the last grant of half a minute or more, the
\* station has our registration, however often it was refreshed and however
\* long each refresh took.
THEOREM RegistrationIsKept == StationSpec => []KeepsRegistered
<1>1. StationInv /\ [StationNext]_stationVars => StationInv'
  BY SipStationInv, SecondsStationInv, OtherStationInv DEF StationNext, Loops
<1> QED
  BY <1>1, InitStationInv, LeaseIsKept, PTL DEF StationSpec

-----------------------------------------------------------------------------
\* What the station's two ways of ringing us rest on.

\* No loop ends before the shutdown, no wait is longer than the longest there is,
\* and an event stream is on a connection: to a station that works, to one that
\* hangs and may recover, or to none, which the keepalive and the read notice.
LoopsGoOn ==
  /\ attach \in [pc : {"wait", "ask", "auth", "consume", "ended"}, left : Nat,
                 conn : {"none", "live", "mute", "gone", "broken"}]
  /\ sip.pc = "ended" \/ attach.pc = "ended" \/ server = "returned" => stopped
  /\ sip.left <= RegisterRefresh /\ attach.left <= ReconnectDelay
  /\ attach.pc \in {"wait", "ended"} <=> attach.conn = "none"
  /\ attach.conn = "live" => station.state = "well"
  /\ attach.conn = "mute" => station.state = "hung"

\* On each way that has to bring a press, until it was fired, it is under way to
\* somebody who will take it.
PressOnItsWay ==
  /\ "invite" \in press.due =>
       press.fired \/ (press.invite = "sent" /\ server = "listening" /\ station.named)
  /\ "event" \in press.due =>
       press.fired \/ (press.event = "sent" /\ Attached)

PressTypes ==
  press \in [invite : {"none", "sent"}, event : {"none", "sent"}, fired : BOOLEAN,
             due : SUBSET {"invite", "event"}]

\* No press is due once all is being shut down, or from a station that failed since.
PressInv ==
  /\ PressTypes
  /\ press.due # {} => ~stopped /\ station.state = "well"
  /\ PressOnItsWay

\* The registration loop goes on after whatever its exchange comes to.
LEMMA SipGoesOn ==
  ASSUME StationInv, LoopsGoOn,
         Registers \/ Challenged \/ Granted \/ RegisterFails \/ RegisterEnds
  PROVE  LoopsGoOn'
<1> USE DEF StationInv
<1>1. UNCHANGED <<attach, server, stopped, station>> \/ Granted
  BY DEF Registers, Challenged, Granted, RegisterFails, RegisterEnds
<1>2. UNCHANGED <<attach, server, stopped>> /\ station'.state = station.state
  BY <1>1 DEF Granted, StationTypes
<1>3. sip'.left <= RegisterRefresh /\ (sip'.pc = "ended" => stopped)
  <2>1. CASE Registers
    BY <2>1 DEF Registers, RequestTimeout, RegisterRefresh
  <2>2. CASE Challenged
    BY <2>2 DEF Challenged, StationTypes, LoopsGoOn
  <2>3. CASE Granted
    <3>1. \A e \in Grants : RefreshInterval(e) <= RegisterRefresh
      BY StationAssumption DEF RefreshInterval, RegisterRefresh
    <3> QED
      BY <2>3, <3>1 DEF Granted, LoopsGoOn
  <2>4. CASE RegisterFails
    BY <2>4 DEF RegisterFails, RetryWait, RegisterRefresh
  <2>5. CASE RegisterEnds
    BY <2>5 DEF RegisterEnds, RegisterRefresh
  <2> QED
    BY <2>1, <2>2, <2>3, <2>4, <2>5
<1> QED
  BY <1>2, <1>3 DEF LoopsGoOn

\* The event loop waits, or has a connection to ask and to read from.
LEMMA AttachGoesOn ==
  ASSUME StationInv, LoopsGoOn, Dials \/ Attaches \/ AttachFails \/ AttachEnds \/ PeerIsGone
  PROVE  LoopsGoOn'
<1> USE DEF StationInv
<1>1. UNCHANGED <<sip, server, stopped, station>>
  BY DEF Dials, Attaches, AttachFails, AttachEnds, PeerIsGone
<1>2. CASE Dials
  <2>1. CASE station.state = "well"
    BY <1>1, <1>2, <2>1 DEF Dials, LoopsGoOn, ReconnectDelay
  <2>2. CASE station.state = "hung"
    BY <1>1, <1>2, <2>2 DEF Dials, LoopsGoOn, ReconnectDelay
  <2>3. CASE station.state = "off"
    BY <1>1, <1>2, <2>3 DEF Dials, LoopsGoOn, ReconnectDelay
  <2> QED
    BY <2>1, <2>2, <2>3 DEF StationTypes
<1>3. CASE Attaches
  BY <1>1, <1>3 DEF Attaches, LoopsGoOn
<1>4. CASE AttachFails \/ AttachEnds
  BY <1>1, <1>4 DEF AttachFails, AttachEnds, LoopsGoOn, ReconnectDelay
<1>5. CASE PeerIsGone
  BY <1>1, <1>5 DEF PeerIsGone, LoopsGoOn
<1> QED
  BY <1>2, <1>3, <1>4, <1>5

\* What happens to the station, and to us.
LEMMA OthersGoOn ==
  ASSUME StationInv, LoopsGoOn,
         \/ ListenerExits \/ ServerReturns \/ Press \/ EventArrives \/ InviteArrives \/ InviteLost
         \/ StationFails \/ StationRecovers \/ Stop \/ SecondsPass \/ UNCHANGED stationVars
  PROVE  LoopsGoOn'
<1> USE DEF StationInv
<1>1. CASE ListenerExits \/ ServerReturns \/ Stop
  BY <1>1 DEF ListenerExits, ServerReturns, Stop, LoopsGoOn
<1>2. CASE Press \/ EventArrives \/ InviteArrives \/ InviteLost \/ UNCHANGED stationVars
  BY <1>2 DEF Press, EventArrives, InviteArrives, InviteLost, stationVars, LoopsGoOn
<1>3. CASE StationFails
  BY <1>3 DEF StationFails, StationTypes, LoopsGoOn
<1>4. CASE StationRecovers
  BY <1>4 DEF StationRecovers, StationTypes, LoopsGoOn
<1>5. CASE SecondsPass
  <2>1. \A t \in Nat : Less(t) \in Nat /\ Less(t) <= t
    BY StationAssumption DEF Less
  <2>2. sip'.pc = sip.pc /\ sip'.left = Less(sip.left) /\ station'.state = station.state
    BY <1>5 DEF SecondsPass, StationTypes
  <2>3. attach' = [attach EXCEPT !.left = Less(@)]
    BY <1>5 DEF SecondsPass
  <2> DEFINE l == Less(attach.left)
  <2>4. l \in Nat /\ l <= ReconnectDelay
    BY <2>1 DEF LoopsGoOn, ReconnectDelay
  <2>5. Less(sip.left) <= RegisterRefresh
    BY <2>1 DEF LoopsGoOn, StationTypes, RegisterRefresh
  <2> HIDE DEF l
  <2> QED
    BY <1>5, <2>2, <2>3, <2>4, <2>5 DEF SecondsPass, LoopsGoOn, l
<1> QED
  BY <1>1, <1>2, <1>3, <1>4, <1>5

\* A way loses the press it has to bring only when something goes wrong on it, or all
\* is shut down.
LEMMA NextPressInv ==
  ASSUME StationInv, LoopsGoOn, PressInv, [StationNext]_stationVars
  PROVE  PressInv'
<1> USE DEF PressInv, PressTypes
<1>1. station \in [state : {"well", "hung", "off"}, expiry : Nat, named : BOOLEAN]
  BY DEF StationInv, StationTypes
<1>2. CASE /\ UNCHANGED <<press, server, stopped>> /\ (Attached => Attached')
           /\ station'.state = station.state /\ station'.named = station.named
  BY <1>2 DEF PressOnItsWay
<1>3. CASE press' \in [invite : {"none", "sent"}, event : {"none", "sent"}, fired : BOOLEAN,
                       due : {{}}]
  BY <1>3 DEF PressOnItsWay
<1>4. CASE Registers \/ Challenged \/ RegisterFails \/ RegisterEnds \/ UNCHANGED stationVars
  BY <1>2, <1>4 DEF Registers, Challenged, RegisterFails, RegisterEnds, stationVars, Attached
<1>5. CASE Granted
  <2>1. station'.state = station.state /\ station'.named = station.named
    BY <1>1, <1>5 DEF Granted
  <2> QED
    BY <1>2, <1>5, <2>1 DEF Granted, Attached
<1>6. CASE ServerReturns
  BY <1>6 DEF ServerReturns, PressOnItsWay
<1>7. CASE Dials \/ Attaches \/ PeerIsGone
  <2>1. UNCHANGED <<press, server, stopped, station>>
    BY <1>7 DEF Dials, Attaches, PeerIsGone
  <2>2. Attached => Attached'
    BY <1>7 DEF Dials, Attaches, PeerIsGone, Attached, LoopsGoOn
  <2> QED
    BY <1>2, <2>1, <2>2
<1>8. CASE StationRecovers
  BY <1>3, <1>8 DEF StationRecovers
<1>9. CASE SecondsPass
  <2>1. UNCHANGED <<press, server, stopped>>
    BY <1>9 DEF SecondsPass
  <2>2. station'.state = station.state /\ station'.named = station.named
    BY <1>1, <1>9 DEF SecondsPass
  <2>3. attach'.pc = attach.pc /\ attach'.conn = attach.conn
    BY <1>9 DEF SecondsPass, LoopsGoOn
  <2> QED
    BY <1>2, <2>1, <2>2, <2>3 DEF Attached
<1>10. CASE AttachFails
  BY <1>10 DEF AttachFails, PressOnItsWay
<1>11. CASE ListenerExits
  BY <1>11 DEF ListenerExits, PressOnItsWay, Attached
<1>12. CASE AttachEnds
  BY <1>3, <1>12 DEF AttachEnds
<1>13. CASE EventArrives
  BY <1>13 DEF EventArrives, PressOnItsWay
<1>14. CASE InviteArrives
  BY <1>14, <1>1 DEF InviteArrives, PressOnItsWay, Attached
<1>15. CASE InviteLost
  BY <1>15 DEF InviteLost, PressOnItsWay, Attached
<1>16. CASE Press
  BY <1>16 DEF Press, PressOnItsWay, Attached, Registered
<1>17. CASE StationFails \/ Stop
  BY <1>3, <1>17 DEF StationFails, Stop
<1> QED
  BY <1>4, <1>5, <1>6, <1>7, <1>8, <1>9, <1>10, <1>11, <1>12, <1>13, <1>14, <1>15, <1>16, <1>17
  DEF StationNext, Loops

\* Until the shutdown both loops go on, whatever the station does: none of their
\* failures ends one or leaves it with a connection that is no longer looked at
\* (registerLoop, sip.go:210-237; subscribeLoop, eventattach.go:84-101).
THEOREM LoopsOutliveTrouble == StationSpec => []LoopsGoOn
<1>1. StationInit => LoopsGoOn
  BY DEF StationInit, LoopsGoOn, RegisterRefresh, ReconnectDelay
<1>2. StationInv /\ [StationNext]_stationVars => StationInv'
  BY SipStationInv, SecondsStationInv, OtherStationInv DEF StationNext, Loops
<1>3. StationInv /\ LoopsGoOn /\ [StationNext]_stationVars => LoopsGoOn'
  BY SipGoesOn, AttachGoesOn, OthersGoOn DEF StationNext, Loops
<1> QED
  BY <1>1, <1>2, <1>3, InitStationInv, PTL DEF StationSpec

\* A press that was not fired yet is still under way on each of the ways that have to
\* bring it: as an INVITE of a known source to a listener that listens, and as an event
\* on a stream that is being read.  So the loss of one way, or a source that is not
\* known, costs no press that the other way has to bring (handleInvite,
\* sip.go:179-196; consume, eventattach.go:158-246).
THEOREM PressesAreOnTheirWay == StationSpec => []PressOnItsWay
<1>1. StationInit => PressInv
  BY DEF StationInit, PressInv, PressTypes, PressOnItsWay, NoPress
<1>2. PressInv => PressOnItsWay
  BY DEF PressInv
<1>3. StationInv /\ [StationNext]_stationVars => StationInv'
  BY SipStationInv, SecondsStationInv, OtherStationInv DEF StationNext, Loops
<1> QED
  BY <1>1, <1>2, <1>3, InitStationInv, NextPressInv, LoopsOutliveTrouble, PTL DEF StationSpec
=============================================================================
