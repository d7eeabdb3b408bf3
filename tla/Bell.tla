-------------------------------- MODULE Bell --------------------------------
(***************************************************************************)
(* src/bell.go and src/bellstore.go: doorbell rings.  Callers (SIP INVITEs *)
(* and event-attach streams, both of which report the same press) Fire; a  *)
(* ring that is not debounced gets a goroutine that fetches a snapshot,    *)
(* appends to the history, saves and prunes the table and broadcasts to    *)
(* the SSE subscribers.  Everything in memory is under b.mu, taken anew    *)
(* for each of those steps; reading the clock, the table and the           *)
(* subscribers' receives are outside it.                                   *)
(*                                                                         *)
(* A Fire reads the clock before it takes b.mu.  Nothing else happens in   *)
(* between that it could notice, so it is one step with a clock reading    *)
(* that may be stale; one that is debounced is no step.                    *)
(***************************************************************************)
EXTENDS Integers, FiniteSets, Sequences, SequencesExt

CONSTANTS
  Stream,
  Sub,          \* SSE subscribers
  None,         \* no stream, no subscriber
  Debounce,     \* bellDebounce
  FetchLimit,   \* from a Fire's time.Now to its ring's entry in the history:
                \* snapshotTimeout and the scheduling on the way
  HistoryCap,   \* historyCap, in memory and on disk
  QueueCap,     \* the buffer of a subscriber's channel
  MaxRing,      \* bound: rings that are not debounced
  MaxTime       \* bound: the clock

ASSUME NoneAssumption == None \notin Stream \cup Sub
ASSUME TimingAssumption == FetchLimit \in Nat /\ Debounce \in Nat /\ FetchLimit < Debounce
ASSUME CapAssumption == HistoryCap \in Nat \ {0} /\ QueueCap \in Nat \ {0}
ASSUME BoundAssumption == MaxRing \in Nat /\ MaxTime \in Nat

Ring == 1..MaxRing
NoRing == 0

VARIABLES
  now,        \* the clock
  booted,     \* when the process started
  lastFire,   \* b.lastFire; the zero time is long ago
  stream, at, \* of each ring: its stream, and the now of its Fire
  pc,         \* where the goroutine of a ring stands
  history,    \* b.history
  latest,     \* b.latest
  table,      \* the rows of bell_events
  subs,       \* b.subs
  queue,      \* the channel of each subscriber
  lastRead,   \* the ring a subscriber received last
  cast,       \* the broadcast that holds b.mu: its ring, the subscribers it
              \* has yet to offer it to, and the one whose channel it found full
  feed,       \* the rings broadcast so far, in order
  since       \* how long the feed was when a subscriber subscribed

fireVars == <<booted, lastFire>>
ringVars == <<stream, at>>
histVars == <<history, latest>>
subVars  == <<subs, queue, lastRead, since>>
castVars == <<cast, feed>>
vars == <<now, fireVars, ringVars, pc, histVars, table, subVars, castVars>>

NoCast == [ring |-> NoRing, left |-> {}, full |-> None]
LongAgo == -Debounce

Init ==
  /\ now = 0
  /\ booted = 0
  /\ lastFire = [s \in Stream |-> LongAgo]
  /\ stream = [r \in Ring |-> None]
  /\ at = [r \in Ring |-> 0]
  /\ pc = [r \in Ring |-> "none"]
  /\ history = <<>>
  /\ latest = [s \in Stream |-> NoRing]
  /\ table = {}
  /\ subs = {}
  /\ queue = [b \in Sub |-> <<>>]
  /\ lastRead = [b \in Sub |-> NoRing]
  /\ cast = NoCast
  /\ feed = <<>>
  /\ since = [b \in Sub |-> 0]

\* A broadcast keeps b.mu from its first subscriber to its last.
MuFree == cast = NoCast

-----------------------------------------------------------------------------
\* A plausible slip: a snapshot may take as long as the debounce and more.
LateBy(r) == at[r] + Debounce + 1

\* When the fetch of a ring has ended, one way or the other.
DueBy(r) == at[r] + FetchLimit

Tick ==
  /\ now < MaxTime
  /\ \A r \in Ring : pc[r] = "fetching" => now < DueBy(r)
  /\ now' = now + 1
  /\ UNCHANGED <<fireVars, ringVars, pc, histVars, table, subVars, castVars>>

\* The readings of a Fire that gets b.mu now.
Reading == {t \in booted..now : now - t <= FetchLimit}

\* Nobody of the same stream was let through less than bellDebounce before the
\* reading t, nor after it by a Fire that was faster to b.mu.
Allowed(s, t) == t - lastFire[s] >= Debounce

\* A ring and its goroutine, which goes on to fetch a snapshot.
Rings(s, t) ==
  \E r \in Ring :
    /\ pc[r] = "none"
    /\ \A q \in 1..(r - 1) : pc[q] # "none"
    /\ stream' = [stream EXCEPT ![r] = s]
    /\ at' = [at EXCEPT ![r] = t]
    /\ pc' = [pc EXCEPT ![r] = "fetching"]

\* A plausible slip: a ring that is let through is not noted.
FireForgets(s, t) ==
  /\ MuFree
  /\ Allowed(s, t)
  /\ Rings(s, t)
  /\ UNCHANGED <<now, fireVars, histVars, table, subVars, castVars>>

\* Fire, for a press that is not debounced.
Fire(s, t) ==
  /\ MuFree
  /\ Allowed(s, t)
  /\ lastFire' = [lastFire EXCEPT ![s] = t]
  /\ Rings(s, t)
  /\ UNCHANGED <<now, booted, histVars, table, subVars, castVars>>

-----------------------------------------------------------------------------
\* appendHistory: the oldest entry makes room for the new one.
Appended(h, r) == Append(IF Len(h) >= HistoryCap THEN Tail(h) ELSE h, r)

\* The fetch ends, with a snapshot or without, and the ring is in the history.
AppendHistory(r) ==
  /\ MuFree
  /\ pc[r] = "fetching"
  /\ pc' = [pc EXCEPT ![r] = "recorded"]
  /\ history' = Appended(history, r)
  /\ latest' = [latest EXCEPT ![stream[r]] = r]
  /\ UNCHANGED <<now, fireVars, ringVars, table, subVars, castVars>>

\* store.Save, which may fail; only a row that was saved is followed by Prune.
Save(r) ==
  /\ pc[r] = "recorded"
  /\ \/ table' = table \cup {r} /\ pc' = [pc EXCEPT ![r] = "saved"]
     \/ UNCHANGED table /\ pc' = [pc EXCEPT ![r] = "stored"]
  /\ UNCHANGED <<now, fireVars, ringVars, histVars, subVars, castVars>>

\* ORDER BY fired_at_unix_nano; rings of one tick of this clock go by number.
Older(q, r) == at[q] < at[r] \/ (at[q] = at[r] /\ q < r)

\* The HistoryCap most recent rows of the table.
Newest(rows) == {r \in rows : Cardinality({q \in rows : Older(r, q)}) < HistoryCap}

\* store.Prune, another statement of its own; it may fail too.
Prune(r) ==
  /\ pc[r] = "saved"
  /\ pc' = [pc EXCEPT ![r] = "stored"]
  /\ table' \in {table, Newest(table)}
  /\ UNCHANGED <<now, fireVars, ringVars, histVars, subVars, castVars>>

-----------------------------------------------------------------------------
\* broadcast takes b.mu ...
BroadcastBegins(r) ==
  /\ MuFree
  /\ pc[r] = "stored"
  /\ pc' = [pc EXCEPT ![r] = "casting"]
  /\ cast' = [ring |-> r, left |-> subs, full |-> None]
  /\ feed' = Append(feed, r)
  /\ UNCHANGED <<now, fireVars, ringVars, histVars, table, subVars>>

\* ... and offers the event to each subscriber, in any order.
Offer(b) ==
  /\ b \in cast.left
  /\ cast.full = None
  /\ IF Len(queue[b]) < QueueCap
       THEN /\ queue' = [queue EXCEPT ![b] = Append(@, cast.ring)]
            /\ cast' = [cast EXCEPT !.left = @ \ {b}]
       ELSE /\ cast' = [cast EXCEPT !.full = b]
            /\ UNCHANGED queue
  /\ UNCHANGED <<now, fireVars, ringVars, pc, histVars, table, subs, lastRead, since, feed>>

\* A plausible slip: a full channel is left to its reader; the event is dropped.
DropNewest(b) ==
  /\ cast.full = b
  /\ cast' = [cast EXCEPT !.left = @ \ {b}, !.full = None]
  /\ UNCHANGED <<now, fireVars, ringVars, pc, histVars, table, subVars, feed>>

\* A plausible slip: the broadcast waits for the reader to make room.
WaitForRoom(b) ==
  /\ cast.full = b
  /\ Len(queue[b]) < QueueCap
  /\ queue' = [queue EXCEPT ![b] = Append(@, cast.ring)]
  /\ cast' = [cast EXCEPT !.left = @ \ {b}, !.full = None]
  /\ UNCHANGED <<now, fireVars, ringVars, pc, histVars, table, subs, lastRead, since, feed>>

\* A full channel loses its oldest event, unless its reader has just emptied
\* it, and takes the new one: nobody else sends to it.
DropOldest(b) ==
  /\ cast.full = b
  /\ queue' = [queue EXCEPT ![b] =
                 Append(IF @ = <<>> THEN @ ELSE Tail(@), cast.ring)]
  /\ cast' = [cast EXCEPT !.left = @ \ {b}, !.full = None]
  /\ UNCHANGED <<now, fireVars, ringVars, pc, histVars, table, subs, lastRead, since, feed>>

\* broadcast gives b.mu back; only the WhatsApp message is left to send.
BroadcastEnds(r) ==
  /\ cast.ring = r /\ cast.left = {}
  /\ pc[r] = "casting"
  /\ pc' = [pc EXCEPT ![r] = "done"]
  /\ cast' = NoCast
  /\ UNCHANGED <<now, fireVars, ringVars, histVars, table, subVars, feed>>

\* HandleEvents receives an event, without b.mu, whenever it gets to it.
Receive(b) ==
  /\ b \in subs
  /\ queue[b] # <<>>
  /\ queue' = [queue EXCEPT ![b] = Tail(@)]
  /\ lastRead' = [lastRead EXCEPT ![b] = Head(queue[b])]
  /\ UNCHANGED <<now, fireVars, ringVars, pc, histVars, table, subs, since, castVars>>

Subscribe(b) ==
  /\ MuFree
  /\ b \notin subs
  /\ subs' = subs \cup {b}
  /\ since' = [since EXCEPT ![b] = Len(feed)]
  /\ UNCHANGED <<now, fireVars, ringVars, pc, histVars, table, queue, lastRead, castVars>>

Unsubscribe(b) ==
  /\ MuFree
  /\ b \in subs
  /\ subs' = subs \ {b}
  /\ queue' = [queue EXCEPT ![b] = <<>>]
  /\ lastRead' = [lastRead EXCEPT ![b] = NoRing]
  /\ since' = [since EXCEPT ![b] = 0]
  /\ UNCHANGED <<now, fireVars, ringVars, pc, histVars, table, castVars>>

-----------------------------------------------------------------------------
\* LoadRecent: the newest rows; none if the query fails, and the bus goes on.
LoadRecent == {Newest(table), {}}

\* Rows, oldest first.
Ascending(rows) ==
  {h \in [1..Cardinality(rows) -> rows] : \A i, j \in DOMAIN h : i < j => Older(h[i], h[j])}

\* The last entry of each stream.
LastOfStream(h) ==
  [s \in Stream |->
     LET own == {i \in DOMAIN h : stream[h[i]] = s}
     IN  IF own = {} THEN NoRing ELSE h[Max(own)]]

\* The process stops, which takes a while, and NewBellBus replays the rows it
\* has loaded, oldest first.
Restart ==
  /\ now < MaxTime
  /\ now' = now + 1
  /\ booted' = now + 1
  /\ lastFire' = [s \in Stream |-> LongAgo]
  /\ pc' = [r \in Ring |-> IF pc[r] = "none" THEN "none" ELSE "past"]
  /\ \E rows \in LoadRecent : \E h \in Ascending(rows) :
       history' = h /\ latest' = LastOfStream(h)
  /\ subs' = {}
  /\ queue' = [b \in Sub |-> <<>>]
  /\ lastRead' = [b \in Sub |-> NoRing]
  /\ since' = [b \in Sub |-> 0]
  /\ cast' = NoCast
  /\ feed' = <<>>
  /\ UNCHANGED <<ringVars, table>>

-----------------------------------------------------------------------------
Broadcast(r) ==
  \/ BroadcastBegins(r)
  \/ cast.ring = r /\ \E b \in Sub : Offer(b) \/ DropOldest(b)
  \/ BroadcastEnds(r)

Handle(r) == AppendHistory(r) \/ Save(r) \/ Prune(r) \/ Broadcast(r)

Next ==
  \/ Tick
  \/ \E s \in Stream, t \in Reading : Fire(s, t)
  \/ \E r \in Ring : Handle(r)
  \/ \E b \in Sub : Receive(b) \/ Subscribe(b) \/ Unsubscribe(b)
  \/ Restart

Spec == Init /\ [][Next]_vars

\* A ring's goroutine goes on once b.mu is free.  No subscriber has to read,
\* nobody has to ring and the clock may stand still.
FairSpec == Spec /\ \A r \in Ring : WF_vars(Handle(r))

-----------------------------------------------------------------------------
\* Every variable has its type; the history and the channels keep to their
\* capacities, also after a replay of the table, which may hold more for a while.
TypeOK ==
  /\ now \in 0..MaxTime
  /\ booted \in 0..now
  /\ lastFire \in [Stream -> {LongAgo} \cup 0..MaxTime]
  /\ stream \in [Ring -> Stream \cup {None}]
  /\ at \in [Ring -> 0..MaxTime]
  /\ pc \in [Ring -> {"none", "fetching", "recorded", "saved", "stored",
                      "casting", "done", "past"}]
  /\ history \in Seq(Ring) /\ Len(history) <= HistoryCap
  /\ latest \in [Stream -> Ring \cup {NoRing}]
  /\ table \subseteq Ring
  /\ subs \subseteq Sub
  /\ queue \in [Sub -> Seq(Ring)]
  /\ \A b \in Sub : Len(queue[b]) <= QueueCap
  /\ lastRead \in [Sub -> Ring \cup {NoRing}]
  /\ cast.ring \in Ring \cup {NoRing}
  /\ cast.left \subseteq Sub
  /\ cast.full \in Sub \cup {None}
  /\ feed \in Seq(Ring)
  /\ since \in [Sub -> Nat]

\* "A visitor mashing the call button" rings once (bell.go:9-10): with Fires
\* racing from SIP and event-attach, each with a clock reading that may be
\* stale by the time it gets b.mu, two rings of one stream that one process
\* let through are at least Debounce apart.
Debounced ==
  \A q, r \in Ring :
    q # r /\ stream[q] = stream[r] /\ {pc[q], pc[r]} \cap {"none", "past"} = {} =>
      at[q] - at[r] >= Debounce \/ at[r] - at[q] >= Debounce

\* The history's last ring of a stream is the one latest names and the newest
\* of that stream there, across restarts, though goroutines append in the
\* order their fetches end (appendHistory, LoadRecent).
LatestIsNewest ==
  \A i \in 1..Len(history) :
    LET s == stream[history[i]]
    IN  /\ stream[latest[s]] = s
        /\ \E j \in i..Len(history) : history[j] = latest[s]
        /\ \A j \in 1..(i - 1) : stream[history[j]] = s => Older(history[j], history[i])

\* Between broadcasts a subscriber's channel holds the latest rings and no
\* others, in order; when it holds none, the latest has been received.  A
\* slow reader loses the oldest (Subscribe and broadcast, bell.go:266-304).
FeedIsFresh ==
  MuFree => \A b \in subs :
    /\ IsSuffix(queue[b], feed)
    /\ queue[b] = <<>> /\ Len(feed) > since[b] => lastRead[b] = Last(feed)

\* A ring that was let through is broadcast, unless the process stops first:
\* "a slow reader doesn't block the broadcaster" (bell.go:267-268), not even
\* one that has stopped reading.
RingsGetThrough == \A r \in Ring : pc[r] = "fetching" ~> pc[r] \in {"done", "past"}

\* bell.go:254, "History returns the in-memory ring history, newest first":
\* the history, which History turns round, is in the order of the rings' times.
NewestFirst == \A i, j \in 1..Len(history) : i < j => at[history[i]] <= at[history[j]]
=============================================================================
