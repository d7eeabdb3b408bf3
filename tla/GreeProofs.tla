----------------------------- MODULE GreeProofs -----------------------------
(***************************************************************************)
(* Proofs about GreeClient for any callers, keys, addresses and bounds:    *)
(* whoever waits for a reply has the mutex, an address and a key, whatever *)
(* the others reset; and while no answer was late, it takes its own.       *)
(***************************************************************************)
EXTENDS GreeClient, TLAPS

\* A datagram less.
LEMMA RemoveAtType ==
  ASSUME NEW D, NEW s \in Seq(D), NEW i \in 1..Len(s)
  PROVE  /\ RemoveAt(s, i) \in Seq(D) /\ Len(RemoveAt(s, i)) = Len(s) - 1
         /\ \A j \in 1..(Len(s) - 1) : \E k \in 1..Len(s) : RemoveAt(s, i)[j] = s[k]
<1> DEFINE a == SubSeq(s, 1, i - 1)
           b == SubSeq(s, i + 1, Len(s))
<1>1. Len(s) \in Nat /\ i \in Nat /\ i >= 1 /\ i <= Len(s)
  OBVIOUS
<1>2. a \in Seq(D) /\ Len(a) = i - 1 /\ \A j \in 1..(i - 1) : a[j] = s[j]
  BY <1>1
<1>3. b \in Seq(D) /\ Len(b) = Len(s) - i /\ \A j \in 1..(Len(s) - i) : b[j] = s[i + j]
  BY <1>1
<1>4. RemoveAt(s, i) = a \o b
  BY DEF RemoveAt
<1> HIDE DEF a, b
<1>5. a \o b \in Seq(D) /\ Len(a \o b) = Len(s) - 1
      /\ \A j \in 1..(Len(s) - 1) : (a \o b)[j] = IF j <= i - 1 THEN a[j] ELSE b[j - (i - 1)]
  <2>0. a \in Seq(D) /\ b \in Seq(D)
    BY <1>2, <1>3
  <2>1. a \o b \in Seq(D) /\ Len(a \o b) = Len(a) + Len(b)
        /\ \A j \in 1..(Len(a) + Len(b)) :
             (a \o b)[j] = IF j <= Len(a) THEN a[j] ELSE b[j - Len(a)]
    BY <2>0
  <2>2. Len(a) + Len(b) = Len(s) - 1
    BY <1>1, <1>2, <1>3
  <2> QED
    BY <1>2, <2>1, <2>2
<1>6. ASSUME NEW j \in 1..(Len(s) - 1)
      PROVE  \E k \in 1..Len(s) : (a \o b)[j] = s[k]
  <2>1. CASE j <= i - 1
    BY <1>1, <1>2, <1>5, <2>1
  <2>2. CASE ~(j <= i - 1)
    <3>1. j - (i - 1) \in 1..(Len(s) - i) /\ i + (j - (i - 1)) = j + 1 /\ j + 1 \in 1..Len(s)
      BY <1>1, <2>2
    <3>2. (a \o b)[j] = s[j + 1]
      BY <1>3, <1>5, <2>2, <3>1
    <3> QED
      BY <3>1, <3>2
  <2> QED
    BY <2>1, <2>2
<1> QED
  BY <1>4, <1>5, <1>6

\* What was unread stays where it was, and is followed by answers.
LEMMA AnsweredInbox ==
  ASSUME NEW rest \in Seq(Datagram), NEW s \in Seq(Datagram), late \subseteq Datagram,
         losses \in Nat, delays \in Nat, Answered(rest, s)
  PROVE  /\ inbox' \in Seq(Datagram) /\ Len(inbox') <= Len(rest) + Len(s)
         /\ \A i \in 1..Len(inbox') :
              \/ i \in 1..Len(rest) /\ inbox'[i] = rest[i]
              \/ i > Len(rest) /\ \E j \in 1..Len(s) : inbox'[i] = s[j]
         /\ late' \subseteq Datagram /\ losses' \in Nat
         /\ delays' \in Nat /\ delays' <= delays /\ (delays' = delays => late' = late)
<1>1. ASSUME NEW t \in Seq(Datagram), Len(t) <= Len(s), inbox' = rest \o t,
             \A j \in 1..Len(t) : \E k \in 1..Len(s) : t[j] = s[k]
      PROVE  /\ inbox' \in Seq(Datagram) /\ Len(inbox') <= Len(rest) + Len(s)
             /\ \A i \in 1..Len(inbox') :
                  \/ i \in 1..Len(rest) /\ inbox'[i] = rest[i]
                  \/ i > Len(rest) /\ \E j \in 1..Len(s) : inbox'[i] = s[j]
  <2>1. /\ inbox' \in Seq(Datagram) /\ Len(inbox') = Len(rest) + Len(t)
        /\ \A i \in 1..(Len(rest) + Len(t)) :
             inbox'[i] = IF i <= Len(rest) THEN rest[i] ELSE t[i - Len(rest)]
    BY <1>1
  <2>2. ASSUME NEW i \in 1..Len(inbox'), i > Len(rest)
        PROVE  \E j \in 1..Len(s) : inbox'[i] = s[j]
    <3>1. i - Len(rest) \in 1..Len(t) /\ inbox'[i] = t[i - Len(rest)]
      BY <2>1, <2>2
    <3> QED
      BY <1>1, <3>1
  <2> QED
    BY <1>1, <2>1, <2>2
<1>2. CASE inbox' = rest \o s /\ UNCHANGED <<late, losses, delays>>
  BY <1>1, <1>2
<1>3. CASE \E i \in 1..Len(s) :
             /\ inbox' = rest \o RemoveAt(s, i)
             /\ \/ losses > 0 /\ losses' = losses - 1 /\ UNCHANGED <<late, delays>>
                \/ delays > 0 /\ delays' = delays - 1 /\ late' = late \cup {s[i]} /\ UNCHANGED losses
  <2> PICK i \in 1..Len(s) :
        /\ inbox' = rest \o RemoveAt(s, i)
        /\ \/ losses > 0 /\ losses' = losses - 1 /\ UNCHANGED <<late, delays>>
           \/ delays > 0 /\ delays' = delays - 1 /\ late' = late \cup {s[i]} /\ UNCHANGED losses
    BY <1>3
  <2> DEFINE t == RemoveAt(s, i)
  <2>0. inbox' = rest \o t
    OBVIOUS
  <2>1. /\ t \in Seq(Datagram) /\ Len(t) = Len(s) - 1
        /\ \A j \in 1..(Len(s) - 1) : \E k \in 1..Len(s) : t[j] = s[k]
    <3> HIDE DEF Datagram
    <3>1. s \in Seq(Datagram) /\ i \in 1..Len(s)
      OBVIOUS
    <3> QED
      BY ONLY <3>1, RemoveAtType
  <2> HIDE DEF t
  <2>2. Len(t) <= Len(s) /\ \A j \in 1..Len(t) : \E k \in 1..Len(s) : t[j] = s[k]
    BY <2>1
  <2>3. /\ inbox' \in Seq(Datagram) /\ Len(inbox') <= Len(rest) + Len(s)
        /\ \A j \in 1..Len(inbox') :
             \/ j \in 1..Len(rest) /\ inbox'[j] = rest[j]
             \/ j > Len(rest) /\ \E k \in 1..Len(s) : inbox'[j] = s[k]
    BY <1>1, <2>0, <2>1, <2>2
  <2>4. s[i] \in Datagram
    OBVIOUS
  <2>5. /\ late' \subseteq Datagram /\ losses' \in Nat
        /\ delays' \in Nat /\ delays' <= delays /\ (delays' = delays => late' = late)
    BY <2>4
  <2> QED
    BY <2>3, <2>5
<1> QED
  BY <1>2, <1>3 DEF Answered

\* What the unit answers is of its type; scans and binds are answered without data.
LEMMA AnswersType ==
  ASSUME TypeOK, NEW p \in Caller, NEW target
  PROVE  /\ ScanAnswers(p) \in Seq(Datagram)
         /\ \A i \in 1..Len(ScanAnswers(p)) : ScanAnswers(p)[i].kind # "data"
         /\ BindAnswers(p, target) \in Seq(Datagram)
         /\ \A i \in 1..Len(BindAnswers(p, target)) : BindAnswers(p, target)[i].kind # "data"
         /\ RequestAnswers(p, target) \in Seq(Datagram)
         /\ Len(RequestAnswers(p, target)) <= 1
         /\ \A i \in 1..Len(RequestAnswers(p, target)) : RequestAnswers(p, target)[i].for = p
<1>1. unit.addr \in Addr /\ unit.key \in Key /\ key \in Key \cup {NoKey}
  BY DEF TypeOK
<1>2. \A kind \in {"dev", "bindok", "data"}, k \in Key \cup {NoKey} :
        /\ Answer(p, kind, k) \in Datagram
        /\ Answer(p, kind, k).kind = kind /\ Answer(p, kind, k).for = p
  BY <1>1 DEF Answer, Datagram
<1> DEFINE dev == Answer(p, "dev", NoKey)
<1>3. dev \in Datagram /\ dev.kind = "dev"
  BY <1>2
<1> DEFINE S == {d \in Datagram : d.kind # "data"}
<1>4. \A t \in Seq(S) : t \in Seq(Datagram) /\ \A i \in 1..Len(t) : t[i].kind # "data"
  <2> TAKE t \in Seq(S)
  <2>1. \A i \in 1..Len(t) : t[i] \in S
    OBVIOUS
  <2> QED
    BY <2>1
<1>5. ScanAnswers(p) \in Seq(S)
  <2>1. <<>> \in Seq(S) /\ <<dev>> \in Seq(S)
    BY <1>3
  <2> HIDE DEF S
  <2>2. \A t, u \in Seq(S) : t \o u \in Seq(S)
    OBVIOUS
  <2> QED
    BY <2>1, <2>2, Zenon DEF ScanAnswers
<1>6. BindAnswers(p, target) \in Seq(Datagram)
      /\ \A i \in 1..Len(BindAnswers(p, target)) : BindAnswers(p, target)[i].kind # "data"
  BY <1>1, <1>2 DEF BindAnswers
<1>7. /\ RequestAnswers(p, target) \in Seq(Datagram) /\ Len(RequestAnswers(p, target)) <= 1
      /\ \A i \in 1..Len(RequestAnswers(p, target)) : RequestAnswers(p, target)[i].for = p
  BY <1>1, <1>2 DEF RequestAnswers
<1> QED
  BY <1>4, <1>5, <1>6, <1>7

-----------------------------------------------------------------------------
\* Whoever is in the middle of an exchange.
Exchanging == {"scan", "bind", "rebind", "wait"}

Pcs == Exchanging \cup {"idle", "ensure", "request", "reset"}
CallerType == [Caller -> [pc : Pcs, op : {"status", "set"}, own : BOOLEAN]]

\* A key comes with the address it was had from.
KeyHasAddr == key # NoKey => addr # NoAddr

KnowInv == TypeOK /\ WaitersKnowTheUnit /\ KeyHasAddr

\* A caller's step leaves the others alone, and who is alone in its exchange, or the
\* first of all to begin one, only has to know for itself.
LEMMA AloneKnows ==
  ASSUME KnowInv, TypeOK', NEW p \in Caller, holder \in {p, Nobody}, 
         \A q \in Caller \ {p} : caller'[q] = caller[q],
         caller'[p].pc \in Exchanging => holder' = p,
         caller'[p].pc \in {"bind", "rebind", "wait"} => addr' # NoAddr,
         caller'[p].pc = "wait" => key' # NoKey,
         key' # NoKey => addr' # NoAddr
  PROVE  KnowInv'
<1>1. ASSUME NEW q \in Caller, q # p PROVE caller[q].pc \notin Exchanging
  BY <1>1, GreeAssumption DEF KnowInv, WaitersKnowTheUnit, Exchanging
<1> QED
  BY <1>1 DEF KnowInv, WaitersKnowTheUnit, Exchanging, KeyHasAddr

LEMMA InitKnowInv == Init => KnowInv
<1> SUFFICES ASSUME Init PROVE KnowInv
  OBVIOUS
<1>1. (CHOOSE k \in Key : TRUE) \in Key
  BY GreeAssumption
<1>2. unit \in [up : BOOLEAN, key : Key, addr : Addr, unicast : BOOLEAN, named : BOOLEAN]
  BY <1>1, GreeAssumption DEF Init
<1>3. caller = [p \in Caller |-> Idle]
  BY DEF Init
<1>4. TypeOK
  <2>1. caller \in CallerType
    BY <1>3 DEF Idle, CallerType, Pcs
  <2>2. inbox \in Seq(Datagram) /\ late \subseteq Datagram
    BY DEF Init
  <2>3. /\ key \in Key \cup {NoKey} /\ addr \in Addr \cup {NoAddr} /\ broadcastOnly \in BOOLEAN
        /\ holder \in Caller \cup {Nobody} /\ polled \in BOOLEAN
    BY DEF Init
  <2>4. losses \in Nat /\ delays \in Nat /\ changes \in Nat /\ sets \in Nat
    BY GreeAssumption DEF Init
  <2> QED
    BY <1>2, <2>1, <2>2, <2>3, <2>4 DEF TypeOK, CallerType, Pcs, Exchanging
<1>5. WaitersKnowTheUnit
  BY <1>3 DEF WaitersKnowTheUnit, Idle
<1> QED
  BY <1>4, <1>5 DEF KnowInv, KeyHasAddr, Init

\* An operation begins, or ends.
LEMMA BeginsKnows ==
  ASSUME KnowInv, NEW p \in Caller, NEW op \in {"status", "set"}, Begins(p, op), sets' \in Nat
  PROVE  KnowInv'
<1>1. TypeOK'
  BY DEF Begins, KnowInv, TypeOK, session, network
<1>2. WaitersKnowTheUnit'
  BY DEF Begins, KnowInv, WaitersKnowTheUnit, TypeOK, session
<1> QED
  BY <1>1, <1>2 DEF KnowInv, KeyHasAddr, Begins, session

LEMMA EndsType ==
  ASSUME TypeOK, NEW p \in Caller, NEW worked \in BOOLEAN, Ends(p, worked)
  PROVE  /\ caller' \in CallerType
         /\ polled' \in BOOLEAN
         /\ caller'[p].pc \in {"idle", "ensure"} /\ \A q \in Caller \ {p} : caller'[q] = caller[q]
BY DEF TypeOK, Ends, Idle, CallerType, Pcs, Exchanging

LEMMA MovesType ==
  ASSUME TypeOK, NEW p \in Caller
  PROVE  /\ \A pc \in Pcs :
              Goes(p, pc) => /\ caller' \in CallerType /\ caller'[p].pc = pc
                             /\ \A q \in Caller \ {p} : caller'[q] = caller[q]
         /\ EnsureReturns(p) => /\ caller' \in CallerType /\ caller'[p].pc \in {"ensure", "request"}
                                /\ \A q \in Caller \ {p} : caller'[q] = caller[q]
         /\ HandshakeFails(p) => /\ caller' \in CallerType /\ caller'[p].pc \in {"idle", "ensure", "reset"}
                                 /\ \A q \in Caller \ {p} : caller'[q] = caller[q]
                                 /\ holder' = Nobody /\ polled' \in BOOLEAN
<1>1. caller \in CallerType /\ polled \in BOOLEAN
  BY DEF TypeOK, CallerType, Pcs, Exchanging
<1>2. ASSUME NEW pc \in Pcs, Goes(p, pc)
      PROVE  /\ caller' \in CallerType /\ caller'[p].pc = pc
             /\ \A q \in Caller \ {p} : caller'[q] = caller[q]
  BY <1>1, <1>2 DEF Goes, CallerType
<1>3. ASSUME EnsureReturns(p)
      PROVE  /\ caller' \in CallerType /\ caller'[p].pc \in {"ensure", "request"}
             /\ \A q \in Caller \ {p} : caller'[q] = caller[q]
  BY <1>1, <1>3 DEF EnsureReturns, CallerType, Pcs
<1>4. ASSUME HandshakeFails(p)
      PROVE  /\ caller' \in CallerType /\ caller'[p].pc \in {"idle", "ensure", "reset"}
             /\ \A q \in Caller \ {p} : caller'[q] = caller[q]
             /\ holder' = Nobody /\ polled' \in BOOLEAN
  <2>1. CASE Ends(p, FALSE)
    BY <1>4, <2>1, EndsType DEF HandshakeFails
  <2>2. CASE Goes(p, "reset") /\ UNCHANGED polled
    BY <1>1, <1>2, <1>4, <2>2 DEF HandshakeFails, Pcs
  <2> QED
    BY <1>4, <2>1, <2>2 DEF HandshakeFails
<1> QED
  BY <1>2, <1>3, <1>4

\* The socket without its first datagram.
LEMMA TailType ==
  ASSUME TypeOK, inbox # <<>>
  PROVE  /\ Head(inbox) \in Datagram /\ Tail(inbox) \in Seq(Datagram)
         /\ Head(inbox) = inbox[1] /\ 1 \in 1..Len(inbox) /\ Len(Tail(inbox)) = Len(inbox) - 1
         /\ \A i \in 1..Len(Tail(inbox)) : Tail(inbox)[i] = inbox[i + 1] /\ i + 1 \in 1..Len(inbox)
<1>1. inbox \in Seq(Datagram)
  BY DEF TypeOK
<1> QED
  BY <1>1

\* A step of one caller is about no other.
LEMMA StepMoves ==
  ASSUME TypeOK, NEW p \in Caller, Step(p) \/ GivesUp(p)
  PROVE  \A q \in Caller \ {p} : caller'[q] = caller[q]
<1>1. (\E pc \in Pcs : Goes(p, pc)) \/ EnsureReturns(p) \/ HandshakeFails(p) \/ UNCHANGED caller
      \/ \E worked \in BOOLEAN : Ends(p, worked)
  BY DEF Step, GivesUp, Ensured, ScanBegins, ScanReads, ScanFails, Drops, BindReads, BindRetries, BindFails,
         BindSent, RequestSent, RequestFails, ReplyReads, ReplyTimesOut, Reset, Pcs, Exchanging
<1> QED
  BY <1>1, MovesType, EndsType

\* A step of one caller, which has the mutex or finds it free.
LEMMA StepKnows ==
  ASSUME KnowInv, NEW p \in Caller, Step(p) \/ GivesUp(p)
  PROVE  KnowInv'
<1> USE DEF KnowInv
<1>1. ASSUME caller' \in CallerType, inbox' \in Seq(Datagram), late' \subseteq Datagram,
             polled' \in BOOLEAN, losses' \in Nat, delays' \in Nat,
             holder' \in {p, Nobody}, UNCHANGED <<unit, changes, sets>>,
             key' \in Key \cup {NoKey}, addr' \in Addr \cup {NoAddr}, broadcastOnly' \in BOOLEAN
      PROVE  TypeOK'
  BY <1>1 DEF TypeOK, CallerType, Pcs, Exchanging
<1>2. /\ unit.addr \in Addr /\ unit.key \in Key
      /\ key \in Key \cup {NoKey} /\ addr \in Addr \cup {NoAddr} /\ broadcastOnly \in BOOLEAN
      /\ inbox \in Seq(Datagram) /\ late \subseteq Datagram /\ polled \in BOOLEAN
      /\ losses \in Nat /\ delays \in Nat /\ holder \in Caller \cup {Nobody}
      /\ caller \in CallerType
  BY DEF TypeOK, CallerType, Pcs, Exchanging
<1>3. caller[p].pc \in Exchanging => holder = p
  BY DEF WaitersKnowTheUnit, Exchanging
<1>4. <<>> \in Seq(Datagram)
  OBVIOUS
<1>5. CASE Ensured(p) \/ RequestFails(p)
  <2>1. UNCHANGED <<unit, session, holder, network, polled, changes, sets>> /\ holder = Nobody
        /\ caller' \in CallerType /\ caller'[p].pc \in {"ensure", "request", "reset"}
        /\ \A q \in Caller \ {p} : caller'[q] = caller[q]
    BY <1>5, MovesType DEF Ensured, RequestFails, Pcs
  <2>2. TypeOK'
    BY <1>1, <1>2, <2>1 DEF session, network
  <2> QED
    BY <2>1, <2>2, AloneKnows DEF Exchanging, session, KeyHasAddr
<1>6. CASE ScanBegins(p)
  <2>1. /\ inbox' \in Seq(Datagram) /\ late' \subseteq Datagram /\ losses' \in Nat /\ delays' \in Nat
    BY <1>2, <1>6, AnswersType, AnsweredInbox DEF ScanBegins
  <2>2. /\ caller' \in CallerType /\ caller'[p].pc = "scan" /\ holder = Nobody /\ holder' = p
        /\ \A q \in Caller \ {p} : caller'[q] = caller[q]
        /\ UNCHANGED <<unit, session, polled, changes, sets>>
    BY <1>6, MovesType DEF ScanBegins, Pcs, Exchanging
  <2>3. TypeOK'
    BY <1>1, <1>2, <2>1, <2>2 DEF session
  <2> QED
    BY <2>2, <2>3, AloneKnows DEF Exchanging, session, KeyHasAddr
<1>7. CASE ScanReads(p)
  <2>1. Head(inbox) \in Datagram /\ Tail(inbox) \in Seq(Datagram)
    BY <1>7, TailType DEF ScanReads
  <2>2. addr' \in Addr
    BY <1>7, <2>1 DEF ScanReads, Datagram
  <2>3. inbox' \in Seq(Datagram) /\ late' \subseteq Datagram /\ losses' \in Nat /\ delays' \in Nat
        /\ Goes(p, "bind")
    BY <1>2, <1>7, <2>1, AnswersType, AnsweredInbox DEF ScanReads, BindSent
  <2>4. /\ caller' \in CallerType /\ caller'[p].pc = "bind" /\ holder = p /\ holder' = p
        /\ \A q \in Caller \ {p} : caller'[q] = caller[q]
        /\ UNCHANGED <<unit, key, broadcastOnly, polled, changes, sets>>
    BY <1>3, <1>7, <2>3, MovesType DEF ScanReads, Pcs, Exchanging
  <2>5. TypeOK'
    BY <1>1, <1>2, <2>2, <2>3, <2>4
  <2> QED
    BY <2>2, <2>4, <2>5, AloneKnows, GreeAssumption DEF Exchanging, session, KeyHasAddr
<1>8. CASE ScanFails(p) \/ BindFails(p)
  <2>1. inbox' \in Seq(Datagram) /\ UNCHANGED <<unit, session, late, losses, delays, changes, sets>>
        /\ holder = p /\ HandshakeFails(p)
    BY <1>2, <1>3, <1>8, TailType DEF ScanFails, BindFails, Exchanging
  <2>2. /\ caller' \in CallerType /\ caller'[p].pc \in {"idle", "ensure", "reset"}
        /\ \A q \in Caller \ {p} : caller'[q] = caller[q]
        /\ holder' = Nobody /\ polled' \in BOOLEAN
    BY <2>1, MovesType
  <2>3. TypeOK'
    BY <1>1, <1>2, <2>1, <2>2 DEF session
  <2> QED
    BY <2>1, <2>2, <2>3, AloneKnows DEF Exchanging, session, KeyHasAddr
<1>9. CASE Drops(p)
  <2>1. inbox' \in Seq(Datagram) /\ UNCHANGED <<unit, session, holder, caller, polled, late, losses,
                                                delays, changes, sets>>
    BY <1>9, TailType DEF Drops
  <2>2. TypeOK' /\ WaitersKnowTheUnit' /\ KeyHasAddr'
    BY <2>1 DEF TypeOK, WaitersKnowTheUnit, KeyHasAddr, session
  <2> QED
    BY <2>2
<1>10. CASE BindReads(p)
  <2>1. /\ Head(inbox) \in Datagram /\ inbox' \in Seq(Datagram) /\ holder = p /\ holder' = Nobody
        /\ broadcastOnly' \in BOOLEAN /\ addr # NoAddr
        /\ UNCHANGED <<unit, addr, polled, late, losses, delays, changes, sets>>
    BY <1>2, <1>3, <1>10, TailType DEF BindReads, Exchanging, WaitersKnowTheUnit
  <2>2. key' \in Key \cup {NoKey}
    BY <1>10, <2>1 DEF BindReads, Datagram
  <2>3. /\ caller' \in CallerType /\ caller'[p].pc \in {"ensure", "request"}
        /\ \A q \in Caller \ {p} : caller'[q] = caller[q]
    BY <1>10, MovesType DEF BindReads
  <2>4. TypeOK'
    BY <1>1, <1>2, <2>1, <2>2, <2>3
  <2> QED
    BY <2>1, <2>3, <2>4, AloneKnows DEF Exchanging, session, KeyHasAddr
<1>11. CASE BindRetries(p)
  <2>1. \E rest \in Seq(Datagram) : BindSent(p, OtherTarget, rest, "rebind")
    BY <1>4, <1>11, TailType DEF BindRetries
  <2>2. inbox' \in Seq(Datagram) /\ late' \subseteq Datagram /\ losses' \in Nat /\ delays' \in Nat
        /\ Goes(p, "rebind")
    BY <1>2, <2>1, AnswersType, AnsweredInbox DEF BindSent
  <2>3. /\ caller' \in CallerType /\ caller'[p].pc = "rebind" /\ holder = p /\ holder' = p
        /\ \A q \in Caller \ {p} : caller'[q] = caller[q]
        /\ UNCHANGED <<unit, session, polled, changes, sets>> /\ addr # NoAddr
    BY <1>3, <1>11, <2>2, MovesType DEF BindRetries, Pcs, Exchanging, WaitersKnowTheUnit
  <2>4. TypeOK'
    BY <1>1, <1>2, <2>2, <2>3 DEF session
  <2> QED
    BY <2>3, <2>4, AloneKnows DEF Exchanging, session, KeyHasAddr
<1>12. CASE RequestSent(p)
  <2>1. inbox' \in Seq(Datagram) /\ late' \subseteq Datagram /\ losses' \in Nat /\ delays' \in Nat
    BY <1>2, <1>12, AnswersType, AnsweredInbox DEF RequestSent
  <2>2. /\ caller' \in CallerType /\ caller'[p].pc = "wait" /\ holder = Nobody /\ holder' = p
        /\ \A q \in Caller \ {p} : caller'[q] = caller[q]
        /\ UNCHANGED <<unit, session, polled, changes, sets>> /\ key # NoKey
    BY <1>12, MovesType DEF RequestSent, Pcs, Exchanging
  <2>3. TypeOK'
    BY <1>1, <1>2, <2>1, <2>2 DEF session
  <2> QED
    BY <2>2, <2>3, AloneKnows DEF Exchanging, session, KeyHasAddr
<1>13. CASE ReplyReads(p)
  <2>1. inbox' \in Seq(Datagram) /\ UNCHANGED <<unit, session, late, losses, delays, changes, sets>>
        /\ holder = p /\ holder' = Nobody
    BY <1>3, <1>13, TailType DEF ReplyReads, Exchanging
  <2>2. /\ caller' \in CallerType /\ caller'[p].pc \in {"idle", "ensure"} /\ polled' \in BOOLEAN
        /\ \A q \in Caller \ {p} : caller'[q] = caller[q]
    BY <1>13, EndsType DEF ReplyReads
  <2>3. TypeOK'
    BY <1>1, <1>2, <2>1, <2>2 DEF session
  <2> QED
    BY <2>1, <2>2, <2>3, AloneKnows DEF Exchanging, session, KeyHasAddr
<1>14. CASE ReplyTimesOut(p) \/ GivesUp(p)
  <2>1. /\ UNCHANGED <<unit, session, inbox, late, losses, polled, changes, sets>> /\ delays' \in Nat
        /\ holder = p /\ holder' = Nobody
    BY <1>2, <1>3, <1>14 DEF ReplyTimesOut, GivesUp, Exchanging, network
  <2>2. /\ caller' \in CallerType /\ caller'[p].pc = "reset"
        /\ \A q \in Caller \ {p} : caller'[q] = caller[q]
    BY <1>14, MovesType DEF ReplyTimesOut, GivesUp, Pcs
  <2>3. TypeOK'
    BY <1>1, <1>2, <2>1, <2>2 DEF session
  <2> QED
    BY <2>1, <2>2, <2>3, AloneKnows DEF Exchanging, session, KeyHasAddr
<1>15. CASE Reset(p)
  <2>1. /\ UNCHANGED <<unit, broadcastOnly, holder, network, changes, sets>>
        /\ holder = Nobody /\ key' = NoKey /\ addr' = NoAddr
    BY <1>15 DEF Reset
  <2>2. /\ caller' \in CallerType /\ caller'[p].pc \in {"idle", "ensure"} /\ polled' \in BOOLEAN
        /\ \A q \in Caller \ {p} : caller'[q] = caller[q]
    BY <1>15, EndsType DEF Reset
  <2>3. TypeOK'
    BY <1>1, <1>2, <2>1, <2>2 DEF network
  <2> QED
    BY <2>1, <2>2, <2>3, AloneKnows DEF Exchanging, session, KeyHasAddr
<1> QED
  BY <1>5, <1>6, <1>7, <1>8, <1>9, <1>10, <1>11, <1>12, <1>13, <1>14, <1>15 DEF Step

LEMMA NextKnowInv == KnowInv /\ [Next]_vars => KnowInv'
<1> SUFFICES ASSUME KnowInv, [Next]_vars PROVE KnowInv'
  OBVIOUS
<1>1. CASE PollBegins
  BY <1>1, BeginsKnows, GreeAssumption DEF PollBegins, KnowInv, TypeOK
<1>2. ASSUME NEW p \in Caller, SetBegins(p) PROVE KnowInv'
  BY <1>2, BeginsKnows DEF SetBegins, KnowInv, TypeOK
<1>3. ASSUME NEW p \in Caller, GivesUp(p) \/ Step(p) PROVE KnowInv'
  BY <1>3, StepKnows
<1>4. CASE UnitChanges \/ PowerReturns
  <2>1. UNCHANGED <<session, holder, caller, network, polled, sets>>
    BY <1>4 DEF UnitChanges, PowerReturns
  <2>2. unit' \in [up : BOOLEAN, key : Key, addr : Addr, unicast : BOOLEAN, named : BOOLEAN]
    <3>1. unit \in [up : BOOLEAN, key : Key, addr : Addr, unicast : BOOLEAN, named : BOOLEAN]
      BY DEF KnowInv, TypeOK
    <3>2. \/ \E a \in Addr : unit' = [unit EXCEPT !.addr = a]
          \/ \E k \in Key : unit' = [unit EXCEPT !.key = k]
          \/ \E b \in BOOLEAN : unit' = [unit EXCEPT !.up = b]
      BY <1>4 DEF UnitChanges, PowerReturns
    <3> QED
      BY <3>1, <3>2
  <2>3. changes' \in Nat
    BY <1>4 DEF UnitChanges, PowerReturns, KnowInv, TypeOK
  <2> QED
    BY <2>1, <2>2, <2>3 DEF KnowInv, TypeOK, WaitersKnowTheUnit, KeyHasAddr, session, network
<1>5. CASE LateArrives
  <2>1. late' \subseteq Datagram /\ inbox' \in Seq(Datagram)
    BY <1>5 DEF LateArrives, KnowInv, TypeOK
  <2> QED
    BY <1>5, <2>1 DEF LateArrives, KnowInv, TypeOK, WaitersKnowTheUnit, KeyHasAddr, session
<1>6. CASE UNCHANGED vars
  BY <1>6 DEF vars, session, network, KnowInv, TypeOK, WaitersKnowTheUnit, KeyHasAddr
<1> QED
  BY <1>1, <1>2, <1>3, <1>4, <1>5, <1>6 DEF Next

\* Who waits for a reply has the mutex, the address and the key it is about, though
\* any caller may forget them in between (request and reset, gree.go:218-225,464-491).
THEOREM WaitersAlwaysKnow == Spec => []WaitersKnowTheUnit
<1>1. KnowInv => WaitersKnowTheUnit
  BY DEF KnowInv
<1> QED
  BY <1>1, InitKnowInv, NextKnowInv, PTL DEF Spec

-----------------------------------------------------------------------------
\* Whoever holds the mutex is in an exchange, which its deadlines end; nobody that
\* is waiting for the mutex, or away, has kept it.
HolderExchanges == holder # Nobody => caller[holder].pc \in Exchanging

\* A step takes the mutex for an exchange, gives it back, or goes on with it.
LEMMA StepHolds ==
  ASSUME KnowInv, NEW p \in Caller, Step(p) \/ GivesUp(p)
  PROVE  \/ holder' = Nobody
         \/ holder' = p /\ caller'[p].pc \in Exchanging
         \/ UNCHANGED <<holder, caller>>
<1>1. TypeOK /\ (caller[p].pc \in Exchanging => holder = p)
  BY DEF KnowInv, WaitersKnowTheUnit, Exchanging
<1>2. CASE Ensured(p) \/ RequestFails(p) \/ Reset(p)
  BY <1>2 DEF Ensured, RequestFails, Reset
<1>3. CASE ScanFails(p) \/ BindFails(p) \/ BindReads(p) \/ ReplyReads(p) \/ ReplyTimesOut(p) \/ GivesUp(p)
  BY <1>3 DEF ScanFails, BindFails, HandshakeFails, BindReads, ReplyReads, ReplyTimesOut, GivesUp
<1>4. CASE Drops(p)
  BY <1>4 DEF Drops
<1>5. ASSUME NEW pc \in Exchanging, Goes(p, pc) PROVE caller'[p].pc \in Exchanging
  BY <1>1, <1>5, MovesType DEF Pcs
<1>6. CASE ScanBegins(p) \/ RequestSent(p)
  BY <1>5, <1>6 DEF ScanBegins, RequestSent, Exchanging
<1>7. CASE ScanReads(p)
  BY <1>1, <1>5, <1>7 DEF ScanReads, BindSent, Exchanging
<1>8. CASE BindRetries(p)
  BY <1>1, <1>5, <1>8 DEF BindRetries, BindSent, Exchanging
<1> QED
  BY <1>2, <1>3, <1>4, <1>6, <1>7, <1>8 DEF Step

LEMMA NextHolderExchanges == KnowInv /\ HolderExchanges /\ [Next]_vars => HolderExchanges'
<1> SUFFICES ASSUME KnowInv, HolderExchanges, [Next]_vars PROVE HolderExchanges'
  OBVIOUS
<1>1. ASSUME NEW p \in Caller, Step(p) \/ GivesUp(p) PROVE HolderExchanges'
  BY <1>1, StepHolds DEF HolderExchanges
<1>2. ASSUME NEW p \in Caller, NEW op, Begins(p, op) PROVE HolderExchanges'
  BY <1>2 DEF Begins, HolderExchanges, KnowInv, TypeOK, Exchanging
<1>3. CASE UnitChanges \/ PowerReturns \/ LateArrives \/ UNCHANGED vars
  BY <1>3 DEF UnitChanges, PowerReturns, LateArrives, vars, HolderExchanges
<1> QED
  BY <1>1, <1>2, <1>3, GreeAssumption DEF Next, PollBegins, SetBegins

\* One caller at a time is in an exchange, and it is the one that holds the mutex:
\* however an exchange ends, refused, timed out or given up, none of its ways out
\* keeps the mutex from the others (ensureKey and request, gree.go:230-241, 464-491).
THEOREM MutexComesBack ==
  Spec => [](HolderExchanges /\ \A p \in Caller : caller[p].pc \in Exchanging => holder = p)
<1>1. Init => HolderExchanges
  BY DEF Init, HolderExchanges
<1>2. KnowInv => \A p \in Caller : caller[p].pc \in Exchanging => holder = p
  BY DEF KnowInv, WaitersKnowTheUnit, Exchanging
<1> QED
  BY <1>1, <1>2, InitKnowInv, NextKnowInv, NextHolderExchanges, PTL DEF Spec

-----------------------------------------------------------------------------
\* Somebody waits for the data in a socket, which is one datagram at most.
Awaited(s, c) ==
  \A i \in 1..Len(s) : s[i].kind = "data" =>
    /\ c[s[i].for].pc = "wait"
    /\ \A j \in 1..Len(s) : s[j].kind = "data" => j = i

OwnInv ==
  /\ delays <= MaxDelays
  /\ delays = MaxDelays => late = {} /\ Awaited(inbox, caller)

\* Reading the first datagram, and nobody waits for data that is not there.
LEMMA TailAwaited ==
  ASSUME TypeOK, inbox # <<>>, NEW c, Awaited(inbox, c)
  PROVE  /\ Awaited(Tail(inbox), c)
         /\ Head(inbox).kind = "data" => \A any : Awaited(Tail(inbox), any)
<1> DEFINE t == Tail(inbox)
<1>1. /\ inbox \in Seq(Datagram) /\ Len(t) \in Nat /\ Head(inbox) = inbox[1] /\ 1 \in 1..Len(inbox)
      /\ \A i \in 1..Len(t) : t[i] = inbox[i + 1] /\ i + 1 \in 1..Len(inbox) /\ i + 1 # 1
  BY TailType DEF TypeOK
<1> HIDE DEF t
<1>2. Awaited(t, c)
  <2> SUFFICES ASSUME NEW i \in 1..Len(t), t[i].kind = "data"
               PROVE  /\ c[t[i].for].pc = "wait"
                      /\ \A j \in 1..Len(t) : t[j].kind = "data" => j = i
    BY DEF Awaited
  <2>1. i + 1 \in 1..Len(inbox) /\ inbox[i + 1].kind = "data" /\ t[i] = inbox[i + 1]
    BY <1>1
  <2>2. /\ c[inbox[i + 1].for].pc = "wait"
        /\ \A k \in 1..Len(inbox) : inbox[k].kind = "data" => k = i + 1
    BY <2>1 DEF Awaited
  <2>3. ASSUME NEW j \in 1..Len(t), t[j].kind = "data" PROVE j = i
    <3>1. j + 1 \in 1..Len(inbox) /\ inbox[j + 1].kind = "data"
      BY <1>1, <2>3
    <3>2. j + 1 = i + 1
      BY <2>2, <3>1
    <3> QED
      BY <1>1, <3>2
  <2> QED
    BY <2>1, <2>2, <2>3
<1>3. ASSUME Head(inbox).kind = "data", NEW any PROVE Awaited(t, any)
  <2>1. \A j \in 1..Len(t) : t[j].kind # "data"
    BY <1>1, <1>3 DEF Awaited
  <2> QED
    BY <2>1 DEF Awaited
<1> QED
  BY <1>2, <1>3 DEF t

\* What is answered to scans and binds is not awaited as data.
LEMMA AnsweredAwaited ==
  ASSUME TypeOK, NEW rest \in Seq(Datagram), NEW s \in Seq(Datagram), NEW c, Answered(rest, s),
         \A i \in 1..Len(s) : s[i].kind # "data", Awaited(rest, c)
  PROVE  Awaited(inbox', c)
<1>1. \A i \in 1..Len(inbox') :
        \/ i \in 1..Len(rest) /\ inbox'[i] = rest[i]
        \/ i > Len(rest) /\ \E j \in 1..Len(s) : inbox'[i] = s[j]
  <2>1. late \subseteq Datagram /\ losses \in Nat /\ delays \in Nat
    BY DEF TypeOK
  <2> QED
    BY <2>1, AnsweredInbox
<1>2. ASSUME NEW i \in 1..Len(inbox'), inbox'[i].kind = "data"
      PROVE  i \in 1..Len(rest) /\ rest[i] = inbox'[i]
  BY <1>1, <1>2
<1>3. ASSUME NEW i \in 1..Len(inbox'), inbox'[i].kind = "data"
      PROVE  c[inbox'[i].for].pc = "wait"
  BY <1>2, <1>3 DEF Awaited
<1>4. ASSUME NEW i \in 1..Len(inbox'), inbox'[i].kind = "data",
             NEW j \in 1..Len(inbox'), inbox'[j].kind = "data"
      PROVE  j = i
  <2>1. /\ i \in 1..Len(rest) /\ rest[i].kind = "data"
        /\ j \in 1..Len(rest) /\ rest[j].kind = "data"
    BY <1>2, <1>4
  <2> QED
    BY <2>1 DEF Awaited
<1> QED
  BY <1>3, <1>4 DEF Awaited

\* As long as the data is awaited, other callers' steps do not matter to it.
LEMMA OthersAwait ==
  ASSUME TypeOK, NEW p \in Caller, caller[p].pc # "wait", \A q \in Caller \ {p} : caller'[q] = caller[q],
         NEW s \in Seq(Datagram), Awaited(s, caller)
  PROVE  Awaited(s, caller')
<1>1. \A i \in 1..Len(s) : s[i].for \in Caller
  <2>1. \A i \in 1..Len(s) : s[i] \in Datagram
    OBVIOUS
  <2> QED
    BY <2>1 DEF Datagram
<1> QED
  BY <1>1 DEF Awaited

LEMMA StepOwns ==
  ASSUME KnowInv, OwnInv, NEW p \in Caller, Step(p) \/ GivesUp(p)
  PROVE  OwnInv'
<1> USE DEF KnowInv
<1>1. /\ delays \in Nat /\ losses \in Nat /\ MaxDelays \in Nat /\ late \subseteq Datagram
      /\ inbox \in Seq(Datagram) /\ holder \in Caller \cup {Nobody}
  BY GreeAssumption DEF TypeOK
<1>2. delays <= MaxDelays /\ (delays = MaxDelays => late = {} /\ Awaited(inbox, caller))
  BY DEF OwnInv
<1>3. Awaited(<<>>, caller) /\ Awaited(<<>>, caller') /\ <<>> \in Seq(Datagram)
  BY DEF Awaited
<1>4. ASSUME UNCHANGED <<late, delays>>, delays = MaxDelays => Awaited(inbox', caller')
      PROVE  OwnInv'
  BY <1>2, <1>4 DEF OwnInv
<1>5. CASE Ensured(p) \/ RequestFails(p) \/ Reset(p)
  <2>1. /\ UNCHANGED <<inbox, late, delays>> /\ caller[p].pc # "wait"
        /\ \A q \in Caller \ {p} : caller'[q] = caller[q]
    BY <1>5, MovesType, EndsType DEF Ensured, RequestFails, Reset, network, Pcs
  <2> QED
    BY <1>1, <1>2, <1>4, <2>1, OthersAwait
<1>6. ASSUME NEW rest, rest \in {inbox, <<>>} \/ (inbox # <<>> /\ rest = Tail(inbox)),
             NEW s \in Seq(Datagram), Answered(rest, s), \A i \in 1..Len(s) : s[i].kind # "data",
             caller[p].pc # "wait", \A q \in Caller \ {p} : caller'[q] = caller[q]
      PROVE  OwnInv'
  <2>1. rest \in Seq(Datagram) /\ (delays = MaxDelays => Awaited(rest, caller))
    BY <1>1, <1>2, <1>3, <1>6, TailType, TailAwaited
  <2>2. delays' \in Nat /\ delays' <= delays /\ (delays' = delays => late' = late) /\ inbox' \in Seq(Datagram)
    BY <1>1, <1>6, <2>1, AnsweredInbox
  <2>3. delays = MaxDelays => Awaited(inbox', caller')
    <3>1. delays = MaxDelays => Awaited(rest, caller')
      BY <1>6, <2>1, OthersAwait
    <3> QED
      BY <1>6, <2>1, <3>1, AnsweredAwaited
  <2> QED
    BY <1>1, <1>2, <2>2, <2>3 DEF OwnInv
<1>7. CASE ScanBegins(p)
  <2>1. /\ Answered(inbox, ScanAnswers(p)) /\ caller[p].pc # "wait"
        /\ \A q \in Caller \ {p} : caller'[q] = caller[q]
    BY <1>7, MovesType DEF ScanBegins, Pcs, Exchanging
  <2>2. /\ ScanAnswers(p) \in Seq(Datagram)
        /\ \A i \in 1..Len(ScanAnswers(p)) : ScanAnswers(p)[i].kind # "data"
    BY AnswersType
  <2>3. CASE inbox = <<>>
    BY <1>3, <1>6, <2>1, <2>2, <2>3
  <2>4. CASE inbox # <<>>
    BY <1>6, <2>1, <2>2, <2>4
  <2> QED
    BY <2>3, <2>4
<1>8. CASE ScanReads(p)
  <2> DEFINE s == BindAnswers(p, IF broadcastOnly THEN Broadcast ELSE addr')
  <2>1. /\ s \in Seq(Datagram) /\ \A i \in 1..Len(s) : s[i].kind # "data"
    BY AnswersType
  <2>2. inbox # <<>> /\ Answered(Tail(inbox), s)
    BY <1>8 DEF ScanReads, BindSent
  <2>3. caller[p].pc # "wait" /\ \A q \in Caller \ {p} : caller'[q] = caller[q]
    BY <1>8, MovesType DEF ScanReads, BindSent, Pcs, Exchanging
  <2> HIDE DEF s
  <2> QED
    BY <1>6, <2>1, <2>2, <2>3
<1>9. CASE BindRetries(p)
  <2> DEFINE s == BindAnswers(p, OtherTarget)
  <2>1. /\ s \in Seq(Datagram) /\ \A i \in 1..Len(s) : s[i].kind # "data"
    BY AnswersType
  <2>2. Answered(<<>>, s) \/ (inbox # <<>> /\ Answered(Tail(inbox), s))
    BY <1>9 DEF BindRetries, BindSent
  <2>3. caller[p].pc # "wait" /\ \A q \in Caller \ {p} : caller'[q] = caller[q]
    BY <1>9, MovesType DEF BindRetries, BindSent, Pcs, Exchanging
  <2> HIDE DEF s
  <2>4. CASE Answered(<<>>, s)
    BY <1>6, <2>1, <2>3, <2>4
  <2>5. CASE inbox # <<>> /\ Answered(Tail(inbox), s)
    BY <1>6, <2>1, <2>3, <2>5
  <2> QED
    BY <2>2, <2>4, <2>5
<1>10. CASE ScanFails(p) \/ BindFails(p) \/ BindReads(p) \/ Drops(p)
  <2>1. /\ UNCHANGED <<late, delays>>
        /\ inbox' = inbox \/ (inbox # <<>> /\ inbox' = Tail(inbox))
        /\ \/ caller' = caller
           \/ caller[p].pc # "wait" /\ \A q \in Caller \ {p} : caller'[q] = caller[q]
    BY <1>10, MovesType DEF ScanFails, BindFails, BindReads, Drops
  <2>2. inbox' \in Seq(Datagram) /\ (delays = MaxDelays => Awaited(inbox', caller))
    BY <1>1, <1>2, <2>1, TailType, TailAwaited
  <2> QED
    BY <1>4, <2>1, <2>2, OthersAwait
<1>11. CASE RequestSent(p)
  <2> DEFINE s == RequestAnswers(p, SendTarget)
  <2>1. /\ s \in Seq(Datagram) /\ Len(s) <= 1 /\ \A i \in 1..Len(s) : s[i].for = p
        /\ Answered(inbox, s)
    BY <1>11, AnswersType DEF RequestSent
  <2> HIDE DEF s
  <2>2. /\ inbox' \in Seq(Datagram) /\ Len(inbox') <= Len(inbox) + Len(s)
        /\ \A i \in 1..Len(inbox') :
             \/ i \in 1..Len(inbox) /\ inbox'[i] = inbox[i]
             \/ i > Len(inbox) /\ \E j \in 1..Len(s) : inbox'[i] = s[j]
        /\ delays' \in Nat /\ delays' <= delays /\ (delays' = delays => late' = late)
    BY <1>1, <2>1, AnsweredInbox
  <2>3. /\ caller'[p].pc = "wait" /\ \A q \in Caller : caller[q].pc # "wait"
    BY <1>11, MovesType, GreeAssumption DEF RequestSent, WaitersKnowTheUnit, Pcs, Exchanging
  <2>4. ASSUME delays = MaxDelays PROVE Awaited(inbox', caller')
    <3>1. \A i \in 1..Len(inbox) : inbox[i].kind # "data"
      <4> TAKE i \in 1..Len(inbox)
      <4>1. inbox[i].for \in Caller
        <5>1. inbox[i] \in Datagram
          BY <1>1
        <5> QED
          BY <5>1 DEF Datagram
      <4> QED
        BY <1>2, <2>3, <2>4, <4>1 DEF Awaited
    <3>2. ASSUME NEW i \in 1..Len(inbox'), inbox'[i].kind = "data"
          PROVE  i = Len(inbox) + 1 /\ inbox'[i].for = p
      <4>1. i > Len(inbox) /\ \E j \in 1..Len(s) : inbox'[i] = s[j]
        BY <2>2, <3>1, <3>2
      <4>2. Len(inbox') \in Nat /\ Len(inbox) \in Nat /\ Len(s) \in Nat
        BY <1>1, <2>1, <2>2
      <4> QED
        BY <2>1, <2>2, <4>1, <4>2
    <3> QED
      BY <2>3, <3>2 DEF Awaited
  <2> QED
    BY <1>1, <1>2, <2>2, <2>4 DEF OwnInv
<1>12. CASE ReplyReads(p)
  <2>1. /\ UNCHANGED <<late, delays>> /\ inbox # <<>> /\ inbox' = Tail(inbox)
        /\ Head(inbox) \in Datagram /\ ~Generic(Head(inbox))
    BY <1>12, TailType DEF ReplyReads, Readable, WaitersKnowTheUnit
  <2>2. Head(inbox).kind = "data"
    BY <2>1 DEF Generic, Datagram
  <2> QED
    BY <1>2, <1>4, <2>1, <2>2, TailAwaited
<1>13. CASE ReplyTimesOut(p)
  BY <1>3, <1>4, <1>13 DEF ReplyTimesOut, network
<1>14. CASE GivesUp(p)
  BY <1>1, <1>2, <1>14 DEF GivesUp, OwnInv
<1> QED
  BY <1>5, <1>7, <1>8, <1>9, <1>10, <1>11, <1>12, <1>13, <1>14 DEF Step

LEMMA InitOwnInv == Init => OwnInv
BY GreeAssumption DEF Init, OwnInv, Awaited

LEMMA NextOwnInv == KnowInv /\ OwnInv /\ [Next]_vars => OwnInv'
<1> SUFFICES ASSUME KnowInv, OwnInv, [Next]_vars PROVE OwnInv'
  OBVIOUS
<1>1. ASSUME UNCHANGED <<inbox, late, delays>>, NEW p \in Caller, caller[p].pc # "wait",
             \A q \in Caller \ {p} : caller'[q] = caller[q]
      PROVE  OwnInv'
  BY <1>1, OthersAwait DEF OwnInv, KnowInv, TypeOK
<1>2. ASSUME NEW p \in Caller, NEW op, Begins(p, op) PROVE OwnInv'
  BY <1>1, <1>2 DEF Begins, network, KnowInv, TypeOK
<1>3. CASE PollBegins \/ \E p \in Caller : SetBegins(p)
  BY <1>2, <1>3, GreeAssumption DEF PollBegins, SetBegins
<1>4. ASSUME NEW p \in Caller, GivesUp(p) \/ Step(p) PROVE OwnInv'
  BY <1>4, StepOwns
<1>5. CASE UnitChanges \/ PowerReturns \/ UNCHANGED vars
  BY <1>5 DEF UnitChanges, PowerReturns, vars, network, OwnInv
<1>6. CASE LateArrives
  BY <1>6 DEF LateArrives, OwnInv
<1> QED
  BY <1>3, <1>4, <1>5, <1>6 DEF Next

\* What leaves its wait with a reply took one that was its own, as long as no answer
\* came late or was left unread (request and readReplyLocked, gree.go:398-425,464-491).
THEOREM RepliesAreTheirOwn == Spec => RepliesAreOwn
<1>1. ASSUME KnowInv, OwnInv, Next, NEW p \in Caller, delays = MaxDelays,
             caller[p].pc = "wait", inbox # <<>>, caller'[p].pc \in {"idle", "ensure"}
      PROVE  Head(inbox).for = p
  <2>1. caller[p] # caller'[p] /\ caller[p].pc \notin {"request", "ensure", "idle", "reset", "bind", "rebind", "scan"}
    BY <1>1
  <2>2. ReplyReads(p)
    <3>1. ASSUME NEW q \in Caller, GivesUp(q) \/ Step(q) PROVE q = p
      <4>1. \A r \in Caller \ {q} : caller'[r] = caller[r]
        BY <1>1, <3>1, StepMoves DEF KnowInv
      <4> QED
        BY <2>1, <4>1
    <3>2. ASSUME NEW q \in Caller, NEW op, Begins(q, op) PROVE FALSE
      BY <1>1, <2>1, <3>2 DEF Begins, KnowInv, TypeOK
    <3>3. Step(p) \/ GivesUp(p)
      BY <1>1, <2>1, <3>1, <3>2, GreeAssumption
         DEF Next, PollBegins, SetBegins, UnitChanges, PowerReturns, LateArrives
    <3>4. caller'[p].pc \notin {"wait", "reset"}
      BY <1>1
    <3>5. ~GivesUp(p) /\ ~ReplyTimesOut(p)
      BY <1>1, <3>4, MovesType DEF KnowInv, GivesUp, ReplyTimesOut, Pcs
    <3> QED
      BY <2>1, <3>3, <3>5
         DEF Step, Ensured, ScanBegins, ScanReads, ScanFails, Drops, BindReads, BindRetries, BindFails,
             RequestSent, RequestFails, Reset
  <2>3. /\ inbox \in Seq(Datagram) /\ 1 \in 1..Len(inbox) /\ Head(inbox) = inbox[1]
        /\ Head(inbox) \in Datagram
    BY <1>1, TailType DEF KnowInv, TypeOK
  <2>4. Head(inbox).kind = "data"
    BY <1>1, <2>2, <2>3 DEF ReplyReads, Readable, Generic, Datagram, KnowInv, WaitersKnowTheUnit
  <2>5. caller[Head(inbox).for].pc = "wait" /\ Head(inbox).for \in Caller
    BY <1>1, <2>3, <2>4 DEF OwnInv, Awaited, Datagram
  <2> QED
    BY <1>1, <2>5 DEF KnowInv, WaitersKnowTheUnit
<1>2. KnowInv /\ OwnInv /\ [Next]_vars =>
        [\A p \in Caller :
           caller[p].pc = "wait" /\ inbox # <<>> /\ caller'[p].pc \in {"idle", "ensure"}
             => Head(inbox).for = p \/ delays < MaxDelays]_vars
  <2>1. KnowInv /\ OwnInv => (delays = MaxDelays \/ delays < MaxDelays)
    BY GreeAssumption DEF KnowInv, OwnInv, TypeOK
  <2> QED
    BY <1>1, <2>1
<1> QED
  BY <1>2, InitKnowInv, NextKnowInv, InitOwnInv, NextOwnInv, PTL DEF Spec, RepliesAreOwn
=============================================================================
