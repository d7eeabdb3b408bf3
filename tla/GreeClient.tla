----------------------------- MODULE GreeClient -----------------------------
(***************************************************************************)
(* greeClient of src/gree.go: one UDP socket and one device key shared by  *)
(* the poll loop and by whoever sets something.  An operation ensures the  *)
(* key (scan, then bind) and makes its request under the mutex, but the    *)
(* mutex is free between the two, and a failed request forgets the key of  *)
(* everybody.                                                              *)
(*                                                                         *)
(* Answers carry no number: whatever is in the socket is read next, told   *)
(* apart by the key that decrypts it and the address it came from.  The    *)
(* unit answers at once; an answer may be lost, or come after its request  *)
(* has timed out.  Other units on the LAN, which both the scan and the     *)
(* replies filter out, and the contents of status and commands are left    *)
(* out.                                                                    *)
(***************************************************************************)
EXTENDS Sequences, SequencesExt, Naturals

CONSTANTS
  Caller,      \* goroutines that use the client
  Poller,      \* GreeController.Run; every other caller sets
  Key,         \* device keys the unit may come to have
  Addr,        \* addresses DHCP may give it
  Host,        \* the configured host
  NoKey, NoAddr, Broadcast, Nobody,
  MaxLosses,   \* answers that may be lost, ...
  MaxDelays,   \* ... that may come late, or be left unread by a call given up
  MaxChanges,  \* changes of the unit: address, key, a power cut
  MaxSets      \* commands of the users

ASSUME GreeAssumption ==
  /\ Poller \in Caller /\ Nobody \notin Caller
  /\ Host \in Addr /\ NoAddr \notin Addr /\ Broadcast \notin Addr
  /\ Key # {} /\ NoKey \notin Key
  /\ MaxLosses \in Nat /\ MaxDelays \in Nat /\ MaxChanges \in Nat /\ MaxSets \in Nat

VARIABLES
  unit,           \* the air conditioner: up, key, addr, and whether its firmware
                  \* answers unicast and the configuration names its host
  key, addr,      \* greeClient.key, addr (cid goes with it)
  broadcastOnly,
  holder,         \* who holds greeClient.mu
  caller,         \* where each caller is
  inbox,          \* datagrams in the socket
  late,           \* answers still under way after their time
  polled,         \* Online, as the last poll had it
  losses, delays, changes, sets   \* what is left of the bounds

vars == <<unit, key, addr, broadcastOnly, holder, caller, inbox, late, polled,
          losses, delays, changes, sets>>
network == <<inbox, late, losses, delays>>
session == <<key, addr, broadcastOnly>>

\* A datagram of the unit for caller "for": a scan's and a bind's answer use the
\* generic key, and a bind's carries the device key; data is encrypted with it.
Datagram == [kind : {"dev", "bindok", "data"}, from : Addr, key : Key \cup {NoKey}, for : Caller]

Generic(d) == d.kind \in {"dev", "bindok"}

\* own: in Status's own ensureKey, not in request's.
Idle == [pc |-> "idle", op |-> "status", own |-> FALSE]

Init ==
  /\ unit \in [up : {TRUE}, key : {CHOOSE k \in Key : TRUE}, addr : {Host}, unicast : BOOLEAN, named : BOOLEAN]
  /\ key = NoKey /\ addr = NoAddr /\ broadcastOnly = FALSE
  /\ holder = Nobody
  /\ caller = [p \in Caller |-> Idle]
  /\ inbox = <<>> /\ late = {}
  /\ polled = FALSE
  /\ losses = MaxLosses /\ delays = MaxDelays /\ changes = MaxChanges /\ sets = MaxSets

Goes(p, pc) == caller' = [caller EXCEPT ![p].pc = pc]

-----------------------------------------------------------------------------
\* What a datagram sent to target reaches.
Reached(target) ==
  unit.up /\ (target = Broadcast \/ (unit.unicast /\ target = unit.addr))

Answer(p, kind, k) == [kind |-> kind, from |-> unit.addr, key |-> k, for |-> p]

\* After one datagram or none was read, rest is left in the socket and s is what
\* the unit answers to what was sent: all of it in time, or one lost or late.
Answered(rest, s) ==
  \/ inbox' = rest \o s /\ UNCHANGED <<late, losses, delays>>
  \/ \E i \in 1..Len(s) :
       /\ inbox' = rest \o RemoveAt(s, i)
       /\ \/ losses > 0 /\ losses' = losses - 1 /\ UNCHANGED <<late, delays>>
          \/ delays > 0 /\ delays' = delays - 1 /\ late' = late \cup {s[i]} /\ UNCHANGED losses

\* discoverLocked sends a scan to the configured host, if there is one, and to
\* the broadcast address; the unit answers each that reaches it.
ScanAnswers(p) ==
  LET dev == Answer(p, "dev", NoKey) IN
  (IF unit.named /\ Reached(Host) THEN <<dev>> ELSE <<>>)
    \o (IF Reached(Broadcast) THEN <<dev>> ELSE <<>>)

BindAnswers(p, target) == IF Reached(target) THEN <<Answer(p, "bindok", unit.key)>> ELSE <<>>

\* The unit answers only what its key decrypts.
RequestAnswers(p, target) ==
  IF Reached(target) /\ unit.key = key THEN <<Answer(p, "data", key)>> ELSE <<>>

\* sendTarget, and the other way that a failed bind is tried.
SendTarget  == IF broadcastOnly THEN Broadcast ELSE addr
OtherTarget == IF broadcastOnly THEN addr ELSE Broadcast

-----------------------------------------------------------------------------
\* A tick of Run, or a Set.  Status ensures the key twice, first by itself and
\* then in request; Set only in request.
Begins(p, op) ==
  /\ caller[p].pc = "idle"
  /\ caller' = [caller EXCEPT ![p] =
       [pc |-> "ensure", op |-> op, own |-> op = "status"]]
  /\ UNCHANGED <<unit, session, holder, network, polled, changes>>

PollBegins == Begins(Poller, "status") /\ UNCHANGED sets
SetBegins(p) == p # Poller /\ sets > 0 /\ sets' = sets - 1 /\ Begins(p, "set")

\* An operation is over.  A Set that worked reads the status back (refresh).
Ends(p, worked) ==
  /\ caller' = [caller EXCEPT ![p] =
       IF worked /\ @.op = "set" THEN [pc |-> "ensure", op |-> "status", own |-> TRUE]
       ELSE Idle]
  /\ polled' = IF p = Poller THEN worked ELSE polled

EnsureReturns(p) ==
  caller' = [caller EXCEPT ![p].own = FALSE,
                           ![p].pc = IF caller[p].own THEN "ensure" ELSE "request"]

\* ensureKey with a key: the mutex is taken and given back.
Ensured(p) ==
  /\ caller[p].pc = "ensure"
  /\ holder = Nobody /\ key # NoKey
  /\ EnsureReturns(p)
  /\ UNCHANGED <<unit, session, holder, network, polled, changes, sets>>

\* ensureKey without one: the mutex is kept for the whole handshake.
ScanBegins(p) ==
  /\ caller[p].pc = "ensure"
  /\ holder = Nobody /\ key = NoKey
  /\ holder' = p
  /\ Goes(p, "scan")
  /\ Answered(inbox, ScanAnswers(p))
  /\ UNCHANGED <<unit, session, polled, changes, sets>>

\* A handshake that failed: Status just returns, while the error of request
\* goes on to reset.
HandshakeFails(p) ==
  /\ holder' = Nobody
  /\ IF caller[p].own THEN Ends(p, FALSE) ELSE Goes(p, "reset") /\ UNCHANGED polled

\* A bind is sent to target; the datagrams in rest are still unread.
BindSent(p, target, rest, pc) == Answered(rest, BindAnswers(p, target)) /\ Goes(p, pc)

\* The first datagram the generic key decrypts is taken for the scan's answer
\* (a bind's carries the MAC as well), and the bind is sent.
ScanReads(p) ==
  /\ caller[p].pc = "scan" /\ inbox # <<>> /\ Generic(Head(inbox))
  /\ addr' = Head(inbox).from
  /\ BindSent(p, IF broadcastOnly THEN Broadcast ELSE addr', Tail(inbox), "bind")
  /\ UNCHANGED <<unit, key, broadcastOnly, holder, polled, changes, sets>>

\* Any other ends the scan, as a deadline without an answer does.
ScanFails(p) ==
  /\ caller[p].pc = "scan"
  /\ \/ inbox = <<>> /\ UNCHANGED inbox
     \/ inbox # <<>> /\ ~Generic(Head(inbox)) /\ inbox' = Tail(inbox)
  /\ HandshakeFails(p)
  /\ UNCHANGED <<unit, session, late, losses, delays, changes, sets>>

\* readReplyLocked drops what the key k does not decrypt or another address sent.
Readable(d, k) == d.from = addr /\ IF k = NoKey THEN Generic(d) ELSE ~Generic(d) /\ d.key = k

Drops(p) ==
  /\ caller[p].pc \in {"bind", "rebind", "wait"} /\ inbox # <<>>
  /\ ~Readable(Head(inbox), IF caller[p].pc = "wait" THEN key ELSE NoKey)
  /\ inbox' = Tail(inbox)
  /\ UNCHANGED <<unit, session, holder, caller, polled, late, losses, delays, changes, sets>>

\* A reply with a key in it: the session is there, by the way that worked.
BindReads(p) ==
  /\ caller[p].pc \in {"bind", "rebind"}
  /\ inbox # <<>> /\ Readable(Head(inbox), NoKey) /\ Head(inbox).kind = "bindok"
  /\ key' = Head(inbox).key
  /\ broadcastOnly' = IF caller[p].pc = "rebind" THEN ~broadcastOnly ELSE broadcastOnly
  /\ inbox' = Tail(inbox)
  /\ holder' = Nobody
  /\ EnsureReturns(p)
  /\ UNCHANGED <<unit, addr, polled, late, losses, delays, changes, sets>>

\* No reply: the bind is tried the other way.  A reply without a key is an error
\* that only a broadcast-only client tries again.
BindRetries(p) ==
  /\ caller[p].pc = "bind"
  /\ \/ inbox = <<>> /\ BindSent(p, OtherTarget, <<>>, "rebind")
     \/ /\ inbox # <<>> /\ Readable(Head(inbox), NoKey) /\ Head(inbox).kind = "dev"
        /\ broadcastOnly
        /\ BindSent(p, OtherTarget, Tail(inbox), "rebind")
  /\ UNCHANGED <<unit, session, holder, polled, changes, sets>>

BindFails(p) ==
  /\ \/ caller[p].pc = "rebind" /\ inbox = <<>> /\ UNCHANGED inbox
     \/ /\ inbox # <<>> /\ Readable(Head(inbox), NoKey) /\ Head(inbox).kind = "dev"
        /\ \/ caller[p].pc = "rebind"
           \/ caller[p].pc = "bind" /\ ~broadcastOnly
        /\ inbox' = Tail(inbox)
  /\ HandshakeFails(p)
  /\ UNCHANGED <<unit, session, late, losses, delays, changes, sets>>

-----------------------------------------------------------------------------
\* A plausible slip: the mutex is given back once the request is sent.
RequestSentUnlocked(p) ==
  /\ caller[p].pc = "request"
  /\ holder = Nobody /\ key # NoKey
  /\ Answered(inbox, RequestAnswers(p, SendTarget))
  /\ Goes(p, "wait")
  /\ UNCHANGED <<unit, session, holder, polled, changes, sets>>

\* request takes the mutex again, sends and waits.
RequestSent(p) ==
  /\ caller[p].pc = "request"
  /\ holder = Nobody /\ key # NoKey
  /\ holder' = p
  /\ Answered(inbox, RequestAnswers(p, SendTarget))
  /\ Goes(p, "wait")
  /\ UNCHANGED <<unit, session, polled, changes, sets>>

\* Another caller's reset came first: there is no key to encrypt with.
RequestFails(p) ==
  /\ caller[p].pc = "request"
  /\ holder = Nobody /\ key = NoKey
  /\ Goes(p, "reset")
  /\ UNCHANGED <<unit, session, holder, network, polled, changes, sets>>

\* Whatever the device key decrypts is the reply.
ReplyReads(p) ==
  /\ caller[p].pc = "wait" /\ inbox # <<>> /\ Readable(Head(inbox), key)
  /\ inbox' = Tail(inbox)
  /\ holder' = Nobody
  /\ Ends(p, TRUE)
  /\ UNCHANGED <<unit, session, late, losses, delays, changes, sets>>

\* A plausible slip: a read without a deadline.
ReplyNeverTimesOut(p) ==
  caller[p].pc = "wait" /\ inbox = <<>> /\ UNCHANGED vars

ReplyTimesOut(p) ==
  /\ caller[p].pc = "wait" /\ inbox = <<>>
  /\ holder' = Nobody
  /\ Goes(p, "reset")
  /\ UNCHANGED <<unit, session, network, polled, changes, sets>>

\* The browser that asked for a Set is gone: workCtx passes that on, and the call
\* leaves what it waits for unread.
GivesUp(p) ==
  /\ caller[p].op = "set" /\ caller[p].pc \in {"scan", "bind", "rebind", "wait"}
  /\ delays > 0 /\ delays' = delays - 1
  /\ holder' = Nobody
  /\ Goes(p, "reset")
  /\ UNCHANGED <<unit, session, inbox, late, losses, polled, changes, sets>>

\* Plausible slips: the session is cleared without the mutex, or not at all.
ResetUnlocked(p) ==
  /\ caller[p].pc = "reset"
  /\ key' = NoKey /\ addr' = NoAddr
  /\ Ends(p, FALSE)
  /\ UNCHANGED <<unit, broadcastOnly, holder, network, changes, sets>>

ResetKeepsSession(p) ==
  /\ caller[p].pc = "reset" /\ holder = Nobody
  /\ Ends(p, FALSE)
  /\ UNCHANGED <<unit, session, holder, network, changes, sets>>

\* reset: the next operation has to find the unit again.
Reset(p) ==
  /\ caller[p].pc = "reset" /\ holder = Nobody
  /\ key' = NoKey /\ addr' = NoAddr
  /\ Ends(p, FALSE)
  /\ UNCHANGED <<unit, broadcastOnly, holder, network, changes, sets>>

-----------------------------------------------------------------------------
\* A new lease, a new key (the unit was set up again), a power cut.
UnitChanges ==
  /\ changes > 0 /\ changes' = changes - 1
  /\ \/ \E a \in Addr \ {unit.addr} : unit' = [unit EXCEPT !.addr = a]
     \/ \E k \in Key \ {unit.key} : unit' = [unit EXCEPT !.key = k]
     \/ unit' = [unit EXCEPT !.up = FALSE]
  /\ UNCHANGED <<session, holder, caller, network, polled, sets>>

PowerReturns ==
  /\ ~unit.up /\ unit' = [unit EXCEPT !.up = TRUE]
  /\ UNCHANGED <<session, holder, caller, network, polled, changes, sets>>

LateArrives ==
  /\ \E d \in late : late' = late \ {d} /\ inbox' = Append(inbox, d)
  /\ UNCHANGED <<unit, session, holder, caller, polled, losses, delays, changes, sets>>

Step(p) ==
  \/ Ensured(p) \/ ScanBegins(p) \/ ScanReads(p) \/ ScanFails(p)
  \/ Drops(p) \/ BindReads(p) \/ BindRetries(p) \/ BindFails(p)
  \/ RequestSent(p) \/ RequestFails(p) \/ ReplyReads(p) \/ ReplyTimesOut(p) \/ Reset(p)

Next ==
  \/ PollBegins
  \/ \E p \in Caller : SetBegins(p) \/ GivesUp(p) \/ Step(p)
  \/ UnitChanges \/ PowerReturns \/ LateArrives

\* The ticker runs, reads have deadlines, a waiter gets the mutex in its turn
\* (sync.Mutex does not starve one), and power comes back.
Fairness ==
  /\ WF_vars(PollBegins) /\ WF_vars(PowerReturns)
  /\ \A p \in Caller : SF_vars(Step(p))

Spec == Init /\ [][Next]_vars /\ Fairness

-----------------------------------------------------------------------------
TypeOK ==
  /\ unit \in [up : BOOLEAN, key : Key, addr : Addr, unicast : BOOLEAN, named : BOOLEAN]
  /\ key \in Key \cup {NoKey} /\ addr \in Addr \cup {NoAddr} /\ broadcastOnly \in BOOLEAN
  /\ holder \in Caller \cup {Nobody}
  /\ caller \in [Caller -> [pc : {"idle", "ensure", "scan", "bind", "rebind", "request",
                                  "wait", "reset"},
                            op : {"status", "set"}, own : BOOLEAN]]
  /\ inbox \in Seq(Datagram) /\ late \subseteq Datagram
  /\ polled \in BOOLEAN
  /\ losses \in Nat /\ delays \in Nat /\ changes \in Nat /\ sets \in Nat

\* Whoever waits for a reply knows whose reply it waits for: readReplyLocked
\* (gree.go:414) dereferences the address, which any caller's reset clears, and
\* its key is the one its request was made with.
WaitersKnowTheUnit ==
  \A p \in Caller :
    /\ caller[p].pc \in {"scan", "bind", "rebind", "wait"} => holder = p
    /\ caller[p].pc \in {"bind", "rebind", "wait"} => addr # NoAddr
    /\ caller[p].pc = "wait" => key # NoKey

\* As long as no answer comes late or is left unread, the reply a request takes
\* is its own: left over answers of scans and binds, other callers' exchanges,
\* lost answers and a changed unit do not make it take another (request,
\* gree.go:464-491).
RepliesAreOwn ==
  [][\A p \in Caller :
       caller[p].pc = "wait" /\ inbox # <<>> /\ caller'[p].pc \in {"idle", "ensure"}
         => Head(inbox).for = p \/ delays < MaxDelays]_vars

\* Every poll and every Set comes to its end, though the unit is silent.
OperationsEnd == \A p \in Caller : caller[p].pc # "idle" ~> caller[p].pc = "idle"

\* How often the unit answers a scan: at its configured host and by broadcast.
AnswersTwice == unit.named /\ unit.unicast /\ unit.addr = Host
AnswersOnce  == ~(unit.named /\ unit.unicast)

\* Once the unit stays as it is, answers in time and is left to the polls, they
\* come to find it online and go on to, whatever was lost, left in the socket or
\* reset by another caller before, if it answers every scan twice; if it only
\* ever answers once, no answer may have come late or been left (reset,
\* gree.go:218-225).
Heals == <>[](AnswersTwice \/ (AnswersOnce /\ delays = MaxDelays) => polled)

\* gree.go:219-220: "the next poll then heals the connection on its own".
HealsByItself == <>[]polled
=============================================================================
