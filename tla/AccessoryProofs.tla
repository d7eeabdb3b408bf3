-------------------------- MODULE AccessoryProofs --------------------------
(***************************************************************************)
(* Proofs about two HomeKit accessories: the door lock (HKLock), for any   *)
(* set of controllers and timers, and the air conditioner (Climate), for   *)
(* any set of controllers, calls, set points and failures.                 *)
(***************************************************************************)
EXTENDS HKLock, Climate, TLAPS


\* UnsecuredIsOwned needs OneLiveTimer: cancelling stops only the pending timer,
\* and OneLiveTimer says that there is no other.
LockInv == TypeOK /\ OneLiveTimer /\ UnsecuredIsOwned

\* A freshly built accessory satisfies the invariant.
LEMMA InitLockInv == Init => LockInv
BY DEF Init, LockInv, TypeOK, Tile, OneLiveTimer, UnsecuredIsOwned

\* A controller's write keeps the invariant, step by step.
LEMMA WriteLockInv ==
  ASSUME LockInv, NEW k \in Controller,
         UnlockBegins(k) \/ SecureCancels(k) \/ WriteGoesOn(k)
  PROVE  LockInv'
<1> USE DEF LockInv, Goto
<1>1. CASE UnlockBegins(k) \/ OpenFails(k) \/ OpenSucceeds(k)
  BY <1>1 DEF UnlockBegins, OpenFails, OpenSucceeds, TypeOK, OneLiveTimer, UnsecuredIsOwned
<1>2. CASE ShowUnsecured(k)
  BY <1>2 DEF ShowUnsecured, TypeOK, Tile, OneLiveTimer, UnsecuredIsOwned
<1>3. CASE ScheduleRelock(k)
  <2>1. PICK t \in TimerId :
          /\ timer[t] = "idle"
          /\ timer' = [Stopped(timer) EXCEPT ![t] = "armed"]
          /\ pending' = t
    BY <1>3 DEF ScheduleRelock
  <2>2. TypeOK'
    BY <1>3, <2>1 DEF ScheduleRelock, TypeOK, Stopped
  <2>3. timer'[t] = "armed" /\ \A u \in TimerId \ {t} : timer'[u] # "armed"
    BY <2>1 DEF TypeOK, OneLiveTimer, Stopped
  <2>4. OneLiveTimer' /\ UnsecuredIsOwned'
    BY <2>1, <2>3 DEF OneLiveTimer, UnsecuredIsOwned
  <2>5. QED
    BY <2>2, <2>4
<1>4. CASE SecureCancels(k)
  <2>1. TypeOK'
    BY <1>4 DEF SecureCancels, TypeOK, Stopped
  <2>2. \A u \in TimerId : timer'[u] # "armed"
    BY <1>4 DEF SecureCancels, OneLiveTimer, Stopped
  <2>3. pc'[k] = "securing"
    BY <1>4 DEF SecureCancels, TypeOK
  <2>4. QED
    BY <2>1, <2>2, <2>3 DEF OneLiveTimer, UnsecuredIsOwned
<1>5. CASE SecureSettles(k)
  BY <1>5 DEF SecureSettles, TypeOK, Tile, OneLiveTimer, UnsecuredIsOwned
<1>6. CASE StoreTarget(k)
  BY <1>6 DEF StoreTarget, TypeOK, Tile, OneLiveTimer, UnsecuredIsOwned
<1>7. QED
  BY <1>1, <1>2, <1>3, <1>4, <1>5, <1>6 DEF WriteGoesOn

\* So do a timer that fires and the two steps of its callback.
LEMMA TimerLockInv ==
  ASSUME LockInv, NEW t \in TimerId, TimerGoesOn(t)
  PROVE  LockInv'
<1>1. TypeOK'
  BY DEF TimerGoesOn, Fires, RelockCurrent, RelockTarget, LockInv, TypeOK, Tile
<1>2. OneLiveTimer'
  BY DEF TimerGoesOn, Fires, RelockCurrent, RelockTarget, LockInv, TypeOK, OneLiveTimer
<1>3. UnsecuredIsOwned'
  BY DEF TimerGoesOn, Fires, RelockCurrent, RelockTarget, LockInv, TypeOK, UnsecuredIsOwned
<1>4. QED
  BY <1>1, <1>2, <1>3 DEF LockInv

\* The invariant holds in every state the accessory reaches.
THEOREM LockInductive == Spec => []LockInv
<1>1. LockInv /\ UNCHANGED vars => LockInv'
  BY DEF LockInv, vars, TypeOK, OneLiveTimer, UnsecuredIsOwned
<1>2. LockInv /\ [Next]_vars => LockInv'
  BY <1>1, WriteLockInv, TimerLockInv DEF Next
<1>3. QED
  BY InitLockInv, <1>2, PTL DEF Spec

\* However many controllers unlock at once, one timer at most is armed, and
\* the handle stops it.
THEOREM TimersDoNotStack == Spec => []OneLiveTimer
<1>1. LockInv => OneLiveTimer
  BY DEF LockInv
<1>2. QED
  BY <1>1, LockInductive, PTL

\* An Unsecured tile always has somebody who will settle it.
THEOREM TileIsNeverOrphaned == Spec => []UnsecuredIsOwned
<1>1. LockInv => UnsecuredIsOwned
  BY DEF LockInv
<1>2. QED
  BY <1>1, LockInductive, PTL

-----------------------------------------------------------------------------
\* The unit was off at some time, or an answer was taken for what it is not.
Excused == wasOff \/ misread

\* A status that was read says off only of a unit that was.
Known(st, off) == st.online /\ st.power = 0 => off

\* Who shows the unit off has read that, or sent it.
ShowsOff(c, off) ==
  /\ c.view.active = 0 /\ c.pc \in {"publish", "publish again"} => off
  /\ c.pc = "store written" => c.write # None
  /\ c.write # None /\ c.write.field = "active" /\ c.write.value = 0 =>
       IF c.pc = "set" THEN c.params = [power |-> 0] ELSE off

CallerInv(c, off) ==
  /\ DOMAIN c = {"pc", "params", "write", "st", "view", "at"}
  /\ Known(c.st, off) /\ ShowsOff(c, off)

\* So does an answer under way, but for a command's.
StrayInv(got, off) == got # Acknowledged => Known(got, off)

ClimateInv ==
  /\ DOMAIN unit = {"power", "mode", "temp", "fan", "temp_unit", "room"}
  /\ DOMAIN tile = {"active", "current", "target", "room", "temp", "speed", "dry", "fanOnly"}
  /\ unit.power = 0 => Excused
  /\ Known(status, Excused)
  /\ \A got \in stray : StrayInv(got, Excused)
  /\ DOMAIN caller = Caller
  /\ \A p \in Caller : CallerInv(caller[p], Excused)

\* What is written is no None.
LEMMA WrittenIsSomething ==
  ASSUME NEW f, NEW v
  PROVE  [field |-> f, value |-> v] # None
<1> SUFFICES ASSUME [field |-> f, value |-> v] = [none |-> 0] PROVE FALSE
  BY DEF None
<1>1. "none" \in DOMAIN [field |-> f, value |-> v]
  OBVIOUS
<1> QED
  BY <1>1

\* What the tile shows of the unit, written back as it is, commands what the unit
\* already does; and the target that is written is the one that is shown after it
\* (the pairs of conversions, hkclimate.go:48-66, 107-127, 156-167).
THEOREM ConversionsAgree ==
  /\ \A t \in Int, fahrenheit \in {0, 1} : GreeTemp(Celsius(t, fahrenheit), fahrenheit) = t
  /\ \A fan \in 0..5 : FanForRotationSpeed(RotationSpeedForFan(fan)) = fan
  /\ \A mode \in {ModeCool, ModeHeat, ModeAuto}, last \in 0..2 :
       GreeModeForTargetState(HomekitTargetState(mode, last)) = mode
  /\ \A asked, last \in 0..2 : HomekitTargetState(GreeModeForTargetState(asked), last) = asked
<1>1. ASSUME NEW t \in Int, NEW fahrenheit \in {0, 1}
      PROVE  GreeTemp(Celsius(t, fahrenheit), fahrenheit) = t
  <2>1. CASE fahrenheit = 1
    BY <2>1 DEF GreeTemp, Celsius
  <2>2. CASE fahrenheit = 0
    BY <2>2 DEF GreeTemp, Celsius
  <2> QED
    BY <2>1, <2>2
<1>2. \A fan \in 0..5 : FanForRotationSpeed(RotationSpeedForFan(fan)) = fan
  BY DEF FanForRotationSpeed, RotationSpeedForFan
<1> USE DEF GreeModeForTargetState, HomekitTargetState, ModeAuto, ModeCool, ModeHeat,
            TargetAuto, TargetCool, TargetHeat
<1>3. \A mode \in {ModeCool, ModeHeat, ModeAuto}, last \in 0..2 :
        GreeModeForTargetState(HomekitTargetState(mode, last)) = mode
  OBVIOUS
<1>4. \A asked, last \in 0..2 : HomekitTargetState(GreeModeForTargetState(asked), last) = asked
  OBVIOUS
<1> QED
  BY <1>1, <1>2, <1>3, <1>4

LEMMA InitClimateInv == ClimateInit => ClimateInv
<1> SUFFICES ASSUME ClimateInit PROVE ClimateInv
  OBVIOUS
<1>1. caller = [p \in Caller |-> Idle] /\ status = Offline /\ tile = Blank
  BY DEF ClimateInit
<1>2. DOMAIN unit = {"power", "mode", "temp", "fan", "temp_unit", "room"} /\ unit.power = 1
  BY DEF ClimateInit
<1>3. DOMAIN tile = {"active", "current", "target", "room", "temp", "speed", "dry", "fanOnly"}
  BY <1>1 DEF Blank
<1>4. \A off : Known(Offline, off)
  BY DEF Known, Offline
<1>5. \A off : CallerInv(Idle, off)
  BY <1>4 DEF CallerInv, Idle, ShowsOff, None
<1>6. stray = {}
  BY DEF ClimateInit
<1> QED
  BY <1>1, <1>2, <1>3, <1>4, <1>5, <1>6 DEF ClimateInv

\* A caller moves on, and the unit and the tile keep their fields.
LEMMA CallerMoves ==
  ASSUME ClimateInv, NEW p \in Caller, NEW c, Set(p, c),
         CallerInv(c, Excused'), Excused => Excused',
         DOMAIN unit' = DOMAIN unit, unit'.power = 0 => Excused',
         \A got \in stray' : got \in stray \/ StrayInv(got, Excused'),
         DOMAIN tile' = DOMAIN tile, status' = status \/ status' = caller[p].st
  PROVE  ClimateInv'
<1>1. caller'[p] = c /\ DOMAIN caller' = Caller /\ \A q \in Caller \ {p} : caller'[q] = caller[q]
  BY DEF ClimateInv, Set
<1>2. \A q \in Caller : CallerInv(caller[q], Excused')
  BY DEF ClimateInv, CallerInv, Known, ShowsOff
<1>3. \A q \in Caller : CallerInv(caller'[q], Excused')
  BY <1>1, <1>2
<1>4. Known(status', Excused')
  BY <1>2 DEF ClimateInv, CallerInv, Known
<1>5. \A got \in stray' : StrayInv(got, Excused')
  BY DEF ClimateInv, StrayInv, Known
<1> QED
  BY <1>1, <1>3, <1>4, <1>5 DEF ClimateInv

\* The same, where the unit, the answers and what excuses are left alone.
LEMMA CallerGoesOn ==
  ASSUME ClimateInv, NEW p \in Caller, NEW c, Set(p, c), CallerInv(c, Excused),
         UNCHANGED <<unit, wasOff, answers>>,
         DOMAIN tile' = DOMAIN tile, status' = status \/ status' = caller[p].st
  PROVE  ClimateInv'
<1>1. Excused' = Excused /\ stray' = stray
  BY DEF Excused, answers
<1>2. unit'.power = 0 => Excused'
  BY <1>1 DEF ClimateInv
<1> QED
  BY <1>1, <1>2, CallerMoves

\* Who is idle.
LEMMA IdleCaller == \A off : CallerInv(Idle, off)
BY DEF CallerInv, Idle, ShowsOff, None, Known, Offline

\* A write that switches off sends that.
LEMMA CallsClimateInv ==
  ASSUME ClimateInv, NEW p \in Caller, NEW write, NEW params, Calls(p, write, params),
         write = None \/ (write.field = "active" /\ write.value = 0 => params = [power |-> 0])
  PROVE  ClimateInv'
<1> DEFINE c == [Idle EXCEPT !.pc = "set", !.write = write, !.params = params]
<1>1. /\ DOMAIN c = {"pc", "params", "write", "st", "view", "at"}
      /\ c.pc = "set" /\ c.write = write /\ c.params = params /\ c.st = Offline
  BY DEF Idle
<1>2. Set(p, c) /\ UNCHANGED <<unit, status, tile, wasOff, answers>>
  BY DEF Calls
<1> HIDE DEF c
<1>3. CallerInv(c, Excused)
  BY <1>1 DEF CallerInv, Known, ShowsOff, Offline
<1> QED
  BY <1>2, <1>3, CallerGoesOn

LEMMA WritesClimateInv ==
  ASSUME ClimateInv, NEW p \in Caller,
         \/ WebSets(p)
         \/ WriteActive(p) \/ WriteTarget(p) \/ WriteTemp(p) \/ WriteSpeed(p) \/ WriteSwing(p)
         \/ WriteSwitch(p, "dry", ModeDry) \/ WriteSwitch(p, "fanOnly", ModeFan)
  PROVE  ClimateInv'
<1>1. ASSUME NEW field, NEW v, NEW params, Writes(p, field, v, params),
             field = "active" /\ v = 0 => params = [power |-> 0]
      PROVE  ClimateInv'
  <2> DEFINE write == [field |-> field, value |-> v]
  <2>1. write.field = field /\ write.value = v /\ Calls(p, write, params)
    BY <1>1 DEF Writes
  <2> HIDE DEF write
  <2> QED
    BY <1>1, <2>1, CallsClimateInv
<1>2. CASE WebSets(p)
  BY <1>2, CallsClimateInv DEF WebSets
<1>3. CASE WriteActive(p)
  <2> PICK v \in {0, 1} : Writes(p, "active", v, [power |-> v])
    BY <1>3 DEF WriteActive
  <2> QED
    BY <1>1
<1>4. CASE WriteTarget(p) \/ WriteTemp(p) \/ WriteSpeed(p) \/ WriteSwing(p)
  <2>1. \E field \in {"target", "temp", "speed", "swing"} : \E v, params : Writes(p, field, v, params)
    BY <1>4, Zenon DEF WriteTarget, WriteTemp, WriteSpeed, WriteSwing
  <2> QED
    BY <1>1, <2>1
<1>5. ASSUME NEW field \in {"dry", "fanOnly"}, NEW mode, WriteSwitch(p, field, mode)
      PROVE  ClimateInv'
  <2>1. \E v, params : Writes(p, field, v, params)
    BY <1>5, Zenon DEF WriteSwitch
  <2> QED
    BY <1>1, <2>1
<1> QED
  BY <1>2, <1>3, <1>4, <1>5

\* The unit obeys: a command to switch off is one that has power in it.
LEMMA ObeyedUnit ==
  ASSUME ClimateInv, NEW p \in Caller
  PROVE  /\ DOMAIN Obeyed(unit, caller[p].params) = DOMAIN unit
         /\ caller[p].params = [power |-> 0] => Obeyed(unit, caller[p].params).power = 0
BY DEF ClimateInv, Obeyed

\* What an exchange takes or leaves behind is an answer of its own or was on its way.
LEMMA AnswersTaken ==
  ASSUME NEW own, NEW got, NEW off,
         Takes(got, own) \/ Misses(own) \/ stray' = stray \ {got}, StrayInv(own, off)
  PROVE  \A other \in stray' : other \in stray \/ StrayInv(other, off)
BY DEF Takes, Misses

\* Commands sent, refused, obeyed or lost.
LEMMA CommandClimateInv ==
  ASSUME ClimateInv, NEW p \in Caller, SetRefused(p) \/ SetWorks(p) \/ SetFails(p)
  PROVE  ClimateInv'
<1> DEFINE c == [caller[p] EXCEPT !.pc = "read", !.params = None]
<1>1. CallerInv(caller[p], Excused)
  BY DEF ClimateInv
<1>2. /\ DOMAIN c = {"pc", "params", "write", "st", "view", "at"} /\ c.pc = "read"
      /\ c.params = None /\ c.st = caller[p].st /\ c.write = caller[p].write
  BY <1>1 DEF CallerInv
<1>3. caller[p].pc = "set" /\ UNCHANGED <<status, tile>>
  BY DEF SetRefused, SetWorks, SetFails
<1> HIDE DEF c
<1>4. ASSUME NEW off, Excused => off, caller[p].params = [power |-> 0] => off
      PROVE  CallerInv(c, off)
  BY <1>1, <1>2, <1>3, <1>4 DEF CallerInv, Known, ShowsOff
<1>5. CASE SetRefused(p)
  BY <1>3, <1>5, IdleCaller, CallerGoesOn DEF SetRefused
<1>6. CASE SetWorks(p)
  <2>1. /\ unit' = Obeyed(unit, caller[p].params) /\ wasOff' = (wasOff \/ unit'.power = 0)
        /\ misread' = misread
        /\ Set(p, c) \/ Set(p, Idle)
    BY <1>6 DEF SetWorks, c
  <2>2. Excused => Excused'
    BY <2>1 DEF Excused
  <2>3. unit'.power = 0 => Excused'
    BY <2>1 DEF Excused
  <2>4. DOMAIN unit' = DOMAIN unit /\ (caller[p].params = [power |-> 0] => Excused')
    BY <2>1, <2>3, ObeyedUnit
  <2>5. CallerInv(c, Excused') /\ CallerInv(Idle, Excused')
    BY <1>4, <2>2, <2>4, IdleCaller
  <2>6. \E got : Takes(got, Acknowledged) \/ Misses(Acknowledged)
    BY <1>6 DEF SetWorks
  <2>7. \A got \in stray' : got \in stray \/ StrayInv(got, Excused')
    BY <2>6, AnswersTaken DEF StrayInv
  <2> QED
    BY <1>3, <2>1, <2>2, <2>3, <2>4, <2>5, <2>7, CallerMoves
<1>7. CASE SetFails(p)
  <2>1. UNCHANGED <<unit, wasOff>>
    BY <1>7 DEF SetFails
  <2>2. CASE Set(p, Idle) /\ UNCHANGED answers
    BY <1>3, <2>1, <2>2, IdleCaller, CallerGoesOn
  <2>3. CASE /\ \E got \in stray : stray' = stray \ {got}
             /\ misread' = TRUE /\ Set(p, c)
    <3>1. Excused'
      BY <2>3 DEF Excused
    <3> QED
      BY <1>3, <1>4, <2>1, <2>3, <3>1, CallerMoves
  <2> QED
    BY <1>7, <2>2, <2>3 DEF SetFails, c
<1> QED
  BY <1>5, <1>6, <1>7

\* What comes after a command leaves the unit alone.
LEMMA RefreshClimateInv ==
  ASSUME ClimateInv, NEW p \in Caller, Reads(p) \/ Stores(p) \/ Remembers(p) \/ StoresWritten(p)
  PROVE  ClimateInv'
<1>1. /\ CallerInv(caller[p], Excused)
      /\ DOMAIN caller[p] = {"pc", "params", "write", "st", "view", "at"}
  BY DEF ClimateInv, CallerInv
<1>2. /\ UNCHANGED <<unit, wasOff>>
      /\ Stores(p) \/ Remembers(p) \/ StoresWritten(p) => UNCHANGED answers
  BY DEF Reads, Stores, Remembers, StoresWritten
<1>3. CASE Reads(p)
  <2>0. caller[p].pc = "read" /\ UNCHANGED <<status, tile>>
    BY <1>3 DEF Reads
  <2>1. /\ Excused => Excused'
        /\ unit'.power = 0 => Excused'
        /\ StrayInv(Read(unit), Excused')
    <3>1. misread => misread'
      BY <1>3, Zenon DEF Reads
    <3>2. Excused => Excused'
      BY <1>2, <3>1 DEF Excused
    <3> QED
      BY <1>2, <3>2 DEF ClimateInv, StrayInv, Known, Read
  <2>2. PICK st \in {Read(unit), Offline} \cup stray :
          /\ Set(p, [caller[p] EXCEPT !.pc = "store", !.st = st])
          /\ Takes(st, Read(unit)) \/ Misses(Read(unit))
          /\ st = Acknowledged => misread' \/ st = Offline
    BY <1>3 DEF Reads
  <2>3. Known(st, Excused')
    <3>1. CASE st = Offline
      BY <3>1 DEF Known, Offline
    <3>2. CASE st = Acknowledged /\ misread'
      BY <3>2 DEF Known, Excused
    <3>3. CASE st = Read(unit)
      BY <2>1, <3>3 DEF Known, Read, ClimateInv
    <3>4. CASE st \in stray /\ st # Acknowledged
      BY <2>1, <3>4 DEF ClimateInv, StrayInv, Known
    <3> QED
      BY <2>2, <3>1, <3>2, <3>3, <3>4
  <2> DEFINE c == [caller[p] EXCEPT !.pc = "store", !.st = st]
  <2>4. /\ DOMAIN c = DOMAIN caller[p] /\ c.pc = "store" /\ c.st = st
        /\ c.params = caller[p].params /\ c.write = caller[p].write
    BY <1>1
  <2>5. Set(p, c)
    BY <2>2
  <2> HIDE DEF c
  <2>6. CallerInv(c, Excused')
    BY <1>1, <2>0, <2>1, <2>3, <2>4 DEF CallerInv, ShowsOff
  <2>7. \A got \in stray' : got \in stray \/ StrayInv(got, Excused')
    BY <2>1, <2>2, AnswersTaken
  <2> QED
    BY <1>2, <2>0, <2>1, <2>5, <2>6, <2>7, CallerMoves
<1>4. CASE Stores(p)
  <2> DEFINE c == [caller[p] EXCEPT !.pc = "update"]
  <2>1. /\ Set(p, c) /\ status' = caller[p].st /\ UNCHANGED tile /\ caller[p].pc = "store"
    BY <1>4 DEF Stores, Goes
  <2>2. /\ DOMAIN c = DOMAIN caller[p] /\ c.pc = "update" /\ c.st = caller[p].st
        /\ c.params = caller[p].params /\ c.write = caller[p].write
    BY <1>1
  <2> HIDE DEF c
  <2>3. CallerInv(c, Excused)
    BY <1>1, <2>1, <2>2 DEF CallerInv, ShowsOff
  <2> QED
    BY <1>2, <1>4, <2>1, <2>3, CallerGoesOn
<1>5. CASE Remembers(p)
  <2> DEFINE c == [caller[p] EXCEPT !.at = 1]
  <2>1. Set(p, c) /\ UNCHANGED <<status, tile>>
    BY <1>5 DEF Remembers
  <2>2. /\ DOMAIN c = DOMAIN caller[p] /\ c.pc = caller[p].pc /\ c.st = caller[p].st
        /\ c.params = caller[p].params /\ c.write = caller[p].write /\ c.view = caller[p].view
    BY <1>1
  <2> HIDE DEF c
  <2>3. CallerInv(c, Excused)
    BY <1>1, <2>2 DEF CallerInv, ShowsOff
  <2> QED
    BY <1>2, <1>5, <2>1, <2>3, CallerGoesOn
<1>6. CASE StoresWritten(p)
  <2>1. Set(p, Idle) /\ DOMAIN tile' = DOMAIN tile /\ status' = status
    BY <1>6 DEF StoresWritten
  <2> QED
    BY <1>2, <1>6, <2>1, IdleCaller, CallerGoesOn
<1> QED
  BY <1>3, <1>4, <1>5, <1>6

\* Where a caller goes after an update keeps its part of the invariant.
LEMMA UpdatedCaller ==
  ASSUME ClimateInv, NEW p \in Caller, caller[p].pc # "set"
  PROVE  CallerInv(Updated(p), Excused)
<1>1. CallerInv(caller[p], Excused)
  BY DEF ClimateInv
<1>2. CASE caller[p].write = None
  BY <1>2, IdleCaller DEF Updated
<1>3. ASSUME NEW to \in {"again", "store written"}, caller[p].write # None
      PROVE  CallerInv([Idle EXCEPT !.pc = to, !.write = caller[p].write], Excused)
  <2> DEFINE c == [Idle EXCEPT !.pc = to, !.write = caller[p].write]
  <2>1. /\ DOMAIN c = {"pc", "params", "write", "st", "view", "at"} /\ c.pc = to
        /\ c.st = Offline /\ c.params = None /\ c.write = caller[p].write
        /\ ~Offline.online
    BY DEF Idle, None, Offline
  <2> HIDE DEF c
  <2>2. CallerInv(c, Excused)
    BY <1>1, <1>3, <2>1 DEF CallerInv, ShowsOff, Known
  <2> QED
    BY <2>2 DEF c
<1> QED
  BY <1>2, <1>3 DEF Updated

\* Updates publish no status that was not read.
LEMMA UpdateClimateInv ==
  ASSUME ClimateInv, NEW p \in Caller, ObserverUpdates(p) \/ ApplyUpdates(p) \/ Publishes(p)
  PROVE  ClimateInv'
<1>1. /\ CallerInv(caller[p], Excused)
      /\ DOMAIN caller[p] = {"pc", "params", "write", "st", "view", "at"}
  BY DEF ClimateInv, CallerInv
<1>2. UNCHANGED <<unit, status, wasOff, answers>>
  BY DEF ObserverUpdates, ApplyUpdates, Update, Publishes
<1>3. ASSUME NEW st, NEW to \in {"publish", "publish again"}, Update(p, st, to), caller[p].pc # "set",
             Known(st, Excused)
      PROVE  ClimateInv'
  <2>1. CASE ~st.online
    <3>1. Set(p, Updated(p)) /\ UNCHANGED tile
      BY <1>3, <2>1 DEF Update
    <3> QED
      BY <1>2, <1>3, <3>1, UpdatedCaller, CallerGoesOn
  <2>2. CASE st.online
    <3> DEFINE view == ClimateViewOf(st, lastTarget)
               c == [caller[p] EXCEPT !.pc = to, !.view = view, !.st = Offline]
    <3>1. Set(p, c) /\ UNCHANGED tile
      BY <1>3, <2>2 DEF Update
    <3>2. view.active = 0 => Excused
      BY <1>3, <2>2 DEF ClimateViewOf, Known
    <3> HIDE DEF view
    <3>3. /\ DOMAIN c = DOMAIN caller[p] /\ c.pc = to /\ c.st = Offline /\ c.view = view
          /\ c.params = caller[p].params /\ c.write = caller[p].write /\ ~Offline.online
      BY <1>1 DEF Offline
    <3> HIDE DEF c
    <3>4. CallerInv(c, Excused)
      BY <1>1, <1>3, <3>2, <3>3 DEF CallerInv, ShowsOff, Known
    <3> QED
      BY <1>2, <3>1, <3>4, CallerGoesOn
  <2> QED
    BY <2>1, <2>2
<1>4. CASE ObserverUpdates(p)
  BY <1>1, <1>3, <1>4 DEF ObserverUpdates, CallerInv
<1>5. CASE ApplyUpdates(p)
  BY <1>3, <1>5 DEF ApplyUpdates, ClimateInv
<1>6. CASE Publishes(p)
  <2>1. DOMAIN tile' = DOMAIN tile /\ caller[p].pc \in {"publish", "publish again"}
    BY <1>6 DEF Publishes
  <2>2. CASE caller[p].at = 2
    <3>1. Set(p, Updated(p))
      BY <1>6, <2>2 DEF Publishes
    <3> QED
      BY <1>2, <2>1, <3>1, UpdatedCaller, CallerGoesOn
  <2>3. CASE caller[p].at # 2
    <3> DEFINE c == [caller[p] EXCEPT !.at = @ + 1]
    <3>1. Set(p, c)
      BY <1>6, <2>3 DEF Publishes
    <3>2. /\ DOMAIN c = DOMAIN caller[p] /\ c.pc = caller[p].pc /\ c.st = caller[p].st
          /\ c.params = caller[p].params /\ c.write = caller[p].write /\ c.view = caller[p].view
      BY <1>1
    <3> HIDE DEF c
    <3>3. CallerInv(c, Excused)
      BY <1>1, <3>2 DEF CallerInv, ShowsOff
    <3> QED
      BY <1>2, <2>1, <3>1, <3>3, CallerGoesOn
  <2> QED
    BY <2>2, <2>3
<1> QED
  BY <1>4, <1>5, <1>6

\* Every step of the accessory and the remote keeps the invariant.
LEMMA NextClimateInv == ClimateInv /\ [ClimateNext]_climateVars => ClimateInv'
<1> SUFFICES ASSUME ClimateInv, [ClimateNext]_climateVars PROVE ClimateInv'
  OBVIOUS
<1>1. CASE PollBegins
  <2> DEFINE c == [caller[Poller] EXCEPT !.pc = "read"]
  <2>1. Poller \in Caller /\ Set(Poller, c) /\ caller[Poller].pc = "idle"
        /\ UNCHANGED <<unit, status, tile, wasOff, answers>>
    BY <1>1 DEF PollBegins, Goes, Caller
  <2>2. CallerInv(caller[Poller], Excused)
    BY <2>1 DEF ClimateInv
  <2>3. /\ DOMAIN c = {"pc", "params", "write", "st", "view", "at"} /\ c.pc = "read"
        /\ c.st = caller[Poller].st /\ c.params = caller[Poller].params
        /\ c.write = caller[Poller].write
    BY <2>2 DEF CallerInv
  <2> HIDE DEF c
  <2>4. CallerInv(c, Excused)
    BY <2>1, <2>2, <2>3 DEF CallerInv, ShowsOff
  <2> QED
    BY <2>1, <2>4, CallerGoesOn
<1>2. CASE RemoteChanges
  <2>1. /\ DOMAIN unit' = DOMAIN unit /\ wasOff' = (wasOff \/ unit'.power = 0)
        /\ UNCHANGED <<status, tile, caller, answers>>
    BY <1>2 DEF RemoteChanges, ClimateInv
  <2>2. (Excused => Excused') /\ (unit'.power = 0 => Excused') /\ stray' = stray
    BY <2>1 DEF Excused, answers
  <2>3. \A p \in Caller : CallerInv(caller[p], Excused')
    BY <2>2 DEF ClimateInv, CallerInv, Known, ShowsOff
  <2>4. Known(status, Excused') /\ \A got \in stray : StrayInv(got, Excused')
    BY <2>2 DEF ClimateInv, Known, StrayInv
  <2> QED
    BY <2>1, <2>2, <2>3, <2>4 DEF ClimateInv
<1>3. CASE UNCHANGED climateVars
  BY <1>3 DEF climateVars, answers, Excused, ClimateInv
<1> QED
  BY <1>1, <1>2, <1>3, WritesClimateInv, CommandClimateInv, RefreshClimateInv, UpdateClimateInv
  DEF ClimateNext, Step

\* The invariant holds in every state.
THEOREM TileOfAReadStatus == ClimateSpec => []ClimateInv
BY InitClimateInv, NextClimateInv, PTL DEF ClimateSpec

\* A step that makes the tile say that the unit is off publishes a status or stores
\* a written value.
LEMMA TileSaysOff ==
  ASSUME ClimateInv, [ClimateNext]_climateVars, tile.active = 1, tile'.active = 0
  PROVE  Excused
<1>0. "active" \in DOMAIN tile
  BY DEF ClimateInv
<1>1. ASSUME NEW p \in Caller, Publishes(p)
      PROVE  Excused
  <2>1. tile'.active \in {caller[p].view.active, tile.active}
    <3> DEFINE shown == Published[caller[p].at]
               view == caller[p].view
    <3>1. tile' = [f \in DOMAIN tile |-> IF f \in shown THEN view[f] ELSE tile[f]]
      BY <1>1 DEF Publishes
    <3> HIDE DEF shown, view
    <3>2. tile'["active"] = IF "active" \in shown THEN view["active"] ELSE tile["active"]
      BY <1>0, <3>1
    <3> QED
      BY <3>2 DEF view
  <2>2. caller[p].view.active = 0
    BY <2>1
  <2>3. caller[p].pc \in {"publish", "publish again"}
    BY <1>1 DEF Publishes
  <2> QED
    BY <2>2, <2>3 DEF ClimateInv, CallerInv, ShowsOff
<1>2. ASSUME NEW p \in Caller, StoresWritten(p)
      PROVE  Excused
  <2>1. /\ caller[p].pc = "store written"
        /\ caller[p].write.field = "active" /\ caller[p].write.value = 0
    <3> DEFINE f == caller[p].write.field
               v == caller[p].write.value
    <3>1. tile' = [tile EXCEPT ![f] = v] /\ caller[p].pc = "store written"
      BY <1>2 DEF StoresWritten
    <3> HIDE DEF f, v
    <3>2. tile'["active"] = IF f = "active" THEN v ELSE tile["active"]
      BY <1>0, <3>1
    <3>3. tile["active"] = 1 /\ tile'["active"] = 0
      OBVIOUS
    <3>4. f = "active" /\ v = 0
      BY <3>2, <3>3
    <3> QED
      BY <3>1, <3>4 DEF f, v
  <2> QED
    BY <2>1 DEF ClimateInv, CallerInv, ShowsOff
<1>3. \/ \E p \in Caller : Publishes(p) \/ StoresWritten(p)
      \/ UNCHANGED tile
  <2>1. ASSUME NEW p \in Caller,
               \/ WebSets(p) \/ WriteActive(p) \/ WriteTarget(p) \/ WriteTemp(p) \/ WriteSpeed(p)
               \/ WriteSwing(p) \/ WriteSwitch(p, "dry", ModeDry) \/ WriteSwitch(p, "fanOnly", ModeFan)
        PROVE  UNCHANGED tile
    BY <2>1 DEF WebSets, Calls, WriteActive, WriteTarget, WriteTemp, WriteSpeed, WriteSwing,
       WriteSwitch, Writes
  <2>2. ASSUME NEW p \in Caller, SetRefused(p) \/ SetWorks(p) \/ SetFails(p) \/ Reads(p) \/ Stores(p)
        PROVE  UNCHANGED tile
    BY <2>2 DEF SetRefused, SetWorks, SetFails, Reads, Stores
  <2>3. ASSUME NEW p \in Caller, ObserverUpdates(p) \/ ApplyUpdates(p) \/ Remembers(p)
        PROVE  UNCHANGED tile
    BY <2>3 DEF ObserverUpdates, ApplyUpdates, Update, Remembers
  <2>4. PollBegins \/ RemoteChanges \/ UNCHANGED climateVars => UNCHANGED tile
    BY DEF PollBegins, RemoteChanges, Calls, climateVars
  <2> QED
    BY <2>1, <2>2, <2>3, <2>4 DEF ClimateNext, Step
<1> QED
  BY <1>1, <1>2, <1>3

\* Exchanges that fail and answers that are late never make the tile say that the
\* unit was switched off, but for an answer taken for what it is not (Status and
\* Update, gree.go:523-536, hkclimate.go:325-336).
THEOREM OffIsNeverMadeUp == ClimateSpec => NoPhantomOff
<1>1. ClimateInv /\ [ClimateNext]_climateVars => (tile.active = 1 /\ tile'.active = 0 => wasOff \/ misread)
  BY TileSaysOff DEF Excused
<1>2. ClimateInv /\ [ClimateNext]_climateVars =>
        [tile.active = 1 /\ tile'.active = 0 => wasOff \/ misread]_climateVars
  BY <1>1
<1> QED
  BY <1>2, TileOfAReadStatus, PTL DEF ClimateSpec, NoPhantomOff
=============================================================================
