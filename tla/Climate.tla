------------------------------ MODULE Climate ------------------------------
(***************************************************************************)
(* GreeController (src/gree.go) and the HomeKit accessory over it          *)
(* (src/hkclimate.go): a cached status, refreshed by the poll loop and by  *)
(* whoever sets something, and a tile that is told of every refresh.       *)
(* Neither the cache nor lastTarget nor the tile is guarded across the     *)
(* steps of one refresh, so two of them interleave.                        *)
(*                                                                         *)
(* The exchange with the unit is GreeClient's: here a command is obeyed or *)
(* not, and its caller takes the answer, an older one that came late, or   *)
(* none.  Louvre, display units and the extras (air, health, turbo, ...)   *)
(* are left out of the unit's state, and the cooling and heating           *)
(* thresholds, always published alike, are one.  Temperatures of HomeKit   *)
(* are ninths of a degree Celsius.                                         *)
(***************************************************************************)
EXTENDS Integers

CONSTANTS
  Poller, Web, Home,        \* Run; calls of /gree/set; HomeKit controllers
  Temps, Speeds,            \* set points (whole degrees) and speeds HomeKit writes
  WebParams,                \* bodies of /gree/set
  Rooms,                    \* room temperatures, 0 for no sensor
  MaxFailures,              \* commands that are lost and answers that are missed
  MaxChanges,               \* changes by its remote
  MaxWrites                 \* writes and calls

Caller == {Poller} \cup Web \cup Home

ASSUME ClimateAssumption ==
  /\ Poller \notin Web \cup Home /\ Web \cap Home = {}
  /\ Temps \subseteq Nat /\ Speeds \subseteq Nat /\ Rooms \subseteq Nat
  /\ MaxFailures \in Nat /\ MaxChanges \in Nat /\ MaxWrites \in Nat

VARIABLES
  unit,        \* the air conditioner
  status,      \* GreeController.status
  lastTarget,  \* hkClimate.lastTarget
  tile,        \* the characteristics
  caller,      \* where each caller is
  stray,       \* answers nobody has taken, which may yet arrive
  wasOff,      \* the unit has been off at some time (for the properties), and
  misread,     \* an answer was taken for what it is not
  failures, changes, writes   \* what is left of the bounds

answers == <<stray, misread>>
climateVars ==
  <<unit, status, lastTarget, tile, caller, wasOff, answers, failures, changes, writes>>

\* greeMode*, TargetHeaterCoolerState* and CurrentHeaterCoolerState*.
ModeAuto == 0   ModeCool == 1   ModeDry == 2   ModeFan == 3   ModeHeat == 4
TargetAuto == 0   TargetHeat == 1   TargetCool == 2
Inactive == 0   Idling == 1   Heating == 2   Cooling == 3

Unit == [power : {0, 1}, mode : ModeAuto..ModeHeat, temp : Nat, fan : 0..5,
         temp_unit : {0, 1}, room : Nat]

-----------------------------------------------------------------------------
\* celsius and greeTemp: temp_unit 1 is Fahrenheit; math.Round.
Celsius(t, fahrenheit) == IF fahrenheit # 1 THEN 9 * t ELSE 5 * (t - 32)

GreeTemp(n, fahrenheit) ==
  IF fahrenheit # 1 THEN (2 * n + 9) \div 18 ELSE (2 * n + 325) \div 10

RotationSpeedForFan(fan) == 20 * fan
FanForRotationSpeed(pct) == ((IF pct > 100 THEN 100 ELSE pct) + 10) \div 20

HomekitTargetState(mode, last) ==
  CASE mode = ModeCool -> TargetCool [] mode = ModeHeat -> TargetHeat [] mode = ModeAuto -> TargetAuto
    [] OTHER -> last

GreeModeForTargetState(target) ==
  CASE target = TargetHeat -> ModeHeat [] target = TargetCool -> ModeCool [] OTHER -> ModeAuto

AutoHeaterCoolerState(st) ==
  CASE st.room = 0 \/ st.room = st.temp -> Idling
    [] st.room > st.temp -> Cooling
    [] OTHER -> Heating

CurrentHeaterCoolerState(st) ==
  CASE st.mode = ModeCool -> Cooling [] st.mode = ModeHeat -> Heating
    [] st.mode = ModeAuto -> AutoHeaterCoolerState(st)
    [] OTHER -> Idling

ClimateViewOf(st, last) ==
  [active  |-> st.power,
   current |-> IF st.power = 1 THEN CurrentHeaterCoolerState(st) ELSE Inactive,
   target  |-> HomekitTargetState(st.mode, last),
   room    |-> Celsius(IF st.room = 0 THEN st.temp ELSE st.room, st.temp_unit),
   temp    |-> Celsius(st.temp, st.temp_unit),
   speed   |-> RotationSpeedForFan(st.fan),
   dry     |-> st.power = 1 /\ st.mode = ModeDry,
   fanOnly |-> st.power = 1 /\ st.mode = ModeFan]

\* The order in which Update publishes, in two halves for all the interleavings.
Published == <<{"active", "current", "target"}, {"room", "temp", "speed", "dry", "fanOnly"}>>

\* Names greeColumnFor knows.
Columns == {"power", "mode", "temp", "fan", "air", "health", "sleep", "light", "swing",
            "quiet", "turbo", "energy", "temp_unit"}

-----------------------------------------------------------------------------
\* The zero value of GreeStatus, and a status read from the unit.
Offline == [online |-> FALSE, power |-> 0, mode |-> 0, temp |-> 0, fan |-> 0,
            temp_unit |-> 0, room |-> 0]
Read(u) == [online |-> TRUE, power |-> u.power, mode |-> u.mode, temp |-> u.temp,
            fan |-> u.fan, temp_unit |-> u.temp_unit, room |-> u.room]

\* The answer to a command has no columns: taken for a status it reads as this.
Acknowledged == [Offline EXCEPT !.online = TRUE]

None == [none |-> 0]
Idle == [pc |-> "idle", params |-> None, write |-> None, st |-> Offline, view |-> None, at |-> 0]

\* What the characteristics are born with.
Blank == [active |-> 0, current |-> 0, target |-> 0, room |-> 0, temp |-> 90, speed |-> 0,
          dry |-> FALSE, fanOnly |-> FALSE]

ClimateInit ==
  /\ \E fahrenheit \in {0, 1}, room \in Rooms :
       unit = [power |-> 1, mode |-> ModeDry, temp |-> GreeTemp(9 * 24, fahrenheit), fan |-> 0,
               temp_unit |-> fahrenheit, room |-> room]
  /\ status = Offline
  /\ lastTarget = TargetCool
  /\ tile = Blank
  /\ caller = [p \in Caller |-> Idle]
  /\ stray = {} /\ wasOff = FALSE /\ misread = FALSE
  /\ failures = MaxFailures /\ changes = MaxChanges /\ writes = MaxWrites

Set(p, c) == caller' = [caller EXCEPT ![p] = c]
Goes(p, pc) == Set(p, [caller[p] EXCEPT !.pc = pc])

-----------------------------------------------------------------------------
\* A tick of Run.
PollBegins ==
  /\ caller[Poller].pc = "idle"
  /\ Goes(Poller, "read")
  /\ UNCHANGED <<unit, status, lastTarget, tile, wasOff, answers, failures, changes, writes>>

Calls(p, write, params) ==
  /\ caller[p].pc = "idle" /\ writes > 0
  /\ writes' = writes - 1
  /\ Set(p, [Idle EXCEPT !.pc = "set", !.write = write, !.params = params])
  /\ UNCHANGED <<unit, status, tile, wasOff, answers, failures, changes>>

\* HandleSet.
WebSets(p) ==
  p \in Web /\ (\E params \in WebParams : Calls(p, None, params)) /\ UNCHANGED lastTarget

\* The handlers of bindWrites: the characteristic written, its value, what it
\* sends to the unit.
Writes(p, field, v, params) ==
  p \in Home /\ Calls(p, [field |-> field, value |-> v], params)

WriteActive(p) ==
  /\ \E v \in {0, 1} : Writes(p, "active", v, [power |-> v])
  /\ UNCHANGED lastTarget

\* The target is remembered, whatever becomes of the write.
WriteTarget(p) ==
  \E v \in {TargetAuto, TargetHeat, TargetCool} :
    /\ Writes(p, "target", v, [power |-> 1, mode |-> GreeModeForTargetState(v)])
    /\ lastTarget' = v

\* The display unit is the cached status's.
WriteTemp(p) ==
  /\ \E c \in Temps : Writes(p, "temp", 9 * c, [temp |-> GreeTemp(9 * c, status.temp_unit)])
  /\ UNCHANGED lastTarget

WriteSpeed(p) ==
  /\ \E v \in Speeds : Writes(p, "speed", v, [fan |-> FanForRotationSpeed(v)])
  /\ UNCHANGED lastTarget

WriteSwing(p) ==
  /\ \E v \in {0, 1} : Writes(p, "swing", v, [swing_v |-> v])
  /\ UNCHANGED lastTarget

\* applyModeSwitch
WriteSwitch(p, field, mode) ==
  /\ \/ Writes(p, field, TRUE, [power |-> 1, mode |-> mode])
     \/ Writes(p, field, FALSE, [mode |-> GreeModeForTargetState(lastTarget)])
  /\ UNCHANGED lastTarget

-----------------------------------------------------------------------------
Obeyed(u, params) ==
  [f \in DOMAIN u |-> IF f \in DOMAIN params THEN params[f] ELSE u[f]]

\* client.Set refuses what has no column.
SetRefused(p) ==
  /\ caller[p].pc = "set" /\ ~(DOMAIN caller[p].params \subseteq Columns)
  /\ Set(p, Idle)
  /\ UNCHANGED <<unit, status, lastTarget, tile, wasOff, answers, failures, changes, writes>>

\* readReplyLocked takes what comes from the unit, whatever it answers: an older
\* answer leaves one's own unread.
Takes(got, own) == stray' = IF got = own THEN stray ELSE (stray \ {got}) \cup {own}

\* Nothing comes in time; the answer may be on its way, and arrive or not.
Misses(own) ==
  /\ failures > 0 /\ failures' = failures - 1
  /\ stray' = stray \cup {own}

\* The unit obeys; whether an answer comes decides what the caller does.
SetWorks(p) ==
  /\ caller[p].pc = "set" /\ DOMAIN caller[p].params \subseteq Columns
  /\ unit' = Obeyed(unit, caller[p].params)
  /\ wasOff' = (wasOff \/ unit'.power = 0)
  /\ \/ /\ \E got \in {Acknowledged} \cup stray : Takes(got, Acknowledged)
        /\ Set(p, [caller[p] EXCEPT !.pc = "read", !.params = None]) /\ UNCHANGED failures
     \/ Misses(Acknowledged) /\ Set(p, Idle)
  /\ UNCHANGED <<status, lastTarget, tile, misread, changes, writes>>

\* It does not: no answer comes either, unless an older one does (there are no more
\* of these than answers missed).
SetFails(p) ==
  /\ caller[p].pc = "set" /\ DOMAIN caller[p].params \subseteq Columns
  /\ \/ Set(p, Idle) /\ failures > 0 /\ failures' = failures - 1 /\ UNCHANGED answers
     \/ /\ \E got \in stray : stray' = stray \ {got}
        /\ misread' = TRUE /\ UNCHANGED failures
        /\ Set(p, [caller[p] EXCEPT !.pc = "read", !.params = None])
  /\ UNCHANGED <<unit, status, lastTarget, tile, wasOff, changes, writes>>

\* refresh: the unit's status, the one of an older answer, or a zero one, ...
Reads(p) ==
  /\ caller[p].pc = "read"
  /\ \/ \E st \in {Read(unit)} \cup stray :
          /\ Takes(st, Read(unit))
          /\ misread' = (misread \/ st = Acknowledged)
          /\ Set(p, [caller[p] EXCEPT !.pc = "store", !.st = st])
          /\ UNCHANGED failures
     \/ /\ Misses(Read(unit)) /\ UNCHANGED misread
        /\ Set(p, [caller[p] EXCEPT !.pc = "store", !.st = Offline])
  /\ UNCHANGED <<unit, status, lastTarget, tile, wasOff, changes, writes>>

\* ... is cached under the mutex and given to the observer, the tile, outside it.
Stores(p) ==
  /\ caller[p].pc = "store"
  /\ status' = caller[p].st
  /\ Goes(p, "update")
  /\ UNCHANGED <<unit, lastTarget, tile, wasOff, answers, failures, changes, writes>>

-----------------------------------------------------------------------------
\* Update has returned.  A HomeKit write updates once more, from the cache, and
\* then its value is stored; any other caller is done.
Updated(p) ==
  IF caller[p].write = None THEN Idle
  ELSE [Idle EXCEPT !.pc = IF caller[p].pc \in {"update", "publish"} THEN "again" ELSE "store written",
                    !.write = caller[p].write]

\* A plausible slip: what could not be read is published as it is.
UpdateAnyway(p, st, pc) ==
  /\ Set(p, [caller[p] EXCEPT !.pc = pc, !.view = ClimateViewOf(st, lastTarget), !.st = Offline])
  /\ UNCHANGED <<unit, status, lastTarget, tile, wasOff, answers, failures, changes, writes>>

\* A plausible slip: only a change of the mode is published.
UpdateOfChange(p, st, pc) ==
  /\ IF ~st.online \/ ClimateViewOf(st, lastTarget).target = lastTarget
     THEN Set(p, Updated(p))
     ELSE Set(p, [caller[p] EXCEPT !.pc = pc, !.view = ClimateViewOf(st, lastTarget), !.st = Offline])
  /\ UNCHANGED <<unit, status, lastTarget, tile, wasOff, answers, failures, changes, writes>>

\* Update: an unreachable unit is skipped; lastTarget is read ...
Update(p, st, pc) ==
  /\ IF ~st.online THEN Set(p, Updated(p))
     ELSE Set(p, [caller[p] EXCEPT !.pc = pc, !.view = ClimateViewOf(st, lastTarget), !.st = Offline])
  /\ UNCHANGED <<unit, status, lastTarget, tile, wasOff, answers, failures, changes, writes>>

ObserverUpdates(p) == caller[p].pc = "update" /\ Update(p, caller[p].st, "publish")
ApplyUpdates(p)    == caller[p].pc = "again" /\ Update(p, status, "publish again")

\* ... and written, ...
Remembers(p) ==
  /\ caller[p].pc \in {"publish", "publish again"} /\ caller[p].at = 0
  /\ lastTarget' = caller[p].view.target
  /\ Set(p, [caller[p] EXCEPT !.at = 1])
  /\ UNCHANGED <<unit, status, tile, wasOff, answers, failures, changes, writes>>

\* ... and the characteristics are set one after the other.
Publishes(p) ==
  /\ caller[p].pc \in {"publish", "publish again"} /\ caller[p].at > 0
  /\ tile' = [f \in DOMAIN tile |-> IF f \in Published[caller[p].at] THEN caller[p].view[f]
                                    ELSE tile[f]]
  /\ Set(p, IF caller[p].at = 2 THEN Updated(p) ELSE [caller[p] EXCEPT !.at = @ + 1])
  /\ UNCHANGED <<unit, status, lastTarget, wasOff, answers, failures, changes, writes>>

\* hap stores the value written once its handler has returned nil.
StoresWritten(p) ==
  /\ caller[p].pc = "store written"
  /\ tile' = [tile EXCEPT ![caller[p].write.field] = caller[p].write.value]
  /\ Set(p, Idle)
  /\ UNCHANGED <<unit, status, lastTarget, wasOff, answers, failures, changes, writes>>

-----------------------------------------------------------------------------
\* The remote changes power or mode; the display unit is left to /gree/set.
RemoteChanges ==
  /\ changes > 0 /\ changes' = changes - 1
  /\ \/ unit' = [unit EXCEPT !.power = 1 - @]
     \/ \E m \in {ModeHeat, ModeDry} \ {unit.mode} : unit' = [unit EXCEPT !.mode = m]
  /\ wasOff' = (wasOff \/ unit'.power = 0)
  /\ UNCHANGED <<status, lastTarget, tile, caller, answers, failures, writes>>

Step(p) ==
  \/ SetRefused(p) \/ SetWorks(p) \/ SetFails(p) \/ Reads(p) \/ Stores(p)
  \/ ObserverUpdates(p) \/ ApplyUpdates(p) \/ Remembers(p) \/ Publishes(p) \/ StoresWritten(p)

ClimateNext ==
  \/ PollBegins \/ RemoteChanges
  \/ \E p \in Caller :
       \/ WebSets(p)
       \/ WriteActive(p) \/ WriteTarget(p) \/ WriteTemp(p) \/ WriteSpeed(p) \/ WriteSwing(p)
       \/ WriteSwitch(p, "dry", ModeDry) \/ WriteSwitch(p, "fanOnly", ModeFan)
       \/ Step(p)

\* The ticker runs, and a call of the client ends (GreeClient!OperationsEnd).
ClimateFairness == WF_climateVars(PollBegins) /\ \A p \in Caller : WF_climateVars(Step(p))

ClimateSpec == ClimateInit /\ [][ClimateNext]_climateVars /\ ClimateFairness

-----------------------------------------------------------------------------
TileValues == [active : {0, 1}, current : 0..3, target : 0..2, room : Int, temp : Int, speed : Nat,
               dry : BOOLEAN, fanOnly : BOOLEAN]

ClimateTypes ==
  /\ unit \in Unit
  /\ status.online \in BOOLEAN
  /\ lastTarget \in 0..2 /\ tile \in TileValues
  /\ DOMAIN caller = Caller
  /\ wasOff \in BOOLEAN /\ misread \in BOOLEAN
  /\ failures \in Nat /\ changes \in Nat /\ writes \in Nat

\* Exchanges that fail and answers that are late never make the tile say that the
\* unit was switched off: it goes from on to off only if the unit was off at some
\* time, as one is that obeyed a controller's write.  But for an answer taken for what
\* it is not, a command's for a status or an old one for a lost command's: nothing in
\* the protocol tells them apart (Status and Update, gree.go:523-536, hkclimate.go:325-336).
NoPhantomOff == [][tile.active = 1 /\ tile'.active = 0 => wasOff \/ misread]_climateVars

\* As the comment of Update has it: no exchange that times out makes it publish that
\* the unit was switched off (hkclimate.go:329-333).  It does not hold: README.md.
OffIsRead ==
  [][\A p \in Caller :
       caller[p].pc \in {"publish", "publish again"} /\ caller'[p] # caller[p]
           /\ tile.active = 1 /\ tile'.active = 0
         => wasOff]_climateVars

\* "HomeKit always speaks Celsius; the unit may not" (hkclimate.go:267).
SetPointInItsDegrees ==
  \A p \in Caller :
    caller[p].pc = "set" /\ caller[p].write # None /\ caller[p].write.field = "temp"
      => caller[p].params.temp = GreeTemp(caller[p].write.value, unit.temp_unit)

\* Once nobody writes and the unit is left alone, the polls bring the cache and
\* the tile to what the unit does and keep them there, with the target that is shown
\* remembered: values hap stored over a newer update, refused and failed writes,
\* late answers, refreshes that overtook each other and halves of two updates all
\* heal (apply and Update, hkclimate.go:304-353).
TileSettles ==
  <>[](/\ status = Read(unit) /\ lastTarget = tile.target
       /\ tile = ClimateViewOf(unit, lastTarget))
=============================================================================
