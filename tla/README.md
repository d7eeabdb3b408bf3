# TLA+ models of camonitor

This directory holds TLA+ modules that model parts of camonitor, TLC
configurations that check them on small instances and TLAPS proofs that hold for
every instance. camonitor is one Go process (`src/*.go`, package main) that
watches door cameras, relays their video, rings bells, opens doors and a gate,
drives air conditioners, and offers all of that to a web page, to HomeKit and to
guests' phones.

## 1. Inventory

Every part is one or more goroutines of the same process; they call each other
directly, share memory under a mutex per component, and talk to cameras, the
gate's cloud, HomeKit controllers and phones over the network.

| part | source | state | operations | what is hard | correct means |
|---|---|---|---|---|---|
| guest stream hub | streamhub.go | viewers, idle timer and run per camera; muxer and ready channel per run | acquire, release, idle callback, pull, write, closeMuxer, serve, Close | a fired callback cannot be stopped; the ready channel is swapped under waiters; Close waits for pulls | a watched camera is pulled, an unwatched one is dropped, no pull leaks, every request is answered |
| HomeKit door lock | hklock.go | the tile, its target, the relock timer | setTarget, unlock, secure, scheduleRelock, the callback | controllers write concurrently; steps outside the mutex | timers do not stack; the tile returns to Secured |
| guest access | gueststore.go, guestapi.go, guestadmin.go | guest records in memory and in a file | create, enroll, demo enrol, authenticate, open, revoke, forget, load | a save fails after memory has changed; answers are lost; restarts | one-time codes, lasting enrolment, final revocation |
| doorbell bus | bell.go, bellstore.go | last ring per stream, history, latest, SQLite table, subscribers' channels | Fire, handle, Save, Prune, broadcast, Subscribe, LoadRecent | one press is reported twice; snapshots end out of order; stalled subscribers; restarts | debounce, a consistent history, fresh events, no blocked ring |
| HomeKit camera stream | hkcamera.go, hksrtp.go | pending setup, forwarder, cancel function, status | setup endpoints, start, suspend, resume, reconfigure, end | controllers interleave; one socket is shared by setup and forwarder | one reader, no leaked socket, an ended stream ends |
| gate controller | centsys.go, centsys_packets.go | session file, credentials, last status, observer, reload channel | Open (MQTT handshake), Run/follow, load, Reload, login | replies taken in arrival order, reconnects, three goroutines that take one reload token, racing logins | a new login is followed; status follows telemetry; an open that reports success was activated |
| HomeKit gate | hkgate.go | tile of the gate | setTarget, Update | optimistic status against telemetry | the tile ends at the gate's state |
| guest stream sessions | streamapi.go, streamsign.go, auditstore.go, guestwiring.go, guestsource.go | signing secret, throttle of the log, audit table | session, hls, record, prune | URLs outlive tokens; the row is written after the throttle is set; restarts | streams end with their TTL after a revocation; who watches is on record |
| WebRTC hub | hub.go | reader per stream, peer sessions | startReader, SetQuality, HandleOffer, HandleAnswer, dropSession | reaper against answer, quality switch against old reader | one reader feeds a stream, switches return, no session is left behind |
| WhatsApp link | whatsapp.go | client, QR code, pairing | watchQR, watchLogout, SendImage, Repair | the client is replaced under its users | status tells the truth, one client |
| air conditioners | gree.go, hkclimate.go | device key, address, cached state, last target | scan, bind, request, poll, Set | UDP losses and late answers without numbers, a stale key, poll against write | replies are one's own; a lost unit is found again; the tile settles at what the unit does |
| RTSP reader | rtsp.go | connection, CSeq, session | handshake, keepalive, read loop, reconnect | dead and hung peers, late answers, session timer | reconnects for ever, ends when cancelled |
| SIP and event attach | sip.go, eventattach.go, door.go, digest.go, snapshot.go | registrations, event streams | register, INVITE, subscribe, open, snapshot | expiry against refresh, a station that hangs or reboots, a listener that exits | a press reaches the bus, registration does not lapse |
| HomeKit server | homekit.go, hkbridge.go | server, pairings | run, dispatch, pairing check | restarts with live sessions | a bell reaches HomeKit once |
| audio transcoding | transcode.go | none | G.711 and resampling | boundaries | agrees with the standard |
| wiring and shutdown | main.go | everything | start, stop | order of Close calls | shutdown ends |
| web page, apps, deployment, docs | web/, apps/, deploy/, docs/ | user interface | callers of the API | - | not behaviour of the server |

`PROJECT.json` lists the same parts with their status, and under "hazards" what
in this code is hard to test, line by line, with the properties that cover it.

## 2. Modules

Every part down to SIP and event attach has a module but for the WhatsApp link; the
gate controller has two, one for its session and one, with the HomeKit gate, for its
telemetry, and so do the air conditioners, one for the protocol and one for the
accessory. A module's name is its component's; its actions have the names of the functions or of the steps within
them. One action is one critical section, or one step outside any that others
can notice; where a function takes its mutex twice it is several actions, and a
`pc` variable says where each goroutine stands. An operator under "A plausible
slip" is not part of the specification: it is a wrong form of the definition that
follows it, and the project records which property rejects it.

- `DemandPull` - what the stream hub promises, without counters, timers or
  goroutines. `StreamHub` implements it: `watching` is the camera of each
  request between acquire and release, `pulled` the cameras with a run, `shut`
  is `h.closed`.
- `GuestBook` - what guest access promises, without records, files, saves or codes:
  each guest has at most one pass, which nobody else has, and keeps it; whoever
  presents a pass is let in as the guest it was given to and as nobody else; a pass
  for visitors opens no door, a pass declared void opens none again, restarts
  included. `GuestAccess` implements it: `pass` is what reached a phone, `visitor`
  the holders whose record is a demo, `void` the reported revocations, `opening`
  the token that each request presented and the guest it opens a door for. So does
  `GuestStreams`.
- `StreamHub` - `Acquire`, `Release`, `IdleCallback`, `CloseBegin` and
  `StartLocked` are the sections of `h.mu`; `Serve...` the steps of a request;
  `PullHead`, `Dial`, `Write`, `SourceEnds`, `CloseMuxer` those of a pull.
  `closedChan` remembers which ready channels were closed. An identity of a run
  is used again when its pull has ended, so RunId bounds pulls alive, not pulls
  ever started.
- `HKLock` - an unlock is five steps (open, show, arm, the library's store of
  the target) and a relock callback two, because none of the SetValue calls is
  under the mutex. `StoreTarget` is the HAP library's doing, inferred from how
  the code relies on OnSetRemoteValue.
- `GuestAccess` - a store call is one step, since the mutex is held for all of
  it. `mem` and `disk` differ only after a failed save. `held` is what phones
  have, `acked` which revocations were reported done. The file is replaced by a
  rename, so a stop in the middle of a save leaves the old file or the new one.
- `Bell` - the goroutine of a ring goes fetching, recorded, saved, stored,
  casting, done; a broadcast holds the mutex over several steps (`cast`), during
  which subscribers still receive. Table, history and channels hold ring
  numbers. `Reading` is a clock reading taken before the mutex was.
- `HKStream` - the steps of the writes of each controller: three for a setup,
  four for a start, up to three for a stop, and Reconfigure is a stop and a start.
  Sockets and forwarders are identities that are used again when nothing refers
  to them.

- `GateLink` - `file`, `creds`, `reload` are the session file, the atomic pointer
  and whether the channel of one is full. A login is five steps (truncate, write,
  read back, store, leave a token), each follow has a `watcher`, the goroutine
  that takes a token to cancel it, and the one of the follow before may still be
  there as `leftover`. `done` is the follow's cancelled context.
- `GateTile` - `gate` and `frame` are the operator and one telemetry frame on its
  way; `Receive` is onMsg with decodeOverview and setStatus, whose call of
  onUpdate is the two steps `UpdateCurrent` and `UpdateTarget`, since the tile's
  characteristics are set one after the other and no lock covers them. A write is
  four steps as in `HKLock`. `guess` remembers what a write has set since the
  last update; no action reads it. Open is its outcome: the trigger was pulsed and
  the answer came, or was lost, or neither.
- `GuestStreams` extends `GuestAccess`: a guest authenticated there is given a URL.
  Its `StoreSteps` are the steps of GuestAccess but for the restart, which
  `StreamsRestart` joins with what the sessions lose. A session is begun, given its
  expiry by a clock that is read later, noted in the throttle, recorded, answered.
  `revokedAt`, `lag` (what a session that a revocation overtook took to its expiry)
  and `lost` only serve the properties.
- `GreeClient` - the key, the address and the mutex of greeClient, and the socket
  (`inbox`) with answers that are `late`. The mutex is held for a whole handshake
  or exchange but is free between the two; `own` tells the ensureKey of Status
  from that of request. `for`, whom a datagram was meant for, is read by the
  properties alone: neither the protocol nor the code knows it.
- `Climate` - GreeController's cache, the accessory's `lastTarget` and its tile; an
  update publishes in two halves, for which interleaving it stands. HomeKit's
  temperatures are ninths of a degree Celsius, which makes the conversions of
  both display units exact; the conversions are operators named after their
  functions. The exchange with the unit is one step, obeyed or not, answered or
  not: GreeClient says how it comes to its end. Answers carry no number, so that one
  which came too late for its request (`stray`) may be taken for another's: a
  command's for a status, which then reads as an online unit with every field zero
  (`Acknowledged`), or an old one for that of a command that was lost.
- `RTSPReader` - runRTSPReader and the camera, and whatever else ends the reading of
  a connection that works (`FrameFails`: a malformed message, or the track's write,
  which fails when that of one of its viewers does); `Hub` extends it with the runner
  that replaces readers, the requests that ask for it, and the sessions of
  browsers. An identity in Reader is used again when its goroutine has ended.
- `Station` - registerLoop and subscribeLoop against one door station, and a press of
  its button. Time is in seconds and passes in steps of `Second`; `left` is what is
  left of a wait or a deadline, and time does not pass a wait that is up.
  `station.named` is whether its INVITEs come from an address that the configuration
  names: handleInvite answers 404 to any other. `calm` and `press.due`, the ways that
  have to bring a press, only serve the properties.

How the modules stand to each other: `StreamHub` implements `DemandPull`;
`GuestAccess`, and with it `GuestStreams`, implements `GuestBook`;
`GuestStreams` composes GuestAccess with the sessions and their log, `Hub` the
readers with what replaces them. The others meet at one call each, named in their
comments: the bus of `Bell` is what `Station` fires at, `Climate` relies on
`GreeClient!OperationsEnd`, `GateTile` on a listener that `GateLink` keeps running.

The MC modules hold what TLC needs beside a module (a symmetry set, comments on
the instance); the cfg files give the constants. The Proofs modules extend their
components and hold nothing that the specifications use. Three of them are about two
components each (`GateProofs`: GateLink and GateTile; `AccessoryProofs`: HKLock and
Climate; `BellProofs`: Bell and Station, which fires at it), which is why the second
of each pair names its parts apart: `TileSpec`, `ClimateSpec`, `StationSpec`.

## 3. Runs

| run | bounds | result |
|---|---|---|
| streamhub | 1 camera, 2 requests, 2 pulls alive, 1 waiting callback, 1 muxer per pull | passes |
| hklock | 3 controllers, 4 timers | passes |
| guest | 2 guests, 2 tokens, 2 requests, 2 session handlers, 1 camera, TTL 1, retention 3, clock to 4, `MaxLag` 1, symmetry, constraint `WhoMeets` | passes |
| bell | 2 streams, 1 subscriber, 3 rings, clock to 3, debounce 2, fetch limit 1, history 2, channel 1 | passes |
| hkstream | 2 controllers, 4 sockets, 2 forwarders | passes |
| gate_link | 2 sessions, 2 logins | passes |
| gate_tile | 2 controllers | passes |
| gree | the poll and 1 user, 2 keys, 2 addresses, 1 loss, 1 delay, 1 change, 1 command | passes |
| climate | the poll, 1 web call (switch off or set Fahrenheit), 1 controller, 1 command lost or answer missed, which may come late, 1 change, 1 write | passes |
| climate_degrees | same | `SetPointInItsDegrees` is violated |
| hub | 2 readers, 2 requests, 1 session, 1 trouble, 2 switches | passes |
| station | a source that is named or not, steps of 5 s, grants of 10, 30 and 60 s, 2 troubles, 2 presses | passes |

Why the bounds are enough for the questions asked:

- Cameras of the hub share only `h.mu` and `h.closed`; the races are between
  requests, callbacks and pulls of one camera. Two requests give a viewer that
  arrives while another leaves, two pulls a new one beside a cancelled one. With
  one muxer per pull the channel is already swapped once, by the end of its
  connection. The safety invariants are proved without any of these bounds.
- The third controller of the lock is there because an arm, a secure and a stale
  callback can all meet. A fourth timer keeps an unlock from ever waiting for one.
- Guests share the store's file: another guest's save carries out what a failed one
  left. Two guests are therefore explored, but not everything at once: `WhoMeets`
  keeps two guests to the first instant and without sessions, one guest with two
  session handlers has the whole clock, and two requests of the public surface meet
  at the first instant. The store knows no time, so that the first instant shows all
  that two guests or two requests can do to it. Two tokens are a code traded, lost and
  traded again, or one for each guest; two handlers let an older session answer after
  a newer one; a clock of four leaves room for a session's lag, a revocation, the TTL
  after it and a prune; a lag of one is as long as the TTL. Without sessions, `MCGuestAccess.cfg` (2 guests, 3 tokens, no constraint)
  passes as well. Every property of this run is proved for all constants.
- Three rings overflow the history of two and a channel of one, and a clock of
  three has room for two rings of one stream and a restart. The proportions of
  the constants are those of the code: a debounce longer than a fetch, more
  rings than the history holds.
- Four sockets are two setups on their way, the pending one and the one of a live
  stream. Reuse of identities makes the number of setups and starts unbounded.
- Two logins that may yield two sessions let the older load store its creds last;
  the token, the watcher and the leftover are one each in the code. GateTile has
  no bound but the number of controllers; one of them is enough to be stuck.

- GreeClient: one loss, one delay and one change of the unit meet in every order
  with a poll and a command, and polls go on for ever. Two keys and two addresses
  are an old and a new one. Which way the firmware answers and whether its host is
  configured is open in Init.
- Climate: one writer beside the poll makes two refreshes overtake each other; one
  failed exchange is what the zero status needs, and one answer missed is what
  shifts answers by one from then on. The unit starts in Dry, in either
  display unit, so that the accessory's remembered target matters.
- Hub: startReader lets one switch run at a time, so that two readers and two
  requests are all that can meet. A session shares nothing with another.
- Station: 10 s is below the floor of refreshInterval, 30 s at it, 60 s above. A
  step of 5 s is the reconnect delay, and every other wait is a multiple of it.

Deadlock is checked in hklock, guest, hkstream, gate_link, gate_tile, gree and
climate. In streamhub, hub and station it is not: a program that was shut down
has nothing left to do. In bell it is not: clock and rings are bounded. A run lists
a `TypeOK` where it says something about a capacity; those of Bell, GreeClient, Hub
and Climate hold when added to the cfg.

### What the violation shows

- `SetPointInItsDegrees` (hkclimate.go:267-270): setTemp converts by the display
  unit of the cached status. Until the first poll, and after any failed one, that
  is the zero status, so that a set point goes in Celsius to a unit that counts in
  Fahrenheit. So does, until the next refresh, a change of the unit's display unit by
  /gree/set (gree.go:622, 762) or by an answer taken for the status.

### Disagreements to run by hand

Small configurations, each with one property that a comment or a document states
and that TLC finds violated (`tlc -config <cfg> <module>`):

- `MCHKLockSlam.cfg`, `NoSlam` (hklock.go:108-110): a callback that has fired settles
  the tile although a concurrent unlock has armed a new timer. `RelocksWhenQuiet`
  shows that the tile is right in the end.
- `MCGuestAccessCode.cfg`, `ConsumedBySuccess` (the guest access plan, line 18): a
  failed save uses the code up although the call answers with an error.
  `RefinesGuestBook` and `CodesAreOneTime` show that the disagreement between memory and
  file never yields a second token.
- `MCBellOrder.cfg`, `NewestFirst` (bell.go:254): history is in the order in which
  snapshots arrive. For one stream the order is right, see `LatestIsNewest`.
- `MCHKStreamReconfigure.cfg`, `ReconfigureRebuilds` (hkcamera.go:379-380): the stop
  within Reconfigure closes the socket that its start goes on to use.
- `MCGateTileStuck.cfg`, `TelemetryCorrectsTile` (hkgate.go:54): setStatus calls
  onUpdate only on a change. If the frame of the motion is handled before Open
  returns, or the trigger stops the gate, the guess stays on the tile until the
  gate next changes its state. `TileIsToldOrGuessed` says what is true instead.
- `MCGreeClientHeals.cfg`, `HealsByItself` (gree.go:219-220): a datagram left in the
  socket shifts every exchange after it by one. A bind's answer carries the MAC
  and is taken for the scan's; the scan's own answer is then read as the bind's,
  which fails for want of a key; and so on in every poll, if the unit answers each
  scan once. `Heals` states when it is true. Two callers can also undo each other's
  handshake for ever, since a failed request of either clears the key of both.
- `MCClimateOff.cfg`, `OffIsRead` (hkclimate.go:329-333: a timed-out exchange must not
  be published as the user switching the unit off): Status does not look whether an
  answer has columns (gree.go:523-536). The answer to a command that came after its
  request had timed out is taken for the next poll's status, online and zero, and
  published as off. `NoPhantomOff` says what is true instead.

Smaller ones met while modelling, each visible in the module:

- gree.go:461-463 says that a request whose key went stale "transparently re-runs
  the bind handshake once"; it is the next operation that does (`Reset`).
- workCtx drops a deadline, so the 9 s cap of hkclimate.go:310-313 does not bound a
  write (`GreeClient!GivesUp` is a browser's cancellation only).
- The accessory writes the swing as "swing_v", for which greeColumnFor has no
  column: every such write is refused (`Climate!SetRefused`).
- The reaper looks for an answer and drops in two steps; an answer in between is
  acknowledged for a connection that is then closed (`Hub!ReaperLooks`).
- eventattach.go:43-47 and 62-65 say that the heartbeat bounds reads. No read has a
  deadline: a station that hangs is waited for, and only TCP's keepalive notices
  one that is gone (`Station!PeerIsGone`).
- A SIP listener that exits is only logged while registration goes on
  (`Station!ListenerExits`); the event stream has to bring the presses then.
- Grants below 30 s lapse, by the floor of 15 s and a refresh that may take 10 s;
  after one failed refresh 60 s do as well, since the retry waits for 30 s.

## 4. Fairness

- Steps that a goroutine takes by itself (after a lock is free, a channel is
  closed, a timeout or deadline passed) are weakly fair: the Go scheduler runs
  runnable goroutines, timers fire, and the calls in between have deadlines
  (doors.Open, the snapshot, the mux wait).
- Nothing that a person or a device does is fair: nobody has to ring, read,
  write, connect or close.
- In StreamHub an upstream that works need not fail: only a cancelled
  connection must end. `ServeAcquire` is strongly fair because in the model, and
  not in the code, it may find no run identity free for a while.
- In GateLink the goroutines and a login's own steps are fair, restarts, the
  network and whoever logs in are not: a connection may hang, but not against its
  cancelled context (`done /\ ConnectFails`), since the dialler and paho take it.
- In GateTile a frame comes or is lost, and a report of where the gate is comes
  through when it is sent again and again, which follow's wake every few minutes
  and the operator's own reports see to. The gate need not move.
- In Bell the clock is not fair; only a ring's own goroutine is.
- In GreeClient a caller's steps are strongly fair: it waits for a mutex that others
  take again and again, and sync.Mutex starves nobody. The ticker runs and power
  comes back; the network owes nothing, and nobody has to give up.
- In Climate the poll runs and a call goes on; a call of the client ends by
  `GreeClient!OperationsEnd`.
- In Hub the readers' waits end (connects, requests and reads have deadlines),
  closing a connection ends its read, the camera comes back in the end (it fails
  finitely often), and a waiter gets runner.mu in its turn, which is the strong
  fairness. Keepalives and the camera's timer need none: `StreamStays` is about
  what they must not do.
- In Station time passes, goroutines run, what was sent on a connection that works
  arrives, the station is repaired, and TCP's keepalive gives up. A station that
  keeps challenging does accept in the end: the strong fairness of `Granted` and
  `Attaches`.

## 5. Proofs

All theorems hold for every value of the constants under the named assumptions
of the modules: nil values outside their sets, a finite set of requests for the
stream hub's counter, a camera and a reader to begin with, an audit retention of
more than two TTLs (60 days against an hour in the code), some key for the unit to
have, and a step of Station's clock that is no longer than the shortest wait.

- `StreamHubProofs`. `IInv` adds to the types: the counter equals the number of
  requests that hold the camera (`CountInv`); a current run is neither cancelled
  nor over, and a run alive and not cancelled is its camera's current one
  (`RunInv`); a request in the hub has a camera whose run is the one it read
  (`ViewInv`); after Close no camera has a run (`CloseInv`); each channel a run
  has left behind is closed (`ReadyInv`). The invariants of the run are not
  inductive alone: an idle callback is harmless only because a count of zero
  means that nobody holds the camera. `ImplementsDemandPull` maps every step to a
  step of DemandPull or a stutter, from the same invariant; the fairness of
  DemandPull is checked by TLC only.
- `AccessoryProofs`. For the lock, `UnsecuredIsOwned` rests on `OneLiveTimer`:
  cancelling stops just the pending timer, and there is no other.
  For the air conditioner, `ClimateInv` follows what was read: any status, cached or
  on its way to the cache, to the tile or from the unit, says "off" only if the unit
  was off at some time or an answer was taken for what it is not (`Known`, `StrayInv`,
  `Excused`); a caller that is about to publish "off", or to have it stored as
  written, holds such a status or has sent the command that switches off
  (`ShowsOff`). The tile's characteristics are published in halves by several
  callers, but each half comes from one such view, which gives `OffIsNeverMadeUp`,
  whatever /gree/set is called with.
  `ConversionsAgree` says that the conversions to and from the tile undo each other.
- `GuestProofs`. `StoreInv` says how far memory may be from the file (a code
  that is live in memory is live on disk; a code live on disk has no token there),
  `IssuedInv` that a token on its way or in a phone is in both, `AckedInv` that a
  reported revocation is in both. `CodesAreOneTime` follows because two tokens
  held for one guest would both be the one in memory. `RevocationsLast` is the
  action property, from the same invariant. `ImplementsGuestBook` maps every step to a
  step of GuestBook or a stutter. Beside that invariant it needs `BookInv`: no two
  guests have one token, in memory or on disk, so that who shows one is taken for its
  owner and nobody else; every token in the store was minted, so that the next is new; and a record is
  a demo in both places or in neither, so that what a failed save leaves behind
  never turns a visitor's pass into one that opens doors.
  `ImplementsGuestBookWithStreams` carries it over to `StreamSpec`.
  The second half is about `GuestStreams`, where `SessionInv` is inductive beside
  it: `RevokedInv` bounds by the revocation what sessions under way are about to
  give, not just the URLs that are out, and is where the window between the
  authentication and the expiry (streamapi.go:81-91) shows: a session in it when its
  guest is revoked adds to the TTL what it still takes (`lag`), so that the TTL alone,
  which no document promises, is not the bound; `RecordInv` and `AnswerInv` say that
  whatever the throttle noted, and whatever a URL or an answer rests on, has a row
  at most two TTLs old or one about to be written. Retention above two TTLs is
  what keeps the pruning from removing such a row. `StreamsEnd` and
  `WatchersStayOnRecord` follow, and the store's own promises, restated under
  `StreamSpec` (`GuestsStandWithStreams`, `RevocationsLastWithStreams`), since a
  session touches the store only by authenticating.
- `HKStreamProofs`. `StartInv` says that a forwarder whose reader is yet to start
  is the current one or was stopped already, so that its reader starts cancelled;
  without it `OneReader` is not inductive. `NoSocketLeak` needs little beside the
  types: a stop can only close sockets.
- `BellProofs`. `Debounced` compares every two rings, but Fire compares with
  `lastFire` only: `LastFireInv` says that no ring this process let through is
  after it. No assumption on the clock readings beyond their being integers is
  used, so the proof also covers readings staler than the model's.
  `LatestStaysNewest` needs the debounce and the time a fetch may take
  (`HistoryInv` joins `FireInv`, `ClockInv` and the types): a ring whose snapshot is
  still being fetched was rung no more than `FetchLimit` ago and the next of its
  stream comes `Debounce` after it at the earliest, so one stream never has two
  fetches under way that could overtake each other. After a restart the order is that of the rows, and the last
  entry of a stream is the one with the largest index (`MaxIndex`, by well-founded
  induction from the library). `FeedStaysFresh` uses two invariants of a broadcast:
  `CastInv`, that the subscribers yet to be offered a ring are behind by just that
  one, and `QueueInv`, that a queue is a suffix of what it was offered
  (`SuffixByIndex` restates suffixes by index). Neither uses how long the queues are.
  `RegistrationIsKept` is about `StationSpec`. `LeaseInv` bounds what a lease has
  left from below by what the loop has still to wait: a refresh that is due at half
  the grant, plus the ten seconds of an exchange, ends before a lease of thirty
  seconds or more does. Here time must not skip a wait, which is why the step
  of the clock is at most five seconds.
- `GreeProofs`. `WaitersKnowTheUnit` is not inductive: a scan begins when there is
  no key, and a request goes ahead when there is one, so the invariant has to say that
  whenever there is a key there is an address (`KeyHasAddr`). A reset clears
  both, and only under the mutex, so that it hits no waiter. `RepliesAreTheirOwn`
  rests on `OwnInv`: until an answer comes late there is at most one answer to a
  request in the socket, and the one it is for holds the mutex and waits for it; the
  answers of scans and binds that are left there are none a request's key reads.
- `GateProofs`. For GateLink, `NoLostWakeup` is inductive only with `OneTaker`:
  whoever takes the token is Run itself, the goroutine of the follow under way, which
  then cancels it, or that of the last one while Run sits out its backoff. The proof
  shows where the 5 s backoff carries weight: it keeps the goroutine of a failed
  follow from taking the token of the next one. For GateTile, `UpdateInv` ties an
  update under way to the current status; it rests on telemetry being handled one
  frame at a time.
- `HubProofs`. `OneReaderFeeds` is inductive with the types: no step of a reader or
  of the camera brings a reader back to life (`ReaderContinues`), and a switch
  starts one only once it has seen the runner's end. `NoSessionLeak` is inductive
  alone (`SessionsAlone`): the reaper and the drop hand over before they let go.

Liveness is beyond the prover, but what it rests on is not: that whatever is waited
for is there, or has somebody who will do it. Eight theorems say so for every value of
the constants (each formula was an invariant of a TLC run first); what they leave
to the runs is only that a step that can be taken is taken.

- `MutexComesBack` (GreeProofs), for `OperationsEnd`: who holds the client's mutex is in an
  exchange, which its deadlines end, and whoever is not in one does not hold it,
  whichever way the last exchange went.
- `NoPullIsForgotten` (StreamHubProofs), for `RefinesDemandPull`: a camera that is pulled
  and not watched has a timer armed or a callback under way (`UnwatchedIsTimed`).
  A callback that meets a viewer does nothing and arms nothing: the viewer's own
  release does. The count of viewers being right (`CountInv`) is what this rests on.
- `StreamsKeepAReader` (HubProofs), for `SwitchesReturn` and `StreamStays`: a switch that
  waits holds runner.mu and the reader it waits for was told to stop; between
  switches the runner's reader is alive (`ReaderIsAtHand`).
- `StreamsAreRead` (HKStreamProofs), for `ClosedStreamsEnd`: the current stream has a
  reader that was not told to stop or a start on its way to it, and the forwarders
  that were closed are those whose reader was told to stop (`CurrentIsRead`).
- `BroadcastsGoOn` (BellProofs), for `RingsGetThrough`: when b.mu is held over several
  steps, the broadcast that holds it has a next step, whatever its subscribers leave
  unread (`BroadcastGoesOn`, with `CastHolder`).
- `WakeupsAreTaken` (GateProofs), for `NewLoginIsFollowed`: `NoLostWakeup` says that there
  is a token; this one that there is also somebody to take it, since each
  follow's goroutine waits until it took one and then cancels (`FollowCanBeEnded`).
- `LoopsOutliveTrouble` (BellProofs), for `ListensAgain`: until the shutdown neither the
  registration loop nor the event loop ends, whatever an exchange comes to; each waits
  for at most its longest wait or has a connection, live only to a station that
  works (`LoopsGoOn`).
- `PressesAreOnTheirWay` (BellProofs), for `PressesAreHeard`: on each way that has to bring
  a press, until it was fired, there is an INVITE of a known source for a listener that
  listens, or an event on a stream that is read (`PressOnItsWay`). A listener that
  exits, a stream that ends or a lease that lapses takes from a press at most its own way.

Model-checked only: all liveness (`CloseReturns`, `RequestsAnswered`,
`RelocksWhenQuiet`, `RingsGetThrough`, `ClosedStreamsEnd`, the fairness half of
`RefinesDemandPull`, `NewLoginIsFollowed`, `StatusFollowsGate`, `OperationsEnd`, `Heals`,
`TileSettles`, `SwitchesReturn`, `StreamStays`, `ListensAgain`, `PressesAreHeard`), which is
beyond the prover. Every other property of a passing run is proved.

## 6. What is left out

- StreamHub: frames, timestamps and the HLS muxer's own errors, which end a
  connection like an upstream failure. A muxer closed while it answers answers
  at once (assumed of the library).
- GuestAccess: the audit log, labels, LastSeen and the listing; random ids and
  tokens are taken not to collide; a power loss that undoes a completed rename.
- Bell: the snapshot itself and the calls that read it, the WhatsApp send, which
  comes after everything modelled, HTTP encoding. `FetchLimit < Debounce`
  is the code's 5 s against 15 s; the history's order within one stream rests on
  it. A system clock that jumps is not modelled.
- HKStream: RTSP packets and SRTP, the choice of the sub-stream, failures before a
  socket is bound. A reader returns only when cancelled, as runRTSPReader
  reconnects for ever.
- StreamHub states no time: an idle callback that had fired before a short request
  got the mutex stops the pull right after that request, earlier than `idle` after
  the last request (streamhub.go:87-89). `DemandPull` allows it.
- GateLink: the `-centsys-login` command, a process of its own that writes the
  file without a Reload; that the backoff doubles. The file is written in place,
  so a stop between truncating and writing it loses the session; the model has
  that step. It also shows that two racing logins can leave the older session in
  memory and the newer one in the file (load reads and stores in two steps) until
  the next restart.
- GateTile: two telemetry connections whose callbacks overlap while one replaces
  the other; the packets' bytes, except for which state a frame stands for. A
  byte that is in no table reads as an open gate, the zero value of the map
  (`Decoded`), although decodeOverview's comment promises gateUnknown for a frame
  it cannot place; `StatusFollowsGate` is about frames without such bytes.
- GuestStreams: the signature (taken to be good), playlists, refused sessions and the
  rows of other actions. Of a guest's URLs and rows the last is kept, which is
  enough for properties that hold of the last. Rows that Log fails to write are in
  `lost`: `WatchersAreOnRecord` says nothing of their guests until the next row.
- GreeClient: other units on the LAN, which scan and reply filter out; the fields of
  a status; a datagram that no key decrypts. A unit that answers is taken to do so
  at once or late, not in between.
- Climate: louvre, display units and the extras of the unit; the display unit changes
  by /gree/set, not by the remote. An answer that came late is that of an earlier
  request of this code; no other datagram is taken for one.
- RTSPReader and Hub: RTP, the decoding of frames, digest; ICE, whose outcome is
  `ConnectionFails` or not. Frames of the new reader and browsers' decoders at a
  switch are not modelled either. One stream stands for all.
- Station: SIP headers, tags and dialogs, retransmissions; more than one station;
  doors.go's own calls. The bus's debounce is Bell's. No property says that a deaf
  listener or a source that is not known is noticed, since neither is: presses are
  then heard by the event stream or not at all.
- GateOpen, the handshake of Open over MQTT: its replies are taken off one channel
  whatever they answer (hazard centsys.go:395). It is the part of the plan that
  is still missing.
- whatsapp.go: what matters there (Repair against its users) turns on the library's
  own reconnects and callbacks, which are not in src/. homekit.go: pairings and the
  server are the HAP library's; main.go's shutdown closes the bell's store while
  the goroutines of SIP, events and rings, which it does not join, may still use
  it. transcode.go is arithmetic that its own tests cover.
- Everything else marked not_modelled in `PROJECT.json`.

## 7. Plan

Done, in the order of importance: `DemandPull` with `StreamHub`, `HKLock`,
`GuestBook` with `GuestAccess` and `GuestStreams`, `Bell`, `HKStream`, `GateLink`, `GateTile`,
`GreeClient`, `Climate`, `RTSPReader` with `Hub`, `Station`; the proofs of section 5.

To prove next: the safety under `TileSettles` and `StatusFollowsGate`, as for the
others: that whatever the tile shows and the unit or the gate does not do will be
published over, which needs the order of overlapping refreshes.
Type correctness of Climate is not to be had for every /gree/set: the handler
passes the numbers of the body on as they are, so a theorem would need a bound on
them that the code does not give; the invariants of section 5 do without it.

To model next: `GateOpen`, the handshake of Open over MQTT, with late replies, two
callers that share a client id, and the retry of the configuration version; then
Repair of WhatsApp and the order of main's shutdown. Runs that show a divergence
are few and small, and give way to a new component's run where one is needed.
