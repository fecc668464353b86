# A TLA+ model of the GENIVI navigation application

This directory keeps TLA+ models of the services in `src/src`, the TLC runs that
check them on small instances, and TLAPS proofs of the properties that matter
most. `PROJECT.json` maps every definition to the lines it models and lists the
runs, the mutants, the hazards and the theorems.

## The system

| part | state | operations | talks to |
|---|---|---|---|
| trip computer, `tripcomputer/` | totals and averages per trip, display values, last sample | Initialize, RefreshTripComputerInput, ResetTrip, getters | called by the fuel stop advisor |
| fuel stop advisor, `fuel-stop-advisor/` | two 16-bit rolling counters, fuel level, settings, route handle, warning flag | two timers (1 s, 5 s), D-Bus methods | polls the automotive message broker (AMB), asks the routing engine, signals the HMI |
| the same over CommonAPI, `fuel-stop-advisor-capi/` | the same | one timer (1 s) in the main loop; methods in the dispatch thread of CommonAPI | the same |
| GNSS service, `gnss-service/` | one batch buffer per sentence, stored position, time and satellites, callbacks | listener thread; init, destroy, register, deregister, get | receives UDP datagrams; linked into the positioning daemon |
| sensors service, `sensors-service/` | one batch buffer per sensor, stored values, callbacks | the same | the same |
| positioning daemon, `dead-reckoning/` | satellite system, update interval | D-Bus methods, callbacks of the libraries | GNSS and sensors services, HMI |
| log replayer server, `log-replayer-server/` | time of the last line | sends a datagram per line | all three UDP ports |
| AMB plugin, `genivilogreplayer/` | four vehicle properties | a receiver thread, a destructor; asynchronous reads by AMB | UDP, AMB |
| vehicle gateway, `vehicle-gateway/` | the OBD2 and GNSS devices, one GNSS line buffer | request/answer with the dongle, a reader thread that reconnects | UDP |
| HMI, `hmi/` | menus, route and map handles | QML and JavaScript over D-Bus | every service |

What is hard in it:

* **Counters and integer filters.** The trip computer has no floating point: it
  works with wrapping 16-bit counters, carried remainders and sums stored in 16
  bits; the advisor converts the time, a double, to 16 bits at every sample.
  Correct means: a wrap loses nothing, a filter does not drift, nothing
  divides by zero, and no figure is shown that does not belong to the trip.
* **Polling what others publish.** The advisor reads four values in four calls;
  the publisher moves between any two. Correct means that what was sampled is
  accounted for exactly once and what is shown together belongs together.
* **Failing and vanishing partners.** An exception in a D-Bus method is an error
  reply, one in a timer ends the process; a route may vanish while it is set.
  Correct means that the flag a client reads belongs to the settings and the
  route it reads with it, that a refused method does not leave another state for
  good, and that a lasting change of the situation is announced.
* **Batches over UDP.** The only framing is a countdown in each message.
  Correct means that nothing is handed over that was not sent in a row, and that
  the receiver recovers by itself.
* **Serial devices.** The dongle's answers carry no number, only the name of what
  was asked, and may be longer than the buffer; the GNSS receiver may send half a
  line, fail or disappear. Correct means
  that a value is never sent under another name, that an answer is no older than
  the timeouts explain, and that a whole sentence is passed on as it came.
* **One position out of several sentences.** Old logs give the position, the
  course and the accuracy in sentences of their own, merged into one record.
  Correct means that what is said to be valid was sent as valid, that merging
  loses nothing, and that a signalled client ends with what is stored.
* **Two threads and a library that can be shut down.** Correct means no callback
  after its deregistration, no thread left behind, and no waiting for ever.

## Modules

| module | models | state |
|---|---|---|
| `TripComputer` | `CTripComputer` | `basic` = `tripBasicData_t` of each trip, `shown` = the display fields of `trip_t`, `firstRefresh`, `last`; `alive` turns FALSE where the code evaluates `x % 0` |
| `FuelStopAdvisor` | `fuel-stop-advisor.cpp`, and the AMB and the routing engine as far as it sees them | contains the trip computer's state (`TC == INSTANCE TripComputer`); `sample` is how far `updateData` is, one action per blocking call |
| `TripMeter` | nothing in the code: the abstract specification of a trip computer for whoever feeds it | totals handed over and one reading per trip |
| `BatchBuffer` | the buffering that all nine `processGV...` functions repeat line by line (three for sensors, six for GNSS) | `buf`, `buf_size`, `last_countdown`, what was `delivered`, and the history `arrivals` |
| `SensorChannel` | a sender, the UDP socket and one batch buffer | a loss and a duplication are actions of the network |
| `FuelStopAdvisorCapi` | `fuel-stop-advisor-capi/fuel-stop-advisor.cpp`, where it differs from the D-Bus one | extends `FuelStopAdvisor`: methods between any two calls of `update_data`, the place between the refresh and the store of the level, no second timer |
| `NmeaParser` | `hnmea.cpp`: RMC, GGA, GSA and GST | none: operators on the record `GNS_DATA`, with `valid` and `valid_new` as sets of field names |
| `ObdDongle` | `obd2.cpp` and the ELM327 dongle on the serial line | `tty` what arrived and was not read, `pending` what the dongle has yet to say, `tmp` the beginning that `obd2_read` holds |
| `VehicleGateway` | `veh-gateway.cpp` and `gnss.cpp` | `main` and `reader` are the places of the two threads, `gnssBuffer` with what older sentences left in it, `gns_data` |
| `LogReplayer` | `log-replayer-server.cpp` | `replayedId` = `msgId`; `log` is the history of lines sent |
| `PositioningDaemon` | `enhanced-position.cpp`, `configuration.cpp`, `main.cpp` and the six handlers of `gnss-use-replayer.c`, `gnss-impl.c` | `main`, `listener` the places of the threads, `held` the messages of each sentence's buffer, `stored` the three cells, `announced`/`pending`/`view` the client |
| `AmbPlugin` | `genivilogreplayerplugin.cpp` | `thread`, `statusRunning`, `msgId`, `value` |
| `SensorService` | one sentence of a GNSS or sensor library: listener thread, client, socket, locks | composes the batch buffer; one action per step another thread can see |
| `MC...` | values of the constants for TLC | |
| `TripComputerProofs`, `BatchBufferProofs`, `SensorChannelProofs`, `SensorServiceProofs`, `FuelStopAdvisorProofs`, `PositioningProofs`, `VehicleGatewayProofs`, `VehicleGatewaySentences` | theorems about the module of that name (`PositioningProofs`: `PositioningDaemon` and `MCPositioning`; `VehicleGatewaySentences`: `NmeaParser` and the receiver's half of `VehicleGateway`) | |

`FuelStopAdvisor` composes the trip computer and is shown to implement
`TripMeter` (`ImplementsTripMeter`): `total` is mapped to the history `fed` of
what was sampled, the readings to the trip totals. `SensorChannel` and
`SensorService` compose `BatchBuffer` with its environment. `MCFuelStopAdvisor`
runs the advisor over either binding: `binding` is chosen initially and never
changes. `VehicleGateway` composes the dongle and the parser. `MCPositioning`
composes the log replayer with its receivers: `receiver` says, for a whole
behaviour, whether the port that is read is that of the positioning daemon or
that of the AMB plugin, or whether only properties are set; the receivers share
nothing, so that no behaviour of one is lost by it. The plugin reads four
properties (`PluginMessages`); two of them also come in frames of the vehicle
gateway (`GatewayMessages`).

### Abstractions

* Times are in ms and distances in cm, as integers. The stamps of the AMB, doubles
  in seconds, are taken at whole milliseconds, and its clock does not go back; what
  the advisor makes of them is not: `(time-lastTime)*1000` lies at or next to a
  whole number, and the conversion to 16 bits may cut a millisecond off
  (`TimeSums`; 0.3 - 0.2 gives 99). What is out of 16 bits is undefined: the low
  bits, 0 or 65535 (`Converted`).
* The fuel of a refresh is exact (`FuelBurnt`). The code computes the two products
  in an `int`, which may overflow for a rate above 32767 microlitres a second,
  118 litres an hour, with the longest time step; such rates are not in the runs,
  and what the theorems say of the trips with them is not said of the code.
* A route is the sequence of litres its segments need, in place of distances and
  speeds: the advisor only uses the product.
* A sensor message is its countdown and an identity. A datagram also says
  whether it has the name of this sentence and whether it parses.
* `last` starts as zeroes where the code leaves it unassigned: it is not read
  before it is set. `m_fuelLevel` is read before it is set, so it starts with any
  value of `UnsetLevels`.
* An NMEA field is a letter, a number or empty, and a sentence may be cut after any
  field; coordinates are whole numbers, so that the conversions of degrees and of
  units are the identity up to scale. The shift of hexadecimal CAN data, `atoi` of
  the dongle's digits (which stops at the first letter) and the missing character
  of the fuel level are as in the code.
* Of a position only the datagram that gave each group of values is kept, with the
  set of values that are valid. What GetPositionInfo tells of a value is therefore
  which datagram it came from.
* `PositioningDaemon` holds a batch as a sequence of messages: the slots are the
  business of `BatchBuffer`, the socket and its failures that of `SensorService`.
* An answer of the dongle is whole, in two parts, an error text, or longer than the
  512 characters `obd2_read` and `can_read` have room for (`AnswerLong`); what is left
  of that one on the line may look like anything. The one character that is
  written past the buffer before the code notices is left out.
* A read of the GNSS receiver that returns -1 is taken for a line (`ReadErrs`): the line
  before is parsed again, and after an RMC sentence the copy of -1 characters ends
  the process ("overrun"). The terminator written before the buffer is left out, and
  a buffer that holds nothing yet is taken for a line of no sentence.
* The GNSS thread of the gateway may not start, which `gnss_init` does not look at
  (`gnss.cpp:256`): main goes on without it. `gnss_stop` then joins a thread that was
  never created, which is undefined: in the model such a join returns or the process
  is in any state ("undefined").
* The service's and the daemon's `gnssInit` may fail (`GnssInitFails`, `gnssInitFails`),
  and so may the plugin's `recvfrom`, which ends its thread (`ReceiveFails`). The
  return values of `close` and of the locks are not looked at, here as in the code.
* A signal that comes before the dispatcher of the positioning daemon is entered is
  not modelled; neither are the settings of the serial ports.
* Signals that carry no data (`TripDataUpdated`, `TripDataResetted`) and logging
  are left out.
* Undefined behaviour is a choice: `countdown` after a failed `sscanf` is any
  value, `msgId` of a new listener thread may be the one an earlier thread left
  on the same stack, and `select` waits on a descriptor set that was never cleared.
* `GET_UNDEFINED_VALUE` (`ctripcomputer.h:36`) converts 2^32 - 1 to 16 bits, which
  C++ leaves undefined: 65535 in an optimised build, 0 in an unoptimised one. The
  constant `UNDEFINED` is either of them in the theorems and 65535 in the runs.
  **With 0 a counter that wraps gives one unit too many**, a centimetre or a
  millisecond: `ImplementsTripMeter` allows a trip meter that much (`Excess`) in such
  a build, and nothing in the other.

## Runs

| run | config | expects | question |
|---|---|---|---|
| `trip_computer` | `TripComputer.cfg` | pass | widths, division by trip time, what is shown when, both filters |
| `trip_computer_idle` | `TripComputerIdle.cfg` | violation | does a standing car with a running engine stop the service? |
| `advisor_meter` | `AdvisorMeter.cfg` | pass | is the advisor a trip meter of what it samples, to the centimetre and to a millisecond a sample? |
| `advisor_warning` | `AdvisorWarning.cfg` | pass | does the warning follow fuel, route and settings, also after a refusal? |
| `advisor_distance` | `AdvisorDistance.cfg` | violation | is a trip ever longer than what was driven? |
| `advisor_level` | `AdvisorLevel.cfg` | violation | is the fuel level told in the unit the interface promises? |
| `vehicle_gateway` | `VehicleGateway.cfg` | pass | late answers, cut sentences, a vanished receiver, signals |
| `positioning_daemon` | `Positioning.cfg` | pass | merged sentences, PositionUpdate against GetPositionInfo, shutdown of both receivers |
| `batch_buffer` | `BatchBuffer.cfg` | pass | the buffer against any sequence of messages |
| `sensor_channel` | `SensorChannel.cfg` | pass | what a lost or duplicated datagram costs |
| `sensor_service` | `SensorService.cfg` | pass | threads, locks, two lives of a service |
| `gnss_shutdown` | `GnssShutdown.cfg` | violation | was everything handed over parsed from a datagram? |

Bounds, and why they are enough:

* `trip_computer`: four samples out of twelve. The first sets the reference; one
  step of 41000 passes the 400 m threshold, steps back to 0 wrap, equal values
  stand still, zero consumption coasts; resets are unbounded. A second refresh
  past the threshold exercises every remainder.
* `advisor_meter`: steps of 41000 wrap the counters every other sample, and a gap of
  70000 ms is one that a 16-bit counter cannot tell; four publications and three
  samples put a publication between any two of the calls of one sample.
* `advisor_warning`: two levels, two thresholds, one route of two segments that
  leaves some of the higher level and empties the lower one in its second
  segment. The methods are unbounded; two publications and two samples.
* `batch_buffer`: six messages into three slots, countdowns from 0 to the size
  itself, so there is room for two interrupted batches or for two whole ones.
* `sensor_channel`: four batches and two faults, so two faults can hit one batch,
  neighbouring batches, or batches apart.
* `sensor_service`: two lives, two callbacks, three datagrams in batches of at
  most two, countdowns up to one too many: one whole batch and one started, with
  a restart anywhere.

* `advisor_meter` and `advisor_warning` run both bindings with the same bounds.
* `vehicle_gateway`: up to two lines of the receiver, each any of a whole RMC sentence
  with or without a fix, one without any value, one cut after one, two or four
  fields, one with a wrong checksum, and the other sentence types; `MaxEvents` bounds
  what the environment does of itself (a line, a pause, an error text, a failing
  call, a frame, a signal), late answers are not bounded by it. Three turns of the
  main loop let an answer be late by a whole turn. Attempts to reopen: two, the code has 15;
  the properties depend on there being a last one.
* `positioning_daemon`: logs of three lines, which are a batch of two with one
  sentence in between, or three kinds of sentences merged; a buffer of two slots,
  so that a countdown can be too large for it. A line that gives no position comes
  first in its log, where it can leave its name or take another cell; one datagram
  waits at a time.

What the violations show:

* `trip_computer_idle`: `RefreshTripComputerInput` divides by the distance step.
  Once a trip is past 400 m and has burnt fuel, the first sample without
  movement ends the process.
* `advisor_distance`: the odometer property is a step, published by the plugin
  and polled by the advisor at its own pace. The run needs no failure, only two
  polls between two publications.
* `advisor_level`: `GetInstantData` returns the litres of the broker as `FUEL_LEVEL`,
  which `FuelStopAdvisor.fidl:122` and `fuel-stop-advisor.xml:58` promise in tenths of
  litres. `TankDistanceUsesShownLevel` therefore compares amounts, not numbers.
* `gnss_shutdown`: `gnssDestroy` wakes the listener with an empty datagram. The
  name of the last sentence is still in `msgId`, nothing is parsed, the unchecked
  `sscanf` leaves an uninitialised countdown, and a zeroed position may be stored
  and handed to the clients. The positioning daemon deregisters its callbacks
  before it destroys the service, which spares it the callback.

Other disagreements met while modelling, which are in the models as the code has
them and which no run is spent on:

* A sensor message that does not continue its batch clears the buffer, and the next one
  of the same batch starts a sequence of its own: what is left of a batch that lost a
  datagram is handed over as a batch. `FaultAltersAtMostOne` counts such batches.
* `hnmea.h:87` says of `fix3d` that "fix2d will be set also"; a GSA sentence with a 3D
  fix followed by an RMC sentence with status V leaves `fix3d` 1 and `fix2d` 0.
* An RMC sentence without a fix but with the letters S or W negates the stored
  position (`hnmea.cpp:211`, `:239`). Nothing in the gateway reads that record.
* `veh-gateway.cpp:340` says that the end of the string is added in the GNSS code,
  which does not do it for the shared buffer. `WholeSentenceSentAsReceived` shows that a
  whole sentence does not suffer; a cut one is sent with the rest of an older one.
* `veh-gateway.cpp:113` compares the hemisphere letters by address: every position is
  sent as northern and eastern.
* `obd2.cpp:301` gives the engine speed as ((A*256)+B)/4, the code applies `atoi` to
  hexadecimal digits.
* A frame of the gateway repeats the timestamp where a log line of the same message
  has its value, so that the AMB plugin takes the timestamp for the value.
* `configuration.cpp:134` tests the GPS bit before it activates BeiDou.
* PositionUpdate announces dilutions and used satellites that GetPositionInfo
  never gives, and after a batch values of its earlier messages.
* GVGNSC and GVGNSAC overwrite every value of their group while the validity bits
  are only added to: a heading stays valid when a message without one replaced it by 0.
  `ValidWasSentValid` therefore speaks of the place and the systems.
* Over CommonAPI nothing recomputes the warning when the fuel changes, an invalid trip
  number is thrown into CommonAPI's dispatch thread, and a client may read a tank
  distance with the fuel level of the sample before (`TankDistanceUsesShownLevel`
  excepts exactly that moment).

## Fairness

* `MCFuelStopAdvisor!MCFairSpec`: a sample that was started goes on (weak fairness of
  `Sampling`), because its calls are blocking and nothing else runs meanwhile. The
  five second timer is strongly fair: samples and methods disable it again and
  again while they run, but the GLib main loop dispatches a source that is due.
  Over CommonAPI only `update_data` is fair: `WarningCatchesUp` is about D-Bus.
  Methods, broker and routing engine have no fairness.
* `SensorService!FairSpec`: both threads are scheduled (weak fairness of a started
  `gnssDestroy` and of the listener), which also says that a callback returns.
  The callbacks in `enhanced-position.cpp` only log and signal. No datagram is
  ever owed: `DestroyReturns` holds although none may come.
* `MCVehicleGateway!FairSpec`: both threads go on. A read ends with an answer or with its
  timeout, and an attempt to reopen ends either way, so that no answer, line or
  receiver is owed. `ShutdownCompletes` needs no more.
* `MCPositioning!FairSpec`: the listener, the main thread and the plugin's thread go on;
  `select` returns after a second. The plugin's `recvfrom` has no timeout, and no
  datagram is owed: `DestructorReturnsOnDatagram` says that the destructor waits for
  one, and for nothing else.

## Theorems

Checked by `tlapm`, for every value of the constants that their named assumptions
allow. In each module the theorem `InvariantHolds` states the inductive invariant
`IInv` (`SentenceInvHolds` and `SentenceInv` in the last), and the properties follow from it. Every `IInv` was also checked by TLC
on the instances of the runs.

* `TripComputerProofs`: `TypeCorrect`, `SpeedIsDefined`, `ThresholdRespected`,
  `AveragesFilter`. The inductive invariant is the conjunction of type, "fuel
  takes time" and "shown after the threshold": each is inductive with the types.
  The interesting lemmas are that no fuel is burnt in no time, and that one
  step of the integer filter with a carried remainder stays between the old
  average and the input as long as neither exceeds 727 (90 * 727 + 89 fits 16
  bits); the proof of `AveragesFilter` uses the type invariant for the remainders.
* `BatchBufferProofs`: `TypeCorrect`, `DeliveryIsConsecutive`, `CompleteDelivery`.
  Neither property is inductive. `IInv` adds that what is held is a run of
  consecutive arrivals counting down (`HeldIsConsecutive`), that the buffer is
  empty after any message with countdown 0 (`EmptyAtBoundary`), and that the
  beginning of any batch after a boundary is held (`BeginningIsHeld`), which is
  what carries a complete batch through to its delivery.
* `SensorChannelProofs`: `AltersAtMostOne` and `SpoilsAtMostTwo`, what a lost or
  duplicated datagram costs, for batches of any sizes and any number of faults,
  with `TypeCorrect` and `ImplementsBuffer`. Both properties count, and neither is
  inductive: a fault costs nothing yet when it happens. `Accounts` says what it
  will cost. At most the first datagram on the network is there several times (k
  more than it was sent), and the rest are in the order they were sent (`Chain(k)`).
  The batches altered so far, one if the buffer does not hold the beginning of the
  batch of the last message (`Dirty`), one if the next datagram does not follow the
  last (`Gap`) and the k duplicates are at most the faults (`AlterBudget`). The
  batches that cannot arrive any more, and one if the batch of the next datagram
  cannot either (`Doomed`), are at most twice the faults (`SpoilBudget`). Every
  action of the sender leaves both accounts, a fault pays one or two in, and what
  the receiver does only moves what was expected into what happened. The buffer's
  own `IInv` is part of the invariant.
* `SensorServiceProofs`: `TypeCorrect`, `DeregisteredIsNotCalled`,
  `CallbackReadsWhatItGets`, `DestroyLeavesNothing`. `IInv` relates the place of the
  listener to the socket, the flag of its loop and the lives of the service
  (`LifeInv`), to the batch in its hands (`BatchInv`) and to the callback it calls
  (`CallbackInv`). `ImplementsBuffer` shows the refinement: every step of the service
  is a step of `BatchBuffer` or leaves its variables alone, so that
  `ServiceDeliversRuns` and `ServiceDeliversWholeBatches` follow from
  `BatchBufferProofs`, for what a service hands over across its lives.
* `FuelStopAdvisorProofs`: `TypeCorrect`, `LevelIsTheOneUsed`, `LevelIsNeverUnassigned`,
  `FlagIsOfTheseSettings` and the refinement `TripsAreMeters` (`MCSpec => ImplementsTripMeter`),
  for both bindings at once: the proofs take the steps of either in any order. `IInv`
  orders the broker's clock, the sample and the counters (`TimesOrdered`), says what
  is shown between the refresh and the store (`StoreAgrees`), which levels can be
  stored (`LevelsSampled`), and of which settings and route the flag is as long as no
  method was refused, and has the trip computer's invariant in it (the lemmas at
  the beginning of the module carry it over from `TripComputerProofs`). For the
  refinement `MeterInv` adds that the two rolling counters, modulo their wraps, hold
  what was sampled and not yet refreshed. `TripsAreMeters` excludes no build, no gap
  and no step: what `TripMeter` promises says it all. A step below 65535 reaches the
  trips exactly, but for the millisecond the conversion of a time may lose and, in a
  build where `UNDEFINED` is 0, the unit a wrap adds; a longer one counts for less.
* `PositioningProofs`: `TypeCorrect`, `ValidIsAsSent`, `UpdateIsComplete`,
  `ClientIsUpToDate`, and the action property `MergingRetainsOthers`. `IInv` follows a
  value from its datagram over the messages held, the complete batch and the stored
  position (`SourcesKnown`, `PositionsDeclared`). A merged position is only right as
  long as nothing else stores in between: `StoreRetains` says that of the batch the
  listener is about to store, `BatchIsStored` of the one it signals; `ClientKnows` says
  that what the client has not seen is still going to be signalled. It uses
  `DeclaredAssumption`, that the old sentences declare no other values than their own.
* `VehicleGatewayProofs`: `TypeCorrect`, `SentenceIsSentOnce`, `ValueIsOfItsQuestion`,
  `ValueIsRecent`. The dongle's answers carry no number, so `IInv` numbers them: what
  is on the line is labelled with the question it answers, even ones for the speed
  and odd ones for the level (`PiecesLabelled`), which holds because the two are asked
  in turns (`AskedInTurns`), is in the order of the questions (`InOrder`), and is no
  older than the readings that were given up allow (`PiecesRecent`). A sentence is sent once
  because the flag is only set when one is taken and cleared when it is sent
  (`LinesCounted`).
* `VehicleGatewaySentences`, on top of the former: the action property
  `ParserMovesOnlyWithFix`, and `WholeSentenceIsSentAsReceived` and `WholeSentenceIsSafe`
  with their inductive invariant `SentenceInvHolds`. The parsers and `strtok` are loops
  over the fields of a sentence, which the model has as recursive functions.
  `Induction` and `OverTurns` get induction over the turns of a loop from the
  least-element principle of the natural numbers, which the library states for sets,
  and `LoopRuns` shows that such a function has the values its definition says.
  - The parser: a turn keeps the types and changes the magnitude of the stored
    latitude and longitude only if the record says that a fix was reported in this
    sentence. RMC reads its status before its position. GGA reads the position first
    and holds it in local variables up to the fix indicator: that is the lemma about
    its sixth field, and no later field takes the fix back.
  - `strtok`: what it finds keeps the order of the fields (`StrtokKeepsOrder`), only grows
    (`StrtokGrows`), and while no field is empty each is found in its own place
    (`StrtokPrefix`). A complete sentence with a fix has its first five fields filled, one
    without has no second letter A where the status is looked for
    (`WholeSentenceReadable`); a longer, older sentence only leaves something behind the
    end (`CopiedReadable`). `InBuffer` says that the buffer is readable in this sense
    whenever the sentence published last is whole, `ReadableIsRead` what main makes of it.

They rest on the named assumptions of the modules, each evaluated by TLC in the runs
(the widths and signs of constants in the main). Those that say something of what comes
from outside are `DeclaredAssumption`, the types of the lines a receiver writes
(`VehicleGatewayAssumption`) and `ReceiverAssumption`: an RMC sentence of the full number
of fields has a status, with a fix also a time, a latitude, its hemisphere and a
longitude, and without a fix no letter A before the mode. NMEA receivers do so, and
a sentence that does not is cut or damaged: the two properties of a whole sentence say
nothing of it, and the code crashes on some (`get_geolocation`).

Only model-checked, and why:

* Liveness (`WarningCatchesUp`, `RefusalHasConsequences`, `DestroyReturns`, `ShutdownCompletes`, `ShutdownReturns`,
  `DestructorReturnsOnDatagram`): fairness is outside TLAPS's reach here.

Every safety invariant and every action property of the passing runs is a theorem.

## Not modelled, and the plan

* HMI (QML, JavaScript, `hmi-launcher`): layout, and wrappers that build the D-Bus
  arguments of one method each. Its stored handles are those the routing engine and
  the map viewer gave it; both are outside the repository, and so is the life of a handle.
* The start of a single sensor (`iVehicleSpeedInit` and its like): it forgets the callback,
  as its destroy does, which is modelled (`VehicleSpeedDestroy`), and marks the stored
  value invalid; no program in the repository calls it.
* The time and status callbacks of the GNSS library, which nobody registers.
* AMB itself, and when it reads the values whose addresses the plugin gives it.
* Styles, translations, generated D-Bus glue, the layer manager control, the wording
  of messages and the test panels: they hold no state whose order matters.

Nothing is left of the plan: the models are complete as far as the list above says, and
what the runs check of safety is proved. What could follow is liveness, with a prover
that reasons about fairness, and the unmodelled callbacks of the GNSS library once a
program registers them.
