--------------------------- MODULE FuelStopAdvisor ---------------------------
(***************************************************************************)
(* The fuel stop advisor service (src/src/fuel-stop-advisor).  One main    *)
(* loop runs two timers and the D-Bus methods, one at a time:              *)
(*   - updateData, every second, polls the automotive message broker (AMB) *)
(*     with four blocking calls, turns what it read into 16-bit rolling    *)
(*     counters and refreshes the trip computer;                           *)
(*   - updateEnhancedDistance, every five seconds and after each change of *)
(*     the settings or of the route, decides whether the fuel left after   *)
(*     the route is below the threshold and signals the outcome.           *)
(* The AMB and the routing engine are other processes: they move between   *)
(* any two of these calls, and a call to them may throw.  An exception in  *)
(* a timer ends the process; in a D-Bus method it becomes an error reply,  *)
(* and what the method assigned before stays assigned.                     *)
(***************************************************************************)
EXTENDS Integers, SequencesExt

CONSTANTS
  Levels,        \* fuel levels the AMB may publish, in litres
  Rates,         \* consumptions the AMB may publish, in microlitres per second
  Odometers,     \* distance steps the AMB may publish, in cm
  Clocks,        \* ms between two odometer publications
  Thresholds,    \* distance thresholds a client may set, in km
  Handles,       \* route handles the routing engine gives out
  Segments,      \* [Handles -> sequence of litres each segment needs]
  UnsetLevels,   \* what the unassigned m_fuelLevel may hold at start
  MaxPublished,  \* bound: number of AMB publications
  MaxRefreshes,  \* bound: number of refreshes of the trip computer
  UNDEFINED,     \* GET_UNDEFINED_VALUE on 16 bits, as the build computes it
  UNDEFINED32    \* the same on 32 bits

NO_ROUTE == 0 \* the value of m_routeHandle when no route is set

ASSUME FuelStopAdvisorAssumption ==
  /\ Levels \subseteq Nat /\ Rates \subseteq Nat /\ Odometers \subseteq Nat
  /\ Clocks \subseteq Nat /\ UnsetLevels \subseteq Nat
  /\ Thresholds \subseteq 0 .. 255
  /\ Handles \subseteq Nat \ {NO_ROUTE}
  /\ DOMAIN Segments = Handles
  /\ MaxPublished \in Nat /\ MaxRefreshes \in Nat
  /\ UNDEFINED \in {0, 65535} /\ UNDEFINED32 \in Nat

VARIABLES
  basic, shown, firstRefresh, last, alive, refreshes, \* the trip computer
  sample,          \* progress of updateData and its local variables
  initFlag, lastTime, timeCounter, distanceCounter,
  fuelLevel,       \* m_fuelLevel
  advisorMode, distanceThreshold, destinationCantBeReached,
  routeHandle,     \* m_routeHandle
  warning,         \* last FuelStopAdvisorWarning a client received
  judged,          \* history: threshold and route of the last assessment
  refused,         \* history: a method was answered with an error since then
  amb,             \* what the AMB would answer now
  routes,          \* handles the routing engine still knows
  published,       \* number of AMB publications, for the bound
  driven,          \* history: sum of the distance steps the AMB published
  fed              \* history: [time, distance] the advisor sampled so far

tripVars     == <<basic, shown, firstRefresh, last, alive, refreshes>>
counterVars  == <<initFlag, lastTime, timeCounter, distanceCounter>>
advisorVars  == <<advisorMode, distanceThreshold, destinationCantBeReached,
                  routeHandle, warning, judged, refused>>
externalVars == <<amb, routes, published, driven>>
vars == <<tripVars, counterVars, advisorVars, externalVars, sample, fuelLevel, fed>>

TC == INSTANCE TripComputer WITH Inputs <- {}

(***************************************************************************)
(* updateData.                                                             *)
(***************************************************************************)
Idle == [stage |-> "idle", level |-> 0, time |-> 0, dt |-> 0, dd |-> 0]

\* Mutant: no wrap at all.
RollingAddUnbounded(counter, step) == counter + step

\* Mutant: the wrap of the 16-bit type, one more than the other side assumes.
RollingAddModulo(counter, step) == TC!U16(counter + step)

\* The counters wrap at 65535, the value the trip computer assumes.
RollingAdd(counter, step) ==
  TC!U16(IF counter + step > TC!USHRT_MAX
         THEN (counter + step) - TC!USHRT_MAX
         ELSE counter + step)

\* A double assigned to 16 bits.  Out of their range the outcome is undefined:
\* the low bits, as converted by way of a wider integer, or an end of the range.
Converted(v) == IF v <= TC!USHRT_MAX THEN {v} ELSE {TC!U16(v), 0, TC!USHRT_MAX}

\* The same addition with the step in seconds, as a double.  The difference of
\* two time stamps times 1000 lies at or next to the whole number of ms it
\* stands for: below it, the conversion cuts a millisecond off, and at 65535
\* the comparison may go either way.
TimeSums(counter, step) ==
  LET sum == counter + step
      max == TC!USHRT_MAX
  IN  CASE step = 0              -> {counter}
        [] step > 0 /\ sum < max -> {sum - 1, sum}
        [] step > 0 /\ sum = max -> {sum - 1, sum, 0}
        [] step > 0 /\ sum > max -> Converted(sum - max - 1) \cup Converted(sum - max)

SampleLevel ==
  /\ alive
  /\ sample.stage = "idle"
  /\ refreshes < MaxRefreshes
  /\ sample' = [Idle EXCEPT !.stage = "time", !.level = amb.level]
  /\ UNCHANGED <<tripVars, counterVars, advisorVars, externalVars, fuelLevel, fed>>

SampleTime ==
  /\ alive
  /\ sample.stage = "time"
  /\ sample' = [sample EXCEPT !.stage = "odometer", !.time = amb.time]
  /\ UNCHANGED <<tripVars, counterVars, advisorVars, externalVars, fuelLevel, fed>>

\* Until the AMB has a time, the counters stay at zero.
StartCounters ==
  /\ initFlag
  /\ initFlag' = (sample.time = 0)
  /\ lastTime' = IF sample.time = 0 THEN lastTime ELSE sample.time
  /\ timeCounter' = 0
  /\ distanceCounter' = 0
  /\ sample' = [sample EXCEPT !.stage = "consumption"]

AdvanceCounters ==
  /\ ~initFlag
  /\ timeCounter' \in TimeSums(timeCounter, sample.time - lastTime)
  /\ lastTime' = sample.time
  /\ distanceCounter' = RollingAdd(distanceCounter, amb.odometer)
  /\ sample' = [sample EXCEPT !.stage = "consumption",
                              !.dt = sample.time - lastTime, !.dd = amb.odometer]
  /\ UNCHANGED initFlag

SampleOdometer ==
  /\ alive
  /\ sample.stage = "odometer"
  /\ StartCounters \/ AdvanceCounters
  /\ UNCHANGED <<tripVars, advisorVars, externalVars, fuelLevel, fed>>

\* Mutant: the broker is asked again.
StoreLevelAnew == fuelLevel' = amb.level

\* Mutant: the level is kept only when the car moved.
StoreLevelWhenMoving == fuelLevel' = IF sample.dd > 0 THEN sample.level ELSE fuelLevel

\* The level is kept for the advisor, "to avoid re-ask it to amb".
StoreLevel == fuelLevel' = sample.level

RefreshTrips ==
  /\ sample.stage = "consumption"
  /\ TC!RefreshTripComputerInput(
       [fuelLevel       |-> TC!U16(sample.level * 10),
        time            |-> timeCounter,
        distance        |-> distanceCounter,
        fuelConsumption |-> TC!U16(amb.consumption)])
  /\ fed' = IF alive' THEN [time     |-> fed.time + sample.dt,
                            distance |-> fed.distance + sample.dd]
                      ELSE fed

SampleConsumption ==
  /\ RefreshTrips
  /\ IF alive' THEN StoreLevel ELSE UNCHANGED fuelLevel
  /\ sample' = Idle
  /\ UNCHANGED <<counterVars, advisorVars, externalVars>>

\* Any of the four calls to the AMB throws out of the timer callback.
SampleFails ==
  /\ alive
  /\ sample.stage # "idle"
  /\ alive' = FALSE
  /\ UNCHANGED <<basic, shown, firstRefresh, last, refreshes, counterVars,
                 advisorVars, externalVars, sample, fuelLevel, fed>>

(***************************************************************************)
(* updateEnhancedDistance and the methods that end with it.                *)
(***************************************************************************)

\* One segment: the last one the fuel allows for empties the tank exactly,
\* those after it make the level negative.
Drive(level, need) == IF need > level /\ level > 0 THEN 0 ELSE level - need

LevelAfterRoute(level, handle) ==
  IF handle \in routes THEN FoldLeft(Drive, level, Segments[handle]) ELSE level

\* 6.3 litres per 100 km, against a threshold in km.
TooShort(level, threshold) == level * 1000 < threshold * 63

Reachable(handle) == handle = NO_ROUTE \/ handle \in routes

\* The flag is signalled, an assessment of the settings and the route as they
\* are now.
Announce ==
  /\ warning' = destinationCantBeReached'
  /\ judged' = [threshold |-> distanceThreshold', route |-> routeHandle']
  /\ refused' = FALSE

\* With the advisor off, there is nothing to do.
AdvisorOff ==
  /\ ~advisorMode'
  /\ UNCHANGED <<destinationCantBeReached, warning, judged, refused>>

\* Mutant: the flag, once raised, stays.
EnhancedDistanceLatches ==
  \/ AdvisorOff
  \/ /\ advisorMode'
     /\ destinationCantBeReached' =
          (\/ destinationCantBeReached
           \/ TooShort(LevelAfterRoute(fuelLevel, routeHandle'), distanceThreshold'))
     /\ Announce

\* Nothing to do, or the flag is computed and signalled.  The routing engine
\* may answer an unknown handle with no segments at all.
EnhancedDistanceUpdated ==
  \/ AdvisorOff
  \/ /\ advisorMode'
     /\ destinationCantBeReached' =
          TooShort(LevelAfterRoute(fuelLevel, routeHandle'), distanceThreshold')
     /\ Announce

\* GetRouteSegments throws: it was asked about a route that is not known.
EnhancedDistanceThrows ==
  /\ advisorMode'
  /\ ~Reachable(routeHandle')
  /\ UNCHANGED <<destinationCantBeReached, warning, judged>>

\* A method of the main loop: it runs between two callbacks of the timers.  An
\* exception is its error reply; what it assigned before stays assigned.
Method ==
  /\ alive
  /\ sample.stage = "idle"
  /\ \/ EnhancedDistanceUpdated
     \/ EnhancedDistanceThrows /\ refused' = TRUE
  /\ UNCHANGED <<tripVars, counterVars, externalVars, sample, fuelLevel, fed>>

SetFuelAdvisorSettings(mode, threshold) ==
  /\ advisorMode' = mode
  /\ distanceThreshold' = threshold
  /\ UNCHANGED routeHandle
  /\ Method

\* Mutant: the route is set, and assessed when the timer is next due.
SetRouteHandleLater(handle) ==
  /\ alive
  /\ sample.stage = "idle"
  /\ routeHandle' = handle
  /\ UNCHANGED <<tripVars, counterVars, externalVars, sample, fuelLevel, fed,
                 advisorMode, distanceThreshold, destinationCantBeReached,
                 warning, judged, refused>>

SetRouteHandle(handle) ==
  /\ routeHandle' = handle
  /\ UNCHANGED <<advisorMode, distanceThreshold>>
  /\ Method

\* The argument is ignored: whatever route is set is forgotten.
ReleaseRouteHandle(handle) ==
  /\ routeHandle' = NO_ROUTE
  /\ UNCHANGED <<advisorMode, distanceThreshold>>
  /\ Method

\* Mutant: the timer leaves a route alone that the routing engine forgot.
EnhancedDistanceTimerSkips ==
  /\ alive
  /\ sample.stage = "idle"
  /\ Reachable(routeHandle)
  /\ UNCHANGED <<advisorMode, distanceThreshold, routeHandle>>
  /\ EnhancedDistanceUpdated
  /\ UNCHANGED <<tripVars, counterVars, externalVars, sample, fuelLevel, fed>>

EnhancedDistanceTimer ==
  /\ alive
  /\ sample.stage = "idle"
  /\ UNCHANGED <<advisorMode, distanceThreshold, routeHandle>>
  /\ \/ EnhancedDistanceUpdated /\ UNCHANGED alive
     \/ EnhancedDistanceThrows /\ UNCHANGED refused /\ alive' = FALSE
  /\ UNCHANGED <<basic, shown, firstRefresh, last, refreshes, counterVars,
                 externalVars, sample, fuelLevel, fed>>

ResetTripData(n) ==
  /\ sample.stage = "idle"
  /\ TC!ResetTrip(n)
  /\ UNCHANGED <<counterVars, advisorVars, externalVars, sample, fuelLevel, fed>>

(***************************************************************************)
(* The other processes: the AMB, fed by its plugins, and the routing       *)
(* engine, driven by the user interface.                                   *)
(***************************************************************************)
Publish(answer, step) ==
  /\ published < MaxPublished
  /\ published' = published + 1
  /\ amb' = answer
  /\ driven' = driven + step
  /\ UNCHANGED <<tripVars, counterVars, advisorVars, routes, sample, fuelLevel, fed>>

PublishLevel(l)       == l # amb.level /\ Publish([amb EXCEPT !.level = l], 0)
PublishConsumption(c) == c # amb.consumption /\ Publish([amb EXCEPT !.consumption = c], 0)
\* The broker stamps what it gets; its clock does not go back, and nothing
\* bounds the time between two stamps.
PublishOdometer(d, ms) ==
  Publish([amb EXCEPT !.odometer = d, !.time = @ + ms], d)

CreateRoute(h) ==
  /\ h \notin routes
  /\ routes' = routes \cup {h}
  /\ UNCHANGED <<tripVars, counterVars, advisorVars, amb, published, driven,
                 sample, fuelLevel, fed>>

DeleteRoute(h) ==
  /\ h \in routes
  /\ routes' = routes \ {h}
  /\ UNCHANGED <<tripVars, counterVars, advisorVars, amb, published, driven,
                 sample, fuelLevel, fed>>

(***************************************************************************)
(* The constructor initialises the trip computer and refreshes it once     *)
(* with zeroes, which uses up its first refresh.  The loop that resets the *)
(* trips starts from an unassigned index, but resetting trips that never   *)
(* moved changes nothing.  m_fuelLevel is not assigned.                    *)
(***************************************************************************)
Init ==
  /\ basic = [n \in TC!Trips |-> TC!Fresh(TC!INSTANT_FUEL_CONSUMPTION_START_VALUE)]
  /\ shown = [n \in TC!Trips |-> TC!Nothing]
  /\ firstRefresh = FALSE
  /\ last = TC!ZeroInput
  /\ alive = TRUE
  /\ refreshes = 0
  /\ sample = Idle
  /\ initFlag = TRUE
  /\ lastTime = 0 /\ timeCounter = 0 /\ distanceCounter = 0
  /\ fuelLevel \in UnsetLevels
  /\ advisorMode = FALSE /\ distanceThreshold = 0
  /\ destinationCantBeReached = FALSE /\ warning = FALSE
  /\ judged = [threshold |-> 0, route |-> NO_ROUTE] /\ refused = FALSE
  /\ routeHandle = NO_ROUTE
  /\ amb = [level |-> 0, time |-> 0, odometer |-> 0, consumption |-> 0]
  /\ routes = {}
  /\ published = 0 /\ driven = 0
  /\ fed = [time |-> 0, distance |-> 0]

Sampling == SampleLevel \/ SampleTime \/ SampleOdometer \/ SampleConsumption

Next ==
  \/ Sampling
  \/ SampleFails
  \/ EnhancedDistanceTimer
  \/ \E m \in BOOLEAN, t \in Thresholds : SetFuelAdvisorSettings(m, t)
  \/ \E h \in Handles : SetRouteHandle(h) \/ ReleaseRouteHandle(h)
  \/ \E n \in TC!Trips : ResetTripData(n)
  \/ \E l \in Levels : PublishLevel(l)
  \/ \E c \in Rates : PublishConsumption(c)
  \/ \E d \in Odometers, ms \in Clocks : PublishOdometer(d, ms)
  \/ \E h \in Handles : CreateRoute(h) \/ DeleteRoute(h)

Spec == Init /\ [][Next]_vars

(***************************************************************************)
(* Properties.                                                             *)
(***************************************************************************)
Ushort == 0 .. TC!USHRT_MAX

\* The trip computer's types, and 16 bits for the advisor's own counters.
TypeOK ==
  /\ TC!TypeOK
  /\ sample \in [stage : {"idle", "time", "odometer", "consumption", "store"},
                 level : Nat, time : Nat, dt : Nat, dd : Nat]
  /\ initFlag \in BOOLEAN
  /\ lastTime \in Nat
  /\ timeCounter \in Ushort
  /\ distanceCounter \in Ushort
  /\ fuelLevel \in Nat
  /\ advisorMode \in BOOLEAN
  /\ distanceThreshold \in 0 .. 255
  /\ destinationCantBeReached \in BOOLEAN
  /\ routeHandle \in Handles \cup {NO_ROUTE}
  /\ warning \in BOOLEAN
  /\ judged \in [threshold : 0 .. 255, route : Handles \cup {NO_ROUTE}]
  /\ refused \in BOOLEAN
  /\ amb \in [level : Nat, time : Nat, odometer : Nat, consumption : Nat]
  /\ routes \subseteq Handles
  /\ published \in 0 .. MaxPublished
  /\ driven \in Nat
  /\ fed \in [time : Nat, distance : Nat]

\* The trips are a trip meter of what was sampled: the wraps of the two rolling
\* counters, the reference the trip computer keeps, the sampling over several
\* calls and the resets do not lose or add a centimetre; of the time, the
\* conversion loses at most a millisecond a sample.  A build that computes 0 for
\* GET_UNDEFINED_VALUE counts one unit too many where a counter wraps.  A step
\* the counters cannot hold (65.535 s, 655.35 m), which the code does not look
\* for, counts for less, never for more.
Meter == INSTANCE TripMeter WITH
  Trips   <- TC!Trips,
  Limit   <- TC!USHRT_MAX,
  Excess  <- IF UNDEFINED = TC!USHRT_MAX THEN 0 ELSE 1,
  total   <- fed,
  reading <- [n \in TC!Trips |-> [time     |-> basic[n].tripTime,
                                  distance |-> basic[n].tripDistance]]
ImplementsTripMeter == Meter!Spec

\* "tank distance is valid, so it means that fuel level is valid too"
\* (GetInstantData): the level returned beside a tank distance is the one it
\* was computed from, never the unassigned one or that of another sample.
\* Over CommonAPI the method may run between the refresh and the store, where
\* this does not hold.  It is the same amount, not the same number: the level
\* is returned in litres and used in tenths of them.
TankDistanceUsesShownLevel ==
  (alive /\ sample.stage # "store" /\ TC!InstantData.tankDistance # UNDEFINED)
    => last.fuelLevel = TC!U16(fuelLevel * 10)

\* The level told beside a tank distance is one the broker gave, whenever the
\* method runs: over CommonAPI it may be one sample old, and still it is never
\* what the constructor left unassigned.
ToldLevelWasSampled ==
  (alive /\ TC!InstantData.tankDistance # UNDEFINED) => fuelLevel \in Levels \cup {0}

\* FuelStopAdvisor.fidl: FUEL_LEVEL is in tenths of litres, the unit of the
\* level the trip computer got with the sample (CONVERT_LITER_IN_DL).
FuelLevelInTenths ==
  (alive /\ sample.stage = "idle" /\ TC!InstantData.tankDistance # UNDEFINED)
    => fuelLevel = last.fuelLevel

\* What GetFuelAdvisorSettings answers while the advisor is on belongs together:
\* the flag is the assessment of this very threshold, and of the route that is
\* set.  The one exception is after a method that was refused: its settings or
\* its route stay, beside the flag of those before.
AnswerBelongsTogether ==
  (alive /\ advisorMode /\ ~refused)
    => judged = [threshold |-> distanceThreshold, route |-> routeHandle]

\* The advisor is on and what it would find out now is b.
Short == TooShort(LevelAfterRoute(fuelLevel, routeHandle), distanceThreshold)
Assessed(b) == alive /\ advisorMode /\ Reachable(routeHandle) /\ Short = b

\* FuelStopAdvisor.fidl: DISTANCE is the distance since the last reset.  No
\* trip can be longer than what the AMB said was driven.
NoTripLongerThanDriven == \A n \in TC!Trips : basic[n].tripDistance <= driven
=============================================================================
