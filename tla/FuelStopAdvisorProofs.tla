------------------------ MODULE FuelStopAdvisorProofs ------------------------
(***************************************************************************)
(* For all levels, rates, odometers, routes and thresholds, any number of  *)
(* publications and refreshes, and both bindings: the widths, the fuel     *)
(* level told beside a tank distance, what the flag is an assessment of,   *)
(* and that the trips are a trip meter of what was sampled, whatever the   *)
(* broker's steps and gaps.                                                *)
(*                                                                         *)
(* The steps of both bindings are taken together, in any order: what is    *)
(* shown does not depend on which of the two runs.                         *)
(***************************************************************************)
EXTENDS MCFuelStopAdvisor, TLAPS

(***************************************************************************)
(* The trip computer inside the advisor: what TripComputerProofs proves of *)
(* one operation holds of the operations the advisor calls.  TC and TP are *)
(* two instances of the same definitions, so each operator of the one is   *)
(* shown equal to that of the other, from the widths up to the operations. *)
(***************************************************************************)
TP == INSTANCE TripComputerProofs WITH Inputs <- {}

\* The assumption of TripComputer holds in the advisor.
LEMMA TripAssumption == TP!TripComputerAssumption
  BY FuelStopAdvisorAssumption DEF TP!TripComputerAssumption, TP!USHRT_MAX

\* Widths, coefficients and the types made of them.
LEMMA SameWidths ==
  /\ TC!USHRT_MAX = TP!USHRT_MAX
  /\ TC!DISTANCE_THRESHOLD = TP!DISTANCE_THRESHOLD
  /\ TC!INSTANT_FUEL_CONSUMPTION_MAX_VALUE = TP!INSTANT_FUEL_CONSUMPTION_MAX_VALUE
  /\ TC!INSTANT_FUEL_CONSUMPTION_COEFFICIENT = TP!INSTANT_FUEL_CONSUMPTION_COEFFICIENT
  /\ TC!LAST_QUARTER_FUEL_CONSUMPTION_COEFFICIENT
       = TP!LAST_QUARTER_FUEL_CONSUMPTION_COEFFICIENT
  BY DEF TC!USHRT_MAX, TP!USHRT_MAX, TC!DISTANCE_THRESHOLD, TP!DISTANCE_THRESHOLD,
         TC!INSTANT_FUEL_CONSUMPTION_MAX_VALUE, TP!INSTANT_FUEL_CONSUMPTION_MAX_VALUE,
         TC!INSTANT_FUEL_CONSUMPTION_COEFFICIENT, TP!INSTANT_FUEL_CONSUMPTION_COEFFICIENT,
         TC!LAST_QUARTER_FUEL_CONSUMPTION_COEFFICIENT,
         TP!LAST_QUARTER_FUEL_CONSUMPTION_COEFFICIENT

\* The types of the state.
LEMMA SameTypes ==
  /\ TC!Trips = TP!Trips
  /\ TC!TripInput = TP!TripInput
  /\ TC!BasicData = TP!BasicData
  /\ TC!ShownData = TP!ShownData
<1>1. TC!Trips = TP!Trips
  BY DEF TC!Trips, TP!Trips, TC!TRIP_NUMBER_1, TP!TRIP_NUMBER_1
<1>2. TC!TripInput = TP!TripInput
  BY SameWidths, Zenon DEF TC!TripInput, TP!TripInput
<1>3. TC!ShownData = TP!ShownData
  BY SameWidths, Zenon DEF TC!ShownData, TP!ShownData
<1>4. TC!BasicData = TP!BasicData
  BY SameWidths, Zenon DEF TC!BasicData, TP!BasicData
<1> QED
  BY <1>1, <1>2, <1>3, <1>4

\* The arithmetic of one refresh.
LEMMA SameArithmetic ==
  /\ \A x : TC!U16(x) = TP!U16(x)
  /\ \A x : TC!Cap(x) = TP!Cap(x)
  /\ \A x, y : TC!RollingDelta(x, y) = TP!RollingDelta(x, y)
  /\ \A x, y, t : TC!FuelBurnt(x, y, t) = TP!FuelBurnt(x, y, t)
  /\ \A c, a, r, x : TC!MovingSum(c, a, r, x) = TP!MovingSum(c, a, r, x)
  /\ \A b, d, f : TC!BurntPerMetre(b, d, f) = TP!BurntPerMetre(b, d, f)
<1>1. \A x : TC!U16(x) = TP!U16(x)
  BY SameWidths, Zenon DEF TC!U16, TP!U16
<1>2. \A x : TC!Cap(x) = TP!Cap(x)
  BY SameWidths, Zenon DEF TC!Cap, TP!Cap
<1>3. \A x, y : TC!RollingDelta(x, y) = TP!RollingDelta(x, y)
  BY <1>1, Zenon DEF TC!RollingDelta, TP!RollingDelta
<1>4. \A x, y, t : TC!FuelBurnt(x, y, t) = TP!FuelBurnt(x, y, t)
  BY ZenonT(40) DEF TC!FuelBurnt, TP!FuelBurnt
<1>5. \A c, a, r, x : TC!MovingSum(c, a, r, x) = TP!MovingSum(c, a, r, x)
  BY <1>1, Zenon DEF TC!MovingSum, TP!MovingSum
<1>6. \A b, d, f : TC!BurntPerMetre(b, d, f) = TP!BurntPerMetre(b, d, f)
  BY Zenon DEF TC!BurntPerMetre, TP!BurntPerMetre
<1> QED
  BY <1>1, <1>2, <1>3, <1>4, <1>5, <1>6

\* What a trip accumulates, and when it has figures to show.
LEMMA SameTotals ==
  /\ \A b, t, d, f : TC!Accumulated(b, t, d, f) = TP!Accumulated(b, t, d, f)
  /\ \A b : TC!PastThreshold(b) <=> TP!PastThreshold(b)
  /\ \A b : TC!Metered(b) <=> TP!Metered(b)
<1>1. \A b, t, d, f : TC!Accumulated(b, t, d, f) = TP!Accumulated(b, t, d, f)
  BY Zenon DEF TC!Accumulated, TP!Accumulated
<1>2. \A b : TC!PastThreshold(b) <=> TP!PastThreshold(b)
  BY SameWidths, Zenon DEF TC!PastThreshold, TP!PastThreshold
<1>3. \A b : TC!Metered(b) <=> TP!Metered(b)
  BY <1>2, Zenon DEF TC!Metered, TP!Metered
<1> QED
  BY <1>1, <1>2, <1>3

\* The averages.
LEMMA SameAveraged == \A b, d, f : TC!Averaged(b, d, f) = TP!Averaged(b, d, f)
<1> SUFFICES ASSUME NEW b, NEW dd, NEW fuel
             PROVE  TC!Averaged(b, dd, fuel) = TP!Averaged(b, dd, fuel)
  OBVIOUS
<1> DEFINE ci == TC!INSTANT_FUEL_CONSUMPTION_COEFFICIENT
           cq == TC!LAST_QUARTER_FUEL_CONSUMPTION_COEFFICIENT
           pi == TP!INSTANT_FUEL_CONSUMPTION_COEFFICIENT
           pq == TP!LAST_QUARTER_FUEL_CONSUMPTION_COEFFICIENT
           i1 == TC!MovingSum(ci, b.instantAvg, b.instantRem,
                              TC!BurntPerMetre(b, dd, fuel))
           i2 == TP!MovingSum(pi, b.instantAvg, b.instantRem,
                              TP!BurntPerMetre(b, dd, fuel))
           q1 == TC!MovingSum(cq, b.quarterAvg, b.quarterRem, i1 \div ci)
           q2 == TP!MovingSum(pq, b.quarterAvg, b.quarterRem, i2 \div pi)
           Stored(i, q, x, y) ==
             [b EXCEPT !.fuelRemainder = (fuel * 100 + @) % dd,
                       !.instantAvg = i \div x, !.instantRem = i % x,
                       !.quarterAvg = q \div y, !.quarterRem = q % y]
<1>1. ci = pi /\ cq = pq
  BY SameWidths
<1>2. i1 = i2
  BY <1>1, SameArithmetic, Zenon
<1>3. q1 = q2
  BY <1>1, <1>2, SameArithmetic, Zenon
<1>4. TC!Averaged(b, dd, fuel) = Stored(i1, q1, ci, cq)
  BY Zenon DEF TC!Averaged
<1>5. TP!Averaged(b, dd, fuel) = Stored(i2, q2, pi, pq)
  BY Zenon DEF TP!Averaged
<1> HIDE DEF ci, cq, pi, pq, i1, i2, q1, q2, Stored
<1> QED
  BY <1>1, <1>2, <1>3, <1>4, <1>5

\* What a client reads after a refresh.
LEMMA SameShown ==
  \A s, b, l : TC!RefreshedShown(s, b, l) = TP!RefreshedShown(s, b, l)
<1> SUFFICES ASSUME NEW s, NEW b, NEW l
             PROVE  TC!RefreshedShown(s, b, l) = TP!RefreshedShown(s, b, l)
  OBVIOUS
<1> DEFINE timed == [s EXCEPT !.time = b.tripTime \div 1000]
           Long(d) == [timed EXCEPT !.distance = d]
           Figures(d, i, v, t, f) ==
             [timed EXCEPT !.distance = d, !.instantFuel = i, !.averageSpeed = v,
                           !.tankDistance = t, !.averageFuel = f]
           km == b.tripDistance \div 10000
           speed == (b.tripDistance * 360) \div b.tripTime
           range == (l * 100) \div b.quarterAvg
           usage == (b.tripFuel * 100) \div b.tripDistance
           d1 == TC!U16(km)
           d2 == TP!U16(km)
           i1 == TC!Cap(b.instantAvg)
           i2 == TP!Cap(b.instantAvg)
           v1 == TC!U16(speed)
           v2 == TP!U16(speed)
           t1 == IF b.quarterAvg > 0 THEN TC!U16(range) ELSE UNDEFINED
           t2 == IF b.quarterAvg > 0 THEN TP!U16(range) ELSE UNDEFINED
           f1 == TC!Cap(TC!U16(usage))
           f2 == TP!Cap(TP!U16(usage))
<1> HIDE DEF km, speed, range, usage
<1>1. \A x : TC!U16(x) = TP!U16(x)
  BY SameArithmetic
<1>2. \A x : TC!Cap(x) = TP!Cap(x)
  BY SameArithmetic
<1>3. d1 = d2
  BY <1>1
<1>4. i1 = i2
  BY <1>2
<1>5. v1 = v2
  BY <1>1
<1>6. t1 = t2
  BY <1>1
<1>7. f1 = f2
  BY <1>1, <1>2
<1>8. /\ TP!Metered(b) <=> TC!Metered(b)
      /\ TP!PastThreshold(b) <=> TC!PastThreshold(b)
  BY SameTotals
<1>9. CASE TC!Metered(b)
  <2>1. TC!RefreshedShown(s, b, l) = Figures(d1, i1, v1, t1, f1)
    BY <1>9 DEF TC!RefreshedShown, km, speed, range, usage
  <2>2. TP!RefreshedShown(s, b, l) = Figures(d2, i2, v2, t2, f2)
    BY <1>8, <1>9 DEF TP!RefreshedShown, km, speed, range, usage
  <2> HIDE DEF d1, d2, i1, i2, v1, v2, t1, t2, f1, f2, Figures
  <2> QED
    BY <1>3, <1>4, <1>5, <1>6, <1>7, <2>1, <2>2
<1>10. CASE TC!PastThreshold(b) /\ ~TC!Metered(b)
  <2>1. TC!RefreshedShown(s, b, l) = Long(d1)
    BY <1>10 DEF TC!RefreshedShown, km
  <2>2. TP!RefreshedShown(s, b, l) = Long(d2)
    BY <1>8, <1>10 DEF TP!RefreshedShown, km
  <2> HIDE DEF d1, d2, Long
  <2> QED
    BY <1>3, <2>1, <2>2
<1>11. CASE ~TC!PastThreshold(b)
  <2>1. ~TC!Metered(b)
    BY <1>11 DEF TC!Metered
  <2>2. TC!RefreshedShown(s, b, l) = timed
    BY <1>11, <2>1 DEF TC!RefreshedShown
  <2>3. TP!RefreshedShown(s, b, l) = timed
    BY <1>8, <1>11, <2>1 DEF TP!RefreshedShown
  <2> QED
    BY <2>2, <2>3
<1> QED
  BY <1>9, <1>10, <1>11

\* The operations.
LEMMA SameOperations ==
  /\ \A in : TC!NextRefresh(in) <=> TP!NextRefresh(in)
  /\ \A n : TC!ResetTrip(n) <=> TP!ResetTrip(n)
<1>1. \A in : /\ TC!TimeStep(in) = TP!TimeStep(in)
              /\ TC!DistanceStep(in) = TP!DistanceStep(in)
              /\ TC!FuelStep(in) = TP!FuelStep(in)
  BY SameArithmetic, Zenon
     DEF TC!TimeStep, TP!TimeStep, TC!DistanceStep, TP!DistanceStep,
         TC!FuelStep, TP!FuelStep
<1>2. \A in : TC!DividesByZero(in) <=> TP!DividesByZero(in)
  BY <1>1, SameTypes, SameTotals DEF TC!DividesByZero, TP!DividesByZero
<1>3. \A b, t, d, f : TC!RefreshedBasic(b, t, d, f) = TP!RefreshedBasic(b, t, d, f)
  BY SameTotals, SameAveraged DEF TC!RefreshedBasic, TP!RefreshedBasic
<1>4. \A in : TC!NextRefresh(in) <=> TP!NextRefresh(in)
  BY <1>1, <1>2, <1>3, SameShown, SameTypes DEF TC!NextRefresh, TP!NextRefresh
<1>5. \A n : TC!ResetTrip(n) <=> TP!ResetTrip(n)
  BY Zenon DEF TC!ResetTrip, TP!ResetTrip, TC!Nothing, TP!Nothing
<1> QED
  BY <1>4, <1>5

\* The invariant of the trip computer, as the advisor sees it.
TripsOK == TC!TypeOK /\ TC!FuelTakesTime /\ TC!ShownAfterThreshold

\* It is the invariant of TripComputerProofs.
LEMMA SameInvariant == (TripsOK <=> TP!IInv) /\ (TripsOK' <=> TP!IInv')
<1>1. (TC!TypeOK <=> TP!TypeOK) /\ (TC!TypeOK' <=> TP!TypeOK')
  BY SameTypes DEF TC!TypeOK, TP!TypeOK
<1>2. (TC!FuelTakesTime <=> TP!FuelTakesTime) /\ (TC!FuelTakesTime' <=> TP!FuelTakesTime')
  BY SameTypes DEF TC!FuelTakesTime, TP!FuelTakesTime
<1>3. /\ TC!ShownAfterThreshold <=> TP!ShownAfterThreshold
      /\ TC!ShownAfterThreshold' <=> TP!ShownAfterThreshold'
  BY SameTypes, SameTotals DEF TC!ShownAfterThreshold, TP!ShownAfterThreshold
<1> QED
  BY <1>1, <1>2, <1>3 DEF TripsOK, TP!IInv

\* A refresh preserves it.
LEMMA TripsRefreshed ==
  ASSUME TripsOK, NEW in \in TC!TripInput, TC!NextRefresh(in),
         refreshes' \in 0 .. MaxRefreshes
  PROVE  TripsOK'
  BY TripAssumption, SameInvariant, SameOperations, SameTypes, TP!NextRefreshStep

\* A reset preserves it.
LEMMA TripsReset ==
  ASSUME TripsOK, NEW n \in TC!Trips, TC!ResetTrip(n)
  PROVE  TripsOK'
  BY TripAssumption, SameInvariant, SameOperations, SameTypes, TP!ResetStep

\* A trip that has figures keeps its averages, its distance grows, and what
\* was shown without figures stays as it is.
LEMMA ShownWithoutFigures ==
  ASSUME NEW s \in TC!ShownData, NEW b \in TC!BasicData, b.tripFuel > 0 => b.tripTime > 0,
         NEW l \in 0 .. TC!USHRT_MAX, ~TC!Metered(b)
  PROVE  TC!RefreshedShown(s, b, l).tankDistance = s.tankDistance
<1>1. l \in TP!Ushort
  BY SameWidths DEF TP!Ushort
<1>2. TP!Timed(b)
  BY DEF TP!Timed
<1> QED
  BY <1>1, <1>2, TripAssumption, SameShown, SameTypes, SameTotals, TP!RefreshedShownType

\* What is stored in 16 bits is in 16 bits, and is the value itself if that fits.
LEMMA U16Type ==
  /\ \A x \in Int : TC!U16(x) \in Ushort
  /\ \A x \in Ushort : TC!U16(x) = x
<1>1. Ushort = TP!Ushort
  BY SameWidths DEF Ushort, TP!Ushort
<1> QED
  BY <1>1, TripAssumption, SameArithmetic, TP!U16Type, TP!U16Fits

\* The step of a rolling counter is a 16-bit value.
LEMMA RollingDeltaType == \A x, y \in Ushort : TC!RollingDelta(x, y) \in Ushort
<1>1. Ushort = TP!Ushort
  BY SameWidths DEF Ushort, TP!Ushort
<1> QED
  BY <1>1, TripAssumption, SameArithmetic, TP!RollingDeltaType

\* What a refresh adds to the totals of a trip.
LEMMA RefreshedTotals ==
  ASSUME NEW b \in TC!BasicData, NEW dt, NEW dd, NEW fuel
  PROVE  /\ TC!RefreshedBasic(b, dt, dd, fuel).tripTime = b.tripTime + dt
         /\ TC!RefreshedBasic(b, dt, dd, fuel).tripDistance = b.tripDistance + dd
<1> DEFINE acc == TC!Accumulated(b, dt, dd, fuel)
<1>1. /\ acc = [b EXCEPT !.tripTime = @ + dt, !.tripDistance = @ + dd, !.tripFuel = @ + fuel]
      /\ acc.tripTime = b.tripTime + dt
      /\ acc.tripDistance = b.tripDistance + dd
  BY DEF TC!Accumulated, TC!BasicData
<1>2. /\ TC!Averaged(acc, dd, fuel).tripTime = acc.tripTime
      /\ TC!Averaged(acc, dd, fuel).tripDistance = acc.tripDistance
  BY DEF TC!Averaged, TC!Accumulated, TC!BasicData
<1> HIDE DEF acc
<1> QED
  BY <1>1, <1>2 DEF TC!RefreshedBasic, acc

(***************************************************************************)
(* The two bindings together.                                              *)
(***************************************************************************)
Step == [Next \/ CapiNext]_vars

\* Levels the advisor may have stored: the broker has none before the first.
Sampled == Levels \cup {0}

(***************************************************************************)
(* The invariant.                                                          *)
(***************************************************************************)

\* The broker's clock never runs backwards, as far as the advisor can see.
TimesOrdered ==
  /\ ~initFlag =>
       /\ lastTime <= amb.time
       /\ sample.stage = "odometer" => lastTime <= sample.time
  /\ sample.stage = "odometer" => sample.time <= amb.time

\* Between the refresh and the store, the level not stored yet is the one the
\* trip computer has.
StoreAgrees ==
  alive /\ sample.stage = "store" => last.fuelLevel = TC!U16(sample.level * 10)

\* Until the first level is stored, no trip has moved.
NothingMoved ==
  /\ distanceCounter = 0
  /\ last.distance = 0
  /\ sample.stage \in {"idle", "time", "odometer"} => initFlag
  /\ \A n \in TC!Trips : basic[n].tripDistance = 0 /\ shown[n].tankDistance = UNDEFINED

LevelsSampled ==
  /\ amb.level \in Sampled
  /\ sample.level \in Sampled
  /\ alive => (fuelLevel \in Sampled \/ NothingMoved)

IInv ==
  /\ TypeOK
  /\ TripsOK
  /\ firstRefresh = FALSE
  /\ TimesOrdered
  /\ StoreAgrees
  /\ LevelsSampled
  /\ TankDistanceUsesShownLevel
  /\ AnswerBelongsTogether

\* For the trip meter: the counters hold the last step until it is refreshed.
MeterInv ==
  alive =>
    /\ sample.stage \in {"idle", "time", "odometer"} => sample.dt = 0 /\ sample.dd = 0
    /\ IF sample.stage = "consumption"
       THEN /\ TC!RollingDelta(timeCounter, last.time) \in Meter!Times(sample.dt)
            /\ TC!RollingDelta(distanceCounter, last.distance) \in Meter!Distances(sample.dd)
       ELSE last.time = timeCounter /\ last.distance = distanceCounter
    /\ initFlag => timeCounter = 0 /\ distanceCounter = 0

(***************************************************************************)
(* The kinds of steps.                                                     *)
(***************************************************************************)

\* An exception nobody catches.
Dies ==
  /\ alive'= FALSE
  /\ UNCHANGED <<basic, shown, firstRefresh, last, refreshes, counterVars,
                 advisorVars, externalVars, sample, fuelLevel, fed>>

\* A client or the timer makes the advisor work out its answer.
Answers ==
  /\ advisorMode' \in BOOLEAN
  /\ distanceThreshold' \in 0 .. 255
  /\ routeHandle' \in Handles \cup {NO_ROUTE}
  /\ destinationCantBeReached' \in BOOLEAN
  /\ warning' \in BOOLEAN
  /\ judged' \in [threshold : 0 .. 255, route : Handles \cup {NO_ROUTE}]
  /\ refused' \in BOOLEAN
  /\ AnswerBelongsTogether'
  /\ UNCHANGED <<tripVars, counterVars, externalVars, sample, fuelLevel, fed>>

\* The last call of a sample, up to the store or without it.
Refreshes ==
  /\ RefreshTrips
  /\ \/ sample' = Idle /\ fuelLevel' = IF alive' THEN sample.level ELSE fuelLevel
     \/ /\ sample' = IF alive' THEN [sample EXCEPT !.stage = "store"] ELSE Idle
        /\ UNCHANGED fuelLevel
  /\ UNCHANGED <<counterVars, advisorVars, externalVars>>

Publishes ==
  \/ \E l \in Levels : PublishLevel(l)
  \/ \E c \in Rates : PublishConsumption(c)
  \/ \E d \in Odometers, ms \in Clocks : PublishOdometer(d, ms)

Resets ==
  /\ \E n \in TC!Trips : TC!ResetTrip(n)
  /\ UNCHANGED <<counterVars, advisorVars, externalVars, sample, fuelLevel, fed>>

\* What an assessment leaves has its types, and is one of the present settings
\* and route.
LEMMA AnswerType ==
  ASSUME TypeOK, EnhancedDistanceUpdated,
         advisorMode' \in BOOLEAN, distanceThreshold' \in 0 .. 255,
         routeHandle' \in Handles \cup {NO_ROUTE}
  PROVE  /\ destinationCantBeReached' \in BOOLEAN
         /\ warning' \in BOOLEAN
         /\ judged' \in [threshold : 0 .. 255, route : Handles \cup {NO_ROUTE}]
         /\ refused' \in BOOLEAN
         /\ AnswerBelongsTogether'
<1> DEFINE level == LevelAfterRoute(fuelLevel, routeHandle')
<1>1. TooShort(level, distanceThreshold') \in BOOLEAN
  BY DEF TooShort
<1> HIDE DEF level
<1>2. CASE AdvisorOff
  <2>1. /\ destinationCantBeReached \in BOOLEAN /\ warning \in BOOLEAN /\ refused \in BOOLEAN
        /\ judged \in [threshold : 0 .. 255, route : Handles \cup {NO_ROUTE}]
    BY Zenon DEF TypeOK
  <2> QED
    BY <1>2, <2>1, Zenon DEF AdvisorOff, AnswerBelongsTogether
<1>3. ASSUME destinationCantBeReached' = TooShort(level, distanceThreshold'), Announce
      PROVE  /\ destinationCantBeReached' \in BOOLEAN
             /\ warning' \in BOOLEAN
             /\ judged' \in [threshold : 0 .. 255, route : Handles \cup {NO_ROUTE}]
             /\ refused' \in BOOLEAN
             /\ AnswerBelongsTogether'
  <2>1. destinationCantBeReached' \in BOOLEAN /\ warning' \in BOOLEAN
    BY <1>1, <1>3, Zenon DEF Announce
  <2>2. judged' = [threshold |-> distanceThreshold', route |-> routeHandle'] /\ refused' = FALSE
    BY <1>3 DEF Announce
  <2>3. judged' \in [threshold : 0 .. 255, route : Handles \cup {NO_ROUTE}]
    BY <2>2
  <2>4. refused' \in BOOLEAN
    BY <2>2, Zenon
  <2> QED
    BY <2>1, <2>2, <2>3, <2>4, Zenon DEF AnswerBelongsTogether
<1> QED
  BY <1>2, <1>3, Zenon DEF EnhancedDistanceUpdated, level

\* The timer's exception ends the process.
LEMMA TimerCases == ASSUME TypeOK, EnhancedDistanceTimer PROVE Dies \/ Answers
<1>1. \/ EnhancedDistanceUpdated /\ alive' = alive
      \/ EnhancedDistanceThrows /\ UNCHANGED refused /\ alive' = FALSE
  BY Zenon DEF EnhancedDistanceTimer
<1>2. ASSUME EnhancedDistanceThrows, UNCHANGED refused, alive' = FALSE PROVE Dies
  BY <1>2, Zenon DEF EnhancedDistanceTimer, EnhancedDistanceThrows, Dies, advisorVars
<1>3. ASSUME EnhancedDistanceUpdated, alive' = alive PROVE Answers
  <2>1. /\ advisorMode' \in BOOLEAN /\ distanceThreshold' \in 0 .. 255
        /\ routeHandle' \in Handles \cup {NO_ROUTE}
    BY Zenon DEF EnhancedDistanceTimer, TypeOK
  <2>2. UNCHANGED <<tripVars, counterVars, externalVars, sample, fuelLevel, fed>>
    BY <1>3, Zenon DEF EnhancedDistanceTimer, tripVars
  <2> QED
    BY <1>3, <2>1, <2>2, AnswerType, Zenon DEF Answers
<1> QED
  BY <1>1, <1>2, <1>3

\* A method answers, with an error when the routing engine throws.
LEMMA MethodAnswers ==
  ASSUME TypeOK, Method \/ CapiMethod,
         advisorMode' \in BOOLEAN, distanceThreshold' \in 0 .. 255,
         routeHandle' \in Handles \cup {NO_ROUTE}
  PROVE  Answers
<1>1. UNCHANGED <<tripVars, counterVars, externalVars, sample, fuelLevel, fed>>
  BY DEF Method, CapiMethod
<1>2. CASE EnhancedDistanceUpdated
  BY <1>1, <1>2, AnswerType, Zenon DEF Answers
<1>3. CASE EnhancedDistanceThrows /\ refused' = TRUE
  <2>1. UNCHANGED <<destinationCantBeReached, warning, judged>>
    BY <1>3 DEF EnhancedDistanceThrows
  <2>2. destinationCantBeReached \in BOOLEAN /\ warning \in BOOLEAN
    BY Zenon DEF TypeOK
  <2>3. judged \in [threshold : 0 .. 255, route : Handles \cup {NO_ROUTE}]
    BY Zenon DEF TypeOK
  <2>4. destinationCantBeReached' \in BOOLEAN /\ warning' \in BOOLEAN
    BY <2>1, <2>2
  <2>5. judged' \in [threshold : 0 .. 255, route : Handles \cup {NO_ROUTE}]
    BY <2>1, <2>3
  <2>6. refused' \in BOOLEAN /\ AnswerBelongsTogether'
    BY <1>3 DEF AnswerBelongsTogether
  <2> QED
    BY <1>1, <2>4, <2>5, <2>6, Zenon DEF Answers
<1> QED
  BY <1>2, <1>3, Zenon DEF Method, CapiMethod

\* Whichever binding is used, a step is one of these.
LEMMA Steps ==
  ASSUME TypeOK, Step
  PROVE  \/ SampleLevel \/ SampleTime \/ SampleOdometer
         \/ Refreshes \/ CapiStore
         \/ Dies \/ Answers \/ Resets \/ Publishes
         \/ \E h \in Handles : CreateRoute(h) \/ DeleteRoute(h)
         \/ UNCHANGED vars
<1> USE FuelStopAdvisorAssumption
<1>1. CASE SampleConsumption
  BY <1>1 DEF SampleConsumption, StoreLevel, Refreshes
<1>2. CASE CapiRefresh
  BY <1>2 DEF CapiRefresh, Refreshes
<1>3. CASE SampleFails \/ InvalidTripNumber
  BY <1>3 DEF SampleFails, InvalidTripNumber, Dies
<1>4. CASE EnhancedDistanceTimer
  BY <1>4, TimerCases
<1>6. ASSUME NEW m \in BOOLEAN, NEW t \in Thresholds,
             SetFuelAdvisorSettings(m, t) \/ setFuelAdvisorSettings(m, t)
      PROVE  Answers
  BY <1>6, MethodAnswers DEF SetFuelAdvisorSettings, setFuelAdvisorSettings, TypeOK
<1>7. ASSUME NEW h \in Handles,
             \/ SetRouteHandle(h) \/ setRouteHandle(h)
             \/ ReleaseRouteHandle(h) \/ releaseRouteHandle(h)
      PROVE  Answers
  BY <1>7, MethodAnswers DEF SetRouteHandle, setRouteHandle, ReleaseRouteHandle,
                    releaseRouteHandle, TypeOK
<1>8. ASSUME NEW n \in TC!Trips, ResetTripData(n) \/ resetTripData(n)
      PROVE  Resets
  BY <1>8 DEF ResetTripData, resetTripData, Resets
<1> QED
  BY <1>1, <1>2, <1>3, <1>4, <1>6, <1>7, <1>8
     DEF Step, Next, CapiNext, Sampling, update_data, External, Publishes

(***************************************************************************)
(* Types.                                                                  *)
(***************************************************************************)

\* The trip computer is refreshed with 16-bit values, and dies or goes on.
LEMMA RefreshCases ==
  ASSUME IInv, Refreshes
  PROVE  /\ alive
         /\ sample.stage = "consumption"
         /\ \E in \in TC!TripInput :
              /\ in.fuelLevel = TC!U16(sample.level * 10)
              /\ in.time = timeCounter
              /\ in.distance = distanceCounter
              /\ refreshes' \in 0 .. MaxRefreshes
              /\ TC!NextRefresh(in) \/ TC!FaultyRefresh(in)
<1> DEFINE in == [fuelLevel       |-> TC!U16(sample.level * 10),
                  time            |-> timeCounter,
                  distance        |-> distanceCounter,
                  fuelConsumption |-> TC!U16(amb.consumption)]
<1>1. in \in TC!TripInput
  <2>1. sample.level * 10 \in Int /\ amb.consumption \in Int
    BY DEF IInv, TypeOK
  <2>2. /\ TC!U16(sample.level * 10) \in Ushort /\ TC!U16(amb.consumption) \in Ushort
        /\ timeCounter \in Ushort /\ distanceCounter \in Ushort
    BY <2>1, U16Type DEF IInv, TypeOK
  <2> QED
    BY <2>2 DEF TC!TripInput, Ushort
<1>2. TC!RefreshTripComputerInput(in) /\ sample.stage = "consumption"
  BY Zenon DEF Refreshes, RefreshTrips
<1>3. /\ in.fuelLevel = TC!U16(sample.level * 10)
      /\ in.time = timeCounter /\ in.distance = distanceCounter
  OBVIOUS
<1> HIDE DEF in
<1>4. refreshes' \in 0 .. MaxRefreshes
  BY <1>2, FuelStopAdvisorAssumption DEF TC!RefreshTripComputerInput, IInv, TypeOK, TC!TypeOK
<1>5. TC!NextRefresh(in) \/ TC!FaultyRefresh(in)
  BY <1>2 DEF TC!RefreshTripComputerInput, TC!FirstRefresh, IInv
<1>6. alive
  BY <1>2 DEF TC!RefreshTripComputerInput
<1> QED
  BY <1>1, <1>2, <1>3, <1>4, <1>5, <1>6

\* The trip computer inside keeps its invariant, and is never unread again.
LEMMA TripsStep == ASSUME IInv, Step PROVE TripsOK' /\ firstRefresh' = FALSE
<1> USE DEF IInv
<1>1. CASE Refreshes
  <2>1. PICK in \in TC!TripInput : /\ refreshes' \in 0 .. MaxRefreshes
                                   /\ TC!NextRefresh(in) \/ TC!FaultyRefresh(in)
    BY <1>1, RefreshCases
  <2>2. CASE TC!NextRefresh(in)
    BY <2>1, <2>2, TripsRefreshed DEF TC!NextRefresh
  <2>3. CASE TC!FaultyRefresh(in)
    BY <2>1, <2>3 DEF TC!FaultyRefresh, TripsOK, TC!TypeOK, TC!FuelTakesTime,
                      TC!ShownAfterThreshold
  <2> QED
    BY <2>1, <2>2, <2>3
<1>2. CASE Resets
  BY <1>2, TripsReset DEF Resets, TC!ResetTrip
<1>3. CASE Dies
  BY <1>3 DEF Dies, TripsOK, TC!TypeOK, TC!FuelTakesTime, TC!ShownAfterThreshold
<1>4. CASE UNCHANGED tripVars
  BY <1>4 DEF tripVars, TripsOK, TC!TypeOK, TC!FuelTakesTime, TC!ShownAfterThreshold
<1> QED
  BY <1>1, <1>2, <1>3, <1>4, Steps
     DEF SampleLevel, SampleTime, SampleOdometer, CapiStore, Answers, Publishes,
         PublishLevel, PublishConsumption, PublishOdometer, Publish, CreateRoute,
         DeleteRoute, vars

\* Whatever is added to a counter is stored in its width.
LEMMA RollingAddType ==
  ASSUME NEW counter \in Ushort, NEW step \in Int
  PROVE  RollingAdd(counter, step) \in Ushort
<1> DEFINE x == IF counter + step > TC!USHRT_MAX
                THEN (counter + step) - TC!USHRT_MAX ELSE counter + step
<1>1. x \in Int
  BY SMTT(20) DEF Ushort, TC!USHRT_MAX
<1>2. RollingAdd(counter, step) = TC!U16(x)
  BY DEF RollingAdd
<1> HIDE DEF x
<1> QED
  BY <1>1, <1>2, U16Type, ZenonT(40)

\* So is the time, wherever the conversion of a step that is not negative ends.
LEMMA TimeSumsType ==
  ASSUME NEW counter \in Ushort, NEW step \in Nat
  PROVE  TimeSums(counter, step) \subseteq Ushort
<1> DEFINE max == TC!USHRT_MAX
           sum == counter + step
<1>1. max \in Nat \ {0} /\ Ushort = 0 .. max
  BY DEF TC!USHRT_MAX, Ushort
<1>2. counter \in Nat /\ counter <= max /\ sum \in Nat
  BY <1>1
<1> HIDE DEF max
<1>3. ASSUME NEW v \in Nat PROVE Converted(v) \subseteq Ushort
  BY <1>1, U16Type DEF Converted, max
<1>4. CASE step = 0
  BY <1>4 DEF TimeSums
<1>5. CASE step > 0 /\ sum <= max
  <2>1. sum - 1 \in Ushort /\ sum \in Ushort /\ 0 \in Ushort
    BY <1>1, <1>2, <1>5
  <2>2. TimeSums(counter, step) \subseteq {sum - 1, sum, 0}
    BY <1>1, <1>2, <1>5 DEF TimeSums, max
  <2> QED
    BY <2>1, <2>2
<1>6. CASE step > 0 /\ sum > max
  <2>1. sum - max - 1 \in Nat /\ sum - max \in Nat
    BY <1>1, <1>2, <1>6
  <2>2. TimeSums(counter, step) = Converted(sum - max - 1) \cup Converted(sum - max)
    BY <1>1, <1>2, <1>6 DEF TimeSums, max
  <2> QED
    BY <1>3, <2>1, <2>2
<1> QED
  BY <1>1, <1>2, <1>4, <1>5, <1>6

\* Until the broker has a time the counters stand still, then they advance.
LEMMA OdometerCases ==
  ASSUME TypeOK, SampleOdometer
  PROVE  /\ alive
         /\ sample.stage = "odometer"
         /\ sample'.stage = "consumption"
         /\ sample'.level = sample.level
         /\ sample'.time = sample.time
         /\ UNCHANGED <<tripVars, advisorVars, externalVars, fuelLevel, fed>>
         /\ initFlag' \in BOOLEAN
         /\ initFlag' => initFlag
         /\ lastTime' \in {lastTime, sample.time}
         /\ ~initFlag' => lastTime' = sample.time
         /\ \/ /\ initFlag
               /\ timeCounter' = 0
               /\ distanceCounter' = 0
               /\ sample' = [sample EXCEPT !.stage = "consumption"]
            \/ /\ ~initFlag
               /\ timeCounter' \in TimeSums(timeCounter, sample.time - lastTime)
               /\ distanceCounter' = RollingAdd(distanceCounter, amb.odometer)
               /\ sample' = [sample EXCEPT !.stage = "consumption",
                                           !.dt = sample.time - lastTime,
                                           !.dd = amb.odometer]
<1>0. /\ initFlag \in BOOLEAN
      /\ sample \in [stage : {"idle", "time", "odometer", "consumption", "store"},
                     level : Nat, time : Nat, dt : Nat, dd : Nat]
  BY DEF TypeOK
<1>1. CASE StartCounters
  <2>1. /\ initFlag
        /\ initFlag' \in BOOLEAN
        /\ initFlag' <=> sample.time = 0
    BY <1>1, Zenon DEF StartCounters
  <2>2. lastTime' = IF sample.time = 0 THEN lastTime ELSE sample.time
    BY <1>1, Zenon DEF StartCounters
  <2>3. /\ timeCounter' = 0
        /\ distanceCounter' = 0
        /\ sample' = [sample EXCEPT !.stage = "consumption"]
    BY <1>1, Zenon DEF StartCounters
  <2>4. /\ ~initFlag' => lastTime' = sample.time
        /\ lastTime' \in {lastTime, sample.time}
    BY <2>1, <2>2
  <2>5. sample'.stage = "consumption" /\ sample'.level = sample.level /\ sample'.time = sample.time
    BY <1>0, <2>3
  <2> QED
    BY <2>1, <2>3, <2>4, <2>5, Zenon DEF SampleOdometer
<1>2. CASE AdvanceCounters
  <2>1. ~initFlag /\ ~initFlag' /\ initFlag' \in BOOLEAN
    BY <1>0, <1>2 DEF AdvanceCounters
  <2>2. sample'.stage = "consumption" /\ sample'.level = sample.level /\ sample'.time = sample.time
    BY <1>0, <1>2 DEF AdvanceCounters
  <2> QED
    BY <1>2, <2>1, <2>2, Zenon DEF SampleOdometer, AdvanceCounters
<1> QED
  BY <1>1, <1>2, Zenon DEF SampleOdometer

\* Time goes forwards, as far as the advisor can see.
LEMMA TimesStep == ASSUME IInv, Step PROVE TimesOrdered'
<1> USE FuelStopAdvisorAssumption DEF IInv, TimesOrdered, TypeOK
<1>1. CASE SampleLevel
  BY <1>1 DEF SampleLevel, Idle, counterVars, externalVars
<1>2. CASE SampleTime
  BY <1>2 DEF SampleTime, counterVars, externalVars
<1>3. CASE SampleOdometer
  <2>1. amb' = amb /\ sample.stage = "odometer"
    BY <1>3, OdometerCases DEF externalVars
  <2>2. sample'.stage = "consumption"
    BY <1>3, OdometerCases
  <2>3. /\ initFlag' \in BOOLEAN
        /\ initFlag' => initFlag
        /\ ~initFlag' => lastTime' = sample.time
    BY <1>3, OdometerCases
  <2> QED
    BY <2>1, <2>2, <2>3
<1>4. CASE Refreshes
  BY <1>4 DEF Refreshes, Idle, counterVars, externalVars
<1>5. CASE CapiStore
  BY <1>5 DEF CapiStore, Idle, counterVars, externalVars
<1>6. CASE UNCHANGED <<counterVars, sample, amb>>
  BY <1>6 DEF counterVars
<1>7. CASE Publishes
  <2>1. CASE UNCHANGED <<counterVars, sample, amb.time>>
    BY <2>1 DEF counterVars
  <2>2. ASSUME NEW d \in Odometers, NEW ms \in Clocks, PublishOdometer(d, ms)
        PROVE  TimesOrdered'
    BY <2>2 DEF PublishOdometer, Publish, counterVars
  <2> QED
    BY <1>7, <2>1, <2>2 DEF Publishes, PublishLevel, PublishConsumption, Publish
<1>8. (\/ Dies \/ Answers \/ Resets \/ UNCHANGED vars
       \/ \E h \in Handles : CreateRoute(h) \/ DeleteRoute(h))
        => UNCHANGED <<counterVars, sample, amb>>
  BY DEF Dies, Answers, Resets, CreateRoute, DeleteRoute, vars, externalVars
<1> QED
  BY <1>1, <1>2, <1>3, <1>4, <1>5, <1>6, <1>7, <1>8, Steps

\* The widths of the advisor's own state, group by group.
SampleType ==
  sample \in [stage : {"idle", "time", "odometer", "consumption", "store"},
              level : Nat, time : Nat, dt : Nat, dd : Nat]
CounterTypes ==
  initFlag \in BOOLEAN /\ lastTime \in Nat /\ timeCounter \in Ushort /\ distanceCounter \in Ushort
LevelType == fuelLevel \in Nat
AnswerTypes ==
  /\ advisorMode \in BOOLEAN
  /\ distanceThreshold \in 0 .. 255
  /\ destinationCantBeReached \in BOOLEAN
  /\ routeHandle \in Handles \cup {NO_ROUTE}
  /\ warning \in BOOLEAN
  /\ judged \in [threshold : 0 .. 255, route : Handles \cup {NO_ROUTE}]
  /\ refused \in BOOLEAN
ExternalTypes ==
  /\ amb \in [level : Nat, time : Nat, odometer : Nat, consumption : Nat]
  /\ routes \subseteq Handles
  /\ published \in 0 .. MaxPublished
  /\ driven \in Nat
FedType == fed \in [time : Nat, distance : Nat]

\* The type invariant by the variables a step can change together.
LEMMA TypeGroups ==
  /\ TypeOK <=> /\ TC!TypeOK /\ SampleType /\ CounterTypes /\ LevelType
                /\ AnswerTypes /\ ExternalTypes /\ FedType
  /\ TypeOK' <=> /\ TC!TypeOK' /\ SampleType' /\ CounterTypes' /\ LevelType'
                 /\ AnswerTypes' /\ ExternalTypes' /\ FedType'
  BY Zenon DEF TypeOK, SampleType, CounterTypes, LevelType, AnswerTypes, ExternalTypes, FedType

\* A group that is left alone keeps its types.
LEMMA TypesKept ==
  ASSUME TypeOK
  PROVE  /\ UNCHANGED sample => SampleType'
         /\ UNCHANGED counterVars => CounterTypes'
         /\ UNCHANGED fuelLevel => LevelType'
         /\ UNCHANGED advisorVars => AnswerTypes'
         /\ UNCHANGED externalVars => ExternalTypes'
         /\ UNCHANGED fed => FedType'
<1>1. UNCHANGED sample => SampleType'
  BY TypeGroups DEF SampleType
<1>2. UNCHANGED counterVars => CounterTypes'
  BY TypeGroups, Zenon DEF CounterTypes, counterVars
<1>3. UNCHANGED advisorVars => AnswerTypes'
  BY TypeGroups, Zenon DEF AnswerTypes, advisorVars
<1>4. UNCHANGED externalVars => ExternalTypes'
  BY TypeGroups DEF ExternalTypes, externalVars
<1>5. (UNCHANGED fuelLevel => LevelType') /\ (UNCHANGED fed => FedType')
  BY TypeGroups DEF LevelType, FedType
<1> QED
  BY <1>1, <1>2, <1>3, <1>4, <1>5

\* The calls to the broker for the odometer: a step in time is never negative.
LEMMA OdometerTypes ==
  ASSUME TypeOK, TimesOrdered, SampleOdometer
  PROVE  SampleType' /\ CounterTypes'
<1>1. SampleType /\ CounterTypes /\ ExternalTypes
  BY TypeGroups
<1>2. initFlag' \in BOOLEAN /\ lastTime' \in Nat
  BY <1>1, OdometerCases DEF CounterTypes, SampleType
<1>3. CASE initFlag
  <2>1. timeCounter' = 0 /\ distanceCounter' = 0
    BY <1>3, OdometerCases
  <2>2. 0 \in Ushort
    BY DEF Ushort, TC!USHRT_MAX
  <2>3. sample' = [sample EXCEPT !.stage = "consumption"]
    BY <1>3, OdometerCases
  <2>4. SampleType'
    BY <1>1, <2>3 DEF SampleType
  <2> QED
    BY <1>2, <2>1, <2>2, <2>4 DEF CounterTypes
<1>4. CASE ~initFlag
  <2>1. lastTime <= sample.time
    BY <1>4, OdometerCases DEF TimesOrdered
  <2>2. sample.time - lastTime \in Nat /\ amb.odometer \in Nat
    BY <1>1, <2>1 DEF SampleType, CounterTypes, ExternalTypes
  <2>3. /\ timeCounter' \in TimeSums(timeCounter, sample.time - lastTime)
        /\ distanceCounter' = RollingAdd(distanceCounter, amb.odometer)
        /\ sample' = [sample EXCEPT !.stage = "consumption",
                                    !.dt = sample.time - lastTime,
                                    !.dd = amb.odometer]
    BY <1>4, OdometerCases
  <2>4. timeCounter' \in Ushort /\ distanceCounter' \in Ushort
    BY <1>1, <2>2, <2>3, RollingAddType, TimeSumsType DEF CounterTypes
  <2>5. SampleType'
    BY <1>1, <2>2, <2>3 DEF SampleType
  <2> QED
    BY <1>2, <2>4, <2>5 DEF CounterTypes
<1> QED
  BY <1>3, <1>4

\* What the broker publishes has the types of what it publishes.
LEMMA PublishTypes ==
  ASSUME ExternalTypes, Publishes
  PROVE  ExternalTypes'
<1>1. ASSUME NEW answer \in [level : Nat, time : Nat, odometer : Nat, consumption : Nat],
             NEW step \in Nat, Publish(answer, step)
      PROVE  ExternalTypes'
  <2>1. amb' = answer /\ routes' = routes
    BY <1>1 DEF Publish
  <2>2. driven' \in Nat
    BY <1>1 DEF Publish, ExternalTypes
  <2>3. published' \in 0 .. MaxPublished
    BY <1>1, FuelStopAdvisorAssumption DEF Publish, ExternalTypes
  <2> QED
    BY <2>1, <2>2, <2>3 DEF ExternalTypes
<1>2. amb \in [level : Nat, time : Nat, odometer : Nat, consumption : Nat]
  BY DEF ExternalTypes
<1>3. /\ \A l \in Levels : l \in Nat
      /\ \A c \in Rates : c \in Nat
      /\ \A d \in Odometers : d \in Nat
      /\ \A ms \in Clocks : ms \in Nat
  BY FuelStopAdvisorAssumption
<1>4. ASSUME NEW l \in Levels, PublishLevel(l)
      PROVE  ExternalTypes'
  <2>1. [amb EXCEPT !.level = l] \in [level : Nat, time : Nat, odometer : Nat, consumption : Nat]
    BY <1>2, <1>3
  <2> QED
    BY <1>1, <1>4, <2>1 DEF PublishLevel
<1>5. ASSUME NEW c \in Rates, PublishConsumption(c)
      PROVE  ExternalTypes'
  <2>1. [amb EXCEPT !.consumption = c]
          \in [level : Nat, time : Nat, odometer : Nat, consumption : Nat]
    BY <1>2, <1>3
  <2> QED
    BY <1>1, <1>5, <2>1 DEF PublishConsumption
<1>6. ASSUME NEW d \in Odometers, NEW ms \in Clocks, PublishOdometer(d, ms)
      PROVE  ExternalTypes'
  <2>1. [amb EXCEPT !.odometer = d, !.time = @ + ms]
          \in [level : Nat, time : Nat, odometer : Nat, consumption : Nat]
    <3>1. d \in Nat /\ amb.time + ms \in Nat
      BY <1>2, <1>3
    <3> QED
      BY <1>2, <3>1
  <2> QED
    BY <1>1, <1>3, <1>6, <2>1 DEF PublishOdometer
<1> QED
  BY <1>4, <1>5, <1>6 DEF Publishes

\* The widths are kept by every step.
LEMMA TypesStep == ASSUME IInv, Step PROVE TypeOK'
<1>0. TypeOK /\ TimesOrdered /\ TC!TypeOK'
  BY TripsStep DEF TripsOK, IInv
<1> USE TypesKept, TypeGroups, <1>0
<1>1. CASE SampleLevel \/ SampleTime
  <2>1. SampleType'
    <3>1. SampleType /\ amb.level \in Nat /\ amb.time \in Nat
      BY TypeGroups DEF ExternalTypes
    <3>2. CASE SampleLevel
      BY <3>1, <3>2 DEF SampleLevel, Idle, SampleType
    <3>3. CASE SampleTime
      BY <3>1, <3>3 DEF SampleTime, SampleType
    <3> QED
      BY <1>1, <3>2, <3>3
  <2> QED
    BY <1>1, <2>1 DEF SampleLevel, SampleTime
<1>2. CASE SampleOdometer
  BY <1>2, OdometerCases, OdometerTypes
<1>3. CASE Refreshes
  <2>1. fed' \in {fed, [time |-> fed.time + sample.dt, distance |-> fed.distance + sample.dd]}
    BY <1>3, Zenon DEF Refreshes, RefreshTrips
  <2>2. FedType'
    BY <2>1 DEF FedType, SampleType
  <2>3. LevelType'
    BY <1>3 DEF Refreshes, LevelType, SampleType
  <2>4. SampleType'
    BY <1>3 DEF Refreshes, SampleType, Idle
  <2> QED
    BY <1>3, <2>2, <2>3, <2>4 DEF Refreshes
<1>4. CASE CapiStore
  <2>1. SampleType' /\ LevelType'
    BY <1>4 DEF CapiStore, StoreLevel, Idle, SampleType, LevelType
  <2> QED
    BY <1>4, <2>1 DEF CapiStore
<1>5. CASE Answers
  <2>1. AnswerTypes'
    BY <1>5, Zenon DEF Answers, AnswerTypes
  <2> QED
    BY <1>5, <2>1 DEF Answers
<1>6. CASE Publishes
  <2>1. UNCHANGED <<counterVars, advisorVars, sample, fuelLevel, fed>>
    BY <1>6, Zenon DEF Publishes, PublishLevel, PublishConsumption, PublishOdometer, Publish
  <2>2. ExternalTypes'
    BY <1>6, PublishTypes
  <2> QED
    BY <2>1, <2>2
<1>7. CASE \E h \in Handles : CreateRoute(h) \/ DeleteRoute(h)
  <2>1. ExternalTypes'
    BY <1>7 DEF CreateRoute, DeleteRoute, ExternalTypes
  <2> QED
    BY <1>7, <2>1 DEF CreateRoute, DeleteRoute
<1>8. CASE UNCHANGED <<counterVars, advisorVars, externalVars, sample, fuelLevel, fed>>
  BY <1>8
<1> QED
  BY <1>1, <1>2, <1>3, <1>4, <1>5, <1>6, <1>7, <1>8, Steps DEF Dies, Resets, vars

(***************************************************************************)
(* The fuel level.                                                         *)
(***************************************************************************)

\* The level not stored yet is the one the trip computer has.
LEMMA StoreStep == ASSUME IInv, Step PROVE StoreAgrees'
<1>0. StoreAgrees /\ SampleType
  BY TypeGroups DEF IInv
<1>1. CASE SampleLevel \/ SampleTime
  <2>1. sample'.stage # "store"
    BY <1>0, <1>1 DEF SampleLevel, SampleTime, Idle, SampleType
  <2> QED
    BY <2>1 DEF StoreAgrees
<1>2. CASE SampleOdometer
  BY <1>2, OdometerCases DEF StoreAgrees, IInv
<1>3. CASE Refreshes
  <2>1. PICK in \in TC!TripInput : /\ in.fuelLevel = TC!U16(sample.level * 10)
                                   /\ TC!NextRefresh(in) \/ TC!FaultyRefresh(in)
    BY <1>3, RefreshCases
  <2>2. sample' = Idle \/ sample' = [sample EXCEPT !.stage = "store"]
    BY <1>3 DEF Refreshes
  <2>3. sample'.stage = "store" => sample'.level = sample.level
    BY <1>0, <2>2 DEF SampleType, Idle
  <2>4. alive' => last' = in
    BY <2>1 DEF TC!NextRefresh, TC!FaultyRefresh
  <2> QED
    BY <2>1, <2>3, <2>4 DEF StoreAgrees
<1>4. CASE CapiStore
  BY <1>4 DEF CapiStore, Idle, StoreAgrees
<1>5. CASE Dies
  BY <1>5 DEF Dies, StoreAgrees
<1>6. CASE Resets
  BY <1>0, <1>6 DEF Resets, TC!ResetTrip, StoreAgrees
<1>7. CASE UNCHANGED <<tripVars, sample>>
  BY <1>0, <1>7 DEF tripVars, StoreAgrees
<1>8. Publishes => UNCHANGED <<tripVars, sample>>
  BY Zenon DEF Publishes, PublishLevel, PublishConsumption, PublishOdometer, Publish
<1> QED
  BY <1>1, <1>2, <1>3, <1>4, <1>5, <1>6, <1>7, <1>8, Steps
     DEF IInv, Answers, CreateRoute, DeleteRoute, vars

\* Nothing is shown after a reset, and no other figure changes.
LEMMA ResetShown ==
  ASSUME TripsOK, Resets
  PROVE  \A n \in TC!Trips :
           /\ shown'[n].tankDistance \in {shown[n].tankDistance, UNDEFINED}
           /\ basic'[n].tripDistance \in {basic[n].tripDistance, 0}
<1>1. PICK k \in TC!Trips : TC!ResetTrip(k)
  BY DEF Resets
<1>2. basic \in [TC!Trips -> TC!BasicData] /\ shown \in [TC!Trips -> TC!ShownData]
  BY DEF TripsOK, TC!TypeOK
<1>3. /\ shown' = [shown EXCEPT ![k] = TC!Nothing]
      /\ TC!Nothing.tankDistance = UNDEFINED
  BY <1>1 DEF TC!ResetTrip, TC!Nothing
<1>4. \A n \in TC!Trips : shown'[n].tankDistance \in {shown[n].tankDistance, UNDEFINED}
  BY <1>2, <1>3
<1> DEFINE cleared == [basic[k] EXCEPT !.tripFuel = 0, !.tripTime = 0, !.tripDistance = 0]
<1>5. basic' = [basic EXCEPT ![k] = cleared]
  BY <1>1, <1>2 DEF TC!ResetTrip
<1>6. cleared.tripDistance = 0
  BY <1>2 DEF TC!BasicData
<1> HIDE DEF cleared
<1>7. \A n \in TC!Trips : basic'[n].tripDistance \in {basic[n].tripDistance, 0}
  BY <1>2, <1>5, <1>6
<1> QED
  BY <1>4, <1>7

\* The level told with a tank distance is the one it was computed from.
LEMMA ShownLevelStep == ASSUME IInv, Step PROVE TankDistanceUsesShownLevel'
<1> USE DEF TankDistanceUsesShownLevel, TC!InstantData
<1>0. TankDistanceUsesShownLevel /\ StoreAgrees /\ SampleType /\ TripsOK
  BY TypeGroups DEF IInv
<1>1. CASE SampleLevel \/ SampleTime \/ SampleOdometer
  <2>1. sample.stage # "store" /\ UNCHANGED <<tripVars, fuelLevel>>
    BY <1>1, OdometerCases DEF SampleLevel, SampleTime, IInv
  <2> QED
    BY <1>0, <2>1 DEF tripVars
<1>2. CASE Refreshes
  <2>1. PICK in \in TC!TripInput : /\ in.fuelLevel = TC!U16(sample.level * 10)
                                   /\ TC!NextRefresh(in) \/ TC!FaultyRefresh(in)
    BY <1>2, RefreshCases
  <2>2. alive' => last' = in
    BY <2>1 DEF TC!NextRefresh, TC!FaultyRefresh
  <2>3. alive' /\ sample'.stage # "store" => fuelLevel' = sample.level
    BY <1>0, <1>2 DEF Refreshes, SampleType
  <2> QED
    BY <2>1, <2>2, <2>3
<1>3. CASE CapiStore
  BY <1>0, <1>3 DEF CapiStore, StoreLevel, StoreAgrees, tripVars
<1>4. CASE Dies
  BY <1>4 DEF Dies
<1>5. CASE Resets
  <2>1. shown'[TC!TRIP_NUMBER_1].tankDistance
          \in {shown[TC!TRIP_NUMBER_1].tankDistance, UNDEFINED}
    BY <1>0, <1>5, ResetShown DEF TC!Trips
  <2>2. UNCHANGED <<last, alive, sample, fuelLevel>>
    BY <1>5 DEF Resets, TC!ResetTrip
  <2> QED
    BY <1>0, <2>1, <2>2
<1>6. CASE UNCHANGED <<tripVars, sample, fuelLevel>>
  BY <1>0, <1>6 DEF tripVars
<1>7. Publishes => UNCHANGED <<tripVars, sample, fuelLevel>>
  BY Zenon DEF Publishes, PublishLevel, PublishConsumption, PublishOdometer, Publish
<1> QED
  BY <1>1, <1>2, <1>3, <1>4, <1>5, <1>6, <1>7, Steps
     DEF IInv, Answers, CreateRoute, DeleteRoute, vars

\* A trip that has not moved does not move in a refresh without distance.
LEMMA RefreshWithoutDistance ==
  ASSUME IInv, NothingMoved, NEW in \in TC!TripInput, in.distance = distanceCounter,
         TC!NextRefresh(in), TripsOK'
  PROVE  /\ last'.distance = 0
         /\ \A n \in TC!Trips : /\ basic'[n].tripDistance = 0
                                /\ shown'[n].tankDistance = UNDEFINED
<1>1. TC!DistanceStep(in) = 0
  BY DEF TC!DistanceStep, TC!RollingDelta, NothingMoved
<1>2. last' = in
  BY DEF TC!NextRefresh
<1>3. ASSUME NEW n \in TC!Trips
      PROVE  basic'[n].tripDistance = 0 /\ shown'[n].tankDistance = UNDEFINED
  <2>1. /\ basic[n] \in TC!BasicData /\ shown[n] \in TC!ShownData
        /\ basic'[n] \in TC!BasicData
        /\ basic'[n].tripFuel > 0 => basic'[n].tripTime > 0
    BY DEF IInv, TripsOK, TC!TypeOK, TC!FuelTakesTime
  <2>2. basic'[n].tripDistance = basic[n].tripDistance + 0
    <3>1. basic'[n] = TC!RefreshedBasic(basic[n], TC!TimeStep(in), TC!DistanceStep(in),
                                        TC!FuelStep(in))
      BY DEF TC!NextRefresh
    <3> QED
      BY <1>1, <2>1, <3>1, RefreshedTotals
  <2>3. basic'[n].tripDistance = 0
    BY <2>2 DEF NothingMoved
  <2>4. ~TC!Metered(basic'[n])
    BY <2>3 DEF TC!Metered, TC!PastThreshold, TC!DISTANCE_THRESHOLD
  <2>5. shown'[n] = TC!RefreshedShown(shown[n], basic'[n], in.fuelLevel)
    BY DEF TC!NextRefresh
  <2>6. in.fuelLevel \in 0 .. TC!USHRT_MAX
    BY DEF TC!TripInput
  <2>7. shown'[n].tankDistance = shown[n].tankDistance
    BY <2>1, <2>4, <2>5, <2>6, ShownWithoutFigures
  <2> QED
    BY <2>3, <2>7 DEF NothingMoved
<1> QED
  BY <1>1, <1>2, <1>3 DEF NothingMoved

\* Nothing is shown until the first level is stored.
LEMMA UntoldStep ==
  ASSUME IInv, Step, alive', fuelLevel' \notin Sampled
  PROVE  NothingMoved'
<1>0. /\ TripsOK /\ TripsOK' /\ SampleType
      /\ sample.level \in Sampled
      /\ alive => fuelLevel \in Sampled \/ NothingMoved
  BY TypeGroups, TripsStep DEF IInv, LevelsSampled
<1>1. CASE SampleLevel \/ SampleTime
  <2>1. /\ alive /\ UNCHANGED <<tripVars, counterVars, fuelLevel>>
        /\ sample.stage \in {"idle", "time"}
    BY <1>1 DEF SampleLevel, SampleTime
  <2> QED
    BY <1>0, <2>1 DEF NothingMoved, tripVars, counterVars
<1>2. CASE SampleOdometer
  <2>1. /\ alive /\ sample.stage = "odometer" /\ sample'.stage = "consumption"
        /\ UNCHANGED <<tripVars, fuelLevel>>
    BY <1>2, OdometerCases DEF IInv
  <2>2. NothingMoved /\ initFlag
    BY <1>0, <2>1 DEF NothingMoved
  <2>3. distanceCounter' = 0
    BY <1>2, <2>2, OdometerCases DEF IInv
  <2> QED
    BY <2>1, <2>2, <2>3 DEF NothingMoved, tripVars
<1>3. CASE Refreshes
  <2>1. PICK in \in TC!TripInput : /\ in.distance = distanceCounter
                                   /\ TC!NextRefresh(in) \/ TC!FaultyRefresh(in)
    BY <1>3, RefreshCases
  <2>2. TC!NextRefresh(in)
    BY <2>1 DEF TC!FaultyRefresh
  <2>3. alive /\ distanceCounter' = distanceCounter
    BY <1>3, RefreshCases DEF Refreshes, counterVars
  <2>4. fuelLevel' = fuelLevel /\ sample' = [sample EXCEPT !.stage = "store"]
    BY <1>0, <1>3 DEF Refreshes
  <2>5. NothingMoved
    BY <1>0, <2>3, <2>4
  <2>6. /\ last'.distance = 0
        /\ \A n \in TC!Trips : basic'[n].tripDistance = 0 /\ shown'[n].tankDistance = UNDEFINED
    BY <1>0, <2>1, <2>2, <2>5, RefreshWithoutDistance
  <2>7. sample'.stage = "store"
    BY <1>0, <2>4 DEF SampleType
  <2> QED
    BY <2>3, <2>5, <2>6, <2>7 DEF NothingMoved
<1>4. CASE CapiStore
  BY <1>0, <1>4 DEF CapiStore, StoreLevel
<1>5. CASE Dies
  BY <1>5 DEF Dies
<1>6. CASE Resets
  <2>1. alive /\ UNCHANGED <<counterVars, last, sample, fuelLevel>>
    BY <1>6 DEF Resets, TC!ResetTrip
  <2>2. NothingMoved
    BY <1>0, <2>1
  <2>3. \A n \in TC!Trips : basic'[n].tripDistance = 0 /\ shown'[n].tankDistance = UNDEFINED
    BY <1>0, <1>6, <2>2, ResetShown DEF NothingMoved
  <2> QED
    BY <2>1, <2>2, <2>3 DEF NothingMoved, counterVars
<1>7. CASE UNCHANGED <<tripVars, counterVars, sample, fuelLevel>>
  BY <1>0, <1>7 DEF NothingMoved, tripVars, counterVars
<1>8. Publishes => UNCHANGED <<tripVars, counterVars, sample, fuelLevel>>
  BY Zenon DEF Publishes, PublishLevel, PublishConsumption, PublishOdometer, Publish
<1> QED
  BY <1>1, <1>2, <1>3, <1>4, <1>5, <1>6, <1>7, <1>8, Steps
     DEF IInv, Answers, CreateRoute, DeleteRoute, vars

\* The levels kept are those of the broker.
LEMMA LevelsStep == ASSUME IInv, Step PROVE LevelsSampled'
<1>0. /\ SampleType /\ ExternalTypes
      /\ amb.level \in Sampled /\ sample.level \in Sampled /\ 0 \in Sampled
  BY TypeGroups DEF IInv, LevelsSampled, Sampled
<1>1. amb'.level \in Sampled
  <2>1. CASE Publishes
    <3>1. \/ \E l \in Levels : amb' = [amb EXCEPT !.level = l]
          \/ \E c \in Rates : amb' = [amb EXCEPT !.consumption = c]
          \/ \E d \in Odometers, ms \in Clocks :
               amb' = [amb EXCEPT !.odometer = d, !.time = @ + ms]
      BY <2>1, Zenon DEF Publishes, PublishLevel, PublishConsumption, PublishOdometer, Publish
    <3> QED
      BY <1>0, <3>1 DEF Sampled, ExternalTypes
  <2>2. CASE UNCHANGED amb
    BY <1>0, <2>2
  <2> QED
    BY <2>1, <2>2, Steps, OdometerCases
       DEF IInv, SampleLevel, SampleTime, Refreshes, CapiStore, Dies, Answers, Resets,
           CreateRoute, DeleteRoute, externalVars, vars
<1>2. sample'.level \in Sampled
  <2>1. CASE SampleLevel
    BY <1>0, <2>1 DEF SampleLevel, Idle
  <2>2. CASE SampleTime
    BY <1>0, <2>2 DEF SampleTime, SampleType
  <2>3. CASE SampleOdometer
    BY <1>0, <2>3, OdometerCases DEF IInv
  <2>4. CASE Refreshes \/ CapiStore
    BY <1>0, <2>4 DEF Refreshes, CapiStore, Idle, SampleType
  <2>5. CASE UNCHANGED sample
    BY <1>0, <2>5
  <2>6. Publishes => UNCHANGED sample
    BY Zenon DEF Publishes, PublishLevel, PublishConsumption, PublishOdometer, Publish
  <2> QED
    BY <2>1, <2>2, <2>3, <2>4, <2>5, <2>6, Steps
       DEF IInv, Dies, Answers, Resets, CreateRoute, DeleteRoute, vars
<1> QED
  BY <1>1, <1>2, UntoldStep DEF LevelsSampled

\* Only an answer changes what the flag stands beside.
LEMMA AnswerStep == ASSUME IInv, Step PROVE AnswerBelongsTogether'
<1>1. CASE UNCHANGED advisorVars /\ (alive' => alive)
  BY <1>1 DEF advisorVars, AnswerBelongsTogether, IInv
<1>2. CASE Answers
  BY <1>2 DEF Answers
<1>3. Publishes => UNCHANGED <<advisorVars, tripVars>>
  BY Zenon DEF Publishes, PublishLevel, PublishConsumption, PublishOdometer, Publish
<1>4. Resets => UNCHANGED <<advisorVars, alive>>
  BY DEF Resets, TC!ResetTrip
<1>5. Refreshes => UNCHANGED advisorVars /\ alive
  BY RefreshCases DEF Refreshes
<1>6. Dies => UNCHANGED advisorVars /\ ~alive'
  BY DEF Dies
<1> QED
  BY <1>1, <1>2, <1>3, <1>4, <1>5, <1>6, Steps, OdometerCases
     DEF IInv, SampleLevel, SampleTime, CapiStore, CreateRoute, DeleteRoute, vars, tripVars

(***************************************************************************)
(* The theorems.                                                           *)
(***************************************************************************)

\* The constructor leaves a state of the invariant, whatever the memory of
\* m_fuelLevel held.
THEOREM InvariantInit == Init => IInv
<1> SUFFICES ASSUME Init PROVE IInv
  OBVIOUS
<1> DEFINE start == TC!INSTANT_FUEL_CONSUMPTION_START_VALUE
<1>1. /\ TC!Fresh(start) \in TC!BasicData
      /\ TC!Fresh(start).tripFuel = 0 /\ TC!Fresh(start).tripDistance = 0
  BY DEF TC!Fresh, TC!BasicData, TC!INSTANT_FUEL_CONSUMPTION_START_VALUE, TC!USHRT_MAX,
         TC!INSTANT_FUEL_CONSUMPTION_COEFFICIENT, TC!LAST_QUARTER_FUEL_CONSUMPTION_COEFFICIENT
<1>2. TC!Nothing \in TC!ShownData
  <2>1. UNDEFINED \in 0 .. TC!USHRT_MAX /\ UNDEFINED32 \in Nat
    BY FuelStopAdvisorAssumption DEF TC!USHRT_MAX
  <2> QED
    BY <2>1, SMTT(20) DEF TC!Nothing, TC!ShownData
<1>3. TC!ZeroInput \in TC!TripInput /\ TC!ZeroInput.distance = 0
  BY SMTT(20) DEF TC!ZeroInput, TC!TripInput, TC!USHRT_MAX
<1>4. /\ basic = [n \in TC!Trips |-> TC!Fresh(start)]
      /\ shown = [n \in TC!Trips |-> TC!Nothing]
      /\ last = TC!ZeroInput
  BY DEF Init
<1>5. /\ firstRefresh = FALSE /\ alive = TRUE /\ initFlag = TRUE
      /\ advisorMode = FALSE /\ destinationCantBeReached = FALSE /\ warning = FALSE
      /\ refused = FALSE
  BY DEF Init
<1>6. /\ refreshes = 0 /\ lastTime = 0 /\ timeCounter = 0 /\ distanceCounter = 0
      /\ distanceThreshold = 0 /\ routeHandle = NO_ROUTE
      /\ routes = {} /\ published = 0 /\ driven = 0
  BY DEF Init
<1>7. /\ amb = [level |-> 0, time |-> 0, odometer |-> 0, consumption |-> 0]
      /\ fed = [time |-> 0, distance |-> 0]
      /\ sample = [stage |-> "idle", level |-> 0, time |-> 0, dt |-> 0, dd |-> 0]
      /\ fuelLevel \in Nat
  BY FuelStopAdvisorAssumption DEF Init, Idle
<1>8. MaxRefreshes \in Nat /\ MaxPublished \in Nat
  BY FuelStopAdvisorAssumption
<1> HIDE DEF start
<1>9. TripsOK
  <2>1. basic \in [TC!Trips -> TC!BasicData] /\ shown \in [TC!Trips -> TC!ShownData]
    BY <1>1, <1>2, <1>4
  <2>2. last \in TC!TripInput /\ refreshes \in 0 .. MaxRefreshes
    BY <1>3, <1>4, <1>6, <1>8
  <2>3. alive \in BOOLEAN /\ firstRefresh \in BOOLEAN
    BY <1>5, Zenon
  <2>4. TC!TypeOK
    BY <2>1, <2>2, <2>3, Zenon DEF TC!TypeOK
  <2>5. TC!FuelTakesTime
    BY <1>1, <1>4 DEF TC!FuelTakesTime
  <2>6. TC!ShownAfterThreshold
    BY <1>4 DEF TC!ShownAfterThreshold, TC!Nothing
  <2> QED
    BY <2>4, <2>5, <2>6 DEF TripsOK
<1>10. TypeOK
  <2>1. SampleType /\ FedType /\ LevelType
    BY <1>7 DEF SampleType, FedType, LevelType
  <2>2. CounterTypes
    <3>1. initFlag \in BOOLEAN
      BY <1>5, Zenon
    <3> QED
      BY <1>6, <3>1 DEF CounterTypes, Ushort, TC!USHRT_MAX
  <2>3. AnswerTypes
    <3>1. /\ advisorMode \in BOOLEAN /\ destinationCantBeReached \in BOOLEAN
          /\ warning \in BOOLEAN /\ refused \in BOOLEAN
      BY <1>5, Zenon
    <3>2. distanceThreshold \in 0 .. 255 /\ routeHandle \in Handles \cup {NO_ROUTE}
      BY <1>6
    <3>3. judged \in [threshold : 0 .. 255, route : Handles \cup {NO_ROUTE}]
      BY DEF Init
    <3> QED
      BY <3>1, <3>2, <3>3, Zenon DEF AnswerTypes
  <2>4. ExternalTypes
    BY <1>6, <1>7, <1>8 DEF ExternalTypes
  <2> QED
    BY <1>9, <2>1, <2>2, <2>3, <2>4, TypeGroups DEF TripsOK
<1>11. TimesOrdered
  BY <1>5, <1>7 DEF TimesOrdered
<1>12. StoreAgrees
  BY <1>7 DEF StoreAgrees
<1>13. NothingMoved
  BY <1>1, <1>3, <1>4, <1>5, <1>6 DEF NothingMoved, TC!Nothing
<1>14. LevelsSampled
  BY <1>7, <1>13 DEF LevelsSampled, Sampled
<1>15. TankDistanceUsesShownLevel
  BY <1>4 DEF TankDistanceUsesShownLevel, TC!InstantData, TC!Trips, TC!Nothing
<1>16. AnswerBelongsTogether
  BY <1>5, Zenon DEF AnswerBelongsTogether
<1> QED
  BY <1>5, <1>9, <1>10, <1>11, <1>12, <1>14, <1>15, <1>16, Zenon DEF IInv

\* Whatever the two timers, the methods of either binding, the broker and the
\* routing engine do preserves the invariant.
THEOREM InvariantStep == IInv /\ Step => IInv'
<1> SUFFICES ASSUME IInv, Step PROVE IInv'
  OBVIOUS
<1>1. TripsOK' /\ firstRefresh' = FALSE
  BY TripsStep
<1>2. TypeOK' /\ TimesOrdered'
  BY TypesStep, TimesStep
<1>3. StoreAgrees' /\ LevelsSampled'
  BY StoreStep, LevelsStep
<1>4. TankDistanceUsesShownLevel' /\ AnswerBelongsTogether'
  BY ShownLevelStep, AnswerStep
<1> QED
  BY <1>1, <1>2, <1>3, <1>4, Zenon DEF IInv

\* The runs' specification takes no other steps.
LEMMA BindingSteps == [MCNext]_mcVars => Step
  BY DEF MCNext, mcVars, Step

\* The invariant holds over D-Bus and over CommonAPI.
THEOREM InvariantHolds == MCSpec => []IInv
<1>1. MCInit => IInv
  BY InvariantInit DEF MCInit
<1>2. IInv /\ [MCNext]_mcVars => IInv'
  BY InvariantStep, BindingSteps
<1> QED
  BY <1>1, <1>2, PTL DEF MCSpec

\* Every counter keeps the width the code gives it, and a time step that
\* feeds one is never negative.
THEOREM TypeCorrect == MCSpec => []TypeOK
<1>1. IInv => TypeOK
  BY DEF IInv
<1> QED
  BY InvariantHolds, <1>1, PTL

\* Outside the window between refresh and store, the fuel level told beside a
\* tank distance is the one it was computed from.
THEOREM LevelIsTheOneUsed == MCSpec => []TankDistanceUsesShownLevel
<1>1. IInv => TankDistanceUsesShownLevel
  BY DEF IInv
<1> QED
  BY InvariantHolds, <1>1, PTL

\* At no time is the unassigned m_fuelLevel told beside a tank distance, not
\* even inside that window.
THEOREM LevelIsNeverUnassigned == MCSpec => []ToldLevelWasSampled
<1>1. IInv => ToldLevelWasSampled
  BY DEF IInv, LevelsSampled, NothingMoved, Sampled, ToldLevelWasSampled, TC!InstantData,
         TC!Trips
<1> QED
  BY InvariantHolds, <1>1, PTL

\* While the advisor is on, the flag a client reads is the assessment of the
\* threshold it reads beside it and of the route that is set, unless a method
\* was refused since.
THEOREM FlagIsOfTheseSettings == MCSpec => []AnswerBelongsTogether
<1>1. IInv => AnswerBelongsTogether
  BY DEF IInv
<1> QED
  BY InvariantHolds, <1>1, PTL

(***************************************************************************)
(* The trip meter.                                                         *)
(***************************************************************************)

\* One unit more per wrap in a build where the undefined value is 0.
Excess == IF UNDEFINED = TC!USHRT_MAX THEN 0 ELSE 1

\* A negative value is stored as what is left of the range.
LEMMA U16Negative ==
  ASSUME NEW x \in Int, x < 0, x + TC!USHRT_MAX + 1 >= 0
  PROVE  TC!U16(x) = x + TC!USHRT_MAX + 1
  BY SMTT(30) DEF TC!U16, TC!USHRT_MAX

\* What the trip computer finds between two values of a counter.
LEMMA RollingDeltaValue ==
  ASSUME NEW now \in Ushort, NEW before \in Ushort
  PROVE  TC!RollingDelta(now, before) =
           IF now >= before THEN now - before ELSE TC!USHRT_MAX + Excess - before + now
<1> DEFINE max  == TC!USHRT_MAX
           back == UNDEFINED - before + now
<1>1. UNDEFINED \in {0, max} /\ max \in Nat \ {0}
  BY FuelStopAdvisorAssumption DEF TC!USHRT_MAX
<1>2. Ushort = 0 .. max
  BY DEF Ushort
<1>3. TC!RollingDelta(now, before) = IF now >= before THEN now - before ELSE TC!U16(back)
  BY DEF TC!RollingDelta
<1>4. Excess = IF UNDEFINED = max THEN 0 ELSE 1
  BY DEF Excess
<1>5. \A x \in Int : x < 0 /\ x + max + 1 >= 0 => TC!U16(x) = x + max + 1
  BY U16Negative
<1> HIDE DEF max, back
<1>6. CASE now >= before
  BY <1>3, <1>6 DEF max
<1>7. CASE ~(now >= before) /\ UNDEFINED = max
  <2>1. back = max - before + now /\ back \in Ushort
    BY <1>1, <1>2, <1>7 DEF back
  <2>2. TC!U16(back) = back
    BY <2>1, U16Type
  <2> QED
    BY <1>1, <1>2, <1>3, <1>4, <1>7, <2>1, <2>2 DEF max
<1>8. CASE ~(now >= before) /\ UNDEFINED = 0 /\ UNDEFINED # max
  <2>1. back = now - before /\ back \in Int /\ back < 0 /\ back + max + 1 >= 0
    BY <1>1, <1>2, <1>8 DEF back
  <2>2. TC!U16(back) = back + max + 1
    BY <1>5, <2>1
  <2> QED
    BY <1>1, <1>2, <1>3, <1>4, <1>8, <2>1, <2>2 DEF max
<1> QED
  BY <1>1, <1>6, <1>7, <1>8

\* The two sides of the distance counter fit: what the advisor adds to it is
\* what the trip computer finds, as far as the counter can hold it.
LEMMA DistanceRolls ==
  ASSUME NEW counter \in Ushort, NEW step \in Nat
  PROVE  TC!RollingDelta(RollingAdd(counter, step), counter) \in Meter!Distances(step)
<1> DEFINE max == TC!USHRT_MAX
           sum == counter + step
           now == RollingAdd(counter, step)
           x   == IF sum > max THEN sum - max ELSE sum
<1>1. max \in Nat \ {0} /\ Ushort = 0 .. max /\ Excess \in {0, 1}
  BY DEF TC!USHRT_MAX, Ushort, Excess
<1>2. counter \in Nat /\ counter <= max /\ sum \in Nat
  BY <1>1
<1>3. now \in Ushort
  BY RollingAddType
<1>4. now = TC!U16(x)
  <2>1. RollingAdd(counter, step) = TC!U16(x)
    BY DEF RollingAdd
  <2> QED
    BY <2>1
<1>5. TC!RollingDelta(now, counter) =
        IF now >= counter THEN now - counter ELSE max + Excess - counter + now
  BY <1>3, RollingDeltaValue
<1>6. Meter!Distances(step) = CASE step = 0                -> {0}
                                [] 0 < step /\ step < max  -> step .. step + Excess
                                [] step >= max             -> 0 .. max
  BY DEF Meter!Distances, Excess
<1> HIDE DEF max, now
<1>7. CASE step >= max
  <2>1. Meter!Distances(step) = 0 .. max
    BY <1>1, <1>6, <1>7
  <2> QED
    BY <1>1, <1>3, <2>1, RollingDeltaType DEF now
<1>8. CASE step < max /\ sum <= max
  <2>1. now = sum
    BY <1>1, <1>2, <1>4, <1>8, U16Type
  <2>2. TC!RollingDelta(now, counter) = step
    BY <1>1, <1>2, <1>5, <2>1
  <2>3. step \in Meter!Distances(step)
    BY <1>1, <1>6, <1>8
  <2> QED
    BY <2>2, <2>3 DEF now
<1>9. CASE step < max /\ sum > max
  <2>1. sum - max \in Ushort /\ sum - max < counter
    BY <1>1, <1>2, <1>9
  <2>2. now = sum - max
    BY <1>1, <1>2, <1>4, <1>9, <2>1, U16Type
  <2>3. TC!RollingDelta(now, counter) = step + Excess
    BY <1>1, <1>2, <1>5, <2>1, <2>2
  <2>4. step > 0
    BY <1>1, <1>2, <1>9
  <2>5. step + Excess \in Meter!Distances(step)
    BY <1>1, <1>6, <1>9, <2>4
  <2> QED
    BY <2>3, <2>5 DEF now
<1> QED
  BY <1>1, <1>2, <1>7, <1>8, <1>9

\* So do those of the time counter, up to the millisecond the conversion cuts.
LEMMA TimeRolls ==
  ASSUME NEW counter \in Ushort, NEW step \in Nat, NEW now \in TimeSums(counter, step)
  PROVE  TC!RollingDelta(now, counter) \in Meter!Times(step)
<1> DEFINE max == TC!USHRT_MAX
           sum == counter + step
<1>1. max \in Nat \ {0} /\ Ushort = 0 .. max /\ Excess \in {0, 1}
  BY DEF TC!USHRT_MAX, Ushort, Excess
<1>2. counter \in Nat /\ counter <= max /\ sum \in Nat
  BY <1>1
<1>3. now \in Ushort
  BY TimeSumsType
<1>4. TC!RollingDelta(now, counter) =
        IF now >= counter THEN now - counter ELSE max + Excess - counter + now
  BY <1>3, RollingDeltaValue
<1>5. Meter!Times(step) = CASE step = 0                -> {0}
                            [] 0 < step /\ step < max  -> step - 1 .. step + Excess
                            [] step >= max             -> 0 .. max
  BY DEF Meter!Times, Excess
<1>6. TimeSums(counter, step) =
        CASE step = 0              -> {counter}
          [] step > 0 /\ sum < max -> {sum - 1, sum}
          [] step > 0 /\ sum = max -> {sum - 1, sum, 0}
          [] step > 0 /\ sum > max -> Converted(sum - max - 1) \cup Converted(sum - max)
  BY DEF TimeSums
<1> HIDE DEF max
<1>7. CASE step >= max
  <2>1. Meter!Times(step) = 0 .. max
    BY <1>1, <1>5, <1>7
  <2> QED
    BY <1>1, <1>3, <2>1, RollingDeltaType
<1>8. CASE step = 0
  <2>1. now = counter
    BY <1>6, <1>8
  <2>2. Meter!Times(step) = {0}
    BY <1>1, <1>5, <1>8
  <2> QED
    BY <1>2, <1>4, <2>1, <2>2
<1>9. CASE 0 < step /\ step < max
  <2>1. Meter!Times(step) = step - 1 .. step + Excess
    BY <1>1, <1>5, <1>9
  <2>2. ASSUME NEW d \in Int, d \in {step - 1, step, step - 1 + Excess, step + Excess}
        PROVE  d \in Meter!Times(step)
    BY <1>1, <1>9, <2>1, <2>2
  <2>3. CASE sum <= max /\ now \in {sum - 1, sum}
    <3>1. now >= counter /\ now - counter \in {step - 1, step}
      BY <1>1, <1>2, <1>9, <2>3
    <3> QED
      BY <1>4, <2>2, <3>1
  <2>4. CASE sum = max /\ now = 0
    <3>1. ~(now >= counter) /\ max + Excess - counter + now = step + Excess
      BY <1>1, <1>2, <1>9, <2>4
    <3> QED
      BY <1>1, <1>4, <1>9, <2>2, <3>1
  <2>5. CASE sum > max
    <3>1. /\ sum - max - 1 \in 0 .. max /\ sum - max \in 0 .. max
          /\ sum - max < counter
      BY <1>1, <1>2, <1>9, <2>5
    <3>2. \A v \in 0 .. max : Converted(v) = {v}
      BY <1>1 DEF Converted, max
    <3>3. now \in {sum - max - 1, sum - max}
      BY <1>1, <1>2, <1>6, <1>9, <2>5, <3>1, <3>2
    <3>4. /\ ~(now >= counter)
          /\ max + Excess - counter + now \in {step - 1 + Excess, step + Excess}
      BY <1>1, <1>2, <3>1, <3>3
    <3> QED
      BY <1>1, <1>4, <1>9, <2>2, <3>4
  <2>6. sum <= max => now \in {sum - 1, sum} \/ (sum = max /\ now = 0)
    BY <1>1, <1>2, <1>6, <1>9
  <2> QED
    BY <1>1, <1>2, <2>3, <2>4, <2>5, <2>6
<1> QED
  BY <1>1, <1>7, <1>8, <1>9

\* A counter that stands still is no step.
LEMMA RollingStill ==
  ASSUME NEW c \in Ushort
  PROVE  /\ TC!RollingDelta(c, c) \in Meter!Times(0)
         /\ TC!RollingDelta(c, c) \in Meter!Distances(0)
<1>0. TC!USHRT_MAX \in Nat \ {0}
  BY DEF TC!USHRT_MAX
<1>1. TC!RollingDelta(c, c) = 0
  BY <1>0, RollingDeltaValue DEF Ushort
<1>2. Meter!Times(0) = {0} /\ Meter!Distances(0) = {0}
  BY <1>0 DEF Meter!Times, Meter!Distances
<1> QED
  BY <1>1, <1>2

\* The counters hold the last step until the refresh takes it.
LEMMA MeterStep ==
  ASSUME IInv, MeterInv, Step
  PROVE  MeterInv'
<1>0. MeterInv /\ TypeOK /\ TimesOrdered /\ SampleType /\ CounterTypes /\ ExternalTypes
  BY TypeGroups DEF IInv
<1>1. CASE SampleLevel
  <2>1. /\ alive /\ sample.stage = "idle"
        /\ sample'.stage = "time" /\ sample'.dt = 0 /\ sample'.dd = 0
        /\ UNCHANGED <<tripVars, counterVars>>
    BY <1>1 DEF SampleLevel, Idle
  <2> QED
    BY <1>0, <2>1 DEF MeterInv, tripVars, counterVars
<1>2. CASE SampleTime
  <2>1. /\ alive /\ sample.stage = "time"
        /\ sample'.stage = "odometer" /\ sample'.dt = sample.dt /\ sample'.dd = sample.dd
        /\ UNCHANGED <<tripVars, counterVars>>
    BY <1>0, <1>2 DEF SampleTime, SampleType
  <2> QED
    BY <1>0, <2>1 DEF MeterInv, tripVars, counterVars
<1>3. CASE SampleOdometer
  <2>1. /\ alive /\ sample.stage = "odometer" /\ sample'.stage = "consumption"
        /\ UNCHANGED tripVars /\ (initFlag' => initFlag)
    BY <1>0, <1>3, OdometerCases
  <2>2. /\ sample.dt = 0 /\ sample.dd = 0
        /\ last.time = timeCounter /\ last.distance = distanceCounter
        /\ initFlag => timeCounter = 0 /\ distanceCounter = 0
    BY <1>0, <2>1 DEF MeterInv
  <2>3. CASE initFlag
    <3>1. timeCounter' = 0 /\ distanceCounter' = 0 /\ sample'.dt = 0 /\ sample'.dd = 0
      BY <1>0, <1>3, <2>2, <2>3, OdometerCases DEF SampleType
    <3>2. TC!RollingDelta(0, 0) \in Meter!Times(0) /\ TC!RollingDelta(0, 0) \in Meter!Distances(0)
      BY <1>0, <2>2, <2>3, RollingStill DEF CounterTypes
    <3>3. last'.time = 0 /\ last'.distance = 0
      BY <2>1, <2>2, <2>3 DEF tripVars
    <3> QED
      BY <2>1, <2>2, <2>3, <3>1, <3>2, <3>3 DEF MeterInv
  <2>4. CASE ~initFlag
    <3>1. /\ timeCounter' \in TimeSums(timeCounter, sample.time - lastTime)
          /\ distanceCounter' = RollingAdd(distanceCounter, amb.odometer)
          /\ sample' = [sample EXCEPT !.stage = "consumption",
                                      !.dt = sample.time - lastTime, !.dd = amb.odometer]
      BY <1>0, <1>3, <2>4, OdometerCases
    <3>2. sample.time - lastTime \in Nat /\ amb.odometer \in Nat
      BY <1>0, <2>1, <2>4 DEF TimesOrdered, SampleType, CounterTypes, ExternalTypes
    <3>3. TC!RollingDelta(timeCounter', timeCounter) \in Meter!Times(sample.time - lastTime)
      BY <1>0, <3>1, <3>2, TimeRolls DEF CounterTypes
    <3>4. TC!RollingDelta(distanceCounter', distanceCounter) \in Meter!Distances(amb.odometer)
      BY <1>0, <3>1, <3>2, DistanceRolls DEF CounterTypes
    <3>5. sample'.dt = sample.time - lastTime /\ sample'.dd = amb.odometer
      BY <1>0, <3>1 DEF SampleType
    <3>6. last' = last
      BY <2>1 DEF tripVars
    <3> QED
      BY <2>1, <2>2, <2>4, <3>3, <3>4, <3>5, <3>6 DEF MeterInv
  <2> QED
    BY <2>3, <2>4
<1>4. CASE Refreshes
  <2>1. PICK in \in TC!TripInput : /\ in.time = timeCounter /\ in.distance = distanceCounter
                                   /\ TC!NextRefresh(in) \/ TC!FaultyRefresh(in)
    BY <1>4, RefreshCases
  <2>2. alive' => last' = in
    BY <2>1 DEF TC!NextRefresh, TC!FaultyRefresh
  <2>3. UNCHANGED counterVars /\ alive
    BY <1>4, RefreshCases DEF Refreshes
  <2>4. \/ sample'.stage = "idle" /\ sample'.dt = 0 /\ sample'.dd = 0
        \/ sample'.stage = "store"
    BY <1>0, <1>4 DEF Refreshes, Idle, SampleType
  <2> QED
    BY <1>0, <2>1, <2>2, <2>3, <2>4 DEF MeterInv, counterVars
<1>5. CASE CapiStore
  <2>1. /\ alive /\ sample.stage = "store" /\ UNCHANGED <<tripVars, counterVars>>
        /\ sample'.stage = "idle" /\ sample'.dt = 0 /\ sample'.dd = 0
    BY <1>5 DEF CapiStore, Idle
  <2> QED
    BY <1>0, <2>1 DEF MeterInv, tripVars, counterVars
<1>6. CASE Dies
  BY <1>6 DEF Dies, MeterInv
<1>7. CASE UNCHANGED <<last, alive, counterVars, sample>>
  BY <1>0, <1>7 DEF MeterInv, counterVars
<1>8. Publishes => UNCHANGED <<last, alive, counterVars, sample>>
  BY Zenon DEF Publishes, PublishLevel, PublishConsumption, PublishOdometer, Publish, tripVars
<1>9. Resets => UNCHANGED <<last, alive, counterVars, sample>>
  BY DEF Resets, TC!ResetTrip
<1>10. (Answers \/ UNCHANGED vars \/ \E h \in Handles : CreateRoute(h) \/ DeleteRoute(h))
         => UNCHANGED <<last, alive, counterVars, sample>>
  BY DEF Answers, CreateRoute, DeleteRoute, vars, tripVars
<1> QED
  BY <1>0, <1>1, <1>2, <1>3, <1>4, <1>5, <1>6, <1>7, <1>8, <1>9, <1>10, Steps

Reading == [n \in TC!Trips |-> [time     |-> basic[n].tripTime,
                                distance |-> basic[n].tripDistance]]

\* A refresh moves every trip by what was sampled.
LEMMA RefreshAdvances ==
  ASSUME IInv, MeterInv, Refreshes, alive'
  PROVE  Meter!Advance
<1>1. PICK in \in TC!TripInput : /\ in.time = timeCounter /\ in.distance = distanceCounter
                                 /\ TC!NextRefresh(in) \/ TC!FaultyRefresh(in)
  BY RefreshCases
<1>2. TC!NextRefresh(in)
  BY <1>1 DEF TC!FaultyRefresh
<1>3. alive /\ sample.stage = "consumption"
  BY RefreshCases
<1> DEFINE dt == TC!TimeStep(in)
           dd == TC!DistanceStep(in)
<1>4. dt \in Meter!Times(sample.dt) /\ dd \in Meter!Distances(sample.dd)
  BY <1>1, <1>3 DEF MeterInv, TC!TimeStep, TC!DistanceStep
<1>5. dt \in Nat /\ dd \in Nat
  <2>1. /\ timeCounter \in Ushort /\ distanceCounter \in Ushort
        /\ last.time \in Ushort /\ last.distance \in Ushort
    BY DEF IInv, TypeOK, TC!TypeOK, TC!TripInput, Ushort
  <2> QED
    <3>1. /\ TC!RollingDelta(timeCounter, last.time) \in Ushort
          /\ TC!RollingDelta(distanceCounter, last.distance) \in Ushort
      BY <2>1, RollingDeltaType
    <3>2. /\ dt = TC!RollingDelta(timeCounter, last.time)
          /\ dd = TC!RollingDelta(distanceCounter, last.distance)
      BY <1>1 DEF TC!TimeStep, TC!DistanceStep
    <3>3. Ushort \subseteq Nat
      BY DEF Ushort
    <3> HIDE DEF dt, dd
    <3> QED
      BY <3>1, <3>2, <3>3
<1>6. fed' = [time |-> fed.time + sample.dt, distance |-> fed.distance + sample.dd]
  BY DEF Refreshes, RefreshTrips
<1>7. SampleType /\ FedType
  BY TypeGroups DEF IInv
<1>8. /\ fed'.time - fed.time = sample.dt /\ fed'.distance - fed.distance = sample.dd
      /\ sample.dt >= 0 /\ sample.dd >= 0
  BY <1>6, <1>7 DEF SampleType, FedType
<1> HIDE DEF dt, dd
<1>9. ASSUME NEW n \in TC!Trips
      PROVE  /\ Reading[n].time \in Nat
             /\ Reading[n].distance \in Nat
             /\ Reading'[n] = [time     |-> Reading[n].time + dt,
                               distance |-> Reading[n].distance + dd]
  <2>1. basic[n] \in TC!BasicData
    BY DEF IInv, TripsOK, TC!TypeOK
  <2>2. basic'[n] = TC!RefreshedBasic(basic[n], dt, dd, TC!FuelStep(in))
    BY <1>2 DEF TC!NextRefresh, dt, dd
  <2>3. /\ basic'[n].tripTime = basic[n].tripTime + dt
        /\ basic'[n].tripDistance = basic[n].tripDistance + dd
    BY <2>1, <2>2, RefreshedTotals
  <2>4. basic[n].tripTime \in Nat /\ basic[n].tripDistance \in Nat
    BY <2>1 DEF TC!BasicData
  <2> QED
    BY <2>3, <2>4 DEF Reading
<1>10. Reading' \in [TC!Trips -> Meter!Readings]
  <2>1. ASSUME NEW n \in TC!Trips PROVE Reading'[n] \in Meter!Readings
    <3> DEFINE t == Reading[n].time
               d == Reading[n].distance
    <3>1. t \in Nat /\ d \in Nat /\ Reading'[n] = [time |-> t + dt, distance |-> d + dd]
      BY <1>9
    <3> HIDE DEF t, d
    <3>2. t + dt \in Nat /\ d + dd \in Nat
      BY <1>5, <3>1
    <3> QED
      BY <3>1, <3>2 DEF Meter!Readings
  <2>2. Reading' = [n \in TC!Trips |-> Reading'[n]]
    BY DEF Reading
  <2> QED
    BY <2>1, <2>2
<1>11. \A n \in TC!Trips : Meter!Moved(n) = [time |-> dt, distance |-> dd]
  <2> SUFFICES ASSUME NEW n \in TC!Trips
               PROVE  Meter!Moved(n) = [time |-> dt, distance |-> dd]
    OBVIOUS
  <2>1. Meter!Moved(n) = [time     |-> Reading'[n].time - Reading[n].time,
                          distance |-> Reading'[n].distance - Reading[n].distance]
    BY DEF Meter!Moved, Reading
  <2> DEFINE t == Reading[n].time
             d == Reading[n].distance
  <2>2. t \in Nat /\ d \in Nat /\ Reading'[n] = [time |-> t + dt, distance |-> d + dd]
    BY <1>9
  <2>3. Meter!Moved(n) = [time |-> (t + dt) - t, distance |-> (d + dd) - d]
    BY <1>5, <2>1, <2>2
  <2> HIDE DEF t, d
  <2>4. (t + dt) - t = dt /\ (d + dd) - d = dd
    BY <1>5, <2>2
  <2> QED
    BY <2>3, <2>4
<1>12. \A n \in TC!Trips : /\ Meter!Moved(n).time \in Meter!Times(sample.dt)
                           /\ Meter!Moved(n).distance \in Meter!Distances(sample.dd)
                           /\ \A m \in TC!Trips : Meter!Moved(m) = Meter!Moved(n)
  BY <1>4, <1>11 DEF dt, dd
<1> QED
  BY <1>8, <1>10, <1>12, Zenon DEF Meter!Advance, Reading

\* A reset clears one trip.
LEMMA ResetClears ==
  ASSUME IInv, Resets
  PROVE  \E n \in TC!Trips : Meter!Reset(n)
<1>1. PICK k \in TC!Trips : TC!ResetTrip(k)
  BY DEF Resets
<1>2. basic \in [TC!Trips -> TC!BasicData]
  BY DEF IInv, TripsOK, TC!TypeOK
<1> DEFINE cleared == [basic[k] EXCEPT !.tripFuel = 0, !.tripTime = 0, !.tripDistance = 0]
<1>3. basic' = [basic EXCEPT ![k] = cleared]
  BY <1>1, <1>2 DEF TC!ResetTrip
<1>4. cleared.tripTime = 0 /\ cleared.tripDistance = 0
  BY <1>2 DEF TC!BasicData
<1> HIDE DEF cleared
<1>5. Reading' = [Reading EXCEPT ![k] = Meter!Zero]
  BY <1>2, <1>3, <1>4 DEF Reading, Meter!Zero
<1>6. UNCHANGED fed
  BY DEF Resets
<1> QED
  BY <1>5, <1>6 DEF Meter!Reset, Reading

\* Every other step leaves the trips and what was sampled alone.
LEMMA MeterRefined ==
  ASSUME IInv, MeterInv, Step
  PROVE  [Meter!Next]_Meter!meterVars
<1>1. CASE Refreshes
  <2>1. CASE alive'
    BY <1>1, <2>1, RefreshAdvances DEF Meter!Next
  <2>2. CASE ~alive'
    <3>1. UNCHANGED fed
      BY <1>1, <2>2 DEF Refreshes, RefreshTrips
    <3>2. PICK in \in TC!TripInput : TC!NextRefresh(in) \/ TC!FaultyRefresh(in)
      BY <1>1, RefreshCases
    <3>3. alive
      BY <1>1, RefreshCases
    <3>4. UNCHANGED basic
      BY <2>2, <3>2, <3>3 DEF TC!NextRefresh, TC!FaultyRefresh
    <3> QED
      BY <3>1, <3>4 DEF Meter!meterVars
  <2> QED
    BY <2>1, <2>2
<1>2. CASE Resets
  BY <1>2, ResetClears DEF Meter!Next
<1>3. CASE UNCHANGED <<basic, fed>>
  BY <1>3 DEF Meter!meterVars
<1>4. Publishes => UNCHANGED <<basic, fed>>
  BY Zenon DEF Publishes, PublishLevel, PublishConsumption, PublishOdometer, Publish, tripVars
<1> QED
  BY <1>1, <1>2, <1>3, <1>4, Steps, OdometerCases
     DEF IInv, SampleLevel, SampleTime, CapiStore, Dies, Answers, CreateRoute, DeleteRoute,
         vars, tripVars

\* Whatever the steps and gaps the broker publishes and the level of
\* optimisation, neither the wraps of the counters, nor the sampling over several
\* calls, nor a reset adds or loses anything beyond what TripMeter allows: each
\* trip is a meter of what was sampled.
THEOREM TripsAreMeters == MCSpec => ImplementsTripMeter
<1>1. MCInit => MeterInv
  <2> SUFFICES ASSUME MCInit PROVE MeterInv
    OBVIOUS
  <2>1. /\ last = TC!ZeroInput /\ timeCounter = 0 /\ distanceCounter = 0
        /\ sample = Idle
    BY DEF MCInit, Init
  <2> QED
    BY <2>1 DEF MeterInv, Idle, TC!ZeroInput
<1>2. MCInit => Meter!Init
  <2> SUFFICES ASSUME MCInit PROVE Meter!Init
    OBVIOUS
  <2>1. /\ basic = [n \in TC!Trips |-> TC!Fresh(TC!INSTANT_FUEL_CONSUMPTION_START_VALUE)]
        /\ fed = [time |-> 0, distance |-> 0]
    BY DEF MCInit, Init
  <2> QED
    BY <2>1 DEF Meter!Init, Meter!Zero, TC!Fresh
<1>3. IInv /\ MeterInv /\ [MCNext]_mcVars => MeterInv' /\ [Meter!Next]_Meter!meterVars
  BY BindingSteps, MeterStep, MeterRefined
<1> QED
  BY <1>1, <1>2, <1>3, InvariantHolds, PTL DEF MCSpec, ImplementsTripMeter, Meter!Spec
=============================================================================
