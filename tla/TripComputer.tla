---------------------------- MODULE TripComputer ----------------------------
(***************************************************************************)
(* CTripComputer (src/src/tripcomputer): integer trip computation from     *)
(* 16-bit rolling counters.  The object keeps, for each trip, the totals   *)
(* since the last reset together with two moving averages of the fuel      *)
(* burnt per metre, and the values last shown to a client.                 *)
(*                                                                         *)
(* A refresh whose distance step is zero, once a trip is past the display  *)
(* threshold and has burnt fuel, evaluates x % 0 in the code.  That kills  *)
(* the process, which the model keeps as alive = FALSE.                    *)
(***************************************************************************)
EXTENDS Integers

CONSTANTS
  Inputs,       \* the samples a client may pass to a refresh
  MaxRefreshes, \* bound: how many refreshes a behaviour contains
  UNDEFINED,    \* GET_UNDEFINED_VALUE on 16 bits, as the build computes it
  UNDEFINED32   \* the same on 32 bits

USHRT_MAX                                == 65535
TRIP_NUMBER_1                            == 0
Trips                                    == {TRIP_NUMBER_1, 1}
INSTANT_FUEL_CONSUMPTION_COEFFICIENT     == 10
LAST_QUARTER_FUEL_CONSUMPTION_COEFFICIENT == 90
INSTANT_FUEL_CONSUMPTION_START_VALUE     == 50
INSTANT_FUEL_CONSUMPTION_MAX_VALUE       == 300
DISTANCE_THRESHOLD                       == 40000

TripInput == [fuelLevel : 0 .. USHRT_MAX, time : 0 .. USHRT_MAX,
              distance : 0 .. USHRT_MAX, fuelConsumption : 0 .. USHRT_MAX]

ZeroInput == [fuelLevel |-> 0, time |-> 0, distance |-> 0, fuelConsumption |-> 0]

(***************************************************************************)
(* The macro converts 2^32 - 1 and 2^128 - 1 (as doubles) to 16 and 32     *)
(* bits, which C++ leaves undefined: an optimised build folds it to the    *)
(* largest value, an unoptimised one computes 0.                           *)
(***************************************************************************)
ASSUME TripComputerAssumption ==
  /\ Inputs \subseteq TripInput
  /\ MaxRefreshes \in Nat
  /\ UNDEFINED \in {0, USHRT_MAX}
  /\ UNDEFINED32 \in Nat

VARIABLES
  basic,        \* m_tripData[n].tripBasicData: totals, averages, remainders
  shown,        \* the other fields of m_tripData[n]: what a client can read
  firstRefresh, \* m_firstRefresh
  last,         \* m_lastTripComputerInput
  alive,        \* FALSE once the process died of a division by zero
  refreshes     \* number of refreshes so far, for the bound only

tcVars == <<basic, shown, firstRefresh, last, alive, refreshes>>

U16(x) == x % (USHRT_MAX + 1)

(***************************************************************************)
(* What each operation computes.                                           *)
(***************************************************************************)
Nothing == [distance |-> UNDEFINED, time |-> UNDEFINED32,
            averageFuel |-> UNDEFINED, averageSpeed |-> UNDEFINED,
            tankDistance |-> UNDEFINED, instantFuel |-> UNDEFINED]

Fresh(startValue) ==
  [tripTime |-> 0, tripDistance |-> 0, tripFuel |-> 0, fuelRemainder |-> 0,
   instantAvg |-> startValue, instantRem |-> 0,
   quarterAvg |-> startValue, quarterRem |-> 0]

\* Mutant: a counter that wrapped is taken as it is.
RollingDeltaWithoutWrap(now, before) == now - before

\* The step of a rolling counter between two samples.
RollingDelta(now, before) ==
  IF now >= before THEN now - before ELSE U16(UNDEFINED - before + now)

\* Microlitres burnt during dt milliseconds, the area under the two rates.  The
\* code computes it in an int, which is wide enough for rates up to 32767; above
\* that it may overflow, and the model goes on with the exact number.
FuelBurnt(rate1, rate2, dt) ==
  LET low  == IF rate2 >= rate1 THEN rate1 ELSE rate2
      high == IF rate2 >= rate1 THEN rate2 ELSE rate1
  IN  (((high - low) * dt) \div 2 + low * dt) \div 1000

\* Mutant: the weight of the old average is the coefficient itself.
MovingSumTooHeavy(coeff, avg, rem, x) == U16(coeff * avg + x + rem)

\* One step of an integer moving average that carries its remainder over;
\* the weighted sum is stored in 16 bits before it is divided.
MovingSum(coeff, avg, rem, x) == U16((coeff - 1) * avg + x + rem)

Cap(x) == IF x > INSTANT_FUEL_CONSUMPTION_MAX_VALUE
          THEN INSTANT_FUEL_CONSUMPTION_MAX_VALUE ELSE x

Accumulated(b, dt, dd, fuel) ==
  [b EXCEPT !.tripTime = @ + dt, !.tripDistance = @ + dd, !.tripFuel = @ + fuel]

\* A trip computes consumption figures once it is long enough and has burnt fuel.
PastThreshold(b) == b.tripDistance > DISTANCE_THRESHOLD
Metered(b)       == PastThreshold(b) /\ b.tripFuel > 0

\* Microlitres per metre since the last sample, remainder of that one included.
BurntPerMetre(b, dd, fuel) == (fuel * 100 + b.fuelRemainder) \div dd

Averaged(b, dd, fuel) ==
  LET instant == MovingSum(INSTANT_FUEL_CONSUMPTION_COEFFICIENT, b.instantAvg,
                           b.instantRem, BurntPerMetre(b, dd, fuel))
      quarter == MovingSum(LAST_QUARTER_FUEL_CONSUMPTION_COEFFICIENT,
                           b.quarterAvg, b.quarterRem,
                           instant \div INSTANT_FUEL_CONSUMPTION_COEFFICIENT)
  IN  [b EXCEPT
        !.fuelRemainder = (fuel * 100 + @) % dd,
        !.instantAvg = instant \div INSTANT_FUEL_CONSUMPTION_COEFFICIENT,
        !.instantRem = instant % INSTANT_FUEL_CONSUMPTION_COEFFICIENT,
        !.quarterAvg = quarter \div LAST_QUARTER_FUEL_CONSUMPTION_COEFFICIENT,
        !.quarterRem = quarter % LAST_QUARTER_FUEL_CONSUMPTION_COEFFICIENT]

RefreshedBasic(b, dt, dd, fuel) ==
  LET acc == Accumulated(b, dt, dd, fuel)
  IN  IF Metered(acc) THEN Averaged(acc, dd, fuel) ELSE acc

\* What is shown after a refresh that left the totals and averages at b.
RefreshedShown(s, b, fuelLevel) ==
  LET timed   == [s EXCEPT !.time = b.tripTime \div 1000]
      tenths  == U16(b.tripDistance \div 10000)
  IN  CASE Metered(b) ->
             [timed EXCEPT
               !.distance = tenths,
               !.instantFuel = Cap(b.instantAvg),
               !.averageSpeed = U16((b.tripDistance * 360) \div b.tripTime),
               !.tankDistance = IF b.quarterAvg > 0
                                THEN U16((fuelLevel * 100) \div b.quarterAvg)
                                ELSE UNDEFINED,
               !.averageFuel = Cap(U16((b.tripFuel * 100) \div b.tripDistance))]
        [] PastThreshold(b) /\ ~Metered(b) -> [timed EXCEPT !.distance = tenths]
        [] OTHER -> timed

(***************************************************************************)
(* Operations.                                                             *)
(***************************************************************************)
Initialize(startValue) ==
  /\ basic = [n \in Trips |-> Fresh(startValue)]
  /\ shown = [n \in Trips |-> Nothing]
  /\ firstRefresh = TRUE

\* The first sample only sets the reference of the rolling counters.
FirstRefresh(in) ==
  /\ firstRefresh
  /\ firstRefresh' = FALSE
  /\ last' = in
  /\ UNCHANGED <<basic, shown, alive>>

TimeStep(in)     == RollingDelta(in.time, last.time)
DistanceStep(in) == RollingDelta(in.distance, last.distance)
FuelStep(in)     == FuelBurnt(last.fuelConsumption, in.fuelConsumption, TimeStep(in))

\* Some trip would divide by a zero distance step.
DividesByZero(in) ==
  /\ DistanceStep(in) = 0
  /\ \E n \in Trips :
       Metered(Accumulated(basic[n], TimeStep(in), DistanceStep(in), FuelStep(in)))

NextRefresh(in) ==
  /\ ~firstRefresh
  /\ ~DividesByZero(in)
  /\ basic' = [n \in Trips |-> RefreshedBasic(basic[n], TimeStep(in),
                                              DistanceStep(in), FuelStep(in))]
  /\ shown' = [n \in Trips |-> RefreshedShown(shown[n], basic'[n], in.fuelLevel)]
  /\ last' = in
  /\ UNCHANGED <<firstRefresh, alive>>

FaultyRefresh(in) ==
  /\ ~firstRefresh
  /\ DividesByZero(in)
  /\ alive' = FALSE
  /\ UNCHANGED <<basic, shown, firstRefresh, last>>

RefreshTripComputerInput(in) ==
  /\ alive
  /\ refreshes < MaxRefreshes
  /\ refreshes' = refreshes + 1
  /\ FirstRefresh(in) \/ NextRefresh(in) \/ FaultyRefresh(in)

\* Mutant: the fuel burnt is not cleared.
ResetTripKeepsFuel(n) ==
  /\ alive
  /\ basic' = [basic EXCEPT ![n].tripTime = 0, ![n].tripDistance = 0]
  /\ shown' = [shown EXCEPT ![n] = Nothing]
  /\ UNCHANGED <<firstRefresh, last, alive, refreshes>>

\* Mutant: the figures that are not those of a trip stay on display.
ResetTripKeepsInstantData(n) ==
  /\ alive
  /\ basic' = [basic EXCEPT ![n].tripFuel = 0, ![n].tripTime = 0,
                            ![n].tripDistance = 0]
  /\ shown' = [shown EXCEPT ![n] =
                 [Nothing EXCEPT !.tankDistance = shown[n].tankDistance,
                                 !.instantFuel = shown[n].instantFuel]]
  /\ UNCHANGED <<firstRefresh, last, alive, refreshes>>

\* The averages and their remainders survive a reset.
ResetTrip(n) ==
  /\ alive
  /\ basic' = [basic EXCEPT ![n].tripFuel = 0, ![n].tripTime = 0,
                            ![n].tripDistance = 0]
  /\ shown' = [shown EXCEPT ![n] = Nothing]
  /\ UNCHANGED <<firstRefresh, last, alive, refreshes>>

\* What GetInstantData returns: the figures of the first trip.
InstantData == [tankDistance |-> shown[TRIP_NUMBER_1].tankDistance,
                instantFuel  |-> shown[TRIP_NUMBER_1].instantFuel]

Init ==
  /\ Initialize(INSTANT_FUEL_CONSUMPTION_START_VALUE)
  /\ last = ZeroInput \* unassigned in the code, and not read before it is set
  /\ alive = TRUE
  /\ refreshes = 0

Next ==
  \/ \E in \in Inputs : RefreshTripComputerInput(in)
  \/ \E n \in Trips : ResetTrip(n)

Spec == Init /\ [][Next]_tcVars

(***************************************************************************)
(* Properties.                                                             *)
(***************************************************************************)
BasicData ==
  [tripTime : Nat, tripDistance : Nat, tripFuel : Nat,
   fuelRemainder : 0 .. USHRT_MAX,
   instantAvg : 0 .. USHRT_MAX,
   instantRem : 0 .. INSTANT_FUEL_CONSUMPTION_COEFFICIENT - 1,
   quarterAvg : 0 .. USHRT_MAX,
   quarterRem : 0 .. LAST_QUARTER_FUEL_CONSUMPTION_COEFFICIENT - 1]

ShownData ==
  [distance : 0 .. USHRT_MAX, time : Nat, averageFuel : 0 .. USHRT_MAX,
   averageSpeed : 0 .. USHRT_MAX, tankDistance : 0 .. USHRT_MAX,
   instantFuel : 0 .. USHRT_MAX]

\* Every field stays in the width the code gives it, and a remainder below
\* the coefficient it is a remainder of.
TypeOK ==
  /\ basic \in [Trips -> BasicData]
  /\ shown \in [Trips -> ShownData]
  /\ firstRefresh \in BOOLEAN
  /\ last \in TripInput
  /\ alive \in BOOLEAN
  /\ refreshes \in 0 .. MaxRefreshes

\* A trip that has burnt fuel has lasted some time: the average speed, which
\* divides by the trip time whenever fuel was burnt, never divides by zero,
\* however resets and refreshes alternate.
FuelTakesTime == \A n \in Trips : basic[n].tripFuel > 0 => basic[n].tripTime > 0

\* "Trip values are displayed after 400 m" (test/README.md): no figure of a
\* trip is shown before the trip passed the threshold, none that depends on
\* fuel before fuel was burnt, and a reset takes all of them away again.
ShownAfterThreshold ==
  \A n \in Trips :
    /\ shown[n].distance # UNDEFINED => PastThreshold(basic[n])
    /\ \/ shown[n].averageFuel # UNDEFINED
       \/ shown[n].averageSpeed # UNDEFINED
       \/ shown[n].tankDistance # UNDEFINED
       \/ shown[n].instantFuel # UNDEFINED
       => Metered(basic[n])

Between(x, a, b) == (a <= x /\ x <= b) \/ (b <= x /\ x <= a)

\* The largest consumption per metre both averages can hold: 90 * 727 + 89
\* still fits 16 bits, 90 * 728 does not.
MAX_ORDINARY == 727

\* The two averages are moving filters: as long as consumption stays below
\* 72.7 l/100 km, a refresh moves each of them towards its input and never
\* past it, remainders included.
MovingFilter ==
  [][\A n \in Trips :
       LET acc  == Accumulated(basic[n], TimeStep(last'), DistanceStep(last'),
                               FuelStep(last'))
           rate == BurntPerMetre(acc, DistanceStep(last'), FuelStep(last'))
       IN  (/\ NextRefresh(last')
            /\ Metered(acc)
            /\ basic[n].instantAvg <= MAX_ORDINARY
            /\ basic[n].quarterAvg <= MAX_ORDINARY
            /\ rate <= MAX_ORDINARY)
           => /\ Between(basic'[n].instantAvg, basic[n].instantAvg, rate)
              /\ Between(basic'[n].quarterAvg, basic[n].quarterAvg,
                         basic'[n].instantAvg)]_tcVars

\* test/resource/initialization.log replays a standing car with its engine
\* running (speed 0, 100 microlitres per second): such a sample must not stop
\* the process.
IdlingIsHarmless == alive
=============================================================================
