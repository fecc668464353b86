-------------------------- MODULE TripComputerProofs --------------------------
(***************************************************************************)
(* For every set of samples, any number of refreshes and both values the   *)
(* build may give UNDEFINED: the widths of all fields, the absence of a    *)
(* division by zero in the average speed, the display threshold and the    *)
(* monotony of the moving averages.                                        *)
(*                                                                         *)
(* The widths need FuelTakesTime: the average speed divides by the trip    *)
(* time, and has a value only if that is positive.                         *)
(***************************************************************************)
EXTENDS TripComputer, TLAPS

Ushort == 0 .. USHRT_MAX

\* Most steps need no more of the widths and coefficients than this.
LEMMA Widths ==
  /\ USHRT_MAX \in Nat \ {0}
  /\ INSTANT_FUEL_CONSUMPTION_COEFFICIENT \in Nat \ {0}
  /\ LAST_QUARTER_FUEL_CONSUMPTION_COEFFICIENT \in Nat \ {0}
  /\ UNDEFINED \in Ushort
  /\ INSTANT_FUEL_CONSUMPTION_MAX_VALUE \in Ushort
  /\ INSTANT_FUEL_CONSUMPTION_START_VALUE \in Ushort
<1>1. USHRT_MAX \in Nat \ {0} /\ 50 <= USHRT_MAX /\ 300 <= USHRT_MAX
  BY DEF USHRT_MAX
<1>2. UNDEFINED \in Ushort
  BY <1>1, TripComputerAssumption DEF Ushort
<1> QED
  BY <1>1, <1>2
     DEF Ushort, INSTANT_FUEL_CONSUMPTION_COEFFICIENT,
         LAST_QUARTER_FUEL_CONSUMPTION_COEFFICIENT,
         INSTANT_FUEL_CONSUMPTION_MAX_VALUE, INSTANT_FUEL_CONSUMPTION_START_VALUE

\* Quotients and remainders of naturals.
LEMMA Division ==
  ASSUME NEW x \in Nat, NEW d \in Nat \ {0}
  PROVE  x \div d \in Nat /\ x % d \in 0 .. d - 1
  OBVIOUS

\* A quotient by one of the coefficients fits where the dividend fits.
LEMMA QuotientFits ==
  ASSUME NEW x \in Ushort
  PROVE  /\ x \div INSTANT_FUEL_CONSUMPTION_COEFFICIENT \in Ushort
         /\ x \div LAST_QUARTER_FUEL_CONSUMPTION_COEFFICIENT \in Ushort
  BY Widths DEF Ushort, INSTANT_FUEL_CONSUMPTION_COEFFICIENT,
                LAST_QUARTER_FUEL_CONSUMPTION_COEFFICIENT

\* Whatever is stored in 16 bits is in 16 bits.
LEMMA U16Type == \A x \in Int : U16(x) \in Ushort
  BY Widths DEF U16, Ushort

\* A value that fits is stored as it is.
LEMMA U16Fits == \A x \in Ushort : U16(x) = x
  BY Widths DEF U16, Ushort

\* The step of a rolling counter is a 16-bit value.
LEMMA RollingDeltaType ==
  ASSUME NEW now \in Ushort, NEW before \in Ushort
  PROVE  RollingDelta(now, before) \in Ushort
<1>1. CASE now >= before
  BY <1>1, Widths DEF RollingDelta, Ushort
<1>2. CASE ~(now >= before)
  <2>1. UNDEFINED - before + now \in Int
    BY Widths DEF Ushort
  <2> QED
    BY <1>2, <2>1, U16Type DEF RollingDelta
<1> QED
  BY <1>1, <1>2

\* No fuel is burnt in no time.
LEMMA FuelBurntType ==
  ASSUME NEW rate1 \in Nat, NEW rate2 \in Nat, NEW dt \in Nat
  PROVE  /\ FuelBurnt(rate1, rate2, dt) \in Nat
         /\ dt = 0 => FuelBurnt(rate1, rate2, dt) = 0
<1> DEFINE low  == IF rate2 >= rate1 THEN rate1 ELSE rate2
           high == IF rate2 >= rate1 THEN rate2 ELSE rate1
           p    == (high - low) * dt
           q    == low * dt
<1>1. low \in Nat /\ high - low \in Nat
  OBVIOUS
<1>2. p \in Nat /\ q \in Nat
  BY <1>1
<1>3. dt = 0 => p = 0 /\ q = 0
  BY <1>1
<1>4. FuelBurnt(rate1, rate2, dt) = (p \div 2 + q) \div 1000
  BY DEF FuelBurnt
<1> HIDE DEF p, q
<1> QED
  BY <1>2, <1>3, <1>4

\* What a trip satisfies besides its widths.
Timed(b) == b.tripFuel > 0 => b.tripTime > 0

\* The totals of a trip after a step, whatever is done to its averages.
LEMMA AccumulatedType ==
  ASSUME NEW b \in BasicData, Timed(b),
         NEW dt \in Ushort, NEW dd \in Ushort, NEW fuel \in Nat, dt = 0 => fuel = 0
  PROVE  /\ Accumulated(b, dt, dd, fuel) \in BasicData
         /\ Timed(Accumulated(b, dt, dd, fuel))
         /\ Accumulated(b, dt, dd, fuel).tripDistance >= b.tripDistance
         /\ Accumulated(b, dt, dd, fuel).tripFuel >= b.tripFuel
<1>1. b.tripTime + dt \in Nat /\ b.tripDistance + dd \in Nat /\ b.tripFuel + fuel \in Nat
  BY Widths DEF BasicData, Ushort
<1>2. Accumulated(b, dt, dd, fuel) \in BasicData
  BY <1>1 DEF Accumulated, BasicData
<1>3. /\ Accumulated(b, dt, dd, fuel).tripTime = b.tripTime + dt
      /\ Accumulated(b, dt, dd, fuel).tripDistance = b.tripDistance + dd
      /\ Accumulated(b, dt, dd, fuel).tripFuel = b.tripFuel + fuel
  BY DEF Accumulated, BasicData
<1>4. b.tripTime \in Nat /\ b.tripDistance \in Nat /\ b.tripFuel \in Nat
  BY DEF BasicData
<1>5. dt \in Nat /\ dd \in Nat
  BY Widths DEF Ushort
<1> QED
  BY <1>2, <1>3, <1>4, <1>5 DEF Timed

\* A moving sum is a 16-bit value.
LEMMA MovingSumType ==
  ASSUME NEW coeff \in Nat, NEW avg \in Nat, NEW rem \in Nat, NEW x \in Nat
  PROVE  MovingSum(coeff, avg, rem, x) \in Ushort
<1> DEFINE p == (coeff - 1) * avg
<1>1. p \in Int
  OBVIOUS
<1>2. MovingSum(coeff, avg, rem, x) = U16(p + x + rem)
  BY DEF MovingSum
<1> HIDE DEF p
<1> QED
  BY <1>1, <1>2, U16Type

\* What the averaging stores is in range, and leaves the totals alone.
LEMMA AveragedType ==
  ASSUME NEW b \in BasicData, NEW dd \in Ushort \ {0}, NEW fuel \in Nat
  PROVE  /\ Averaged(b, dd, fuel) \in BasicData
         /\ Averaged(b, dd, fuel).tripTime = b.tripTime
         /\ Averaged(b, dd, fuel).tripDistance = b.tripDistance
         /\ Averaged(b, dd, fuel).tripFuel = b.tripFuel
<1> DEFINE ci == INSTANT_FUEL_CONSUMPTION_COEFFICIENT
           cq == LAST_QUARTER_FUEL_CONSUMPTION_COEFFICIENT
           rate == BurntPerMetre(b, dd, fuel)
           instant == MovingSum(ci, b.instantAvg, b.instantRem, rate)
           quarter == MovingSum(cq, b.quarterAvg, b.quarterRem, instant \div ci)
           rest == (fuel * 100 + b.fuelRemainder) % dd
<1>1. /\ b.fuelRemainder \in Nat /\ b.instantAvg \in Nat /\ b.instantRem \in Nat
      /\ b.quarterAvg \in Nat /\ b.quarterRem \in Nat
  BY Widths DEF BasicData
<1>2. dd \in Nat \ {0} /\ dd <= USHRT_MAX
  BY Widths DEF Ushort
<1> DEFINE num == fuel * 100 + b.fuelRemainder
<1>3. rate = num \div dd /\ rest = num % dd /\ num \in Nat
  BY <1>1 DEF BurntPerMetre
<1> HIDE DEF num, rate, rest
<1>4. rate \in Nat /\ rest \in Ushort
  <2>1. rate \in Nat /\ rest \in 0 .. dd - 1
    BY <1>2, <1>3
  <2> QED
    BY <1>2, <2>1, Widths DEF Ushort
<1>5. instant \in Ushort
  BY <1>1, <1>4, MovingSumType, Widths
<1> DEFINE average == instant \div ci
<1> HIDE DEF instant
<1>6. average \in Ushort /\ average \in Nat /\ instant % ci \in 0 .. ci - 1
  <2>1. average \in Ushort
    BY <1>5, QuotientFits
  <2>2. instant \in Nat /\ ci \in Nat \ {0}
    BY <1>5, Widths DEF Ushort
  <2> QED
    BY <2>1, <2>2, Widths DEF Ushort
<1> HIDE DEF average
<1>7. MovingSum(cq, b.quarterAvg, b.quarterRem, average) \in Ushort
  BY <1>1, <1>6, MovingSumType, Widths
<1> USE DEF average
<1> HIDE DEF quarter
<1>8. quarter \div cq \in Ushort /\ quarter % cq \in 0 .. cq - 1
  <2>1. quarter \in Ushort
    BY <1>7 DEF quarter
  <2>2. quarter \div cq \in Ushort
    BY <2>1, QuotientFits
  <2>3. quarter \in Nat /\ cq \in Nat \ {0}
    BY <2>1, Widths DEF Ushort
  <2> QED
    BY <2>2, <2>3
<1>9. Averaged(b, dd, fuel) =
        [b EXCEPT !.fuelRemainder = rest,
                  !.instantAvg = instant \div ci, !.instantRem = instant % ci,
                  !.quarterAvg = quarter \div cq, !.quarterRem = quarter % cq]
  BY DEF Averaged, BasicData, rate, rest, num, instant, quarter
<1> HIDE DEF instant, quarter, rest, rate
<1> QED
  BY <1>4, <1>6, <1>8, <1>9 DEF BasicData, Ushort

\* One trip through a refresh that does not divide by zero: its totals only
\* grow, so a figure that may be shown may still be shown afterwards.
LEMMA RefreshedBasicType ==
  ASSUME NEW b \in BasicData, Timed(b),
         NEW dt \in Ushort, NEW dd \in Ushort, NEW fuel \in Nat, dt = 0 => fuel = 0,
         dd # 0 \/ ~Metered(Accumulated(b, dt, dd, fuel))
  PROVE  /\ RefreshedBasic(b, dt, dd, fuel) \in BasicData
         /\ Timed(RefreshedBasic(b, dt, dd, fuel))
         /\ PastThreshold(b) => PastThreshold(RefreshedBasic(b, dt, dd, fuel))
         /\ Metered(b) => Metered(RefreshedBasic(b, dt, dd, fuel))
<1> DEFINE acc == Accumulated(b, dt, dd, fuel)
           new == RefreshedBasic(b, dt, dd, fuel)
<1>1. /\ acc \in BasicData /\ Timed(acc)
      /\ acc.tripDistance >= b.tripDistance /\ acc.tripFuel >= b.tripFuel
  BY AccumulatedType
<1>2. /\ new \in BasicData
      /\ new.tripTime = acc.tripTime
      /\ new.tripDistance = acc.tripDistance
      /\ new.tripFuel = acc.tripFuel
  <2>1. CASE Metered(acc)
    <3>1. new = Averaged(acc, dd, fuel) /\ dd \in Ushort \ {0}
      BY <2>1 DEF RefreshedBasic
    <3> QED
      BY <1>1, <3>1, AveragedType
  <2>2. CASE ~Metered(acc)
    BY <1>1, <2>2 DEF RefreshedBasic
  <2> QED
    BY <2>1, <2>2
<1>3. /\ b.tripDistance \in Nat /\ b.tripFuel \in Nat
      /\ acc.tripDistance \in Nat /\ acc.tripFuel \in Nat
  BY <1>1 DEF BasicData
<1> HIDE DEF acc, new
<1>4. DISTANCE_THRESHOLD \in Nat
  BY DEF DISTANCE_THRESHOLD
<1>5. Timed(new)
  BY <1>1, <1>2 DEF Timed
<1>6. /\ PastThreshold(b) => PastThreshold(new)
      /\ Metered(b) => Metered(new)
  BY <1>1, <1>2, <1>3, <1>4 DEF PastThreshold, Metered
<1> QED
  BY <1>2, <1>5, <1>6 DEF new

\* The figures shown have their widths: the divisors are positive.
LEMMA RefreshedShownType ==
  ASSUME NEW s \in ShownData, NEW b \in BasicData, Timed(b), NEW fuelLevel \in Ushort
  PROVE  /\ RefreshedShown(s, b, fuelLevel) \in ShownData
         /\ ~Metered(b) =>
              /\ RefreshedShown(s, b, fuelLevel).averageFuel = s.averageFuel
              /\ RefreshedShown(s, b, fuelLevel).averageSpeed = s.averageSpeed
              /\ RefreshedShown(s, b, fuelLevel).tankDistance = s.tankDistance
              /\ RefreshedShown(s, b, fuelLevel).instantFuel = s.instantFuel
         /\ ~PastThreshold(b) => RefreshedShown(s, b, fuelLevel).distance = s.distance
<1> DEFINE new    == RefreshedShown(s, b, fuelLevel)
           tenths == U16(b.tripDistance \div 10000)
           timed  == [s EXCEPT !.time = b.tripTime \div 1000]
           speed  == U16((b.tripDistance * 360) \div b.tripTime)
           tank   == IF b.quarterAvg > 0 THEN U16((fuelLevel * 100) \div b.quarterAvg)
                                         ELSE UNDEFINED
           fuel   == Cap(U16((b.tripFuel * 100) \div b.tripDistance))
           inst   == Cap(b.instantAvg)
<1>1. /\ b.tripTime \in Nat /\ b.tripDistance \in Nat /\ b.tripFuel \in Nat
      /\ b.quarterAvg \in Nat /\ b.instantAvg \in Ushort /\ fuelLevel \in Nat
  BY Widths DEF BasicData, Ushort
<1>2. tenths \in Ushort
  BY <1>1, U16Type
<1>3. \A x \in Ushort : Cap(x) \in Ushort
  BY Widths DEF Cap, Ushort
<1>4. timed \in ShownData
  BY <1>1 DEF ShownData
<1>5. CASE Metered(b)
  <2>1. b.tripTime > 0 /\ b.tripDistance > 0
    BY <1>1, <1>5 DEF Metered, PastThreshold, Timed, DISTANCE_THRESHOLD
  <2>2. speed \in Ushort
    <3>1. (b.tripDistance * 360) \div b.tripTime \in Int
      BY <1>1, <2>1
    <3> QED
      BY <3>1, U16Type
  <2>3. tank \in Ushort
    <3>1. b.quarterAvg > 0 => (fuelLevel * 100) \div b.quarterAvg \in Int
      BY <1>1
    <3> QED
      BY <1>1, <3>1, U16Type, Widths
  <2>4. fuel \in Ushort
    <3>1. (b.tripFuel * 100) \div b.tripDistance \in Int
      BY <1>1, <2>1
    <3> QED
      BY <1>3, <3>1, U16Type
  <2>5. inst \in Ushort
    BY <1>1, <1>3
  <2>6. new = [timed EXCEPT !.distance = tenths, !.instantFuel = inst,
                            !.averageSpeed = speed, !.tankDistance = tank,
                            !.averageFuel = fuel]
    BY <1>5 DEF RefreshedShown
  <2> HIDE DEF new, timed, tenths, inst, speed, tank, fuel
  <2>7. new \in ShownData
    BY <1>2, <1>4, <2>2, <2>3, <2>4, <2>5, <2>6 DEF ShownData, Ushort
  <2> QED
    BY <1>5, <2>7 DEF Metered, new
<1>6. CASE PastThreshold(b) /\ ~Metered(b)
  <2>1. new = [timed EXCEPT !.distance = tenths]
    BY <1>6 DEF RefreshedShown
  <2>2. /\ timed.averageFuel = s.averageFuel /\ timed.averageSpeed = s.averageSpeed
        /\ timed.tankDistance = s.tankDistance /\ timed.instantFuel = s.instantFuel
    BY DEF ShownData
  <2> HIDE DEF new, timed, tenths
  <2>3. /\ new \in ShownData
        /\ new.averageFuel = timed.averageFuel /\ new.averageSpeed = timed.averageSpeed
        /\ new.tankDistance = timed.tankDistance /\ new.instantFuel = timed.instantFuel
    BY <1>2, <1>4, <2>1 DEF ShownData, Ushort
  <2> QED
    BY <1>6, <2>2, <2>3 DEF new
<1>7. CASE ~PastThreshold(b)
  <2>1. new = timed /\ ~Metered(b)
    BY <1>7 DEF RefreshedShown, Metered
  <2> QED
    BY <1>4, <2>1 DEF ShownData
<1> QED
  BY <1>5, <1>6, <1>7

\* The invariant: it is inductive, its parts alone are not.
IInv == TypeOK /\ FuelTakesTime /\ ShownAfterThreshold

\* What a refresh computes from two samples.
LEMMA StepsType ==
  ASSUME last \in TripInput, NEW in \in TripInput
  PROVE  /\ TimeStep(in) \in Ushort
         /\ DistanceStep(in) \in Ushort
         /\ FuelStep(in) \in Nat
         /\ TimeStep(in) = 0 => FuelStep(in) = 0
<1>1. /\ in.time \in Ushort /\ last.time \in Ushort
      /\ in.distance \in Ushort /\ last.distance \in Ushort
      /\ in.fuelConsumption \in Ushort /\ last.fuelConsumption \in Ushort
  BY DEF TripInput, Ushort
<1>2. TimeStep(in) \in Ushort /\ DistanceStep(in) \in Ushort
  BY <1>1, RollingDeltaType DEF TimeStep, DistanceStep
<1>3. \A x \in Ushort : x \in Nat
  BY Widths DEF Ushort
<1> QED
  BY <1>1, <1>2, <1>3, FuelBurntType DEF FuelStep

\* A trip that has nothing to show yet shows nothing.
Hidden(s, b) ==
  /\ s.distance # UNDEFINED => PastThreshold(b)
  /\ \/ s.averageFuel # UNDEFINED
     \/ s.averageSpeed # UNDEFINED
     \/ s.tankDistance # UNDEFINED
     \/ s.instantFuel # UNDEFINED
     => Metered(b)

\* A refresh preserves the invariant, one trip at a time.
LEMMA NextRefreshStep ==
  ASSUME IInv, NEW in \in TripInput, NextRefresh(in), refreshes' \in 0 .. MaxRefreshes
  PROVE  IInv'
<1> DEFINE dt == TimeStep(in)
           dd == DistanceStep(in)
           fuel == FuelStep(in)
<1>1. last \in TripInput /\ basic \in [Trips -> BasicData] /\ shown \in [Trips -> ShownData]
  BY DEF IInv, TypeOK
<1>2. /\ dt \in Ushort /\ dd \in Ushort /\ fuel \in Nat
      /\ dt = 0 => fuel = 0
  BY <1>1, StepsType
<1>3. in.fuelLevel \in Ushort
  BY DEF TripInput, Ushort
<1>4. ASSUME NEW n \in Trips
      PROVE  /\ basic'[n] \in BasicData
             /\ shown'[n] \in ShownData
             /\ Timed(basic'[n])
             /\ Hidden(shown'[n], basic'[n])
  <2>1. /\ basic[n] \in BasicData /\ Timed(basic[n])
        /\ shown[n] \in ShownData /\ Hidden(shown[n], basic[n])
    BY <1>1 DEF IInv, FuelTakesTime, ShownAfterThreshold, Timed, Hidden
  <2>2. dd # 0 \/ ~Metered(Accumulated(basic[n], dt, dd, fuel))
    BY DEF NextRefresh, DividesByZero
  <2>3. /\ basic'[n] = RefreshedBasic(basic[n], dt, dd, fuel)
        /\ shown'[n] = RefreshedShown(shown[n], basic'[n], in.fuelLevel)
    BY DEF NextRefresh
  <2> HIDE DEF dt, dd, fuel
  <2>4. /\ basic'[n] \in BasicData /\ Timed(basic'[n])
        /\ PastThreshold(basic[n]) => PastThreshold(basic'[n])
        /\ Metered(basic[n]) => Metered(basic'[n])
    <3> DEFINE b == basic[n]
               new == RefreshedBasic(b, dt, dd, fuel)
    <3>1. /\ new \in BasicData /\ Timed(new)
          /\ PastThreshold(b) => PastThreshold(new)
          /\ Metered(b) => Metered(new)
      BY <1>2, <2>1, <2>2, RefreshedBasicType
    <3> HIDE DEF new
    <3>2. basic'[n] = new
      BY <2>3 DEF new
    <3> QED
      BY <3>1, <3>2
  <2>5. /\ shown'[n] \in ShownData
        /\ ~Metered(basic'[n]) => /\ shown'[n].averageFuel = shown[n].averageFuel
                                  /\ shown'[n].averageSpeed = shown[n].averageSpeed
                                  /\ shown'[n].tankDistance = shown[n].tankDistance
                                  /\ shown'[n].instantFuel = shown[n].instantFuel
        /\ ~PastThreshold(basic'[n]) => shown'[n].distance = shown[n].distance
    BY <1>3, <2>1, <2>3, <2>4, RefreshedShownType
  <2>6. Hidden(shown'[n], basic'[n])
    BY <2>1, <2>4, <2>5 DEF Hidden
  <2> QED
    BY <2>4, <2>5, <2>6
<1>5. basic' \in [Trips -> BasicData] /\ shown' \in [Trips -> ShownData]
  <2>1. /\ basic' = [n \in Trips |-> basic'[n]] /\ shown' = [n \in Trips |-> shown'[n]]
    BY DEF NextRefresh
  <2> QED
    BY <1>4, <2>1
<1>6. FuelTakesTime'
  BY <1>4 DEF FuelTakesTime, Timed
<1>7. ShownAfterThreshold'
  BY <1>4 DEF ShownAfterThreshold, Hidden
<1> QED
  BY <1>5, <1>6, <1>7 DEF IInv, TypeOK, NextRefresh

\* Everything a reset leaves undefined may be shown by any trip.
LEMMA ResetStep ==
  ASSUME IInv, NEW k \in Trips, ResetTrip(k)
  PROVE  IInv'
<1> USE DEF ResetTrip
<1>1. basic \in [Trips -> BasicData] /\ shown \in [Trips -> ShownData]
  BY DEF IInv, TypeOK
<1>2. Nothing \in ShownData
  BY Widths, TripComputerAssumption DEF Nothing, ShownData, Ushort
<1>3. /\ basic'[k].tripFuel = 0
      /\ basic' \in [Trips -> BasicData]
      /\ \A n \in Trips \ {k} : basic'[n] = basic[n]
  <2> DEFINE cleared == [basic[k] EXCEPT !.tripFuel = 0, !.tripTime = 0, !.tripDistance = 0]
  <2>1. basic' = [basic EXCEPT ![k] = cleared]
    BY <1>1
  <2>2. cleared \in BasicData /\ cleared.tripFuel = 0
    BY <1>1 DEF BasicData
  <2> HIDE DEF cleared
  <2>3. basic'[k] = cleared /\ \A n \in Trips \ {k} : basic'[n] = basic[n]
    BY <1>1, <2>1
  <2>4. basic' \in [Trips -> BasicData]
    BY <1>1, <2>1, <2>2
  <2> QED
    BY <2>2, <2>3, <2>4
<1>4. /\ shown'[k] = Nothing
      /\ shown' \in [Trips -> ShownData]
      /\ \A n \in Trips \ {k} : shown'[n] = shown[n]
  BY <1>1, <1>2
<1>5. TypeOK'
  BY <1>3, <1>4 DEF IInv, TypeOK
<1>6. FuelTakesTime'
  BY <1>3 DEF IInv, FuelTakesTime
<1>7. ASSUME NEW n \in Trips
      PROVE  Hidden(shown'[n], basic'[n])
  <2>1. CASE n = k
    BY <1>4, <2>1 DEF Hidden, Nothing
  <2>2. CASE n # k
    BY <1>3, <1>4, <2>2 DEF IInv, ShownAfterThreshold, Hidden
  <2> QED
    BY <2>1, <2>2
<1>8. ShownAfterThreshold'
  BY <1>7 DEF ShownAfterThreshold, Hidden
<1> QED
  BY <1>5, <1>6, <1>8 DEF IInv

\* A trip computer that was just initialised satisfies the invariant.
THEOREM InvariantInit == Init => IInv
<1> SUFFICES ASSUME Init PROVE IInv
  OBVIOUS
<1> DEFINE start == INSTANT_FUEL_CONSUMPTION_START_VALUE
<1>1. Fresh(start) \in BasicData /\ Fresh(start).tripFuel = 0
  BY Widths DEF Fresh, BasicData, Ushort
<1>2. Nothing \in ShownData
  BY Widths, TripComputerAssumption DEF Nothing, ShownData, Ushort
<1>3. basic = [n \in Trips |-> Fresh(start)] /\ shown = [n \in Trips |-> Nothing]
  BY DEF Init, Initialize
<1>4. ZeroInput \in TripInput
  BY Widths DEF ZeroInput, TripInput
<1> HIDE DEF start
<1>5. TypeOK
  BY <1>1, <1>2, <1>3, <1>4, TripComputerAssumption DEF Init, Initialize, TypeOK
<1>6. FuelTakesTime
  BY <1>1, <1>3 DEF FuelTakesTime
<1>7. ShownAfterThreshold
  BY <1>3 DEF ShownAfterThreshold, Nothing
<1> QED
  BY <1>5, <1>6, <1>7 DEF IInv

\* Every operation of the trip computer preserves the invariant.
THEOREM InvariantStep == IInv /\ [Next]_tcVars => IInv'
<1> SUFFICES ASSUME IInv, [Next]_tcVars PROVE IInv'
  OBVIOUS
<1>1. ASSUME NEW in \in Inputs, RefreshTripComputerInput(in)
      PROVE  IInv'
  <2>1. in \in TripInput
    BY TripComputerAssumption
  <2>2. refreshes' \in 0 .. MaxRefreshes
    BY <1>1, TripComputerAssumption DEF RefreshTripComputerInput, IInv, TypeOK
  <2>3. CASE FirstRefresh(in)
    BY <2>1, <2>2, <2>3
       DEF FirstRefresh, IInv, TypeOK, FuelTakesTime, ShownAfterThreshold
  <2>4. CASE NextRefresh(in)
    BY <2>1, <2>2, <2>4, NextRefreshStep
  <2>5. CASE FaultyRefresh(in)
    BY <2>2, <2>5 DEF FaultyRefresh, IInv, TypeOK, FuelTakesTime, ShownAfterThreshold
  <2> QED
    BY <1>1, <2>3, <2>4, <2>5 DEF RefreshTripComputerInput
<1>2. ASSUME NEW n \in Trips, ResetTrip(n)
      PROVE  IInv'
  BY <1>2, ResetStep
<1>3. CASE UNCHANGED tcVars
  BY <1>3 DEF tcVars, IInv, TypeOK, FuelTakesTime, ShownAfterThreshold
<1> QED
  BY <1>1, <1>2, <1>3 DEF Next

\* The invariant holds for all samples, resets and builds.
THEOREM InvariantHolds == Spec => []IInv
  BY InvariantInit, InvariantStep, PTL DEF Spec

\* Every field keeps the width the code gives it.
THEOREM TypeCorrect == Spec => []TypeOK
<1>1. IInv => TypeOK
  BY DEF IInv
<1> QED
  BY InvariantHolds, <1>1, PTL

\* The average speed never divides by zero.
THEOREM SpeedIsDefined == Spec => []FuelTakesTime
<1>1. IInv => FuelTakesTime
  BY DEF IInv
<1> QED
  BY InvariantHolds, <1>1, PTL

\* Nothing is shown before 400 m, or after a reset.
THEOREM ThresholdRespected == Spec => []ShownAfterThreshold
<1>1. IInv => ShownAfterThreshold
  BY DEF IInv
<1> QED
  BY InvariantHolds, <1>1, PTL

\* One step of a moving average whose sum fits 16 bits goes towards its input.
LEMMA MovesTowards ==
  ASSUME NEW c \in {INSTANT_FUEL_CONSUMPTION_COEFFICIENT,
                    LAST_QUARTER_FUEL_CONSUMPTION_COEFFICIENT},
         NEW avg \in 0 .. MAX_ORDINARY, NEW rem \in 0 .. c - 1, NEW x \in 0 .. MAX_ORDINARY
  PROVE  Between(MovingSum(c, avg, rem, x) \div c, avg, x)
<1> DEFINE sum == (c - 1) * avg + x + rem
<1>1. c = 10 \/ c = 90
  BY DEF INSTANT_FUEL_CONSUMPTION_COEFFICIENT, LAST_QUARTER_FUEL_CONSUMPTION_COEFFICIENT
<1>2. /\ avg \in Nat /\ avg <= 727
      /\ x \in Nat /\ x <= 727
      /\ rem \in Nat /\ rem <= c - 1
  BY <1>1 DEF MAX_ORDINARY
<1>3. sum \in Nat /\ sum <= 65535
  BY <1>1, <1>2
<1>4. MovingSum(c, avg, rem, x) = sum
  <2>1. 65535 = USHRT_MAX
    BY DEF USHRT_MAX
  <2>2. sum \in Ushort
    <3> HIDE DEF sum
    <3> QED
      BY <1>3, <2>1 DEF Ushort
  <2> QED
    BY <2>2, U16Fits DEF MovingSum
<1>5. CASE c = 10
  <2>1. Between((9 * avg + x + rem) \div 10, avg, x)
    BY <1>2, <1>5 DEF Between
  <2> QED
    BY <1>4, <1>5, <2>1
<1>6. CASE c = 90
  <2>1. Between((89 * avg + x + rem) \div 90, avg, x)
    BY <1>2, <1>6 DEF Between
  <2> QED
    BY <1>4, <1>6, <2>1
<1> QED
  BY <1>1, <1>5, <1>6

\* Both averages of a trip in one refresh.
LEMMA AveragedMoves ==
  ASSUME NEW b \in BasicData, NEW dd \in Ushort \ {0}, NEW fuel \in Nat,
         b.instantAvg <= MAX_ORDINARY, b.quarterAvg <= MAX_ORDINARY,
         BurntPerMetre(b, dd, fuel) <= MAX_ORDINARY
  PROVE  LET new == Averaged(b, dd, fuel) IN
         /\ Between(new.instantAvg, b.instantAvg, BurntPerMetre(b, dd, fuel))
         /\ Between(new.quarterAvg, b.quarterAvg, new.instantAvg)
<1> DEFINE ci == INSTANT_FUEL_CONSUMPTION_COEFFICIENT
           cq == LAST_QUARTER_FUEL_CONSUMPTION_COEFFICIENT
           new == Averaged(b, dd, fuel)
           rate == BurntPerMetre(b, dd, fuel)
           i == MovingSum(ci, b.instantAvg, b.instantRem, rate) \div ci
           q == MovingSum(cq, b.quarterAvg, b.quarterRem, i) \div cq
<1>1. new.instantAvg = i /\ new.quarterAvg = q
  BY DEF Averaged, BasicData
<1>2. /\ b.instantAvg \in 0 .. MAX_ORDINARY /\ b.quarterAvg \in 0 .. MAX_ORDINARY
      /\ b.instantRem \in 0 .. ci - 1 /\ b.quarterRem \in 0 .. cq - 1
  BY Widths DEF BasicData, MAX_ORDINARY
<1>3. rate \in 0 .. MAX_ORDINARY
  <2> DEFINE num == fuel * 100 + b.fuelRemainder
  <2>1. num \in Nat /\ dd \in Nat \ {0} /\ rate = num \div dd
    BY Widths DEF BasicData, Ushort, BurntPerMetre
  <2> HIDE DEF num
  <2>2. rate \in Nat
    BY <2>1
  <2> HIDE DEF rate
  <2> QED
    BY <2>2 DEF MAX_ORDINARY, rate
<1> HIDE DEF rate
<1>4. Between(i, b.instantAvg, rate)
  BY <1>2, <1>3, MovesTowards
<1> HIDE DEF i
<1>5. i \in 0 .. MAX_ORDINARY
  <2>1. /\ rate \in Nat /\ rate <= 727
        /\ b.instantAvg \in Nat /\ b.instantAvg <= 727
        /\ b.instantRem \in Nat /\ ci \in Nat
    <3>1. MAX_ORDINARY = 727
      BY DEF MAX_ORDINARY
    <3>2. /\ rate \in Nat /\ rate <= MAX_ORDINARY
          /\ b.instantAvg \in Nat /\ b.instantAvg <= MAX_ORDINARY
          /\ b.instantRem \in Nat /\ ci \in Nat
      BY <1>2, <1>3, Widths
    <3> QED
      BY <3>1, <3>2
  <2>2. MovingSum(ci, b.instantAvg, b.instantRem, rate) \in Ushort
    BY <2>1, MovingSumType
  <2>3. i \in Ushort
    BY <2>2, QuotientFits DEF i
  <2>4. i \in Nat
    BY <2>3, Widths DEF Ushort
  <2>5. i <= 727
    BY <1>4, <2>1, <2>4 DEF Between
  <2> QED
    BY <2>4, <2>5 DEF MAX_ORDINARY
<1>6. Between(q, b.quarterAvg, i)
  BY <1>2, <1>5, MovesTowards
<1> QED
  BY <1>1, <1>4, <1>6 DEF rate

\* Both averages only move towards what they average.
THEOREM AveragesFilter == Spec => MovingFilter
<1> DEFINE Moves ==
      \A n \in Trips :
       LET acc  == Accumulated(basic[n], TimeStep(last'), DistanceStep(last'),
                               FuelStep(last'))
           rate == BurntPerMetre(acc, DistanceStep(last'), FuelStep(last'))
       IN  (/\ NextRefresh(last')
            /\ Metered(acc)
            /\ basic[n].instantAvg <= MAX_ORDINARY
            /\ basic[n].quarterAvg <= MAX_ORDINARY
            /\ rate <= MAX_ORDINARY)
           => /\ Between(basic'[n].instantAvg, basic[n].instantAvg, rate)
              /\ Between(basic'[n].quarterAvg, basic[n].quarterAvg,
                         basic'[n].instantAvg)
<1>1. IInv /\ IInv' => Moves
  <2> SUFFICES ASSUME IInv, IInv', NEW n \in Trips, NextRefresh(last')
               PROVE  LET acc  == Accumulated(basic[n], TimeStep(last'),
                                              DistanceStep(last'), FuelStep(last'))
                          rate == BurntPerMetre(acc, DistanceStep(last'), FuelStep(last'))
                      IN  (/\ Metered(acc)
                           /\ basic[n].instantAvg <= MAX_ORDINARY
                           /\ basic[n].quarterAvg <= MAX_ORDINARY
                           /\ rate <= MAX_ORDINARY)
                          => /\ Between(basic'[n].instantAvg, basic[n].instantAvg, rate)
                             /\ Between(basic'[n].quarterAvg, basic[n].quarterAvg,
                                        basic'[n].instantAvg)
    OBVIOUS
  <2> DEFINE dt == TimeStep(last')
             dd == DistanceStep(last')
             fuel == FuelStep(last')
             b == basic[n]
             acc == Accumulated(b, dt, dd, fuel)
  <2>1. /\ dt \in Ushort /\ dd \in Ushort /\ fuel \in Nat
        /\ dt = 0 => fuel = 0
    BY StepsType DEF IInv, TypeOK
  <2>2. b \in BasicData /\ Timed(b)
    BY DEF IInv, TypeOK, FuelTakesTime, Timed
  <2>3. /\ acc \in BasicData
        /\ acc.instantAvg = b.instantAvg /\ acc.quarterAvg = b.quarterAvg
    BY <2>1, <2>2, AccumulatedType DEF Accumulated, BasicData
  <2>4. Metered(acc) => dd # 0 /\ basic'[n] = Averaged(acc, dd, fuel)
    BY DEF NextRefresh, DividesByZero, RefreshedBasic
  <2> HIDE DEF dt, dd, fuel, b, acc
  <2>5. ASSUME Metered(acc), b.instantAvg <= MAX_ORDINARY, b.quarterAvg <= MAX_ORDINARY,
               BurntPerMetre(acc, dd, fuel) <= MAX_ORDINARY
        PROVE  /\ Between(basic'[n].instantAvg, b.instantAvg,
                          BurntPerMetre(acc, dd, fuel))
               /\ Between(basic'[n].quarterAvg, b.quarterAvg, basic'[n].instantAvg)
    BY <2>1, <2>3, <2>4, <2>5, AveragedMoves
  <2> QED
    BY <2>5 DEF dt, dd, fuel, b, acc
<1> QED
  BY <1>1, InvariantHolds, PTL DEF MovingFilter
=============================================================================
