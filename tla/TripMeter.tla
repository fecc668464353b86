------------------------------ MODULE TripMeter ------------------------------
(***************************************************************************)
(* What a trip computer promises to whoever feeds it: a sample moves all   *)
(* the trips forward by the same time and the same distance, those that    *)
(* were sampled, and a reset clears one trip.  No counter width, no wrap,  *)
(* no sampling order.  A step of Limit or more is counted for less.        *)
(***************************************************************************)
EXTENDS Integers

CONSTANTS
  Trips,
  Limit,   \* steps from here on are not measured
  Excess   \* by how much a measured step may be counted too high

VARIABLES
  total,   \* [time, distance] handed over so far, in ms and cm
  reading  \* [time, distance] of each trip since its last reset

meterVars == <<total, reading>>

Readings == [time : Nat, distance : Nat]

Zero == [time |-> 0, distance |-> 0]

Init == total = Zero /\ reading = [n \in Trips |-> Zero]

\* By how far a sample of dd cm, or of dt ms, may move a trip.
Distances(dd) == CASE dd = 0               -> {0}
                   [] 0 < dd /\ dd < Limit -> dd .. dd + Excess
                   [] dd >= Limit          -> 0 .. Limit
Times(dt) == CASE dt = 0               -> {0}
               [] 0 < dt /\ dt < Limit -> dt - 1 .. dt + Excess
               [] dt >= Limit          -> 0 .. Limit

Moved(n) == [time     |-> reading'[n].time - reading[n].time,
             distance |-> reading'[n].distance - reading[n].distance]

Advance ==
  LET dt == total'.time - total.time
      dd == total'.distance - total.distance
  IN  /\ dt >= 0 /\ dd >= 0
      /\ reading' \in [Trips -> Readings]
      /\ \A n \in Trips :
           /\ Moved(n).time \in Times(dt)
           /\ Moved(n).distance \in Distances(dd)
           /\ \A m \in Trips : Moved(m) = Moved(n)

Reset(n) == reading' = [reading EXCEPT ![n] = Zero] /\ UNCHANGED total

Next == Advance \/ \E n \in Trips : Reset(n)

Spec == Init /\ [][Next]_meterVars
=============================================================================
