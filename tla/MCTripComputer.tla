--------------------------- MODULE MCTripComputer ---------------------------
(***************************************************************************)
(* Samples for TripComputer.  Two counter values are 41000 apart, so that  *)
(* one step passes the 400 m threshold, and going back to 0 wraps; equal   *)
(* successive values are a standing car, zero consumption a coasting one.  *)
(***************************************************************************)
EXTENDS TripComputer

DrivingInputs ==
  [fuelLevel : {300}, time : {0, 40000}, distance : {0, 41000, 65000},
   fuelConsumption : {0, 3000}]

\* A car that rolls 41000 then stands, with the engine running.
IdlingInputs ==
  [fuelLevel : {300}, time : {1000, 2000}, distance : {1000, 42000},
   fuelConsumption : {100}]
=============================================================================
