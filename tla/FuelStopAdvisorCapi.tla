------------------------- MODULE FuelStopAdvisorCapi -------------------------
(***************************************************************************)
(* The fuel stop advisor over CommonAPI (src/src/fuel-stop-advisor-capi),  *)
(* where it differs from the one over D-Bus:                               *)
(*   - the methods of the stub run in the dispatch thread of CommonAPI, at *)
(*     any point of update_data, which the main loop runs every second;    *)
(*   - there is no timer of five seconds: the warning is computed when the *)
(*     settings or the route change, and then only;                        *)
(*   - the status of a call to the routing engine is not looked at: a      *)
(*     route it does not know has no segments, nothing is thrown;          *)
(*   - an invalid trip number is thrown through CommonAPI, and nothing in  *)
(*     this program catches it.                                            *)
(* The refresh of the trip computer is one step here: the accesses of the  *)
(* two threads to it are not ordered by the program.                       *)
(***************************************************************************)
EXTENDS FuelStopAdvisor

\* The trip computer has the new sample, the advisor still the level before.
CapiRefresh ==
  /\ RefreshTrips
  /\ sample' = IF alive' THEN [sample EXCEPT !.stage = "store"] ELSE Idle
  /\ UNCHANGED <<counterVars, advisorVars, externalVars, fuelLevel>>

CapiStore ==
  /\ alive
  /\ sample.stage = "store"
  /\ StoreLevel
  /\ sample' = Idle
  /\ UNCHANGED <<tripVars, counterVars, advisorVars, externalVars, fed>>

update_data == SampleLevel \/ SampleTime \/ SampleOdometer \/ CapiRefresh \/ CapiStore

CapiMethod ==
  /\ alive
  /\ EnhancedDistanceUpdated
  /\ UNCHANGED <<tripVars, counterVars, externalVars, sample, fuelLevel, fed>>

setFuelAdvisorSettings(mode, threshold) ==
  /\ advisorMode' = mode
  /\ distanceThreshold' = threshold
  /\ UNCHANGED routeHandle
  /\ CapiMethod

setRouteHandle(handle) ==
  /\ routeHandle' = handle
  /\ UNCHANGED <<advisorMode, distanceThreshold>>
  /\ CapiMethod

\* The argument is ignored here too.
releaseRouteHandle(handle) ==
  /\ routeHandle' = NO_ROUTE
  /\ UNCHANGED <<advisorMode, distanceThreshold>>
  /\ CapiMethod

resetTripData(n) ==
  /\ TC!ResetTrip(n)
  /\ UNCHANGED <<counterVars, advisorVars, externalVars, sample, fuelLevel, fed>>

InvalidTripNumber ==
  /\ alive
  /\ alive' = FALSE
  /\ UNCHANGED <<basic, shown, firstRefresh, last, refreshes, counterVars,
                 advisorVars, externalVars, sample, fuelLevel, fed>>

\* The broker and the routing engine are those of FuelStopAdvisor.
External ==
  \/ \E l \in Levels : PublishLevel(l)
  \/ \E c \in Rates : PublishConsumption(c)
  \/ \E d \in Odometers, ms \in Clocks : PublishOdometer(d, ms)
  \/ \E h \in Handles : CreateRoute(h) \/ DeleteRoute(h)

CapiNext ==
  \/ update_data
  \/ SampleFails
  \/ \E m \in BOOLEAN, t \in Thresholds : setFuelAdvisorSettings(m, t)
  \/ \E h \in Handles : setRouteHandle(h) \/ releaseRouteHandle(h)
  \/ \E n \in TC!Trips : resetTripData(n)
  \/ InvalidTripNumber
  \/ External
=============================================================================
