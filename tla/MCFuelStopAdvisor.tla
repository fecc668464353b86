-------------------------- MODULE MCFuelStopAdvisor --------------------------
(***************************************************************************)
(* Instances of FuelStopAdvisor, over D-Bus or over CommonAPI.  Steps of   *)
(* 41000 (cm or ms) pass the 400 m threshold at once and wrap a 16-bit     *)
(* counter every other time; a gap of 70000 ms is more than it can hold.   *)
(***************************************************************************)
EXTENDS FuelStopAdvisorCapi

VARIABLE binding

mcVars == <<vars, binding>>

Over(b) == binding = b /\ UNCHANGED binding

MCInit == Init /\ binding \in {"dbus", "capi"}

MCNext ==
  \/ Next /\ Over("dbus")
  \/ CapiNext /\ Over("capi")

MCSpec == MCInit /\ [][MCNext]_mcVars

\* A started sample runs to its end: the calls are blocking.  Over D-Bus, a
\* timer that is due is dispatched although the other timer and the methods
\* keep interrupting it, hence strong fairness.  Over CommonAPI no step is sure
\* to compute the warning again.
MCFairSpec ==
  /\ MCSpec
  /\ WF_mcVars(Sampling /\ Over("dbus"))
  /\ SF_mcVars(EnhancedDistanceTimer /\ Over("dbus"))
  /\ WF_mcVars(update_data /\ Over("capi"))

DBusSpec == MCSpec /\ binding = "dbus"

\* Over D-Bus, while the advisor is on, a change of the fuel level, the route
\* or the settings ends up in the warning, unless it is undone or the process
\* dies.
WarningCatchesUp ==
  \A b \in BOOLEAN :
    (binding = "dbus" /\ Assessed(b)) ~> (warning = b \/ ~Assessed(b))

\* Over D-Bus, a request that was refused while the advisor is on does not stay
\* beside the flag of another one: the timer assesses what it left behind, or
\* its own exception ends the process, unless the advisor is switched off.
RefusalHasConsequences ==
  (binding = "dbus" /\ alive /\ advisorMode /\ refused)
    ~> (~refused \/ ~alive \/ ~advisorMode)

\* Route 1 takes 10 litres in two segments, leaving some of a 30 litre tank
\* but emptying one of 5 in its second segment.
TwoSegments == [h \in {1} |-> <<4, 6>>]
NoSegments  == [h \in {} |-> << >>]
=============================================================================
