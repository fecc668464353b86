-------------------------- MODULE MCVehicleGateway --------------------------
(* The vehicle gateway and its devices: a line of the receiver is a position *)
(* in the south and west, a report that there is none, or one of the other   *)
(* sentences; an RMC sentence may be cut short where the library minds.      *)
EXTENDS VehicleGateway

Next == GatewayNext

vars == gatewayVars

Spec == GatewayInit /\ [][Next]_vars
FairSpec == Spec /\ WF_vars(MainStep) /\ WF_vars(ReaderStep)

\* The instances.
N(n) == Number(n)
E    == Blank
L(c) == Letter(c)

Rmc(fields)  == [name |-> "RMC", checksum |-> "right", fields |-> fields]
Fix(n)       == <<N(n), L("A"), N(n), L("S"), N(n), L("W"), N(n), N(n), N(n), E, E, L("A")>>
Lost(n)      == <<N(n), L("V"), N(n), L("S"), N(n), L("W"), E, E, N(n), E, E, L("N")>>
Cold         == <<E, L("V"), E, E, E, E, E, E, E, E, E, L("N")>>

MCSentences ==
  [n \in 1 .. 2 |->
    {Rmc(Fix(n)), Rmc(Lost(n)), Rmc(Cold)}
      \cup {Rmc(SubSeq(Fix(n), 1, k)) : k \in {1, 2, 4}}
      \cup {[name |-> "RMC", checksum |-> "wrong", fields |-> Fix(n)],
            [name |-> "GGA", checksum |-> "none",
             fields |-> <<N(n), N(n), L("N"), N(n), L("E"), N(1), N(n), N(n), N(n),
                          L("M"), N(n), L("M")>>],
            [name |-> "GGA", checksum |-> "none",
             fields |-> <<N(n), N(n), L("S"), N(n), L("W"), N(0), E, E, N(n), L("M"), N(n), L("F")>>],
            [name |-> "GSA", checksum |-> "right",
             fields |-> <<L("A"), N(3), N(1), N(2), E, E, E, E, E, E, E, E, E, E, N(n), N(n),
                          N(n), N(2)>>],
            [name |-> "GSA", checksum |-> "right",
             fields |-> <<L("A"), N(1)>>],
            [name |-> "GST", checksum |-> "right",
             fields |-> <<N(n), E, E, E, E, N(3), N(4), N(n)>>],
            [name |-> "GSV", checksum |-> "right", fields |-> << >>]}]

MCReadings == << <<0, 8, 0, 0>>, <<1, 10, 15, 8>> >>

=============================================================================
