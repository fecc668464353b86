---------------------------- MODULE MCPositioning ----------------------------
(* The log replayer with one of its receivers: the positioning daemon, the   *)
(* AMB plugin, or a daemon that gets no data and whose properties are set.   *)
(* The receivers share nothing, and the properties nothing with the rest of  *)
(* the daemon, so that the behaviours of each are those it has among the     *)
(* others.  The plugin also gets frames of the vehicle gateway.              *)
EXTENDS PositioningDaemon

PluginMessages  == GVVEH \ {"GVVEHVER"}
GatewayMessages == {"GVVEHENGSPEED", "GVVEHFUELLEVEL"}

VARIABLES receiver, inbox, broker, statusRunning, thread, msgId, value

pluginVars == <<inbox, broker, statusRunning, thread, msgId, value>>

Plugin == INSTANCE AmbPlugin WITH Names <- GVVEH, Messages <- PluginMessages

vars == <<replayerVars, daemonVars, receiver, pluginVars>>

Init ==
  /\ ReplayerInit
  /\ DaemonInit
  /\ Plugin!PluginInit
  /\ receiver \in {"gnss", "vehicle", "nothing"}

Unattended ==
  UNCHANGED <<receiver, main, properties, isRunning, listener, cb, gnssMsgId, held, batch,
              stored, clientVars, broker, statusRunning, thread, msgId, value>>

\* Bounds: one datagram waits at a time, and a line that gives no position is
\* the first of its log.
SendLine(line) ==
  /\ Send(line)
  /\ arrived = << >> /\ inbox = << >>
  /\ Cell(line.id) # "gPosition" \/ line.id = "GVSNSVSP" => log = << >>
  /\ Port(replayedId') \in {receiver, "other"}
  /\ IF Port(replayedId') = "gnss" THEN Arrive(Len(log')) ELSE UNCHANGED arrived
  /\ IF Port(replayedId') = "vehicle"
       THEN Plugin!Deliver([id |-> line.id, third |-> "value"])
       ELSE UNCHANGED inbox
  /\ Unattended

GatewayFrame(m) ==
  /\ receiver = "vehicle"
  /\ inbox = << >>
  /\ Plugin!Deliver([id |-> m, third |-> "timestamp"])
  /\ Unattended
  /\ UNCHANGED <<arrived, replayerVars>>

SkipLine == Skip /\ UNCHANGED <<arrived, inbox>> /\ Unattended

WithoutDaemon == receiver = "vehicle" /\ UNCHANGED <<replayerVars, daemonVars, receiver>>
WithoutPlugin == receiver # "vehicle" /\ UNCHANGED <<replayerVars, pluginVars, receiver>>

PluginThread == Plugin!PluginStep /\ WithoutDaemon
PluginMay    == (Plugin!BindFails \/ Plugin!ReceiveFails \/ Plugin!Destroy) /\ WithoutDaemon
Listener     == ListenerStep /\ WithoutPlugin
Main         == MainStep /\ WithoutPlugin

Next ==
  \/ \E line \in Lines : SendLine(line)
  \/ \E m \in GatewayMessages : GatewayFrame(m)
  \/ SkipLine
  \/ PluginThread
  \/ PluginMay
  \/ Listener
  \/ Main
  \/ BusStep /\ WithoutPlugin
  \/ receiver = "nothing" /\ PropertyStep /\ WithoutPlugin

Spec == Init /\ [][Next]_vars

\* The threads are scheduled and select returns after a second; neither the
\* log, nor the clients, nor the broker have to do anything.
FairSpec == Spec /\ WF_vars(Listener) /\ WF_vars(Main) /\ WF_vars(PluginThread)

TypeOK == DaemonTypeOK /\ Plugin!PluginTypeOK

DestructorReturnsOnDatagram == Plugin!DestructorReturnsOnDatagram

\* The instance: a position as it is logged today and as old logs give it,
\* with and without its values; the other old sentences; the rest of a line.
Line(id, countdown, valid) ==
  [id |-> id, timed |-> TRUE, comment |-> FALSE, countdown |-> countdown,
   parses |-> id # "none", valid |-> valid]

MCLines ==
  {[Line("none", 0, {}) EXCEPT !.comment = TRUE],
   Line("none", 0, {}),
   Line("GVGNSPOS", 0, {"LATITUDE", "LONGITUDE", "HEADING", "STAT", "USYS"}),
   Line("GVGNSPOS", 1, {"LATITUDE", "LONGITUDE", "TYPE"}),
   Line("GVGNSP", 0, {"LATITUDE"}),
   Line("GVGNSC", 1, {"HSPEED", "HEADING"}),
   Line("GVGNSC", 0, {"HSPEED"}),
   Line("GVGNSAC", 0, {"PDOP", "STAT", "TYPE"}),
   Line("GVGNSTIM", 0, {}),
   Line("GVGNSSAT", 0, {}),
   Line("GVVEHFUELLEVEL", 0, {}),
   Line("GVVEHVER", 0, {}),
   Line("GVSNSVSP", 0, {})}

MCRequests       == {{"LATITUDE", "HEADING"}}
MCPropertyValues == {<<"SatelliteSystem", {"GPS", "COMPASS"}>>}
=============================================================================
