--------------------------- MODULE PositioningProofs ---------------------------
(***************************************************************************)
(* Proofs about the positioning daemon and the replayer that feeds it: the *)
(* types, and the four safety properties of the daemon, for every log,     *)
(* every size of the batch buffer and every request of the client.         *)
(***************************************************************************)
EXTENDS MCPositioning, TLAPS

Cells        == {"gPosition", "gTime", "gSatelliteDetail"}
Position     == [source : [Groups -> Nat], valid : SUBSET STRING]
BatchMessage == [countdown : Nat, position : Position]
Batch        == [cell : Cells \cup {"none"}, messages : Seq(BatchMessage)]

LogTypes  == log \in Seq(Lines) /\ arrived \in Seq(1 .. Len(log))
DataTypes ==
  /\ held \in [GVGNS -> Seq(BatchMessage)]
  /\ batch \in Batch
  /\ stored \in [Cells -> Position]

\* The countdown of the messages held counts the slots that are left.
HeldCountsDown ==
  \A id \in GVGNS : held[id] # << >> =>
    /\ held[id][Len(held[id])].countdown >= 1
    /\ Len(held[id]) + held[id][Len(held[id])].countdown <= MAX_BUF_MSG

BatchIsThere ==
  /\ Len(batch.messages) <= MAX_BUF_MSG
  /\ listener \in {"store", "notify", "callback"} =>
       batch.cell \in Cells /\ batch.messages # << >>

Known(p)  == \A g \in Groups : p.source[g] <= Len(log)

\* The datagrams a position names were received.
SourcesKnown ==
  /\ \A c \in Cells : Known(stored[c])
  /\ \A id \in GVGNS : \A i \in 1 .. Len(held[id]) : Known(held[id][i].position)
  /\ \A i \in 1 .. Len(batch.messages) : Known(batch.messages[i].position)

\* What is valid was declared valid by the datagram that is named for it.
Declared(p) ==
  \A v \in p.valid \cap (Where \cup Systems) :
    /\ p.source[GroupOf(v)] > 0
    /\ v \in log[p.source[GroupOf(v)]].valid

PositionsDeclared ==
  /\ Declared(stored["gPosition"])
  /\ \A id \in GVGNS : Cell(id) = "gPosition" =>
       \A i \in 1 .. Len(held[id]) : Declared(held[id][i].position)
  /\ batch.cell = "gPosition" =>
       \A i \in 1 .. Len(batch.messages) : Declared(batch.messages[i].position)

\* Between storing and the end of the callback.
BatchIsStored ==
  /\ listener \in {"notify", "callback"} => stored[batch.cell] = LastOf(batch)
  /\ (listener = "callback" /\ batch.cell = "gPosition") => announced = Changed(batch)

\* Between the last message of a batch and storing.
Own == [GVGNSC |-> "course", GVGNSAC |-> "accuracy"]

Retains(old, new) ==
  (new.source["time"] > 0 /\ log[new.source["time"]].id \in DOMAIN Own) =>
    /\ old.valid \subseteq new.valid
    /\ \A g \in Groups \ {"time", Own[log[new.source["time"]].id]} :
         new.source[g] = old.source[g]

StoreRetains ==
  (listener = "store" /\ batch.cell = "gPosition") =>
    Retains(stored["gPosition"], LastOf(batch))

\* While a new position waits to be signalled the client may have the old one.
ToBeTold == listener = "notify" /\ batch.cell = "gPosition"

ClientKnows ==
  /\ main = "loop" => "gPosition" \in cb
  /\ main \in {"init", "run"} => view = Unread
  /\ (main = "loop" /\ ~ToBeTold /\ ~pending /\ view # Unread) => view = Info(view.values)

ThreadTypes ==
  /\ main \in {"init", "run", "loop", "shutdown", "destroy", "join", "gone"}
  /\ isRunning \in BOOLEAN
  /\ listener \in {"none", "loop", "select", "store", "notify", "callback", "done"}
  /\ cb \subseteq {"gPosition", "gSatelliteDetail"}
  /\ pending \in BOOLEAN

PluginInv ==
  /\ Plugin!PluginTypeOK
  /\ inbox \in Seq([id : GVVEH \cup {"none"}, third : {"timestamp", "value"}])

IInv ==
  /\ LogTypes /\ DataTypes /\ ThreadTypes /\ HeldCountsDown /\ BatchIsThere
  /\ SourcesKnown /\ PositionsDeclared
  /\ BatchIsStored /\ StoreRetains /\ ClientKnows /\ PluginInv

(***************************************************************************)
(* The kinds of steps, as far as the data of the daemon are concerned.     *)
(***************************************************************************)
Sends ==
  /\ \E line \in Lines : log' = Append(log, line)
  /\ arrived' = arrived \/ arrived' = Append(arrived, Len(log'))
  /\ UNCHANGED <<main, isRunning, listener, cb, held, batch, stored, clientVars>>

Waits ==
  /\ UNCHANGED <<log, held, batch, stored, announced>>
  /\ arrived' = arrived \/ (arrived # << >> /\ arrived' = Tail(arrived))
  /\ listener' \in {listener, "loop", "select", "done"}

Gets ==
  /\ arrived # << >> /\ arrived' = Tail(arrived)
  /\ \E id \in GVGNS : \E m \in Handled(id, Head(arrived)) : Buffered(id, m)
  /\ UNCHANGED <<log, stored, announced>>

\* Only the six sentences have a handler.
LEMMA HandledAreNamed ==
  ASSUME NEW id, NEW n, Handled(id, n) # {}
  PROVE  id \in GVGNS
BY DEF Handled, GVGNS

\* A message that is received changes nothing, or is put into the batch of its
\* sentence.
LEMMA ReceiveStep ==
  ASSUME Receive, UNCHANGED log
  PROVE  Waits \/ Gets
<1> DEFINE n == Head(arrived)
<1>1. /\ arrived # << >> /\ arrived' = Tail(arrived)
      /\ UNCHANGED <<stored, announced>>
  BY Zenon DEF Receive, clientVars
<1>2. CASE listener' = "loop" /\ UNCHANGED <<held, batch>>
  BY <1>1, <1>2 DEF Waits
<1>3. CASE \E m \in Handled(gnssMsgId', n) : Buffered(gnssMsgId', m)
  <2>1. gnssMsgId' \in GVGNS
    <3>1. Handled(gnssMsgId', n) # {} BY <1>3
    <3> QED BY <3>1, HandledAreNamed, Zenon
  <2> QED BY <1>1, <1>3, <2>1, Zenon DEF Gets
<1> QED BY <1>2, <1>3, Zenon DEF Receive

\* Every step is of one of six kinds.
LEMMA DataSteps ==
  ASSUME [Next]_vars
  PROVE  \/ Sends
         \/ Waits
         \/ Gets
         \/ Store /\ UNCHANGED log
         \/ Call /\ UNCHANGED log
         \/ Return /\ UNCHANGED log
<1>1. CASE \E line \in Lines : SendLine(line)
  <2>1. PICK line \in Lines : SendLine(line) BY <1>1
  <2>2. /\ log' = Append(log, line)
        /\ UNCHANGED <<main, isRunning, listener, cb, held, batch, stored, clientVars>>
    BY <2>1, Zenon DEF SendLine, Send, Unattended
  <2>3. arrived' = arrived \/ arrived' = Append(arrived, Len(log'))
    BY <2>1, Zenon DEF SendLine, Arrive
  <2> QED BY <2>2, <2>3, Zenon DEF Sends
<1>2. CASE \E m \in PluginMessages : GatewayFrame(m)
  BY <1>2 DEF GatewayFrame, Unattended, Waits, clientVars, replayerVars
<1>3. CASE SkipLine
  BY <1>3 DEF SkipLine, Skip, Unattended, Waits, clientVars, replayerVars
<1>4. CASE PluginThread \/ PluginMay
  <2>1. WithoutDaemon BY <1>4, Zenon DEF PluginThread, PluginMay
  <2> QED BY <2>1 DEF WithoutDaemon, Waits, daemonVars, libraryVars, clientVars, replayerVars
<1>5. CASE Listener
  <2>1. ListenerStep /\ UNCHANGED log
    BY <1>5, Zenon DEF Listener, WithoutPlugin, replayerVars
  <2>2. CASE Loop \/ SelectTimesOut
    BY <2>1, <2>2 DEF Loop, SelectTimesOut, Waits, clientVars
  <2>3. CASE Receive
    BY <2>1, <2>3, ReceiveStep, Zenon
  <2> QED BY <2>1, <2>2, <2>3, Zenon DEF ListenerStep
<1>6. CASE Main
  <2>1. MainStep /\ UNCHANGED log
    BY <1>6, Zenon DEF Main, WithoutPlugin, replayerVars
  <2> QED
    BY <2>1 DEF MainStep, gnssInit, gnssInitFails, Run, Shutdown, gnssDestroy, Joined,
                WithMutexCb, NoData, clientVars, Waits
<1>7. CASE (BusStep \/ PropertyStep) /\ WithoutPlugin
  <2>1. UNCHANGED log BY <1>7, Zenon DEF WithoutPlugin, replayerVars
  <2> QED
    BY <1>7, <2>1 DEF BusStep, PropertyStep, Leave, GetPositionInfo, SetProperty, NoData,
                clientVars, Waits
<1>8. CASE UNCHANGED vars
  BY <1>8 DEF vars, Waits, daemonVars, libraryVars, clientVars, replayerVars
<1>9. \A m \in GatewayMessages : m \in PluginMessages
  BY DEF GatewayMessages, PluginMessages, GVVEH
<1> QED BY <1>1, <1>2, <1>3, <1>4, <1>5, <1>6, <1>7, <1>8, <1>9, Zenon DEF Next

(***************************************************************************)
(* The messages.                                                           *)
(***************************************************************************)
LEMMA LogEntry ==
  ASSUME LogTypes, NEW n \in 1 .. Len(log)
  PROVE  log[n] \in Lines /\ log[n] \in LineType
BY LogReplayerAssumption DEF LogTypes

\* A line that parses gives a message with its own countdown.
LEMMA MessageType ==
  ASSUME LogTypes, NEW n \in 1 .. Len(log), NEW p \in Position
  PROVE  Message(n, p) \in BatchMessage
BY LogEntry DEF Message, BatchMessage, LineType

\* A position read from one datagram names that datagram for what it read.
LEMMA FreshPosition ==
  ASSUME LogTypes, NEW n \in 1 .. Len(log), NEW groups
  PROVE  /\ Fresh(n, groups) \in Position
         /\ Known(Fresh(n, groups))
         /\ Fresh(n, groups).valid = log[n].valid
         /\ \A g \in Groups : Fresh(n, groups).source[g] = IF g \in groups THEN n ELSE 0
<1>1. log[n].valid \in SUBSET STRING BY LogEntry DEF LineType
<1>2. Len(log) \in Nat BY DEF LogTypes
<1> QED BY <1>1, <1>2 DEF Fresh, Position, Known

\* A position read into the stored one keeps the datagrams it does not overwrite.
LEMMA MergedPosition ==
  ASSUME LogTypes, DataTypes, SourcesKnown, NEW n \in 1 .. Len(log), NEW groups
  PROVE  /\ Merged(n, groups) \in Position
         /\ Known(Merged(n, groups))
         /\ Merged(n, groups).valid = stored["gPosition"].valid \cup log[n].valid
         /\ \A g \in Groups : Merged(n, groups).source[g] =
                                IF g \in groups THEN n ELSE stored["gPosition"].source[g]
<1>1. log[n].valid \in SUBSET STRING BY LogEntry DEF LineType
<1>2. Len(log) \in Nat BY DEF LogTypes
<1>3. stored["gPosition"] \in Position /\ Known(stored["gPosition"])
  BY DEF DataTypes, SourcesKnown, Cells
<1> QED BY <1>1, <1>2, <1>3 DEF Merged, Position, Known

\* The groups of the values whose origin matters.
LEMMA GroupsOfValues ==
  /\ \A v \in Where : GroupOf(v) = "where"
  /\ \A v \in Systems : GroupOf(v) = "systems"
  /\ Where \cap Systems = {} /\ Course \cap (Where \cup Systems) = {}
  /\ Accuracy \cap (Where \cup Systems) = {}
  /\ {"time", "where", "course", "accuracy", "systems"} = Groups
BY DEF GroupOf, Where, Systems, Course, Accuracy, Groups

\* A fresh position whose groups cover what its datagram declares.
LEMMA FreshDeclared ==
  ASSUME LogTypes, NEW n \in 1 .. Len(log), NEW groups, "where" \in groups,
         log[n].valid \cap Systems = {} \/ "systems" \in groups
  PROVE  Declared(Fresh(n, groups))
<1> SUFFICES ASSUME NEW v \in Fresh(n, groups).valid \cap (Where \cup Systems)
             PROVE  /\ Fresh(n, groups).source[GroupOf(v)] > 0
                    /\ v \in log[Fresh(n, groups).source[GroupOf(v)]].valid
  BY DEF Declared
<1>1. v \in log[n].valid BY FreshPosition
<1>2. GroupOf(v) \in groups /\ GroupOf(v) \in Groups BY <1>1, GroupsOfValues
<1>3. Fresh(n, groups).source[GroupOf(v)] = n BY <1>2, FreshPosition
<1> QED BY <1>1, <1>3

\* A merged position whose datagram declares no place and no system.
LEMMA MergedDeclared ==
  ASSUME LogTypes, DataTypes, SourcesKnown, PositionsDeclared,
         NEW n \in 1 .. Len(log), NEW groups, "where" \notin groups, "systems" \notin groups,
         log[n].valid \cap (Where \cup Systems) = {}
  PROVE  Declared(Merged(n, groups))
<1> DEFINE old == stored["gPosition"]
<1> SUFFICES ASSUME NEW v \in Merged(n, groups).valid \cap (Where \cup Systems)
             PROVE  /\ Merged(n, groups).source[GroupOf(v)] > 0
                    /\ v \in log[Merged(n, groups).source[GroupOf(v)]].valid
  BY DEF Declared
<1>1. v \in old.valid BY MergedPosition
<1>2. GroupOf(v) \notin groups /\ GroupOf(v) \in Groups BY GroupsOfValues
<1>3. Merged(n, groups).source[GroupOf(v)] = old.source[GroupOf(v)] BY <1>2, MergedPosition
<1>4. Declared(old) BY DEF PositionsDeclared
<1> QED BY <1>1, <1>3, <1>4 DEF Declared

\* A merged position takes nothing away.
LEMMA MergedRetains ==
  ASSUME LogTypes, DataTypes, SourcesKnown, NEW n \in 1 .. Len(log),
         NEW group \in {"course", "accuracy"},
         log[n].id \in DOMAIN Own => Own[log[n].id] = group
  PROVE  Retains(stored["gPosition"], Merged(n, {"time", group}))
<1> DEFINE old == stored["gPosition"]  new == Merged(n, {"time", group})
<1>1. new.source["time"] = n BY MergedPosition, GroupsOfValues
<1>2. old.valid \subseteq new.valid BY MergedPosition
<1>3. \A g \in Groups \ {"time", group} : new.source[g] = old.source[g] BY MergedPosition
<1> QED BY <1>1, <1>2, <1>3 DEF Retains

\* A position of another sentence is not bound to retain anything.
LEMMA OtherRetains ==
  ASSUME LogTypes, NEW n \in 1 .. Len(log), log[n].id \notin DOMAIN Own, NEW groups,
         "time" \in groups
  PROVE  Retains(stored["gPosition"], Fresh(n, groups))
BY FreshPosition, GroupsOfValues DEF Retains

\* Nothing is valid in the record of a sentence that did not parse.
LEMMA ZeroedPosition ==
  ASSUME LogTypes
  PROVE  /\ Zeroed \in Position /\ Known(Zeroed) /\ Declared(Zeroed)
         /\ Retains(stored["gPosition"], Zeroed)
<1>1. Len(log) \in Nat BY DEF LogTypes
<1>2. Zeroed.valid = {} /\ \A g \in Groups : Zeroed.source[g] = 0 BY DEF Zeroed
<1>3. Zeroed \in Position BY DEF Zeroed, Position
<1>4. Zeroed.source["time"] = 0 BY <1>2, GroupsOfValues
<1>5. Known(Zeroed) BY <1>1, <1>2 DEF Known
<1>6. Declared(Zeroed) BY <1>2 DEF Declared
<1>7. Retains(stored["gPosition"], Zeroed) BY <1>4 DEF Retains
<1> QED BY <1>3, <1>5, <1>6, <1>7, Zenon

\* Every message a handler gives is sound.
LEMMA HandledMessage ==
  ASSUME LogTypes, DataTypes, SourcesKnown, PositionsDeclared,
         NEW n \in 1 .. Len(log), NEW id \in GVGNS, NEW m \in Handled(id, n)
  PROVE  /\ m \in BatchMessage
         /\ Known(m.position)
         /\ Cell(id) = "gPosition" =>
              Declared(m.position) /\ Retains(stored["gPosition"], m.position)
<1> DEFINE Goal == /\ m \in BatchMessage
                   /\ Known(m.position)
                   /\ Cell(id) = "gPosition" =>
                        Declared(m.position) /\ Retains(stored["gPosition"], m.position)
<1>1. log[n] \in Lines BY LogEntry
<1>2. Len(log) \in Nat /\ n \in Nat BY DEF LogTypes
<1>3. \A p \in Position :
        /\ Message(n, p) \in BatchMessage /\ Message(n, p).position = p
  BY MessageType DEF Message
<1>4. \A name, p : m \in IfWhole(n, name, p) => m = Message(n, p) /\ log[n].id = name
  BY DEF IfWhole, Whole
<1>5. "GVGNSC" \in DOMAIN Own /\ Own["GVGNSC"] = "course"
      /\ "GVGNSAC" \in DOMAIN Own /\ Own["GVGNSAC"] = "accuracy"
      /\ DOMAIN Own = {"GVGNSC", "GVGNSAC"}
  BY DEF Own
<1>6. CASE id = "GVGNSPOS"
  <2>1. m \in processGVGNSPOS(n) BY <1>6 DEF Handled
  <2>2. CASE Whole(n, "GVGNSPOS")
    <3>1. m = Message(n, Fresh(n, Groups)) /\ log[n].id = "GVGNSPOS"
      BY <2>1, <2>2 DEF processGVGNSPOS, Whole
    <3>2. Declared(Fresh(n, Groups)) BY FreshDeclared, GroupsOfValues
    <3>3. Retains(stored["gPosition"], Fresh(n, Groups))
      BY <3>1, <1>5, OtherRetains, GroupsOfValues
    <3>4. Fresh(n, Groups) \in Position /\ Known(Fresh(n, Groups)) BY FreshPosition
    <3> QED BY <3>1, <3>2, <3>3, <3>4, <1>3, Zenon
  <2>3. CASE ~Whole(n, "GVGNSPOS")
    <3>1. \E c \in 0 .. MAX_BUF_MSG : m = [countdown |-> c, position |-> Zeroed]
      BY <2>1, <2>3 DEF processGVGNSPOS
    <3>2. m \in BatchMessage /\ m.position = Zeroed
      BY <3>1, ZeroedPosition, DaemonAssumption DEF BatchMessage
    <3> QED BY <3>2, ZeroedPosition, Zenon
  <2> QED BY <2>2, <2>3
<1>7. CASE id = "GVGNSP"
  <2>1. m \in IfWhole(n, "GVGNSP", Fresh(n, {"time", "where"}))
    BY <1>7 DEF Handled, processGVGNSP
  <2>2. m = Message(n, Fresh(n, {"time", "where"})) /\ log[n].id = "GVGNSP" BY <2>1, <1>4, Zenon
  <2>3. log[n].valid \cap Systems = {}
    BY <2>2, <1>1, DeclaredAssumption, GroupsOfValues
  <2>4. Declared(Fresh(n, {"time", "where"})) BY <2>3, FreshDeclared
  <2>5. Retains(stored["gPosition"], Fresh(n, {"time", "where"}))
    BY <2>2, <1>5, OtherRetains
  <2>6. Fresh(n, {"time", "where"}) \in Position /\ Known(Fresh(n, {"time", "where"}))
    BY FreshPosition
  <2> QED BY <2>2, <2>4, <2>5, <2>6, <1>3, Zenon
<1>8. CASE id = "GVGNSC"
  <2>1. m \in IfWhole(n, "GVGNSC", Merged(n, {"time", "course"}))
    BY <1>8 DEF Handled, processGVGNSC
  <2>2. m = Message(n, Merged(n, {"time", "course"})) /\ log[n].id = "GVGNSC"
    BY <2>1, <1>4, Zenon
  <2>3. log[n].valid \cap (Where \cup Systems) = {}
    BY <2>2, <1>1, DeclaredAssumption, GroupsOfValues
  <2>4. Declared(Merged(n, {"time", "course"})) BY <2>3, MergedDeclared
  <2>5. Retains(stored["gPosition"], Merged(n, {"time", "course"}))
    BY <2>2, <1>5, MergedRetains
  <2>6. Merged(n, {"time", "course"}) \in Position /\ Known(Merged(n, {"time", "course"}))
    BY MergedPosition
  <2> QED BY <2>2, <2>4, <2>5, <2>6, <1>3, Zenon
<1>9. CASE id = "GVGNSAC"
  <2>1. m \in IfWhole(n, "GVGNSAC", Merged(n, {"time", "accuracy"}))
    BY <1>9 DEF Handled, processGVGNSAC
  <2>2. m = Message(n, Merged(n, {"time", "accuracy"})) /\ log[n].id = "GVGNSAC"
    BY <2>1, <1>4, Zenon
  <2>3. log[n].valid \cap (Where \cup Systems) = {}
    BY <2>2, <1>1, DeclaredAssumption, GroupsOfValues
  <2>4. Declared(Merged(n, {"time", "accuracy"})) BY <2>3, MergedDeclared
  <2>5. Retains(stored["gPosition"], Merged(n, {"time", "accuracy"}))
    BY <2>2, <1>5, MergedRetains
  <2>6. Merged(n, {"time", "accuracy"}) \in Position /\ Known(Merged(n, {"time", "accuracy"}))
    BY MergedPosition
  <2> QED BY <2>2, <2>4, <2>5, <2>6, <1>3, Zenon
<1>10. CASE id \in {"GVGNSTIM", "GVGNSSAT"}
  <2>1. m \in IfWhole(n, id, Fresh(n, {"time"}))
    BY <1>10 DEF Handled, processGVGNSTIM, processGVGNSSAT
  <2>2. m = Message(n, Fresh(n, {"time"})) BY <2>1, <1>4, Zenon
  <2>3. Fresh(n, {"time"}) \in Position /\ Known(Fresh(n, {"time"})) BY FreshPosition
  <2>4. Cell(id) # "gPosition" BY <1>10 DEF Cell
  <2> QED BY <2>2, <2>3, <2>4, <1>3, Zenon
<1>11. id # "GVGNSVER" BY DEF Handled
<1> QED BY <1>6, <1>7, <1>8, <1>9, <1>10, <1>11, Zenon DEF GVGNS

(***************************************************************************)
(* What putting a message into the batch of its sentence gives.            *)
(***************************************************************************)
\* The messages are the one that came and those held before.
Comes(id, m) ==
  /\ held' \in [GVGNS -> Seq(BatchMessage)]
  /\ batch' \in Batch
  /\ \A j \in GVGNS : \A i \in 1 .. Len(held'[j]) :
       \/ j = id /\ held'[j][i] = m
       \/ i \in 1 .. Len(held[j]) /\ held'[j][i] = held[j][i]
  /\ batch'.messages # << >> => batch'.cell = Cell(id)
  /\ \A i \in 1 .. Len(batch'.messages) :
       \/ batch'.messages[i] = m
       \/ i \in 1 .. Len(held[id]) /\ batch'.messages[i] = held[id][i]
  /\ listener' \in {"loop", "store"}
  /\ listener' = "store" =>
       /\ batch'.cell \in Cells
       /\ batch'.cell = Cell(id)
       /\ batch'.messages # << >>
       /\ batch'.messages[Len(batch'.messages)] = m
  /\ Len(batch'.messages) <= MAX_BUF_MSG
  /\ HeldCountsDown'

\* Every sentence is stored in one of the three cells.
LEMMA CellType ==
  \A id \in GVGNS : Cell(id) \in Cells
BY DEF Cell, Cells, GVGNS

\* Without a change to the other sentences.
LEMMA BufferedComes ==
  ASSUME DataTypes, HeldCountsDown, NEW id \in GVGNS, NEW m \in BatchMessage, Buffered(id, m)
  PROVE  Comes(id, m)
<1> DEFINE complete == Fits(id, m) /\ m.countdown = 0
           keeps == Fits(id, m) /\ ~complete
<1>1. /\ held \in [GVGNS -> Seq(BatchMessage)]
      /\ held[id] \in Seq(BatchMessage)
      /\ Len(held[id]) \in Nat
      /\ MAX_BUF_MSG \in Nat \ {0} /\ m.countdown \in Nat
  <2>1. held \in [GVGNS -> Seq(BatchMessage)] BY DEF DataTypes
  <2>2. m.countdown \in Nat BY DEF BatchMessage
  <2> QED BY <2>1, <2>2, DaemonAssumption
<1>2. held' = [held EXCEPT ![id] = IF keeps THEN Append(held[id], m) ELSE << >>]
  BY DEF Buffered
<1>3. \A j \in GVGNS : j # id => held'[j] = held[j]
  BY <1>1, <1>2
<1>4. held'[id] = IF keeps THEN Append(held[id], m) ELSE << >>
  BY <1>1, <1>2
<1>5. held' \in [GVGNS -> Seq(BatchMessage)]
  BY <1>1, <1>2
<1>6. \A j \in GVGNS : \A i \in 1 .. Len(held'[j]) :
        \/ j = id /\ held'[j][i] = m
        \/ i \in 1 .. Len(held[j]) /\ held'[j][i] = held[j][i]
  <2> SUFFICES ASSUME NEW j \in GVGNS, NEW i \in 1 .. Len(held'[j])
               PROVE  \/ j = id /\ held'[j][i] = m
                      \/ i \in 1 .. Len(held[j]) /\ held'[j][i] = held[j][i]
    OBVIOUS
  <2>1. CASE j # id BY <2>1, <1>3
  <2>2. CASE j = id /\ keeps BY <2>2, <1>1, <1>4
  <2>3. CASE j = id /\ ~keeps BY <2>3, <1>1, <1>4
  <2> QED BY <2>1, <2>2, <2>3
<1>7. held[id] # << >> =>
        /\ held[id][Len(held[id])].countdown \in Nat \ {0}
        /\ Len(held[id]) + held[id][Len(held[id])].countdown <= MAX_BUF_MSG
  <2> SUFFICES ASSUME held[id] # << >>
               PROVE  /\ held[id][Len(held[id])].countdown \in Nat \ {0}
                      /\ Len(held[id]) + held[id][Len(held[id])].countdown <= MAX_BUF_MSG
    OBVIOUS
  <2>1. Len(held[id]) \in 1 .. Len(held[id]) BY <1>1
  <2>2. held[id][Len(held[id])] \in BatchMessage BY <1>1, <2>1
  <2> QED BY <2>2 DEF HeldCountsDown, BatchMessage
<1>8. Fits(id, m) => Len(held[id]) + 1 + m.countdown <= MAX_BUF_MSG
  BY <1>1, <1>7 DEF Fits
<1>9. HeldCountsDown'
  <2> SUFFICES ASSUME NEW j \in GVGNS, held'[j] # << >>
               PROVE  /\ held'[j][Len(held'[j])].countdown >= 1
                      /\ Len(held'[j]) + held'[j][Len(held'[j])].countdown <= MAX_BUF_MSG
    BY DEF HeldCountsDown
  <2>1. CASE j # id BY <2>1, <1>3 DEF HeldCountsDown
  <2>2. CASE j = id
    <3>1. keeps /\ held'[j] = Append(held[id], m) BY <2>2, <1>4
    <3>2. Len(held'[j]) = Len(held[id]) + 1 /\ held'[j][Len(held'[j])] = m BY <3>1, <1>1
    <3> QED BY <3>1, <3>2, <1>1, <1>8
  <2> QED BY <2>1, <2>2
<1>10. CASE complete
  <2>1. batch' = [cell |-> Cell(id), messages |-> Append(held[id], m)] /\ listener' = "store"
    BY <1>10 DEF Buffered
  <2>2. Cell(id) \in Cells BY CellType
  <2>3. /\ Append(held[id], m) \in Seq(BatchMessage)
        /\ Len(Append(held[id], m)) = Len(held[id]) + 1
        /\ Append(held[id], m)[Len(held[id]) + 1] = m
        /\ \A i \in 1 .. Len(held[id]) : Append(held[id], m)[i] = held[id][i]
        /\ Append(held[id], m) # << >>
    BY <1>1
  <2>4. batch' \in Batch BY <2>1, <2>2, <2>3 DEF Batch
  <2>5. \A i \in 1 .. Len(batch'.messages) :
          \/ batch'.messages[i] = m
          \/ i \in 1 .. Len(held[id]) /\ batch'.messages[i] = held[id][i]
    BY <2>1, <2>3, <1>1
  <2>6. Len(batch'.messages) <= MAX_BUF_MSG BY <2>1, <2>3, <1>1, <1>8, <1>10
  <2> QED BY <1>5, <1>6, <1>9, <2>1, <2>2, <2>3, <2>4, <2>5, <2>6 DEF Comes
<1>11. CASE ~complete
  <2>1. batch' = NoBatch /\ listener' = "loop" BY <1>11 DEF Buffered
  <2>2. batch' \in Batch /\ batch'.messages = << >> BY <2>1 DEF NoBatch, Batch
  <2> QED BY <1>1, <1>5, <1>6, <1>9, <2>1, <2>2 DEF Comes
<1> QED BY <1>10, <1>11

(***************************************************************************)
(* The inductive invariant, one part at a time.                            *)
(***************************************************************************)
LEMMA InvariantInit ==
  Init => IInv
<1> SUFFICES ASSUME Init PROVE IInv OBVIOUS
<1> USE DEF Init, ReplayerInit, DaemonInit
<1>1. LogTypes BY DEF LogTypes
<1>2. DataTypes BY <1>1, ZeroedPosition DEF DataTypes, NoBatch, Batch, Cells
<1>3. ThreadTypes BY DEF ThreadTypes
<1>4. HeldCountsDown BY DEF HeldCountsDown
<1>5. BatchIsThere BY DaemonAssumption DEF BatchIsThere, NoBatch
<1>6. SourcesKnown BY <1>1, ZeroedPosition DEF SourcesKnown, NoBatch, Cells
<1>7. PositionsDeclared BY <1>1, ZeroedPosition DEF PositionsDeclared, NoBatch
<1>8. BatchIsStored /\ StoreRetains BY DEF BatchIsStored, StoreRetains
<1>9. ClientKnows BY DEF ClientKnows
<1>10. PluginInv
  <2>1. statusRunning = TRUE /\ broker = "up" BY DEF Plugin!PluginInit
  <2>2. statusRunning = (broker = "up") BY <2>1, Zenon
  <2>3. value \in [PluginMessages -> {"unset", "timestamp", "value"}] BY DEF Plugin!PluginInit
  <2>4. inbox \in Seq([id : GVVEH \cup {"none"}, third : {"timestamp", "value"}])
    BY DEF Plugin!PluginInit
  <2>5. thread = "bind" /\ msgId = "none" BY DEF Plugin!PluginInit
  <2>6. Plugin!PluginTypeOK
    <3>1. /\ broker \in {"up", "join", "gone"} /\ thread \in {"bind", "loop", "recv", "done"}
          /\ msgId \in GVVEH \cup {"none"}
      BY <2>1, <2>5
    <3> QED BY <2>2, <2>3, <3>1, Zenon DEF Plugin!PluginTypeOK
  <2> QED BY <2>4, <2>6, Zenon DEF PluginInv
<1> QED
  BY <1>1, <1>2, <1>3, <1>4, <1>5, <1>6, <1>7, <1>8, <1>9, <1>10 DEF IInv

\* What a message in transit gives, for the parts below.
LEMMA GetsMessage ==
  ASSUME IInv, Gets
  PROVE  \E id \in GVGNS : \E m \in BatchMessage :
           /\ Comes(id, m)
           /\ Known(m.position)
           /\ Cell(id) = "gPosition" =>
                Declared(m.position) /\ Retains(stored["gPosition"], m.position)
<1> USE DEF IInv
<1>1. PICK id \in GVGNS : \E m \in Handled(id, Head(arrived)) : Buffered(id, m)
  BY Zenon DEF Gets
<1>2. PICK m \in Handled(id, Head(arrived)) : Buffered(id, m)
  BY <1>1
<1>3. Head(arrived) \in 1 .. Len(log) BY DEF Gets, LogTypes
<1>4. /\ m \in BatchMessage
      /\ Known(m.position)
      /\ Cell(id) = "gPosition" =>
           Declared(m.position) /\ Retains(stored["gPosition"], m.position)
  BY <1>2, <1>3, HandledMessage
<1>5. Comes(id, m) BY <1>2, <1>4, BufferedComes
<1> QED BY <1>4, <1>5

\* The last message of a batch that is there.
LEMMA LastMessage ==
  ASSUME IInv, listener \in {"store", "notify", "callback"}
  PROVE  /\ batch.cell \in Cells
         /\ Len(batch.messages) \in 1 .. Len(batch.messages)
         /\ LastOf(batch) \in Position
<1>1. batch.cell \in Cells /\ batch.messages # << >> /\ batch.messages \in Seq(BatchMessage)
  BY DEF IInv, BatchIsThere, DataTypes, Batch
<1>2. Len(batch.messages) \in 1 .. Len(batch.messages) BY <1>1
<1>3. batch.messages[Len(batch.messages)] \in BatchMessage BY <1>1, <1>2
<1> QED BY <1>1, <1>2, <1>3 DEF LastOf, BatchMessage

\* What is sent and what arrives keep their types.
LEMMA LogTypesKept ==
  ASSUME IInv, [Next]_vars
  PROVE  LogTypes'
<1>1. log \in Seq(Lines) /\ arrived \in Seq(1 .. Len(log)) /\ Len(log) \in Nat
  BY DEF IInv, LogTypes
<1>2. CASE Sends
  <2>1. PICK line \in Lines : log' = Append(log, line) BY <1>2 DEF Sends
  <2>2. log' \in Seq(Lines) /\ Len(log') = Len(log) + 1 BY <1>1, <2>1
  <2>3. arrived \in Seq(1 .. Len(log')) BY <1>1, <2>2
  <2>4. Append(arrived, Len(log')) \in Seq(1 .. Len(log')) BY <1>1, <2>2, <2>3
  <2> QED BY <1>2, <2>2, <2>3, <2>4 DEF Sends, LogTypes
<1>3. CASE log' = log /\ (arrived' = arrived \/ (arrived # << >> /\ arrived' = Tail(arrived)))
  <2> DEFINE S == 1 .. Len(log)
  <2>1. arrived \in Seq(S) BY <1>1
  <2>2. arrived # << >> => Tail(arrived) \in Seq(S)
    <3> HIDE DEF S
    <3> QED BY <2>1
  <2>3. arrived' \in Seq(S) BY <1>3, <2>1, <2>2, Zenon
  <2> QED BY <1>1, <1>3, <2>3 DEF LogTypes
<1> QED
  BY <1>2, <1>3, DataSteps, Zenon DEF Waits, Gets, Store, Call, Return

\* The batches and the stored positions keep their types.
LEMMA DataTypesKept ==
  ASSUME IInv, [Next]_vars
  PROVE  DataTypes' /\ HeldCountsDown'
<1>1. DataTypes /\ HeldCountsDown BY DEF IInv
<1>2. CASE UNCHANGED <<held, batch, stored>>
  BY <1>1, <1>2 DEF DataTypes, HeldCountsDown
<1>3. CASE Gets
  <2>1. PICK id \in GVGNS, m \in BatchMessage : Comes(id, m) BY <1>3, GetsMessage
  <2>2. stored' = stored BY <1>3 DEF Gets
  <2> QED BY <1>1, <2>1, <2>2 DEF Comes, DataTypes
<1>4. CASE Store
  <2>1. LastOf(batch) \in Position BY <1>4, LastMessage DEF Store
  <2>2. stored' = [stored EXCEPT ![batch.cell] = LastOf(batch)] /\ UNCHANGED <<held, batch>>
    BY <1>4 DEF Store
  <2> QED BY <1>1, <2>1, <2>2 DEF DataTypes, HeldCountsDown
<1>5. CASE batch' \in {batch, NoBatch} /\ UNCHANGED <<held, stored>>
  <2>1. NoBatch \in Batch BY DEF NoBatch, Batch
  <2>2. batch' \in Batch BY <1>1, <1>5, <2>1 DEF DataTypes
  <2> QED BY <1>1, <1>5, <2>2 DEF DataTypes, HeldCountsDown
<1>6. Call => batch' \in {batch, NoBatch} /\ UNCHANGED <<held, stored>>
  BY DEF Call, cbPosition
<1>7. Return => batch' \in {batch, NoBatch} /\ UNCHANGED <<held, stored>>
  BY DEF Return
<1> QED
  BY <1>2, <1>3, <1>4, <1>5, <1>6, <1>7, DataSteps, Zenon DEF Sends, Waits

\* A batch that is about to be stored or called back is complete.
LEMMA BatchIsThereKept ==
  ASSUME IInv, [Next]_vars
  PROVE  BatchIsThere'
<1>1. BatchIsThere BY DEF IInv
<1>2. CASE batch' = batch /\ listener' \in {listener, "loop", "select", "done"}
  BY <1>1, <1>2 DEF BatchIsThere
<1>3. CASE Gets
  <2>1. PICK id \in GVGNS, m \in BatchMessage : Comes(id, m) BY <1>3, GetsMessage
  <2>2. Len(batch'.messages) <= MAX_BUF_MSG BY <2>1 DEF Comes
  <2>3. listener' \in {"loop", "store"} BY <2>1 DEF Comes
  <2>4. listener' = "store" => batch'.cell \in Cells /\ batch'.messages # << >>
    BY <2>1 DEF Comes
  <2> QED BY <2>2, <2>3, <2>4 DEF BatchIsThere
<1>4. CASE Store
  BY <1>1, <1>4 DEF Store, BatchIsThere
<1>5. NoBatch.messages = << >> /\ 0 <= MAX_BUF_MSG BY DaemonAssumption DEF NoBatch
<1>6. CASE Call
  <2>1. CASE batch' = batch /\ listener' \in {"callback", "loop"}
    BY <1>1, <1>6, <2>1 DEF BatchIsThere, Call
  <2>2. CASE batch' = NoBatch /\ listener' = "loop"
    BY <1>5, <2>2 DEF BatchIsThere
  <2> QED BY <1>6, <2>1, <2>2 DEF Call
<1>7. CASE Return
  BY <1>5, <1>7 DEF Return, BatchIsThere
<1> QED
  BY <1>2, <1>3, <1>4, <1>6, <1>7, DataSteps, Zenon DEF Sends, Waits

\* A line that is sent changes nothing about the datagrams before it.
LEMMA LogGrows ==
  ASSUME IInv, Sends
  PROVE  /\ Len(log') = Len(log) + 1 /\ Len(log) \in Nat
         /\ \A n \in 1 .. Len(log) : log'[n] = log[n]
<1>1. PICK line \in Lines : log' = Append(log, line) BY DEF Sends
<1>2. log \in Seq(Lines) BY DEF IInv, LogTypes
<1> QED BY <1>1, <1>2

\* What is known of a position stays true when more is sent.
LEMMA KnownGrows ==
  ASSUME IInv, Sends, NEW p \in Position, Known(p)
  PROVE  /\ Known(p)'
         /\ Declared(p) => Declared(p)'
         /\ \A old : Retains(old, p) => Retains(old, p)'
<1>1. /\ Len(log') = Len(log) + 1 /\ Len(log) \in Nat
      /\ \A n \in 1 .. Len(log) : log'[n] = log[n]
  BY LogGrows
<1>2. \A g \in Groups : p.source[g] \in Nat /\ p.source[g] <= Len(log)
  BY DEF Known, Position
<1>3. Known(p)' BY <1>1, <1>2 DEF Known
<1>4. ASSUME Declared(p) PROVE Declared(p)'
  <2>1. \A v \in p.valid \cap (Where \cup Systems) : GroupOf(v) \in Groups
    BY GroupsOfValues
  <2> QED BY <1>1, <1>2, <1>4, <2>1 DEF Declared
<1>5. ASSUME NEW old, Retains(old, p) PROVE Retains(old, p)'
  <2>1. "time" \in Groups BY GroupsOfValues
  <2>2. p.source["time"] > 0 => log'[p.source["time"]] = log[p.source["time"]]
    BY <1>1, <1>2, <2>1
  <2> QED BY <1>5, <2>2 DEF Retains
<1> QED BY <1>3, <1>4, <1>5

\* The positions the daemon holds.
LEMMA HeldPositions ==
  ASSUME IInv
  PROVE  /\ \A c \in Cells : stored[c] \in Position
         /\ \A id \in GVGNS : \A i \in 1 .. Len(held[id]) : held[id][i].position \in Position
         /\ \A i \in 1 .. Len(batch.messages) : batch.messages[i].position \in Position
<1>1. DataTypes BY DEF IInv
<1>2. \A c \in Cells : stored[c] \in Position BY <1>1 DEF DataTypes
<1>3. ASSUME NEW id \in GVGNS, NEW i \in 1 .. Len(held[id])
      PROVE  held[id][i].position \in Position
  <2>1. held[id] \in Seq(BatchMessage) BY <1>1 DEF DataTypes
  <2>2. held[id][i] \in BatchMessage BY <2>1
  <2> QED BY <2>2 DEF BatchMessage
<1>4. ASSUME NEW i \in 1 .. Len(batch.messages)
      PROVE  batch.messages[i].position \in Position
  <2>1. batch.messages \in Seq(BatchMessage) BY <1>1 DEF DataTypes, Batch
  <2>2. batch.messages[i] \in BatchMessage BY <2>1
  <2> QED BY <2>2 DEF BatchMessage
<1> QED BY <1>2, <1>3, <1>4

\* The datagrams a position names stay those that declared it valid.
LEMMA SourcesKept ==
  ASSUME IInv, [Next]_vars
  PROVE  SourcesKnown' /\ PositionsDeclared'
<1>1. SourcesKnown /\ PositionsDeclared BY DEF IInv
<1>2. CASE Sends
  <2>1. UNCHANGED <<held, batch, stored>> BY <1>2 DEF Sends
  <2>2. \A c \in Cells : Known(stored[c])' BY <1>1, <1>2, <2>1, KnownGrows, HeldPositions DEF SourcesKnown
  <2>3. SourcesKnown' BY <1>1, <1>2, <2>1, KnownGrows, HeldPositions DEF SourcesKnown
  <2>4. "gPosition" \in Cells BY DEF Cells
  <2>5. PositionsDeclared'
    BY <1>1, <1>2, <2>1, <2>4, KnownGrows, HeldPositions DEF SourcesKnown, PositionsDeclared
  <2> QED BY <2>3, <2>5
<1>3. CASE UNCHANGED <<log, held, batch, stored>>
  <2>1. \A p : Known(p)' = Known(p) /\ Declared(p)' = Declared(p)
    BY <1>3 DEF Known, Declared
  <2>2. SourcesKnown' BY <1>1, <1>3, <2>1 DEF SourcesKnown
  <2>3. PositionsDeclared' BY <1>1, <1>3, <2>1 DEF PositionsDeclared
  <2> QED BY <2>2, <2>3
<1>4. CASE Gets
  <2>1. PICK id \in GVGNS, m \in BatchMessage :
             /\ Comes(id, m)
             /\ Known(m.position)
             /\ Cell(id) = "gPosition" => Declared(m.position)
    BY <1>4, GetsMessage
  <2>2. UNCHANGED <<log, stored>> BY <1>4 DEF Gets
  <2>3. \A p : Known(p)' = Known(p) /\ Declared(p)' = Declared(p)
    BY <2>2 DEF Known, Declared
  <2>4. SourcesKnown' BY <1>1, <2>1, <2>2, <2>3 DEF SourcesKnown, Comes
  <2>5. PositionsDeclared'
    <3>1. Declared(stored["gPosition"])' BY <1>1, <2>2, <2>3 DEF PositionsDeclared
    <3>2. ASSUME NEW j \in GVGNS, Cell(j) = "gPosition", NEW i \in 1 .. Len(held'[j])
          PROVE  Declared(held[j][i].position)'
      BY <1>1, <2>1, <2>3, <3>2 DEF PositionsDeclared, Comes
    <3>3. ASSUME batch'.cell = "gPosition", NEW i \in 1 .. Len(batch'.messages)
          PROVE  Declared(batch.messages[i].position)'
      <4>1. batch'.messages # << >> BY <2>1, <3>3 DEF Comes, Batch
      <4>2. Cell(id) = "gPosition" BY <2>1, <3>3, <4>1 DEF Comes
      <4> QED BY <1>1, <2>1, <2>3, <3>3, <4>2 DEF PositionsDeclared, Comes
    <3> QED BY <3>1, <3>2, <3>3 DEF PositionsDeclared
  <2> QED BY <2>4, <2>5
<1>5. CASE Store /\ UNCHANGED log
  <2>1. /\ stored' = [stored EXCEPT ![batch.cell] = LastOf(batch)]
        /\ UNCHANGED <<log, held, batch>> /\ listener = "store"
    BY <1>5 DEF Store
  <2>2. /\ batch.cell \in Cells /\ stored \in [Cells -> Position]
        /\ Len(batch.messages) \in 1 .. Len(batch.messages)
    BY <2>1, LastMessage DEF IInv, DataTypes
  <2>3. Known(LastOf(batch)) /\ (batch.cell = "gPosition" => Declared(LastOf(batch)))
    BY <1>1, <2>2 DEF SourcesKnown, PositionsDeclared, LastOf
  <2>4. \A c \in Cells : stored'[c] = IF c = batch.cell THEN LastOf(batch) ELSE stored[c]
    BY <2>1, <2>2
  <2>5. \A p : Known(p)' = Known(p) /\ Declared(p)' = Declared(p)
    BY <2>1 DEF Known, Declared
  <2>6. SourcesKnown' BY <1>1, <2>1, <2>3, <2>4, <2>5 DEF SourcesKnown
  <2>7. stored'["gPosition"] = IF "gPosition" = batch.cell THEN LastOf(batch)
                                                           ELSE stored["gPosition"]
    BY <2>4 DEF Cells
  <2>8. PositionsDeclared' BY <1>1, <2>1, <2>3, <2>5, <2>7 DEF PositionsDeclared
  <2> QED BY <2>6, <2>8
<1>6. CASE batch' = NoBatch /\ UNCHANGED <<log, held, stored>>
  <2>1. batch'.messages = << >> BY <1>6 DEF NoBatch
  <2>2. \A p : Known(p)' = Known(p) /\ Declared(p)' = Declared(p)
    BY <1>6 DEF Known, Declared
  <2>3. SourcesKnown' BY <1>1, <1>6, <2>1, <2>2 DEF SourcesKnown
  <2>4. PositionsDeclared' BY <1>1, <1>6, <2>1, <2>2 DEF PositionsDeclared
  <2> QED BY <2>3, <2>4
<1>7. Call => batch' \in {batch, NoBatch} /\ UNCHANGED <<held, stored>>
  BY DEF Call, cbPosition
<1>8. Return => batch' \in {batch, NoBatch} /\ UNCHANGED <<held, stored>>
  BY DEF Return
<1> QED
  BY <1>2, <1>3, <1>4, <1>5, <1>6, <1>7, <1>8, DataSteps DEF Waits

\* Until the callback ends, the stored position is the one it is about.
LEMMA BatchIsStoredKept ==
  ASSUME IInv, [Next]_vars
  PROVE  BatchIsStored'
<1>1. BatchIsStored BY DEF IInv
<1>2. CASE Sends
  BY <1>1, <1>2 DEF Sends, BatchIsStored, LastOf, Changed, clientVars
<1>3. CASE Waits
  BY <1>1, <1>3 DEF Waits, BatchIsStored, LastOf, Changed
<1>4. CASE Gets
  <2>1. PICK id \in GVGNS, m \in BatchMessage : Comes(id, m) BY <1>4, GetsMessage
  <2>2. listener' \in {"loop", "store"} BY <2>1 DEF Comes
  <2> QED BY <2>2 DEF BatchIsStored
<1>5. CASE Store
  <2>1. batch.cell \in Cells /\ stored \in [Cells -> Position]
    BY <1>5, LastMessage DEF IInv, DataTypes, Store
  <2> QED BY <1>5, <2>1 DEF Store, BatchIsStored, LastOf
<1>6. CASE Call
  <2>1. CASE batch.cell \in cb
    <3>1. listener = "notify" /\ listener' = "callback" /\ UNCHANGED <<batch, stored>>
          /\ (batch.cell = "gPosition" => announced' = Changed(batch))
      BY <1>6, <2>1 DEF Call, cbPosition
    <3> QED BY <1>1, <3>1 DEF BatchIsStored, LastOf, Changed
  <2>2. CASE batch.cell \notin cb
    BY <1>6, <2>2 DEF Call, BatchIsStored
  <2> QED BY <2>1, <2>2
<1>7. CASE Return
  BY <1>7 DEF Return, BatchIsStored
<1> QED BY <1>2, <1>3, <1>4, <1>5, <1>6, <1>7, DataSteps

\* A merged position retains the other groups until it is stored.
LEMMA StoreRetainsKept ==
  ASSUME IInv, [Next]_vars
  PROVE  StoreRetains'
<1>1. StoreRetains BY DEF IInv
<1>2. CASE Sends
  <2>1. UNCHANGED <<listener, batch, stored>> BY <1>2 DEF Sends
  <2> SUFFICES ASSUME listener = "store", batch.cell = "gPosition"
               PROVE  Retains(stored["gPosition"], LastOf(batch))'
    BY <2>1 DEF StoreRetains
  <2>2. LastOf(batch) \in Position /\ Len(batch.messages) \in 1 .. Len(batch.messages)
    BY LastMessage
  <2>3. Known(LastOf(batch)) BY <2>2 DEF IInv, SourcesKnown, LastOf
  <2>4. Retains(stored["gPosition"], LastOf(batch)) BY <1>1 DEF StoreRetains
  <2>5. LastOf(batch)' = LastOf(batch) BY <2>1 DEF LastOf
  <2> QED BY <1>2, <2>1, <2>2, <2>3, <2>4, <2>5, KnownGrows DEF Retains
<1>3. CASE Waits
  BY <1>1, <1>3 DEF Waits, StoreRetains, Retains, LastOf
<1>4. CASE Gets
  <2>1. PICK id \in GVGNS, m \in BatchMessage :
             /\ Comes(id, m)
             /\ Cell(id) = "gPosition" => Retains(stored["gPosition"], m.position)
    BY <1>4, GetsMessage
  <2>2. UNCHANGED <<log, stored>> BY <1>4 DEF Gets
  <2>3. listener' = "store" => batch'.cell = Cell(id) /\ LastOf(batch)' = m.position
    BY <2>1 DEF Comes, LastOf
  <2> QED BY <2>1, <2>2, <2>3 DEF StoreRetains, Retains
<1>5. CASE Store \/ Call \/ Return
  BY <1>5 DEF Store, Call, Return, StoreRetains
<1> QED BY <1>2, <1>3, <1>4, <1>5, DataSteps

\* The program counters of the two threads and the flags keep their types.
LEMMA ThreadTypesKept ==
  ASSUME IInv, [Next]_vars
  PROVE  ThreadTypes'
<1>1. ThreadTypes BY DEF IInv
<1>2. \/ UNCHANGED <<main, isRunning, listener, cb, pending>>
      \/ ListenerStep \/ MainStep \/ BusStep \/ PropertyStep
  BY Zenon DEF Next, SendLine, GatewayFrame, SkipLine, Unattended, PluginThread, PluginMay,
     WithoutDaemon, Listener, Main, vars, daemonVars, libraryVars, clientVars
<1>3. /\ main' \in {"init", "run", "loop", "shutdown", "destroy", "join", "gone"}
      /\ cb' \subseteq {"gPosition", "gSatelliteDetail"}
  <2>1. CASE ListenerStep
    <3>1. UNCHANGED <<main, cb>>
      BY <2>1 DEF ListenerStep, Loop, SelectTimesOut, Receive, Store, Call, Return, ListenerOnly
    <3> QED BY <1>1, <3>1 DEF ThreadTypes
  <2>2. CASE UNCHANGED <<main, cb>>
    BY <1>1, <2>2 DEF ThreadTypes
  <2> QED
    BY <1>1, <1>2, <2>1, <2>2
       DEF ThreadTypes, MainStep, BusStep, PropertyStep, gnssInit, gnssInitFails, Run, Shutdown,
           gnssDestroy, Joined, Leave, GetPositionInfo, SetProperty, WithMutexCb
<1>4. listener' \in {"none", "loop", "select", "store", "notify", "callback", "done"}
  <2>1. CASE Gets
    <3>1. PICK id \in GVGNS, m \in BatchMessage : Comes(id, m) BY <2>1, GetsMessage
    <3> QED BY <3>1 DEF Comes
  <2> QED
    BY <1>1, <2>1, DataSteps DEF ThreadTypes, Sends, Waits, Store, Call, Return
<1>5. isRunning' \in BOOLEAN
  <2>1. isRunning \in BOOLEAN BY <1>1, Zenon DEF ThreadTypes
  <2>2. \/ isRunning' = isRunning \/ isRunning' = TRUE \/ isRunning' = FALSE
    BY <1>2, Zenon DEF ListenerStep, Loop, SelectTimesOut, Receive, Store, Call, Return,
       ListenerOnly, MainStep, BusStep, PropertyStep, gnssInit, gnssInitFails, Run, Shutdown,
           gnssDestroy, Joined, Leave, GetPositionInfo, SetProperty, WithMutexCb
  <2> QED BY <2>1, <2>2, Zenon
<1>6. pending' \in BOOLEAN
  <2>1. pending \in BOOLEAN BY <1>1, Zenon DEF ThreadTypes
  <2>2. pending' = pending \/ pending' = TRUE \/ pending' = FALSE
    BY <1>2, Zenon DEF ListenerStep, Loop, SelectTimesOut, Receive, Store, Call, Return,
       cbPosition, clientVars, MainStep, BusStep, PropertyStep, gnssInit, gnssInitFails, Run,
       Shutdown, gnssDestroy, Joined, Leave, GetPositionInfo, SetProperty, WithMutexCb
  <2> QED BY <2>1, <2>2, Zenon
<1> QED BY <1>3, <1>4, <1>5, <1>6, Zenon DEF ThreadTypes

\* What a client is given depends on the position alone.
LEMMA InfoOfPosition ==
  ASSUME stored'["gPosition"] = stored["gPosition"]
  PROVE  \A values : Info(values)' = Info(values)
BY Zenon DEF Info

\* The client knows the last position or a signal to it is pending.
LEMMA ClientKnowsKept ==
  ASSUME IInv, [Next]_vars
  PROVE  ClientKnows'
<1>1. ClientKnows BY DEF IInv
<1> DEFINE Reads == main = "loop" /\ ~ToBeTold /\ ~pending /\ view # Unread
<1>2. \/ UNCHANGED <<main, cb, listener, batch, stored, pending, view>>
      \/ ListenerStep \/ MainStep \/ BusStep
  BY Zenon DEF Next, SendLine, GatewayFrame, SkipLine, Unattended, PluginThread, PluginMay,
     WithoutDaemon, Listener, Main, vars, daemonVars, libraryVars, clientVars, PropertyStep, SetProperty, NoData
\* Nothing the client reads changes, and what it must be told of was not pending.
<1>3. CASE /\ UNCHANGED <<main, cb, pending, view>>
           /\ stored'["gPosition"] = stored["gPosition"]
           /\ ToBeTold => ToBeTold'
  <2>1. \A values : Info(values)' = Info(values) BY <1>3, InfoOfPosition
  <2>2. Reads' => view = Info(view.values) BY <1>1, <1>3 DEF ClientKnows
  <2>3. Reads' => view' = Info(view.values)' BY <1>3, <2>1, <2>2
  <2> QED BY <1>1, <1>3, <2>3 DEF ClientKnows
<1>4. CASE UNCHANGED <<main, cb, listener, batch, stored, pending, view>>
  BY <1>3, <1>4 DEF ToBeTold
<1>5. CASE ListenerStep
  <2>1. CASE Loop \/ SelectTimesOut \/ Receive
    <3>1. /\ UNCHANGED <<main, cb, pending, view, stored>> /\ listener # "notify"
      BY <2>1, Zenon DEF Loop, SelectTimesOut, Receive, ListenerOnly, clientVars
    <3> QED BY <1>3, <3>1 DEF ToBeTold
  <2>2. CASE Store
    <3>1. /\ UNCHANGED <<main, cb, pending, view, batch>>
          /\ listener = "store" /\ listener' = "notify"
          /\ stored' = [stored EXCEPT ![batch.cell] = LastOf(batch)]
      BY <2>2 DEF Store, ListenerOnly, clientVars
    <3>2. CASE batch.cell = "gPosition"
      <4>1. ToBeTold' BY <3>1, <3>2 DEF ToBeTold
      <4> QED BY <1>1, <3>1, <4>1 DEF ClientKnows
    <3>3. CASE batch.cell # "gPosition"
      <4>1. stored'["gPosition"] = stored["gPosition"]
        BY <3>1, <3>3 DEF IInv, DataTypes, Cells
      <4> QED BY <1>3, <3>1, <4>1 DEF ToBeTold
    <3> QED BY <3>2, <3>3
  <2>3. CASE Call
    <3>1. /\ UNCHANGED <<main, cb, stored, view>>
      BY <2>3 DEF Call, ListenerOnly, cbPosition, clientVars
    <3>2. CASE batch.cell = "gPosition" /\ main = "loop"
      <4>1. pending' = TRUE BY <1>1, <2>3, <3>2 DEF Call, cbPosition, ClientKnows
      <4> QED BY <1>1, <3>1, <4>1 DEF ClientKnows
    <3>3. CASE main # "loop"
      BY <1>1, <3>1, <3>3 DEF ClientKnows
    <3>4. CASE batch.cell # "gPosition"
      <4>1. UNCHANGED pending BY <2>3, <3>4 DEF Call, clientVars
      <4> QED BY <1>3, <3>1, <3>4, <4>1 DEF ToBeTold
    <3> QED BY <3>2, <3>3, <3>4
  <2>4. CASE Return
    <3>1. UNCHANGED <<main, cb, stored, pending, view>> /\ listener = "callback"
      BY <2>4 DEF Return, ListenerOnly
    <3> QED BY <1>3, <3>1 DEF ToBeTold
  <2> QED BY <1>5, <2>1, <2>2, <2>3, <2>4, Zenon DEF ListenerStep
<1>6. CASE MainStep
  <2>1. view' = view
    BY <1>6, Zenon DEF MainStep, gnssInit, gnssInitFails, Run, Shutdown, gnssDestroy,
       Joined, WithMutexCb, clientVars
  <2>2. main' \in {"run", "loop"} => view' = Unread /\ (main' = "loop" => "gPosition" \in cb')
    BY <1>1, <1>6, <2>1
       DEF ClientKnows, MainStep, gnssInit, gnssInitFails, Run, Shutdown, gnssDestroy, Joined
  <2>3. main' # "init"
    BY <1>6 DEF MainStep, gnssInit, gnssInitFails, Run, Shutdown, gnssDestroy, Joined
  <2> QED BY <2>2, <2>3 DEF ClientKnows
<1>7. CASE BusStep
  <2>1. CASE Leave
    BY <2>1 DEF Leave, ClientKnows
  <2>2. CASE \E values \in Requests : GetPositionInfo(values)
    <3>1. PICK values \in Requests : GetPositionInfo(values) BY <2>2
    <3>2. /\ main' = main /\ cb' = cb /\ view' = Info(values) /\ main = "loop"
          /\ stored' = stored
      BY <3>1 DEF GetPositionInfo, NoData
    <3>3. view'.values = values BY <3>2 DEF Info
    <3>4. \A x : Info(x)' = Info(x) BY <3>2, InfoOfPosition
    <3>5. view' = Info(view.values)' BY <3>2, <3>3, <3>4
    <3> QED BY <1>1, <3>2, <3>5 DEF ClientKnows
  <2> QED BY <1>7, <2>1, <2>2, Zenon DEF BusStep
<1> QED BY <1>2, <1>4, <1>5, <1>6, <1>7, Zenon

\* The types of the replayer and of its inbox are kept.
LEMMA PluginInvKept ==
  ASSUME IInv, [Next]_vars
  PROVE  PluginInv'
<1> DEFINE D == [id : GVVEH \cup {"none"}, third : {"timestamp", "value"}]
           V == {"unset", "timestamp", "value"}
<1>1. PluginInv BY DEF IInv
<1>2. /\ broker \in {"up", "join", "gone"}
      /\ thread \in {"bind", "loop", "recv", "done"}
      /\ msgId \in GVVEH \cup {"none"}
      /\ value \in [PluginMessages -> V]
      /\ inbox \in Seq(D)
  BY <1>1 DEF PluginInv, Plugin!PluginTypeOK
<1>3. statusRunning = (broker = "up") BY <1>1, Zenon DEF PluginInv, Plugin!PluginTypeOK
<1>4. ASSUME UNCHANGED <<broker, statusRunning, thread, msgId, value>>, inbox' \in Seq(D)
      PROVE  PluginInv'
  BY <1>1, <1>4, Zenon DEF PluginInv, Plugin!PluginTypeOK
<1>5. ASSUME NEW d \in D, Plugin!Deliver(d)
      PROVE  inbox' \in Seq(D)
  <2> HIDE DEF D
  <2>1. inbox \in Seq(D) /\ Append(inbox, d) \in Seq(D) BY <1>2
  <2> QED BY <1>5, <2>1 DEF Plugin!Deliver
<1>6. CASE \E line \in Lines : SendLine(line)
  <2>1. PICK line \in Lines : SendLine(line) BY <1>6
  <2>2. UNCHANGED <<broker, statusRunning, thread, msgId, value>>
    BY <2>1, Zenon DEF SendLine, Unattended
  <2>3. CASE Port(replayedId') = "vehicle"
    <3>1. replayedId' \in GVVEH BY <2>3 DEF Port
    <3>2. line.id \in GVVEH \cup {"none"} BY <2>1, <3>1 DEF SendLine, Send
    <3>3. [id |-> line.id, third |-> "value"] \in D BY <3>2
    <3>4. Plugin!Deliver([id |-> line.id, third |-> "value"])
      BY <2>1, <2>3, Zenon DEF SendLine
    <3>5. inbox' \in Seq(D) BY <1>5, <3>3, <3>4, Zenon
    <3> QED BY <1>4, <2>2, <3>5, Zenon
  <2>4. CASE Port(replayedId') # "vehicle"
    <3>1. inbox' = inbox BY <2>1, <2>4, Zenon DEF SendLine
    <3> QED BY <1>2, <1>4, <2>2, <3>1, Zenon
  <2> QED BY <2>3, <2>4, Zenon
<1>7. CASE \E m \in GatewayMessages : GatewayFrame(m)
  <2>1. PICK m \in GatewayMessages : GatewayFrame(m) BY <1>7
  <2>2. [id |-> m, third |-> "timestamp"] \in D BY DEF GatewayMessages, GVVEH
  <2>3. /\ UNCHANGED <<broker, statusRunning, thread, msgId, value>>
        /\ Plugin!Deliver([id |-> m, third |-> "timestamp"])
    BY <2>1, Zenon DEF GatewayFrame, Unattended
  <2>4. inbox' \in Seq(D) BY <1>5, <2>2, <2>3, Zenon
  <2> QED BY <1>4, <2>3, <2>4, Zenon
<1>8. CASE UNCHANGED pluginVars
  BY <1>2, <1>4, <1>8, Zenon DEF pluginVars
<1>9. ASSUME \/ Plugin!Bind \/ Plugin!Loop \/ Plugin!Joined \/ Plugin!BindFails
            \/ Plugin!ReceiveFails \/ Plugin!Destroy
      PROVE  PluginInv'
  <2>1. /\ UNCHANGED <<inbox, msgId, value>>
    BY <1>9, Zenon DEF Plugin!Bind, Plugin!Loop, Plugin!Joined, Plugin!BindFails,
       Plugin!ReceiveFails, Plugin!Destroy
  <2>2. /\ broker' \in {"up", "join", "gone"} /\ thread' \in {"bind", "loop", "recv", "done"}
    BY <1>2, <1>9 DEF Plugin!Bind, Plugin!Loop, Plugin!Joined, Plugin!BindFails,
       Plugin!ReceiveFails, Plugin!Destroy
  <2>3. \/ UNCHANGED <<broker, statusRunning>>
        \/ broker # "up" /\ broker' # "up" /\ UNCHANGED statusRunning
        \/ broker' # "up" /\ statusRunning' = FALSE
    BY <1>9 DEF Plugin!Bind, Plugin!Loop, Plugin!Joined, Plugin!BindFails,
       Plugin!ReceiveFails, Plugin!Destroy
  <2>4. statusRunning' = (broker' = "up") BY <1>3, <2>3, Zenon
  <2>5. UNCHANGED <<inbox, msgId, value>> /\ PluginInv BY <1>1, <2>1
  <2> QED BY <2>2, <2>4, <2>5, Zenon DEF PluginInv, Plugin!PluginTypeOK
<1>10. CASE Plugin!Receive
  <2>1. /\ inbox # << >> /\ inbox' = Tail(inbox) /\ thread' = "loop"
        /\ UNCHANGED <<broker, statusRunning>>
    BY <1>10, Zenon DEF Plugin!Receive
  <2>2. Head(inbox) \in D /\ inbox' \in Seq(D)
    <3> HIDE DEF D
    <3> QED BY <1>2, <2>1
  <2>3. msgId' \in GVVEH \cup {"none"} BY <1>2, <1>10, <2>2 DEF Plugin!Receive
  <2>4. value' \in [PluginMessages -> V]
    <3>1. Head(inbox).third \in V BY <2>2
    <3>2. value' = IF msgId' \in PluginMessages THEN [value EXCEPT ![msgId'] = Head(inbox).third]
                                       ELSE value
      BY <1>10 DEF Plugin!Receive
    <3> QED BY <1>2, <3>1, <3>2
  <2>5. broker' \in {"up", "join", "gone"} BY <1>2, <2>1
  <2>6. statusRunning' = (broker' = "up") BY <1>3, <2>1, Zenon
  <2>7. thread' \in {"bind", "loop", "recv", "done"} BY <2>1
  <2> QED
    BY <2>2, <2>3, <2>4, <2>5, <2>6, <2>7, Zenon
       DEF PluginInv, Plugin!PluginTypeOK
<1>11. CASE SkipLine
  <2>1. UNCHANGED <<inbox, broker, statusRunning, thread, msgId, value>>
    BY <1>11, Zenon DEF SkipLine, Unattended
  <2> QED BY <1>2, <1>4, <2>1, Zenon
<1>12. CASE PluginThread \/ PluginMay
  BY <1>9, <1>10, <1>12, Zenon DEF PluginThread, PluginMay, Plugin!PluginStep
<1>13. CASE WithoutPlugin \/ UNCHANGED vars
  BY <1>8, <1>13, Zenon DEF WithoutPlugin, vars
<1> QED
  BY <1>6, <1>7, <1>11, <1>12, <1>13, Zenon DEF Next, Listener, Main

(***************************************************************************)
(* The invariant is inductive.                                             *)
(***************************************************************************)
\* Every step of the daemon, of the replayer and of the plugin keeps it.
THEOREM InvariantStep ==
  IInv /\ [Next]_vars => IInv'
<1> SUFFICES ASSUME IInv, [Next]_vars PROVE IInv' OBVIOUS
<1> QED
  BY LogTypesKept, DataTypesKept, BatchIsThereKept, SourcesKept, BatchIsStoredKept,
     StoreRetainsKept, ThreadTypesKept, ClientKnowsKept, PluginInvKept, Zenon DEF IInv

\* The strengthening of the invariants below holds in every behaviour, for all
\* logs and sizes of the batch buffer.
THEOREM InvariantHolds ==
  Spec => []IInv
BY InvariantInit, InvariantStep, PTL DEF Spec

(***************************************************************************)
(* The properties the runs check, each from the invariant.                 *)
(***************************************************************************)
\* The types of the daemon and of the plugin: no batch outgrows its buffer and
\* no position names a datagram that was not received.
THEOREM TypeCorrect ==
  Spec => []TypeOK
<1>1. IInv => TypeOK
  <2> SUFFICES ASSUME IInv PROVE TypeOK OBVIOUS
  <2>1. Plugin!PluginTypeOK BY DEF IInv, PluginInv
  <2>2. \A id \in GVGNS : Len(held[id]) < MAX_BUF_MSG
    <3> SUFFICES ASSUME NEW id \in GVGNS PROVE Len(held[id]) < MAX_BUF_MSG OBVIOUS
    <3>1. held[id] \in Seq(BatchMessage) BY DEF IInv, DataTypes
    <3>2. CASE held[id] = << >> BY <3>2, DaemonAssumption
    <3>3. CASE held[id] # << >>
      <4>1. held[id][Len(held[id])] \in BatchMessage BY <3>1, <3>3
      <4>2. held[id][Len(held[id])].countdown \in Nat BY <4>1 DEF BatchMessage
      <4> QED BY <3>1, <3>3, <4>2, DaemonAssumption DEF IInv, HeldCountsDown
    <3> QED BY <3>2, <3>3
  <2>3. Len(batch.messages) <= MAX_BUF_MSG BY DEF IInv, BatchIsThere
  <2>4. \A c \in DOMAIN stored : \A g \in Groups : stored[c].source[g] \in 0 .. Len(log)
    BY DEF IInv, DataTypes, SourcesKnown, Known, Position, LogTypes
  <2>5. ThreadTypes BY DEF IInv
  <2> QED
    BY <2>1, <2>2, <2>3, <2>4, <2>5, Zenon DEF TypeOK, DaemonTypeOK, ThreadTypes
<1> QED BY <1>1, InvariantHolds, PTL

\* What GetPositionInfo gives as a place, or as a satellite system, was declared
\* valid by the datagram it came with, through every merge of batches.
THEOREM ValidIsAsSent ==
  Spec => []ValidWasSentValid
<1>1. IInv => ValidWasSentValid
  BY DEF IInv, PositionsDeclared, Declared, ValidWasSentValid
<1> QED BY <1>1, InvariantHolds, PTL

\* The values a PositionUpdate tells of cover what is stored when it is sent.
THEOREM UpdateIsComplete ==
  Spec => []UpdateTellsWhatIsStored
<1>1. IInv => UpdateTellsWhatIsStored
  <2> SUFFICES ASSUME IInv, listener = "callback", batch.cell = "gPosition"
               PROVE  /\ Given(Where \cup Course) \cap stored["gPosition"].valid \subseteq announced
                      /\ Len(batch.messages) = 1 =>
                           announced = stored["gPosition"].valid \cap Announceable
    BY DEF UpdateTellsWhatIsStored
  <2> DEFINE last == Len(batch.messages)
  <2>1. /\ stored["gPosition"] = batch.messages[last].position
        /\ announced = Changed(batch)
    BY DEF IInv, BatchIsStored, LastOf
  <2>2. last \in 1 .. last /\ DOMAIN batch.messages = 1 .. last
    BY LastMessage DEF IInv, DataTypes, Batch
  <2>3. Given(Where \cup Course) \subseteq Announceable
    BY DEF Given, Where, Course, Announceable, Accuracy, Systems
  <2>4. batch.messages[last].position.valid \cap Announceable \subseteq announced
    BY <2>1, <2>2 DEF Changed
  <2>5. last = 1 => announced = batch.messages[1].position.valid \cap Announceable
    BY <2>1, <2>2 DEF Changed
  <2> QED BY <2>1, <2>3, <2>4, <2>5
<1> QED BY <1>1, InvariantHolds, PTL

\* A client that reads after each PositionUpdate has what the daemon has,
\* wherever its read falls between storing and signalling.
THEOREM ClientIsUpToDate ==
  Spec => []ClientCatchesUp
<1>1. IInv => ClientCatchesUp
  BY DEF IInv, ClientKnows, ToBeTold, ClientCatchesUp
<1> QED BY <1>1, InvariantHolds, PTL

\* A batch of course or of accuracy messages, merged when each message came and
\* stored when the last one did, takes nothing else of the position away.
THEOREM MergingRetainsOthers ==
  Spec => OthersRetained
<1> DEFINE old == stored["gPosition"]
           new == stored'["gPosition"]
           n   == new.source["time"]
           A   == (new # old /\ n > 0 /\ log[n].id \in DOMAIN Own) =>
                    /\ old.valid \subseteq new.valid
                    /\ \A g \in Groups \ {"time", Own[log[n].id]} :
                         new.source[g] = old.source[g]
<1>1. IInv /\ [Next]_vars => [A]_stored
  <2> SUFFICES ASSUME IInv, [Next]_vars, stored' # stored PROVE A OBVIOUS
  <2>1. Store BY DataSteps DEF Sends, Waits, Gets, Call, Return
  <2>2. /\ listener = "store" /\ batch.cell \in Cells /\ stored \in [Cells -> Position]
        /\ stored' = [stored EXCEPT ![batch.cell] = LastOf(batch)]
    BY <2>1, LastMessage DEF Store, IInv, DataTypes
  <2>3. CASE batch.cell = "gPosition"
    <3>1. Retains(old, LastOf(batch)) BY <2>2, <2>3 DEF IInv, StoreRetains
    <3>2. new = LastOf(batch) BY <2>2, <2>3
    <3> QED BY <3>1, <3>2 DEF Retains
  <2>4. CASE batch.cell # "gPosition"
    BY <2>2, <2>4 DEF Cells
  <2> QED BY <2>3, <2>4
<1>2. Spec => [][A]_stored BY <1>1, InvariantHolds, PTL DEF Spec
<1> QED BY <1>2 DEF OthersRetained, Own
=============================================================================
