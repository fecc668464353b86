-------------------------- MODULE PositioningDaemon --------------------------
(***************************************************************************)
(* The positioning daemon: three D-Bus objects on top of the GNSS library. *)
(* Two threads run: main, which starts, serves the requests of the bus and *)
(* shuts down, and the listener of the library, which turns the sentences  *)
(* of the log into one position and signals PositionUpdate.  A client      *)
(* reads the position once, and again after each signal.                   *)
(*                                                                         *)
(* SensorService shows the socket of the listener and its failures, and    *)
(* BatchBuffer the slots of a buffer: here a buffer is the sequence of the *)
(* messages held, and a datagram its place in the log.                     *)
(***************************************************************************)
EXTENDS LogReplayer

CONSTANTS
  MAX_BUF_MSG,    \* slots of the batch buffer of each sentence
  Requests,       \* sets of values the client may ask for
  PropertyValues  \* property names with a value a client may set

ASSUME DaemonAssumption == MAX_BUF_MSG \in Nat \ {0}

VARIABLES
  main,       \* where the main thread is
  properties, \* mUpdateInterval and mSatelliteSystem
  isRunning,
  listener,   \* where the listener is
  cb,         \* the cells with a registered callback
  arrived,    \* datagrams in the socket
  gnssMsgId,  \* msgId of the listener
  held,       \* per sentence, the messages of the batch being received
  batch,      \* what updateGNSS... is called with
  stored,     \* gPosition, gTime, gSatelliteDetail
  announced,  \* the values PositionUpdate told of last
  pending,    \* a PositionUpdate the client did not answer yet
  view        \* what the client last read

libraryVars == <<isRunning, listener, cb, arrived, gnssMsgId, held, batch, stored>>
clientVars  == <<announced, pending, view>>
daemonVars  == <<main, properties, libraryVars, clientVars>>

(***************************************************************************)
(* A position: which datagram gave each group of its values, and which of  *)
(* its values are valid.                                                   *)
(***************************************************************************)
Where     == {"LATITUDE", "LONGITUDE", "ALTITUDEMSL"}
Course    == {"HSPEED", "VSPEED", "HEADING"}
Accuracy  == {"PDOP", "HDOP", "VDOP", "USAT", "STAT", "TYPE"}
Systems   == {"USYS"}
Announceable == Where \cup Course \cup (Accuracy \ {"TYPE"}) \cup Systems
Groups    == {"time", "where", "course", "accuracy", "systems"}

GroupOf(bit) ==
  CASE bit \in Where    -> "where"
    [] bit \in Course   -> "course"
    [] bit \in Accuracy -> "accuracy"
    [] bit \in Systems  -> "systems"

\* A sentence of the old kind has flags for its own values and no others.
ASSUME DeclaredAssumption ==
  \A line \in Lines :
    /\ line.id = "GVGNSP"  => line.valid \subseteq Where
    /\ line.id = "GVGNSC"  => line.valid \subseteq Course
    /\ line.id = "GVGNSAC" => line.valid \subseteq Accuracy

Zeroed == [source |-> [g \in Groups |-> 0], valid |-> {}]

Fresh(n, groups) ==
  [source |-> [g \in Groups |-> IF g \in groups THEN n ELSE 0],
   valid  |-> log[n].valid]

\* Mutant: a batch is merged into what its sentence holds, not into gPosition.
MergedIntoBatch(n, groups) ==
  LET h    == held[log[n].id]
      base == IF h = << >> THEN stored["gPosition"] ELSE h[Len(h)].position
  IN  [source |-> [g \in Groups |-> IF g \in groups THEN n ELSE base.source[g]],
       valid  |-> base.valid \cup log[n].valid]

\* The old sentences update gPosition: a value that was valid stays so.
Merged(n, groups) ==
  [source |-> [g \in Groups |-> IF g \in groups THEN n
                                ELSE stored["gPosition"].source[g]],
   valid  |-> stored["gPosition"].valid \cup log[n].valid]

(***************************************************************************)
(* The handlers: the messages a datagram may give.                         *)
(***************************************************************************)
Message(n, position) == [countdown |-> log[n].countdown, position |-> position]
Whole(n, id) == log[n].id = id /\ log[n].parses

\* Not checked for a failure: the record is zeroed then, the countdown is what
\* the stack holds.
processGVGNSPOS(n) ==
  IF Whole(n, "GVGNSPOS")
    THEN {Message(n, Fresh(n, Groups))}
    ELSE {[countdown |-> c, position |-> Zeroed] : c \in 0 .. MAX_BUF_MSG}

IfWhole(n, id, position) == IF Whole(n, id) THEN {Message(n, position)} ELSE {}

\* Mutant: the position is merged like the course.
MergedGVGNSP(n) == IfWhole(n, "GVGNSP", Merged(n, {"time", "where"}))

processGVGNSP(n)   == IfWhole(n, "GVGNSP", Fresh(n, {"time", "where"}))
processGVGNSC(n)   == IfWhole(n, "GVGNSC", Merged(n, {"time", "course"}))
processGVGNSAC(n)  == IfWhole(n, "GVGNSAC", Merged(n, {"time", "accuracy"}))
processGVGNSTIM(n) == IfWhole(n, "GVGNSTIM", Fresh(n, {"time"}))
processGVGNSSAT(n) == IfWhole(n, "GVGNSSAT", Fresh(n, {"time"}))

Handled(id, n) ==
  CASE id = "GVGNSPOS" -> processGVGNSPOS(n)
    [] id = "GVGNSP"   -> processGVGNSP(n)
    [] id = "GVGNSC"   -> processGVGNSC(n)
    [] id = "GVGNSAC"  -> processGVGNSAC(n)
    [] id = "GVGNSTIM" -> processGVGNSTIM(n)
    [] id = "GVGNSSAT" -> processGVGNSSAT(n)
    [] OTHER           -> {}

\* Where the value of a sentence is stored.
Cell(id) ==
  CASE id = "GVGNSTIM" -> "gTime"
    [] id = "GVGNSSAT" -> "gSatelliteDetail"
    [] OTHER           -> "gPosition"

\* Mutant: a batch is continued whatever came last.
FitsAnyOrder(id, m) == m.countdown < MAX_BUF_MSG

Fits(id, m) ==
  /\ m.countdown < MAX_BUF_MSG
  /\ held[id] # << >> => held[id][Len(held[id])].countdown - m.countdown = 1

NoBatch == [cell |-> "none", messages |-> << >>]

Buffered(id, m) ==
  LET complete == Fits(id, m) /\ m.countdown = 0
  IN  /\ held' = [held EXCEPT ![id] = IF Fits(id, m) /\ ~complete THEN Append(@, m)
                                                                  ELSE << >>]
      /\ batch' = IF complete THEN [cell |-> Cell(id), messages |-> Append(held[id], m)]
                              ELSE NoBatch
      /\ listener' = IF complete THEN "store" ELSE "loop"

(***************************************************************************)
(* The listener.                                                           *)
(***************************************************************************)
ListenerOnly == UNCHANGED <<main, properties, isRunning, cb>>

Loop ==
  /\ listener = "loop"
  /\ listener' = IF isRunning THEN "select" ELSE "done"
  /\ ListenerOnly
  /\ UNCHANGED <<arrived, gnssMsgId, held, batch, stored, clientVars>>

SelectTimesOut ==
  /\ listener = "select"
  /\ listener' = "loop"
  /\ ListenerOnly
  /\ UNCHANGED <<arrived, gnssMsgId, held, batch, stored, clientVars>>

\* The name of the message is that of the datagram before when it has none.
Receive ==
  /\ listener = "select"
  /\ arrived # << >>
  /\ arrived' = Tail(arrived)
  /\ LET n == Head(arrived)
     IN  /\ gnssMsgId' = IF log[n].id = "none" THEN gnssMsgId ELSE log[n].id
         /\ \/ /\ Handled(gnssMsgId', n) = {}
               /\ listener' = "loop"
               /\ UNCHANGED <<held, batch>>
            \/ \E m \in Handled(gnssMsgId', n) : Buffered(gnssMsgId', m)
  /\ ListenerOnly
  /\ UNCHANGED <<stored, clientVars>>

LastOf(b) == b.messages[Len(b.messages)].position

\* Under mutexData.
Store ==
  /\ listener = "store"
  /\ stored' = [stored EXCEPT ![batch.cell] = LastOf(batch)]
  /\ listener' = "notify"
  /\ ListenerOnly
  /\ UNCHANGED <<arrived, gnssMsgId, held, batch, clientVars>>

\* Mutant: only the first position of the batch is looked at.
ChangedFirst(b) == b.messages[1].position.valid \cap Announceable

\* sigPositionUpdate: whatever is valid in one of the positions, of the values it
\* has a name for.  The kind of the fix is looked at, and not announced.
Changed(b) ==
  (UNION {b.messages[i].position.valid : i \in DOMAIN b.messages}) \cap Announceable

\* Mutant: no signal when no value is valid.
AnnouncesSomething ==
  /\ announced' = Changed(batch)
  /\ pending' = (pending \/ announced' # {})
  /\ UNCHANGED view

\* cbPosition signals; cbSatelliteDetail does not yet.
cbPosition ==
  /\ announced' = Changed(batch)
  /\ pending' = TRUE
  /\ UNCHANGED view

\* The callback runs under mutexCb, which it keeps until it returns.
Call ==
  /\ listener = "notify"
  /\ listener' = IF batch.cell \in cb THEN "callback" ELSE "loop"
  /\ IF batch.cell = "gPosition" /\ batch.cell \in cb
       THEN cbPosition /\ UNCHANGED batch
       ELSE batch' = (IF batch.cell \in cb THEN batch ELSE NoBatch) /\ UNCHANGED clientVars
  /\ ListenerOnly
  /\ UNCHANGED <<arrived, gnssMsgId, held, stored>>

Return ==
  /\ listener = "callback"
  /\ listener' = "loop"
  /\ batch' = NoBatch
  /\ announced' = {}
  /\ ListenerOnly
  /\ UNCHANGED <<arrived, gnssMsgId, held, stored, pending, view>>

(***************************************************************************)
(* The main thread.                                                        *)
(***************************************************************************)
NoData == UNCHANGED <<arrived, gnssMsgId, held, batch, stored>>

gnssInit ==
  /\ main = "init"
  /\ main' = "run"
  /\ isRunning' = TRUE
  /\ listener' = "loop"
  /\ NoData
  /\ UNCHANGED <<properties, cb, clientVars>>

\* The thread of the listener cannot be created: the process exits.
gnssInitFails ==
  /\ main = "init"
  /\ main' = "gone"
  /\ isRunning' = FALSE
  /\ NoData
  /\ UNCHANGED <<properties, listener, cb, clientVars>>

\* mutexCb, unless the listener holds it.
WithMutexCb ==
  /\ listener # "callback"
  /\ NoData
  /\ UNCHANGED <<properties, isRunning, listener, clientVars>>

\* EnhancedPosition::run: the position first, then the satellites.  The
\* callbacks of the sensors are registered with a library that is never
\* initialised in this process, and are never called.
Run ==
  /\ main = "run"
  /\ WithMutexCb
  /\ cb' = IF cb = {} THEN {"gPosition"} ELSE {"gPosition", "gSatelliteDetail"}
  /\ main' = IF cb = {} THEN "run" ELSE "loop"

\* A signal of the system makes the dispatcher return.
Leave ==
  /\ main = "loop"
  /\ main' = "shutdown"
  /\ NoData
  /\ UNCHANGED <<properties, isRunning, listener, cb, clientVars>>

Shutdown ==
  /\ main = "shutdown"
  /\ WithMutexCb
  /\ cb' = cb \ {IF "gPosition" \in cb THEN "gPosition" ELSE "gSatelliteDetail"}
  /\ main' = IF "gPosition" \in cb THEN "shutdown" ELSE "destroy"

\* Mutant: the listener is not told to stop.
DestroyLeavesRunning ==
  /\ main = "destroy"
  /\ main' = "join"
  /\ NoData
  /\ UNCHANGED <<properties, isRunning, listener, cb, clientVars>>

gnssDestroy ==
  /\ main = "destroy"
  /\ main' = "join"
  /\ isRunning' = FALSE
  /\ NoData
  /\ UNCHANGED <<properties, listener, cb, clientVars>>

Joined ==
  /\ main = "join"
  /\ listener = "done"
  /\ main' = "gone"
  /\ NoData
  /\ UNCHANGED <<properties, isRunning, listener, cb, clientVars>>

\* Requests of the bus.  Asking for one value of a group gives them all, and
\* the status is always given.
Given(values) ==
  (UNION {IF values \cap g = {} THEN {} ELSE g : g \in {Where, Course}})
    \cup {"STAT", "USYS"}

Info(values) ==
  LET position == stored["gPosition"]
  IN  [values |-> values, timestamp |-> position.source["time"],
       data   |-> {<<v, position.source[GroupOf(v)]>> :
                     v \in Given(values) \cap position.valid}]

Unread == [values |-> {}, timestamp |-> 0, data |-> {}]

GetPositionInfo(values) ==
  /\ main = "loop"
  /\ view = Unread \/ pending
  /\ view' = Info(values)
  /\ pending' = FALSE
  /\ NoData
  /\ UNCHANGED <<main, properties, isRunning, listener, cb, announced>>

\* Whether the library can activate the systems is not looked at: it cannot.
SetProperty(name, value) ==
  /\ main = "loop"
  /\ properties' = [properties EXCEPT ![name] = value]
  /\ NoData
  /\ UNCHANGED <<main, isRunning, listener, cb, clientVars>>

DaemonInit ==
  /\ main = "init"
  /\ properties = [UpdateInterval |-> 1000, SatelliteSystem |-> {"GPS"}]
  /\ isRunning = FALSE /\ listener = "none" /\ cb = {}
  /\ arrived = << >> /\ gnssMsgId = "none"
  /\ held = [id \in GVGNS |-> << >>]
  /\ batch = NoBatch
  /\ stored = [c \in {"gPosition", "gTime", "gSatelliteDetail"} |-> Zeroed]
  /\ announced = {} /\ pending = FALSE /\ view = Unread

\* A datagram finds the socket of the listener, or is lost.
Arrive(n) ==
  arrived' = IF listener \in {"none", "done"} THEN arrived ELSE Append(arrived, n)

ListenerStep == Loop \/ SelectTimesOut \/ Receive \/ Store \/ Call \/ Return

MainStep == gnssInit \/ gnssInitFails \/ Run \/ Shutdown \/ gnssDestroy \/ Joined

BusStep == Leave \/ \E values \in Requests : GetPositionInfo(values)

PropertyStep == \E p \in PropertyValues : SetProperty(p[1], p[2])

(***************************************************************************)
(* Properties.                                                             *)
(***************************************************************************)
DaemonTypeOK ==
  /\ main \in {"init", "run", "loop", "shutdown", "destroy", "join", "gone"}
  /\ isRunning \in BOOLEAN
  /\ listener \in {"none", "loop", "select", "store", "notify", "callback", "done"}
  /\ cb \subseteq {"gPosition", "gSatelliteDetail"}
  /\ \A id \in GVGNS : Len(held[id]) < MAX_BUF_MSG
  /\ Len(batch.messages) <= MAX_BUF_MSG
  /\ \A c \in DOMAIN stored : \A g \in Groups : stored[c].source[g] \in 0 .. Len(log)
  /\ pending \in BOOLEAN

\* A place or a satellite system that GetPositionInfo gives was declared valid
\* by the very message that brought it, whatever sentences came between.
ValidWasSentValid ==
  LET position == stored["gPosition"]
  IN  \A v \in position.valid \cap (Where \cup Systems) :
        /\ position.source[GroupOf(v)] > 0
        /\ v \in log[position.source[GroupOf(v)]].valid

\* "update the changed fields, retain the existing fields from other
\* callbacks": a batch of course or accuracy messages takes nothing of the
\* rest of the position away and puts nothing old back, although its messages
\* are merged when they come and stored when the last one did.
OthersRetained ==
  [][LET old == stored["gPosition"]
         new == stored'["gPosition"]
         own == [GVGNSC |-> "course", GVGNSAC |-> "accuracy"]
         n   == new.source["time"]
     IN  (new # old /\ n > 0 /\ log[n].id \in DOMAIN own) =>
           /\ old.valid \subseteq new.valid
           /\ \A g \in Groups \ {"time", own[log[n].id]} : new.source[g] = old.source[g]
    ]_stored

\* While a PositionUpdate is sent, every value that GetPositionInfo can give
\* is among those it tells of, and after a batch of one message nothing else
\* of the position was told.
UpdateTellsWhatIsStored ==
  (listener = "callback" /\ batch.cell = "gPosition") =>
    LET given == Given(Where \cup Course) \cap stored["gPosition"].valid
    IN  /\ given \subseteq announced
        /\ Len(batch.messages) = 1 => announced = stored["gPosition"].valid \cap Announceable

\* A client that reads after each PositionUpdate ends with the position the
\* daemon has, however its reads fall between storing and signalling.
ClientCatchesUp ==
  (main = "loop" /\ listener \in {"loop", "select"} /\ ~pending /\ view # Unread) =>
    view = Info(view.values)

\* Once told to, the daemon shuts down: neither the lock of the callbacks nor
\* the listener keeps it.
ShutdownReturns == main = "shutdown" ~> main = "gone"
=============================================================================
