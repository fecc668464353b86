---------------------------- MODULE SensorService ----------------------------
(***************************************************************************)
(* One sentence of the GNSS or of the sensors service, a library linked    *)
(* into its client (the positioning process).  Two threads run:            *)
(*   - the client: it initialises and destroys the service, registers and  *)
(*     deregisters a callback and reads the stored value;                  *)
(*   - the listener, created by the initialisation: it waits for datagrams *)
(*     with a timeout, stores what it parses and calls the callback.       *)
(* mutexData protects the stored value, mutexCb the callback, and mutexCb  *)
(* is held while the callback runs.  Nothing protects the loop flag and    *)
(* the socket: the client promises not to make overlapping calls.          *)
(*                                                                         *)
(* A socket that is shut down is readable and yields an empty datagram;    *)
(* the sentence name is then still that of the datagram before.            *)
(***************************************************************************)
EXTENDS Integers, Sequences

CONSTANTS
  Callbacks,     \* callbacks the client may register
  MAX_BUF_MSG,   \* slots of the sentence's batch buffer
  ChecksParse,   \* whether the result of sscanf is checked: not in GVGNSPOS
  Damages,       \* whether a datagram may arrive that does not parse
  MaxDatagrams,  \* bound: number of datagrams sent to the service
  MaxInits,      \* bound: number of initialisations
  None           \* no callback

ASSUME SensorServiceAssumption ==
  /\ MAX_BUF_MSG \in Nat \ {0}
  /\ ChecksParse \in BOOLEAN /\ Damages \in BOOLEAN
  /\ MaxDatagrams \in Nat /\ MaxInits \in Nat
  /\ None \notin Callbacks

VARIABLES
  client,    \* where the client is: "idle" between calls, or in gnssDestroy
  inits,     \* number of initialisations so far, for the bound
  initialised, \* history: a gnssInit was not yet followed by a gnssDestroy
  isRunning,
  listener,  \* where the listener thread is, "none" when there is none
  s,         \* the socket
  cb,        \* the registered callback
  calling,   \* the callback the listener is about to call, or is in
  stored,    \* gPosition or its like: the last message stored
  inbox,     \* datagrams in the socket
  sent,      \* number of datagrams so far
  msgIsOurs, \* the sentence name in msgId is that of this sentence
  alive,     \* FALSE once the listener ended the process
  buf, buf_size, last_countdown, delivered, arrivals \* the batch buffer

bufferVars == <<buf, buf_size, last_countdown, delivered, arrivals>>
clientVars == <<client, inits, initialised>>
netVars    == <<inbox, sent>>
vars == <<clientVars, isRunning, listener, s, cb, calling, stored, netVars,
          msgIsOurs, alive, bufferVars>>

\* What fills a batch: the id tells datagrams apart, 0 is the zeroed record
\* of a message that was not parsed.
Messages == [countdown : 0 .. MAX_BUF_MSG, id : 0 .. MaxDatagrams]
Zeroed(c) == [countdown |-> c, id |-> 0]

Buffer == INSTANCE BatchBuffer WITH
  Blank <- Zeroed(0), MaxArrivals <- MaxDatagrams + MaxInits

Datagrams == [ours : BOOLEAN, parses : BOOLEAN, message : Messages]
Empty     == [ours |-> FALSE, parses |-> FALSE, message |-> Zeroed(0)]

(***************************************************************************)
(* The client.                                                             *)
(***************************************************************************)
MayCall == alive /\ client = "idle"

GnssInit ==
  /\ MayCall
  /\ ~initialised
  /\ inits < MaxInits
  /\ inits' = inits + 1
  /\ initialised' = TRUE
  /\ isRunning' = TRUE
  /\ listener' = "start"
  /\ UNCHANGED <<client, s, cb, calling, stored, netVars, msgIsOurs, alive, bufferVars>>

\* The thread cannot be created: gnssInit returns FALSE, and the client does not
\* destroy what was not initialised.
GnssInitFails ==
  /\ MayCall
  /\ ~initialised
  /\ inits < MaxInits
  /\ inits' = inits + 1
  /\ isRunning' = FALSE
  /\ UNCHANGED <<client, initialised, listener, s, cb, calling, stored, netVars, msgIsOurs,
                 alive, bufferVars>>

\* Mutant: the callback is changed without the lock.
UnderNoMutex ==
  /\ MayCall
  /\ UNCHANGED <<clientVars, isRunning, listener, s, calling, stored, netVars,
                 msgIsOurs, alive, bufferVars>>

\* A section under mutexCb, which the listener holds during a callback.
UnderMutexCb ==
  /\ MayCall
  /\ listener # "callback"
  /\ UNCHANGED <<clientVars, isRunning, listener, s, calling, stored, netVars,
                 msgIsOurs, alive, bufferVars>>

Register(c)   == UnderMutexCb /\ cb = None /\ cb' = c
Deregister(c) == UnderMutexCb /\ cb = c /\ cb' = None

\* The end of one sensor, which the sensors' builds have and GNSS has not: its
\* callback is forgotten, whosever it is; the service itself goes on.
VehicleSpeedDestroy == ChecksParse /\ UnderMutexCb /\ cb' = None

\* gnssDestroy: clear the flag, shut the socket down, join the thread.
DestroyStops ==
  /\ MayCall
  /\ initialised
  /\ isRunning' = FALSE
  /\ client' = "shutdown"
  /\ UNCHANGED <<inits, initialised, listener, s, cb, calling, stored, netVars,
                 msgIsOurs, alive, bufferVars>>

\* Mutant: the socket is left as it is.
DestroyLeavesSocket ==
  /\ alive
  /\ client = "shutdown"
  /\ client' = "join"
  /\ UNCHANGED <<inits, initialised, isRunning, listener, s, cb, calling, stored,
                 netVars, msgIsOurs, alive, bufferVars>>

\* Shutting down a descriptor that is no open socket does nothing.
DestroyShutsDown ==
  /\ alive
  /\ client = "shutdown"
  /\ client' = "join"
  /\ s' = IF s = "open" THEN "shut" ELSE s
  /\ UNCHANGED <<inits, initialised, isRunning, listener, cb, calling, stored,
                 netVars, msgIsOurs, alive, bufferVars>>

\* Mutant: the thread is left to itself.
DestroyWithoutJoin ==
  /\ alive
  /\ client = "join"
  /\ client' = "idle"
  /\ initialised' = FALSE
  /\ UNCHANGED <<inits, isRunning, listener, s, cb, calling, stored, netVars,
                 msgIsOurs, alive, bufferVars>>

DestroyJoins ==
  /\ alive
  /\ client = "join"
  /\ listener = "done"
  /\ listener' = "none"
  /\ client' = "idle"
  /\ initialised' = FALSE
  /\ UNCHANGED <<inits, isRunning, s, cb, calling, stored, netVars, msgIsOurs,
                 alive, bufferVars>>

(***************************************************************************)
(* The listener.                                                           *)
(***************************************************************************)
At(place) == alive /\ listener = place

\* The local msgId is not initialised: it may still hold the name that an
\* earlier listener left on a stack of the same place.
OpenSocket ==
  /\ At("start")
  /\ s' = "open"
  /\ inbox' = << >>
  /\ msgIsOurs' \in {FALSE, msgIsOurs}
  /\ listener' = "loop"
  /\ UNCHANGED <<clientVars, isRunning, cb, calling, stored, sent, alive, bufferVars>>

\* The port is taken: exit(EXIT_FAILURE) out of the listener.
OpenFails ==
  /\ At("start")
  /\ alive' = FALSE
  /\ UNCHANGED <<clientVars, isRunning, listener, s, cb, calling, stored, netVars,
                 msgIsOurs, bufferVars>>

Loop ==
  /\ At("loop")
  /\ listener' = IF isRunning THEN "select" ELSE "close"
  /\ UNCHANGED <<clientVars, isRunning, s, cb, calling, stored, netVars, msgIsOurs,
                 alive, bufferVars>>

\* select returns after a second at the latest.  It may time out although
\* a datagram waits, and report input where there is none: the descriptor set
\* is never cleared, so it may wait for other descriptors too, or for none.
Select ==
  /\ At("select")
  /\ listener' \in {"loop", "recv"}
  /\ UNCHANGED <<clientVars, isRunning, s, cb, calling, stored, netVars, msgIsOurs,
                 alive, bufferVars>>

\* The messages parsing a datagram may leave in the locals of the handler.
\* When sscanf failed unchecked, the record is zeroed and the countdown is
\* whatever the stack held.
Parsed(d) ==
  CASE d.parses                   -> {d.message}
    [] ~d.parses /\ ChecksParse   -> {}
    [] ~d.parses /\ ~ChecksParse  -> {Zeroed(c) : c \in 0 .. MAX_BUF_MSG}

\* A datagram of this sentence: it goes to the buffer if it is parsed.
Process(d) ==
  \/ /\ Parsed(d) = {}
     /\ listener' = "loop"
     /\ UNCHANGED bufferVars
  \/ \E m \in Parsed(d) :
       /\ Buffer!Receive(m)
       /\ listener' = IF delivered' = delivered THEN "loop" ELSE "store"

Handle(d) ==
  IF msgIsOurs' THEN Process(d)
                ELSE listener' = "loop" /\ UNCHANGED bufferVars

\* recvfrom: a datagram, or an empty one when the socket is shut down; with
\* neither, it blocks.
Receive ==
  /\ At("recv")
  /\ \/ /\ inbox # << >>
        /\ inbox' = Tail(inbox)
        /\ msgIsOurs' = Head(inbox).ours
        /\ Handle(Head(inbox))
     \/ /\ inbox = << >>
        /\ s = "shut"
        /\ UNCHANGED <<inbox, msgIsOurs>>
        /\ Handle(Empty)
  /\ UNCHANGED <<clientVars, isRunning, s, cb, calling, stored, sent, alive>>

\* recvfrom reports an error: exit(EXIT_FAILURE) here too.
ReceiveFails ==
  /\ At("recv")
  /\ alive' = FALSE
  /\ UNCHANGED <<clientVars, isRunning, listener, s, cb, calling, stored, netVars,
                 msgIsOurs, bufferVars>>

Last(batch) == batch.slots[batch.size - 1]

\* Mutant: the first message of the batch is stored.
StoreFirst ==
  /\ At("store")
  /\ stored' = delivered.slots[0]
  /\ listener' = "notify"
  /\ UNCHANGED <<clientVars, isRunning, s, cb, calling, netVars, msgIsOurs, alive,
                 bufferVars>>

\* Under mutexData: the last message of the batch becomes the value.
Store ==
  /\ At("store")
  /\ stored' = Last(delivered)
  /\ listener' = "notify"
  /\ UNCHANGED <<clientVars, isRunning, s, cb, calling, netVars, msgIsOurs, alive,
                 bufferVars>>

\* mutexCb is taken, and kept while the callback runs.
Call ==
  /\ At("notify")
  /\ IF cb = None THEN listener' = "loop" /\ UNCHANGED calling
                  ELSE listener' = "callback" /\ calling' = cb
  /\ UNCHANGED <<clientVars, isRunning, s, cb, stored, netVars, msgIsOurs, alive,
                 bufferVars>>

Return ==
  /\ At("callback")
  /\ listener' = "loop"
  /\ calling' = None
  /\ UNCHANGED <<clientVars, isRunning, s, cb, stored, netVars, msgIsOurs, alive,
                 bufferVars>>

Close ==
  /\ At("close")
  /\ s' = "closed"
  /\ inbox' = << >>
  /\ listener' = "done"
  /\ UNCHANGED <<clientVars, isRunning, cb, calling, stored, sent, msgIsOurs, alive,
                 bufferVars>>

(***************************************************************************)
(* The senders: datagrams of this sentence, of another one, or damaged.    *)
(* One that finds no open socket is lost.                                  *)
(***************************************************************************)
Arrive(ours, parses, c) ==
  /\ sent < MaxDatagrams
  /\ s = "open"
  /\ parses \/ Damages
  /\ sent' = sent + 1
  /\ inbox' = Append(inbox, [ours |-> ours, parses |-> parses,
                             message |-> [countdown |-> c, id |-> sent + 1]])
  /\ UNCHANGED <<clientVars, isRunning, listener, s, cb, calling, stored, msgIsOurs,
                 alive, bufferVars>>

Init ==
  /\ client = "idle" /\ inits = 0 /\ initialised = FALSE
  /\ isRunning = FALSE /\ listener = "none" /\ s = "unset"
  /\ cb = None /\ calling = None
  /\ stored = Zeroed(0)
  /\ inbox = << >> /\ sent = 0
  /\ msgIsOurs = FALSE
  /\ alive = TRUE
  /\ Buffer!Init

Destroying == DestroyShutsDown \/ DestroyJoins

Listening == \/ OpenSocket \/ Loop \/ Select \/ Receive \/ Store \/ Call \/ Return
             \/ Close

Next ==
  \/ GnssInit
  \/ GnssInitFails
  \/ \E c \in Callbacks : Register(c) \/ Deregister(c)
  \/ VehicleSpeedDestroy
  \/ DestroyStops
  \/ Destroying
  \/ Listening
  \/ OpenFails
  \/ ReceiveFails
  \/ \E ours, parses \in BOOLEAN, c \in 0 .. MAX_BUF_MSG : Arrive(ours, parses, c)

\* Both threads are scheduled; a callback returns.
Spec == Init /\ [][Next]_vars

FairSpec == Spec /\ WF_vars(Destroying) /\ WF_vars(Listening)

(***************************************************************************)
(* Properties.                                                             *)
(***************************************************************************)
TypeOK ==
  /\ client \in {"idle", "shutdown", "join"}
  /\ inits \in 0 .. MaxInits
  /\ initialised \in BOOLEAN /\ isRunning \in BOOLEAN
  /\ listener \in {"none", "start", "loop", "select", "recv", "store", "notify",
                   "callback", "close", "done"}
  /\ s \in {"unset", "open", "shut", "closed"}
  /\ cb \in Callbacks \cup {None} /\ calling \in Callbacks \cup {None}
  /\ stored \in Messages
  /\ inbox \in Seq(Datagrams) /\ sent \in 0 .. MaxDatagrams
  /\ msgIsOurs \in BOOLEAN /\ alive \in BOOLEAN
  /\ Buffer!TypeOK

\* Once a callback is deregistered it does not run any more, and is not about
\* to: its owner may be destroyed.
NoCallbackAfterDeregister == calling # None => cb = calling

\* A callback that reads the value sees the last message it was called with.
CallbackSeesLastStored == calling # None => stored = Last(delivered)

\* When gnssDestroy returned, no thread is left that could store or call, and
\* the socket is closed: the service can be initialised again.
DestroyedIsQuiet ==
  (~initialised /\ client = "idle") => listener = "none" /\ s \in {"unset", "closed"}

\* gnssDestroy returns, wherever the listener was, unless the process ends.
DestroyReturns == client = "shutdown" ~> (client = "idle" \/ ~alive)

\* "parse data like: 555854,0,$GVGNSPOS,...": what is stored and handed to the
\* clients was parsed out of a datagram that arrived.
DeliveredWasParsed == delivered.size > 0 => Last(delivered).id # 0
=============================================================================
