------------------------------ MODULE AmbPlugin ------------------------------
(***************************************************************************)
(* The AMB plugin that receives the vehicle data of the log replayer or of *)
(* the vehicle gateway.  The broker creates and destroys it; its thread    *)
(* waits for datagrams without a timeout, and gives AMB the third          *)
(* comma-separated field of each as the value of the property it names.    *)
(* In a line of the log replayer that is the value; in a frame of the      *)
(* gateway, which repeats the timestamp, it is the timestamp.              *)
(***************************************************************************)
EXTENDS Sequences

CONSTANTS
  Names,    \* the messages that are sent to the port of the plugin
  Messages  \* those that carry a vehicle property: GVVEHENGSPEED, GVVEHFUELLEVEL,
            \* GVVEHFUELCONS and GVVEHTOTALODO in the code

VARIABLES
  inbox,          \* datagrams in the socket of port 9932
  broker,         \* the broker's thread: "up", in the destructor, or "gone"
  statusRunning,
  thread,         \* where updateProperties is
  msgId,          \* the buffer of the name, in the thread's stack
  value           \* what AMB was last told of each property

pluginVars == <<inbox, broker, statusRunning, thread, msgId, value>>

PluginInit ==
  /\ inbox = << >>
  /\ broker = "up"
  /\ statusRunning = TRUE
  /\ thread = "bind"
  /\ msgId = "none"
  /\ value = [m \in Messages |-> "unset"]

\* A datagram finds its port, or nobody has bound it and it is lost.
Deliver(d) == inbox' = IF thread \in {"loop", "recv"} THEN Append(inbox, d) ELSE inbox

Bind ==
  /\ thread = "bind"
  /\ thread' = "loop"
  /\ UNCHANGED <<inbox, broker, statusRunning, msgId, value>>

\* The port is taken: the thread ends and the broker does not learn of it.
BindFails ==
  /\ thread = "bind"
  /\ thread' = "done"
  /\ UNCHANGED <<inbox, broker, statusRunning, msgId, value>>

\* Mutant: the loop does not look at its flag.
LoopRegardless ==
  /\ thread = "loop"
  /\ thread' = "recv"
  /\ UNCHANGED <<inbox, broker, statusRunning, msgId, value>>

Loop ==
  /\ thread = "loop"
  /\ thread' = IF statusRunning THEN "recv" ELSE "done"
  /\ UNCHANGED <<inbox, broker, statusRunning, msgId, value>>

\* A datagram that names no message leaves the name of the one before.
Receive ==
  /\ thread = "recv"
  /\ inbox # << >>
  /\ inbox' = Tail(inbox)
  /\ msgId' = IF Head(inbox).id = "none" THEN msgId ELSE Head(inbox).id
  /\ value' = IF msgId' \in Messages THEN [value EXCEPT ![msgId'] = Head(inbox).third]
                                     ELSE value
  /\ thread' = "loop"
  /\ UNCHANGED <<broker, statusRunning>>

\* The socket fails: the thread ends like that, and leaves it open.
ReceiveFails ==
  /\ thread = "recv"
  /\ thread' = "done"
  /\ UNCHANGED <<inbox, broker, statusRunning, msgId, value>>

Destroy ==
  /\ broker = "up"
  /\ broker' = "join"
  /\ statusRunning' = FALSE
  /\ UNCHANGED <<inbox, thread, msgId, value>>

Joined ==
  /\ broker = "join"
  /\ thread = "done"
  /\ broker' = "gone"
  /\ UNCHANGED <<inbox, statusRunning, thread, msgId, value>>

PluginStep == Bind \/ Loop \/ Receive \/ Joined

PluginTypeOK ==
  /\ broker \in {"up", "join", "gone"}
  /\ statusRunning = (broker = "up")
  /\ thread \in {"bind", "loop", "recv", "done"}
  /\ msgId \in Names \cup {"none"}
  /\ value \in [Messages -> {"unset", "timestamp", "value"}]

\* The destructor waits for a thread that waits for a datagram: it returns
\* when one comes, or when the thread was not waiting.
DestructorReturnsOnDatagram ==
  (broker = "join" /\ (inbox # << >> \/ thread # "recv")) ~> broker = "gone"
=============================================================================
