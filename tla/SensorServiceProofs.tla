------------------------- MODULE SensorServiceProofs -------------------------
(***************************************************************************)
(* For every buffer size, any number of datagrams and of lives of the      *)
(* service, and both ways of parsing: the widths, the callback a           *)
(* deregistered client no longer gets, the value a callback sees, and the  *)
(* quiet after gnssDestroy.  Whatever the two threads do, the buffer does  *)
(* what BatchBuffer says, so that what is proved there holds here.         *)
(***************************************************************************)
EXTENDS SensorService, TLAPS

BB == INSTANCE BatchBufferProofs WITH
  Blank <- Zeroed(0), MaxArrivals <- MaxDatagrams + MaxInits

\* The assumption of BatchBuffer about its messages.
LEMMA BufferAssumption == BB!BatchBufferAssumption
  BY SensorServiceAssumption DEF BB!BatchBufferAssumption, Messages

\* The buffer of the service and the one the lemmas are about are the same.
LEMMA SameBuffer ==
  /\ \A m : Buffer!Receive(m) = BB!Receive(m)
  /\ Buffer!Init = BB!Init
  /\ Buffer!TypeOK = BB!TypeOK
  /\ Buffer!TypeOK' = BB!TypeOK'
  BY Zenon DEF Buffer!Receive, BB!Receive, Buffer!Arrive, BB!Arrive, Buffer!Hold, BB!Hold,
               Buffer!Deliver, BB!Deliver, Buffer!Clear, BB!Clear, Buffer!Fits, BB!Fits,
               Buffer!SizeWith, BB!SizeWith, Buffer!SlotsWith, BB!SlotsWith, Buffer!Slots,
               BB!Slots, Buffer!bufferVars, BB!bufferVars, Buffer!Init, BB!Init,
               Buffer!TypeOK, BB!TypeOK

\* Every message a datagram may give keeps the widths of the buffer.
LEMMA BufferStep ==
  ASSUME Buffer!TypeOK, NEW m \in Messages, Buffer!Receive(m)
  PROVE  Buffer!TypeOK'
  BY SameBuffer, BB!TypeStep, BufferAssumption

\* What is handed over is never an empty batch.
LEMMA BatchNotEmpty ==
  ASSUME Buffer!TypeOK, NEW m \in Messages, Buffer!Receive(m), delivered' # delivered
  PROVE  delivered'.size > 0
<1>1. Buffer!Deliver(m)
  BY DEF Buffer!Receive, Buffer!Hold, Buffer!Clear
<1>2. delivered'.size = Buffer!SizeWith(m)
  BY <1>1 DEF Buffer!Deliver
<1>3. m.countdown \in Nat /\ buf_size \in Nat
  BY SensorServiceAssumption DEF Messages, Buffer!TypeOK
<1> QED
  BY <1>2, <1>3 DEF Buffer!SizeWith

\* A message handed over is a message.
LEMMA LastIsMessage ==
  ASSUME Buffer!TypeOK, delivered.size > 0
  PROVE  Last(delivered) \in Messages
<1> USE SensorServiceAssumption
<1>1. Zeroed(0) \in Messages
  BY DEF Zeroed, Messages
<1>2. /\ delivered.slots \in [0 .. MAX_BUF_MSG - 1 -> Messages \cup {Zeroed(0)}]
      /\ delivered.size - 1 \in 0 .. MAX_BUF_MSG - 1
  BY DEF Buffer!TypeOK, Buffer!Slots
<1> QED
  BY <1>1, <1>2 DEF Last

(***************************************************************************)
(* The invariant: where the listener is says what holds of the batch, of   *)
(* the callback and of the socket.                                         *)
(***************************************************************************)
BatchInv ==
  /\ listener = "store" => delivered.size > 0
  /\ listener \in {"notify", "callback"} => stored = Last(delivered)

CallbackInv ==
  /\ calling # None <=> listener = "callback"
  /\ calling # None => cb = calling

\* The service is initialised from before its listener starts until after the
\* listener was joined; the socket is open in between, and no longer.
LifeInv ==
  /\ client # "idle" \/ listener # "none" => initialised
  /\ listener \in {"none", "start"} => s \in {"unset", "closed"}
  /\ listener = "done" => s = "closed"

IInv == TypeOK /\ BatchInv /\ CallbackInv /\ LifeInv

\* A datagram in the hands of the listener.
LEMMA HandleStep ==
  ASSUME IInv, At("recv"), NEW d \in Datagrams, Handle(d),
         msgIsOurs' \in BOOLEAN, inbox' \in Seq(Datagrams),
         UNCHANGED <<clientVars, isRunning, s, cb, calling, stored, sent, alive>>
  PROVE  IInv'
<1> USE SensorServiceAssumption
<1>1. CASE UNCHANGED bufferVars /\ listener' = "loop"
  <2>1. Buffer!TypeOK'
    BY <1>1 DEF IInv, TypeOK, bufferVars, Buffer!TypeOK
  <2> QED
    BY <1>1, <2>1
       DEF IInv, TypeOK, BatchInv, CallbackInv, LifeInv, At, clientVars
<1>2. ASSUME NEW m \in Parsed(d), Buffer!Receive(m),
             listener' = IF delivered' = delivered THEN "loop" ELSE "store"
      PROVE  IInv'
  <2>1. m \in Messages
    BY DEF Parsed, Zeroed, Messages, Datagrams
  <2>2. Buffer!TypeOK'
    BY <1>2, <2>1, BufferStep DEF IInv, TypeOK
  <2>3. listener' \in {"loop", "store"} /\ (listener' = "store" => delivered'.size > 0)
    BY <1>2, <2>1, BatchNotEmpty DEF IInv, TypeOK
  <2> QED
    BY <2>2, <2>3 DEF IInv, TypeOK, BatchInv, CallbackInv, LifeInv, At, clientVars
<1> QED
  BY <1>1, <1>2 DEF Handle, Process

\* What the listener does with a datagram or with a socket that is shut down.
LEMMA ReceiveStep ==
  ASSUME IInv, Receive
  PROVE  IInv'
<1>1. At("recv") /\ UNCHANGED <<clientVars, isRunning, s, cb, calling, stored, sent, alive>>
  BY DEF Receive
<1>2. CASE /\ inbox # << >> /\ inbox' = Tail(inbox)
           /\ msgIsOurs' = Head(inbox).ours /\ Handle(Head(inbox))
  <2>1. Head(inbox) \in Datagrams /\ inbox' \in Seq(Datagrams)
    BY <1>2 DEF IInv, TypeOK
  <2>2. msgIsOurs' \in BOOLEAN
    BY <1>2, <2>1 DEF Datagrams
  <2> QED
    BY <1>1, <1>2, <2>1, <2>2, HandleStep
<1>3. CASE /\ inbox = << >> /\ s = "shut"
           /\ UNCHANGED <<inbox, msgIsOurs>> /\ Handle(Empty)
  <2>1. Empty \in Datagrams
    BY SensorServiceAssumption DEF Empty, Datagrams, Zeroed, Messages
  <2>2. msgIsOurs' \in BOOLEAN /\ inbox' \in Seq(Datagrams)
    BY <1>3 DEF IInv, TypeOK
  <2> QED
    BY <1>1, <1>3, <2>1, <2>2, HandleStep
<1> QED
  BY <1>2, <1>3 DEF Receive

\* A datagram that is sent.
LEMMA ArriveStep ==
  ASSUME IInv, NEW ours \in BOOLEAN, NEW parses \in BOOLEAN,
         NEW c \in 0 .. MAX_BUF_MSG, Arrive(ours, parses, c)
  PROVE  IInv'
<1> DEFINE d == [ours |-> ours, parses |-> parses,
                 message |-> [countdown |-> c, id |-> sent + 1]]
<1>1. sent + 1 \in 0 .. MaxDatagrams
  BY SensorServiceAssumption DEF IInv, TypeOK, Arrive
<1>2. d \in Datagrams
  BY <1>1 DEF Datagrams, Messages
<1>3. inbox' \in Seq(Datagrams) /\ sent' \in 0 .. MaxDatagrams
  BY <1>1, <1>2 DEF IInv, TypeOK, Arrive
<1>4. UNCHANGED <<clientVars, isRunning, listener, s, cb, calling, stored, msgIsOurs,
                  alive, bufferVars>>
  BY DEF Arrive
<1> QED
  BY <1>3, <1>4 DEF IInv, TypeOK, BatchInv, CallbackInv, LifeInv, clientVars, bufferVars,
                    Buffer!TypeOK

\* Every step of every thread preserves the invariant.
THEOREM InvariantStep == IInv /\ [Next]_vars => IInv'
<1> SUFFICES ASSUME IInv, [Next]_vars PROVE IInv'
  OBVIOUS
<1> USE SensorServiceAssumption
<1>0. UNCHANGED bufferVars => Buffer!TypeOK'
  BY DEF IInv, TypeOK, bufferVars, Buffer!TypeOK
<1> USE DEF IInv, TypeOK, BatchInv, CallbackInv, LifeInv, MayCall, At, clientVars, netVars
<1>1. CASE GnssInit
  BY <1>0, <1>1 DEF GnssInit, bufferVars
<1>1f. CASE GnssInitFails
  <2>1. /\ listener = "none" /\ listener' = "none"
        /\ inits' \in 0 .. MaxInits /\ isRunning' = FALSE
    BY <1>1f DEF GnssInitFails
  <2>2. UNCHANGED <<client, initialised, s, cb, calling, stored, netVars, msgIsOurs, alive,
                    bufferVars>>
    BY <1>1f DEF GnssInitFails
  <2>3. Buffer!TypeOK'
    BY <1>0, <2>2
  <2>4. TypeOK'
    BY <2>1, <2>2, <2>3
  <2>5. CallbackInv'
    BY <2>1, <2>2
  <2>6. BatchInv' /\ LifeInv'
    BY <2>1, <2>2
  <2> QED
    BY <2>4, <2>5, <2>6
<1>2. ASSUME NEW c \in Callbacks, Register(c) \/ Deregister(c)
      PROVE  IInv'
  BY <1>0, <1>2 DEF Register, Deregister, UnderMutexCb, bufferVars
<1>3. CASE VehicleSpeedDestroy
  BY <1>0, <1>3 DEF VehicleSpeedDestroy, UnderMutexCb, bufferVars
<1>4. CASE DestroyStops
  BY <1>0, <1>4, ZenonT(40) DEF DestroyStops, bufferVars
<1>5. CASE DestroyShutsDown
  BY <1>0, <1>5 DEF DestroyShutsDown, bufferVars
<1>6. CASE DestroyJoins
  BY <1>0, <1>6 DEF DestroyJoins, bufferVars
<1>7. CASE OpenSocket
  <2>1. msgIsOurs' \in BOOLEAN
    BY <1>7, Zenon DEF OpenSocket
  <2>2. inbox' \in Seq(Datagrams)
    BY <1>7 DEF OpenSocket
  <2> QED
    BY <1>0, <1>7, <2>1, <2>2 DEF OpenSocket, bufferVars
<1>8. CASE OpenFails \/ ReceiveFails
  BY <1>0, <1>8 DEF OpenFails, ReceiveFails, bufferVars
<1>9. CASE Loop
  BY <1>0, <1>9 DEF Loop, bufferVars
<1>10. CASE Select
  BY <1>0, <1>10 DEF Select, bufferVars
<1>11. CASE Receive
  BY <1>11, ReceiveStep
<1>12. CASE Store
  <2>1. stored' = Last(delivered) /\ stored' \in Messages
    BY <1>12, LastIsMessage DEF Store
  <2> QED
    BY <1>0, <1>12, <2>1 DEF Store, bufferVars, Last
<1>13. CASE Call
  BY <1>0, <1>13 DEF Call, bufferVars, Last
<1>14. CASE Return
  BY <1>0, <1>14 DEF Return, bufferVars
<1>15. CASE Close
  BY <1>0, <1>15 DEF Close, bufferVars
<1>16. ASSUME NEW ours \in BOOLEAN, NEW parses \in BOOLEAN,
              NEW c \in 0 .. MAX_BUF_MSG, Arrive(ours, parses, c)
       PROVE  IInv'
  BY <1>16, ArriveStep
<1>17. CASE UNCHANGED vars
  BY <1>0, <1>17 DEF vars, bufferVars, Last
<1> QED
  BY <1>1, <1>1f, <1>2, <1>3, <1>4, <1>5, <1>6, <1>7, <1>8, <1>9, <1>10, <1>11, <1>12,
     <1>13, <1>14, <1>15, <1>16, <1>17
     DEF Next, Destroying, Listening

\* It holds before the client made its first call.
THEOREM InvariantInit == Init => IInv
<1> SUFFICES ASSUME Init PROVE IInv
  OBVIOUS
<1>1. Buffer!TypeOK
  BY SensorServiceAssumption DEF Init, Buffer!Init, Buffer!TypeOK, Buffer!Slots
<1>2. TypeOK
  <2>1. stored \in Messages
    BY SensorServiceAssumption DEF Init, Zeroed, Messages
  <2>2. inbox \in Seq(Datagrams) /\ inits \in 0 .. MaxInits /\ sent \in 0 .. MaxDatagrams
    BY SensorServiceAssumption DEF Init
  <2> QED
    BY <1>1, <2>1, <2>2 DEF Init, TypeOK
<1> QED
  BY <1>2 DEF Init, IInv, BatchInv, CallbackInv, LifeInv

\* The invariant holds for every buffer, every client and every sender.
THEOREM InvariantHolds == Spec => []IInv
  BY InvariantInit, InvariantStep, PTL DEF Spec

\* The widths of the service and of its buffer.
THEOREM TypeCorrect == Spec => []TypeOK
<1>1. IInv => TypeOK
  BY DEF IInv
<1> QED
  BY InvariantHolds, <1>1, PTL

\* A callback that was deregistered is not running and will not run.
THEOREM DeregisteredIsNotCalled == Spec => []NoCallbackAfterDeregister
<1>1. IInv => NoCallbackAfterDeregister
  BY DEF IInv, CallbackInv, NoCallbackAfterDeregister
<1> QED
  BY InvariantHolds, <1>1, PTL

\* The value cannot change under a callback that reads it.
THEOREM CallbackReadsWhatItGets == Spec => []CallbackSeesLastStored
<1>1. IInv => CallbackSeesLastStored
  BY DEF IInv, BatchInv, CallbackInv, CallbackSeesLastStored
<1> QED
  BY InvariantHolds, <1>1, PTL

\* After gnssDestroy no thread and no socket are left.
THEOREM DestroyLeavesNothing == Spec => []DestroyedIsQuiet
<1>1. IInv => DestroyedIsQuiet
  BY DEF IInv, TypeOK, LifeInv, DestroyedIsQuiet
<1> QED
  BY InvariantHolds, <1>1, PTL

(***************************************************************************)
(* The service implements the batch buffer: each of its steps receives one *)
(* message or leaves the buffer alone, restarts and empty datagrams        *)
(* included.  What BatchBufferProofs shows of any stream of messages holds *)
(* of what this service hands over.                                        *)
(***************************************************************************)
LEMMA SameSpec == Buffer!Spec <=> BB!Spec
<1> USE DEF Buffer!bbVars, BB!bbVars, Buffer!bufferVars, BB!bufferVars
<1>1. Buffer!Init <=> BB!Init
  BY SameBuffer
<1>2. [Buffer!Next]_(Buffer!bbVars) <=> [BB!Next]_(BB!bbVars)
  BY SameBuffer, Zenon DEF Buffer!Next, BB!Next
<1> QED
  BY <1>1, <1>2, PTL DEF Buffer!Spec, BB!Spec

\* Every step of the service is a step of its buffer or leaves it alone.
THEOREM ImplementsBuffer == Spec => Buffer!Spec
<1>1. Init => Buffer!Init
  BY DEF Init
<1>2. ASSUME TypeOK, [Next]_vars
      PROVE  [Buffer!Next]_(Buffer!bbVars)
  <2> USE DEF bufferVars, Buffer!bbVars, Buffer!bufferVars
  <2>1. ASSUME NEW d \in Datagrams, Handle(d)
        PROVE  [Buffer!Next]_(Buffer!bbVars)
    <3>1. \A m \in Parsed(d) : m \in Messages
      BY SensorServiceAssumption DEF Parsed, Zeroed, Messages, Datagrams
    <3> QED
      BY <2>1, <3>1 DEF Handle, Process, Buffer!Next
  <2>2. CASE Receive
    <3>1. Empty \in Datagrams
      BY SensorServiceAssumption DEF Empty, Datagrams, Zeroed, Messages
    <3>2. inbox # << >> => Head(inbox) \in Datagrams
      BY <1>2 DEF TypeOK
    <3> QED
      BY <2>1, <2>2, <3>1, <3>2 DEF Receive
  <2>3. CASE UNCHANGED bufferVars
    BY <2>3
  <2> QED
    BY <1>2, <2>2, <2>3
       DEF Next, Destroying, Listening, vars, GnssInit, GnssInitFails, Register, Deregister,
           UnderMutexCb, VehicleSpeedDestroy, DestroyStops, DestroyShutsDown, DestroyJoins, OpenSocket,
           OpenFails, ReceiveFails, Loop, Select, Store, Call, Return, Close, Arrive
<1> QED
  BY <1>1, <1>2, TypeCorrect, PTL DEF Spec, Buffer!Spec

\* What a service hands over is a run of consecutive messages of its sentence,
\* of whatever life of the service and whatever was damaged in between.
THEOREM ServiceDeliversRuns == Spec => []Buffer!DeliveredIsConsecutive
<1>1. BB!Spec => []BB!DeliveredIsConsecutive
  BY BB!DeliveryIsConsecutive, BufferAssumption
<1>2. BB!DeliveredIsConsecutive => Buffer!DeliveredIsConsecutive
  BY DEF BB!DeliveredIsConsecutive, Buffer!DeliveredIsConsecutive,
         BB!CountsDown, Buffer!CountsDown
<1> QED
  BY <1>1, <1>2, ImplementsBuffer, SameSpec, PTL

\* A batch that arrives whole after the end of another is handed over whole,
\* also when the service was destroyed and initialised in between.
THEOREM ServiceDeliversWholeBatches == Spec => []Buffer!CompleteBatchDelivered
<1>1. BB!Spec => []BB!CompleteBatchDelivered
  BY BB!CompleteDelivery, BufferAssumption
<1>2. BB!CompleteBatchDelivered => Buffer!CompleteBatchDelivered
  BY DEF BB!CompleteBatchDelivered, Buffer!CompleteBatchDelivered,
         BB!CountsDown, Buffer!CountsDown, BB!Boundary, Buffer!Boundary
<1> QED
  BY <1>1, <1>2, ImplementsBuffer, SameSpec, PTL
=============================================================================
