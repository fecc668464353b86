----------------------------- MODULE BatchBuffer -----------------------------
(***************************************************************************)
(* The buffering that every processGV... function of sns-use-replayer.c    *)
(* and gnss-use-replayer.c repeats.  Messages come in batches: each says   *)
(* how many messages of its batch follow (its countdown), the one that     *)
(* says 0 completes the batch, which is then handed over at once.          *)
(*                                                                         *)
(* The messages come over UDP, so nothing is assumed here about which      *)
(* message comes next.  A message that cannot be parsed changes nothing.   *)
(***************************************************************************)
EXTENDS Integers, Sequences

CONSTANTS
  MAX_BUF_MSG,  \* slots of the buffer, 16 in the code
  Messages,     \* records with a field countdown
  Blank,        \* what a slot holds before it is first used
  MaxArrivals   \* bound: number of messages a behaviour receives

ASSUME BatchBufferAssumption ==
  /\ MAX_BUF_MSG \in Nat \ {0}
  /\ MaxArrivals \in Nat
  /\ \A m \in Messages : m.countdown \in Nat

VARIABLES
  buf,            \* buf_whtk, buf_gyro, ...: the slots, never cleared
  buf_size,       \* size of the batch being received, 0 when there is none
  last_countdown, \* countdown of the last message of that batch
  delivered,      \* the last batch handed over, and after how many arrivals
  arrivals        \* history: every message so far

bufferVars == <<buf, buf_size, last_countdown>>
bbVars     == <<bufferVars, delivered, arrivals>>

Slots == 0 .. MAX_BUF_MSG - 1

\* Mutant: a batch of one message more than the buffer has slots is accepted.
FitsOneTooLong(m) ==
  /\ m.countdown <= MAX_BUF_MSG
  /\ buf_size = 0 \/ last_countdown - m.countdown = 1

\* Mutant: any smaller countdown continues the batch.
FitsAnySmaller(m) ==
  /\ m.countdown < MAX_BUF_MSG
  /\ buf_size = 0 \/ last_countdown > m.countdown

\* Mutant: a batch as large as the buffer is refused.
FitsSmallerBatch(m) ==
  /\ m.countdown < MAX_BUF_MSG - 1
  /\ buf_size = 0 \/ last_countdown - m.countdown = 1

\* The message starts a batch or continues the one being received.
Fits(m) ==
  /\ m.countdown < MAX_BUF_MSG
  /\ buf_size = 0 \/ last_countdown - m.countdown = 1

\* The buffer once a message that fits is stored.
SizeWith(m)  == IF buf_size = 0 THEN m.countdown + 1 ELSE buf_size
SlotsWith(m) == [buf EXCEPT ![SizeWith(m) - m.countdown - 1] = m]

Arrive(m) ==
  /\ Len(arrivals) < MaxArrivals
  /\ arrivals' = Append(arrivals, m)

Hold(m) ==
  /\ Fits(m)
  /\ m.countdown > 0
  /\ buf' = SlotsWith(m)
  /\ buf_size' = SizeWith(m)
  /\ last_countdown' = m.countdown
  /\ UNCHANGED delivered

\* Mutant: the buffer is not cleared after the batch was handed over.
DeliverKeepsSize(m) ==
  /\ Fits(m)
  /\ m.countdown = 0
  /\ buf' = SlotsWith(m)
  /\ delivered' = [size |-> SizeWith(m), slots |-> SlotsWith(m),
                   upto |-> Len(arrivals')]
  /\ buf_size' = SizeWith(m)
  /\ last_countdown' = 0

\* The last message of a batch: the batch is handed over.
Deliver(m) ==
  /\ Fits(m)
  /\ m.countdown = 0
  /\ buf' = SlotsWith(m)
  /\ delivered' = [size |-> SizeWith(m), slots |-> SlotsWith(m),
                   upto |-> Len(arrivals')]
  /\ buf_size' = 0
  /\ last_countdown' = 0

\* Mutant: the batch being received is kept.
ClearKeepsBatch(m) == ~Fits(m) /\ UNCHANGED <<bufferVars, delivered>>

\* The message is dropped, and the batch being received with it.
Clear(m) ==
  /\ ~Fits(m)
  /\ buf_size' = 0
  /\ last_countdown' = 0
  /\ UNCHANGED <<buf, delivered>>

Receive(m) == Arrive(m) /\ (Hold(m) \/ Deliver(m) \/ Clear(m))

Init ==
  /\ buf = [i \in Slots |-> Blank]
  /\ buf_size = 0
  /\ last_countdown = 0
  /\ delivered = [size |-> 0, slots |-> buf, upto |-> 0]
  /\ arrivals = << >>

Next == \E m \in Messages : Receive(m)

Spec == Init /\ [][Next]_bbVars

(***************************************************************************)
(* Properties.                                                             *)
(***************************************************************************)

\* Slot numbers stay inside the arrays of the code: a batch never outgrows
\* the buffer and its countdown stays below its size.
TypeOK ==
  /\ buf \in [Slots -> Messages \cup {Blank}]
  /\ buf_size \in 0 .. MAX_BUF_MSG
  /\ last_countdown \in Slots
  /\ delivered \in [size : 0 .. MAX_BUF_MSG, slots : [Slots -> Messages \cup {Blank}],
                    upto : Nat]
  /\ arrivals \in Seq(Messages)

\* The n messages up to arrival e count down from c.
CountsDown(e, n, c) ==
  /\ n <= e
  /\ \A i \in 1 .. n : arrivals[e - n + i].countdown = c + 1 - i

\* Nothing that was held before arrival e is left after it.
Boundary(e) == e = 0 \/ arrivals[e].countdown = 0

\* A batch handed over is made of messages that arrived one after the other,
\* in their order, counting down to 0, and never of what an earlier or an
\* interrupted batch left in the slots.
DeliveredIsConsecutive ==
  LET d == delivered
  IN  /\ d.upto <= Len(arrivals)
      /\ CountsDown(d.upto, d.size, d.size - 1)
      /\ \A i \in 1 .. d.size : d.slots[i - 1] = arrivals[d.upto - d.size + i]

\* A batch that arrives whole after the end of another is handed over whole,
\* whatever came before: no batch can spoil more than its successor.
CompleteBatchDelivered ==
  \A n \in 1 .. MAX_BUF_MSG :
    (/\ CountsDown(Len(arrivals), n, n - 1)
     /\ Boundary(Len(arrivals) - n))
    => delivered.upto = Len(arrivals) /\ delivered.size = n

(***************************************************************************)
(* The strengthening of both that every step preserves.                    *)
(***************************************************************************)

\* The slots hold the messages of the batch received so far.
HeldIsConsecutive ==
  buf_size > 0 =>
    /\ last_countdown \in 1 .. buf_size - 1
    /\ CountsDown(Len(arrivals), buf_size - last_countdown, buf_size - 1)
    /\ \A i \in 1 .. buf_size - last_countdown :
         buf[i - 1] = arrivals[Len(arrivals) - (buf_size - last_countdown) + i]

\* Whatever arrived, the buffer is empty after a countdown of 0.
EmptyAtBoundary == Boundary(Len(arrivals)) => buf_size = 0

\* The beginning of a batch that follows the end of another is held.
BeginningIsHeld ==
  \A n \in 1 .. MAX_BUF_MSG : \A k \in 1 .. n - 1 :
    (/\ CountsDown(Len(arrivals), k, n - 1)
     /\ Boundary(Len(arrivals) - k))
    => buf_size = n /\ last_countdown = n - k

IInv ==
  /\ TypeOK
  /\ DeliveredIsConsecutive
  /\ CompleteBatchDelivered
  /\ HeldIsConsecutive
  /\ EmptyAtBoundary
  /\ BeginningIsHeld
=============================================================================
