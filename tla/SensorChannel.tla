---------------------------- MODULE SensorChannel ----------------------------
(***************************************************************************)
(* A sender of sensor batches (the loop of log-replayer-server), the UDP   *)
(* socket between the two processes and the buffer of the receiver.  The   *)
(* sender puts one datagram per message on the socket and never waits for  *)
(* an answer; a datagram may be lost (a full socket buffer) or duplicated. *)
(***************************************************************************)
EXTENDS Integers, Sequences, FiniteSets

CONSTANTS
  MAX_BUF_MSG,  \* slots of the receiver's buffer
  MaxBatches,   \* bound: number of batches the sender sends
  MaxFaults     \* bound: number of datagrams lost or duplicated

ASSUME SensorChannelAssumption ==
  MAX_BUF_MSG \in Nat \ {0} /\ MaxBatches \in Nat /\ MaxFaults \in Nat

VARIABLES
  sizes,    \* history: the size of each batch the sender started
  left,     \* messages of the last batch the sender has yet to send
  net,      \* datagrams in the socket, oldest first
  faults,   \* number of faults so far
  handed,   \* history: the batches handed over to the receiver's clients
  buf, buf_size, last_countdown, delivered, arrivals \* the receiver

bufferVars == <<buf, buf_size, last_countdown, delivered, arrivals>>
vars == <<sizes, left, net, faults, handed, bufferVars>>

Messages == [batch : 1 .. MaxBatches, countdown : 0 .. MAX_BUF_MSG - 1]
Blank    == [batch |-> 0, countdown |-> 0]

Buffer == INSTANCE BatchBuffer WITH
  MaxArrivals <- MaxBatches * MAX_BUF_MSG + MaxFaults

\* The next line of the log is the first message of a batch of n.
StartBatch(n) ==
  /\ left = 0
  /\ Len(sizes) < MaxBatches
  /\ sizes' = Append(sizes, n)
  /\ left' = n
  /\ UNCHANGED <<net, faults, handed, bufferVars>>

\* Mutant: the countdown starts at the size of the batch.
SendFromSize ==
  /\ left > 0
  /\ left' = left - 1
  /\ net' = Append(net, [batch |-> Len(sizes), countdown |-> left])
  /\ UNCHANGED <<sizes, faults, handed, bufferVars>>

Send ==
  /\ left > 0
  /\ left' = left - 1
  /\ net' = Append(net, [batch |-> Len(sizes), countdown |-> left - 1])
  /\ UNCHANGED <<sizes, faults, handed, bufferVars>>

Fault ==
  /\ net # << >>
  /\ faults < MaxFaults
  /\ faults' = faults + 1
  /\ UNCHANGED <<sizes, left, handed, bufferVars>>

Lose      == Fault /\ net' = Tail(net)
Duplicate == Fault /\ net' = <<Head(net)>> \o net

Receive ==
  /\ net # << >>
  /\ net' = Tail(net)
  /\ Buffer!Receive(Head(net))
  /\ handed' = IF delivered' = delivered THEN handed
               ELSE Append(handed,
                           [i \in 1 .. delivered'.size |-> delivered'.slots[i - 1]])
  /\ UNCHANGED <<sizes, left, faults>>

Init ==
  /\ sizes = << >> /\ left = 0
  /\ net = << >> /\ faults = 0
  /\ handed = << >>
  /\ Buffer!Init

Next ==
  \/ \E n \in 1 .. MAX_BUF_MSG : StartBatch(n)
  \/ Send
  \/ Lose
  \/ Duplicate
  \/ Receive

Spec == Init /\ [][Next]_vars

(***************************************************************************)
(* Properties.                                                             *)
(***************************************************************************)

\* The buffer's types hold for what this sender and this network produce.
TypeOK ==
  /\ Buffer!TypeOK
  /\ sizes \in Seq(1 .. MAX_BUF_MSG) /\ Len(sizes) <= MaxBatches
  /\ left \in 0 .. MAX_BUF_MSG
  /\ net \in Seq(Messages)
  /\ faults \in 0 .. MaxFaults
  /\ handed \in Seq(Seq(Messages))

\* Batch b as it was sent.
Sent(b) == [i \in 1 .. sizes[b] |-> [batch |-> b, countdown |-> sizes[b] - i]]

Whole(batch) == \E b \in 1 .. Len(sizes) : batch = Sent(b)

\* Batches that should have arrived whole and have not.
Spoiled ==
  {b \in 1 .. Len(sizes) : ~\E i \in 1 .. Len(handed) : handed[i] = Sent(b)}

\* The receiver recovers by itself: once everything is sent and received, a
\* fault has cost at most the batch it hit and the one after it.
FaultSpoilsAtMostTwo ==
  (left = 0 /\ net = << >>) => Cardinality(Spoiled) <= 2 * faults

\* Each fault leads to at most one batch handed over that was never sent: a
\* truncated one, or one put together from two batches.
FaultAltersAtMostOne ==
  Cardinality({i \in 1 .. Len(handed) : ~Whole(handed[i])}) <= faults
=============================================================================
