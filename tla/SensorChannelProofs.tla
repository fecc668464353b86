------------------------- MODULE SensorChannelProofs -------------------------
(***************************************************************************)
(* What a fault of the network costs, for every buffer size, every number  *)
(* of batches and every number of faults: a datagram that is lost or       *)
(* duplicated costs at most two batches, and at most one batch that was    *)
(* never sent is handed over for it.                                       *)
(*                                                                         *)
(* The arguments are accounts: what was lost already and what the receiver *)
(* or the network is still about to lose never exceed what the faults so   *)
(* far pay for.                                                            *)
(***************************************************************************)
EXTENDS SensorChannel, FiniteSetTheorems, SequenceTheorems, TLAPS

BB == INSTANCE BatchBufferProofs WITH
  MaxArrivals <- MaxBatches * MAX_BUF_MSG + MaxFaults

SenderTypes ==
  /\ sizes \in Seq(1 .. MAX_BUF_MSG) /\ Len(sizes) <= MaxBatches
  /\ left \in 0 .. MAX_BUF_MSG
  /\ left > 0 => sizes # << >> /\ left <= sizes[Len(sizes)]
  /\ net \in Seq(Messages)
  /\ faults \in 0 .. MaxFaults

HandedTypes == handed \in Seq(Seq(Messages))

\* The message that arrived last.
Prev == IF arrivals = << >> THEN Blank ELSE arrivals[Len(arrivals)]

\* The message the sender sends next; of a batch that is not started yet only
\* its number is known.
SenderAt ==
  IF left > 0 THEN [batch |-> Len(sizes), countdown |-> left - 1]
              ELSE [batch |-> Len(sizes) + 1, countdown |-> 0]

\* The messages yet to arrive, the last of them yet to be sent.
At(i)  == IF i <= Len(net) THEN net[i] ELSE SenderAt
HeadAt == At(1)

StartedIn(s, m) == m.batch \in 1 .. Len(s) /\ m.countdown \in 0 .. s[m.batch] - 1

AllStarted ==
  /\ \A i \in 1 .. Len(net) : StartedIn(sizes, net[i])
  /\ arrivals # << >> => StartedIn(sizes, Prev)

\* q is sent next after p.
FollowsIn(s, p, q) ==
  IF p.countdown > 0
  THEN q.batch = p.batch /\ q.countdown = p.countdown - 1
  ELSE q.batch = p.batch + 1 /\ (q.batch > Len(s) \/ q.countdown = s[q.batch] - 1)

\* On the network the first datagram may be there k times more than it was
\* sent; from the last of these on, all is as it was sent.
Chain(k) ==
  /\ k = 0 \/ k < Len(net)
  /\ \A i \in 1 .. k : At(i + 1) = At(1)
  /\ \A i \in k + 1 .. Len(net) : FollowsIn(sizes, At(i), At(i + 1))

\* What is held is the beginning of the batch of the last message.
Clean ==
  Prev.countdown > 0 =>
    /\ buf_size = sizes[Prev.batch]
    /\ last_countdown = Prev.countdown
    /\ \A i \in 1 .. sizes[Prev.batch] - Prev.countdown : buf[i - 1] = Sent(Prev.batch)[i]

Contiguous == FollowsIn(sizes, Prev, HeadAt)

Altered == {i \in 1 .. Len(handed) : ~Whole(handed[i])}
Dirty   == IF Clean THEN 0 ELSE 1
Gap     == IF Contiguous THEN 0 ELSE 1

\* Each fault pays for one batch that was altered, for one that is being
\* altered, for a gap before the next datagram or for a duplicate.
AlterBudget(k) == Cardinality(Altered) + Dirty + Gap + k <= faults

HandedOver(b) == \E i \in 1 .. Len(handed) : handed[i] = Sent(b)

\* The batches that cannot arrive any more.
Missed == {b \in 1 .. Len(sizes) : b < HeadAt.batch /\ ~HandedOver(b)}

\* The batch of the next datagram was handed over, or will be.
Settled  == HeadAt.batch \in 1 .. Len(sizes) /\ HandedOver(HeadAt.batch)
Ready(k) == Contiguous /\ Clean /\ (k = 0 \/ HeadAt.countdown = 0)
Doomed(k) == IF Settled \/ Ready(k) THEN 0 ELSE 1

\* Each fault pays for two batches, of which the second may be the next one.
SpoilBudget(k) == Cardinality(Missed) + Doomed(k) <= 2 * faults

Accounts == \E k \in 0 .. Len(net) : Chain(k) /\ AlterBudget(k) /\ SpoilBudget(k)

IInv == SenderTypes /\ HandedTypes /\ AllStarted /\ BB!IInv /\ Accounts
(***************************************************************************)
(* Types, and the buffer inside.                                           *)
(***************************************************************************)
\* The assumption of BatchBuffer about its constants.
LEMMA BufferAssumption == BB!BatchBufferAssumption
BY SensorChannelAssumption DEF BB!BatchBufferAssumption, Messages

\* The buffer of the receiver and the one the lemmas are about are the same.
LEMMA SameBuffer ==
  /\ \A m : Buffer!Receive(m) = BB!Receive(m)
  /\ Buffer!Init = BB!Init
  /\ Buffer!TypeOK = BB!TypeOK
  BY Zenon DEF Buffer!Receive, BB!Receive, Buffer!Arrive, BB!Arrive, Buffer!Hold, BB!Hold,
               Buffer!Deliver, BB!Deliver, Buffer!Clear, BB!Clear, Buffer!Fits, BB!Fits,
               Buffer!SizeWith, BB!SizeWith, Buffer!SlotsWith, BB!SlotsWith, Buffer!Slots,
               BB!Slots, Buffer!bufferVars, BB!bufferVars, Buffer!Init, BB!Init,
               Buffer!TypeOK, BB!TypeOK

\* Only a datagram that arrives touches the buffer.
LEMMA BufferStep ==
  ASSUME SenderTypes, [Next]_vars
  PROVE  [BB!Next]_(BB!bbVars)
<1> USE DEF bufferVars, BB!bbVars, BB!bufferVars
<1>1. CASE Receive
  <2>1. Head(net) \in Messages BY <1>1 DEF Receive, SenderTypes
  <2>2. BB!Receive(Head(net)) BY <1>1, SameBuffer DEF Receive
  <2> QED BY <2>1, <2>2, Zenon DEF BB!Next
<1>2. CASE UNCHANGED bufferVars
  BY <1>2
<1> QED
  BY <1>1, <1>2, Zenon DEF Next, StartBatch, Send, Lose, Duplicate, Fault, vars

\* The batches and their messages keep their types.
LEMMA SenderTypesKept ==
  ASSUME SenderTypes, [Next]_vars
  PROVE  SenderTypes'
<1> USE DEF SenderTypes
<1>0. MAX_BUF_MSG \in Nat \ {0} /\ MaxBatches \in Nat /\ MaxFaults \in Nat
  BY SensorChannelAssumption
<1>1. ASSUME NEW n \in 1 .. MAX_BUF_MSG, StartBatch(n) PROVE SenderTypes'
  BY <1>0, <1>1 DEF StartBatch
<1>2. CASE Send
  <2>1. Len(sizes) \in 1 .. MaxBatches /\ left - 1 \in 0 .. MAX_BUF_MSG - 1
    <3>1. left > 0 /\ sizes # << >> BY <1>2 DEF Send
    <3>2. Len(sizes) \in Nat \ {0} BY <3>1
    <3> QED BY <1>0, <3>1, <3>2
  <2> DEFINE m == [batch |-> Len(sizes), countdown |-> left - 1]
  <2>2. m \in Messages BY <2>1 DEF Messages
  <2>3. UNCHANGED <<sizes, faults>> /\ left' = left - 1 /\ net' = Append(net, m)
    BY <1>2 DEF Send
  <2> HIDE DEF m
  <2>4. net' \in Seq(Messages) BY <2>2, <2>3
  <2>5. left \in 1 .. MAX_BUF_MSG /\ sizes # << >> /\ left <= sizes[Len(sizes)]
    BY <1>2 DEF Send
  <2>6. sizes[Len(sizes)] \in Nat BY <1>0, <2>1
  <2>7. left' \in 0 .. MAX_BUF_MSG /\ left' <= sizes[Len(sizes)]
    BY <1>0, <2>3, <2>5, <2>6
  <2> QED BY <2>3, <2>4, <2>5, <2>7, Zenon
<1>3. CASE Lose \/ Duplicate
  <2>1. /\ UNCHANGED <<sizes, left>> /\ net # << >> /\ faults' \in 0 .. MaxFaults
        /\ net' = Tail(net) \/ net' = <<Head(net)>> \o net
    BY <1>0, <1>3 DEF Lose, Duplicate, Fault
  <2>2. net' \in Seq(Messages)
    <3> DEFINE h == Head(net)
    <3>1. h \in Messages /\ Tail(net) \in Seq(Messages) BY <2>1
    <3> HIDE DEF h
    <3>2. <<h>> \o net \in Seq(Messages) BY <3>1
    <3> QED BY <2>1, <3>1, <3>2, Zenon DEF h
  <2> QED BY <2>1, <2>2
<1>4. CASE Receive
  BY <1>4 DEF Receive
<1>5. CASE UNCHANGED vars
  BY <1>5 DEF vars
<1> QED BY <1>1, <1>2, <1>3, <1>4, <1>5 DEF Next

\* The buffer keeps all that BatchBufferProofs proves of it.
LEMMA BufferKept ==
  ASSUME SenderTypes, BB!IInv, [Next]_vars
  PROVE  BB!IInv'
BY BufferStep, BufferAssumption, BB!InvariantStep

(***************************************************************************)
(* The network.                                                            *)
(***************************************************************************)
\* Datagrams by their places.
LEMMA Places ==
  ASSUME SenderTypes
  PROVE  /\ Len(net) \in Nat /\ Len(sizes) \in Nat /\ left \in Nat /\ faults \in Nat
         /\ \A i \in 1 .. Len(net) : net[i] \in Messages
         /\ \A b \in 1 .. Len(sizes) : sizes[b] \in 1 .. MAX_BUF_MSG
         /\ net # << >> => Head(net) = net[1] /\ 1 \in 1 .. Len(net) /\ HeadAt = net[1]
         /\ net = << >> => Len(net) = 0 /\ HeadAt = SenderAt
BY SensorChannelAssumption DEF SenderTypes, HeadAt, At

\* The first datagram leaves the network.
LEMMA TailPlaces ==
  ASSUME SenderTypes, net # << >>, net' = Tail(net), UNCHANGED <<sizes, left>>
  PROVE  /\ Len(net') = Len(net) - 1
         /\ \A i \in 1 .. Len(net) : At(i)' = At(i + 1)
<1>1. Len(net) \in Nat \ {0} /\ Len(net') = Len(net) - 1
      /\ \A i \in 1 .. Len(net) - 1 : net'[i] = net[i + 1]
  BY DEF SenderTypes
<1>2. SenderAt' = SenderAt BY Zenon DEF SenderAt
<1> QED BY <1>1, <1>2 DEF At

\* A datagram is there once more.
LEMMA DuplicatePlaces ==
  ASSUME SenderTypes, net # << >>, net' = <<Head(net)>> \o net, UNCHANGED <<sizes, left>>
  PROVE  /\ Len(net') = Len(net) + 1
         /\ At(1)' = At(1)
         /\ \A i \in 1 .. Len(net) + 1 : At(i + 1)' = At(i)
<1>1. Len(net) \in Nat \ {0} /\ Head(net) = net[1] /\ net[1] \in Messages
  BY DEF SenderTypes
<1>2. Len(net') = Len(net) + 1 /\ net'[1] = net[1]
      /\ \A i \in 1 .. Len(net) : net'[i + 1] = net[i]
  BY <1>1 DEF SenderTypes
<1>3. SenderAt' = SenderAt BY Zenon DEF SenderAt
<1> QED BY <1>1, <1>2, <1>3 DEF At

\* A message is sent.
LEMMA SendPlaces ==
  ASSUME SenderTypes, Send
  PROVE  /\ Len(net') = Len(net) + 1
         /\ \A i \in 1 .. Len(net) + 1 : At(i)' = At(i)
<1> DEFINE m == [batch |-> Len(sizes), countdown |-> left - 1]
<1>1. /\ net' = Append(net, m) /\ SenderAt = m
  BY DEF Send, SenderAt
<1>2. net \in Seq(Messages) /\ m \in Messages
  BY SensorChannelAssumption DEF SenderTypes, Send, Messages
<1> HIDE DEF m
<1>3. /\ Len(net) \in Nat /\ Len(net') = Len(net) + 1
      /\ \A i \in 1 .. Len(net) : net'[i] = net[i]
      /\ net'[Len(net) + 1] = m
  BY <1>1, <1>2
<1> QED BY <1>1, <1>3 DEF At

\* What the network carries, when the first datagram leaves it.
LEMMA ChainTail ==
  ASSUME SenderTypes, net # << >>, net' = Tail(net), UNCHANGED <<sizes, left>>,
         NEW k \in 0 .. Len(net), Chain(k)
  PROVE  \E j \in 0 .. Len(net') :
           /\ Chain(j)'
           /\ \/ k > 0 /\ j = k - 1 /\ HeadAt' = HeadAt
              \/ k = 0 /\ j = 0 /\ FollowsIn(sizes, HeadAt, HeadAt')
<1>1. /\ Len(net) \in Nat \ {0} /\ Len(net') = Len(net) - 1
      /\ \A i \in 1 .. Len(net) : At(i)' = At(i + 1)
      /\ sizes' = sizes
  BY TailPlaces, Places DEF SenderTypes
<1>2. /\ k = 0 \/ k < Len(net)
      /\ \A i \in 1 .. k : At(i + 1) = At(1)
      /\ \A i \in k + 1 .. Len(net) : FollowsIn(sizes, At(i), At(i + 1))
  BY Zenon DEF Chain
<1>3. CASE k > 0
  <2>1. k - 1 \in 0 .. Len(net') /\ (k - 1 = 0 \/ k - 1 < Len(net'))
    BY <1>1, <1>2, <1>3
  <2>2. At(1)' = At(1)
    BY <1>1, <1>2, <1>3
  <2>3. ASSUME NEW i \in 1 .. k - 1 PROVE At(i + 1)' = At(1)'
    <3>1. i + 1 \in 1 .. Len(net) /\ i + 1 \in 1 .. k
      BY <1>1, <1>2, <1>3
    <3> QED BY <1>1, <1>2, <2>2, <3>1, Zenon
  <2>4. ASSUME NEW i \in k .. Len(net) - 1 PROVE FollowsIn(sizes, At(i)', At(i + 1)')
    <3>1. i \in 1 .. Len(net) /\ i + 1 \in 1 .. Len(net) /\ i + 1 \in k + 1 .. Len(net)
      BY <1>1, <1>3
    <3> QED BY <1>1, <1>2, <3>1, Zenon
  <2>5. \A i \in k - 1 + 1 .. Len(net') : FollowsIn(sizes', At(i)', At(i + 1)')
    <3>1. k - 1 + 1 = k BY <1>1
    <3> QED BY <1>1, <2>4, <3>1
  <2>6. Chain(k - 1)'
    BY <2>1, <2>3, <2>5, Zenon DEF Chain, FollowsIn
  <2> QED BY <1>3, <2>1, <2>2, <2>6, Zenon DEF HeadAt
<1>4. CASE k = 0
  <2>1. 0 \in 0 .. Len(net') /\ 1 \in 1 .. Len(net) /\ 1 \in k + 1 .. Len(net) BY <1>1, <1>4
  <2>2. FollowsIn(sizes, At(1), At(1)')
    BY <1>1, <1>2, <2>1, Zenon
  <2>3. ASSUME NEW i \in 1 .. Len(net) - 1 PROVE FollowsIn(sizes, At(i)', At(i + 1)')
    <3>1. i \in 1 .. Len(net) /\ i + 1 \in 1 .. Len(net) /\ i + 1 \in k + 1 .. Len(net)
      BY <1>1, <1>4
    <3> QED BY <1>1, <1>2, <3>1, Zenon
  <2>4. /\ \A i \in 1 .. 0 : At(i + 1)' = At(1)'
        /\ \A i \in 0 + 1 .. Len(net') : FollowsIn(sizes', At(i)', At(i + 1)')
    BY <1>1, <2>3
  <2>5. Chain(0)'
    BY <2>4, Zenon DEF Chain, FollowsIn
  <2> QED BY <1>4, <2>1, <2>2, <2>5, Zenon DEF HeadAt
<1> QED BY <1>1, <1>3, <1>4

\* A duplicate goes before what it was made from.
LEMMA ChainDuplicate ==
  ASSUME SenderTypes, net # << >>, net' = <<Head(net)>> \o net, UNCHANGED <<sizes, left>>,
         NEW k \in 0 .. Len(net), Chain(k)
  PROVE  k + 1 \in 0 .. Len(net') /\ Chain(k + 1)' /\ HeadAt' = HeadAt
<1>1. /\ Len(net) \in Nat \ {0} /\ Len(net') = Len(net) + 1
      /\ At(1)' = At(1)
      /\ \A i \in 1 .. Len(net) + 1 : At(i + 1)' = At(i)
      /\ sizes' = sizes
  BY DuplicatePlaces, Places DEF SenderTypes
<1>2. /\ k = 0 \/ k < Len(net)
      /\ \A i \in 1 .. k : At(i + 1) = At(1)
      /\ \A i \in k + 1 .. Len(net) : FollowsIn(sizes, At(i), At(i + 1))
  BY Zenon DEF Chain
<1>3. k + 1 \in 0 .. Len(net') /\ k + 1 < Len(net') BY <1>1, <1>2
<1>4. ASSUME NEW i \in 1 .. k + 1 PROVE At(i + 1)' = At(1)'
  <2>1. i \in 1 .. Len(net) + 1 BY <1>1, <1>3
  <2>2. At(i + 1)' = At(i) BY <1>1, <2>1, Zenon
  <2>3. i = 1 \/ (i - 1 \in 1 .. k /\ i = (i - 1) + 1) BY <1>1
  <2> QED BY <1>1, <1>2, <2>2, <2>3
<1>5. ASSUME NEW i \in k + 1 + 1 .. Len(net') PROVE FollowsIn(sizes', At(i)', At(i + 1)')
  <2>1. /\ i - 1 \in k + 1 .. Len(net) /\ i - 1 \in 1 .. Len(net) + 1
        /\ i \in 1 .. Len(net) + 1 /\ i = (i - 1) + 1
    BY <1>1
  <2>2. At(i)' = At(i - 1) BY <1>1, <2>1
  <2>3. At(i + 1)' = At(i) BY <1>1, <2>1
  <2>4. FollowsIn(sizes, At(i - 1), At((i - 1) + 1)) BY <1>2, <2>1, Zenon
  <2> QED BY <1>1, <2>1, <2>2, <2>3, <2>4
<1>6. Chain(k + 1)'
  BY <1>3, <1>4, <1>5, Zenon DEF Chain, FollowsIn
<1> QED BY <1>1, <1>3, <1>6, Zenon DEF HeadAt

\* What is sent follows what was sent before.
LEMMA ChainSend ==
  ASSUME SenderTypes, Send, NEW k \in 0 .. Len(net), Chain(k)
  PROVE  k \in 0 .. Len(net') /\ Chain(k)' /\ HeadAt' = HeadAt
<1>1. /\ Len(net) \in Nat /\ Len(net') = Len(net) + 1
      /\ \A i \in 1 .. Len(net) + 1 : At(i)' = At(i)
      /\ sizes' = sizes
  BY SendPlaces, Places DEF Send
<1>2. /\ k = 0 \/ k < Len(net)
      /\ \A i \in 1 .. k : At(i + 1) = At(1)
      /\ \A i \in k + 1 .. Len(net) : FollowsIn(sizes, At(i), At(i + 1))
  BY Zenon DEF Chain
<1>3. /\ k \in 0 .. Len(net') /\ (k = 0 \/ k < Len(net')) /\ 1 \in 1 .. Len(net) + 1
  BY <1>1, <1>2
<1>4. At(1)' = At(1) BY <1>1, <1>3, Zenon
<1>5. ASSUME NEW i \in 1 .. k PROVE At(i + 1)' = At(1)'
  <2>1. i + 1 \in 1 .. Len(net) + 1 BY <1>1, <1>2
  <2> QED BY <1>1, <1>2, <1>4, <2>1, Zenon
<1>6. FollowsIn(sizes, SenderAt, SenderAt')
  <2>1. Len(sizes) \in Nat /\ left \in Nat /\ left > 0 /\ left' = left - 1
    BY Places DEF Send
  <2>2. SenderAt = [batch |-> Len(sizes), countdown |-> left - 1]
    BY <2>1, Zenon DEF SenderAt
  <2>3. CASE left = 1
    <3>1. SenderAt' = [batch |-> Len(sizes) + 1, countdown |-> 0]
      BY <1>1, <2>1, <2>3 DEF SenderAt
    <3> QED BY <2>1, <2>2, <2>3, <3>1 DEF FollowsIn
  <2>4. CASE left > 1
    <3>1. SenderAt' = [batch |-> Len(sizes), countdown |-> left - 1 - 1]
      BY <1>1, <2>1, <2>4 DEF SenderAt
    <3> QED BY <2>1, <2>2, <2>4, <3>1 DEF FollowsIn
  <2> QED BY <2>1, <2>3, <2>4
<1>7. ASSUME NEW i \in k + 1 .. Len(net') PROVE FollowsIn(sizes', At(i)', At(i + 1)')
  <2>1. CASE i \in k + 1 .. Len(net)
    <3>1. i \in 1 .. Len(net) + 1 /\ i + 1 \in 1 .. Len(net) + 1 BY <1>1, <2>1
    <3> QED BY <1>1, <1>2, <2>1, <3>1, Zenon
  <2>2. CASE i = Len(net) + 1
    <3>1. i \in 1 .. Len(net) + 1 /\ i + 1 = Len(net) + 2 BY <1>1, <2>2
    <3>2. At(i)' = SenderAt
      <4>1. At(i) = SenderAt BY <1>1, <2>2 DEF At
      <4> QED BY <1>1, <3>1, <4>1, Zenon
    <3>3. At(i + 1)' = SenderAt' BY <1>1, <2>2 DEF At
    <3> QED BY <1>1, <1>6, <3>2, <3>3, Zenon
  <2> QED BY <1>1, <2>1, <2>2
<1>8. Chain(k)'
  BY <1>3, <1>5, <1>7, Zenon DEF Chain, FollowsIn
<1> QED BY <1>3, <1>4, <1>8, Zenon DEF HeadAt

\* A new batch changes nothing for the messages of the others.
LEMMA StartPlaces ==
  ASSUME SenderTypes, NEW n \in 1 .. MAX_BUF_MSG, StartBatch(n)
  PROVE  /\ Len(sizes') = Len(sizes) + 1
         /\ \A b \in 1 .. Len(sizes) : sizes'[b] = sizes[b]
         /\ SenderAt = [batch |-> Len(sizes) + 1, countdown |-> 0]
         /\ SenderAt' = [batch |-> Len(sizes) + 1, countdown |-> n - 1]
         /\ \A i \in 1 .. Len(net) : At(i)' = At(i)
         /\ \A p, q : q.batch \in 1 .. Len(sizes) =>
              (FollowsIn(sizes, p, q) <=> FollowsIn(sizes', p, q))
         /\ \A p : p.batch \in 0 .. Len(sizes) /\ FollowsIn(sizes, p, SenderAt) =>
              FollowsIn(sizes', p, SenderAt')
<1>1. /\ sizes' = Append(sizes, n) /\ left = 0 /\ left' = n /\ net' = net
      /\ sizes \in Seq(1 .. MAX_BUF_MSG) /\ MAX_BUF_MSG \in Nat
  BY SensorChannelAssumption DEF StartBatch, SenderTypes
<1>2. /\ Len(sizes) \in Nat /\ Len(sizes') = Len(sizes) + 1
      /\ \A b \in 1 .. Len(sizes) : sizes'[b] = sizes[b]
      /\ sizes'[Len(sizes) + 1] = n
  BY <1>1
<1>3. SenderAt = [batch |-> Len(sizes) + 1, countdown |-> 0]
  BY <1>1 DEF SenderAt
<1>4. SenderAt' = [batch |-> Len(sizes) + 1, countdown |-> n - 1]
  BY <1>1, <1>2 DEF SenderAt
<1>5. \A i \in 1 .. Len(net) : At(i)' = At(i)
  BY <1>1 DEF At, SenderTypes
<1>6. ASSUME NEW p, NEW q, q.batch \in 1 .. Len(sizes)
      PROVE  FollowsIn(sizes, p, q) <=> FollowsIn(sizes', p, q)
  <2>1. /\ sizes'[q.batch] = sizes[q.batch]
        /\ ~(q.batch > Len(sizes)) /\ ~(q.batch > Len(sizes'))
    BY <1>2, <1>6
  <2> QED BY <2>1, Zenon DEF FollowsIn
<1>7. ASSUME NEW p, p.batch \in 0 .. Len(sizes), FollowsIn(sizes, p, SenderAt)
      PROVE  FollowsIn(sizes', p, SenderAt')
  <2>1. ~(p.countdown > 0) /\ p.batch + 1 = Len(sizes) + 1
    BY <1>2, <1>3, <1>7 DEF FollowsIn
  <2> QED BY <1>2, <1>4, <2>1 DEF FollowsIn
<1> QED BY <1>2, <1>3, <1>4, <1>5, <1>6, <1>7, Zenon

\* The message that arrived last belongs to a batch that was started.
LEMMA PrevPlace ==
  ASSUME SenderTypes, AllStarted
  PROVE  /\ Prev.batch \in 0 .. Len(sizes) /\ Prev.countdown \in Nat
         /\ Prev.countdown > 0 => StartedIn(sizes, Prev)
<1>1. Len(sizes) \in Nat /\ \A b \in 1 .. Len(sizes) : sizes[b] \in 1 .. MAX_BUF_MSG
  BY Places
<1>2. CASE arrivals = << >>
  <2>1. Prev = [batch |-> 0, countdown |-> 0] BY <1>2, Zenon DEF Prev, Blank
  <2> QED BY <1>1, <2>1
<1>3. CASE arrivals # << >>
  <2>1. StartedIn(sizes, Prev) BY <1>3, Zenon DEF AllStarted
  <2> QED BY <1>1, <2>1, SensorChannelAssumption DEF StartedIn
<1> QED BY <1>2, <1>3

\* Every place on the network is of a batch that was started, or of the next.
LEMMA PlaceBatch ==
  ASSUME SenderTypes, AllStarted
  PROVE  /\ HeadAt.batch \in 1 .. Len(sizes) + 1
         /\ net # << >> => StartedIn(sizes, HeadAt)
         /\ net = << >> /\ left = 0 => HeadAt.batch = Len(sizes) + 1
<1>1. CASE net # << >>
  <2>1. StartedIn(sizes, HeadAt) /\ Len(sizes) \in Nat
    BY <1>1, Places, Zenon DEF AllStarted
  <2> QED BY <1>1, <2>1 DEF StartedIn
<1>2. CASE net = << >>
  <2>1. HeadAt = SenderAt /\ Len(sizes) \in Nat /\ left \in Nat BY <1>2, Places, Zenon
  <2>2. left > 0 => Len(sizes) # 0 BY DEF SenderTypes
  <2> QED BY <1>2, <2>1, <2>2 DEF SenderAt
<1> QED BY <1>1, <1>2

\* A new batch leaves what the network carries in order.
LEMMA ChainStart ==
  ASSUME SenderTypes, AllStarted, NEW n \in 1 .. MAX_BUF_MSG, StartBatch(n),
         NEW k \in 0 .. Len(net), Chain(k)
  PROVE  /\ Chain(k)' /\ HeadAt'.batch = HeadAt.batch
         /\ net # << >> => HeadAt' = HeadAt
         /\ Contiguous => Contiguous'
<1>1. /\ Len(net) \in Nat /\ Len(sizes) \in Nat /\ net' = net /\ left = 0
      /\ arrivals' = arrivals /\ Prev' = Prev
  BY Places, Zenon DEF StartBatch, bufferVars, Prev
<1>2. \A i \in 1 .. Len(net) : At(i).batch \in 1 .. Len(sizes) /\ At(i) = net[i]
  BY <1>1 DEF AllStarted, StartedIn, At
<1>3. \A i : i = Len(net) + 1 => At(i) = SenderAt /\ At(i)' = SenderAt'
  BY <1>1 DEF At
<1>4. /\ k = 0 \/ k < Len(net)
      /\ \A i \in 1 .. k : At(i + 1) = At(1)
      /\ \A i \in k + 1 .. Len(net) : FollowsIn(sizes, At(i), At(i + 1))
  BY Zenon DEF Chain
<1>5. ASSUME NEW i \in 1 .. k PROVE At(i + 1)' = At(1)'
  <2>1. i + 1 \in 1 .. Len(net) /\ 1 \in 1 .. Len(net) BY <1>1, <1>4
  <2> QED BY <1>4, <2>1, StartPlaces, Zenon
<1>6. ASSUME NEW i \in k + 1 .. Len(net) PROVE FollowsIn(sizes', At(i)', At(i + 1)')
  <2>1. i \in 1 .. Len(net) BY <1>1
  <2>2. At(i)' = At(i) BY <2>1, StartPlaces, Zenon
  <2>3. CASE i + 1 \in 1 .. Len(net)
    BY <1>2, <1>4, <2>2, <2>3, StartPlaces, Zenon
  <2>4. CASE i = Len(net)
    <3>1. At(i + 1) = SenderAt /\ At(i + 1)' = SenderAt' BY <1>3, <2>4, Zenon
    <3>2. At(i).batch \in 0 .. Len(sizes) BY <1>1, <1>2, <2>1
    <3> QED BY <1>4, <2>2, <3>1, <3>2, StartPlaces, Zenon
  <2>5. i + 1 \in 1 .. Len(net) \/ i = Len(net) BY <1>1
  <2> QED BY <2>3, <2>4, <2>5
<1>7. Chain(k)'
  BY <1>1, <1>4, <1>5, <1>6, Zenon DEF Chain, FollowsIn
<1>8. CASE net # << >>
  <2>1. 1 \in 1 .. Len(net) BY <1>8, Places
  <2>2. HeadAt' = HeadAt BY <2>1, StartPlaces, Zenon DEF HeadAt
  <2>3. HeadAt.batch \in 1 .. Len(sizes) BY <1>2, <2>1, Zenon DEF HeadAt
  <2>4. Contiguous => FollowsIn(sizes', Prev', HeadAt')
    BY <1>1, <2>2, <2>3, StartPlaces, Zenon DEF Contiguous
  <2> QED BY <1>7, <2>2, <2>4, Zenon DEF Contiguous, FollowsIn
<1>9. CASE net = << >>
  <2>1. 1 = Len(net) + 1 BY <1>9, Places
  <2>2. HeadAt = SenderAt /\ HeadAt' = SenderAt' BY <1>3, <2>1, Zenon DEF HeadAt
  <2>3. SenderAt'.batch = SenderAt.batch BY StartPlaces
  <2>4. Contiguous => FollowsIn(sizes', Prev', HeadAt')
    BY <1>1, <2>2, PrevPlace, StartPlaces, Zenon DEF Contiguous
  <2> QED BY <1>7, <1>9, <2>2, <2>3, <2>4, Zenon DEF Contiguous, FollowsIn
<1> QED BY <1>8, <1>9

\* The message that arrives becomes the last one.
LEMMA ReceivedPlace ==
  ASSUME SenderTypes, BB!IInv, Receive
  PROVE  /\ net # << >> /\ net[1] \in Messages /\ Head(net) = net[1] /\ HeadAt = net[1]
         /\ arrivals' # << >> /\ Prev' = net[1]
         /\ Len(arrivals) \in Nat /\ Len(arrivals') = Len(arrivals) + 1
         /\ UNCHANGED <<sizes, left, faults>> /\ net' = Tail(net)
<1>1. /\ net # << >> /\ UNCHANGED <<sizes, left, faults>> /\ net' = Tail(net)
      /\ BB!Receive(Head(net))
  BY SameBuffer, Zenon DEF Receive
<1>2. Head(net) = net[1] /\ HeadAt = net[1] /\ net[1] \in Messages
  BY <1>1, Places, Zenon
<1>3. arrivals \in Seq(Messages) BY DEF BB!IInv, BB!TypeOK
<1>4. arrivals' = Append(arrivals, net[1]) BY <1>1, <1>2, Zenon DEF BB!Receive, BB!Arrive
<1>5. /\ arrivals' # << >> /\ arrivals'[Len(arrivals')] = net[1]
      /\ Len(arrivals) \in Nat /\ Len(arrivals') = Len(arrivals) + 1
  BY <1>2, <1>3, <1>4
<1> QED BY <1>1, <1>2, <1>5, Zenon DEF Prev

\* Only messages of batches that were started are on the network or arrive.
LEMMA AllStartedKept ==
  ASSUME SenderTypes, AllStarted, BB!IInv, [Next]_vars
  PROVE  AllStarted'
<1> DEFINE Goal == /\ \A i \in 1 .. Len(net') : StartedIn(sizes', net'[i])
                   /\ arrivals' # << >> => StartedIn(sizes', Prev')
<1> SUFFICES Goal BY Zenon DEF AllStarted, StartedIn
<1>1. /\ \A i \in 1 .. Len(net) : StartedIn(sizes, net[i])
      /\ arrivals # << >> => StartedIn(sizes, Prev)
  BY Zenon DEF AllStarted
<1>2. net \in Seq(Messages) /\ Len(net) \in Nat BY Places DEF SenderTypes
<1>3. ASSUME UNCHANGED arrivals PROVE Prev' = Prev BY <1>3, Zenon DEF Prev
<1>4. ASSUME NEW n \in 1 .. MAX_BUF_MSG, StartBatch(n) PROVE Goal
  <2>1. net' = net /\ arrivals' = arrivals BY <1>4, Zenon DEF StartBatch, bufferVars
  <2>2. ASSUME NEW m, StartedIn(sizes, m) PROVE StartedIn(sizes', m)
    BY <1>4, <2>2, StartPlaces, Places DEF StartedIn
  <2> QED BY <1>1, <1>3, <2>1, <2>2, Zenon
<1>5. CASE Send
  <2>1. arrivals' = arrivals /\ sizes' = sizes /\ left > 0
    BY <1>5, Zenon DEF Send, bufferVars
  <2> DEFINE m == [batch |-> Len(sizes), countdown |-> left - 1]
  <2>2. net' = Append(net, m) BY <1>5, Zenon DEF Send
  <2>3. StartedIn(sizes, m)
    <3>1. left <= sizes[Len(sizes)] /\ sizes # << >> /\ left \in Nat
      BY <2>1, Places DEF SenderTypes
    <3>2. Len(sizes) \in 1 .. Len(sizes) BY <3>1 DEF SenderTypes
    <3>3. sizes[Len(sizes)] \in Nat BY <3>2, Places, SensorChannelAssumption
    <3> QED BY <2>1, <3>1, <3>2, <3>3 DEF StartedIn
  <2>4. m \in Messages
    <3>1. Len(sizes) \in 1 .. MaxBatches /\ left - 1 \in 0 .. MAX_BUF_MSG - 1
      BY <2>1, <2>3, Places, SensorChannelAssumption DEF SenderTypes, StartedIn
    <3> QED BY <3>1 DEF Messages
  <2> HIDE DEF m
  <2>5. ASSUME NEW i \in 1 .. Len(net') PROVE net'[i] = m \/ \E j \in 1 .. Len(net) : net'[i] = net[j]
    BY <1>2, <2>2, <2>4
  <2> QED BY <1>1, <1>3, <2>1, <2>3, <2>5, Zenon
<1>6. CASE Lose
  <2>1. arrivals' = arrivals /\ sizes' = sizes /\ net # << >> /\ net' = Tail(net)
    BY <1>6, Zenon DEF Lose, Fault, bufferVars
  <2>2. \A i \in 1 .. Len(net') : i + 1 \in 1 .. Len(net) /\ net'[i] = net[i + 1]
    BY <1>2, <2>1
  <2> QED BY <1>1, <1>3, <2>1, <2>2, Zenon
<1>7. CASE Duplicate
  <2>1. arrivals' = arrivals /\ sizes' = sizes /\ net # << >> /\ net' = <<Head(net)>> \o net
    BY <1>7, Zenon DEF Duplicate, Fault, bufferVars
  <2>2. \A i \in 1 .. Len(net') : \E j \in 1 .. Len(net) : net'[i] = net[j]
    <3>1. Head(net) = net[1] /\ net[1] \in Messages /\ 1 \in 1 .. Len(net) BY <2>1, Places, Zenon
    <3>2. net' = <<net[1]>> \o net BY <2>1, <3>1
    <3>3. \A i \in 1 .. Len(net') : (i = 1 /\ net'[i] = net[1])
                                  \/ (i - 1 \in 1 .. Len(net) /\ net'[i] = net[i - 1])
      BY <1>2, <3>1, <3>2
    <3> QED BY <3>1, <3>3, Zenon
  <2> QED BY <1>1, <1>3, <2>1, <2>2, Zenon
<1>8. CASE Receive
  <2>1. net # << >> /\ net' = Tail(net) /\ Prev' = net[1] /\ sizes' = sizes
    BY <1>8, ReceivedPlace, Zenon
  <2>2. \A i \in 1 .. Len(net') : i + 1 \in 1 .. Len(net) /\ net'[i] = net[i + 1]
    BY <1>2, <2>1
  <2>3. 1 \in 1 .. Len(net) BY <2>1, Places, Zenon
  <2> QED BY <1>1, <2>1, <2>2, <2>3, Zenon
<1>9. CASE UNCHANGED vars
  <2>1. UNCHANGED <<arrivals, sizes, net>> BY <1>9, Zenon DEF vars, bufferVars
  <2> QED BY <1>1, <1>3, <2>1, Zenon
<1> QED BY <1>4, <1>5, <1>6, <1>7, <1>8, <1>9, Zenon DEF Next

(***************************************************************************)
(* What is handed over.                                                    *)
(***************************************************************************)
\* The buffer is empty once a batch ended.
LEMMA EmptyAtEnd ==
  ASSUME BB!IInv, Prev.countdown = 0
  PROVE  buf_size = 0
<1>1. arrivals \in Seq(Messages) /\ BB!EmptyAtBoundary BY DEF BB!IInv, BB!TypeOK
<1>2. CASE arrivals = << >>
  BY <1>1, <1>2 DEF BB!EmptyAtBoundary, BB!Boundary
<1>3. CASE arrivals # << >>
  <2>1. Prev = arrivals[Len(arrivals)] BY <1>3, Zenon DEF Prev
  <2> QED BY <1>1, <2>1, Zenon DEF BB!EmptyAtBoundary, BB!Boundary
<1> QED BY <1>2, <1>3

\* A batch handed over consists of messages.
LEMMA DeliveredSeq ==
  ASSUME NEW arrived \in Seq(Messages), NEW upto \in 0 .. Len(arrived),
         NEW size \in 0 .. upto, NEW slots,
         \A i \in 1 .. size : slots[i - 1] = arrived[upto - size + i]
  PROVE  [i \in 1 .. size |-> slots[i - 1]] \in Seq(Messages)
<1>1. Len(arrived) \in Nat /\ size \in Nat OBVIOUS
<1>2. \A i \in 1 .. size : upto - size + i \in 1 .. Len(arrived)
  BY <1>1
<1>3. \A i \in 1 .. size : slots[i - 1] \in Messages
  BY <1>1, <1>2
<1> DEFINE s == [i \in 1 .. size |-> slots[i - 1]]
<1>4. s \in [1 .. size -> Messages]
  BY <1>3, Zenon
<1> HIDE DEF s
<1>5. s \in UNION {[1 .. n -> Messages] : n \in Nat}
  BY <1>1, <1>4, Zenon
<1>6. s \in Seq(Messages) BY <1>5, SeqDef
<1> QED BY <1>6, Zenon DEF s

\* The buffer takes a message in one of three ways; only the last message of a
\* batch hands the batch over.
LEMMA HandedStep ==
  ASSUME SenderTypes, BB!IInv, Receive, NEW m, m = net[1]
  PROVE  \/ /\ BB!Hold(m) /\ handed' = handed
         \/ /\ BB!Clear(m) /\ handed' = handed
         \/ /\ BB!Deliver(m)
            /\ handed' = Append(handed, [i \in 1 .. delivered'.size |-> delivered'.slots[i - 1]])
            /\ delivered'.size = BB!SizeWith(m) /\ delivered'.slots = BB!SlotsWith(m)
<1>1. BB!Receive(m) /\ Len(arrivals) \in Nat /\ Len(arrivals') = Len(arrivals) + 1
      /\ m \in Messages
  BY ReceivedPlace, SameBuffer, Zenon DEF Receive
<1>2. handed' = IF delivered' = delivered THEN handed
                ELSE Append(handed, [i \in 1 .. delivered'.size |-> delivered'.slots[i - 1]])
  BY Zenon DEF Receive
<1>3. CASE BB!Hold(m) \/ BB!Clear(m)
  <2>1. delivered' = delivered BY <1>3, Zenon DEF BB!Hold, BB!Clear
  <2> QED BY <1>2, <1>3, <2>1, Zenon
<1>4. CASE BB!Deliver(m)
  <2>1. /\ delivered' = [size |-> BB!SizeWith(m), slots |-> BB!SlotsWith(m),
                         upto |-> Len(arrivals')]
    BY <1>4, Zenon DEF BB!Deliver
  <2>2. /\ delivered'.size = BB!SizeWith(m) /\ delivered'.slots = BB!SlotsWith(m)
        /\ delivered'.upto = Len(arrivals')
    BY <2>1
  <2>3. delivered.upto <= Len(arrivals) /\ delivered.upto \in Nat
    BY DEF BB!IInv, BB!TypeOK, BB!DeliveredIsConsecutive
  <2>4. delivered' # delivered BY <1>1, <2>2, <2>3
  <2> QED BY <1>2, <1>4, <2>2, <2>4, Zenon
<1> QED BY <1>1, <1>3, <1>4, Zenon DEF BB!Receive

\* Only sequences of messages are handed over.
LEMMA HandedTypesKept ==
  ASSUME SenderTypes, HandedTypes, BB!IInv, BB!IInv', [Next]_vars
  PROVE  HandedTypes'
<1>1. CASE Receive
  <2> DEFINE h == [i \in 1 .. delivered'.size |-> delivered'.slots[i - 1]]
  <2>1. h \in Seq(Messages)
    <3>1. BB!TypeOK' /\ BB!DeliveredIsConsecutive' BY Zenon DEF BB!IInv
    <3>2. /\ arrivals' \in Seq(Messages) /\ delivered'.size \in 0 .. MAX_BUF_MSG
          /\ delivered'.upto \in Nat
      BY <3>1 DEF BB!TypeOK
    <3>3. /\ delivered'.upto <= Len(arrivals') /\ delivered'.size <= delivered'.upto
          /\ \A i \in 1 .. delivered'.size :
               delivered'.slots[i - 1] = arrivals'[delivered'.upto - delivered'.size + i]
      BY <3>1, Zenon DEF BB!DeliveredIsConsecutive, BB!CountsDown
    <3>4. \A n, u \in Int : n \in 0 .. MAX_BUF_MSG /\ n <= u => n \in 0 .. u
      BY SensorChannelAssumption
    <3>5. Len(arrivals') \in Nat BY <3>2
    <3>6. \A u \in Nat : \A l \in Nat : u <= l => u \in 0 .. l OBVIOUS
    <3>7. delivered'.upto \in 0 .. Len(arrivals') BY <3>2, <3>3, <3>5, <3>6, Zenon
    <3>8. delivered'.size \in Int /\ delivered'.upto \in Int
      BY <3>2, SensorChannelAssumption
    <3>9. delivered'.size \in 0 .. delivered'.upto BY <3>2, <3>3, <3>4, <3>8, Zenon
    <3> QED BY <3>2, <3>3, <3>7, <3>9, DeliveredSeq, Zenon
  <2>2. handed' = handed \/ handed' = Append(handed, h)
    BY <1>1, HandedStep, Zenon
  <2> HIDE DEF h
  <2> QED BY <2>1, <2>2 DEF HandedTypes
<1>2. CASE handed' = handed
  BY <1>2, Zenon DEF HandedTypes
<1>3. ~Receive => handed' = handed
  BY Zenon DEF Next, StartBatch, Send, Lose, Duplicate, Fault, vars
<1> QED BY <1>1, <1>2, <1>3

\* What was sent, message by message.
LEMMA SentMessages ==
  ASSUME NEW b
  PROVE  /\ DOMAIN Sent(b) = 1 .. sizes[b]
         /\ \A i \in 1 .. sizes[b] : Sent(b)[i] = [batch |-> b, countdown |-> sizes[b] - i]
BY DEF Sent

\* A message that follows the last one is stored behind it, if what is held is
\* the beginning of its batch.
LEMMA StoreClean ==
  ASSUME SenderTypes, AllStarted, BB!IInv, Receive, Contiguous, Clean, NEW m, m = net[1]
  PROVE  /\ BB!Fits(m) /\ BB!SizeWith(m) = sizes[m.batch]
         /\ \A i \in 1 .. sizes[m.batch] - m.countdown :
              BB!SlotsWith(m)[i - 1] = Sent(m.batch)[i]
<1> DEFINE b == m.batch
           c == m.countdown
           n == sizes[b]
<1>1. m \in Messages /\ StartedIn(sizes, m) /\ HeadAt = m /\ Len(sizes) \in Nat
      /\ \A x \in 1 .. Len(sizes) : sizes[x] \in 1 .. MAX_BUF_MSG
  BY ReceivedPlace, PlaceBatch, Places, Zenon
<1>2. b \in 1 .. Len(sizes) /\ n \in 1 .. MAX_BUF_MSG /\ c \in 0 .. n - 1
  BY <1>1 DEF StartedIn
<1>3. MAX_BUF_MSG \in Nat /\ m = [batch |-> b, countdown |-> c]
  BY <1>1, SensorChannelAssumption DEF Messages
<1>4. /\ buf \in [0 .. MAX_BUF_MSG - 1 -> Messages \cup {Blank}]
      /\ buf_size \in Nat /\ last_countdown \in Nat
  BY SensorChannelAssumption DEF BB!IInv, BB!TypeOK, BB!Slots
<1>5. \A i \in 1 .. n : Sent(b)[i] = [batch |-> b, countdown |-> n - i]
  BY SentMessages
<1>6. Prev.countdown \in Nat /\ Prev.batch \in 0 .. Len(sizes) BY PrevPlace
<1>7. FollowsIn(sizes, Prev, m) BY <1>1, Zenon DEF Contiguous
<1>8. SUFFICES /\ BB!Fits(m) /\ BB!SizeWith(m) = n
               /\ \A i \in 1 .. n - c - 1 : buf[i - 1] = Sent(b)[i]
  <2>1. BB!SlotsWith(m) = [buf EXCEPT ![n - c - 1] = m] BY <1>8 DEF BB!SlotsWith
  <2>2. n - c - 1 \in 0 .. MAX_BUF_MSG - 1 /\ n - c \in 1 .. n BY <1>2, <1>3
  <2>3. Sent(b)[n - c] = m
    <3>1. n - (n - c) = c BY <1>2, <1>3
    <3> QED BY <1>3, <1>5, <2>2, <3>1, Zenon
  <2> HIDE DEF b, c, n
  <2>4. ASSUME NEW i \in 1 .. n - c PROVE BB!SlotsWith(m)[i - 1] = Sent(b)[i]
    <3>1. CASE i = n - c BY <1>4, <2>1, <2>2, <2>3, <3>1
    <3>2. CASE i \in 1 .. n - c - 1
      <4>1. i - 1 # n - c - 1 /\ i - 1 \in 0 .. MAX_BUF_MSG - 1 BY <1>2, <1>3, <2>2, <3>2
      <4> QED BY <1>4, <1>8, <2>1, <3>2, <4>1
    <3> QED BY <1>2, <1>3, <2>2, <3>1, <3>2
  <2> QED BY <1>8, <2>4 DEF b, c, n
<1>9. CASE Prev.countdown = 0
  <2>1. buf_size = 0 BY <1>9, EmptyAtEnd
  <2>2. c = n - 1 BY <1>2, <1>6, <1>7, <1>9 DEF FollowsIn
  <2>3. BB!Fits(m) /\ BB!SizeWith(m) = n
    BY <1>2, <1>3, <2>1, <2>2 DEF BB!Fits, BB!SizeWith
  <2> QED BY <1>2, <1>3, <2>2, <2>3
<1>10. CASE Prev.countdown > 0
  <2>1. Prev.batch = b /\ c = Prev.countdown - 1
    BY <1>7, <1>10 DEF FollowsIn
  <2>2. /\ buf_size = n /\ last_countdown = Prev.countdown
        /\ \A i \in 1 .. n - Prev.countdown : buf[i - 1] = Sent(b)[i]
    BY <1>10, <2>1, Zenon DEF Clean
  <2>3. BB!Fits(m) /\ BB!SizeWith(m) = n
    BY <1>2, <1>3, <1>6, <2>1, <2>2 DEF BB!Fits, BB!SizeWith
  <2>4. n - c - 1 = n - Prev.countdown BY <1>2, <1>3, <1>6, <2>1
  <2> QED BY <2>2, <2>3, <2>4
<1> QED BY <1>6, <1>9, <1>10

\* A sequence that is longer by one.
LEMMA AppendPlaces ==
  ASSUME NEW S, NEW s \in Seq(S), NEW e
  PROVE  /\ Len(s) \in Nat /\ Len(Append(s, e)) = Len(s) + 1
         /\ \A i \in 1 .. Len(s) : Append(s, e)[i] = s[i]
         /\ \A i : i = Len(s) + 1 => Append(s, e)[i] = e
<1> DEFINE T == S \cup {e}
<1>1. S \subseteq T /\ e \in T OBVIOUS
<1> HIDE DEF T
<1>2. s \in Seq(T) BY <1>1, SeqMonotonic, Zenon
<1> QED BY <1>1, <1>2

\* A batch that was started is never sent anew, and a batch handed over is
\* never taken back.
LEMMA HistoryGrows ==
  ASSUME SenderTypes, HandedTypes, BB!IInv, BB!IInv', HandedTypes', [Next]_vars
  PROVE  /\ Len(sizes) \in Nat /\ Len(sizes') \in Nat /\ Len(sizes) <= Len(sizes')
         /\ \A b \in 1 .. Len(sizes) : sizes'[b] = sizes[b] /\ Sent(b)' = Sent(b)
         /\ Len(handed) \in Nat /\ Len(handed') \in Nat /\ Len(handed) <= Len(handed')
         /\ Len(handed') <= Len(handed) + 1
         /\ \A i \in 1 .. Len(handed) : handed'[i] = handed[i]
         /\ \A b \in 1 .. Len(sizes) : HandedOver(b) => HandedOver(b)'
<1>1. /\ Len(sizes) \in Nat /\ Len(sizes') \in Nat /\ Len(sizes) <= Len(sizes')
      /\ \A b \in 1 .. Len(sizes) : sizes'[b] = sizes[b]
  <2>1. CASE sizes' = sizes BY <2>1, Places
  <2>2. ASSUME NEW n \in 1 .. MAX_BUF_MSG, StartBatch(n)
        PROVE  Len(sizes') = Len(sizes) + 1 /\ \A b \in 1 .. Len(sizes) : sizes'[b] = sizes[b]
    BY <2>2, StartPlaces
  <2>3. sizes' = sizes \/ \E n \in 1 .. MAX_BUF_MSG : StartBatch(n)
    BY Zenon DEF Next, Send, Lose, Duplicate, Fault, Receive, vars
  <2>4. Len(sizes) \in Nat BY Places
  <2> QED BY <2>1, <2>2, <2>3, <2>4
<1>2. \A b \in 1 .. Len(sizes) : Sent(b)' = Sent(b)
  BY <1>1, Zenon DEF Sent
<1>3. /\ Len(handed) \in Nat /\ Len(handed') \in Nat /\ Len(handed) <= Len(handed')
      /\ Len(handed') <= Len(handed) + 1
      /\ \A i \in 1 .. Len(handed) : handed'[i] = handed[i]
  <2>1. handed' = handed \/ \E h : handed' = Append(handed, h)
    BY Zenon DEF Next, StartBatch, Send, Lose, Duplicate, Fault, Receive, vars
  <2>2. CASE handed' = handed
    BY <2>2 DEF HandedTypes
  <2>3. ASSUME NEW h, handed' = Append(handed, h)
        PROVE  /\ Len(handed) \in Nat /\ Len(handed') = Len(handed) + 1
               /\ \A i \in 1 .. Len(handed) : handed'[i] = handed[i]
    <3>1. handed \in Seq(Seq(Messages)) BY DEF HandedTypes
    <3>2. /\ Len(handed) \in Nat /\ Len(Append(handed, h)) = Len(handed) + 1
          /\ \A i \in 1 .. Len(handed) : Append(handed, h)[i] = handed[i]
      BY <3>1, AppendPlaces
    <3> QED BY <2>3, <3>2, Zenon
  <2>4. CASE \E h : handed' = Append(handed, h)
    <3>1. /\ Len(handed) \in Nat /\ Len(handed') = Len(handed) + 1
          /\ \A i \in 1 .. Len(handed) : handed'[i] = handed[i]
      BY <2>3, <2>4, Zenon
    <3> QED BY <3>1
  <2> QED BY <2>1, <2>2, <2>4, Zenon
<1>4. ASSUME NEW b \in 1 .. Len(sizes), HandedOver(b) PROVE HandedOver(b)'
  <2>1. PICK i \in 1 .. Len(handed) : handed[i] = Sent(b) BY <1>4, Zenon DEF HandedOver
  <2>2. i \in 1 .. Len(handed') BY <1>3
  <2> QED BY <1>2, <1>3, <2>1, <2>2, Zenon DEF HandedOver
<1> QED BY <1>1, <1>2, <1>3, <1>4

\* What counting a set that gains at most one element gives.
LEMMA CardGrows ==
  ASSUME NEW S, NEW T, NEW x, IsFiniteSet(S), T \subseteq S \cup {x}
  PROVE  /\ IsFiniteSet(T) /\ Cardinality(S) \in Nat /\ Cardinality(T) \in Nat
         /\ Cardinality(T) <= Cardinality(S) + 1
         /\ T \subseteq S => Cardinality(T) <= Cardinality(S)
<1>1. IsFiniteSet(S \cup {x}) /\ Cardinality(S) \in Nat
      /\ Cardinality(S \cup {x}) <= Cardinality(S) + 1
  <2>1. Cardinality(S) \in Nat BY FS_CardinalityType, Zenon
  <2>2. /\ IsFiniteSet(S \cup {x})
        /\ Cardinality(S \cup {x}) = Cardinality(S) \/ Cardinality(S \cup {x}) = Cardinality(S) + 1
    BY FS_AddElement, Zenon
  <2> QED BY <2>1, <2>2
<1>2. IsFiniteSet(T) /\ Cardinality(T) <= Cardinality(S \cup {x})
  BY <1>1, FS_Subset, Zenon
<1>3. Cardinality(T) \in Nat /\ Cardinality(S \cup {x}) \in Nat
  BY <1>1, <1>2, FS_CardinalityType, Zenon
<1>4. T \subseteq S => Cardinality(T) <= Cardinality(S)
  BY FS_Subset, Zenon
<1> QED BY <1>1, <1>2, <1>3, <1>4

\* The accounts count finite sets.
LEMMA FiniteAccounts ==
  ASSUME SenderTypes, HandedTypes
  PROVE  /\ IsFiniteSet(Altered) /\ Cardinality(Altered) \in Nat
         /\ IsFiniteSet(Missed) /\ Cardinality(Missed) \in Nat
<1>1. Len(handed) \in Int /\ Len(sizes) \in Int BY Places DEF HandedTypes
<1>2. IsFiniteSet(1 .. Len(handed)) /\ IsFiniteSet(1 .. Len(sizes))
  BY <1>1, FS_Interval
<1>3. Altered \subseteq 1 .. Len(handed) /\ Missed \subseteq 1 .. Len(sizes)
  BY Zenon DEF Altered, Missed
<1> QED BY <1>2, <1>3, FS_Subset, FS_CardinalityType, Zenon

\* Only the batch that is handed over now can be one that was altered.
LEMMA AlteredGrows ==
  ASSUME SenderTypes, HandedTypes, BB!IInv, BB!IInv', HandedTypes', [Next]_vars
  PROVE  /\ Cardinality(Altered') \in Nat
         /\ Cardinality(Altered') <= Cardinality(Altered) + 1
         /\ handed' = handed \/ (\E b \in 1 .. Len(sizes) : handed' = Append(handed, Sent(b))) =>
              Cardinality(Altered') <= Cardinality(Altered)
<1>1. /\ Len(sizes) \in Nat /\ Len(sizes') \in Nat /\ Len(sizes) <= Len(sizes')
      /\ \A b \in 1 .. Len(sizes) : Sent(b)' = Sent(b)
      /\ Len(handed) \in Nat /\ Len(handed') \in Nat
      /\ Len(handed) <= Len(handed') /\ Len(handed') <= Len(handed) + 1
      /\ \A i \in 1 .. Len(handed) : handed'[i] = handed[i]
  BY HistoryGrows
<1>2. ASSUME NEW i \in Altered' PROVE i \in Altered \/ i = Len(handed) + 1
  <2>1. i \in 1 .. Len(handed') /\ ~Whole(handed[i])' BY Zenon DEF Altered
  <2>2. i \in 1 .. Len(handed) \/ i = Len(handed) + 1 BY <1>1, <2>1
  <2>3. ASSUME i \in 1 .. Len(handed) PROVE ~Whole(handed[i])
    <3>1. \A b \in 1 .. Len(sizes) : b \in 1 .. Len(sizes') BY <1>1
    <3> QED BY <1>1, <2>1, <2>3, <3>1, Zenon DEF Whole
  <2> QED BY <2>2, <2>3, Zenon DEF Altered
<1>3. ASSUME handed' = handed \/ \E b \in 1 .. Len(sizes) : handed' = Append(handed, Sent(b)),
             NEW i \in Altered'
      PROVE  i \in Altered
  <2>1. i \in 1 .. Len(handed') /\ ~Whole(handed[i])' BY Zenon DEF Altered
  <2>2. CASE handed' = handed
    <3>1. i \in 1 .. Len(handed) /\ i # Len(handed) + 1 BY <1>1, <2>1, <2>2
    <3> QED BY <1>2, <3>1
  <2>3. ASSUME NEW b \in 1 .. Len(sizes), handed' = Append(handed, Sent(b)),
               i = Len(handed) + 1
        PROVE  FALSE
    <3> DEFINE s == Sent(b)
    <3>1. handed' = Append(handed, s) BY <2>3
    <3>2. s = Sent(b)' /\ b \in 1 .. Len(sizes') BY <1>1, <2>3
    <3> HIDE DEF s
    <3>3. handed'[i] = s
      <4>1. handed \in Seq(Seq(Messages)) BY DEF HandedTypes
      <4>2. Append(handed, s)[Len(handed) + 1] = s BY <4>1, AppendPlaces
      <4> QED BY <2>3, <3>1, <4>2, Zenon
    <3> QED BY <2>1, <3>2, <3>3, Zenon DEF Whole
  <2> QED BY <1>2, <1>3, <2>2, <2>3, Zenon
<1>4. Altered' \subseteq Altered \cup {Len(handed) + 1} BY <1>2
<1> QED BY <1>3, <1>4, CardGrows, FiniteAccounts, Zenon

\* A batch is missed when the next datagram is already of a later one.
LEMMA MissedGrows ==
  ASSUME SenderTypes, HandedTypes, AllStarted, BB!IInv, BB!IInv', HandedTypes', [Next]_vars
  PROVE  /\ HeadAt'.batch = HeadAt.batch \/ (HeadAt'.batch = HeadAt.batch + 1 /\ sizes' = sizes)
              => /\ Cardinality(Missed') \in Nat
                 /\ Cardinality(Missed') <= Cardinality(Missed) + 1
         /\ HeadAt'.batch = HeadAt.batch => Cardinality(Missed') <= Cardinality(Missed)
         /\ HeadAt'.batch = HeadAt.batch + 1 /\ sizes' = sizes /\ (\A b : b = HeadAt.batch => HandedOver(b)')
              => Cardinality(Missed') <= Cardinality(Missed)
<1>1. /\ Len(sizes) \in Nat /\ Len(sizes') \in Nat /\ Len(sizes) <= Len(sizes')
      /\ \A b \in 1 .. Len(sizes) : HandedOver(b) => HandedOver(b)'
  BY HistoryGrows
<1>2. HeadAt.batch \in 1 .. Len(sizes) + 1 BY PlaceBatch
<1>3. ASSUME NEW b \in Missed'
      PROVE  b \in 1 .. Len(sizes') /\ b < HeadAt'.batch /\ ~HandedOver(b)'
  BY <1>3, Zenon DEF Missed
<1>4. ASSUME NEW b \in 1 .. Len(sizes), b < HeadAt.batch, ~HandedOver(b)' PROVE b \in Missed
  BY <1>1, <1>4, Zenon DEF Missed
<1>5. ASSUME HeadAt'.batch = HeadAt.batch, NEW b \in Missed' PROVE b \in Missed
  <2>1. b \in 1 .. Len(sizes) BY <1>1, <1>2, <1>3, <1>5
  <2> QED BY <1>3, <1>4, <1>5, <2>1, Zenon
<1>6. ASSUME HeadAt'.batch = HeadAt.batch + 1, sizes' = sizes, NEW b \in Missed'
      PROVE  b \in Missed \/ (b = HeadAt.batch /\ ~HandedOver(b)')
  <2>1. b \in 1 .. Len(sizes) /\ (b < HeadAt.batch \/ b = HeadAt.batch)
    BY <1>1, <1>2, <1>3, <1>6
  <2> QED BY <1>3, <1>4, <2>1, Zenon
<1>7. HeadAt'.batch = HeadAt.batch => Missed' \subseteq Missed BY <1>5, Zenon
<1>8. HeadAt'.batch = HeadAt.batch + 1 /\ sizes' = sizes => Missed' \subseteq Missed \cup {HeadAt.batch}
  BY <1>6, Zenon
<1>9. HeadAt'.batch = HeadAt.batch + 1 /\ sizes' = sizes /\ (\A b : b = HeadAt.batch => HandedOver(b)')
        => Missed' \subseteq Missed
  BY <1>6, Zenon
<1> QED BY <1>7, <1>8, <1>9, CardGrows, FiniteAccounts, Zenon

(***************************************************************************)
(* The accounts.                                                           *)
(***************************************************************************)
\* A batch that arrives message by message is held and then handed over as it
\* was sent; the last message of a batch always leaves the buffer empty.
LEMMA ReceivedBatch ==
  ASSUME SenderTypes, HandedTypes, AllStarted, BB!IInv, BB!IInv', HandedTypes',
         Receive, NEW m, m = net[1]
  PROVE  /\ m.countdown > 0 => handed' = handed
         /\ m.countdown = 0 => Clean'
         /\ Contiguous /\ Clean => Clean'
         /\ Contiguous /\ Clean /\ m.countdown = 0 => handed' = Append(handed, Sent(m.batch))
<1> DEFINE b == m.batch
           n == sizes[b]
           c == m.countdown
<1>1. Prev' = m /\ m \in Messages /\ StartedIn(sizes, m) /\ sizes' = sizes
  BY ReceivedPlace, PlaceBatch, Zenon
<1>2. b \in 1 .. Len(sizes) /\ c \in Nat /\ n \in Nat
  BY <1>1, Places, SensorChannelAssumption DEF StartedIn, Messages
<1> ~(c > 0 /\ c = 0) BY <1>2
<1>3. c > 0 => BB!Hold(m) \/ BB!Clear(m)
  BY HandedStep, Zenon DEF BB!Deliver
<1>4. c > 0 => handed' = handed
  BY HandedStep, Zenon DEF BB!Deliver
<1>5. c = 0 => Clean'
  BY <1>1 DEF Clean
<1>6. ASSUME Contiguous, Clean PROVE Clean' /\ (c = 0 => handed' = Append(handed, Sent(b)))
  <2>1. /\ BB!Fits(m) /\ BB!SizeWith(m) = n
        /\ \A i \in 1 .. n - c : BB!SlotsWith(m)[i - 1] = Sent(b)[i]
    BY <1>6, StoreClean
  <2>2. CASE c > 0
    <3>1. BB!Hold(m) BY <1>3, <2>1, <2>2, Zenon DEF BB!Clear
    <3>2. /\ buf_size' = n /\ last_countdown' = c
          /\ \A i \in 1 .. n - c : buf'[i - 1] = Sent(b)[i]
      BY <2>1, <3>1, Zenon DEF BB!Hold
    <3>3. Sent(b)' = Sent(b) BY <1>1, Zenon DEF Sent
    <3>4. ~(c = 0) BY <1>2, <2>2
    <3> QED BY <1>1, <3>2, <3>3, <3>4, Zenon DEF Clean
  <2>3. CASE c = 0
    <3>1. ~BB!Hold(m) /\ ~BB!Clear(m) BY <2>1, <2>3 DEF BB!Hold, BB!Clear
    <3>2. handed' = Append(handed, [i \in 1 .. n |-> BB!SlotsWith(m)[i - 1]])
      BY <2>1, <3>1, HandedStep, Zenon
    <3>3. n - c = n BY <1>2, <2>3
    <3>4. \A i \in 1 .. n : BB!SlotsWith(m)[i - 1] = [batch |-> b, countdown |-> n - i]
      BY <2>1, <3>3, SentMessages, ZenonT(60)
    <3>5. [i \in 1 .. n |-> BB!SlotsWith(m)[i - 1]] = Sent(b)
      BY <3>4, Zenon DEF Sent
    <3> QED BY <1>5, <2>3, <3>2, <3>5, Zenon
  <2> QED BY <1>2, <2>2, <2>3
<1> QED BY <1>4, <1>5, <1>6, Zenon

\* A datagram that arrives alters a batch only if the buffer was not clean or a
\* gap was before the datagram.
LEMMA ReceivedAltered ==
  ASSUME SenderTypes, HandedTypes, AllStarted, BB!IInv, BB!IInv', HandedTypes', Receive
  PROVE  Cardinality(Altered') + Dirty' <= Cardinality(Altered) + Dirty + Gap
<1> DEFINE m == net[1]
<1>1. m \in Messages /\ m.countdown \in Nat /\ m.batch \in 1 .. Len(sizes)
  <2>1. m \in Messages /\ StartedIn(sizes, m) BY ReceivedPlace, PlaceBatch, Zenon
  <2> QED BY <2>1, SensorChannelAssumption DEF StartedIn, Messages
<1>2. Cardinality(Altered) \in Nat BY FiniteAccounts
<1>3. [Next]_vars BY Zenon DEF Next
<1>4. /\ Cardinality(Altered') \in Nat /\ Cardinality(Altered') <= Cardinality(Altered) + 1
      /\ handed' = handed \/ (\E b \in 1 .. Len(sizes) : handed' = Append(handed, Sent(b))) =>
           Cardinality(Altered') <= Cardinality(Altered)
  BY <1>3, AlteredGrows
<1>5. Dirty \in 0 .. 1 /\ Gap \in 0 .. 1 /\ Dirty' \in 0 .. 1 BY DEF Dirty, Gap
<1>6. CASE m.countdown > 0
  <2>1. handed' = handed /\ (Contiguous /\ Clean => Clean')
    BY <1>6, ReceivedBatch, Zenon
  <2>2. Cardinality(Altered') <= Cardinality(Altered) BY <1>4, <2>1
  <2>3. Dirty' <= Dirty + Gap BY <2>1 DEF Dirty, Gap
  <2> QED BY <1>2, <1>4, <1>5, <2>2, <2>3
<1>7. CASE m.countdown = 0
  <2>1. Clean' /\ (Contiguous /\ Clean => handed' = Append(handed, Sent(m.batch)))
    BY <1>7, ReceivedBatch, Zenon
  <2>2. Dirty' = 0 BY <2>1, Zenon DEF Dirty
  <2>3. Contiguous /\ Clean => Cardinality(Altered') <= Cardinality(Altered)
    BY <1>1, <1>4, <2>1, Zenon
  <2>4. ~(Contiguous /\ Clean) => Dirty + Gap >= 1 BY DEF Dirty, Gap
  <2> QED BY <1>2, <1>4, <1>5, <2>2, <2>3, <2>4
<1> QED BY <1>1, <1>6, <1>7

\* What holds of the accounts before and after a step in which the network
\* makes no fault and the receiver gets nothing.
LEMMA Unaffected ==
  ASSUME SenderTypes, HandedTypes, AllStarted, BB!IInv, BB!IInv', HandedTypes', [Next]_vars,
         UNCHANGED <<handed, bufferVars>>
  PROVE  /\ Cardinality(Altered') \in Nat /\ Cardinality(Altered') <= Cardinality(Altered)
         /\ Prev' = Prev /\ Dirty' = Dirty
<1>1. /\ Len(sizes) \in Nat /\ Len(sizes') \in Nat /\ Len(sizes) <= Len(sizes')
      /\ \A b \in 1 .. Len(sizes) : sizes'[b] = sizes[b] /\ Sent(b)' = Sent(b)
  BY HistoryGrows
<1>2. Prev' = Prev /\ UNCHANGED <<buf, buf_size, last_countdown>>
  BY Zenon DEF Prev, bufferVars
<1>3. Clean' <=> Clean
  <2>1. CASE Prev.countdown > 0
    <3>1. Prev.batch \in 1 .. Len(sizes) BY <2>1, PrevPlace, Zenon DEF StartedIn
    <3>2. \A x : x = Prev.batch => sizes'[x] = sizes[x] /\ Sent(x)' = Sent(x)
      BY <1>1, <3>1, Zenon
    <3> QED BY <1>2, <2>1, <3>2, Zenon DEF Clean
  <2>2. CASE ~(Prev.countdown > 0)
    BY <1>2, <2>2, Zenon DEF Clean
  <2> QED BY <2>1, <2>2
<1>4. Dirty' = Dirty BY <1>3, Zenon DEF Dirty
<1> QED BY <1>2, <1>4, AlteredGrows, Zenon

\* Datagrams that are lost or duplicated are paid for by the fault.
LEMMA FaultAccounts ==
  ASSUME SenderTypes, HandedTypes, AllStarted, BB!IInv, BB!IInv', HandedTypes', Accounts,
         Lose \/ Duplicate
  PROVE  Accounts'
<1>1. PICK k \in 0 .. Len(net) : Chain(k) /\ AlterBudget(k) /\ SpoilBudget(k)
  BY Zenon DEF Accounts
<1>2. /\ net # << >> /\ faults' = faults + 1 /\ UNCHANGED <<sizes, left, handed, bufferVars>>
      /\ [Next]_vars
  BY Zenon DEF Lose, Duplicate, Fault, Next
<1>3. /\ Cardinality(Altered) \in Nat /\ Cardinality(Missed) \in Nat
      /\ Cardinality(Altered') \in Nat /\ Cardinality(Altered') <= Cardinality(Altered)
      /\ Prev' = Prev /\ Dirty' = Dirty
  BY <1>2, Unaffected, FiniteAccounts, Zenon
<1>4. /\ faults \in Nat /\ k \in Nat /\ Dirty \in 0 .. 1 /\ Gap \in 0 .. 1 /\ Gap' \in 0 .. 1
      /\ \A j : Doomed(j) \in 0 .. 1 /\ Doomed(j)' \in 0 .. 1
  BY Places DEF Dirty, Gap, Doomed
<1>5. /\ Cardinality(Altered) + Dirty + Gap + k <= faults
      /\ Cardinality(Missed) + Doomed(k) <= 2 * faults
  BY <1>1, Zenon DEF AlterBudget, SpoilBudget
<1>6. ASSUME HeadAt' = HeadAt PROVE Gap' = Gap
  <2>1. sizes' = sizes BY <1>2
  <2> QED BY <1>3, <1>6, <2>1, Zenon DEF Gap, Contiguous, FollowsIn
<1>7. ASSUME HeadAt'.batch = HeadAt.batch \/ HeadAt'.batch = HeadAt.batch + 1
      PROVE  Cardinality(Missed') \in Nat /\ Cardinality(Missed') <= Cardinality(Missed) + 1
  BY <1>2, <1>7, MissedGrows, Zenon
<1>8. ASSUME NEW j \in 0 .. Len(net'), Chain(j)',
             HeadAt'.batch = HeadAt.batch \/ HeadAt'.batch = HeadAt.batch + 1,
             Gap' + j <= Gap + k + 1
      PROVE  Accounts'
  <2> DEFINE a1 == Cardinality(Altered)
             a2 == Cardinality(Altered')
             m1 == Cardinality(Missed)
             m2 == Cardinality(Missed')
  <2>1. /\ a1 \in Nat /\ a2 \in Nat /\ m1 \in Nat /\ m2 \in Nat /\ a2 <= a1 /\ m2 <= m1 + 1
        /\ a1 + Dirty + Gap + k <= faults /\ m1 + Doomed(k) <= 2 * faults
        /\ Doomed(k) \in 0 .. 1 /\ Doomed(j)' \in 0 .. 1
    BY <1>3, <1>4, <1>5, <1>7, <1>8
  <2> HIDE DEF a1, a2, m1, m2
  <2>2. a2 + Dirty' + Gap' + j <= faults'
    <3> DEFINE d == Dirty
               g1 == Gap
               g2 == Gap'
               f == faults
    <3>1. /\ a2 <= a1 /\ a1 + d + g1 + k <= f /\ g2 + j <= g1 + k + 1
          /\ a1 \in Nat /\ a2 \in Nat /\ d \in 0 .. 1 /\ g1 \in 0 .. 1 /\ g2 \in 0 .. 1
          /\ k \in Nat /\ f \in Nat /\ faults' = f + 1 /\ Dirty' = d
      BY <1>2, <1>3, <1>4, <1>8, <2>1, Zenon
    <3>3. j \in Nat
      <4>1. Len(net') \in Nat BY <1>2, SenderTypesKept DEF SenderTypes
      <4> QED BY <4>1
    <3> HIDE DEF d, g1, g2, f
    <3>2. a2 + d + g2 + j <= f + 1 BY <3>1, <3>3
    <3> QED BY <3>1, <3>2, Zenon DEF g2
  <2>3. m2 + Doomed(j)' <= 2 * faults'
    BY <1>2, <1>4, <2>1
  <2>4. AlterBudget(j)' /\ SpoilBudget(j)'
    BY <2>2, <2>3, Zenon DEF AlterBudget, SpoilBudget, a2, m2
  <2> QED BY <1>8, <2>4, Zenon DEF Accounts
<1>9. CASE Lose
  <2>1. net' = Tail(net) BY <1>9, Zenon DEF Lose
  <2>2. PICK j \in 0 .. Len(net') :
          /\ Chain(j)'
          /\ \/ k > 0 /\ j = k - 1 /\ HeadAt' = HeadAt
             \/ k = 0 /\ j = 0 /\ FollowsIn(sizes, HeadAt, HeadAt')
    BY <1>1, <1>2, <2>1, ChainTail
  <2>3. HeadAt'.batch = HeadAt.batch \/ HeadAt'.batch = HeadAt.batch + 1
    BY <2>2, Zenon DEF FollowsIn
  <2>4. Gap' + j <= Gap + k + 1
    <3>1. CASE k > 0 /\ j = k - 1 /\ HeadAt' = HeadAt
      <4>1. Gap' = Gap BY <1>6, <3>1
      <4> QED BY <1>4, <3>1, <4>1
    <3>2. CASE k = 0 /\ j = 0
      <4>1. \A g, h \in 0 .. 1 : h + 0 <= g + 0 + 1 OBVIOUS
      <4> QED BY <1>4, <3>2, <4>1, Zenon
    <3> QED BY <2>2, <3>1, <3>2, Zenon
  <2> QED BY <1>8, <2>2, <2>3, <2>4
<1>10. CASE Duplicate
  <2>1. net' = <<Head(net)>> \o net BY <1>10, Zenon DEF Duplicate
  <2>2. k + 1 \in 0 .. Len(net') /\ Chain(k + 1)' /\ HeadAt' = HeadAt
    BY <1>1, <1>2, <2>1, ChainDuplicate
  <2>3. Gap' + (k + 1) <= Gap + k + 1 BY <1>4, <1>6, <2>2
  <2> QED BY <1>8, <2>2, <2>3
<1> QED BY <1>9, <1>10

\* What the sender does costs nothing.
LEMMA SenderAccounts ==
  ASSUME SenderTypes, HandedTypes, AllStarted, BB!IInv, BB!IInv', HandedTypes', Accounts,
         Send \/ \E n \in 1 .. MAX_BUF_MSG : StartBatch(n)
  PROVE  Accounts'
<1>1. PICK k \in 0 .. Len(net) : Chain(k) /\ AlterBudget(k) /\ SpoilBudget(k)
  BY Zenon DEF Accounts
<1>2. faults' = faults /\ UNCHANGED <<handed, bufferVars>> /\ [Next]_vars
  BY Zenon DEF Send, StartBatch, Next
<1>3. /\ Cardinality(Altered) \in Nat /\ Cardinality(Missed) \in Nat
      /\ Cardinality(Altered') \in Nat /\ Cardinality(Altered') <= Cardinality(Altered)
      /\ Prev' = Prev /\ Dirty' = Dirty
  BY <1>2, Unaffected, FiniteAccounts, Zenon
<1>4. /\ faults \in Nat /\ k \in Nat /\ Dirty \in 0 .. 1 /\ Gap \in 0 .. 1 /\ Gap' \in 0 .. 1
      /\ Doomed(k) \in 0 .. 1 /\ Doomed(k)' \in 0 .. 1
  BY Places DEF Dirty, Gap, Doomed
<1>5. /\ Cardinality(Altered) + Dirty + Gap + k <= faults
      /\ Cardinality(Missed) + Doomed(k) <= 2 * faults
  BY <1>1, Zenon DEF AlterBudget, SpoilBudget
<1>6. /\ k \in 0 .. Len(net') /\ Chain(k)' /\ HeadAt'.batch = HeadAt.batch
      /\ net # << >> => HeadAt' = HeadAt
      /\ Contiguous => Contiguous'
  <2>1. CASE Send
    <3>1. k \in 0 .. Len(net') /\ Chain(k)' /\ HeadAt' = HeadAt
      BY <1>1, <2>1, ChainSend
    <3>2. sizes' = sizes BY <2>1, Zenon DEF Send
    <3> QED BY <1>3, <3>1, <3>2, Zenon DEF Contiguous, FollowsIn
  <2>2. ASSUME NEW n \in 1 .. MAX_BUF_MSG, StartBatch(n)
        PROVE  /\ k \in 0 .. Len(net') /\ Chain(k)' /\ HeadAt'.batch = HeadAt.batch
               /\ net # << >> => HeadAt' = HeadAt
               /\ Contiguous => Contiguous'
    <3>1. net' = net BY <2>2, Zenon DEF StartBatch
    <3> QED BY <1>1, <2>2, <3>1, ChainStart, Zenon
  <2> QED BY <2>1, <2>2, Zenon
<1>7. Gap' <= Gap BY <1>6 DEF Gap
<1>8. Doomed(k)' <= Doomed(k)
  <2>1. /\ Len(sizes) \in Nat /\ Len(sizes') \in Nat /\ Len(sizes) <= Len(sizes')
        /\ \A b \in 1 .. Len(sizes) : HandedOver(b) => HandedOver(b)'
    BY <1>2, HistoryGrows
  <2>2. Settled => Settled'
    <3>1. HeadAt.batch \in 1 .. Len(sizes) => HeadAt.batch \in 1 .. Len(sizes') BY <2>1
    <3>2. \A b : b = HeadAt.batch /\ b \in 1 .. Len(sizes) /\ HandedOver(b)
            => b = HeadAt'.batch /\ HandedOver(b)'
      BY <1>6, <2>1, Zenon
    <3> QED BY <1>6, <3>1, <3>2, Zenon DEF Settled
  <2>3. Clean => Clean' BY <1>3 DEF Dirty
  <2>4. Ready(k) => Ready(k)'
    <3>1. k = 0 \/ net # << >> BY Places DEF Chain
    <3> QED BY <1>6, <2>3, <3>1, Zenon DEF Ready
  <2> QED BY <2>2, <2>4 DEF Doomed
<1>9. Cardinality(Missed') \in Nat /\ Cardinality(Missed') <= Cardinality(Missed)
  BY <1>2, <1>6, MissedGrows, Zenon
<1> DEFINE a1 == Cardinality(Altered)
           a2 == Cardinality(Altered')
           m1 == Cardinality(Missed)
           m2 == Cardinality(Missed')
<1>10. /\ a1 \in Nat /\ a2 \in Nat /\ m1 \in Nat /\ m2 \in Nat /\ a2 <= a1 /\ m2 <= m1
       /\ a1 + Dirty + Gap + k <= faults /\ m1 + Doomed(k) <= 2 * faults
  BY <1>3, <1>5, <1>9
<1> HIDE DEF a1, a2, m1, m2
<1>11. a2 + Dirty' + Gap' + k <= faults'
  <2>1. \A a, c, d, g, h, i, x \in Int :
          c <= a /\ a + d + g + i <= x /\ h <= g => c + d + h + i <= x
    OBVIOUS
  <2>2. /\ a1 \in Int /\ a2 \in Int /\ Dirty \in Int /\ Gap \in Int /\ Gap' \in Int
        /\ k \in Int /\ faults \in Int
    BY <1>4, <1>10
  <2> QED BY <1>2, <1>3, <1>7, <1>10, <2>1, <2>2, Zenon
<1>12. m2 + Doomed(k)' <= 2 * faults' BY <1>2, <1>4, <1>8, <1>10
<1>13. AlterBudget(k)' /\ SpoilBudget(k)'
  BY <1>11, <1>12, Zenon DEF AlterBudget, SpoilBudget, a2, m2
<1> QED BY <1>6, <1>13, Zenon DEF Accounts

\* A datagram that arrives moves what was expected into what happened: the next
\* one follows it, unless it is a duplicate that was paid for.
LEMMA ReceiveAccounts ==
  ASSUME SenderTypes, HandedTypes, AllStarted, BB!IInv, BB!IInv', HandedTypes', Accounts,
         Receive
  PROVE  Accounts'
<1> DEFINE m == net[1]
           b == m.batch
<1>1. PICK k \in 0 .. Len(net) : Chain(k) /\ AlterBudget(k) /\ SpoilBudget(k)
  BY Zenon DEF Accounts
<1>2. /\ net # << >> /\ net' = Tail(net) /\ UNCHANGED <<sizes, left, faults>>
      /\ HeadAt = m /\ Prev' = m /\ StartedIn(sizes, m) /\ [Next]_vars
  BY ReceivedPlace, PlaceBatch, Zenon DEF Next
<1>3. m.countdown \in Nat /\ b \in 1 .. Len(sizes)
  <2>1. m.batch \in 1 .. Len(sizes) /\ m.countdown \in 0 .. sizes[m.batch] - 1
    BY <1>2, Zenon DEF StartedIn
  <2>2. sizes[m.batch] \in Int BY <2>1, Places, SensorChannelAssumption
  <2> QED BY <2>1, <2>2
<1>4. PICK j \in 0 .. Len(net') :
        /\ Chain(j)'
        /\ \/ k > 0 /\ j = k - 1 /\ HeadAt' = HeadAt
           \/ k = 0 /\ j = 0 /\ FollowsIn(sizes, HeadAt, HeadAt')
  BY <1>1, <1>2, ChainTail
<1>5. /\ m.countdown > 0 => handed' = handed
      /\ m.countdown = 0 => Clean'
      /\ Contiguous /\ Clean => Clean'
      /\ Contiguous /\ Clean /\ m.countdown = 0 => \A x : x = b => HandedOver(x)'
  <2>1. /\ m.countdown > 0 => handed' = handed
        /\ m.countdown = 0 => Clean'
        /\ Contiguous /\ Clean => Clean'
        /\ Contiguous /\ Clean /\ m.countdown = 0 => handed' = Append(handed, Sent(b))
    BY ReceivedBatch, Zenon
  <2>2. ASSUME handed' = Append(handed, Sent(b)) PROVE \A x : x = b => HandedOver(x)'
    <3>1. handed \in Seq(Seq(Messages)) BY DEF HandedTypes
    <3>2. Len(handed) \in Nat /\ Len(Append(handed, Sent(b))) = Len(handed) + 1
          /\ Append(handed, Sent(b))[Len(handed) + 1] = Sent(b)
      BY <3>1, AppendPlaces
    <3>3. Len(handed) + 1 \in 1 .. Len(handed') /\ handed'[Len(handed) + 1] = Sent(b)
      BY <2>2, <3>2
    <3>4. \A x : x = b => Sent(x)' = Sent(b) BY <1>2, Zenon DEF Sent
    <3> QED BY <3>3, <3>4, Zenon DEF HandedOver
  <2> QED BY <2>1, <2>2, Zenon
<1>6. \A x \in 1 .. Len(sizes) : HandedOver(x) => HandedOver(x)'
  BY <1>2, HistoryGrows, Zenon
<1>7. /\ Cardinality(Altered) \in Nat /\ Cardinality(Missed) \in Nat
      /\ Cardinality(Altered') \in Nat
      /\ faults \in Nat /\ k \in Nat /\ j \in Nat
      /\ Dirty \in 0 .. 1 /\ Gap \in 0 .. 1 /\ Dirty' \in 0 .. 1 /\ Gap' \in 0 .. 1
      /\ Doomed(k) \in 0 .. 1 /\ Doomed(j)' \in 0 .. 1
  BY <1>2, Places, FiniteAccounts, AlteredGrows DEF Dirty, Gap, Doomed
<1>8. /\ Cardinality(Altered) + Dirty + Gap + k <= faults
      /\ Cardinality(Missed) + Doomed(k) <= 2 * faults
  BY <1>1, Zenon DEF AlterBudget, SpoilBudget
<1>9. Gap' + j <= k
  <2>1. CASE k > 0 /\ j = k - 1
    <3>1. \A g \in 0 .. 1 : \A i \in Nat : g + (i - 1) <= i OBVIOUS
    <3> QED BY <1>7, <2>1, <3>1, Zenon
  <2>2. CASE k = 0 /\ j = 0 /\ FollowsIn(sizes, HeadAt, HeadAt')
    <3>1. Contiguous' BY <1>2, <2>2, Zenon DEF Contiguous, FollowsIn
    <3>2. Gap' = 0 BY <3>1, Zenon DEF Gap
    <3>3. 0 + 0 <= 0 OBVIOUS
    <3> QED BY <2>2, <3>2, <3>3, Zenon
  <2> QED BY <1>4, <2>1, <2>2, Zenon
<1>10. Cardinality(Altered') + Dirty' + Gap' + j <= faults'
  <2> DEFINE a1 == Cardinality(Altered)
             a2 == Cardinality(Altered')
             d1 == Dirty
             d2 == Dirty'
             g1 == Gap
             g2 == Gap'
             f == faults
  <2>1. a2 + d2 <= a1 + d1 + g1 BY ReceivedAltered
  <2>2. /\ a1 \in Nat /\ a2 \in Nat /\ k \in Nat /\ j \in Nat /\ f \in Nat /\ faults' = f
        /\ d1 \in 0 .. 1 /\ d2 \in 0 .. 1 /\ g1 \in 0 .. 1 /\ g2 \in 0 .. 1
        /\ a1 + d1 + g1 + k <= f /\ g2 + j <= k
    BY <1>2, <1>7, <1>8, <1>9
  <2> HIDE DEF a1, a2, d1, d2, g1, g2, f
  <2>3. a2 + d2 + g2 + j <= f BY <2>1, <2>2
  <2> QED BY <2>2, <2>3, Zenon DEF a2, d2, g2
<1>11. /\ Cardinality(Missed') \in Nat
       /\ Cardinality(Missed') + Doomed(j)' <= Cardinality(Missed) + Doomed(k)
  <2>1. CASE HeadAt'.batch = HeadAt.batch /\ (Ready(k) => Ready(j)' \/ \A x : x = b => HandedOver(x)')
    <3>1. Cardinality(Missed') \in Nat /\ Cardinality(Missed') <= Cardinality(Missed)
      BY <1>2, <2>1, MissedGrows, Zenon
    <3>2. Settled => Settled'
      BY <1>2, <1>6, <2>1, Zenon DEF Settled
    <3>3. (\A x : x = b => HandedOver(x)') => Settled'
      BY <1>2, <1>3, <2>1, Zenon DEF Settled
    <3>4. (Settled \/ Ready(k)) => (Settled' \/ Ready(j)')
      BY <2>1, <3>2, <3>3, Zenon
    <3>5. Doomed(j)' <= Doomed(k)
      BY <3>4 DEF Doomed
    <3> QED BY <1>7, <3>1, <3>5
  <2>2. CASE k > 0 /\ HeadAt' = HeadAt
    <3>1. Ready(k) => \A x : x = b => HandedOver(x)'
      <4>1. k # 0 BY <1>7, <2>2
      <4> QED BY <1>2, <1>5, <4>1, Zenon DEF Ready
    <3> QED BY <2>1, <2>2, <3>1, Zenon
  <2>3. CASE k = 0 /\ j = 0 /\ FollowsIn(sizes, HeadAt, HeadAt')
    <3>1. Contiguous' BY <1>2, <2>3, Zenon DEF Contiguous, FollowsIn
    <3>2. CASE m.countdown > 0
      <4>1. HeadAt'.batch = HeadAt.batch BY <1>2, <2>3, <3>2, Zenon DEF FollowsIn
      <4>2. Ready(k) => Ready(j)' BY <1>5, <2>3, <3>1, Zenon DEF Ready
      <4> QED BY <2>1, <4>1, <4>2
    <3>3. CASE ~(m.countdown > 0)
      <4>1. HeadAt'.batch = HeadAt.batch + 1 BY <1>2, <2>3, <3>3, Zenon DEF FollowsIn
      <4>2. m.countdown = 0 BY <1>3, <3>3
      <4>3. Ready(j)' BY <1>5, <2>3, <3>1, <4>2, Zenon DEF Ready
      <4>4. Doomed(j)' = 0 BY <4>3, Zenon DEF Doomed
      <4>5. Cardinality(Missed') \in Nat /\ Cardinality(Missed') <= Cardinality(Missed) + 1
        BY <1>2, <4>1, MissedGrows, Zenon
      <4>6. CASE Settled \/ Ready(k)
        <5>1. \A x : x = HeadAt.batch => HandedOver(x)'
          BY <1>2, <1>5, <1>6, <4>2, <4>6, Zenon DEF Settled, Ready
        <5>2. Cardinality(Missed') <= Cardinality(Missed)
          BY <1>2, <4>1, <5>1, MissedGrows, Zenon
        <5> QED BY <1>7, <4>4, <4>5, <5>2
      <4>7. CASE ~(Settled \/ Ready(k))
        <5>1. Doomed(k) = 1 BY <4>7, Zenon DEF Doomed
        <5> QED BY <1>7, <4>4, <4>5, <5>1
      <4> QED BY <4>6, <4>7
    <3> QED BY <3>2, <3>3
  <2> QED BY <1>4, <2>2, <2>3, Zenon
<1>12. Cardinality(Missed') + Doomed(j)' <= 2 * faults'
  BY <1>2, <1>7, <1>8, <1>11, SMTT(30)
<1> QED BY <1>4, <1>10, <1>12, Zenon DEF Accounts, AlterBudget, SpoilBudget

(***************************************************************************)
(* The invariant.                                                          *)
(***************************************************************************)
\* At first nothing was sent, and no fault has to pay for anything.
THEOREM InvariantInit == Init => IInv
<1> SUFFICES ASSUME Init PROVE IInv
  OBVIOUS
<1>1. /\ sizes = << >> /\ left = 0 /\ net = << >> /\ faults = 0 /\ handed = << >>
      /\ arrivals = << >> /\ BB!Init
  <2>1. BB!Init BY SameBuffer, Zenon DEF Init
  <2> QED BY <2>1, Zenon DEF Init, BB!Init
<1>2. SenderTypes BY <1>1, SensorChannelAssumption DEF SenderTypes
<1>3. HandedTypes BY <1>1 DEF HandedTypes
<1>4. AllStarted BY <1>1 DEF AllStarted
<1>5. BB!IInv BY <1>1, BufferAssumption, BB!InvariantInit
<1>6. Accounts
  <2>1. /\ Len(net) = 0 /\ Len(sizes) = 0 /\ Len(handed) = 0 /\ 0 \in 0 .. Len(net)
    BY <1>1
  <2>2. Prev = [batch |-> 0, countdown |-> 0] BY <1>1, Zenon DEF Prev, Blank
  <2>3. HeadAt = [batch |-> 1, countdown |-> 0]
    BY <1>1, <2>1 DEF HeadAt, At, SenderAt
  <2>4. Clean BY <2>2 DEF Clean
  <2>5. Contiguous BY <2>1, <2>2, <2>3 DEF Contiguous, FollowsIn
  <2>6. Altered = {} /\ Missed = {} BY <2>1 DEF Altered, Missed
  <2>7. Cardinality(Altered) = 0 /\ Cardinality(Missed) = 0
    BY <2>6, FS_EmptySet, Zenon
  <2>8. Dirty = 0 /\ Gap = 0 /\ Doomed(0) = 0
    BY <2>4, <2>5, Zenon DEF Dirty, Gap, Doomed, Ready
  <2>9. Chain(0) BY <2>1 DEF Chain
  <2>10. AlterBudget(0) /\ SpoilBudget(0)
    <3>1. 0 + 0 + 0 + 0 <= 0 /\ 0 + 0 <= 2 * 0 OBVIOUS
    <3> QED BY <1>1, <2>7, <2>8, <3>1, Zenon DEF AlterBudget, SpoilBudget
  <2> QED BY <2>1, <2>9, <2>10, Zenon DEF Accounts
<1> QED BY <1>2, <1>3, <1>4, <1>5, <1>6, Zenon DEF IInv

\* No step spends more than the faults have paid for.
THEOREM InvariantStep == IInv /\ [Next]_vars => IInv'
<1> SUFFICES ASSUME IInv, [Next]_vars PROVE IInv'
  OBVIOUS
<1>1. SenderTypes /\ HandedTypes /\ AllStarted /\ BB!IInv /\ Accounts
  BY Zenon DEF IInv
<1>2. SenderTypes' BY <1>1, SenderTypesKept
<1>3. BB!IInv' BY <1>1, BufferKept
<1>4. HandedTypes' BY <1>1, <1>3, HandedTypesKept
<1>5. AllStarted' BY <1>1, AllStartedKept
<1>6. Accounts'
  <2>1. CASE Lose \/ Duplicate
    BY <1>1, <1>3, <1>4, <2>1, FaultAccounts
  <2>2. CASE Send \/ \E n \in 1 .. MAX_BUF_MSG : StartBatch(n)
    BY <1>1, <1>3, <1>4, <2>2, SenderAccounts
  <2>3. CASE Receive
    BY <1>1, <1>3, <1>4, <2>3, ReceiveAccounts
  <2>4. CASE UNCHANGED vars
    <3>1. /\ UNCHANGED <<sizes, left, net, faults, handed>>
          /\ UNCHANGED <<buf, buf_size, last_countdown, delivered, arrivals>>
      BY <2>4, Zenon DEF vars, bufferVars
    <3>2. HeadAt' = HeadAt /\ Prev' = Prev /\ Missed' = Missed /\ Altered' = Altered
          /\ (Clean' <=> Clean) /\ (Contiguous' <=> Contiguous) /\ (Settled' <=> Settled)
      <4>1. SenderAt' = SenderAt /\ Prev' = Prev BY <3>1, Zenon DEF SenderAt, Prev
      <4>2. HeadAt' = HeadAt BY <3>1, <4>1 DEF HeadAt, At
      <4>3. \A b : Sent(b)' = Sent(b) BY <3>1, Zenon DEF Sent
      <4>4. \A b : HandedOver(b)' <=> HandedOver(b) BY <3>1, <4>3, Zenon DEF HandedOver
      <4>5. \A h : Whole(h)' <=> Whole(h) BY <3>1, <4>3, Zenon DEF Whole
      <4>6. Missed' = Missed
        BY <3>1, <4>2, <4>4 DEF Missed
      <4>7. Altered' = Altered
        BY <3>1, <4>5 DEF Altered
      <4>8. /\ Contiguous' <=> Contiguous
            /\ Settled' <=> Settled
        BY <3>1, <4>1, <4>2, <4>4 DEF Contiguous, FollowsIn, Settled
      <4>9. Clean' <=> Clean
        BY <3>1, <4>1, <4>3 DEF Clean
      <4> QED BY <4>1, <4>2, <4>6, <4>7, <4>8, <4>9
    <3>3. \A k : Chain(k) => Chain(k)'
      <4>1. \A i : At(i)' = At(i) BY <3>1 DEF At, SenderAt
      <4> QED BY <3>1, <4>1, Zenon DEF Chain, FollowsIn
    <3>4. \A k : Doomed(k)' = Doomed(k) /\ Dirty' = Dirty /\ Gap' = Gap
      BY <3>2, Zenon DEF Doomed, Ready, Dirty, Gap
    <3>5. \A k : (AlterBudget(k) => AlterBudget(k)') /\ (SpoilBudget(k) => SpoilBudget(k)')
      BY <3>1, <3>2, <3>4, Zenon DEF AlterBudget, SpoilBudget
    <3> QED BY <1>1, <3>1, <3>3, <3>5, Zenon DEF Accounts
  <2> QED BY <2>1, <2>2, <2>3, <2>4, Zenon DEF Next
<1> QED BY <1>2, <1>3, <1>4, <1>5, <1>6, Zenon DEF IInv

\* The invariant holds in every reachable state.
THEOREM InvariantHolds == Spec => []IInv
  BY InvariantInit, InvariantStep, PTL DEF Spec

\* Every variable keeps its type, the slots of the receiver's buffer included.
THEOREM TypeCorrect == Spec => []TypeOK
<1>1. IInv => TypeOK
  BY SameBuffer, Zenon DEF IInv, SenderTypes, HandedTypes, BB!IInv, TypeOK
<1> QED
  BY InvariantHolds, <1>1, PTL

\* The receiver is the buffer of BatchBuffer, whatever the network does.
THEOREM ImplementsBuffer == Spec => Buffer!Spec
<1>1. Init => Buffer!Init
  BY DEF Init
<1>2. IInv /\ [Next]_vars => [Buffer!Next]_(Buffer!bbVars)
  <2> SUFFICES ASSUME IInv, [Next]_vars PROVE [Buffer!Next]_(Buffer!bbVars)
    OBVIOUS
  <2>1. [BB!Next]_(BB!bbVars) BY BufferStep DEF IInv
  <2> QED
    BY <2>1, SameBuffer, Zenon DEF Buffer!Next, BB!Next, Buffer!bbVars, BB!bbVars,
                                   Buffer!bufferVars, BB!bufferVars
<1> QED
  BY <1>1, <1>2, InvariantHolds, PTL DEF Spec, Buffer!Spec

\* Each fault leads to at most one batch handed over that was never sent.
THEOREM AltersAtMostOne == Spec => []FaultAltersAtMostOne
<1>1. IInv => FaultAltersAtMostOne
  <2> SUFFICES ASSUME IInv PROVE Cardinality(Altered) <= faults
    BY Zenon DEF Altered, FaultAltersAtMostOne
  <2>1. SenderTypes /\ HandedTypes /\ Accounts BY Zenon DEF IInv
  <2>2. PICK k \in 0 .. Len(net) : Cardinality(Altered) + Dirty + Gap + k <= faults
    BY <2>1, Zenon DEF Accounts, AlterBudget
  <2>3. Dirty \in 0 .. 1 /\ Gap \in 0 .. 1 /\ k \in Nat /\ faults \in Nat
        /\ Cardinality(Altered) \in Nat
    BY <2>1, Places, FiniteAccounts DEF Dirty, Gap
  <2> QED BY <2>2, <2>3
<1> QED
  BY InvariantHolds, <1>1, PTL

\* Once everything is sent and received, a fault has cost at most two batches.
THEOREM SpoilsAtMostTwo == Spec => []FaultSpoilsAtMostTwo
<1>1. IInv => FaultSpoilsAtMostTwo
  <2> SUFFICES ASSUME IInv, left = 0, net = << >> PROVE Cardinality(Spoiled) <= 2 * faults
    BY Zenon DEF FaultSpoilsAtMostTwo
  <2>1. SenderTypes /\ HandedTypes /\ AllStarted /\ Accounts BY Zenon DEF IInv
  <2>2. PICK k \in 0 .. Len(net) : Cardinality(Missed) + Doomed(k) <= 2 * faults
    BY <2>1, Zenon DEF Accounts, SpoilBudget
  <2>3. Doomed(k) \in 0 .. 1 /\ faults \in Nat /\ Cardinality(Missed) \in Nat /\ Len(sizes) \in Nat
    BY <2>1, Places, FiniteAccounts DEF Doomed
  <2>4. HeadAt.batch = Len(sizes) + 1 BY <2>1, PlaceBatch
  <2>5. Missed = Spoiled
    <3>1. \A b \in 1 .. Len(sizes) : b < HeadAt.batch BY <2>3, <2>4
    <3> QED BY <3>1, Zenon DEF Missed, Spoiled, HandedOver
  <2>6. Cardinality(Missed) <= 2 * faults BY <2>2, <2>3
  <2> QED BY <2>5, <2>6
<1> QED
  BY InvariantHolds, <1>1, PTL
=============================================================================
