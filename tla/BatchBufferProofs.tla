-------------------------- MODULE BatchBufferProofs --------------------------
(***************************************************************************)
(* For every buffer size and every stream of messages: what is handed over *)
(* is consecutive, and a batch that follows another is handed over whole.  *)
(* Both follow from IInv, which every step preserves.                      *)
(***************************************************************************)
EXTENDS BatchBuffer, TLAPS

\* A step only appends to what arrived.
LEMMA ArrivalsGrow ==
  ASSUME NEW m \in Messages, arrivals \in Seq(Messages), Arrive(m)
  PROVE  /\ arrivals' \in Seq(Messages)
         /\ Len(arrivals) \in Nat
         /\ Len(arrivals') = Len(arrivals) + 1
         /\ arrivals'[Len(arrivals) + 1] = m
         /\ \A i \in 1 .. Len(arrivals) : arrivals'[i] = arrivals[i]
BY DEF Arrive

\* Widths and array bounds are kept by every step.
LEMMA TypeStep ==
  ASSUME TypeOK, NEW m \in Messages, Receive(m)
  PROVE  TypeOK'
<1> USE BatchBufferAssumption
<1>1. m.countdown \in Nat
  OBVIOUS
<1>2. arrivals' \in Seq(Messages) /\ Len(arrivals') \in Nat
  BY ArrivalsGrow DEF Receive, TypeOK
<1>3. Fits(m) => /\ SizeWith(m) \in 0 .. MAX_BUF_MSG
                 /\ SlotsWith(m) \in [Slots -> Messages \cup {Blank}]
                 /\ m.countdown \in Slots
  <2> SUFFICES ASSUME Fits(m)
               PROVE  /\ SizeWith(m) \in 0 .. MAX_BUF_MSG
                      /\ SlotsWith(m) \in [Slots -> Messages \cup {Blank}]
                      /\ m.countdown \in Slots
    OBVIOUS
  <2>1. m.countdown \in Slots
    BY <1>1 DEF Fits, Slots
  <2>2. SizeWith(m) \in 0 .. MAX_BUF_MSG
    BY <1>1 DEF Fits, SizeWith, TypeOK
  <2>3. SlotsWith(m) \in [Slots -> Messages \cup {Blank}]
    BY DEF SlotsWith, TypeOK
  <2> QED
    BY <2>1, <2>2, <2>3
<1>4. CASE Hold(m)
  BY <1>2, <1>3, <1>4 DEF Hold, TypeOK
<1>5. CASE Deliver(m)
  BY <1>2, <1>3, <1>5 DEF Deliver, TypeOK, Slots
<1>6. CASE Clear(m)
  BY <1>2, <1>6 DEF Clear, TypeOK, Slots
<1> QED
  BY <1>4, <1>5, <1>6 DEF Receive

\* The first k slots hold the k messages up to arrival e of arr, the first of
\* which announced a batch of the given size.
Holds(slots, arr, e, size, k) ==
  /\ k \in 1 .. e
  /\ size \in 1 .. MAX_BUF_MSG
  /\ \A i \in 1 .. k : /\ arr[e - k + i].countdown = size - i
                       /\ slots[i - 1] = arr[e - k + i]

\* After a message that fits, the slots hold the messages of its batch.
LEMMA HeldWith ==
  ASSUME TypeOK, HeldIsConsecutive, NEW m \in Messages, Arrive(m), Fits(m)
  PROVE  Holds(SlotsWith(m), arrivals', Len(arrivals) + 1, SizeWith(m),
               SizeWith(m) - m.countdown)
<1> USE BatchBufferAssumption
<1> DEFINE L == Len(arrivals)
           n == SizeWith(m) - m.countdown
<1>1. /\ L \in Nat
      /\ Len(arrivals') = L + 1
      /\ arrivals'[L + 1] = m
      /\ \A i \in 1 .. L : arrivals'[i] = arrivals[i]
  BY ArrivalsGrow DEF TypeOK
<1>2. m.countdown \in Nat
  OBVIOUS
<1>3. CASE buf_size = 0
  <2>1. n = 1 /\ SizeWith(m) = m.countdown + 1
    BY <1>2, <1>3 DEF SizeWith
  <2>2. SlotsWith(m)[0] = m
    BY <1>2, <2>1 DEF SlotsWith, TypeOK, Slots
  <2> QED
    BY <1>1, <1>2, <2>1, <2>2 DEF Fits, Holds
<1>4. CASE buf_size > 0
  <2>1. /\ last_countdown \in 1 .. buf_size - 1
        /\ buf_size \in 1 .. MAX_BUF_MSG
        /\ m.countdown = last_countdown - 1
        /\ SizeWith(m) = buf_size
        /\ n = buf_size - last_countdown + 1
    <3>1. last_countdown \in 1 .. buf_size - 1
      BY <1>4 DEF HeldIsConsecutive
    <3>2. buf_size \in 1 .. MAX_BUF_MSG
      BY <1>4 DEF TypeOK
    <3>3. SizeWith(m) = buf_size
      BY <1>4, <3>2 DEF SizeWith
    <3>4. m.countdown = last_countdown - 1
      BY <1>2, <1>4, <3>1, <3>2 DEF Fits
    <3> QED
      BY <3>1, <3>2, <3>3, <3>4
  <2> DEFINE k == buf_size - last_countdown
  <2>2. /\ k \in 1 .. L
        /\ n = k + 1
        /\ \A i \in 1 .. k : /\ arrivals[L - k + i].countdown = buf_size - i
                             /\ buf[i - 1] = arrivals[L - k + i]
    <3>1. k \in 1 .. L /\ n = k + 1
      BY <1>1, <1>4, <2>1 DEF HeldIsConsecutive, CountsDown
    <3>2. \A i \in 1 .. k : arrivals[L - k + i].countdown = buf_size - 1 + 1 - i
      BY <1>4 DEF HeldIsConsecutive, CountsDown
    <3>3. \A i \in 1 .. k : buf_size - 1 + 1 - i = buf_size - i
      BY <2>1
    <3>4. \A i \in 1 .. k : buf[i - 1] = arrivals[L - k + i]
      BY <1>4 DEF HeldIsConsecutive
    <3> QED
      BY <3>1, <3>2, <3>3, <3>4
  <2>3. SlotsWith(m) = [buf EXCEPT ![n - 1] = m]
    BY <1>2, <2>1 DEF SlotsWith
  <2>4. n - 1 \in Slots
    BY <2>1 DEF Slots
  <2>5. ASSUME NEW i \in 1 .. k + 1
        PROVE  /\ arrivals'[L + 1 - (k + 1) + i].countdown = buf_size - i
               /\ SlotsWith(m)[i - 1] = arrivals'[L + 1 - (k + 1) + i]
    <3>1. CASE i = k + 1
      <4>1. L + 1 - (k + 1) + i = L + 1 /\ i - 1 = n - 1
        BY <1>1, <2>2, <3>1
      <4>2. SlotsWith(m)[n - 1] = m
        BY <2>3, <2>4 DEF TypeOK
      <4>3. m.countdown = buf_size - i
        BY <2>1, <3>1
      <4> QED
        BY <1>1, <4>1, <4>2, <4>3
    <3>2. CASE i \in 1 .. k
      <4>1. L + 1 - (k + 1) + i = L - k + i /\ L - k + i \in 1 .. L
        BY <1>1, <2>1, <2>2, <3>2
      <4>2. arrivals'[L + 1 - (k + 1) + i] = arrivals[L - k + i]
        BY <1>1, <4>1
      <4>3. SlotsWith(m)[i - 1] = buf[i - 1]
        BY <2>1, <2>2, <2>3, <2>4, <3>2 DEF TypeOK, Slots
      <4> QED
        BY <2>2, <3>2, <4>2, <4>3
    <3> QED
      BY <2>2, <3>1, <3>2
  <2>6. k + 1 \in 1 .. L + 1 /\ buf_size \in 1 .. MAX_BUF_MSG
    BY <1>1, <2>1, <2>2
  <2>7. Holds(SlotsWith(m), arrivals', L + 1, buf_size, k + 1)
    BY <2>5, <2>6 DEF Holds
  <2> HIDE DEF k
  <2> QED
    BY <2>1, <2>2, <2>7
<1> QED
  BY <1>3, <1>4 DEF TypeOK

\* What was handed over earlier stays what it is when a message arrives.
LEMMA DeliveredKept ==
  ASSUME TypeOK, DeliveredIsConsecutive, NEW m \in Messages, Arrive(m),
         UNCHANGED delivered
  PROVE  DeliveredIsConsecutive'
<1> DEFINE d == delivered
<1>1. /\ Len(arrivals) \in Nat
      /\ Len(arrivals') = Len(arrivals) + 1
      /\ \A i \in 1 .. Len(arrivals) : arrivals'[i] = arrivals[i]
  BY ArrivalsGrow DEF TypeOK
<1>2. d.upto \in Nat /\ d.size \in Nat /\ d.upto <= Len(arrivals) /\ d.size <= d.upto
  BY BatchBufferAssumption DEF TypeOK, DeliveredIsConsecutive, CountsDown
<1>3. ASSUME NEW i \in 1 .. d.size
      PROVE  arrivals'[d.upto - d.size + i] = arrivals[d.upto - d.size + i]
  <2>1. d.upto - d.size + i \in 1 .. Len(arrivals)
    BY <1>1, <1>2
  <2> QED
    BY <1>1, <2>1
<1>4. /\ d.upto <= Len(arrivals')
      /\ \A i \in 1 .. d.size :
           /\ arrivals'[d.upto - d.size + i].countdown = d.size - 1 + 1 - i
           /\ d.slots[i - 1] = arrivals'[d.upto - d.size + i]
  BY <1>1, <1>2, <1>3 DEF DeliveredIsConsecutive, CountsDown
<1> HIDE DEF d
<1> QED
  BY <1>2, <1>4 DEF DeliveredIsConsecutive, CountsDown, d

\* What a step hands over is consecutive, and what was handed over stays so.
LEMMA DeliveredStep ==
  ASSUME TypeOK, DeliveredIsConsecutive, HeldIsConsecutive,
         NEW m \in Messages, Receive(m)
  PROVE  DeliveredIsConsecutive'
<1>1. CASE Deliver(m)
  <2> DEFINE n == SizeWith(m)
             E == Len(arrivals) + 1
  <2>0. Arrive(m) /\ Fits(m)
    BY <1>1 DEF Receive, Deliver
  <2>1. m.countdown = 0
    BY <1>1 DEF Deliver
  <2> DEFINE c == m.countdown
  <2>2. /\ n - c \in 1 .. E
        /\ n \in 1 .. MAX_BUF_MSG
        /\ \A i \in 1 .. n - c : /\ arrivals'[E - (n - c) + i].countdown = n - i
                                 /\ SlotsWith(m)[i - 1] = arrivals'[E - (n - c) + i]
    <3>1. Holds(SlotsWith(m), arrivals', E, n, n - c)
      BY <2>0, HeldWith
    <3> QED
      BY <3>1 DEF Holds
  <2>3. E \in Nat /\ n \in Nat
    <3>1. E \in Nat
      BY DEF TypeOK
    <3>2. MAX_BUF_MSG \in Nat
      BY BatchBufferAssumption
    <3> HIDE DEF n, E, c
    <3> QED
      BY <2>2, <3>1, <3>2
  <2>4. n - c = n /\ \A i \in 1 .. n : n - i = n - 1 + 1 - i
    BY <2>1, <2>2, <2>3
  <2>5. /\ delivered'.size = n
        /\ delivered'.slots = SlotsWith(m)
        /\ delivered'.upto = E
        /\ Len(arrivals') = E
    BY <1>1, <2>0, ArrivalsGrow DEF Deliver, TypeOK
  <2> HIDE DEF n, E
  <2>6. /\ E <= E
        /\ n <= E
        /\ \A i \in 1 .. n : /\ arrivals'[E - n + i].countdown = n - 1 + 1 - i
                             /\ SlotsWith(m)[i - 1] = arrivals'[E - n + i]
    BY <2>2, <2>3, <2>4
  <2> QED
    BY <2>5, <2>6 DEF DeliveredIsConsecutive, CountsDown
<1>2. CASE Hold(m) \/ Clear(m)
  BY <1>2, DeliveredKept DEF Receive, Hold, Clear
<1> QED
  BY <1>1, <1>2 DEF Receive

\* The slots keep holding the batch being received.
LEMMA HeldStep ==
  ASSUME TypeOK, HeldIsConsecutive, NEW m \in Messages, Receive(m)
  PROVE  HeldIsConsecutive'
<1>1. CASE Hold(m)
  <2> DEFINE n == SizeWith(m)
             c == m.countdown
             E == Len(arrivals) + 1
  <2>0. Arrive(m) /\ Fits(m)
    BY <1>1 DEF Receive, Hold
  <2>1. c > 0 /\ c \in Nat
    BY <1>1, BatchBufferAssumption DEF Hold
  <2>2. /\ n - c \in 1 .. E
        /\ n \in 1 .. MAX_BUF_MSG
        /\ \A i \in 1 .. n - c : /\ arrivals'[E - (n - c) + i].countdown = n - i
                                 /\ SlotsWith(m)[i - 1] = arrivals'[E - (n - c) + i]
    <3>1. Holds(SlotsWith(m), arrivals', E, n, n - c)
      BY <2>0, HeldWith
    <3> QED
      BY <3>1 DEF Holds
  <2>3. E \in Nat /\ n \in Nat
    <3>1. E \in Nat
      BY DEF TypeOK
    <3>2. MAX_BUF_MSG \in Nat
      BY BatchBufferAssumption
    <3> HIDE DEF n, E, c
    <3> QED
      BY <2>2, <3>1, <3>2
  <2>4. \A i \in 1 .. n - c : n - i = n - 1 + 1 - i
    BY <2>1, <2>2, <2>3
  <2>5. /\ buf' = SlotsWith(m) /\ buf_size' = n /\ last_countdown' = c
        /\ Len(arrivals') = E
    BY <1>1, <2>0, ArrivalsGrow DEF Hold, TypeOK
  <2> HIDE DEF n, c, E
  <2>6. c \in 1 .. n - 1 /\ n - c <= E
    BY <2>1, <2>2, <2>3
  <2>7. \A i \in 1 .. n - c : /\ arrivals'[E - (n - c) + i].countdown = n - 1 + 1 - i
                              /\ SlotsWith(m)[i - 1] = arrivals'[E - (n - c) + i]
    BY <2>2, <2>4
  <2> QED
    BY <2>5, <2>6, <2>7 DEF HeldIsConsecutive, CountsDown
<1>2. CASE Deliver(m) \/ Clear(m)
  BY <1>2 DEF HeldIsConsecutive, Deliver, Clear
<1> QED
  BY <1>1, <1>2 DEF Receive

\* The buffer is empty after each countdown of 0.
LEMMA EmptyStep ==
  ASSUME TypeOK, NEW m \in Messages, Receive(m)
  PROVE  EmptyAtBoundary'
<1>1. Len(arrivals') = Len(arrivals) + 1 /\ arrivals'[Len(arrivals')] = m
  BY ArrivalsGrow DEF Receive, TypeOK
<1>2. Len(arrivals') # 0
  BY <1>1 DEF TypeOK
<1>3. CASE m.countdown = 0
  BY <1>3 DEF EmptyAtBoundary, Receive, Hold, Deliver, Clear
<1>4. CASE m.countdown # 0
  BY <1>1, <1>2, <1>4 DEF EmptyAtBoundary, Boundary
<1> QED
  BY <1>3, <1>4

\* What an arrival says about the arrivals before it: it is the last message
\* of the n that count down from c, and those before it count down from c too.
LEMMA CountsDownBefore ==
  ASSUME NEW m \in Messages, arrivals \in Seq(Messages), Arrive(m),
         NEW n \in Nat \ {0}, NEW c \in Int,
         CountsDown(Len(arrivals), n, c)', Boundary(Len(arrivals) - n)'
  PROVE  /\ m.countdown = c + 1 - n
         /\ CountsDown(Len(arrivals), n - 1, c)
         /\ Boundary(Len(arrivals) - (n - 1))
<1> DEFINE L == Len(arrivals)
<1>1. /\ L \in Nat
      /\ Len(arrivals') = L + 1
      /\ arrivals'[L + 1] = m
      /\ \A i \in 1 .. L : arrivals'[i] = arrivals[i]
  BY ArrivalsGrow
<1>2. n <= L + 1 /\ \A i \in 1 .. n : arrivals'[L + 1 - n + i].countdown = c + 1 - i
  BY <1>1 DEF CountsDown
<1>3. arrivals'[L + 1 - n + n] = arrivals'[L + 1] /\ n \in 1 .. n
  BY <1>1
<1>4. m.countdown = c + 1 - n
  BY <1>1, <1>2, <1>3
<1>5. ASSUME NEW i \in 1 .. n - 1
      PROVE  arrivals[L - (n - 1) + i].countdown = c + 1 - i
  <2>1. i \in 1 .. n /\ L + 1 - n + i = L - (n - 1) + i /\ L - (n - 1) + i \in 1 .. L
    BY <1>1, <1>2
  <2> QED
    BY <1>1, <1>2, <2>1
<1>6. CountsDown(L, n - 1, c)
  BY <1>1, <1>2, <1>5 DEF CountsDown
<1>7. Boundary(L - (n - 1))
  <2>1. L + 1 - n = 0 \/ arrivals'[L + 1 - n].countdown = 0
    BY <1>1 DEF Boundary
  <2>2. L + 1 - n = L - (n - 1) /\ L + 1 - n \in 0 .. L
    BY <1>1, <1>2
  <2> QED
    BY <1>1, <2>1, <2>2 DEF Boundary
<1> QED
  BY <1>4, <1>6, <1>7

\* When the first k messages of a batch of n arrive after a boundary, the
\* buffer takes each of them: it fits, and the batch has room for n.
LEMMA BeginningFits ==
  ASSUME TypeOK, EmptyAtBoundary, BeginningIsHeld, NEW m \in Messages, Arrive(m),
         NEW n \in 1 .. MAX_BUF_MSG, NEW k \in 1 .. n,
         CountsDown(Len(arrivals), k, n - 1)', Boundary(Len(arrivals) - k)'
  PROVE  m.countdown = n - k /\ Fits(m) /\ SizeWith(m) = n
<1> USE BatchBufferAssumption
<1>1. /\ m.countdown = n - 1 + 1 - k
      /\ CountsDown(Len(arrivals), k - 1, n - 1)
      /\ Boundary(Len(arrivals) - (k - 1))
  BY CountsDownBefore DEF TypeOK
<1>2. m.countdown = n - k /\ Len(arrivals) \in Nat
  BY <1>1 DEF TypeOK
<1>3. CASE k = 1
  <2>1. Len(arrivals) - (k - 1) = Len(arrivals)
    BY <1>2, <1>3
  <2>2. buf_size = 0
    BY <1>1, <2>1 DEF EmptyAtBoundary
  <2> QED
    BY <1>2, <1>3, <2>2 DEF Fits, SizeWith
<1>4. CASE k # 1
  <2>1. k - 1 \in 1 .. n - 1
    BY <1>4
  <2>2. buf_size = n /\ last_countdown = n - (k - 1)
    BY <1>1, <2>1 DEF BeginningIsHeld
  <2> QED
    BY <1>2, <2>2 DEF Fits, SizeWith
<1> QED
  BY <1>3, <1>4

\* The beginning of a batch is held after every step.
LEMMA BeginningStep ==
  ASSUME TypeOK, EmptyAtBoundary, BeginningIsHeld, NEW m \in Messages, Receive(m)
  PROVE  BeginningIsHeld'
<1> SUFFICES ASSUME NEW n \in 1 .. MAX_BUF_MSG, NEW k \in 1 .. n - 1,
                    CountsDown(Len(arrivals), k, n - 1)', Boundary(Len(arrivals) - k)'
             PROVE  buf_size' = n /\ last_countdown' = n - k
  BY DEF BeginningIsHeld
<1>1. k \in 1 .. n
  BY BatchBufferAssumption
<1>2. m.countdown = n - k /\ Fits(m) /\ SizeWith(m) = n
  BY <1>1, BeginningFits DEF Receive
<1>3. m.countdown > 0
  BY <1>2, BatchBufferAssumption
<1> QED
  BY <1>2, <1>3 DEF Receive, Hold, Deliver, Clear

\* A batch is handed over by the step that completes it.
LEMMA CompleteStep ==
  ASSUME TypeOK, EmptyAtBoundary, BeginningIsHeld, NEW m \in Messages, Receive(m)
  PROVE  CompleteBatchDelivered'
<1> SUFFICES ASSUME NEW n \in 1 .. MAX_BUF_MSG,
                    CountsDown(Len(arrivals), n, n - 1)', Boundary(Len(arrivals) - n)'
             PROVE  delivered'.upto = Len(arrivals') /\ delivered'.size = n
  BY DEF CompleteBatchDelivered
<1>1. m.countdown = n - n /\ Fits(m) /\ SizeWith(m) = n
  BY BeginningFits, BatchBufferAssumption DEF Receive
<1>2. m.countdown = 0
  BY <1>1, BatchBufferAssumption
<1> QED
  BY <1>1, <1>2 DEF Receive, Hold, Deliver, Clear

\* Every arrival preserves the invariant.
THEOREM InvariantStep == IInv /\ [Next]_bbVars => IInv'
<1> SUFFICES ASSUME IInv, [Next]_bbVars
             PROVE  IInv'
  OBVIOUS
<1>1. ASSUME NEW m \in Messages, Receive(m)
      PROVE  IInv'
  BY <1>1, TypeStep, DeliveredStep, HeldStep, EmptyStep, BeginningStep, CompleteStep
     DEF IInv
<1>2. CASE UNCHANGED bbVars
  BY <1>2 DEF IInv, bbVars, bufferVars, TypeOK, DeliveredIsConsecutive,
              CompleteBatchDelivered, HeldIsConsecutive, EmptyAtBoundary,
              BeginningIsHeld, CountsDown, Boundary
<1> QED
  BY <1>1, <1>2 DEF Next

\* It holds before the first message.
THEOREM InvariantInit == Init => IInv
<1> SUFFICES ASSUME Init PROVE IInv
  OBVIOUS
<1> USE BatchBufferAssumption
<1>1. TypeOK
  BY DEF Init, TypeOK, Slots
<1>2. Len(arrivals) = 0 /\ buf_size = 0 /\ delivered.size = 0 /\ delivered.upto = 0
  BY DEF Init
<1>3. \A n \in Nat \ {0}, c \in Int : ~CountsDown(Len(arrivals), n, c)
  BY <1>2 DEF CountsDown
<1>4. CompleteBatchDelivered /\ BeginningIsHeld
  BY <1>3 DEF CompleteBatchDelivered, BeginningIsHeld
<1>5. DeliveredIsConsecutive
  BY <1>2 DEF DeliveredIsConsecutive, CountsDown
<1> QED
  BY <1>1, <1>2, <1>4, <1>5 DEF IInv, HeldIsConsecutive, EmptyAtBoundary

\* The invariant holds for every buffer size and every stream of messages.
THEOREM InvariantHolds == Spec => []IInv
  BY InvariantInit, InvariantStep, PTL DEF Spec

\* The buffer of the code is never indexed outside its 16 slots.
THEOREM TypeCorrect == Spec => []TypeOK
<1>1. IInv => TypeOK
  BY DEF IInv
<1> QED
  BY InvariantHolds, <1>1, PTL

\* A batch handed over is a run of consecutive arrivals, in their order.
THEOREM DeliveryIsConsecutive == Spec => []DeliveredIsConsecutive
<1>1. IInv => DeliveredIsConsecutive
  BY DEF IInv
<1> QED
  BY InvariantHolds, <1>1, PTL

\* A batch that arrives whole after the end of another is handed over whole.
THEOREM CompleteDelivery == Spec => []CompleteBatchDelivered
<1>1. IInv => CompleteBatchDelivered
  BY DEF IInv
<1> QED
  BY InvariantHolds, <1>1, PTL
=============================================================================
