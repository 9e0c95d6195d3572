-------------------------- MODULE MessageQueueProofs --------------------------
(***************************************************************************)
(* For every capacity and every set of messages, the ring of MessageQueue is *)
(* the FIFO of DropOldest, and the worker misses no message.                 *)
(***************************************************************************)
EXTENDS MessageQueue, SequenceTheorems, TLAPS

\* The ring's indices stay in range, and the slots in use hold messages.
Ring ==
    /\ head \in Slot /\ size \in 0..Capacity
    /\ items \in [Slot -> Message \cup {Empty}]
    /\ \A i \in 1..size : items[(head + i - 1) % Capacity] \in Message
    /\ accepting \in BOOLEAN

\* A number below twice the capacity wraps at most once.
LEMMA WrapOnce ==
    ASSUME NEW n \in 0 .. 2 * Capacity - 1
    PROVE  n % Capacity = IF n < Capacity THEN n ELSE n - Capacity
<1>1. Capacity \in Nat \ {0}
  BY QueueAssumption
<1>2. CASE n < Capacity
  BY <1>1, <1>2, SMT
<1>3. CASE n >= Capacity
  BY <1>1, <1>3, SMT
<1> QED BY <1>1, <1>2, <1>3

\* The slot of the i-th message.
At(h, i) == IF h + i - 1 < Capacity THEN h + i - 1 ELSE h + i - 1 - Capacity

LEMMA SlotOf ==
    ASSUME NEW h \in Slot, NEW i \in 1 .. Capacity
    PROVE  (h + i - 1) % Capacity = At(h, i) /\ At(h, i) \in Slot
BY WrapOnce, QueueAssumption DEF At, Slot

\* Different messages are in different slots.
LEMMA SlotsDiffer ==
    ASSUME NEW h \in Slot, NEW i \in 1 .. Capacity, NEW j \in 1 .. Capacity, i # j
    PROVE  At(h, i) # At(h, j)
BY QueueAssumption DEF At, Slot

\* A sequence with one more, as a function.
LEMMA AppendIs ==
    ASSUME NEW q \in Seq(Message), NEW m \in Message, NEW n \in Nat, n = Len(q) + 1,
           NEW f, f = [i \in 1..n |-> f[i]],
           \A i \in 1..n : f[i] = IF i = n THEN m ELSE q[i]
    PROVE  f = Append(q, m)
<1>1. Len(q) \in Nat /\ \A i \in 1..Len(q) : q[i] \in Message
  BY LenProperties, ElementOfSeq
<1>2. \A i \in 1..n : f[i] \in Message
  BY <1>1
<1>3. f \in [1..n -> Message]
  BY <1>2
<1>4. f \in Seq(Message) /\ Len(f) = n
  BY <1>1, <1>3
<1>5. /\ Append(q, m) \in Seq(Message) /\ Len(Append(q, m)) = n
      /\ \A i \in 1..Len(q) : Append(q, m)[i] = q[i]
      /\ Append(q, m)[n] = m
  BY AppendProperties
<1>6. \A i \in 1..n : f[i] = Append(q, m)[i]
  BY <1>1, <1>5
<1> QED BY <1>4, <1>5, <1>6, SeqEqual

LEMMA QueuedIs ==
    ASSUME Ring
    PROVE  /\ Queued = [i \in 1..size |-> items[At(head, i)]]
           /\ Queued \in Seq(Message) /\ Len(Queued) = size
<1>1. \A i \in 1..size : (head + i - 1) % Capacity = At(head, i)
  BY SlotOf, QueueAssumption DEF Ring
<1>2. Queued = [i \in 1..size |-> items[At(head, i)]]
  BY <1>1 DEF Queued
<1>3. \A i \in 1..size : Queued[i] \in Message
  BY DEF Queued, Ring
<1>4. size \in Nat /\ Queued \in [1..size -> Message]
  BY <1>3, QueueAssumption DEF Ring, Queued
<1> QED BY <1>2, <1>4

\* A message is stored behind the others, over the oldest when the ring is full.
LEMMA PushRefines ==
    ASSUME Ring, NEW m \in Message, Push(m)
    PROVE  Ring' /\ Fifo!Push(m)
<1> USE QueueAssumption
<1>1. head \in Nat /\ head < Capacity /\ size \in Nat /\ size <= Capacity /\ Capacity \in Nat \ {0}
  BY DEF Ring, Slot
<1>2. CASE size = Capacity
  <2>1. /\ items' = [items EXCEPT ![head] = m] /\ size' = size /\ accepting' = accepting
        /\ head' = At(head, 2) /\ head' \in Slot
    <3>1. (head + 1) % Capacity \in Slot /\ (head + 1) % Capacity = At(head, 2)
      BY <1>1, WrapOnce DEF At, Slot
    <3> QED BY <1>2, <3>1 DEF Push, Store
  <2>2. \A i \in 1..size : At(head', i) = IF i = size THEN head ELSE At(head, i + 1)
    BY <1>1, <1>2, <2>1 DEF At, Slot
  <2>3. \A i \in 1..size : items'[At(head', i)] =
                               IF i = size THEN m ELSE items[At(head, i + 1)]
    <3> SUFFICES ASSUME NEW i \in 1..size
                 PROVE  items'[At(head', i)] = IF i = size THEN m ELSE items[At(head, i + 1)]
      OBVIOUS
    <3>1. CASE i = size
      BY <3>1, <2>1, <2>2, <1>1 DEF Ring
    <3>2. CASE i # size
      <4>1. i + 1 \in 1 .. Capacity /\ i + 1 # 1 /\ At(head, i + 1) \in Slot
        BY <1>1, <1>2, <3>2, SlotOf DEF Ring
      <4>2. At(head, 1) = head
        BY <1>1 DEF At
      <4>3. At(head, i + 1) # head
        BY <1>1, <4>1, <4>2, SlotsDiffer DEF Ring
      <4> QED BY <2>1, <2>2, <3>2, <4>1, <4>3 DEF Ring
    <3> QED BY <3>1, <3>2
  <2>4. Ring'
    <3>1. items' \in [Slot -> Message \cup {Empty}]
      BY <2>1 DEF Ring
    <3>2. \A i \in 1..size : items[At(head, i)] \in Message
      BY SlotOf, <1>1 DEF Ring
    <3>3. \A i \in 1..size : items'[At(head', i)] \in Message
      BY <2>3, <3>2, <1>1
    <3>4. \A i \in 1..size' : items'[(head' + i - 1) % Capacity] \in Message
      <4>1. \A i \in 1..size' : (head' + i - 1) % Capacity = At(head', i)
        BY <1>1, <2>1, SlotOf
      <4> QED BY <2>1, <3>3, <4>1
    <3> QED BY <2>1, <3>1, <3>4 DEF Ring
  <2>5. Queued' = Append(Tail(Queued), m)
    <3>1. Queued' = [i \in 1..size |-> IF i = size THEN m ELSE items[At(head, i + 1)]]
      <4>1. \A i \in 1..size : (head' + i - 1) % Capacity = At(head', i)
        BY <1>1, <2>1, SlotOf
      <4>2. Queued' = [i \in 1..size |-> items'[At(head', i)]]
        BY <2>1, <4>1 DEF Queued
      <4> QED BY <2>3, <4>2
    <3>2. Queued = [i \in 1..size |-> items[At(head, i)]] /\ Queued \in Seq(Message) /\ Len(Queued) = size
      BY QueuedIs
    <3>3. Tail(Queued) = [i \in 1 .. size - 1 |-> items[At(head, i + 1)]]
      BY <1>1, <1>2, <3>2
    <3>4. Len(Tail(Queued)) = size - 1 /\ Tail(Queued) \in Seq(Message)
      BY <1>1, <1>2, <3>2
    <3>5. \A i \in 1 .. size - 1 : Tail(Queued)[i] = items[At(head, i + 1)]
      BY <1>1, <3>3
    <3>6. size = Len(Tail(Queued)) + 1
      BY <1>1, <3>4
    <3>7. /\ Queued' = [i \in 1..size |-> Queued'[i]]
          /\ \A i \in 1..size : Queued'[i] = IF i = size THEN m ELSE Tail(Queued)[i]
      BY <1>1, <3>1, <3>4, <3>5
    <3> QED BY <1>1, <3>4, <3>6, <3>7, AppendIs
  <2> QED BY <1>2, <2>1, <2>4, <2>5, QueuedIs DEF Push, Fifo!Push
<1>3. CASE size # Capacity
  <2>1. /\ items' = [items EXCEPT ![At(head, size + 1)] = m] /\ head' = head /\ size' = size + 1
        /\ accepting' = accepting /\ At(head, size + 1) \in Slot
    <3>1. (head + size) % Capacity = At(head, size + 1) /\ At(head, size + 1) \in Slot
      BY <1>1, <1>3, WrapOnce DEF At, Slot
    <3> QED BY <1>3, <3>1 DEF Push, Store
  <2>2. \A i \in 1..size : items'[At(head, i)] = items[At(head, i)]
    <3> SUFFICES ASSUME NEW i \in 1..size PROVE items'[At(head, i)] = items[At(head, i)]
      OBVIOUS
    <3>1. At(head, i) \in Slot /\ At(head, i) # At(head, size + 1)
      BY <1>1, <1>3, SlotOf, SlotsDiffer DEF Ring
    <3> QED BY <2>1, <3>1 DEF Ring
  <2>3. items'[At(head, size + 1)] = m
    BY <2>1 DEF Ring
  <2>4. Ring'
    <3>1. \A i \in 1..size : items[At(head, i)] \in Message
      BY SlotOf, <1>1 DEF Ring
    <3>2. \A i \in 1..size' : items'[At(head, i)] \in Message
      BY <1>1, <2>1, <2>2, <2>3, <3>1
    <3>3. \A i \in 1..size' : items'[(head' + i - 1) % Capacity] \in Message
      <4>1. \A i \in 1..size' : (head' + i - 1) % Capacity = At(head', i)
        <5>1. head' \in Slot /\ \A i \in 1..size' : i \in 1..Capacity
          BY <1>1, <1>3, <2>1 DEF Slot
        <5> QED BY <5>1, SlotOf
      <4> QED BY <2>1, <3>2, <4>1
    <3> QED BY <1>1, <1>3, <2>1, <3>3 DEF Ring
  <2>5. Queued' = Append(Queued, m)
    <3>1. Queued' = [i \in 1 .. size + 1 |-> items'[At(head, i)]]
      BY <2>1, <2>4, QueuedIs, SlotOf, <1>1, <1>3 DEF Queued, Ring
    <3>2. Queued = [i \in 1..size |-> items[At(head, i)]] /\ Queued \in Seq(Message) /\ Len(Queued) = size
      BY QueuedIs
    <3>3. size' \in Nat /\ size' = Len(Queued) + 1
      BY <1>1, <2>1, <3>2
    <3>4. /\ Queued' = [i \in 1..size' |-> Queued'[i]]
          /\ \A i \in 1..size' : Queued'[i] = IF i = size' THEN m ELSE Queued[i]
      BY <1>1, <2>1, <2>2, <2>3, <3>1, <3>2
    <3>5. Queued \in Seq(Message)
      BY <3>2
    <3> QED BY <3>3, <3>4, <3>5, AppendIs
  <2> QED BY <1>3, <2>1, <2>4, <2>5, QueuedIs DEF Push, Fifo!Push
<1> QED BY <1>2, <1>3

\* The worker takes the oldest.
LEMMA TakeRefines ==
    ASSUME Ring, Take
    PROVE  Ring' /\ Fifo!Pop
<1> USE QueueAssumption
<1>1. head \in Nat /\ head < Capacity /\ size \in Nat \ {0} /\ size <= Capacity /\ Capacity \in Nat \ {0}
  BY DEF Ring, Slot, Take
<1>2. /\ items' = [items EXCEPT ![head] = Empty] /\ size' = size - 1 /\ accepting' = accepting
      /\ head' = At(head, 2) /\ head' \in Slot
  <2>1. (head + 1) % Capacity \in Slot /\ (head + 1) % Capacity = At(head, 2)
    BY <1>1, WrapOnce DEF At, Slot
  <2> QED BY <2>1 DEF Take
<1>3. \A i \in 1 .. size - 1 : items'[At(head', i)] = items[At(head, i + 1)]
  <2> SUFFICES ASSUME NEW i \in 1 .. size - 1
               PROVE  items'[At(head', i)] = items[At(head, i + 1)]
    OBVIOUS
  <2>1. At(head', i) = At(head, i + 1) /\ At(head, 1) = head
    BY <1>1, <1>2 DEF At, Slot
  <2>2. i + 1 \in 1 .. Capacity /\ i + 1 # 1
    BY <1>1
  <2>3. At(head, i + 1) \in Slot /\ At(head, i + 1) # head
    BY <1>1, <2>1, <2>2, SlotOf, SlotsDiffer DEF Ring
  <2> QED BY <1>2, <2>1, <2>3 DEF Ring
<1>4. Ring'
  <2>1. \A i \in 1..size : items[At(head, i)] \in Message
    BY SlotOf, <1>1 DEF Ring
  <2>2. \A i \in 1..size' : items'[At(head', i)] \in Message
    BY <1>1, <1>2, <1>3, <2>1
  <2>3. \A i \in 1..size' : items'[(head' + i - 1) % Capacity] \in Message
    <3>1. \A i \in 1..size' : (head' + i - 1) % Capacity = At(head', i)
      BY <1>1, <1>2, SlotOf
    <3> QED BY <2>2, <3>1
  <2>4. items' \in [Slot -> Message \cup {Empty}]
    BY <1>2 DEF Ring
  <2> QED BY <1>1, <1>2, <2>3, <2>4 DEF Ring
<1>5. Queued' = Tail(Queued)
  <2>1. Queued = [i \in 1..size |-> items[At(head, i)]] /\ Queued \in Seq(Message) /\ Len(Queued) = size
    BY QueuedIs
  <2>2. Tail(Queued) = [i \in 1 .. size - 1 |-> items[At(head, i + 1)]]
    BY <1>1, <2>1
  <2>3. \A i \in 1 .. size - 1 : (head' + i - 1) % Capacity = At(head', i)
    BY <1>1, <1>2, SlotOf
  <2>4. Queued' = [i \in 1 .. size - 1 |-> items'[At(head', i)]]
    BY <1>2, <2>3 DEF Queued
  <2> QED BY <1>3, <2>2, <2>4
<1> QED BY <1>1, <1>2, <1>4, <1>5, QueuedIs DEF Fifo!Pop, Take

\* Every other step, and none.
LEMMA OtherRefines ==
    ASSUME Ring, (WaitStep \/ DiscardAll \/ StopAccepting) \/ UNCHANGED queueVars
    PROVE  Ring' /\ [Fifo!Next]_Fifo!vars
<1>1. CASE WaitStep \/ UNCHANGED queueVars
  BY <1>1 DEF WaitStep, FindEmpty, Select, Woken, queueVars, ring, Ring, Queued, Fifo!vars
<1>2. CASE StopAccepting
  BY <1>2 DEF StopAccepting, ring, Ring, Queued, Fifo!vars, Fifo!Next, Fifo!Close
<1>3. CASE DiscardAll
  <2>1. Queued' = <<>>
    BY <1>3 DEF DiscardAll, Queued
  <2> QED BY <1>3, <2>1, QueueAssumption DEF DiscardAll, Ring, Slot, Fifo!Next, Fifo!Discard
<1> QED BY <1>1, <1>2, <1>3

LEMMA RingStep == Ring /\ [QueueNext]_queueVars => Ring' /\ [Fifo!Next]_Fifo!vars
BY PushRefines, TakeRefines, OtherRefines DEF QueueNext, Fifo!Next

LEMMA RingInit == QueueInit => Ring /\ Fifo!Init
<1> SUFFICES ASSUME QueueInit PROVE Ring /\ Fifo!Init
  OBVIOUS
<1>1. Ring
  BY QueueAssumption DEF QueueInit, Ring, Slot
<1>2. Queued = <<>>
  BY DEF QueueInit, Queued
<1> QED BY <1>1, <1>2 DEF QueueInit, Fifo!Init

\* The ring buffer of queue.go implements the FIFO that drops its oldest message.
THEOREM RingIsFifo == QueueSpec => RefinesFifo
<1> QED BY RingInit, RingStep, PTL DEF QueueSpec, RefinesFifo, Fifo!Spec

\* The token of the channel is never missing while the worker waits and there is
\* a message.
THEOREM NoWakeIsLost == QueueSpec => []NoLostWake
<1>1. QueueInit => NoLostWake
  BY DEF QueueInit, NoLostWake
<1>2. Ring /\ NoLostWake /\ [QueueNext]_queueVars => NoLostWake'
  BY DEF Ring, NoLostWake, QueueNext, WaitStep, FindEmpty, Select, Woken, Take, Push,
         Wake, DiscardAll, StopAccepting, WorkerGoes, queueVars, ring
<1> QED BY <1>1, <1>2, RingInit, RingStep, PTL DEF QueueSpec

==============================================================================
