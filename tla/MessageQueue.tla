----------------------------- MODULE MessageQueue -----------------------------
(***************************************************************************)
(* The queue between scans and the Kafka worker, as internal/kafkapub/       *)
(* queue.go has it: a ring of slots under q.mu, and a channel of one token   *)
(* on which the worker waits outside of it.  q.mu is held through each       *)
(* operation but the wait, so each is one step.                              *)
(***************************************************************************)
EXTENDS Naturals, Sequences

CONSTANTS
    Message,
    Capacity,  \* len(q.items)
    Empty      \* the zero Message of a slot not in use

ASSUME QueueAssumption == Capacity \in Nat \ {0} /\ Empty \notin Message

VARIABLES
    items,      \* slot -> message
    head, size,
    accepting,
    wake,       \* whether the channel holds its token
    worker      \* the caller of next: about to "look" at the ring (it may be long in
                \* calling), past its "unlock", or in the select to "wait"

ring      == <<items, head, size>>
queueVars == <<ring, accepting, wake, worker>>

Slot == 0 .. Capacity - 1

QueueInit ==
    /\ items = [i \in Slot |-> Empty]
    /\ head = 0 /\ size = 0
    /\ accepting = TRUE /\ wake = FALSE
    /\ worker = "look"

\* Mutant: a full ring keeps its oldest message and loses its newest.
OverNewest(m) ==
    IF size = Capacity
    THEN /\ items' = [items EXCEPT ![(head + size - 1) % Capacity] = m]
         /\ UNCHANGED <<head, size>>
    ELSE /\ items' = [items EXCEPT ![(head + size) % Capacity] = m]
         /\ size' = size + 1
         /\ UNCHANGED head
Store(m) ==
    IF size = Capacity
    THEN /\ items' = [items EXCEPT ![head] = m]
         /\ head' = (head + 1) % Capacity
         /\ UNCHANGED size
    ELSE /\ items' = [items EXCEPT ![(head + size) % Capacity] = m]
         /\ size' = size + 1
         /\ UNCHANGED head

\* A token already there is left.
\* Mutant: a channel without room for a token.
Unbuffered == wake' = (wake \/ worker = "wait")
Wake == wake' = TRUE

Push(m) ==
    /\ accepting
    /\ Store(m)
    /\ Wake
    /\ UNCHANGED <<accepting, worker>>

\* The loop of next.
WorkerGoes(from, to) == worker = from /\ worker' = to

Take ==
    /\ size > 0
    /\ WorkerGoes("look", "look")
    /\ items' = [items EXCEPT ![head] = Empty]
    /\ head' = (head + 1) % Capacity
    /\ size' = size - 1
    /\ UNCHANGED <<accepting, wake>>

FindEmpty ==
    /\ size = 0
    /\ WorkerGoes("look", "unlock")
    /\ UNCHANGED <<ring, accepting, wake>>

Select == WorkerGoes("unlock", "wait") /\ UNCHANGED <<ring, accepting, wake>>

Woken ==
    /\ wake
    /\ WorkerGoes("wait", "look")
    /\ wake' = FALSE
    /\ UNCHANGED <<ring, accepting>>

DiscardAll ==
    /\ items' = [i \in Slot |-> Empty]
    /\ head' = 0 /\ size' = 0
    /\ UNCHANGED <<accepting, wake, worker>>

StopAccepting == accepting' = FALSE /\ UNCHANGED <<ring, wake, worker>>

WaitStep == FindEmpty \/ Select \/ Woken

QueueNext ==
    \/ \E m \in Message : Push(m)
    \/ Take \/ WaitStep
    \/ DiscardAll \/ StopAccepting

QueueSpec == QueueInit /\ [][QueueNext]_queueVars

----------------------------------------------------------------------------
(* Properties.                                                              *)

\* The messages, oldest first.
Queued == [i \in 1..size |-> items[(head + i - 1) % Capacity]]

\* Through wrapping, overwriting and discarding, the ring is the FIFO that drops
\* its oldest message: nothing is lost otherwise, doubled or reordered.
Fifo == INSTANCE DropOldest WITH queue <- Queued, open <- accepting

RefinesFifo == Fifo!Spec

\* The worker never sleeps on a message, also one pushed between its look at the
\* ring and its wait: the token is there.
NoLostWake == worker \in {"unlock", "wait"} /\ size > 0 => wake

==============================================================================
