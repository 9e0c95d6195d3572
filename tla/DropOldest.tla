------------------------------ MODULE DropOldest ------------------------------
(***************************************************************************)
(* What the outbound queue of Kafka messages promises: a FIFO of bounded     *)
(* capacity that makes room by dropping its oldest message, until it is      *)
(* closed to new ones.                                                       *)
(***************************************************************************)
EXTENDS Naturals, Sequences

CONSTANTS
    Message,
    Capacity  \* at least 1

VARIABLES
    queue,  \* the messages, oldest first
    open    \* whether it takes new ones

vars == <<queue, open>>

Init == queue = <<>> /\ open = TRUE

Push(m) ==
    /\ open
    /\ queue' = Append(IF Len(queue) = Capacity THEN Tail(queue) ELSE queue, m)
    /\ UNCHANGED open

Pop ==
    /\ queue # <<>>
    /\ queue' = Tail(queue)
    /\ UNCHANGED open

Discard == queue' = <<>> /\ UNCHANGED open

Close == open' = FALSE /\ UNCHANGED queue

Next == (\E m \in Message : Push(m)) \/ Pop \/ Discard \/ Close

Spec == Init /\ [][Next]_vars

==============================================================================
