--------------------------- MODULE KafkaPublisher ---------------------------
(***************************************************************************)
(* The Kafka side of the service: the manager's producer, settings, worker  *)
(* and reconnect goroutine (internal/kafkapub/manager.go), the coordinator's*)
(* admission switch (coordinator.go), and the settings requests that drive  *)
(* them while they run (internal/service/kafka_update.go).                  *)
(*                                                                          *)
(* No lock spans an operation: m.mu and c.mu are each held for one step, so *)
(* two requests, Start, Stop, the reconnect goroutine and the worker        *)
(* interleave between any two lines that take one.  Settings are abstracted *)
(* to their Enabled flag, the queue to its length (MessageQueue has the     *)
(* queue).                                                                  *)
(***************************************************************************)
EXTENDS Naturals

CONSTANTS
    Client,        \* HTTP requests that update the settings
    Main,          \* the goroutine of runWithReady
    Reconnect,     \* the goroutine of go m.reconnect
    Producer,      \* slots for producers
    None,          \* Go's nil
    QueueCapacity  \* settings.QueueCapacity

Actor == Client \cup {Main, Reconnect}

ASSUME PublisherAssumption ==
    /\ Main \notin Client /\ Reconnect \notin Client \cup {Main}
    /\ None \notin Producer
    /\ QueueCapacity \in Nat \ {0}

VARIABLES
    admit,      \* coordinator.enabled
    accepting,  \* queue.accepting
    queue,      \* the number of queued messages
    life,       \* producer -> "free", "open" or "closed"
    producer,   \* m.producer
    on,         \* m.settings.Enabled
    status,     \* m.status.State
    notify,     \* whether m.notify holds a token
    stopping,   \* whether workerCtx is cancelled
    worker,     \* where the worker is
    using,      \* the producer the worker has looked up
    pc,         \* actor -> where it is
    read,       \* the Enabled flag the reconnect goroutine has read
    hand        \* actor -> the producer it holds: opened, or taken out to be closed

coord == <<admit, accepting, queue>>
mgr   == <<producer, on, status>>
work  == <<worker, using>>
vars  == <<coord, life, mgr, notify, stopping, work, pc, read, hand>>

TypeOK ==
    /\ admit \in BOOLEAN /\ accepting \in BOOLEAN /\ queue \in 0..QueueCapacity
    /\ life \in [Producer -> {"free", "open", "closed"}]
    /\ producer \in Producer \cup {None} /\ on \in BOOLEAN
    /\ status \in {"disabled", "online", "reconnecting", "stopping"}
    /\ notify \in BOOLEAN /\ stopping \in BOOLEAN
    /\ worker \in {"none", "look", "idle", "next", "send", "done"}
    /\ using \in Producer \cup {None}
    /\ pc \in [Actor -> {"idle", "off", "discard", "drop", "shut", "open", "admit",
                         "swap", "retire", "notify", "startOff", "startOn", "failed", "spawn",
                         "serve", "take", "cancel", "join", "close", "stopped",
                         "expired", "closed", "sleep"}]
    /\ read \in BOOLEAN
    /\ hand \in [Actor -> Producer \cup {None}]

\* runWithReady has read the settings and serves HTTP; Start is still to come.
Init ==
    /\ admit = TRUE /\ accepting = TRUE /\ queue = 0
    /\ life = [p \in Producer |-> "free"]
    /\ producer = None /\ on = FALSE /\ status = "disabled"
    /\ notify = FALSE /\ stopping = FALSE
    /\ worker = "none" /\ using = None
    /\ \E start \in {"startOff", "startOn"} :
           pc = [a \in Actor |-> IF a = Main THEN start ELSE "idle"]
    /\ read = FALSE
    /\ hand = [a \in Actor |-> None]

Goes(a, from, to) == pc[a] = from /\ pc' = [pc EXCEPT ![a] = to]

----------------------------------------------------------------------------
(* ApplySettings with Enabled unset, or Start with it.                      *)

\* The two critical sections of SetEnabled(FALSE): c.mu's, then the queue's.
\* Mutant: the queue is emptied before admission ends.
DiscardFirst(half) ==
    IF half = 2 THEN admit' = FALSE /\ UNCHANGED queue
    ELSE queue' = 0 /\ UNCHANGED admit
Disable(half) ==
    IF half = 1 THEN admit' = FALSE /\ UNCHANGED queue
    ELSE queue' = 0 /\ UNCHANGED admit

EndAdmission(a) ==
    /\ Goes(a, "off", "discard")
    /\ Disable(1)
    /\ UNCHANGED <<accepting, life, mgr, notify, stopping, work, read, hand>>

DiscardAll(a) ==
    /\ Goes(a, "discard", "drop")
    /\ Disable(2)
    /\ UNCHANGED <<accepting, life, mgr, notify, stopping, work, read, hand>>

\* Start records the settings and leaves whatever producer there is.
Drop(a) ==
    /\ Goes(a, "drop", IF a = Main THEN "serve" ELSE "shut")
    /\ on' = FALSE /\ status' = "disabled"
    /\ IF a = Main
       THEN UNCHANGED <<producer, hand>>
       ELSE producer' = None /\ hand' = [hand EXCEPT ![a] = producer]
    /\ UNCHANGED <<coord, life, notify, stopping, work, read>>

----------------------------------------------------------------------------
(* factory.Open and install.                                                *)

OpenSucceeds(a, p) ==
    /\ life[p] = "free"
    /\ Goes(a, "open", "admit")
    /\ life' = [life EXCEPT ![p] = "open"]
    /\ hand' = [hand EXCEPT ![a] = p]
    /\ UNCHANGED <<coord, mgr, notify, stopping, work, read>>

\* A request fails, Start goes on without a producer, the reconnect tries again.
\* Mutant: the reconnect goroutine tries once.
TriesOnce == "idle"
Retries == "sleep"

OpenFails(a) ==
    /\ Goes(a, "open", IF a = Main THEN "failed" ELSE IF a = Reconnect THEN Retries ELSE "idle")
    /\ UNCHANGED <<coord, life, mgr, notify, stopping, work, read, hand>>

Admit(a) ==
    /\ Goes(a, "admit", "swap")
    /\ admit' = TRUE
    /\ UNCHANGED <<accepting, queue, life, mgr, notify, stopping, work, read, hand>>

Swap(a) ==
    /\ Goes(a, "swap", "retire")
    /\ producer' = hand[a] /\ on' = (a # Reconnect \/ read) /\ status' = "online"
    /\ hand' = [hand EXCEPT ![a] = producer]
    /\ UNCHANGED <<coord, life, notify, stopping, work, read>>

\* The old producer is closed; its slot is free again once the worker has let go
\* of it too.
\* Mutant: the old producer is dropped, not closed.
Forget(p) == UNCHANGED life
Close(p) ==
    IF p = None THEN UNCHANGED life
    ELSE life' = [life EXCEPT ![p] = IF using = p THEN "closed" ELSE "free"]

CloseHeld(a) ==
    /\ Close(hand[a])
    /\ hand' = [hand EXCEPT ![a] = None]
    /\ UNCHANGED <<coord, mgr, notify, stopping, work, read>>

\* The end of ApplySettings without Enabled.
Shut(a) == Goes(a, "shut", "idle") /\ CloseHeld(a)

Retire(a) == Goes(a, "retire", "notify") /\ CloseHeld(a)

\* Mutant: the worker is not told.
Silent == UNCHANGED notify
Token == notify' = TRUE

Notify(a) ==
    /\ Goes(a, "notify", IF a = Main THEN "serve" ELSE "idle")
    /\ Token
    /\ UNCHANGED <<coord, life, mgr, stopping, work, read, hand>>

----------------------------------------------------------------------------
(* Requests.                                                                *)

Update(c, w) ==
    /\ pc[Main] \notin {"expired", "closed"}
    /\ Goes(c, "idle", IF w THEN "open" ELSE "off")
    /\ UNCHANGED <<coord, life, mgr, notify, stopping, work, read, hand>>

----------------------------------------------------------------------------
(* Start, the reconnect goroutine, Stop.                                    *)

Start ==
    /\ Goes(Main, "startOff", "off") \/ Goes(Main, "startOn", "open")
    /\ worker' = "look"
    /\ UNCHANGED <<coord, life, mgr, notify, stopping, using, read, hand>>

StartWithout ==
    /\ Goes(Main, "failed", "spawn")
    /\ on' = TRUE /\ status' = "reconnecting"
    /\ UNCHANGED <<coord, life, producer, notify, stopping, work, read, hand>>

SpawnReconnect ==
    /\ pc[Main] = "spawn"
    /\ admit' = TRUE
    /\ pc' = [pc EXCEPT ![Main] = "serve", ![Reconnect] = "sleep"]
    /\ UNCHANGED <<accepting, queue, life, mgr, notify, stopping, work, read, hand>>

\* The timer fires, also when the context is cancelled too; the settings in
\* force are read, whatever they say of Enabled.
ReconnectTries ==
    /\ Goes(Reconnect, "sleep", "open")
    /\ read' = on
    /\ UNCHANGED <<coord, life, mgr, notify, stopping, work, hand>>

ReconnectEnds ==
    /\ stopping
    /\ Goes(Reconnect, "sleep", "idle")
    /\ UNCHANGED <<coord, life, mgr, notify, stopping, work, read, hand>>

StopAccepting ==
    /\ Goes(Main, "serve", "take")
    /\ accepting' = FALSE
    /\ UNCHANGED <<admit, queue, life, mgr, notify, stopping, work, read, hand>>

StopTakes ==
    /\ Goes(Main, "take", "cancel")
    /\ hand' = [hand EXCEPT ![Main] = producer]
    /\ producer' = None /\ status' = "stopping"
    /\ UNCHANGED <<coord, life, on, notify, stopping, work, read>>

\* Mutant: the worker's context is not cancelled.
CancelNothing == UNCHANGED stopping
Cancel == stopping' = TRUE

StopCancels ==
    /\ Goes(Main, "cancel", "join")
    /\ Cancel
    /\ UNCHANGED <<coord, life, mgr, notify, work, read, hand>>

WorkerEnded == worker = "done"

StopJoins ==
    /\ Goes(Main, "join", "close")
    /\ WorkerEnded
    /\ UNCHANGED <<coord, life, mgr, notify, stopping, work, read, hand>>

\* The shutdown context expires: Stop gives up, and the producer it took out is
\* never closed.
StopExpires ==
    /\ Goes(Main, "join", "expired")
    /\ hand' = [hand EXCEPT ![Main] = None]
    /\ UNCHANGED <<coord, life, mgr, notify, stopping, work, read>>

StopCloses == Goes(Main, "close", "stopped") /\ CloseHeld(Main)

\* server.Shutdown, of runWithReady: no request comes after it.
CloseListener ==
    /\ Goes(Main, "stopped", "closed")
    /\ UNCHANGED <<coord, life, mgr, notify, stopping, work, read, hand>>

----------------------------------------------------------------------------
(* The worker, and the scans that feed it.                                  *)

WorkerGoes(from, to) == worker = from /\ worker' = to

\* Mutant: a full queue grows.
Grow == queue + 1
Push == IF queue = QueueCapacity THEN queue ELSE queue + 1

Submit ==
    /\ admit /\ accepting
    /\ queue' = Push
    /\ UNCHANGED <<admit, accepting, life, mgr, notify, stopping, work, pc, read, hand>>

Look ==
    /\ WorkerGoes("look", IF producer = None THEN "idle" ELSE "next")
    /\ using' = producer
    /\ UNCHANGED <<coord, life, mgr, notify, stopping, pc, read, hand>>

Wake ==
    /\ WorkerGoes("idle", "look")
    /\ notify
    /\ notify' = FALSE
    /\ UNCHANGED <<coord, life, mgr, stopping, using, pc, read, hand>>

NextMessage ==
    /\ WorkerGoes("next", "send")
    /\ queue > 0
    /\ queue' = queue - 1
    /\ UNCHANGED <<admit, accepting, life, mgr, notify, stopping, using, pc, read, hand>>

LetGo == life' = [p \in Producer |-> IF p = using /\ life[p] = "closed" THEN "free" ELSE life[p]]

\* Mutant: the worker ends at the first message refused.
EndsOnError == IF status' = status THEN "look" ELSE "done"
AfterSend == "look"

\* Sent, or not encodable, or refused: the status then stays so.
Send ==
    /\ worker = "send"
    /\ status' \in {status, "reconnecting"}
    /\ worker' = AfterSend
    /\ using' = None
    /\ LetGo
    /\ UNCHANGED <<coord, producer, on, notify, stopping, pc, read, hand>>

\* The worker ends where it waits: for a producer, or on an empty queue.
WorkerEnds ==
    /\ stopping
    /\ worker = "idle" \/ (worker = "next" /\ queue = 0)
    /\ worker' = "done"
    /\ using' = None
    /\ LetGo
    /\ UNCHANGED <<coord, mgr, notify, stopping, pc, read, hand>>

----------------------------------------------------------------------------
ActorStep(a) ==
    \/ EndAdmission(a) \/ DiscardAll(a) \/ Drop(a)
    \/ OpenFails(a) \/ \E p \in Producer : OpenSucceeds(a, p)
    \/ Admit(a) \/ Swap(a) \/ Shut(a) \/ Retire(a) \/ Notify(a)

StartStep == Start \/ StartWithout \/ SpawnReconnect
StopStep == StopTakes \/ StopCancels \/ StopJoins \/ StopCloses
WorkerStep == Look \/ Wake \/ NextMessage \/ Send

\* The process exits.
Exit == pc[Main] \in {"expired", "closed"} /\ UNCHANGED vars

Next ==
    \/ Submit
    \/ \E a \in Actor : ActorStep(a)
    \/ \E c \in Client, w \in BOOLEAN : Update(c, w)
    \/ StartStep \/ StopAccepting \/ StopStep \/ StopExpires \/ CloseListener
    \/ ReconnectTries \/ ReconnectEnds
    \/ WorkerStep \/ WorkerEnds
    \/ Exit

Spec == Init /\ [][Next]_vars

\* Goroutines are scheduled, Open and Send return, the brokers answer one of
\* infinitely many attempts to open, and the worker's select takes its ready
\* ctx.Done() some time.
Fairness ==
    /\ \A a \in Actor : WF_vars(ActorStep(a))
    /\ SF_vars(\E p \in Producer : OpenSucceeds(Reconnect, p))
    /\ WF_vars(StartStep) /\ WF_vars(StopStep) /\ WF_vars(CloseListener)
    /\ WF_vars(ReconnectTries) /\ WF_vars(WorkerStep) /\ SF_vars(WorkerEnds)

FairSpec == Spec /\ Fairness

----------------------------------------------------------------------------
(* Properties.                                                              *)

\* Every open producer is the one installed or in the hands of the actor about
\* to install or to close it: no overlap of requests, Start, reconnect and a Stop
\* that waited for the worker leaves one open that nothing closes.
NoProducerLeak ==
    pc[Main] # "expired" =>
        \A p \in Producer :
            life[p] = "open" => p = producer \/ \E a \in Actor : hand[a] = p

\* Once admission is off and its queue emptied, no message of before waits to be
\* sent by the next producer: a snapshot admitted while Kafka is being switched
\* off is discarded with the others.
OffIsEmpty ==
    ~admit /\ (\A a \in Actor : pc[a] # "discard") => queue = 0

\* The worker never sleeps on an installed producer: the one that installed it
\* is still to notify, or the token is there.
NoLostWakeup ==
    worker = "idle" /\ producer # None =>
        notify \/ \E a \in Actor : pc[a] \in {"retire", "notify"}

\* Stop returns nil only after the worker, so no message is sent from then on.
StopEndsSending == pc[Main] \in {"stopped", "closed"} => worker = "done"

\* Messages do not stay queued behind an installed producer, whatever the fate of
\* those before them, until the service stops.
QueueMoves ==
    (queue = QueueCapacity /\ producer # None) ~>
        (queue < QueueCapacity \/ producer = None \/ stopping)

\* A service started without its brokers gets a producer after they are back.
StartRecovers == pc[Reconnect] = "sleep" ~> (producer # None \/ stopping)

\* Stop gets through: the worker runs out of messages and ends.
StopReturns == pc[Main] = "take" ~> pc[Main] \in {"expired", "closed"}

\* Kafka is never reported online under settings in force that switch it off.
OnlineIsEnabled == status = "online" => on

\* Once replaced and closed, a producer is given no further message: it would be
\* lost, although the new producer is there.
NoMessageForClosed ==
    [][worker = "next" /\ worker' = "send" => life[using] = "open"]_vars

============================================================================
