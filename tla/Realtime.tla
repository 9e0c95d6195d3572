------------------------------ MODULE Realtime ------------------------------
(***************************************************************************)
(* Realtime values: the hub (internal/realtime/hub.go) that routes what a   *)
(* collector reads to subscriptions, and the two goroutines of each         *)
(* WebSocket connection (internal/httpapi/websocket.go), one that reads     *)
(* commands and one that writes.                                            *)
(*                                                                          *)
(* One device, whose collector updates one tag after the other.  A value is *)
(* the time of its update, its UpdatedAt, so that older and newer can be    *)
(* told apart; 0 is no value yet.                                           *)
(***************************************************************************)
EXTENDS Naturals, FiniteSets, SequencesExt

CONSTANTS
    Conn,         \* slots for connections
    Tag,          \* the tags of the device
    Buffer,       \* capacity of a subscription's events
    OutCapacity,  \* capacity of a connection's out
    MaxKeys,      \* the hub's subscription limit
    MaxUpdates    \* bound on the updates of all tags, and so on the time

ASSUME RealtimeAssumption ==
    /\ {} \notin Tag /\ IsFiniteSet(Tag)
    /\ {Buffer, OutCapacity, MaxKeys, MaxUpdates} \subseteq Nat \ {0}

VARIABLES
    clock,     \* the time, in updates
    udm,       \* tag -> its current value
    at,        \* the tag the collector is publishing, {} when it is not
    targets,   \* the subscriptions it is still to deliver to
    copied,    \* whether it has copied them from the index
    index,     \* hub.subscriptions: tag -> connections
    keys,      \* connection -> sub.keys
    done,      \* connection -> whether sub.done is closed
    events,    \* connection -> sub.events
    out,       \* connection -> out
    reader,    \* connection -> where its reading goroutine is
    command,   \* connection -> the tags of the command it handles
    replies,   \* connection -> the snapshot values it is still to send
    writer,    \* connection -> where its writing goroutine is
    message,   \* connection -> what it writes
    gone,      \* connection -> whether its browser is gone
    answered,  \* connection -> tags whose subscription a snapshot has answered
    newest     \* connection -> tag -> the newest value the browser has got

collector == <<clock, udm, at, targets, copied>>
hub       == <<index, keys, done, events>>
reading   == <<out, reader, command, replies, answered>>
browser   == <<gone, newest>>
vars      == <<collector, hub, reading, writer, message, browser>>

Value == [tag : Tag, value : 1..MaxUpdates]
Error == [tag |-> {}, value |-> 0]

TypeOK ==
    /\ clock \in 0..MaxUpdates /\ udm \in [Tag -> 0..clock]
    /\ at \in SUBSET Tag /\ Cardinality(at) <= 1
    /\ targets \subseteq Conn /\ copied \in BOOLEAN
    /\ index \in [Tag -> SUBSET Conn] /\ keys \in [Conn -> SUBSET Tag]
    /\ done \in [Conn -> BOOLEAN]
    /\ reader \in [Conn -> {"none", "read", "set", "snapshot", "reply", "error", "ended"}]
    /\ writer \in [Conn -> {"none", "select", "write", "close", "hangup", "ended"}]
    /\ command \in [Conn -> SUBSET Tag] /\ answered \in [Conn -> SUBSET Tag]
    /\ gone \in [Conn -> BOOLEAN] /\ newest \in [Conn -> [Tag -> 0..clock]]
    /\ \A c \in Conn :
        /\ Cardinality(keys[c]) <= MaxKeys
        /\ Len(events[c]) <= Buffer /\ Len(out[c]) <= OutCapacity
        /\ ToSet(events[c]) \cup replies[c] \subseteq Value
        /\ ToSet(out[c]) \cup {message[c]} \subseteq Value \cup {Error}

Init ==
    /\ clock = 0 /\ udm = [k \in Tag |-> 0] /\ at = {} /\ targets = {} /\ copied = FALSE
    /\ index = [k \in Tag |-> {}] /\ keys = [c \in Conn |-> {}]
    /\ done = [c \in Conn |-> FALSE]
    /\ events = [c \in Conn |-> <<>>] /\ out = [c \in Conn |-> <<>>]
    /\ reader = [c \in Conn |-> "none"] /\ writer = [c \in Conn |-> "none"]
    /\ command = [c \in Conn |-> {}] /\ replies = [c \in Conn |-> {}]
    /\ message = [c \in Conn |-> Error]
    /\ gone = [c \in Conn |-> FALSE]
    /\ answered = [c \in Conn |-> {}]
    /\ newest = [c \in Conn |-> [k \in Tag |-> 0]]

----------------------------------------------------------------------------
(* The hub.                                                                 *)

\* The index without connection c under the tags.
\* Mutant: the index is left as it is.
StillIndexed(c, tags) == index
Unindexed(c, tags) == [k \in Tag |-> IF k \in tags THEN index[k] \ {c} ELSE index[k]]

\* Subscription.Close, once.
Unregister(c) ==
    IF done[c] THEN UNCHANGED <<index, keys, done>>
    ELSE /\ index' = Unindexed(c, keys[c])
         /\ keys' = [keys EXCEPT ![c] = {}]
         /\ done' = [done EXCEPT ![c] = TRUE]

----------------------------------------------------------------------------
(* The collector: updateValue, then Publish.                                *)

\* Where the bound ends the updates of the model.
Exhausted == clock = MaxUpdates

Update(k) ==
    /\ at = {}
    /\ ~Exhausted
    /\ clock' = clock + 1 /\ udm' = [udm EXCEPT ![k] = clock']
    /\ at' = {k} /\ copied' = FALSE
    /\ UNCHANGED <<targets, hub, reading, writer, message, browser>>

CopyTargets ==
    /\ \E k \in at : targets' = index[k]
    /\ ~copied /\ copied' = (targets' # {})
    /\ at' = IF targets' = {} THEN {} ELSE at
    /\ UNCHANGED <<clock, udm, hub, reading, writer, message, browser>>

\* A subscription with a full buffer is closed.
\* Mutant: the value is dropped.
DropValue(c) == UNCHANGED <<index, keys, done>>
Overflow(c) == Unregister(c)

Deliver(c) ==
    /\ copied /\ c \in targets
    /\ targets' = targets \ {c}
    /\ at' = IF targets' = {} THEN {} ELSE at
    /\ copied' = (targets' # {})
    /\ \/ done[c] /\ UNCHANGED hub
       \/ /\ Len(events[c]) < Buffer
          /\ \E k \in at :
                events' = [events EXCEPT ![c] = Append(@, [tag |-> k, value |-> udm[k]])]
          /\ UNCHANGED <<index, keys, done>>
       \/ ~done[c] /\ Len(events[c]) = Buffer /\ Overflow(c) /\ UNCHANGED events
    /\ UNCHANGED <<clock, udm, reading, writer, message, browser>>

----------------------------------------------------------------------------
(* The reading goroutine.                                                   *)

ReaderGoes(c, from, to) == reader[c] = from /\ reader' = [reader EXCEPT ![c] = to]

Connect(c) ==
    /\ writer[c] = "none"
    /\ ReaderGoes(c, "none", "read")
    /\ writer' = [writer EXCEPT ![c] = "select"]
    /\ UNCHANGED <<collector, hub, out, command, replies, answered, message, browser>>

ReadSubscribe(c, tags) ==
    /\ ~gone[c] /\ writer[c] # "ended"
    /\ ReaderGoes(c, "read", "set")
    /\ command' = [command EXCEPT ![c] = tags]
    /\ UNCHANGED <<collector, hub, out, replies, answered, writer, message, browser>>

\* A limit that the tags already subscribed count against.
\* Mutant: only those of the command count.
CommandOnly(c) == Cardinality(command[c]) > MaxKeys
TooMany(c) == Cardinality(keys[c] \cup command[c]) > MaxKeys

Set(c) ==
    /\ \/ /\ TooMany(c)
          /\ ReaderGoes(c, "set", "error")
          /\ UNCHANGED <<index, keys>>
       \/ /\ ~TooMany(c)
          /\ ReaderGoes(c, "set", "snapshot")
          /\ keys' = [keys EXCEPT ![c] = @ \cup command[c]]
          /\ index' = [k \in Tag |-> IF k \in command[c] THEN index[k] \cup {c} ELSE index[k]]
    /\ UNCHANGED <<collector, done, events, out, command, replies, answered, writer,
                   message, browser>>

\* The values there are; or the snapshot fails, and nothing is sent.
Snapshot(c) ==
    /\ \/ /\ replies' = [replies EXCEPT ![c] =
                {[tag |-> k, value |-> udm[k]] : k \in {j \in command[c] : udm[j] # 0}}]
          /\ answered' = [answered EXCEPT ![c] = @ \cup command[c]]
       \/ UNCHANGED <<replies, answered>>
    /\ ReaderGoes(c, "snapshot", "reply")
    /\ UNCHANGED <<collector, hub, out, command, writer, message, browser>>

Send(c, m) == Len(out[c]) < OutCapacity /\ out' = [out EXCEPT ![c] = Append(@, m)]

Reply(c) ==
    /\ \/ \E m \in replies[c] :
             /\ reader[c] = "reply" /\ UNCHANGED <<reader, command>>
             /\ Send(c, m)
             /\ replies' = [replies EXCEPT ![c] = @ \ {m}]
       \/ /\ replies[c] = {}
          /\ ReaderGoes(c, "reply", "read")
          /\ command' = [command EXCEPT ![c] = {}]
          /\ UNCHANGED <<out, replies>>
    /\ UNCHANGED <<collector, hub, answered, writer, message, browser>>

ReadUnsubscribe(c, tags) ==
    /\ ~gone[c] /\ writer[c] # "ended"
    /\ reader[c] = "read"
    /\ keys' = [keys EXCEPT ![c] = @ \ tags]
    /\ index' = Unindexed(c, tags)
    /\ answered' = [answered EXCEPT ![c] = @ \ tags]
    /\ UNCHANGED <<collector, done, events, out, reader, command, replies, writer, message,
                   browser>>

\* Invalid parameters or an unknown action; or no JSON at all, which ends the reading.
ReadInvalid(c) ==
    /\ ~gone[c] /\ writer[c] # "ended"
    /\ \E to \in {"error", "ended"} : ReaderGoes(c, "read", to)
    /\ UNCHANGED <<collector, hub, out, command, replies, answered, writer, message, browser>>

ReportError(c) ==
    /\ ReaderGoes(c, "error", "read")
    /\ Send(c, Error)
    /\ command' = [command EXCEPT ![c] = {}]
    /\ UNCHANGED <<collector, hub, replies, answered, writer, message, browser>>

\* The browser is gone, or the writer has closed the connection.
ReadFails(c) ==
    /\ gone[c] \/ writer[c] = "ended"
    /\ ReaderGoes(c, "read", "ended")
    /\ UNCHANGED <<collector, hub, out, command, replies, answered, writer, message, browser>>

----------------------------------------------------------------------------
(* The writing goroutine, which is the handler's.                           *)

WriterGoes(c, from, to) == writer[c] = from /\ writer' = [writer EXCEPT ![c] = to]

TakeEvent(c) ==
    /\ events[c] # <<>>
    /\ WriterGoes(c, "select", "write")
    /\ message' = [message EXCEPT ![c] = Head(events[c])]
    /\ events' = [events EXCEPT ![c] = Tail(@)]
    /\ UNCHANGED <<collector, index, keys, done, reading, browser>>

TakeOut(c) ==
    /\ out[c] # <<>>
    /\ WriterGoes(c, "select", "write")
    /\ message' = [message EXCEPT ![c] = Head(out[c])]
    /\ out' = [out EXCEPT ![c] = Tail(@)]
    /\ UNCHANGED <<collector, hub, reader, command, replies, answered, browser>>

\* Mutant: a subscription closed as too slow is not noticed.
NotNoticed(c) == FALSE
Dropped(c) == done[c]

\* The reader has ended, the subscription is closed, or a ping cannot be written.
Leave(c) ==
    /\ reader[c] = "ended" \/ Dropped(c) \/ gone[c]
    /\ WriterGoes(c, "select", "close")
    /\ UNCHANGED <<collector, hub, reading, message, browser>>

Write(c) ==
    /\ ~gone[c]
    /\ WriterGoes(c, "write", "select")
    /\ newest' = [newest EXCEPT ![c] = [k \in Tag |->
            IF k = message[c].tag /\ message[c].value > @[k] THEN message[c].value ELSE @[k]]]
    /\ message' = [message EXCEPT ![c] = Error]
    /\ UNCHANGED <<collector, hub, reading, gone>>

\* Also when the browser is only too slow for the deadline.
WriteFails(c) ==
    /\ WriterGoes(c, "write", "close")
    /\ message' = [message EXCEPT ![c] = Error]
    /\ UNCHANGED <<collector, hub, reading, browser>>

\* The deferred calls: sub.Close(), then conn.Close().
CloseSubscription(c) ==
    /\ WriterGoes(c, "close", "hangup")
    /\ Unregister(c)
    /\ UNCHANGED <<collector, events, reading, message, browser>>

HangUp(c) ==
    /\ WriterGoes(c, "hangup", "ended")
    /\ UNCHANGED <<collector, hub, reading, message, browser>>

BrowserLeaves(c) ==
    /\ writer[c] # "none" /\ ~gone[c]
    /\ gone' = [gone EXCEPT ![c] = TRUE]
    /\ UNCHANGED <<collector, hub, reading, writer, message, newest>>

\* A slot is free once both goroutines have ended and the hub and the collector
\* have forgotten the subscription.
Forgotten(c) ==
    /\ ReaderGoes(c, "ended", "none") /\ WriterGoes(c, "ended", "none")
    /\ keys[c] = {} /\ c \notin targets
    /\ done' = [done EXCEPT ![c] = FALSE]
    /\ events' = [events EXCEPT ![c] = <<>>] /\ out' = [out EXCEPT ![c] = <<>>]
    /\ answered' = [answered EXCEPT ![c] = {}]
    /\ gone' = [gone EXCEPT ![c] = FALSE]
    /\ newest' = [newest EXCEPT ![c] = [k \in Tag |-> 0]]
    /\ UNCHANGED <<collector, index, keys, command, replies, message>>

----------------------------------------------------------------------------
CollectorStep == CopyTargets \/ \E c \in Conn : Deliver(c)

ReaderStep(c) == Set(c) \/ Snapshot(c) \/ Reply(c) \/ ReportError(c) \/ ReadFails(c)

WriterStep(c) ==
    \/ TakeEvent(c) \/ TakeOut(c) \/ Write(c) \/ WriteFails(c)
    \/ CloseSubscription(c) \/ HangUp(c)

Next ==
    \/ \E k \in Tag : Update(k)
    \/ CollectorStep
    \/ \E c \in Conn :
        \/ Connect(c) \/ ReadInvalid(c) \/ BrowserLeaves(c) \/ Forgotten(c)
        \/ \E tags \in (SUBSET Tag) \ {{}} : ReadSubscribe(c, tags) \/ ReadUnsubscribe(c, tags)
        \/ ReaderStep(c) \/ WriterStep(c) \/ Leave(c)
    \/ Exhausted /\ UNCHANGED vars

Spec == Init /\ [][Next]_vars

\* Goroutines are scheduled, and a select takes a case that stays ready some time.
Fairness ==
    /\ WF_vars(CollectorStep)
    /\ \A c \in Conn : WF_vars(ReaderStep(c)) /\ WF_vars(WriterStep(c)) /\ SF_vars(Leave(c))

FairSpec == Spec /\ Fairness

----------------------------------------------------------------------------
(* Properties.                                                              *)

\* The hub's index and the subscriptions' own sets of keys are two views of the
\* same: a subscription is found under exactly the tags it believes to have.
IndexAgrees ==
    \A c \in Conn, k \in Tag : c \in index[k] <=> k \in keys[c]

\* The message m about tag k is on its way to connection c.
UnderWay(c, k) ==
    \/ at = {k} /\ (~copied \/ c \in targets)
    \/ \E m \in ToSet(events[c]) \cup ToSet(out[c]) \cup replies[c] \cup {message[c]} : m.tag = k

\* A browser whose subscription was answered misses nothing: unless something is
\* on its way to it, it has the current value of every tag it subscribed to,
\* however subscribing, the snapshot and the collector interleave; a browser too
\* slow for that is disconnected.
NothingMissed ==
    \A c \in Conn, k \in Tag :
        /\ k \in keys[c] \cap answered[c] /\ ~done[c] /\ writer[c] \in {"select", "write"}
        /\ ~UnderWay(c, k)
        => newest[c][k] = udm[k]

\* A connection that was dropped, or whose browser is gone, is closed.
DroppedIsClosed ==
    \A c \in Conn : (done[c] \/ gone[c]) ~> writer[c] \in {"ended", "none"}

=============================================================================
