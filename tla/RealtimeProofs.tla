--------------------------- MODULE RealtimeProofs ---------------------------
(***************************************************************************)
(* What holds of the realtime hub for every number of connections, tags and  *)
(* updates and every buffer size: that the hub's index agrees with the        *)
(* subscriptions, and that a subscribed browser misses nothing.              *)
(*                                                                          *)
(* NothingMissed says where a browser without anything under way has got to. *)
(* Its strengthening says of any subscribed browser that the current value   *)
(* has reached it, or is about to be handed to its subscription, or is       *)
(* among its messages; no message is ahead of the current value, so none     *)
(* that is written later can hide it.                                        *)
(***************************************************************************)
EXTENDS Realtime, FiniteSetTheorems, TLAPS

Msg == [tag : Tag \cup {{}}, value : Nat]

\* What the argument needs of the types; the limits of the buffers and of the
\* subscriptions are no part of it.
Numbers ==
    /\ clock \in Nat /\ udm \in [Tag -> Nat] /\ newest \in [Conn -> [Tag -> Nat]]
    /\ \A k \in Tag : udm[k] <= clock

Publishing == targets \subseteq Conn /\ (at = {} \/ \E k \in Tag : at = {k})

Routing ==
    /\ index \in [Tag -> SUBSET Conn] /\ keys \in [Conn -> SUBSET Tag]
    /\ done \in [Conn -> BOOLEAN]

Commands == command \in [Conn -> SUBSET Tag] /\ answered \in [Conn -> SUBSET Tag]

Queues ==
    /\ events \in [Conn -> Seq(Msg)] /\ out \in [Conn -> Seq(Msg)]
    /\ replies \in [Conn -> SUBSET Msg] /\ message \in [Conn -> Msg]

Places ==
    /\ reader \in [Conn -> {"none", "read", "set", "snapshot", "reply", "error", "ended"}]
    /\ writer \in [Conn -> {"none", "select", "write", "close", "hangup", "ended"}]

Typed == Numbers /\ Publishing /\ Routing /\ Commands /\ Queues /\ Places

\* What the two goroutines of a connection hold where they are.
Phases ==
    \A c \in Conn :
        /\ writer[c] = "none" => reader[c] = "none" /\ answered[c] = {}
        /\ writer[c] # "write" => message[c] = Error
        /\ reader[c] # "reply" => replies[c] = {}
        /\ reader[c] = "snapshot" /\ ~done[c] => command[c] \subseteq keys[c]
        /\ ~done[c] => answered[c] \subseteq keys[c]

\* The messages that the goroutines of a connection have for its browser.
Pending(c) == ToSet(events[c]) \cup ToSet(out[c]) \cup replies[c] \cup {message[c]}

\* No value is newer than the current one.
NotAhead ==
    \A c \in Conn, k \in Tag :
        /\ newest[c][k] \in 0..udm[k]
        /\ \A m \in Pending(c) : m.tag = k => m.value \in 0..udm[k]

Handed(c, k) == at = {k} /\ (~copied \/ c \in targets)

Reaches(c, k) ==
    \/ newest[c][k] = udm[k]
    \/ Handed(c, k)
    \/ \E m \in Pending(c) : m.tag = k /\ m.value = udm[k]

Owed(c, k) ==
    k \in keys[c] \cap answered[c] /\ ~done[c] /\ writer[c] \in {"select", "write"}

Delivered == \A c \in Conn, k \in Tag : Owed(c, k) => Reaches(c, k)

IInv == Typed /\ IndexAgrees /\ Phases /\ NotAhead /\ Delivered

----------------------------------------------------------------------------
(* Sequences as sets.                                                       *)

LEMMA AppendSet ==
    ASSUME NEW S, NEW s \in Seq(S), NEW e \in S
    PROVE  /\ Append(s, e) \in Seq(S)
           /\ ToSet(Append(s, e)) = ToSet(s) \cup {e}
<1>1. Append(s, e) \in Seq(S)
  OBVIOUS
<1>2. DOMAIN Append(s, e) = DOMAIN s \cup {Len(s) + 1}
  OBVIOUS
<1>3. \A i \in DOMAIN s : Append(s, e)[i] = s[i]
  OBVIOUS
<1>4. Append(s, e)[Len(s) + 1] = e
  OBVIOUS
<1>5. ToSet(Append(s, e)) = ToSet(s) \cup {e}
  BY <1>2, <1>3, <1>4 DEF ToSet
<1> QED BY <1>1, <1>5

LEMMA TailSet ==
    ASSUME NEW S, NEW s \in Seq(S), s # <<>>
    PROVE  /\ Tail(s) \in Seq(S) /\ Head(s) \in S
           /\ ToSet(s) = ToSet(Tail(s)) \cup {Head(s)}
<1>1. Tail(s) \in Seq(S) /\ Head(s) \in S /\ Head(s) = s[1]
  OBVIOUS
<1>2. Len(s) \in Nat /\ Len(s) # 0 /\ DOMAIN s = 1..Len(s) /\ DOMAIN Tail(s) = 1..(Len(s) - 1)
  OBVIOUS
<1>3. \A i \in 1..(Len(s) - 1) : Tail(s)[i] = s[i + 1]
  OBVIOUS
<1>4. \A i \in DOMAIN s : i = 1 \/ (i - 1 \in DOMAIN Tail(s) /\ s[i] = Tail(s)[i - 1])
  BY <1>2, <1>3
<1>5. \A i \in DOMAIN Tail(s) : i + 1 \in DOMAIN s /\ Tail(s)[i] = s[i + 1]
  BY <1>2, <1>3
<1>6. 1 \in DOMAIN s
  BY <1>2
<1>7. ToSet(s) = ToSet(Tail(s)) \cup {Head(s)}
  <2>1. ASSUME NEW i \in DOMAIN s PROVE s[i] \in ToSet(Tail(s)) \cup {Head(s)}
    <3>1. CASE i = 1
      BY <1>1, <3>1
    <3>2. CASE i - 1 \in DOMAIN Tail(s) /\ s[i] = Tail(s)[i - 1]
      BY <3>2 DEF ToSet
    <3> QED BY <1>4, <3>1, <3>2
  <2>2. ASSUME NEW i \in DOMAIN Tail(s) PROVE Tail(s)[i] \in ToSet(s)
    BY <1>5 DEF ToSet
  <2>3. Head(s) \in ToSet(s)
    BY <1>1, <1>6 DEF ToSet
  <2> QED BY <2>1, <2>2, <2>3 DEF ToSet
<1> QED BY <1>1, <1>7

LEMMA EmptySet == ToSet(<<>>) = {}
BY DEF ToSet

\* An error is about no tag.
LEMMA ErrorParts == Error \in Msg /\ Error.tag \notin Tag
BY RealtimeAssumption DEF Error, Msg

\* A step that leaves the values, but for messages fewer and errors.
LEMMA SameAhead ==
    ASSUME NotAhead, UNCHANGED <<udm, newest>>,
           \A d \in Conn : Pending(d)' \subseteq Pending(d) \cup {Error}
    PROVE  NotAhead'
<1> SUFFICES ASSUME NEW d \in Conn, NEW k \in Tag
             PROVE  /\ newest[d][k] \in 0..udm[k]
                    /\ \A m \in Pending(d)' : m.tag = k => m.value \in 0..udm[k]
  BY DEF NotAhead
<1>1. ASSUME NEW m \in Pending(d)', m.tag = k PROVE m \in Pending(d)
  <2>1. m # Error
    BY <1>1, ErrorParts
  <2> QED BY <2>1
<1> QED BY <1>1 DEF NotAhead

LEMMA SameReach ==
    ASSUME NEW d \in Conn, NEW k \in Tag, Reaches(d, k),
           UNCHANGED <<udm, newest, at, copied, targets>>,
           Pending(d) \subseteq Pending(d)' \cup {Error}
    PROVE  Reaches(d, k)'
<1>1. ASSUME NEW m \in Pending(d), m.tag = k PROVE m \in Pending(d)'
  <2>1. m # Error
    BY <1>1, ErrorParts
  <2> QED BY <2>1
<1> QED BY <1>1 DEF Reaches, Handed

\* Closing a subscription is nobody else's.
LEMMA UnregisterOK ==
    ASSUME Routing, IndexAgrees, NEW c \in Conn, Unregister(c)
    PROVE  /\ Routing' /\ IndexAgrees'
           /\ done'[c]
           /\ \A d \in Conn \ {c} : keys'[d] = keys[d] /\ done'[d] = done[d]
<1>1. CASE done[c]
  BY <1>1 DEF Unregister, Routing, IndexAgrees
<1>2. CASE ~done[c]
  <2>1. index' = Unindexed(c, keys[c]) /\ keys' = [keys EXCEPT ![c] = {}]
        /\ done' = [done EXCEPT ![c] = TRUE]
    BY <1>2 DEF Unregister
  <2>2. index' \in [Tag -> SUBSET Conn]
    BY <2>1 DEF Routing, Unindexed
  <2>3. keys' \in [Conn -> SUBSET Tag] /\ done' \in [Conn -> BOOLEAN]
    BY <2>1 DEF Routing
  <2>4. IndexAgrees'
    BY <2>1 DEF IndexAgrees, Unindexed, Routing
  <2>5. /\ done'[c]
        /\ \A d \in Conn \ {c} : keys'[d] = keys[d] /\ done'[d] = done[d]
    BY <2>1 DEF Routing
  <2> QED BY <2>2, <2>3, <2>4, <2>5 DEF Routing
<1> QED BY <1>1, <1>2

----------------------------------------------------------------------------
LEMMA InitOK == Init => IInv
<1> SUFFICES ASSUME Init PROVE IInv
  OBVIOUS
<1>1. Typed
  BY DEF Init, Typed, Numbers, Publishing, Routing, Commands, Queues, Places, Msg, Error
<1>2. IndexAgrees /\ Phases
  BY DEF Init, IndexAgrees, Phases
<1>3. \A c \in Conn : Pending(c) = {Error}
  BY EmptySet DEF Init, Pending
<1>4. NotAhead
  BY <1>3 DEF Init, NotAhead, Error
<1>5. Delivered
  BY DEF Init, Delivered, Owed
<1> QED BY <1>1, <1>2, <1>4, <1>5 DEF IInv

(* The collector.                                                           *)

LEMMA UpdateOK ==
    ASSUME IInv, NEW j \in Tag, Update(j)
    PROVE  IInv'
<1> USE RealtimeAssumption DEF IInv, Typed, Numbers, Publishing, Routing, Commands, Queues, Places
<1>1. Typed'
  <2>1. Numbers'
    <3>1. clock' = clock + 1 /\ udm' = [udm EXCEPT ![j] = clock + 1] /\ newest' = newest
      BY DEF Update, browser
    <3>2. ASSUME NEW k \in Tag PROVE udm'[k] <= clock'
      BY <3>1
    <3> QED BY <3>1, <3>2
  <2>2. Publishing'
    BY DEF Update, hub, reading, browser
  <2>3. Routing'
    BY DEF Update, hub, reading, browser
  <2>4. Commands'
    BY DEF Update, hub, reading, browser
  <2>5. Queues'
    BY DEF Msg, Update, hub, reading, browser
  <2>6. Places'
    BY DEF Update, hub, reading, browser
  <2> QED BY <2>1, <2>2, <2>3, <2>4, <2>5, <2>6
<1>2. IndexAgrees'
  BY DEF IndexAgrees, Update, hub, reading, browser
<1>3. Phases'
  BY DEF Phases, Update, hub, reading, browser
<1>4. \A d \in Conn : Pending(d)' = Pending(d)
  BY DEF Phases, Pending, Update, hub, reading, browser
<1>5. NotAhead'
  <2> SUFFICES ASSUME NEW d \in Conn, NEW k \in Tag
               PROVE  /\ newest'[d][k] \in 0..udm'[k]
                      /\ \A m \in Pending(d)' : m.tag = k => m.value \in 0..udm'[k]
    BY DEF NotAhead
  <2>1. udm'[k] \in Nat /\ udm[k] <= udm'[k] /\ newest' = newest
    BY DEF Update, browser
  <2>2. newest[d][k] \in 0..udm[k]
    BY DEF NotAhead
  <2>3. ASSUME NEW m \in Pending(d)', m.tag = k PROVE m.value \in 0..udm'[k]
    <3>1. m.value \in 0..udm[k]
      BY <1>4, <2>3 DEF NotAhead
    <3> QED BY <2>1, <3>1
  <2> QED BY <2>1, <2>2, <2>3
<1>6. Delivered'
  <2> SUFFICES ASSUME NEW d \in Conn, NEW k \in Tag, Owed(d, k)'
               PROVE  Reaches(d, k)'
    BY DEF Delivered
  <2>1. Owed(d, k)
    BY DEF Phases, Owed, Update, hub, reading, browser
  <2>2. Reaches(d, k)
    BY <2>1 DEF Delivered
  <2> QED BY <1>4, <2>2 DEF NotAhead, Reaches, Handed, Update, hub, reading, browser
<1> QED BY <1>1, <1>2, <1>3, <1>5, <1>6

LEMMA CopyTargetsOK ==
    ASSUME IInv, CopyTargets
    PROVE  IInv'
<1> USE RealtimeAssumption DEF IInv, Typed, Numbers, Publishing, Routing, Commands, Queues, Places
<1>a. PICK j \in Tag : at = {j} /\ targets' = index[j]
  <2>1. PICK i \in at : targets' = index[i]
    BY DEF CopyTargets
  <2>2. at = {i} /\ i \in Tag
    OBVIOUS
  <2> QED BY <2>1, <2>2
<1>b. ~copied /\ copied' = (targets' # {}) /\ at' = IF targets' = {} THEN {} ELSE at
  BY DEF CopyTargets
<1>1. Typed'
  <2>1. Numbers'
    BY DEF CopyTargets, hub, reading, browser
  <2>2. Publishing'
    BY <1>a, <1>b
  <2>3. Routing'
    BY DEF CopyTargets, hub, reading, browser
  <2>4. Commands'
    BY DEF CopyTargets, hub, reading, browser
  <2>5. Queues'
    BY DEF Msg, CopyTargets, hub, reading, browser
  <2>6. Places'
    BY DEF CopyTargets, hub, reading, browser
  <2> QED BY <2>1, <2>2, <2>3, <2>4, <2>5, <2>6
<1>2. IndexAgrees'
  BY DEF IndexAgrees, CopyTargets, hub, reading, browser
<1>3. Phases'
  BY DEF Phases, CopyTargets, hub, reading, browser
<1>4. \A d \in Conn : Pending(d)' = Pending(d)
  BY DEF Phases, Pending, CopyTargets, hub, reading, browser
<1>5. NotAhead'
  <2> SUFFICES ASSUME NEW d \in Conn, NEW k \in Tag
               PROVE  /\ newest'[d][k] \in 0..udm'[k]
                      /\ \A m \in Pending(d)' : m.tag = k => m.value \in 0..udm'[k]
    BY DEF NotAhead
  <2> QED BY <1>4 DEF NotAhead, CopyTargets, hub, reading, browser
<1>6. Delivered'
  <2> SUFFICES ASSUME NEW d \in Conn, NEW k \in Tag, Owed(d, k)'
               PROVE  Reaches(d, k)'
    BY DEF Delivered
  <2>1. Owed(d, k)
    BY DEF Owed, CopyTargets, hub, reading, browser
  <2>2. Reaches(d, k)
    BY <2>1 DEF Delivered
  <2>3. CASE Handed(d, k)
    <3>1. k = j
      BY <1>a, <2>3 DEF Handed
    <3>2. d \in index[k]
      BY <2>1 DEF Owed, IndexAgrees
    <3> QED BY <1>a, <1>b, <3>1, <3>2 DEF Reaches, Handed
  <2>4. CASE ~Handed(d, k)
    BY <1>4, <2>2, <2>4 DEF Reaches, CopyTargets, browser
  <2> QED BY <2>3, <2>4
<1> QED BY <1>1, <1>2, <1>3, <1>5, <1>6

LEMMA DeliverOK ==
    ASSUME IInv, NEW c \in Conn, Deliver(c)
    PROVE  IInv'
<1> USE RealtimeAssumption DEF IInv, Typed, Numbers, Publishing, Routing, Commands, Queues, Places
<1>a. /\ copied /\ c \in targets /\ targets' = targets \ {c}
      /\ at' = (IF targets' = {} THEN {} ELSE at) /\ copied' = (targets' # {})
      /\ UNCHANGED <<clock, udm, reading, writer, message, browser>>
  BY DEF Deliver
<1>b. \/ UNCHANGED hub
      \/ /\ UNCHANGED <<index, keys, done>>
         /\ \E k \in at : events' = [events EXCEPT ![c] = Append(@, [tag |-> k, value |-> udm[k]])]
      \/ ~done[c] /\ Unregister(c) /\ UNCHANGED events
  BY DEF Deliver, Overflow
<1>c. ASSUME NEW k \in at
      PROVE  LET m == [tag |-> k, value |-> udm[k]]
             IN  /\ m \in Msg
                 /\ Append(events[c], m) \in Seq(Msg)
                 /\ ToSet(Append(events[c], m)) = ToSet(events[c]) \cup {m}
  <2>1. [tag |-> k, value |-> udm[k]] \in Msg
    BY <1>c DEF Msg
  <2> QED BY <2>1, AppendSet
<1>d. /\ Routing' /\ IndexAgrees' /\ \A d \in Conn : done[d] => done'[d]
      /\ \A d \in Conn : ~done'[d] => keys'[d] = keys[d]
  BY <1>b, UnregisterOK DEF IndexAgrees, hub
<1>1. Typed'
  <2>1. Numbers'
    BY <1>a DEF browser
  <2>2. Publishing'
    BY <1>a
  <2>3. Routing'
    BY <1>d
  <2>4. Commands'
    BY <1>a DEF reading
  <2>5. Queues'
    <3>1. CASE UNCHANGED events
      BY <1>a, <3>1 DEF reading
    <3>2. ASSUME NEW k \in at,
                 events' = [events EXCEPT ![c] = Append(@, [tag |-> k, value |-> udm[k]])]
          PROVE  Queues'
      <4>1. Append(events[c], [tag |-> k, value |-> udm[k]]) \in Seq(Msg)
        BY <1>c
      <4>2. events' \in [Conn -> Seq(Msg)]
        BY <3>2, <4>1
      <4>3. UNCHANGED <<out, replies, message>>
        BY <1>a DEF reading
      <4> QED BY <4>2, <4>3
    <3> QED BY <1>b, <3>1, <3>2 DEF hub
  <2>6. Places'
    BY <1>a DEF reading
  <2> QED BY <2>1, <2>2, <2>3, <2>4, <2>5, <2>6
<1>2. IndexAgrees'
  BY <1>d
<1>3. Phases'
  BY <1>a, <1>d DEF Phases, reading
<1>4. \A d \in Conn : 
         \/ Pending(d)' = Pending(d)
         \/ \E k \in at : Pending(d)' = Pending(d) \cup {[tag |-> k, value |-> udm[k]]}
  <2> SUFFICES ASSUME NEW d \in Conn
               PROVE  \/ Pending(d)' = Pending(d)
                      \/ \E k \in at : Pending(d)' = Pending(d) \cup {[tag |-> k, value |-> udm[k]]}
    OBVIOUS
  <2>1. CASE UNCHANGED events
    BY <1>a, <2>1 DEF Pending, reading
  <2>2. ASSUME NEW k \in at, events' = [events EXCEPT ![c] = Append(@, [tag |-> k, value |-> udm[k]])]
        PROVE  Pending(d)' = Pending(d) \/ Pending(d)' = Pending(d) \cup {[tag |-> k, value |-> udm[k]]}
    <3>1. CASE d = c
      <4>1. ToSet(events'[d]) = ToSet(events[d]) \cup {[tag |-> k, value |-> udm[k]]}
        BY <1>c, <2>2, <3>1
      <4> QED BY <1>a, <4>1 DEF Pending, reading
    <3>2. CASE d # c
      BY <1>a, <2>2, <3>2 DEF Pending, reading
    <3> QED BY <3>1, <3>2
  <2> QED BY <1>b, <2>1, <2>2 DEF hub
<1>5. NotAhead'
  <2> SUFFICES ASSUME NEW d \in Conn, NEW k \in Tag
               PROVE  /\ newest'[d][k] \in 0..udm'[k]
                      /\ \A m \in Pending(d)' : m.tag = k => m.value \in 0..udm'[k]
    BY DEF NotAhead
  <2>1. newest' = newest /\ udm' = udm
    BY <1>a DEF browser
  <2>2. ASSUME NEW m \in Pending(d)', m.tag = k PROVE m.value \in 0..udm[k]
    <3>1. CASE m \in Pending(d)
      BY <2>2, <3>1 DEF NotAhead
    <3>2. CASE m \notin Pending(d)
      <4>1. PICK j \in at : m = [tag |-> j, value |-> udm[j]]
        BY <1>4, <3>2
      <4>2. m.value = udm[k] /\ udm[k] \in Nat
        BY <2>2, <4>1
      <4> QED BY <4>2
    <3> QED BY <3>1, <3>2
  <2> QED BY <2>1, <2>2 DEF NotAhead
<1>6. Delivered'
  <2> SUFFICES ASSUME NEW d \in Conn, NEW k \in Tag, Owed(d, k)'
               PROVE  Reaches(d, k)'
    BY DEF Delivered
  <2>1. Owed(d, k)
    BY <1>a, <1>d DEF Owed, reading
  <2>2. Reaches(d, k)
    BY <2>1 DEF Delivered
  <2>3. newest' = newest /\ udm' = udm /\ Pending(d) \subseteq Pending(d)'
    BY <1>a, <1>4 DEF browser
  <2>4. CASE Handed(d, k) /\ d # c
    BY <1>a, <2>4 DEF Reaches, Handed
  <2>5. CASE Handed(d, k) /\ d = c
    <3>1. at = {k} /\ ~done[c] /\ ~done'[c]
      BY <2>1, <2>5 DEF Handed, Owed
    <3>2. events' = [events EXCEPT ![c] = Append(@, [tag |-> k, value |-> udm[k]])]
      BY <3>1, UnregisterOK DEF Deliver, Overflow
    <3>3. [tag |-> k, value |-> udm[k]] \in Pending(d)'
      BY <1>c, <2>5, <3>1, <3>2 DEF Pending
    <3> QED BY <2>3, <3>3 DEF Reaches
  <2>6. CASE ~Handed(d, k)
    BY <2>2, <2>3, <2>6 DEF Reaches
  <2> QED BY <2>4, <2>5, <2>6
<1> QED BY <1>1, <1>2, <1>3, <1>5, <1>6

----------------------------------------------------------------------------
(* The reading goroutine.                                                   *)

LEMMA ConnectOK ==
    ASSUME IInv, NEW c \in Conn, Connect(c)
    PROVE  IInv'
<1> USE RealtimeAssumption DEF IInv, Typed, Numbers, Publishing, Routing, Commands, Queues, Places
<1>1. Typed'
  <2>1. Numbers'
    BY DEF Connect, ReaderGoes, collector, hub, browser
  <2>2. Publishing'
    BY DEF Connect, ReaderGoes, collector, hub, browser
  <2>3. Routing'
    BY DEF Connect, ReaderGoes, collector, hub, browser
  <2>4. Commands'
    BY DEF Connect, ReaderGoes, collector, hub, browser
  <2>5. Queues'
    BY DEF Msg, Connect, ReaderGoes, collector, hub, browser
  <2>6. Places'
    BY DEF Connect, ReaderGoes, collector, hub, browser
  <2> QED BY <2>1, <2>2, <2>3, <2>4, <2>5, <2>6
<1>2. IndexAgrees'
  BY DEF IndexAgrees, Connect, ReaderGoes, collector, hub, browser
<1>3. Phases'
  BY DEF Phases, Connect, ReaderGoes, collector, hub, browser
<1>4. \A d \in Conn : Pending(d)' = Pending(d)
  BY DEF Phases, Pending, Connect, ReaderGoes, collector, hub, browser
<1>5. NotAhead'
  <2> SUFFICES ASSUME NEW d \in Conn, NEW k \in Tag
               PROVE  /\ newest'[d][k] \in 0..udm'[k]
                      /\ \A m \in Pending(d)' : m.tag = k => m.value \in 0..udm'[k]
    BY DEF NotAhead
  <2> QED BY <1>4 DEF NotAhead, Connect, ReaderGoes, collector, hub, browser
<1>6. Delivered'
  <2> SUFFICES ASSUME NEW d \in Conn, NEW k \in Tag, Owed(d, k)'
               PROVE  Reaches(d, k)'
    BY DEF Delivered
  <2>1. Owed(d, k)
    BY DEF Phases, Owed, Connect, ReaderGoes, collector, hub, browser
  <2>2. Reaches(d, k)
    BY <2>1 DEF Delivered
  <2> QED BY <1>4, <2>2 DEF NotAhead, Reaches, Handed, Connect, ReaderGoes, collector, hub, browser
<1> QED BY <1>1, <1>2, <1>3, <1>5, <1>6

LEMMA ReadSubscribeOK ==
    ASSUME IInv, NEW c \in Conn, NEW tags \in SUBSET Tag, ReadSubscribe(c, tags)
    PROVE  IInv'
<1> USE RealtimeAssumption DEF IInv, Typed, Numbers, Publishing, Routing, Commands, Queues, Places
<1>1. Typed'
  <2>1. Numbers'
    BY DEF ReadSubscribe, ReaderGoes, collector, hub, browser
  <2>2. Publishing'
    BY DEF ReadSubscribe, ReaderGoes, collector, hub, browser
  <2>3. Routing'
    BY DEF ReadSubscribe, ReaderGoes, collector, hub, browser
  <2>4. Commands'
    BY DEF ReadSubscribe, ReaderGoes, collector, hub, browser
  <2>5. Queues'
    BY DEF Msg, ReadSubscribe, ReaderGoes, collector, hub, browser
  <2>6. Places'
    BY DEF ReadSubscribe, ReaderGoes, collector, hub, browser
  <2> QED BY <2>1, <2>2, <2>3, <2>4, <2>5, <2>6
<1>2. IndexAgrees'
  BY DEF IndexAgrees, ReadSubscribe, ReaderGoes, collector, hub, browser
<1>3. Phases'
  BY DEF Phases, ReadSubscribe, ReaderGoes, collector, hub, browser
<1>4. \A d \in Conn : Pending(d)' = Pending(d)
  BY DEF Phases, Pending, ReadSubscribe, ReaderGoes, collector, hub, browser
<1>5. NotAhead'
  <2> SUFFICES ASSUME NEW d \in Conn, NEW k \in Tag
               PROVE  /\ newest'[d][k] \in 0..udm'[k]
                      /\ \A m \in Pending(d)' : m.tag = k => m.value \in 0..udm'[k]
    BY DEF NotAhead
  <2> QED BY <1>4 DEF NotAhead, ReadSubscribe, ReaderGoes, collector, hub, browser
<1>6. Delivered'
  <2> SUFFICES ASSUME NEW d \in Conn, NEW k \in Tag, Owed(d, k)'
               PROVE  Reaches(d, k)'
    BY DEF Delivered
  <2>1. Owed(d, k)
    BY DEF Phases, Owed, ReadSubscribe, ReaderGoes, collector, hub, browser
  <2>2. Reaches(d, k)
    BY <2>1 DEF Delivered
  <2> QED BY <1>4, <2>2 DEF NotAhead, Reaches, Handed, ReadSubscribe, ReaderGoes, collector, hub, browser
<1> QED BY <1>1, <1>2, <1>3, <1>5, <1>6

LEMMA SetOK ==
    ASSUME IInv, NEW c \in Conn, Set(c)
    PROVE  IInv'
<1> USE RealtimeAssumption DEF IInv, Typed, Numbers, Publishing, Routing, Commands, Queues, Places
<1>a. \/ ReaderGoes(c, "set", "error") /\ UNCHANGED <<index, keys>>
      \/ /\ ReaderGoes(c, "set", "snapshot")
         /\ keys' = [keys EXCEPT ![c] = @ \cup command[c]]
         /\ index' = [k \in Tag |-> IF k \in command[c] THEN index[k] \cup {c} ELSE index[k]]
  BY DEF Set
<1>1. Typed'
  <2>1. Numbers'
    BY DEF Set, ReaderGoes, collector, hub, browser
  <2>2. Publishing'
    BY DEF Set, ReaderGoes, collector, hub, browser
  <2>3. Routing'
    <3>1. CASE UNCHANGED <<index, keys>>
      BY <3>1 DEF Set
    <3>2. CASE /\ keys' = [keys EXCEPT ![c] = @ \cup command[c]]
               /\ index' = [k \in Tag |-> IF k \in command[c] THEN index[k] \cup {c} ELSE index[k]]
      <4>1. index' \in [Tag -> SUBSET Conn]
        BY <3>2
      <4>2. keys[c] \cup command[c] \in SUBSET Tag
        OBVIOUS
      <4>3. keys' \in [Conn -> SUBSET Tag]
        BY <3>2, <4>2
      <4> QED BY <4>1, <4>3 DEF Set
    <3> QED BY <1>a, <3>1, <3>2
  <2>4. Commands'
    BY DEF Set, ReaderGoes, collector, hub, browser
  <2>5. Queues'
    BY DEF Msg, Set, ReaderGoes, collector, hub, browser
  <2>6. Places'
    BY DEF Set, ReaderGoes, collector, hub, browser
  <2> QED BY <2>1, <2>2, <2>3, <2>4, <2>5, <2>6
<1>2. IndexAgrees'
  <2>1. CASE UNCHANGED <<index, keys>>
    BY <2>1 DEF IndexAgrees
  <2>2. CASE /\ keys' = [keys EXCEPT ![c] = @ \cup command[c]]
             /\ index' = [k \in Tag |-> IF k \in command[c] THEN index[k] \cup {c} ELSE index[k]]
    BY <2>2 DEF IndexAgrees
  <2> QED BY <1>a, <2>1, <2>2
<1>3. Phases'
  <2> SUFFICES ASSUME NEW d \in Conn
               PROVE  /\ writer'[d] = "none" => reader'[d] = "none" /\ answered'[d] = {}
                      /\ writer'[d] # "write" => message'[d] = Error
                      /\ reader'[d] # "reply" => replies'[d] = {}
                      /\ reader'[d] = "snapshot" /\ ~done'[d] => command'[d] \subseteq keys'[d]
                      /\ ~done'[d] => answered'[d] \subseteq keys'[d]
    BY DEF Phases
  <2>1. keys[d] \subseteq keys'[d] /\ (d = c /\ reader'[c] = "snapshot" => command[d] \subseteq keys'[d])
    BY <1>a DEF ReaderGoes
  <2>2. reader[c] = "set" /\ reader'[c] \in {"error", "snapshot"} /\ (d # c => reader'[d] = reader[d])
    BY <1>a DEF ReaderGoes
  <2>3. UNCHANGED <<done, command, replies, answered, writer, message>>
    BY DEF Set
  <2> QED BY <2>1, <2>2, <2>3 DEF Phases
<1>4. \A d \in Conn : Pending(d)' = Pending(d)
  BY DEF Phases, Pending, Set, ReaderGoes, collector, hub, browser
<1>5. NotAhead'
  <2> SUFFICES ASSUME NEW d \in Conn, NEW k \in Tag
               PROVE  /\ newest'[d][k] \in 0..udm'[k]
                      /\ \A m \in Pending(d)' : m.tag = k => m.value \in 0..udm'[k]
    BY DEF NotAhead
  <2> QED BY <1>4 DEF NotAhead, Set, ReaderGoes, collector, hub, browser
<1>6. Delivered'
  <2> SUFFICES ASSUME NEW d \in Conn, NEW k \in Tag, Owed(d, k)'
               PROVE  Reaches(d, k)'
    BY DEF Delivered
  <2>1. Owed(d, k)
    BY <1>3 DEF Phases, Owed, Set
  <2>2. Reaches(d, k)
    BY <2>1 DEF Delivered
  <2> QED BY <1>4, <2>2 DEF Reaches, Handed, Set, collector, browser
<1> QED BY <1>1, <1>2, <1>3, <1>5, <1>6

LEMMA SnapshotOK ==
    ASSUME IInv, NEW c \in Conn, Snapshot(c)
    PROVE  IInv'
<1> USE RealtimeAssumption DEF IInv, Typed, Numbers, Publishing, Routing, Commands, Queues, Places
<1> DEFINE Values == {[tag |-> k, value |-> udm[k]] : k \in {j \in command[c] : udm[j] # 0}}
<1>a. /\ ReaderGoes(c, "snapshot", "reply")
      /\ UNCHANGED <<collector, hub, out, command, writer, message, browser>>
  BY DEF Snapshot
<1>b. \/ UNCHANGED <<replies, answered>>
      \/ /\ replies' = [replies EXCEPT ![c] = Values]
         /\ answered' = [answered EXCEPT ![c] = @ \cup command[c]]
  BY DEF Snapshot
<1>c. command[c] \subseteq Tag /\ answered[c] \cup command[c] \in SUBSET Tag
  OBVIOUS
<1>d. Values \in SUBSET Msg
  BY <1>c DEF Msg
<1>e. \A m \in Values : m.tag \in command[c] /\ m.value = udm[m.tag]
  OBVIOUS
<1>f. ASSUME NEW k \in command[c], udm[k] # 0 PROVE \E m \in Values : m.tag = k
  <2>1. [tag |-> k, value |-> udm[k]] \in Values
    BY <1>f
  <2> QED BY <2>1
<1>g. replies[c] = {}
  BY <1>a DEF Phases, ReaderGoes
<1> HIDE DEF Values
<1>1. Typed'
  <2>1. Numbers'
    BY <1>a DEF collector, browser
  <2>2. Publishing'
    BY <1>a DEF collector
  <2>3. Routing'
    BY <1>a DEF hub
  <2>4. Commands'
    <3>1. CASE UNCHANGED answered
      BY <1>a, <3>1
    <3>2. CASE answered' = [answered EXCEPT ![c] = @ \cup command[c]]
      BY <1>a, <1>c, <3>2
    <3> QED BY <1>b, <3>1, <3>2
  <2>5. Queues'
    BY <1>a, <1>b, <1>d DEF hub
  <2>6. Places'
    BY <1>a DEF ReaderGoes
  <2> QED BY <2>1, <2>2, <2>3, <2>4, <2>5, <2>6
<1>2. IndexAgrees'
  BY <1>a DEF IndexAgrees, hub
<1>3. Phases'
  <2> SUFFICES ASSUME NEW d \in Conn
               PROVE  /\ writer'[d] = "none" => reader'[d] = "none" /\ answered'[d] = {}
                      /\ writer'[d] # "write" => message'[d] = Error
                      /\ reader'[d] # "reply" => replies'[d] = {}
                      /\ reader'[d] = "snapshot" /\ ~done'[d] => command'[d] \subseteq keys'[d]
                      /\ ~done'[d] => answered'[d] \subseteq keys'[d]
    BY DEF Phases
  <2>1. reader[c] = "snapshot" /\ reader'[c] = "reply" /\ (d # c => reader'[d] = reader[d])
    BY <1>a DEF ReaderGoes
  <2>2. UNCHANGED <<done, keys, command, writer, message>>
    BY <1>a DEF hub
  <2>3. CASE d = c
    <3>1. answered'[c] \subseteq answered[c] \cup command[c]
      BY <1>b
    <3> QED BY <2>1, <2>2, <2>3, <3>1 DEF Phases
  <2>4. CASE d # c
    <3>1. answered'[d] = answered[d] /\ replies'[d] = replies[d]
      BY <1>b, <2>4
    <3> QED BY <2>1, <2>2, <2>4, <3>1 DEF Phases
  <2> QED BY <2>3, <2>4
<1>4. \A d \in Conn : 
         \/ Pending(d)' = Pending(d)
         \/ d = c /\ Pending(d)' = Pending(d) \cup Values
  <2> SUFFICES ASSUME NEW d \in Conn
               PROVE  \/ Pending(d)' = Pending(d)
                      \/ d = c /\ Pending(d)' = Pending(d) \cup Values
    OBVIOUS
  <2>1. UNCHANGED <<events, out, message>>
    BY <1>a DEF hub
  <2>2. CASE replies'[d] = replies[d]
    BY <2>1, <2>2 DEF Pending
  <2>3. CASE d = c /\ replies'[c] = Values
    BY <1>g, <2>1, <2>3 DEF Pending
  <2> QED BY <1>b, <2>2, <2>3
<1>5. NotAhead'
  <2> SUFFICES ASSUME NEW d \in Conn, NEW k \in Tag
               PROVE  /\ newest'[d][k] \in 0..udm'[k]
                      /\ \A m \in Pending(d)' : m.tag = k => m.value \in 0..udm'[k]
    BY DEF NotAhead
  <2>1. newest' = newest /\ udm' = udm
    BY <1>a DEF collector, browser
  <2>2. \A m \in Values : m.tag = k => m.value \in 0..udm[k]
    BY <1>e
  <2> QED BY <1>4, <2>1, <2>2 DEF NotAhead
<1>6. Delivered'
  <2> SUFFICES ASSUME NEW d \in Conn, NEW k \in Tag, Owed(d, k)'
               PROVE  Reaches(d, k)'
    BY DEF Delivered
  <2>1. /\ Pending(d) \subseteq Pending(d)'
        /\ UNCHANGED <<udm, newest, at, copied, targets, done, keys, writer>>
    BY <1>4, <1>a DEF collector, browser, hub
  <2>2. CASE k \in answered[d]
    <3>1. Reaches(d, k)
      BY <2>1, <2>2 DEF Delivered, Owed
    <3> QED BY <2>1, <3>1 DEF Reaches, Handed
  <2>3. CASE k \notin answered[d]
    <3>1. d = c /\ k \in command[c] /\ replies'[c] = Values
      BY <1>b, <2>3 DEF Owed
    <3>2. CASE udm[k] = 0
      BY <2>1, <3>2 DEF NotAhead, Reaches
    <3>3. CASE udm[k] # 0
      <4>1. PICK m \in Values : m.tag = k
        BY <1>f, <3>1, <3>3
      <4>2. m \in Pending(d)' /\ m.value = udm[k]
        BY <1>e, <3>1, <4>1 DEF Pending
      <4> QED BY <2>1, <4>1, <4>2 DEF Reaches
    <3> QED BY <3>2, <3>3
  <2> QED BY <2>2, <2>3
<1> QED BY <1>1, <1>2, <1>3, <1>5, <1>6

LEMMA ReplyOK ==
    ASSUME IInv, NEW c \in Conn, Reply(c)
    PROVE  IInv'
<1> USE RealtimeAssumption DEF IInv, Typed, Numbers, Publishing, Routing, Commands, Queues, Places
<1>a. \/ /\ UNCHANGED <<reader, command>>
         /\ reader[c] = "reply"
         /\ \E m \in replies[c] : /\ out' = [out EXCEPT ![c] = Append(@, m)]
                                  /\ replies' = [replies EXCEPT ![c] = @ \ {m}]
      \/ replies[c] = {} /\ UNCHANGED <<out, replies>>
  BY DEF Reply, Send
<1>b. UNCHANGED <<events, message>>
  BY DEF Reply, hub
<1>c. \A m \in replies[c] :
          /\ m \in Msg /\ Append(out[c], m) \in Seq(Msg) /\ replies[c] \ {m} \in SUBSET Msg
          /\ ToSet(Append(out[c], m)) = ToSet(out[c]) \cup {m}
  BY AppendSet
<1>1. Typed'
  <2>1. Numbers'
    BY DEF Reply, Send, ReaderGoes, collector, hub, browser
  <2>2. Publishing'
    BY DEF Reply, Send, ReaderGoes, collector, hub, browser
  <2>3. Routing'
    BY DEF Reply, Send, ReaderGoes, collector, hub, browser
  <2>4. Commands'
    BY DEF Reply, Send, ReaderGoes, collector, hub, browser
  <2>5. Queues'
    <3>1. CASE UNCHANGED <<out, replies>>
      BY <1>b, <3>1
    <3>2. ASSUME NEW m \in replies[c], out' = [out EXCEPT ![c] = Append(@, m)],
                 replies' = [replies EXCEPT ![c] = @ \ {m}]
          PROVE  Queues'
      BY <1>b, <1>c, <3>2
    <3> QED BY <1>a, <3>1, <3>2
  <2>6. Places'
    <3>1. writer' = writer
      BY DEF Reply
    <3>2. reader' = reader \/ reader' = [reader EXCEPT ![c] = "read"]
      BY DEF Reply, ReaderGoes
    <3> QED BY <3>1, <3>2
  <2> QED BY <2>1, <2>2, <2>3, <2>4, <2>5, <2>6
<1>2. IndexAgrees'
  BY DEF IndexAgrees, Reply, Send, ReaderGoes, collector, hub, browser
<1>3. Phases'
  BY DEF Phases, Reply, Send, ReaderGoes, collector, hub, browser
<1>4. \A d \in Conn : Pending(d)' = Pending(d)
  <2>1. CASE UNCHANGED <<out, replies>>
    BY <1>b, <2>1 DEF Pending
  <2>2. ASSUME NEW m \in replies[c], out' = [out EXCEPT ![c] = Append(@, m)],
               replies' = [replies EXCEPT ![c] = @ \ {m}]
        PROVE  \A d \in Conn : Pending(d)' = Pending(d)
    <3>1. /\ ToSet(out'[c]) = ToSet(out[c]) \cup {m} /\ replies'[c] = replies[c] \ {m}
          /\ \A d \in Conn \ {c} : out'[d] = out[d] /\ replies'[d] = replies[d]
      BY <1>c, <2>2
    <3>2. Pending(c)' = ToSet(events[c]) \cup (ToSet(out[c]) \cup {m})
                           \cup (replies[c] \ {m}) \cup {message[c]}
      BY <1>b, <3>1 DEF Pending
    <3>3. Pending(c)' = Pending(c)
      BY <3>2 DEF Pending
    <3> QED BY <1>b, <3>1, <3>3 DEF Pending
  <2> QED BY <1>a, <2>1, <2>2
<1>5. NotAhead'
  <2> SUFFICES ASSUME NEW d \in Conn, NEW k \in Tag
               PROVE  /\ newest'[d][k] \in 0..udm'[k]
                      /\ \A m \in Pending(d)' : m.tag = k => m.value \in 0..udm'[k]
    BY DEF NotAhead
  <2> QED BY <1>4 DEF NotAhead, Reply, Send, ReaderGoes, collector, hub, browser
<1>6. Delivered'
  <2> SUFFICES ASSUME NEW d \in Conn, NEW k \in Tag, Owed(d, k)'
               PROVE  Reaches(d, k)'
    BY DEF Delivered
  <2>1. Owed(d, k)
    BY DEF Phases, Owed, Reply, Send, ReaderGoes, collector, hub, browser
  <2>2. Reaches(d, k)
    BY <2>1 DEF Delivered
  <2> QED BY <1>4, <2>2 DEF NotAhead, Reaches, Handed, Reply, Send, ReaderGoes, collector, hub, browser
<1> QED BY <1>1, <1>2, <1>3, <1>5, <1>6

LEMMA ReadUnsubscribeOK ==
    ASSUME IInv, NEW c \in Conn, NEW tags \in SUBSET Tag, ReadUnsubscribe(c, tags)
    PROVE  IInv'
<1> USE RealtimeAssumption DEF IInv, Typed, Numbers, Publishing, Routing, Commands, Queues, Places
<1>1. Typed'
  <2>1. Numbers'
    BY DEF ReadUnsubscribe, Unindexed, ReaderGoes, collector, hub, browser
  <2>2. Publishing'
    BY DEF ReadUnsubscribe, Unindexed, ReaderGoes, collector, hub, browser
  <2>3. Routing'
    BY DEF ReadUnsubscribe, Unindexed, ReaderGoes, collector, hub, browser
  <2>4. Commands'
    BY DEF ReadUnsubscribe, Unindexed, ReaderGoes, collector, hub, browser
  <2>5. Queues'
    BY DEF Msg, ReadUnsubscribe, Unindexed, ReaderGoes, collector, hub, browser
  <2>6. Places'
    BY DEF ReadUnsubscribe, Unindexed, ReaderGoes, collector, hub, browser
  <2> QED BY <2>1, <2>2, <2>3, <2>4, <2>5, <2>6
<1>2. IndexAgrees'
  BY DEF IndexAgrees, ReadUnsubscribe, Unindexed, ReaderGoes, collector, hub, browser
<1>3. Phases'
  BY DEF Phases, ReadUnsubscribe, Unindexed, ReaderGoes, collector, hub, browser
<1>4. \A d \in Conn : Pending(d)' = Pending(d)
  BY DEF Phases, Pending, ReadUnsubscribe, Unindexed, ReaderGoes, collector, hub, browser
<1>5. NotAhead'
  <2> SUFFICES ASSUME NEW d \in Conn, NEW k \in Tag
               PROVE  /\ newest'[d][k] \in 0..udm'[k]
                      /\ \A m \in Pending(d)' : m.tag = k => m.value \in 0..udm'[k]
    BY DEF NotAhead
  <2> QED BY <1>4 DEF NotAhead, ReadUnsubscribe, Unindexed, ReaderGoes, collector, hub, browser
<1>6. Delivered'
  <2> SUFFICES ASSUME NEW d \in Conn, NEW k \in Tag, Owed(d, k)'
               PROVE  Reaches(d, k)'
    BY DEF Delivered
  <2>1. Owed(d, k)
    BY DEF Phases, Owed, ReadUnsubscribe, Unindexed, ReaderGoes, collector, hub, browser
  <2>2. Reaches(d, k)
    BY <2>1 DEF Delivered
  <2> QED BY <1>4, <2>2 DEF NotAhead, Reaches, Handed, ReadUnsubscribe, Unindexed, ReaderGoes, collector, hub, browser
<1> QED BY <1>1, <1>2, <1>3, <1>5, <1>6

LEMMA ReadInvalidOK ==
    ASSUME IInv, NEW c \in Conn, ReadInvalid(c)
    PROVE  IInv'
<1> USE RealtimeAssumption DEF IInv, Typed, Numbers, Publishing, Routing, Commands, Queues, Places
<1>a. PICK to \in {"error", "ended"} : ReaderGoes(c, "read", to)
  BY DEF ReadInvalid
<1>1. Typed'
  <2>1. Numbers'
    BY DEF ReadInvalid, ReaderGoes, collector, hub, browser
  <2>2. Publishing'
    BY DEF ReadInvalid, ReaderGoes, collector, hub, browser
  <2>3. Routing'
    BY DEF ReadInvalid, ReaderGoes, collector, hub, browser
  <2>4. Commands'
    BY DEF ReadInvalid, ReaderGoes, collector, hub, browser
  <2>5. Queues'
    BY DEF Msg, ReadInvalid, ReaderGoes, collector, hub, browser
  <2>6. Places'
    BY <1>a DEF ReadInvalid, ReaderGoes
  <2> QED BY <2>1, <2>2, <2>3, <2>4, <2>5, <2>6
<1>2. IndexAgrees'
  BY DEF IndexAgrees, ReadInvalid, ReaderGoes, collector, hub, browser
<1>3. Phases'
  BY <1>a DEF Phases, ReadInvalid, ReaderGoes, hub
<1>4. \A d \in Conn : Pending(d)' = Pending(d)
  BY DEF Phases, Pending, ReadInvalid, ReaderGoes, collector, hub, browser
<1>5. NotAhead'
  <2> SUFFICES ASSUME NEW d \in Conn, NEW k \in Tag
               PROVE  /\ newest'[d][k] \in 0..udm'[k]
                      /\ \A m \in Pending(d)' : m.tag = k => m.value \in 0..udm'[k]
    BY DEF NotAhead
  <2> QED BY <1>4 DEF NotAhead, ReadInvalid, ReaderGoes, collector, hub, browser
<1>6. Delivered'
  <2> SUFFICES ASSUME NEW d \in Conn, NEW k \in Tag, Owed(d, k)'
               PROVE  Reaches(d, k)'
    BY DEF Delivered
  <2>1. Owed(d, k)
    BY DEF Phases, Owed, ReadInvalid, ReaderGoes, collector, hub, browser
  <2>2. Reaches(d, k)
    BY <2>1 DEF Delivered
  <2> QED BY <1>4, <2>2 DEF NotAhead, Reaches, Handed, ReadInvalid, ReaderGoes, collector, hub, browser
<1> QED BY <1>1, <1>2, <1>3, <1>5, <1>6

LEMMA ReadFailsOK ==
    ASSUME IInv, NEW c \in Conn, ReadFails(c)
    PROVE  IInv'
<1> USE RealtimeAssumption DEF IInv, Typed, Numbers, Publishing, Routing, Commands, Queues, Places
<1>1. Typed'
  <2>1. Numbers'
    BY DEF ReadFails, ReaderGoes, collector, hub, browser
  <2>2. Publishing'
    BY DEF ReadFails, ReaderGoes, collector, hub, browser
  <2>3. Routing'
    BY DEF ReadFails, ReaderGoes, collector, hub, browser
  <2>4. Commands'
    BY DEF ReadFails, ReaderGoes, collector, hub, browser
  <2>5. Queues'
    BY DEF Msg, ReadFails, ReaderGoes, collector, hub, browser
  <2>6. Places'
    BY DEF ReadFails, ReaderGoes, collector, hub, browser
  <2> QED BY <2>1, <2>2, <2>3, <2>4, <2>5, <2>6
<1>2. IndexAgrees'
  BY DEF IndexAgrees, ReadFails, ReaderGoes, collector, hub, browser
<1>3. Phases'
  BY DEF Phases, ReadFails, ReaderGoes, collector, hub, browser
<1>4. \A d \in Conn : Pending(d)' = Pending(d)
  BY DEF Phases, Pending, ReadFails, ReaderGoes, collector, hub, browser
<1>5. NotAhead'
  <2> SUFFICES ASSUME NEW d \in Conn, NEW k \in Tag
               PROVE  /\ newest'[d][k] \in 0..udm'[k]
                      /\ \A m \in Pending(d)' : m.tag = k => m.value \in 0..udm'[k]
    BY DEF NotAhead
  <2> QED BY <1>4 DEF NotAhead, ReadFails, ReaderGoes, collector, hub, browser
<1>6. Delivered'
  <2> SUFFICES ASSUME NEW d \in Conn, NEW k \in Tag, Owed(d, k)'
               PROVE  Reaches(d, k)'
    BY DEF Delivered
  <2>1. Owed(d, k)
    BY DEF Phases, Owed, ReadFails, ReaderGoes, collector, hub, browser
  <2>2. Reaches(d, k)
    BY <2>1 DEF Delivered
  <2> QED BY <1>4, <2>2 DEF NotAhead, Reaches, Handed, ReadFails, ReaderGoes, collector, hub, browser
<1> QED BY <1>1, <1>2, <1>3, <1>5, <1>6

LEMMA ReportErrorOK ==
    ASSUME IInv, NEW c \in Conn, ReportError(c)
    PROVE  IInv'
<1> USE RealtimeAssumption DEF IInv, Typed, Numbers, Publishing, Routing, Commands, Queues, Places
<1>a. out' = [out EXCEPT ![c] = Append(@, Error)] /\ UNCHANGED <<events, replies, message>>
  BY DEF ReportError, Send, hub
<1>b. /\ Append(out[c], Error) \in Seq(Msg)
      /\ ToSet(Append(out[c], Error)) = ToSet(out[c]) \cup {Error}
  BY AppendSet, ErrorParts
<1>1. Typed'
  <2>1. Numbers'
    BY DEF ReportError, Send, ReaderGoes, collector, hub, browser
  <2>2. Publishing'
    BY DEF ReportError, Send, ReaderGoes, collector, hub, browser
  <2>3. Routing'
    BY DEF ReportError, Send, ReaderGoes, collector, hub, browser
  <2>4. Commands'
    BY DEF ReportError, Send, ReaderGoes, collector, hub, browser
  <2>5. Queues'
    BY <1>a, <1>b
  <2>6. Places'
    BY DEF ReportError, Send, ReaderGoes, collector, hub, browser
  <2> QED BY <2>1, <2>2, <2>3, <2>4, <2>5, <2>6
<1>2. IndexAgrees'
  BY DEF IndexAgrees, ReportError, Send, ReaderGoes, collector, hub, browser
<1>3. Phases'
  BY DEF Phases, ReportError, Send, ReaderGoes, collector, hub, browser
<1>4. \A d \in Conn : Pending(d)' \in {Pending(d), Pending(d) \cup {Error}}
  <2> SUFFICES ASSUME NEW d \in Conn PROVE Pending(d)' \in {Pending(d), Pending(d) \cup {Error}}
    OBVIOUS
  <2>1. CASE d = c
    <3>1. ToSet(out'[d]) = ToSet(out[d]) \cup {Error}
      BY <1>a, <1>b, <2>1
    <3> QED BY <1>a, <3>1 DEF Pending
  <2>2. CASE d # c
    BY <1>a, <2>2 DEF Pending
  <2> QED BY <2>1, <2>2
<1>5. NotAhead'
  <2>1. UNCHANGED <<udm, newest>>
    BY DEF ReportError, collector, browser
  <2>2. \A d \in Conn : Pending(d)' \subseteq Pending(d) \cup {Error}
    BY <1>4
  <2> QED BY <2>1, <2>2, SameAhead
<1>6. Delivered'
  <2> SUFFICES ASSUME NEW d \in Conn, NEW k \in Tag, Owed(d, k)'
               PROVE  Reaches(d, k)'
    BY DEF Delivered
  <2>1. Owed(d, k)
    BY DEF Phases, Owed, ReportError, Send, ReaderGoes, collector, hub, browser
  <2>2. Reaches(d, k)
    BY <2>1 DEF Delivered
  <2> QED BY <1>4, <2>2 DEF NotAhead, Reaches, Handed, ReportError, Send, ReaderGoes, collector, hub, browser
<1> QED BY <1>1, <1>2, <1>3, <1>5, <1>6

----------------------------------------------------------------------------
(* The writing goroutine.                                                   *)

LEMMA TakeEventOK ==
    ASSUME IInv, NEW c \in Conn, TakeEvent(c)
    PROVE  IInv'
<1> USE RealtimeAssumption DEF IInv, Typed, Numbers, Publishing, Routing, Commands, Queues, Places
<1>1. Typed'
  <2>1. Numbers'
    BY DEF TakeEvent, WriterGoes, collector, hub, reading, browser
  <2>2. Publishing'
    BY DEF TakeEvent, WriterGoes, collector, hub, reading, browser
  <2>3. Routing'
    BY DEF TakeEvent, WriterGoes, collector, hub, reading, browser
  <2>4. Commands'
    BY DEF TakeEvent, WriterGoes, collector, hub, reading, browser
  <2>5. Queues'
    BY TailSet DEF Msg, TakeEvent, WriterGoes, collector, hub, reading, browser
  <2>6. Places'
    BY DEF TakeEvent, WriterGoes, collector, hub, reading, browser
  <2> QED BY <2>1, <2>2, <2>3, <2>4, <2>5, <2>6
<1>2. IndexAgrees'
  BY DEF IndexAgrees, TakeEvent, WriterGoes, collector, hub, reading, browser
<1>3. Phases'
  BY DEF Phases, TakeEvent, WriterGoes, collector, hub, reading, browser
<1>4. \A d \in Conn : Pending(d) \in {Pending(d)', Pending(d)' \cup {Error}}
  BY TailSet DEF Phases, Pending, TakeEvent, WriterGoes, collector, hub, reading, browser
<1>5. NotAhead'
  <2> SUFFICES ASSUME NEW d \in Conn, NEW k \in Tag
               PROVE  /\ newest'[d][k] \in 0..udm'[k]
                      /\ \A m \in Pending(d)' : m.tag = k => m.value \in 0..udm'[k]
    BY DEF NotAhead
  <2> QED BY <1>4 DEF NotAhead, TakeEvent, WriterGoes, collector, hub, reading, browser
<1>6. Delivered'
  <2> SUFFICES ASSUME NEW d \in Conn, NEW k \in Tag, Owed(d, k)'
               PROVE  Reaches(d, k)'
    BY DEF Delivered
  <2>1. Owed(d, k)
    BY DEF Owed, TakeEvent, WriterGoes, collector, hub, reading, browser
  <2>2. Reaches(d, k)
    BY <2>1 DEF Delivered
  <2>3. UNCHANGED <<udm, newest, at, copied, targets>>
    BY DEF TakeEvent, collector, browser
  <2>4. Pending(d) \subseteq Pending(d)' \cup {Error}
    BY <1>4
  <2> QED BY <2>2, <2>3, <2>4, SameReach
<1> QED BY <1>1, <1>2, <1>3, <1>5, <1>6

LEMMA TakeOutOK ==
    ASSUME IInv, NEW c \in Conn, TakeOut(c)
    PROVE  IInv'
<1> USE RealtimeAssumption DEF IInv, Typed, Numbers, Publishing, Routing, Commands, Queues, Places
<1>1. Typed'
  <2>1. Numbers'
    BY DEF TakeOut, WriterGoes, collector, hub, reading, browser
  <2>2. Publishing'
    BY DEF TakeOut, WriterGoes, collector, hub, reading, browser
  <2>3. Routing'
    BY DEF TakeOut, WriterGoes, collector, hub, reading, browser
  <2>4. Commands'
    BY DEF TakeOut, WriterGoes, collector, hub, reading, browser
  <2>5. Queues'
    BY TailSet DEF Msg, TakeOut, WriterGoes, collector, hub, reading, browser
  <2>6. Places'
    BY DEF TakeOut, WriterGoes, collector, hub, reading, browser
  <2> QED BY <2>1, <2>2, <2>3, <2>4, <2>5, <2>6
<1>2. IndexAgrees'
  BY DEF IndexAgrees, TakeOut, WriterGoes, collector, hub, reading, browser
<1>3. Phases'
  BY DEF Phases, TakeOut, WriterGoes, collector, hub, reading, browser
<1>4. \A d \in Conn : Pending(d) \in {Pending(d)', Pending(d)' \cup {Error}}
  BY TailSet DEF Phases, Pending, TakeOut, WriterGoes, collector, hub, reading, browser
<1>5. NotAhead'
  <2> SUFFICES ASSUME NEW d \in Conn, NEW k \in Tag
               PROVE  /\ newest'[d][k] \in 0..udm'[k]
                      /\ \A m \in Pending(d)' : m.tag = k => m.value \in 0..udm'[k]
    BY DEF NotAhead
  <2> QED BY <1>4 DEF NotAhead, TakeOut, WriterGoes, collector, hub, reading, browser
<1>6. Delivered'
  <2> SUFFICES ASSUME NEW d \in Conn, NEW k \in Tag, Owed(d, k)'
               PROVE  Reaches(d, k)'
    BY DEF Delivered
  <2>1. Owed(d, k)
    BY DEF Owed, TakeOut, WriterGoes, collector, hub, reading, browser
  <2>2. Reaches(d, k)
    BY <2>1 DEF Delivered
  <2>3. UNCHANGED <<udm, newest, at, copied, targets>>
    BY DEF TakeOut, collector, browser
  <2>4. Pending(d) \subseteq Pending(d)' \cup {Error}
    BY <1>4
  <2> QED BY <2>2, <2>3, <2>4, SameReach
<1> QED BY <1>1, <1>2, <1>3, <1>5, <1>6

LEMMA LeaveOK ==
    ASSUME IInv, NEW c \in Conn, Leave(c)
    PROVE  IInv'
<1> USE RealtimeAssumption DEF IInv, Typed, Numbers, Publishing, Routing, Commands, Queues, Places
<1>1. Typed'
  <2>1. Numbers'
    BY DEF Leave, Dropped, WriterGoes, collector, hub, reading, browser
  <2>2. Publishing'
    BY DEF Leave, Dropped, WriterGoes, collector, hub, reading, browser
  <2>3. Routing'
    BY DEF Leave, Dropped, WriterGoes, collector, hub, reading, browser
  <2>4. Commands'
    BY DEF Leave, Dropped, WriterGoes, collector, hub, reading, browser
  <2>5. Queues'
    BY DEF Msg, Leave, Dropped, WriterGoes, collector, hub, reading, browser
  <2>6. Places'
    BY DEF Leave, Dropped, WriterGoes, collector, hub, reading, browser
  <2> QED BY <2>1, <2>2, <2>3, <2>4, <2>5, <2>6
<1>2. IndexAgrees'
  BY DEF IndexAgrees, Leave, Dropped, WriterGoes, collector, hub, reading, browser
<1>3. Phases'
  BY DEF Phases, Leave, Dropped, WriterGoes, collector, hub, reading, browser
<1>4. \A d \in Conn : Pending(d)' = Pending(d)
  BY DEF Phases, Pending, Leave, Dropped, WriterGoes, collector, hub, reading, browser
<1>5. NotAhead'
  <2> SUFFICES ASSUME NEW d \in Conn, NEW k \in Tag
               PROVE  /\ newest'[d][k] \in 0..udm'[k]
                      /\ \A m \in Pending(d)' : m.tag = k => m.value \in 0..udm'[k]
    BY DEF NotAhead
  <2> QED BY <1>4 DEF NotAhead, Leave, Dropped, WriterGoes, collector, hub, reading, browser
<1>6. Delivered'
  <2> SUFFICES ASSUME NEW d \in Conn, NEW k \in Tag, Owed(d, k)'
               PROVE  Reaches(d, k)'
    BY DEF Delivered
  <2>1. Owed(d, k)
    BY DEF Phases, Owed, Leave, Dropped, WriterGoes, collector, hub, reading, browser
  <2>2. Reaches(d, k)
    BY <2>1 DEF Delivered
  <2> QED BY <1>4, <2>2 DEF NotAhead, Reaches, Handed, Leave, Dropped, WriterGoes, collector, hub, reading, browser
<1> QED BY <1>1, <1>2, <1>3, <1>5, <1>6

LEMMA WriteOK ==
    ASSUME IInv, NEW c \in Conn, Write(c)
    PROVE  IInv'
<1> USE RealtimeAssumption DEF IInv, Typed, Numbers, Publishing, Routing, Commands, Queues, Places
<1> DEFINE m0 == message[c]
           got == [k \in Tag |-> IF k = m0.tag /\ m0.value > newest[c][k] THEN m0.value ELSE newest[c][k]]
<1>a. newest' = [newest EXCEPT ![c] = got] /\ message' = [message EXCEPT ![c] = Error]
      /\ UNCHANGED <<clock, udm, at, copied, targets, events, out, replies>>
  BY DEF Write, collector, hub, reading
<1>b. m0 \in Msg /\ m0 \in Pending(c)
  BY DEF Pending
<1>c. \A k \in Tag : newest[c][k] \in Nat /\ m0.value \in Nat
  BY <1>b DEF Msg
<1>d. got \in [Tag -> Nat]
  BY <1>c
<1>1. Typed'
  <2>1. Numbers'
    BY <1>a, <1>d
  <2>2. Publishing'
    BY DEF Write, WriterGoes, collector, hub, reading, browser
  <2>3. Routing'
    BY DEF Write, WriterGoes, collector, hub, reading, browser
  <2>4. Commands'
    BY DEF Write, WriterGoes, collector, hub, reading, browser
  <2>5. Queues'
    BY <1>a, ErrorParts
  <2>6. Places'
    BY DEF Write, WriterGoes, collector, hub, reading, browser
  <2> QED BY <2>1, <2>2, <2>3, <2>4, <2>5, <2>6
<1>2. IndexAgrees'
  BY DEF IndexAgrees, Write, WriterGoes, collector, hub, reading, browser
<1>3. Phases'
  BY DEF Phases, Write, WriterGoes, collector, hub, reading, browser
<1>4. \A d \in Conn : 
         /\ Pending(d)' \subseteq Pending(d) \cup {Error}
         /\ Pending(d) \subseteq Pending(d)' \cup {message[c]}
         /\ d # c => Pending(d)' = Pending(d)
  BY <1>a DEF Pending
<1>5. NotAhead'
  <2> SUFFICES ASSUME NEW d \in Conn, NEW k \in Tag
               PROVE  /\ newest'[d][k] \in 0..udm'[k]
                      /\ \A m \in Pending(d)' : m.tag = k => m.value \in 0..udm'[k]
    BY DEF NotAhead
  <2>1. newest'[d][k] \in 0..udm[k]
    <3>1. CASE d = c
      <4>1. newest'[c][k] \in {newest[c][k]} \cup {m0.value : x \in {y \in {k} : y = m0.tag}}
        BY <1>a
      <4> QED BY <1>b, <3>1, <4>1 DEF NotAhead
    <3>2. CASE d # c
      BY <1>a, <3>2 DEF NotAhead
    <3> QED BY <3>1, <3>2
  <2>2. ASSUME NEW m \in Pending(d)', m.tag = k PROVE m.value \in 0..udm[k]
    <3>1. m # Error
      BY <2>2, ErrorParts
    <3>2. m \in Pending(d)
      BY <1>4, <3>1
    <3> QED BY <2>2, <3>2 DEF NotAhead
  <2> QED BY <1>a, <2>1, <2>2
<1>6. Delivered'
  <2> SUFFICES ASSUME NEW d \in Conn, NEW k \in Tag, Owed(d, k)'
               PROVE  Reaches(d, k)'
    BY DEF Delivered
  <2>1. Owed(d, k)
    BY DEF Owed, Write, WriterGoes, hub, reading
  <2>2. Reaches(d, k)
    BY <2>1 DEF Delivered
  <2>3. CASE d = c
    <3>1. newest'[c][k] = IF k = m0.tag /\ m0.value > newest[c][k] THEN m0.value ELSE newest[c][k]
      BY <1>a
    <3>2. CASE Handed(d, k)
      BY <1>a, <3>2 DEF Reaches, Handed
    <3>3. CASE newest[c][k] = udm[k]
      <4>1. k = m0.tag => m0.value \in 0..udm[k]
        BY <1>b DEF NotAhead
      <4> QED BY <1>a, <1>c, <2>3, <3>1, <3>3, <4>1 DEF Reaches
    <3>4. ASSUME NEW m \in Pending(c), m.tag = k, m.value = udm[k] PROVE Reaches(d, k)'
      <4>1. CASE m = m0
        <5>1. newest[c][k] \in 0..udm[k]
          BY DEF NotAhead
        <5> QED BY <1>a, <1>c, <2>3, <3>1, <3>4, <4>1, <5>1 DEF Reaches
      <4>2. CASE m # m0
        <5>1. m \in Pending(d)'
          BY <1>4, <2>3, <4>2
        <5> QED BY <1>a, <3>4, <5>1 DEF Reaches
      <4> QED BY <4>1, <4>2
    <3> QED BY <2>2, <2>3, <3>2, <3>3, <3>4 DEF Reaches
  <2>4. CASE d # c
    BY <1>4, <1>a, <2>2, <2>4 DEF Reaches, Handed
  <2> QED BY <2>3, <2>4
<1> QED BY <1>1, <1>2, <1>3, <1>5, <1>6

LEMMA WriteFailsOK ==
    ASSUME IInv, NEW c \in Conn, WriteFails(c)
    PROVE  IInv'
<1> USE RealtimeAssumption DEF IInv, Typed, Numbers, Publishing, Routing, Commands, Queues, Places
<1>a. UNCHANGED <<udm, newest, at, copied, targets>>
  BY DEF WriteFails, collector, browser
<1>1. Typed'
  <2>1. Numbers'
    BY DEF WriteFails, WriterGoes, collector, hub, reading, browser
  <2>2. Publishing'
    BY DEF WriteFails, WriterGoes, collector, hub, reading, browser
  <2>3. Routing'
    BY DEF WriteFails, WriterGoes, collector, hub, reading, browser
  <2>4. Commands'
    BY DEF WriteFails, WriterGoes, collector, hub, reading, browser
  <2>5. Queues'
    BY DEF Msg, Error, WriteFails, WriterGoes, collector, hub, reading, browser
  <2>6. Places'
    BY DEF WriteFails, WriterGoes, collector, hub, reading, browser
  <2> QED BY <2>1, <2>2, <2>3, <2>4, <2>5, <2>6
<1>2. IndexAgrees'
  BY DEF IndexAgrees, WriteFails, WriterGoes, collector, hub, reading, browser
<1>3. Phases'
  BY DEF Phases, WriteFails, WriterGoes, collector, hub, reading, browser
<1>4. \A d \in Conn : 
         /\ Pending(d)' \subseteq Pending(d) \cup {Error}
         /\ d # c => Pending(d)' = Pending(d)
  BY DEF Phases, Pending, WriteFails, WriterGoes, collector, hub, reading, browser
<1>5. NotAhead'
  BY <1>a, <1>4, SameAhead
<1>6. Delivered'
  <2> SUFFICES ASSUME NEW d \in Conn, NEW k \in Tag, Owed(d, k)'
               PROVE  Reaches(d, k)'
    BY DEF Delivered
  <2>1. Owed(d, k) /\ d # c
    BY DEF Owed, WriteFails, WriterGoes, hub, reading
  <2>2. Reaches(d, k)
    BY <2>1 DEF Delivered
  <2> QED BY <1>a, <1>4, <2>1, <2>2, SameReach
<1> QED BY <1>1, <1>2, <1>3, <1>5, <1>6

LEMMA CloseSubscriptionOK ==
    ASSUME IInv, NEW c \in Conn, CloseSubscription(c)
    PROVE  IInv'
<1> USE RealtimeAssumption DEF IInv, Typed, Numbers, Publishing, Routing, Commands, Queues, Places
<1>a. /\ Routing' /\ IndexAgrees' /\ done'[c]
      /\ \A d \in Conn \ {c} : keys'[d] = keys[d] /\ done'[d] = done[d]
  BY UnregisterOK DEF CloseSubscription
<1>1. Typed'
  <2>1. Numbers'
    BY DEF CloseSubscription, WriterGoes, collector, reading, browser
  <2>2. Publishing'
    BY DEF CloseSubscription, WriterGoes, collector, reading, browser
  <2>3. Routing'
    BY <1>a
  <2>4. Commands'
    BY DEF CloseSubscription, WriterGoes, collector, reading, browser
  <2>5. Queues'
    BY DEF Msg, CloseSubscription, WriterGoes, collector, reading, browser
  <2>6. Places'
    BY DEF CloseSubscription, WriterGoes, collector, reading, browser
  <2> QED BY <2>1, <2>2, <2>3, <2>4, <2>5, <2>6
<1>2. IndexAgrees'
  BY <1>a
<1>3. Phases'
  BY <1>a DEF Phases, CloseSubscription, WriterGoes, reading
<1>4. \A d \in Conn : Pending(d)' = Pending(d)
  BY DEF Phases, Pending, CloseSubscription, WriterGoes, collector, reading, browser
<1>5. NotAhead'
  <2> SUFFICES ASSUME NEW d \in Conn, NEW k \in Tag
               PROVE  /\ newest'[d][k] \in 0..udm'[k]
                      /\ \A m \in Pending(d)' : m.tag = k => m.value \in 0..udm'[k]
    BY DEF NotAhead
  <2> QED BY <1>4 DEF NotAhead, CloseSubscription, WriterGoes, collector, reading, browser
<1>6. Delivered'
  <2> SUFFICES ASSUME NEW d \in Conn, NEW k \in Tag, Owed(d, k)'
               PROVE  Reaches(d, k)'
    BY DEF Delivered
  <2>1. Owed(d, k)
    BY <1>a DEF Owed, CloseSubscription, WriterGoes, reading
  <2>2. Reaches(d, k)
    BY <2>1 DEF Delivered
  <2> QED BY <1>4, <2>2 DEF Reaches, Handed, CloseSubscription, collector, browser
<1> QED BY <1>1, <1>2, <1>3, <1>5, <1>6

LEMMA HangUpOK ==
    ASSUME IInv, NEW c \in Conn, HangUp(c)
    PROVE  IInv'
<1> USE RealtimeAssumption DEF IInv, Typed, Numbers, Publishing, Routing, Commands, Queues, Places
<1>1. Typed'
  <2>1. Numbers'
    BY DEF HangUp, WriterGoes, collector, hub, reading, browser
  <2>2. Publishing'
    BY DEF HangUp, WriterGoes, collector, hub, reading, browser
  <2>3. Routing'
    BY DEF HangUp, WriterGoes, collector, hub, reading, browser
  <2>4. Commands'
    BY DEF HangUp, WriterGoes, collector, hub, reading, browser
  <2>5. Queues'
    BY DEF Msg, HangUp, WriterGoes, collector, hub, reading, browser
  <2>6. Places'
    BY DEF HangUp, WriterGoes, collector, hub, reading, browser
  <2> QED BY <2>1, <2>2, <2>3, <2>4, <2>5, <2>6
<1>2. IndexAgrees'
  BY DEF IndexAgrees, HangUp, WriterGoes, collector, hub, reading, browser
<1>3. Phases'
  BY DEF Phases, HangUp, WriterGoes, collector, hub, reading, browser
<1>4. \A d \in Conn : Pending(d)' = Pending(d)
  BY DEF Phases, Pending, HangUp, WriterGoes, collector, hub, reading, browser
<1>5. NotAhead'
  <2> SUFFICES ASSUME NEW d \in Conn, NEW k \in Tag
               PROVE  /\ newest'[d][k] \in 0..udm'[k]
                      /\ \A m \in Pending(d)' : m.tag = k => m.value \in 0..udm'[k]
    BY DEF NotAhead
  <2> QED BY <1>4 DEF NotAhead, HangUp, WriterGoes, collector, hub, reading, browser
<1>6. Delivered'
  <2> SUFFICES ASSUME NEW d \in Conn, NEW k \in Tag, Owed(d, k)'
               PROVE  Reaches(d, k)'
    BY DEF Delivered
  <2>1. Owed(d, k)
    BY DEF Phases, Owed, HangUp, WriterGoes, collector, hub, reading, browser
  <2>2. Reaches(d, k)
    BY <2>1 DEF Delivered
  <2> QED BY <1>4, <2>2 DEF NotAhead, Reaches, Handed, HangUp, WriterGoes, collector, hub, reading, browser
<1> QED BY <1>1, <1>2, <1>3, <1>5, <1>6

LEMMA BrowserLeavesOK ==
    ASSUME IInv, NEW c \in Conn, BrowserLeaves(c)
    PROVE  IInv'
<1> USE RealtimeAssumption DEF IInv, Typed, Numbers, Publishing, Routing, Commands, Queues, Places
<1>1. Typed'
  <2>1. Numbers'
    BY DEF BrowserLeaves, collector, hub, reading
  <2>2. Publishing'
    BY DEF BrowserLeaves, collector, hub, reading
  <2>3. Routing'
    BY DEF BrowserLeaves, collector, hub, reading
  <2>4. Commands'
    BY DEF BrowserLeaves, collector, hub, reading
  <2>5. Queues'
    BY DEF Msg, BrowserLeaves, collector, hub, reading
  <2>6. Places'
    BY DEF BrowserLeaves, collector, hub, reading
  <2> QED BY <2>1, <2>2, <2>3, <2>4, <2>5, <2>6
<1>2. IndexAgrees'
  BY DEF IndexAgrees, BrowserLeaves, collector, hub, reading
<1>3. Phases'
  BY DEF Phases, BrowserLeaves, collector, hub, reading
<1>4. \A d \in Conn : Pending(d)' = Pending(d)
  BY DEF Phases, Pending, BrowserLeaves, collector, hub, reading
<1>5. NotAhead'
  <2> SUFFICES ASSUME NEW d \in Conn, NEW k \in Tag
               PROVE  /\ newest'[d][k] \in 0..udm'[k]
                      /\ \A m \in Pending(d)' : m.tag = k => m.value \in 0..udm'[k]
    BY DEF NotAhead
  <2> QED BY <1>4 DEF NotAhead, BrowserLeaves, collector, hub, reading
<1>6. Delivered'
  <2> SUFFICES ASSUME NEW d \in Conn, NEW k \in Tag, Owed(d, k)'
               PROVE  Reaches(d, k)'
    BY DEF Delivered
  <2>1. Owed(d, k)
    BY DEF Phases, Owed, BrowserLeaves, collector, hub, reading
  <2>2. Reaches(d, k)
    BY <2>1 DEF Delivered
  <2> QED BY <1>4, <2>2 DEF NotAhead, Reaches, Handed, BrowserLeaves, collector, hub, reading
<1> QED BY <1>1, <1>2, <1>3, <1>5, <1>6

LEMMA ForgottenOK ==
    ASSUME IInv, NEW c \in Conn, Forgotten(c)
    PROVE  IInv'
<1> USE RealtimeAssumption DEF IInv, Typed, Numbers, Publishing, Routing, Commands, Queues, Places
<1>a. /\ events' = [events EXCEPT ![c] = <<>>] /\ out' = [out EXCEPT ![c] = <<>>]
      /\ newest' = [newest EXCEPT ![c] = [k \in Tag |-> 0]]
      /\ UNCHANGED <<clock, udm, at, copied, targets, replies, message>>
  BY DEF Forgotten, collector
<1>b. /\ events'[c] = <<>> /\ out'[c] = <<>> /\ \A k \in Tag : newest'[c][k] = 0
      /\ \A d \in Conn \ {c} : /\ events'[d] = events[d] /\ out'[d] = out[d]
                               /\ newest'[d] = newest[d]
  BY <1>a
<1>1. Typed'
  <2>1. Numbers'
    BY <1>a
  <2>2. Publishing'
    BY DEF Forgotten, ReaderGoes, WriterGoes, collector
  <2>3. Routing'
    BY DEF Forgotten, ReaderGoes, WriterGoes, collector
  <2>4. Commands'
    BY DEF Forgotten, ReaderGoes, WriterGoes, collector
  <2>5. Queues'
    <3>1. <<>> \in Seq(Msg)
      OBVIOUS
    <3> QED BY <1>a, <3>1
  <2>6. Places'
    BY DEF Forgotten, ReaderGoes, WriterGoes, collector
  <2> QED BY <2>1, <2>2, <2>3, <2>4, <2>5, <2>6
<1>2. IndexAgrees'
  BY DEF IndexAgrees, Forgotten, ReaderGoes, WriterGoes, collector
<1>3. Phases'
  BY DEF Phases, Forgotten, ReaderGoes, WriterGoes, collector
<1>4. \A d \in Conn : 
         /\ Pending(d)' \subseteq Pending(d)
         /\ d # c => Pending(d)' = Pending(d)
  BY <1>a, <1>b, EmptySet DEF Pending
<1>5. NotAhead'
  <2> SUFFICES ASSUME NEW d \in Conn, NEW k \in Tag
               PROVE  /\ newest'[d][k] \in 0..udm'[k]
                      /\ \A m \in Pending(d)' : m.tag = k => m.value \in 0..udm'[k]
    BY DEF NotAhead
  <2>1. udm[k] \in Nat /\ udm' = udm
    BY <1>a
  <2>2. newest'[d][k] \in 0..udm[k]
    <3>1. CASE d = c
      BY <1>b, <2>1, <3>1
    <3>2. CASE d # c
      BY <1>b, <3>2 DEF NotAhead
    <3> QED BY <3>1, <3>2
  <2>3. ASSUME NEW m \in Pending(d)', m.tag = k PROVE m.value \in 0..udm[k]
    <3>1. m \in Pending(d)
      BY <1>4
    <3> QED BY <2>3, <3>1 DEF NotAhead
  <2> QED BY <2>1, <2>2, <2>3
<1>6. Delivered'
  <2> SUFFICES ASSUME NEW d \in Conn, NEW k \in Tag, Owed(d, k)'
               PROVE  Reaches(d, k)'
    BY DEF Delivered
  <2>1. Owed(d, k) /\ d # c
    BY DEF Owed, Forgotten, WriterGoes
  <2>2. Reaches(d, k)
    BY <2>1 DEF Delivered
  <2>3. newest'[d] = newest[d] /\ Pending(d)' = Pending(d)
    BY <1>b, <1>4, <2>1
  <2>4. UNCHANGED <<udm, at, copied, targets>>
    BY <1>a
  <2> QED BY <2>2, <2>3, <2>4 DEF Reaches, Handed
<1> QED BY <1>1, <1>2, <1>3, <1>5, <1>6

LEMMA StutterOK ==
    ASSUME IInv, UNCHANGED vars
    PROVE  IInv'
<1> USE DEF vars, collector, hub, reading, browser
<1>1. Typed' /\ IndexAgrees' /\ Phases'
  BY DEF IInv, Typed, Numbers, Publishing, Routing, Commands, Queues, Places, IndexAgrees, Phases
<1>2. \A d \in Conn : Pending(d)' = Pending(d)
  BY DEF Pending
<1>3. NotAhead' /\ Delivered'
  BY <1>2 DEF IInv, NotAhead, Delivered, Owed, Reaches, Handed
<1> QED BY <1>1, <1>3 DEF IInv

----------------------------------------------------------------------------
LEMMA StepOK == IInv /\ [Next]_vars => IInv'
<1> SUFFICES ASSUME IInv, [Next]_vars PROVE IInv'
  OBVIOUS
<1>1. ASSUME NEW k \in Tag, Update(k) PROVE IInv'
  BY <1>1, UpdateOK
<1>2. CASE CollectorStep
  BY <1>2, CopyTargetsOK, DeliverOK DEF CollectorStep
<1>3. ASSUME NEW c \in Conn, Connect(c) \/ ReadInvalid(c) \/ BrowserLeaves(c) \/ Forgotten(c)
      PROVE  IInv'
  BY <1>3, ConnectOK, ReadInvalidOK, BrowserLeavesOK, ForgottenOK
<1>4. ASSUME NEW c \in Conn, NEW tags \in (SUBSET Tag) \ {{}},
             ReadSubscribe(c, tags) \/ ReadUnsubscribe(c, tags)
      PROVE  IInv'
  BY <1>4, ReadSubscribeOK, ReadUnsubscribeOK
<1>5. ASSUME NEW c \in Conn, ReaderStep(c) PROVE IInv'
  BY <1>5, SetOK, SnapshotOK, ReplyOK, ReportErrorOK, ReadFailsOK DEF ReaderStep
<1>6. ASSUME NEW c \in Conn, WriterStep(c) \/ Leave(c) PROVE IInv'
  BY <1>6, TakeEventOK, TakeOutOK, WriteOK, WriteFailsOK, CloseSubscriptionOK, HangUpOK, LeaveOK
  DEF WriterStep
<1>7. CASE UNCHANGED vars
  BY <1>7, StutterOK
<1> QED
  BY <1>1, <1>2, <1>3, <1>4, <1>5, <1>6, <1>7 DEF Next

LEMMA Inductive == Spec => []IInv
BY InitOK, StepOK, PTL DEF Spec

\* The hub finds a subscription under exactly the tags it has, also after it was closed
\* for being too slow while its reader went on subscribing.
THEOREM IndexIsRight == Spec => []IndexAgrees
<1>1. IInv => IndexAgrees
  BY DEF IInv
<1> QED BY <1>1, Inductive, PTL

\* However subscribing, the snapshot, the collector and the writer interleave, a
\* subscribed browser with nothing under way has the current values.
THEOREM NoneMissed == Spec => []NothingMissed
<1>1. ASSUME IInv PROVE NothingMissed
  <2> SUFFICES ASSUME NEW c \in Conn, NEW k \in Tag, Owed(c, k), ~UnderWay(c, k)
               PROVE  newest[c][k] = udm[k]
    BY DEF NothingMissed, Owed
  <2>1. Reaches(c, k)
    BY <1>1 DEF IInv, Delivered
  <2>2. ~Handed(c, k)
    BY DEF UnderWay, Handed
  <2>3. ~ \E m \in Pending(c) : m.tag = k
    BY DEF UnderWay, Pending
  <2> QED BY <2>1, <2>2, <2>3 DEF Reaches
<1> QED BY <1>1, Inductive, PTL

----------------------------------------------------------------------------
(* The limits: what TypeOK says beyond Typed.                               *)

\* A message about a tag that has a value.
Real(m) == m.tag \in Tag /\ m.value # 0

ClockOK == clock <= MaxUpdates /\ \A k \in at : udm[k] # 0

KeysOK(c) == Cardinality(keys[c]) <= MaxKeys
EventsOK(c) == Len(events[c]) <= Buffer /\ \A m \in ToSet(events[c]) : Real(m)
OutOK(c) == Len(out[c]) <= OutCapacity /\ \A m \in ToSet(out[c]) : m = Error \/ Real(m)
RepliesOK(c) == \A m \in replies[c] : Real(m)
MessageOK(c) == message[c] = Error \/ Real(message[c])

Flags == copied \in BOOLEAN /\ gone \in [Conn -> BOOLEAN]

Limits ==
    /\ ClockOK /\ Flags
    /\ \A c \in Conn : KeysOK(c) /\ EventsOK(c) /\ OutOK(c) /\ RepliesOK(c) /\ MessageOK(c)

\* The steps that handle no message, no key and no value.
Moves(c) ==
    \/ Connect(c) \/ ReadInvalid(c) \/ ReadFails(c) \/ Leave(c) \/ HangUp(c) \/ BrowserLeaves(c)
    \/ \E tags \in (SUBSET Tag) \ {{}} : ReadSubscribe(c, tags)

\* Which steps change what.
LEMMA MovesFrame ==
    ASSUME NEW c \in Conn, Moves(c)
    PROVE  UNCHANGED <<clock, udm, at, keys, events, out, replies, message>>
<1>1. CASE Connect(c)
  BY <1>1 DEF Connect, collector, hub
<1>2. CASE ReadInvalid(c)
  BY <1>2 DEF ReadInvalid, collector, hub
<1>3. CASE ReadFails(c)
  BY <1>3 DEF ReadFails, collector, hub
<1>4. CASE Leave(c)
  BY <1>4 DEF Leave, collector, hub, reading
<1>5. CASE HangUp(c)
  BY <1>5 DEF HangUp, collector, hub, reading
<1>6. CASE BrowserLeaves(c)
  BY <1>6 DEF BrowserLeaves, collector, hub, reading
<1>7. ASSUME NEW tags \in SUBSET Tag, ReadSubscribe(c, tags)
      PROVE  UNCHANGED <<clock, udm, at, keys, events, out, replies, message>>
  BY <1>7 DEF ReadSubscribe, collector, hub
<1> QED BY <1>1, <1>2, <1>3, <1>4, <1>5, <1>6, <1>7 DEF Moves

LEMMA NextSteps ==
    ASSUME Next
    PROVE  \/ \E k \in Tag : Update(k)
           \/ CopyTargets
           \/ \E c \in Conn :
                \/ Moves(c) \/ Deliver(c) \/ Set(c) \/ Snapshot(c) \/ Reply(c) \/ ReportError(c)
                \/ TakeEvent(c) \/ TakeOut(c) \/ Write(c) \/ WriteFails(c)
                \/ CloseSubscription(c) \/ Forgotten(c)
                \/ \E tags \in (SUBSET Tag) \ {{}} : ReadUnsubscribe(c, tags)
           \/ UNCHANGED vars
BY DEF Next, CollectorStep, ReaderStep, WriterStep, Moves

LEMMA ClockStep ==
    ASSUME IInv, Limits, Next
    PROVE  ClockOK'
<1> USE DEF ClockOK
<1>a. clock \in Nat /\ udm \in [Tag -> Nat] /\ ClockOK
  BY DEF IInv, Typed, Numbers, Limits
<1>1. ASSUME NEW k \in Tag, Update(k) PROVE ClockOK'
  <2>1. clock # MaxUpdates /\ clock' = clock + 1 /\ udm' = [udm EXCEPT ![k] = clock + 1] /\ at' = {k}
    BY <1>1 DEF Update, Exhausted
  <2>2. clock + 1 <= MaxUpdates
    BY <1>a, <2>1, RealtimeAssumption
  <2>3. \A j \in at' : udm'[j] # 0
    BY <1>a, <2>1
  <2> QED BY <2>1, <2>2, <2>3
<1>2. CASE UNCHANGED <<clock, udm>> /\ at' \subseteq at
  BY <1>a, <1>2
<1>3. ASSUME NEW c \in Conn, Deliver(c) PROVE UNCHANGED <<clock, udm>> /\ at' \subseteq at
  BY <1>3 DEF Deliver
<1>4. CopyTargets => UNCHANGED <<clock, udm>> /\ at' \subseteq at
  BY DEF CopyTargets
<1>5. ASSUME NEW c \in Conn,
             Set(c) \/ Snapshot(c) \/ Reply(c) \/ ReportError(c)
                 \/ \E tags \in (SUBSET Tag) \ {{}} : ReadUnsubscribe(c, tags)
      PROVE  UNCHANGED <<clock, udm, at>>
  BY <1>5 DEF Set, Snapshot, Reply, ReportError, ReadUnsubscribe, collector
<1>6. ASSUME NEW c \in Conn,
             TakeEvent(c) \/ TakeOut(c) \/ Write(c) \/ WriteFails(c) \/ CloseSubscription(c)
                 \/ Forgotten(c)
      PROVE  UNCHANGED <<clock, udm, at>>
  BY <1>6 DEF TakeEvent, TakeOut, Write, WriteFails, CloseSubscription, Forgotten, collector
<1>7. UNCHANGED vars => UNCHANGED <<clock, udm, at>>
  BY DEF vars, collector
<1> QED BY <1>1, <1>2, <1>3, <1>4, <1>5, <1>6, <1>7, NextSteps, MovesFrame

\* Set counts the union of both sets of tags; otherwise keys are only given up.
LEMMA KeysStep ==
    ASSUME IInv, Limits, Next, NEW d \in Conn
    PROVE  KeysOK(d)'
<1>a. /\ keys \in [Conn -> SUBSET Tag] /\ command \in [Conn -> SUBSET Tag]
      /\ KeysOK(d) /\ IsFiniteSet(Tag) /\ MaxKeys \in Nat
  BY RealtimeAssumption DEF IInv, Typed, Routing, Commands, Limits
<1>b. \A S \in SUBSET Tag : IsFiniteSet(S) /\ Cardinality(S) \in Nat
  BY <1>a, FS_Subset, FS_CardinalityType
<1>1. CASE keys'[d] \subseteq keys[d]
  <2>1. IsFiniteSet(keys[d])
    BY <1>a, <1>b
  <2>2. Cardinality(keys'[d]) <= Cardinality(keys[d])
    BY <1>1, <2>1, FS_Subset
  <2>3. Cardinality(keys'[d]) \in Nat /\ Cardinality(keys[d]) \in Nat
    BY <1>1, <2>1, FS_Subset, FS_CardinalityType
  <2> QED BY <1>a, <2>2, <2>3 DEF KeysOK
<1>2. ASSUME NEW c \in Conn, Unregister(c) PROVE keys'[d] \subseteq keys[d]
  BY <1>a, <1>2 DEF Unregister
<1>3. ASSUME NEW c \in Conn, Deliver(c) PROVE keys'[d] \subseteq keys[d]
  <2>1. UNCHANGED keys \/ Unregister(c)
    BY <1>3 DEF Deliver, Overflow, hub
  <2> QED BY <1>2, <2>1
<1>4. ASSUME NEW c \in Conn, CloseSubscription(c) PROVE keys'[d] \subseteq keys[d]
  BY <1>2, <1>4 DEF CloseSubscription
<1>5. ASSUME NEW c \in Conn, NEW tags, ReadUnsubscribe(c, tags) PROVE keys'[d] \subseteq keys[d]
  BY <1>a, <1>5 DEF ReadUnsubscribe
<1>6. ASSUME NEW c \in Conn, Set(c) PROVE KeysOK(d)'
  <2>1. CASE UNCHANGED keys
    BY <1>1, <2>1
  <2>2. CASE ~TooMany(c) /\ keys' = [keys EXCEPT ![c] = @ \cup command[c]]
    <3>1. CASE d = c
      <4>1. keys'[d] = keys[c] \cup command[c] /\ keys[c] \cup command[c] \in SUBSET Tag
        BY <1>a, <2>2, <3>1
      <4>2. Cardinality(keys[c] \cup command[c]) \in Nat
        BY <1>b, <4>1
      <4>3. ~ (Cardinality(keys[c] \cup command[c]) > MaxKeys)
        BY <2>2 DEF TooMany
      <4> QED BY <1>a, <4>1, <4>2, <4>3 DEF KeysOK
    <3>2. CASE d # c
      BY <1>1, <1>a, <2>2, <3>2
    <3> QED BY <3>1, <3>2
  <2> QED BY <1>6, <2>1, <2>2 DEF Set
<1>7. \A c \in Conn : Moves(c) \/ Snapshot(c) \/ Reply(c) \/ ReportError(c) => UNCHANGED keys
  BY MovesFrame DEF Snapshot, Reply, ReportError, hub
<1>8. \A c \in Conn :
        TakeEvent(c) \/ TakeOut(c) \/ Write(c) \/ WriteFails(c) \/ Forgotten(c) => UNCHANGED keys
  BY DEF TakeEvent, TakeOut, Write, WriteFails, Forgotten, hub
<1>9. (\E k \in Tag : Update(k)) \/ CopyTargets \/ UNCHANGED vars => UNCHANGED keys
  BY DEF Update, CopyTargets, vars, hub
<1> QED BY <1>1, <1>3, <1>4, <1>5, <1>6, <1>7, <1>8, <1>9, NextSteps

LEMMA EventsStep ==
    ASSUME IInv, Limits, Next, NEW d \in Conn
    PROVE  EventsOK(d)'
<1>a. /\ events \in [Conn -> Seq(Msg)] /\ udm \in [Tag -> Nat] /\ at \in SUBSET Tag
      /\ EventsOK(d) /\ Buffer \in Nat /\ \A k \in at : udm[k] # 0
  BY RealtimeAssumption DEF IInv, Typed, Queues, Numbers, Publishing, Limits, ClockOK
<1>1. CASE events'[d] = events[d]
  BY <1>a, <1>1 DEF EventsOK
<1>2. CASE events'[d] = <<>>
  BY <1>a, <1>2, EmptySet DEF EventsOK
<1>3. ASSUME NEW c \in Conn, Deliver(c) PROVE EventsOK(d)'
  <2>1. CASE UNCHANGED events
    BY <1>1, <2>1
  <2>2. ASSUME NEW k \in at, Len(events[c]) < Buffer,
               events' = [events EXCEPT ![c] = Append(@, [tag |-> k, value |-> udm[k]])]
        PROVE  EventsOK(d)'
    <3> DEFINE m == [tag |-> k, value |-> udm[k]]
    <3>1. CASE d = c
      <4>1. m \in Msg /\ Real(m)
        BY <1>a DEF Msg, Real
      <4>2. events'[d] = Append(events[d], m) /\ events[d] \in Seq(Msg)
        BY <1>a, <2>2, <3>1
      <4> HIDE DEF m
      <4>3. ToSet(events'[d]) = ToSet(events[d]) \cup {m}
        BY <4>1, <4>2, AppendSet
      <4>4. Len(events'[d]) = Len(events[d]) + 1 /\ Len(events[d]) \in Nat
        BY <4>1, <4>2
      <4>5. Len(events[d]) < Buffer
        BY <2>2, <3>1
      <4>6. Len(events'[d]) <= Buffer
        BY <1>a, <4>4, <4>5
      <4>7. \A x \in ToSet(events'[d]) : Real(x)
        BY <1>a, <4>1, <4>3 DEF EventsOK
      <4> QED BY <4>6, <4>7 DEF EventsOK
    <3>2. CASE d # c
      BY <1>1, <1>a, <2>2, <3>2
    <3> QED BY <3>1, <3>2
  <2> QED BY <1>3, <2>1, <2>2 DEF Deliver, hub
<1>4. ASSUME NEW c \in Conn, TakeEvent(c) PROVE EventsOK(d)'
  <2>1. events[c] # <<>> /\ events' = [events EXCEPT ![c] = Tail(@)]
    BY <1>4 DEF TakeEvent
  <2>2. CASE d = c
    <3>1. events'[d] = Tail(events[d]) /\ events[d] \in Seq(Msg) /\ events[d] # <<>>
      BY <1>a, <2>1, <2>2
    <3>2. ToSet(events'[d]) \subseteq ToSet(events[d])
      BY <3>1, TailSet
    <3>3. Len(events'[d]) = Len(events[d]) - 1 /\ Len(events[d]) \in Nat
      BY <3>1
    <3> QED BY <1>a, <3>2, <3>3 DEF EventsOK
  <2>3. CASE d # c
    BY <1>1, <1>a, <2>1, <2>3
  <2> QED BY <2>2, <2>3
<1>5. ASSUME NEW c \in Conn, Forgotten(c) PROVE EventsOK(d)'
  <2>1. events' = [events EXCEPT ![c] = <<>>]
    BY <1>5 DEF Forgotten
  <2> QED BY <1>1, <1>2, <1>a, <2>1
<1>6. \A c \in Conn : Moves(c) \/ Set(c) \/ Snapshot(c) \/ Reply(c) \/ ReportError(c)
                          => UNCHANGED events
  BY MovesFrame DEF Set, Snapshot, Reply, ReportError, hub
<1>7. \A c \in Conn :
        /\ TakeOut(c) \/ Write(c) \/ WriteFails(c) \/ CloseSubscription(c) => UNCHANGED events
        /\ \A tags : ReadUnsubscribe(c, tags) => UNCHANGED events
  BY DEF TakeOut, Write, WriteFails, CloseSubscription, ReadUnsubscribe, hub
<1>8. (\E k \in Tag : Update(k)) \/ CopyTargets \/ UNCHANGED vars => UNCHANGED events
  BY DEF Update, CopyTargets, vars, hub
<1> QED BY <1>1, <1>3, <1>4, <1>5, <1>6, <1>7, <1>8, NextSteps

LEMMA OutStep ==
    ASSUME IInv, Limits, Next, NEW d \in Conn
    PROVE  OutOK(d)'
<1>a. /\ out \in [Conn -> Seq(Msg)] /\ replies \in [Conn -> SUBSET Msg]
      /\ OutOK(d) /\ \A c \in Conn : RepliesOK(c)
      /\ OutCapacity \in Nat
  BY RealtimeAssumption DEF IInv, Typed, Queues, Limits
<1>1. CASE out'[d] = out[d]
  BY <1>a, <1>1 DEF OutOK
<1>2. CASE out'[d] = <<>>
  BY <1>a, <1>2, EmptySet DEF OutOK
<1>3. ASSUME NEW c \in Conn, NEW m \in Msg, m = Error \/ Real(m), Send(c, m)
      PROVE  OutOK(d)'
  <2>1. Len(out[c]) < OutCapacity /\ out' = [out EXCEPT ![c] = Append(@, m)]
    BY <1>3 DEF Send
  <2>2. CASE d = c
    <3>1. out'[d] = Append(out[d], m) /\ out[d] \in Seq(Msg)
      BY <1>a, <2>1, <2>2
    <3>2. ToSet(out'[d]) = ToSet(out[d]) \cup {m}
      BY <3>1, AppendSet
    <3>3. Len(out'[d]) = Len(out[d]) + 1 /\ Len(out[d]) \in Nat
      BY <3>1
    <3>4. Len(out'[d]) <= OutCapacity
      BY <1>a, <2>1, <2>2, <3>3
    <3>5. \A x \in ToSet(out'[d]) : x = Error \/ Real(x)
      BY <1>a, <1>3, <3>2 DEF OutOK
    <3> QED BY <3>4, <3>5 DEF OutOK
  <2>3. CASE d # c
    BY <1>1, <1>a, <2>1, <2>3
  <2> QED BY <2>2, <2>3
<1>4. ASSUME NEW c \in Conn, Reply(c) PROVE OutOK(d)'
  <2>1. ASSUME NEW m \in replies[c], Send(c, m) PROVE OutOK(d)'
    <3>1. m \in Msg /\ Real(m)
      BY <1>a DEF RepliesOK
    <3> QED BY <1>3, <2>1, <3>1
  <2>2. CASE UNCHANGED out
    BY <1>1, <2>2
  <2> QED BY <1>4, <2>1, <2>2 DEF Reply
<1>5. ASSUME NEW c \in Conn, ReportError(c) PROVE OutOK(d)'
  <2>1. Send(c, Error)
    BY <1>5 DEF ReportError
  <2> QED BY <1>3, <2>1, ErrorParts
<1>6. ASSUME NEW c \in Conn, TakeOut(c) PROVE OutOK(d)'
  <2>1. out[c] # <<>> /\ out' = [out EXCEPT ![c] = Tail(@)]
    BY <1>6 DEF TakeOut
  <2>2. CASE d = c
    <3>1. out'[d] = Tail(out[d]) /\ out[d] \in Seq(Msg) /\ out[d] # <<>>
      BY <1>a, <2>1, <2>2
    <3>2. ToSet(out'[d]) \subseteq ToSet(out[d])
      BY <3>1, TailSet
    <3>3. Len(out'[d]) = Len(out[d]) - 1 /\ Len(out[d]) \in Nat
      BY <3>1
    <3> QED BY <1>a, <3>2, <3>3 DEF OutOK
  <2>3. CASE d # c
    BY <1>1, <1>a, <2>1, <2>3
  <2> QED BY <2>2, <2>3
<1>7. ASSUME NEW c \in Conn, Forgotten(c) PROVE OutOK(d)'
  <2>1. out' = [out EXCEPT ![c] = <<>>]
    BY <1>7 DEF Forgotten
  <2> QED BY <1>1, <1>2, <1>a, <2>1
<1>8. \A c \in Conn : Moves(c) \/ Set(c) \/ Snapshot(c) \/ Deliver(c) => UNCHANGED out
  BY MovesFrame DEF Set, Snapshot, Deliver, reading
<1>9. \A c \in Conn :
        /\ TakeEvent(c) \/ Write(c) \/ WriteFails(c) \/ CloseSubscription(c) => UNCHANGED out
        /\ \A tags : ReadUnsubscribe(c, tags) => UNCHANGED out
  BY DEF TakeEvent, Write, WriteFails, CloseSubscription, ReadUnsubscribe, reading
<1>10. (\E k \in Tag : Update(k)) \/ CopyTargets \/ UNCHANGED vars => UNCHANGED out
  BY DEF Update, CopyTargets, vars, reading
<1> QED BY <1>1, <1>4, <1>5, <1>6, <1>7, <1>8, <1>9, <1>10, NextSteps

\* A snapshot holds the tags that have a value.
LEMMA RepliesStep ==
    ASSUME IInv, Limits, Next, NEW d \in Conn
    PROVE  RepliesOK(d)'
<1>a. /\ replies \in [Conn -> SUBSET Msg] /\ command \in [Conn -> SUBSET Tag]
      /\ RepliesOK(d)
  BY DEF IInv, Typed, Queues, Commands, Limits
<1>1. CASE replies'[d] \subseteq replies[d]
  BY <1>a, <1>1 DEF RepliesOK
<1>2. ASSUME NEW c \in Conn, Snapshot(c) PROVE RepliesOK(d)'
  <2> DEFINE S == {[tag |-> k, value |-> udm[k]] : k \in {j \in command[c] : udm[j] # 0}}
  <2>1. \A m \in S : Real(m)
    BY <1>a DEF Real
  <2>2. CASE replies' = [replies EXCEPT ![c] = S]
    <3> HIDE DEF S
    <3> QED BY <1>1, <1>a, <2>1, <2>2 DEF RepliesOK
  <2>3. CASE UNCHANGED replies
    BY <1>1, <2>3
  <2> QED BY <1>2, <2>2, <2>3 DEF Snapshot
<1>3. ASSUME NEW c \in Conn, Reply(c) PROVE replies'[d] \subseteq replies[d]
  <2>1. ASSUME NEW m, replies' = [replies EXCEPT ![c] = @ \ {m}]
        PROVE  replies'[d] \subseteq replies[d]
    BY <1>a, <2>1
  <2> QED BY <1>3, <2>1 DEF Reply
<1>4. \A c \in Conn : Moves(c) \/ Set(c) \/ ReportError(c) \/ Deliver(c) => UNCHANGED replies
  BY MovesFrame DEF Set, ReportError, Deliver, reading
<1>5. \A c \in Conn :
        /\ TakeEvent(c) \/ TakeOut(c) \/ Write(c) \/ WriteFails(c) => UNCHANGED replies
        /\ CloseSubscription(c) \/ Forgotten(c) => UNCHANGED replies
        /\ \A tags : ReadUnsubscribe(c, tags) => UNCHANGED replies
  BY DEF TakeEvent, TakeOut, Write, WriteFails, CloseSubscription, Forgotten, ReadUnsubscribe,
         reading
<1>6. (\E k \in Tag : Update(k)) \/ CopyTargets \/ UNCHANGED vars => UNCHANGED replies
  BY DEF Update, CopyTargets, vars, reading
<1> QED BY <1>1, <1>2, <1>3, <1>4, <1>5, <1>6, NextSteps

LEMMA MessageStep ==
    ASSUME IInv, Limits, Next, NEW d \in Conn
    PROVE  MessageOK(d)'
<1>a. /\ message \in [Conn -> Msg] /\ MessageOK(d)
      /\ events \in [Conn -> Seq(Msg)] /\ out \in [Conn -> Seq(Msg)]
      /\ \A c \in Conn : EventsOK(c) /\ OutOK(c)
  BY DEF IInv, Typed, Queues, Limits
<1>1. CASE message'[d] \in {message[d], Error}
  BY <1>a, <1>1 DEF MessageOK
<1>2. ASSUME NEW c \in Conn, TakeEvent(c) PROVE MessageOK(d)'
  <2>1. events[c] # <<>> /\ message' = [message EXCEPT ![c] = Head(events[c])]
    BY <1>2 DEF TakeEvent
  <2>2. Real(Head(events[c]))
    BY <1>a, <2>1, TailSet DEF EventsOK
  <2> QED BY <1>1, <1>a, <2>1, <2>2 DEF MessageOK
<1>3. ASSUME NEW c \in Conn, TakeOut(c) PROVE MessageOK(d)'
  <2>1. out[c] # <<>> /\ message' = [message EXCEPT ![c] = Head(out[c])]
    BY <1>3 DEF TakeOut
  <2>2. Head(out[c]) = Error \/ Real(Head(out[c]))
    BY <1>a, <2>1, TailSet DEF OutOK
  <2> QED BY <1>1, <1>a, <2>1, <2>2 DEF MessageOK
<1>4. ASSUME NEW c \in Conn, Write(c) \/ WriteFails(c) PROVE message'[d] \in {message[d], Error}
  <2>1. message' = [message EXCEPT ![c] = Error]
    BY <1>4 DEF Write, WriteFails
  <2> QED BY <1>a, <2>1
<1>5. \A c \in Conn : Moves(c) \/ Set(c) \/ Snapshot(c) \/ Reply(c) \/ ReportError(c)
                          => UNCHANGED message
  BY MovesFrame DEF Set, Snapshot, Reply, ReportError
<1>6. \A c \in Conn :
        /\ Deliver(c) \/ CloseSubscription(c) \/ Forgotten(c) => UNCHANGED message
        /\ \A tags : ReadUnsubscribe(c, tags) => UNCHANGED message
  BY DEF Deliver, CloseSubscription, Forgotten, ReadUnsubscribe
<1>7. (\E k \in Tag : Update(k)) \/ CopyTargets \/ UNCHANGED vars => UNCHANGED message
  BY DEF Update, CopyTargets, vars
<1> QED BY <1>1, <1>2, <1>3, <1>4, <1>5, <1>6, <1>7, NextSteps

LEMMA FlagsStep ==
    ASSUME Limits, Next
    PROVE  Flags'
<1>a. copied \in BOOLEAN /\ gone \in [Conn -> BOOLEAN]
  BY DEF Limits, Flags
<1>1. CASE copied' \in BOOLEAN /\ UNCHANGED gone
  BY <1>a, <1>1 DEF Flags
<1>2. \A k \in Tag : Update(k) => copied' \in BOOLEAN /\ UNCHANGED gone
  BY DEF Update, browser
<1>3. ASSUME CopyTargets PROVE copied' \in BOOLEAN /\ UNCHANGED gone
  <2>1. copied' = (targets' # {}) /\ UNCHANGED gone
    BY <1>3 DEF CopyTargets, browser
  <2> QED BY <2>1, Zenon
<1>4. ASSUME NEW c \in Conn, Deliver(c) PROVE copied' \in BOOLEAN /\ UNCHANGED gone
  <2>1. copied' = (targets' # {}) /\ UNCHANGED gone
    BY <1>4 DEF Deliver, browser
  <2> QED BY <2>1, Zenon
<1>5. ASSUME NEW c \in Conn, UNCHANGED copied,
             UNCHANGED gone \/ \E b \in BOOLEAN : gone' = [gone EXCEPT ![c] = b]
      PROVE  Flags'
  BY <1>a, <1>5 DEF Flags
<1>6. ASSUME NEW c \in Conn, BrowserLeaves(c) PROVE Flags'
  BY <1>5, <1>6 DEF BrowserLeaves, collector
<1>7. ASSUME NEW c \in Conn, Forgotten(c) PROVE Flags'
  BY <1>5, <1>7 DEF Forgotten, collector
<1>8. ASSUME NEW c \in Conn,
             \/ Connect(c) \/ ReadInvalid(c) \/ ReadFails(c) \/ Leave(c) \/ HangUp(c)
             \/ \E tags \in (SUBSET Tag) \ {{}} : ReadSubscribe(c, tags) \/ ReadUnsubscribe(c, tags)
      PROVE  UNCHANGED <<copied, gone>>
  BY <1>8 DEF Connect, ReadInvalid, ReadFails, Leave, HangUp, ReadSubscribe, ReadUnsubscribe,
              collector, browser
<1>9. ASSUME NEW c \in Conn,
             \/ Set(c) \/ Snapshot(c) \/ Reply(c) \/ ReportError(c)
             \/ TakeEvent(c) \/ TakeOut(c) \/ Write(c) \/ WriteFails(c) \/ CloseSubscription(c)
      PROVE  UNCHANGED <<copied, gone>>
  BY <1>9 DEF Set, Snapshot, Reply, ReportError, TakeEvent, TakeOut, Write, WriteFails,
              CloseSubscription, collector, browser
<1>10. UNCHANGED vars => UNCHANGED <<copied, gone>>
  BY DEF vars, collector, browser
<1> QED BY <1>1, <1>2, <1>3, <1>4, <1>5, <1>6, <1>7, <1>8, <1>9, <1>10, <1>a, NextSteps DEF Moves

LEMMA LimitsInit == Init => Limits
<1> SUFFICES ASSUME Init PROVE Limits
  OBVIOUS
<1>1. ClockOK
  <2>1. clock = 0 /\ at = {} /\ MaxUpdates \in Nat
    BY RealtimeAssumption DEF Init
  <2> QED BY <2>1 DEF ClockOK
<1>4. Flags
  BY DEF Init, Flags
<1>2. ASSUME NEW c \in Conn PROVE KeysOK(c) /\ RepliesOK(c) /\ MessageOK(c)
  <2>1. Cardinality({}) = 0
    BY FS_EmptySet
  <2> QED BY <2>1, RealtimeAssumption DEF Init, KeysOK, RepliesOK, MessageOK
<1>3. ASSUME NEW c \in Conn PROVE EventsOK(c) /\ OutOK(c)
  <2>1. events[c] = <<>> /\ out[c] = <<>> /\ Len(<<>>) = 0
    BY DEF Init
  <2> QED BY <2>1, EmptySet, RealtimeAssumption DEF EventsOK, OutOK
<1> QED BY <1>1, <1>2, <1>3, <1>4 DEF Limits

LEMMA LimitsStep == IInv /\ Limits /\ [Next]_vars => Limits'
<1>1. ASSUME IInv, Limits, Next PROVE Limits'
  BY <1>1, ClockStep, FlagsStep, KeysStep, EventsStep, OutStep, RepliesStep, MessageStep DEF Limits
<1>2. ASSUME Limits, UNCHANGED vars PROVE Limits'
  <2>1. UNCHANGED <<clock, udm, at, copied, gone, keys, events, out, replies, message>>
    BY <1>2 DEF vars, collector, hub, reading, browser
  <2> QED BY <1>2, <2>1
          DEF Limits, ClockOK, Flags, KeysOK, EventsOK, OutOK, RepliesOK, MessageOK
<1> QED BY <1>1, <1>2

\* A message of a connection that is none of its errors is a value of the device.
LEMMA Carried ==
    ASSUME IInv, Limits, NEW c \in Conn, NEW m \in Pending(c), Real(m)
    PROVE  m \in Value
<1>1. m \in Msg /\ m.tag \in Tag /\ m.value \in Nat /\ m.value # 0
  <2>1. \A s \in Seq(Msg) : ToSet(s) \subseteq Msg
    BY DEF ToSet
  <2>2. m \in Msg
    BY <2>1 DEF Pending, IInv, Typed, Queues
  <2> QED BY <2>2 DEF Msg, Real
<1>2. m.value <= udm[m.tag] /\ udm[m.tag] <= clock /\ udm[m.tag] \in Nat /\ clock \in Nat
  BY <1>1 DEF IInv, NotAhead, Typed, Numbers
<1>3. clock <= MaxUpdates /\ MaxUpdates \in Nat
  BY RealtimeAssumption DEF Limits, ClockOK
<1>4. m.value \in 1..MaxUpdates
  BY <1>1, <1>2, <1>3
<1>5. m = [tag |-> m.tag, value |-> m.value]
  BY <1>1 DEF Msg
<1> QED BY <1>1, <1>4, <1>5 DEF Value

\* The buffers stay within their capacities and the subscriptions within the hub's
\* limit, whatever the connections and the collector do at once, and every message
\* on its way is an error or a value the device has had by now.
THEOREM LimitsHold == Spec => []TypeOK
<1>1. ASSUME IInv, Limits PROVE TypeOK
  <2>1. clock \in 0..MaxUpdates /\ udm \in [Tag -> 0..clock]
    BY <1>1, RealtimeAssumption DEF IInv, Typed, Numbers, Limits, ClockOK
  <2>2. newest \in [Conn -> [Tag -> 0..clock]]
    <3>1. \A c \in Conn, k \in Tag : newest[c][k] \in 0..udm[k]
      BY <1>1 DEF IInv, NotAhead
    <3>2. newest \in [Conn -> [Tag -> Nat]]
      BY <1>1 DEF IInv, Typed, Numbers
    <3>3. \A c \in Conn, k \in Tag : newest[c][k] \in 0..clock
      BY <2>1, <3>1, <3>2
    <3> QED BY <3>2, <3>3
  <2>3. at \in SUBSET Tag /\ Cardinality(at) <= 1
    <3>1. CASE at = {}
      BY <3>1, FS_EmptySet
    <3>2. ASSUME NEW k \in Tag, at = {k} PROVE at \in SUBSET Tag /\ Cardinality(at) <= 1
      <4>1. Cardinality({k}) = 1
        BY FS_Singleton
      <4> QED BY <3>2, <4>1
    <3> QED BY <1>1, <3>1, <3>2 DEF IInv, Typed, Publishing
  <2>4. ASSUME NEW c \in Conn
        PROVE  /\ Cardinality(keys[c]) <= MaxKeys
               /\ Len(events[c]) <= Buffer /\ Len(out[c]) <= OutCapacity
               /\ ToSet(events[c]) \cup replies[c] \subseteq Value
               /\ ToSet(out[c]) \cup {message[c]} \subseteq Value \cup {Error}
    <3>1. KeysOK(c) /\ EventsOK(c) /\ OutOK(c) /\ RepliesOK(c) /\ MessageOK(c)
      BY <1>1 DEF Limits
    <3>2. \A m \in Pending(c) : Real(m) => m \in Value
      BY <1>1, Carried
    <3> QED BY <3>1, <3>2
            DEF KeysOK, EventsOK, OutOK, RepliesOK, MessageOK, Pending
  <2>5. copied \in BOOLEAN /\ gone \in [Conn -> BOOLEAN]
    BY <1>1 DEF Limits, Flags
  <2> QED BY <1>1, <2>1, <2>2, <2>3, <2>4, <2>5
          DEF TypeOK, IInv, Typed, Publishing, Routing, Commands, Places
<1> QED BY <1>1, InitOK, StepOK, LimitsInit, LimitsStep, PTL DEF Spec

=============================================================================
