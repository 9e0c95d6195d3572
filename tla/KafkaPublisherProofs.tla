------------------------ MODULE KafkaPublisherProofs ------------------------
(***************************************************************************)
(* What holds of the Kafka side for every number of settings requests and of *)
(* producers and every queue capacity: its type, that no producer is left    *)
(* open with nobody to close it, that nothing is queued once Kafka is off,   *)
(* that the worker never sleeps on an installed producer, and that a Stop    *)
(* that returns has ended it.                                                *)
(*                                                                          *)
(* Requests, Start, Stop and the reconnect goroutine share one program and   *)
(* interleave at every lock.  What makes the invariant inductive is that an  *)
(* actor's hand is empty wherever it takes a producer up, so that taking one *)
(* never drops another.                                                      *)
(***************************************************************************)
EXTENDS KafkaPublisher, TLAPS

\* An actor holds a producer from where it has opened it, or taken it out, to where it
\* has closed it.
Hands ==
    \A a \in Actor :
        hand[a] # None => pc[a] \in {"admit", "swap", "retire", "shut", "cancel", "join", "close"}

\* Stop closes the producer after the worker.
StopAfterWorker == pc[Main] \in {"close", "stopped", "closed"} => worker = "done"

\* The reconnect goroutine is spawned once.
SpawnedOnce == pc[Main] \in {"startOn", "open", "failed", "spawn"} => pc[Reconnect] = "idle"

\* TypeOK in three.
Flags ==
    /\ admit \in BOOLEAN /\ accepting \in BOOLEAN /\ on \in BOOLEAN
    /\ notify \in BOOLEAN /\ stopping \in BOOLEAN /\ read \in BOOLEAN

Producers ==
    /\ queue \in 0..QueueCapacity
    /\ life \in [Producer -> {"free", "open", "closed"}]
    /\ producer \in Producer \cup {None}
    /\ using \in Producer \cup {None}
    /\ hand \in [Actor -> Producer \cup {None}]

Places ==
    /\ status \in {"disabled", "online", "reconnecting", "stopping"}
    /\ worker \in {"none", "look", "idle", "next", "send", "done"}
    /\ pc \in [Actor -> {"idle", "off", "discard", "drop", "shut", "open", "admit",
                         "swap", "retire", "notify", "startOff", "startOn", "failed", "spawn",
                         "serve", "take", "cancel", "join", "close", "stopped",
                         "expired", "closed", "sleep"}]

IInv ==
    /\ TypeOK
    /\ Hands /\ NoProducerLeak
    /\ OffIsEmpty
    /\ NoLostWakeup
    /\ StopAfterWorker
    /\ SpawnedOnce

LEMMA TypeParts == TypeOK <=> Flags /\ Producers /\ Places
BY Zenon DEF TypeOK, Flags, Producers, Places

LEMMA InitOK == Init => IInv
<1> SUFFICES ASSUME Init PROVE IInv
  OBVIOUS
<1> USE PublisherAssumption
<1>1. Flags
  BY Zenon DEF Init, Flags
<1>2. Producers
  BY DEF Init, Producers
<1>3. Places
  BY DEF Init, Places
<1>4. Hands /\ NoProducerLeak
  BY DEF Init, Hands, NoProducerLeak
<1>5. OffIsEmpty
  BY DEF Init, OffIsEmpty
<1>6. NoLostWakeup
  BY DEF Init, NoLostWakeup
<1>7. StopAfterWorker /\ SpawnedOnce
  BY DEF Init, StopAfterWorker, SpawnedOnce, Actor
<1> QED BY <1>1, <1>2, <1>3, <1>4, <1>5, <1>6, <1>7, TypeParts DEF IInv

----------------------------------------------------------------------------
(* The steps of an actor.                                                   *)

LEMMA EndAdmissionOK ==
    ASSUME IInv, NEW a \in Actor, EndAdmission(a)
    PROVE  IInv'
<1> USE PublisherAssumption DEF IInv, Actor
<1>1. TypeOK'
  <2>1. Flags'
    BY Zenon, TypeParts DEF Flags, EndAdmission, Disable, Goes, mgr, work
  <2>2. Producers'
    BY TypeParts DEF Producers, EndAdmission, Disable, Goes, mgr, work
  <2>3. Places'
    BY TypeParts DEF Places, EndAdmission, Disable, Goes, mgr, work
  <2> QED BY <2>1, <2>2, <2>3 DEF TypeOK, Flags, Producers, Places
<1>2. Hands' /\ NoProducerLeak'
  BY DEF TypeOK, Hands, NoProducerLeak, EndAdmission, Disable, Goes, mgr, work
<1>3. OffIsEmpty'
  BY DEF TypeOK, OffIsEmpty, EndAdmission, Disable, Goes, mgr, work
<1>4. NoLostWakeup'
  BY DEF TypeOK, NoLostWakeup, EndAdmission, Disable, Goes, mgr, work
<1>5. StopAfterWorker' /\ SpawnedOnce'
  BY DEF TypeOK, StopAfterWorker, SpawnedOnce, EndAdmission, Disable, Goes, mgr, work
<1> QED BY <1>1, <1>2, <1>3, <1>4, <1>5

LEMMA DiscardAllOK ==
    ASSUME IInv, NEW a \in Actor, DiscardAll(a)
    PROVE  IInv'
<1> USE PublisherAssumption DEF IInv, Actor
<1>1. TypeOK'
  <2>1. Flags'
    BY Zenon, TypeParts DEF Flags, DiscardAll, Disable, Goes, mgr, work
  <2>2. Producers'
    BY TypeParts DEF Producers, DiscardAll, Disable, Goes, mgr, work
  <2>3. Places'
    BY TypeParts DEF Places, DiscardAll, Disable, Goes, mgr, work
  <2> QED BY <2>1, <2>2, <2>3 DEF TypeOK, Flags, Producers, Places
<1>2. Hands' /\ NoProducerLeak'
  BY DEF TypeOK, Hands, NoProducerLeak, DiscardAll, Disable, Goes, mgr, work
<1>3. OffIsEmpty'
  BY DEF TypeOK, OffIsEmpty, DiscardAll, Disable, Goes, mgr, work
<1>4. NoLostWakeup'
  BY DEF TypeOK, NoLostWakeup, DiscardAll, Disable, Goes, mgr, work
<1>5. StopAfterWorker' /\ SpawnedOnce'
  BY DEF TypeOK, StopAfterWorker, SpawnedOnce, DiscardAll, Disable, Goes, mgr, work
<1> QED BY <1>1, <1>2, <1>3, <1>4, <1>5

LEMMA DropOK ==
    ASSUME IInv, NEW a \in Actor, Drop(a)
    PROVE  IInv'
<1> USE PublisherAssumption DEF IInv, Actor
<1>1. TypeOK'
  <2>1. Flags'
    BY Zenon, TypeParts DEF Flags, Drop, Goes, coord, work
  <2>2. Producers'
    BY TypeParts DEF Producers, Drop, Goes, coord, work
  <2>3. Places'
    BY TypeParts DEF Places, Drop, Goes, coord, work
  <2> QED BY <2>1, <2>2, <2>3 DEF TypeOK, Flags, Producers, Places
<1>2. Hands' /\ NoProducerLeak'
  BY DEF TypeOK, Hands, NoProducerLeak, Drop, Goes, coord, work
<1>3. OffIsEmpty'
  BY DEF TypeOK, OffIsEmpty, Drop, Goes, coord, work
<1>4. NoLostWakeup'
  BY DEF TypeOK, NoLostWakeup, Drop, Goes, coord, work
<1>5. StopAfterWorker' /\ SpawnedOnce'
  BY DEF TypeOK, StopAfterWorker, SpawnedOnce, Drop, Goes, coord, work
<1> QED BY <1>1, <1>2, <1>3, <1>4, <1>5

LEMMA OpenSucceedsOK ==
    ASSUME IInv, NEW a \in Actor, NEW p \in Producer, OpenSucceeds(a, p)
    PROVE  IInv'
<1> USE PublisherAssumption DEF IInv, Actor
<1>1. TypeOK'
  <2>1. Flags'
    BY Zenon, TypeParts DEF Flags, OpenSucceeds, Goes, coord, mgr, work
  <2>2. Producers'
    BY TypeParts DEF Producers, OpenSucceeds, Goes, coord, mgr, work
  <2>3. Places'
    BY TypeParts DEF Places, OpenSucceeds, Goes, coord, mgr, work
  <2> QED BY <2>1, <2>2, <2>3 DEF TypeOK, Flags, Producers, Places
<1>2. Hands' /\ NoProducerLeak'
  BY DEF TypeOK, Hands, NoProducerLeak, OpenSucceeds, Goes, coord, mgr, work
<1>3. OffIsEmpty'
  BY DEF TypeOK, OffIsEmpty, OpenSucceeds, Goes, coord, mgr, work
<1>4. NoLostWakeup'
  BY DEF TypeOK, NoLostWakeup, OpenSucceeds, Goes, coord, mgr, work
<1>5. StopAfterWorker' /\ SpawnedOnce'
  BY DEF TypeOK, StopAfterWorker, SpawnedOnce, OpenSucceeds, Goes, coord, mgr, work
<1> QED BY <1>1, <1>2, <1>3, <1>4, <1>5

LEMMA OpenFailsOK ==
    ASSUME IInv, NEW a \in Actor, OpenFails(a)
    PROVE  IInv'
<1> USE PublisherAssumption DEF IInv, Actor
<1>1. TypeOK'
  <2>1. Flags'
    BY Zenon, TypeParts DEF Flags, OpenFails, Retries, Goes, coord, mgr, work
  <2>2. Producers'
    BY TypeParts DEF Producers, OpenFails, Retries, Goes, coord, mgr, work
  <2>3. Places'
    BY TypeParts DEF Places, OpenFails, Retries, Goes, coord, mgr, work
  <2> QED BY <2>1, <2>2, <2>3 DEF TypeOK, Flags, Producers, Places
<1>2. Hands' /\ NoProducerLeak'
  BY DEF TypeOK, Hands, NoProducerLeak, OpenFails, Retries, Goes, coord, mgr, work
<1>3. OffIsEmpty'
  BY DEF TypeOK, OffIsEmpty, OpenFails, Retries, Goes, coord, mgr, work
<1>4. NoLostWakeup'
  BY DEF TypeOK, NoLostWakeup, OpenFails, Retries, Goes, coord, mgr, work
<1>5. StopAfterWorker' /\ SpawnedOnce'
  BY DEF TypeOK, StopAfterWorker, SpawnedOnce, OpenFails, Retries, Goes, coord, mgr, work
<1> QED BY <1>1, <1>2, <1>3, <1>4, <1>5

LEMMA AdmitOK ==
    ASSUME IInv, NEW a \in Actor, Admit(a)
    PROVE  IInv'
<1> USE PublisherAssumption DEF IInv, Actor
<1>1. TypeOK'
  <2>1. Flags'
    BY Zenon, TypeParts DEF Flags, Admit, Goes, mgr, work
  <2>2. Producers'
    BY TypeParts DEF Producers, Admit, Goes, mgr, work
  <2>3. Places'
    BY TypeParts DEF Places, Admit, Goes, mgr, work
  <2> QED BY <2>1, <2>2, <2>3 DEF TypeOK, Flags, Producers, Places
<1>2. Hands' /\ NoProducerLeak'
  BY DEF TypeOK, Hands, NoProducerLeak, Admit, Goes, mgr, work
<1>3. OffIsEmpty'
  BY DEF TypeOK, OffIsEmpty, Admit, Goes, mgr, work
<1>4. NoLostWakeup'
  BY DEF TypeOK, NoLostWakeup, Admit, Goes, mgr, work
<1>5. StopAfterWorker' /\ SpawnedOnce'
  BY DEF TypeOK, StopAfterWorker, SpawnedOnce, Admit, Goes, mgr, work
<1> QED BY <1>1, <1>2, <1>3, <1>4, <1>5

LEMMA SwapOK ==
    ASSUME IInv, NEW a \in Actor, Swap(a)
    PROVE  IInv'
<1> USE PublisherAssumption DEF IInv, Actor
<1>1. TypeOK'
  <2>1. Flags'
    BY Zenon, TypeParts DEF Flags, Swap, Goes, coord, work
  <2>2. Producers'
    BY TypeParts DEF Producers, Swap, Goes, coord, work
  <2>3. Places'
    BY TypeParts DEF Places, Swap, Goes, coord, work
  <2> QED BY <2>1, <2>2, <2>3 DEF TypeOK, Flags, Producers, Places
<1>2. Hands' /\ NoProducerLeak'
  BY DEF TypeOK, Hands, NoProducerLeak, Swap, Goes, coord, work
<1>3. OffIsEmpty'
  BY DEF TypeOK, OffIsEmpty, Swap, Goes, coord, work
<1>4. NoLostWakeup'
  BY DEF TypeOK, NoLostWakeup, Swap, Goes, coord, work
<1>5. StopAfterWorker' /\ SpawnedOnce'
  BY DEF TypeOK, StopAfterWorker, SpawnedOnce, Swap, Goes, coord, work
<1> QED BY <1>1, <1>2, <1>3, <1>4, <1>5

LEMMA CloseOK ==
    ASSUME IInv, NEW a \in Actor, Shut(a) \/ Retire(a)
    PROVE  IInv'
<1> USE PublisherAssumption DEF IInv, Actor
<1>1. TypeOK'
  <2>1. Flags'
    BY Zenon, TypeParts DEF Flags, Shut, Retire, CloseHeld, Close, Goes, coord, mgr, work
  <2>2. Producers'
    BY TypeParts DEF Producers, Shut, Retire, CloseHeld, Close, Goes, coord, mgr, work
  <2>3. Places'
    BY TypeParts DEF Places, Shut, Retire, CloseHeld, Close, Goes, coord, mgr, work
  <2> QED BY <2>1, <2>2, <2>3 DEF TypeOK, Flags, Producers, Places
<1>2. Hands' /\ NoProducerLeak'
  BY DEF TypeOK, Hands, NoProducerLeak, Shut, Retire, CloseHeld, Close, Goes, coord, mgr, work
<1>3. OffIsEmpty'
  BY DEF TypeOK, OffIsEmpty, Shut, Retire, CloseHeld, Close, Goes, coord, mgr, work
<1>4. NoLostWakeup'
  BY DEF TypeOK, NoLostWakeup, Shut, Retire, CloseHeld, Close, Goes, coord, mgr, work
<1>5. StopAfterWorker' /\ SpawnedOnce'
  BY DEF TypeOK, StopAfterWorker, SpawnedOnce, Shut, Retire, CloseHeld, Close, Goes, coord, mgr, work
<1> QED BY <1>1, <1>2, <1>3, <1>4, <1>5

LEMMA NotifyOK ==
    ASSUME IInv, NEW a \in Actor, Notify(a)
    PROVE  IInv'
<1> USE PublisherAssumption DEF IInv, Actor
<1>1. TypeOK'
  <2>1. Flags'
    BY Zenon, TypeParts DEF Flags, Notify, Token, Goes, coord, mgr, work
  <2>2. Producers'
    BY TypeParts DEF Producers, Notify, Token, Goes, coord, mgr, work
  <2>3. Places'
    BY TypeParts DEF Places, Notify, Token, Goes, coord, mgr, work
  <2> QED BY <2>1, <2>2, <2>3 DEF TypeOK, Flags, Producers, Places
<1>2. Hands' /\ NoProducerLeak'
  BY DEF TypeOK, Hands, NoProducerLeak, Notify, Token, Goes, coord, mgr, work
<1>3. OffIsEmpty'
  BY DEF TypeOK, OffIsEmpty, Notify, Token, Goes, coord, mgr, work
<1>4. NoLostWakeup'
  BY DEF TypeOK, NoLostWakeup, Notify, Token, Goes, coord, mgr, work
<1>5. StopAfterWorker' /\ SpawnedOnce'
  BY DEF TypeOK, StopAfterWorker, SpawnedOnce, Notify, Token, Goes, coord, mgr, work
<1> QED BY <1>1, <1>2, <1>3, <1>4, <1>5

LEMMA UpdateOK ==
    ASSUME IInv, NEW c \in Client, NEW w \in BOOLEAN, Update(c, w)
    PROVE  IInv'
<1> USE PublisherAssumption DEF IInv, Actor
<1>1. TypeOK'
  <2>1. Flags'
    BY Zenon, TypeParts DEF Flags, Update, Goes, coord, mgr, work
  <2>2. Producers'
    BY TypeParts DEF Producers, Update, Goes, coord, mgr, work
  <2>3. Places'
    BY TypeParts DEF Places, Update, Goes, coord, mgr, work
  <2> QED BY <2>1, <2>2, <2>3 DEF TypeOK, Flags, Producers, Places
<1>2. Hands' /\ NoProducerLeak'
  BY DEF TypeOK, Hands, NoProducerLeak, Update, Goes, coord, mgr, work
<1>3. OffIsEmpty'
  BY DEF TypeOK, OffIsEmpty, Update, Goes, coord, mgr, work
<1>4. NoLostWakeup'
  BY DEF TypeOK, NoLostWakeup, Update, Goes, coord, mgr, work
<1>5. StopAfterWorker' /\ SpawnedOnce'
  BY DEF TypeOK, StopAfterWorker, SpawnedOnce, Update, Goes, coord, mgr, work
<1> QED BY <1>1, <1>2, <1>3, <1>4, <1>5

----------------------------------------------------------------------------
(* The steps of Start, Stop and the reconnect goroutine.                    *)

LEMMA StartOK ==
    ASSUME IInv, StartStep
    PROVE  IInv'
<1> USE PublisherAssumption DEF IInv, Actor
<1>1. TypeOK'
  <2>1. Flags'
    BY Zenon, TypeParts DEF Flags, StartStep, Start, StartWithout, SpawnReconnect, Goes, coord, mgr, work
  <2>2. Producers'
    BY TypeParts DEF Producers, StartStep, Start, StartWithout, SpawnReconnect, Goes, coord, mgr, work
  <2>3. Places'
    BY TypeParts DEF Places, StartStep, Start, StartWithout, SpawnReconnect, Goes, coord, mgr, work
  <2> QED BY <2>1, <2>2, <2>3 DEF TypeOK, Flags, Producers, Places
<1>2. Hands' /\ NoProducerLeak'
  BY DEF TypeOK, Hands, NoProducerLeak, SpawnedOnce, StartStep, Start, StartWithout, SpawnReconnect, Goes, coord, mgr, work
<1>3. OffIsEmpty'
  BY DEF TypeOK, OffIsEmpty, StartStep, Start, StartWithout, SpawnReconnect, Goes, coord, mgr, work
<1>4. NoLostWakeup'
  BY DEF TypeOK, NoLostWakeup, SpawnedOnce, StartStep, Start, StartWithout, SpawnReconnect, Goes, coord, mgr, work
<1>5. StopAfterWorker' /\ SpawnedOnce'
  BY DEF TypeOK, StopAfterWorker, SpawnedOnce, StartStep, Start, StartWithout, SpawnReconnect, Goes, coord, mgr, work
<1> QED BY <1>1, <1>2, <1>3, <1>4, <1>5

LEMMA ReconnectOK ==
    ASSUME IInv, ReconnectTries \/ ReconnectEnds
    PROVE  IInv'
<1> USE PublisherAssumption DEF IInv, Actor
<1>1. TypeOK'
  <2>1. Flags'
    BY Zenon, TypeParts DEF Flags, ReconnectTries, ReconnectEnds, Goes, coord, mgr, work
  <2>2. Producers'
    BY TypeParts DEF Producers, ReconnectTries, ReconnectEnds, Goes, coord, mgr, work
  <2>3. Places'
    BY TypeParts DEF Places, ReconnectTries, ReconnectEnds, Goes, coord, mgr, work
  <2> QED BY <2>1, <2>2, <2>3 DEF TypeOK, Flags, Producers, Places
<1>2. Hands' /\ NoProducerLeak'
  BY DEF TypeOK, Hands, NoProducerLeak, ReconnectTries, ReconnectEnds, Goes, coord, mgr, work
<1>3. OffIsEmpty'
  BY DEF TypeOK, OffIsEmpty, ReconnectTries, ReconnectEnds, Goes, coord, mgr, work
<1>4. NoLostWakeup'
  BY DEF TypeOK, NoLostWakeup, ReconnectTries, ReconnectEnds, Goes, coord, mgr, work
<1>5. StopAfterWorker' /\ SpawnedOnce'
  BY DEF TypeOK, StopAfterWorker, SpawnedOnce, ReconnectTries, ReconnectEnds, Goes, coord, mgr, work
<1> QED BY <1>1, <1>2, <1>3, <1>4, <1>5

LEMMA StopBeginsOK ==
    ASSUME IInv, StopAccepting \/ StopTakes
    PROVE  IInv'
<1> USE PublisherAssumption DEF IInv, Actor
<1>1. TypeOK'
  <2>1. Flags'
    BY Zenon, TypeParts DEF Flags, StopAccepting, StopTakes, Goes, coord, mgr, work
  <2>2. Producers'
    BY TypeParts DEF Producers, StopAccepting, StopTakes, Goes, coord, mgr, work
  <2>3. Places'
    BY TypeParts DEF Places, StopAccepting, StopTakes, Goes, coord, mgr, work
  <2> QED BY <2>1, <2>2, <2>3 DEF TypeOK, Flags, Producers, Places
<1>2. Hands' /\ NoProducerLeak'
  BY DEF TypeOK, Hands, NoProducerLeak, StopAccepting, StopTakes, Goes, coord, mgr, work
<1>3. OffIsEmpty'
  BY DEF TypeOK, OffIsEmpty, StopAccepting, StopTakes, Goes, coord, mgr, work
<1>4. NoLostWakeup'
  BY DEF TypeOK, NoLostWakeup, StopAccepting, StopTakes, Goes, coord, mgr, work
<1>5. StopAfterWorker' /\ SpawnedOnce'
  BY DEF TypeOK, StopAfterWorker, SpawnedOnce, StopAccepting, StopTakes, Goes, coord, mgr, work
<1> QED BY <1>1, <1>2, <1>3, <1>4, <1>5

LEMMA StopWaitsOK ==
    ASSUME IInv, StopCancels \/ StopJoins \/ StopExpires
    PROVE  IInv'
<1> USE PublisherAssumption DEF IInv, Actor
<1>1. TypeOK'
  <2>1. Flags'
    BY Zenon, TypeParts DEF Flags, StopCancels, StopJoins, StopExpires, Cancel, WorkerEnded, Goes, coord, mgr, work
  <2>2. Producers'
    BY TypeParts DEF Producers, StopCancels, StopJoins, StopExpires, Cancel, WorkerEnded, Goes, coord, mgr, work
  <2>3. Places'
    BY TypeParts DEF Places, StopCancels, StopJoins, StopExpires, Cancel, WorkerEnded, Goes, coord, mgr, work
  <2> QED BY <2>1, <2>2, <2>3 DEF TypeOK, Flags, Producers, Places
<1>2. Hands' /\ NoProducerLeak'
  BY DEF TypeOK, Hands, NoProducerLeak, StopCancels, StopJoins, StopExpires, Cancel, WorkerEnded, Goes, coord, mgr, work
<1>3. OffIsEmpty'
  BY DEF TypeOK, OffIsEmpty, StopCancels, StopJoins, StopExpires, Cancel, WorkerEnded, Goes, coord, mgr, work
<1>4. NoLostWakeup'
  BY DEF TypeOK, NoLostWakeup, StopCancels, StopJoins, StopExpires, Cancel, WorkerEnded, Goes, coord, mgr, work
<1>5. StopAfterWorker' /\ SpawnedOnce'
  BY DEF TypeOK, StopAfterWorker, SpawnedOnce, StopCancels, StopJoins, StopExpires, Cancel, WorkerEnded, Goes, coord, mgr, work
<1> QED BY <1>1, <1>2, <1>3, <1>4, <1>5

LEMMA StopEndsOK ==
    ASSUME IInv, StopCloses \/ CloseListener
    PROVE  IInv'
<1> USE PublisherAssumption DEF IInv, Actor
<1>1. TypeOK'
  <2>1. Flags'
    BY Zenon, TypeParts DEF Flags, StopCloses, CloseListener, CloseHeld, Close, Goes, coord, mgr, work
  <2>2. Producers'
    BY TypeParts DEF Producers, StopCloses, CloseListener, CloseHeld, Close, Goes, coord, mgr, work
  <2>3. Places'
    BY TypeParts DEF Places, StopCloses, CloseListener, CloseHeld, Close, Goes, coord, mgr, work
  <2> QED BY <2>1, <2>2, <2>3 DEF TypeOK, Flags, Producers, Places
<1>2. Hands' /\ NoProducerLeak'
  BY DEF TypeOK, Hands, NoProducerLeak, StopCloses, CloseListener, CloseHeld, Close, Goes, coord, mgr, work
<1>3. OffIsEmpty'
  BY DEF TypeOK, OffIsEmpty, StopCloses, CloseListener, CloseHeld, Close, Goes, coord, mgr, work
<1>4. NoLostWakeup'
  BY DEF TypeOK, NoLostWakeup, StopCloses, CloseListener, CloseHeld, Close, Goes, coord, mgr, work
<1>5. StopAfterWorker' /\ SpawnedOnce'
  BY DEF TypeOK, StopAfterWorker, SpawnedOnce, StopCloses, CloseListener, CloseHeld, Close, Goes, coord, mgr, work
<1> QED BY <1>1, <1>2, <1>3, <1>4, <1>5

----------------------------------------------------------------------------
(* The steps of a scan and of the worker.                                   *)

LEMMA SubmitOK ==
    ASSUME IInv, Submit
    PROVE  IInv'
<1> USE PublisherAssumption DEF IInv, Actor
<1>1. TypeOK'
  <2>1. Flags'
    BY Zenon, TypeParts DEF Flags, Submit, Push, mgr, work
  <2>2. Producers'
    BY TypeParts DEF Producers, Submit, Push, mgr, work
  <2>3. Places'
    BY TypeParts DEF Places, Submit, Push, mgr, work
  <2> QED BY <2>1, <2>2, <2>3 DEF TypeOK, Flags, Producers, Places
<1>2. Hands' /\ NoProducerLeak'
  BY DEF TypeOK, Hands, NoProducerLeak, Submit, Push, mgr, work
<1>3. OffIsEmpty'
  BY DEF TypeOK, OffIsEmpty, Submit, Push, mgr, work
<1>4. NoLostWakeup'
  BY DEF TypeOK, NoLostWakeup, Submit, Push, mgr, work
<1>5. StopAfterWorker' /\ SpawnedOnce'
  BY DEF TypeOK, StopAfterWorker, SpawnedOnce, Submit, Push, mgr, work
<1> QED BY <1>1, <1>2, <1>3, <1>4, <1>5

LEMMA LookOK ==
    ASSUME IInv, Look \/ Wake
    PROVE  IInv'
<1> USE PublisherAssumption DEF IInv, Actor
<1>1. TypeOK'
  <2>1. Flags'
    BY Zenon, TypeParts DEF Flags, Look, Wake, WorkerGoes, coord, mgr
  <2>2. Producers'
    BY TypeParts DEF Producers, Look, Wake, WorkerGoes, coord, mgr
  <2>3. Places'
    BY TypeParts DEF Places, Look, Wake, WorkerGoes, coord, mgr
  <2> QED BY <2>1, <2>2, <2>3 DEF TypeOK, Flags, Producers, Places
<1>2. Hands' /\ NoProducerLeak'
  BY DEF TypeOK, Hands, NoProducerLeak, Look, Wake, WorkerGoes, coord, mgr
<1>3. OffIsEmpty'
  BY DEF TypeOK, OffIsEmpty, Look, Wake, WorkerGoes, coord, mgr
<1>4. NoLostWakeup'
  BY DEF TypeOK, NoLostWakeup, Look, Wake, WorkerGoes, coord, mgr
<1>5. StopAfterWorker' /\ SpawnedOnce'
  BY DEF TypeOK, StopAfterWorker, SpawnedOnce, Look, Wake, WorkerGoes, coord, mgr
<1> QED BY <1>1, <1>2, <1>3, <1>4, <1>5

LEMMA NextMessageOK ==
    ASSUME IInv, NextMessage
    PROVE  IInv'
<1> USE PublisherAssumption DEF IInv, Actor
<1>1. TypeOK'
  <2>1. Flags'
    BY Zenon, TypeParts DEF Flags, NextMessage, WorkerGoes, mgr
  <2>2. Producers'
    BY TypeParts DEF Producers, NextMessage, WorkerGoes, mgr
  <2>3. Places'
    BY TypeParts DEF Places, NextMessage, WorkerGoes, mgr
  <2> QED BY <2>1, <2>2, <2>3 DEF TypeOK, Flags, Producers, Places
<1>2. Hands' /\ NoProducerLeak'
  BY DEF TypeOK, Hands, NoProducerLeak, NextMessage, WorkerGoes, mgr
<1>3. OffIsEmpty'
  BY DEF TypeOK, OffIsEmpty, NextMessage, WorkerGoes, mgr
<1>4. NoLostWakeup'
  BY DEF TypeOK, NoLostWakeup, NextMessage, WorkerGoes, mgr
<1>5. StopAfterWorker' /\ SpawnedOnce'
  BY DEF TypeOK, StopAfterWorker, SpawnedOnce, NextMessage, WorkerGoes, mgr
<1> QED BY <1>1, <1>2, <1>3, <1>4, <1>5

LEMMA SendOK ==
    ASSUME IInv, Send \/ WorkerEnds
    PROVE  IInv'
<1> USE PublisherAssumption DEF IInv, Actor
<1>1. TypeOK'
  <2>1. Flags'
    BY Zenon, TypeParts DEF Flags, Send, AfterSend, WorkerEnds, LetGo, coord, mgr
  <2>2. Producers'
    BY TypeParts DEF Producers, Send, AfterSend, WorkerEnds, LetGo, coord, mgr
  <2>3. Places'
    BY TypeParts DEF Places, Send, AfterSend, WorkerEnds, LetGo, coord, mgr
  <2> QED BY <2>1, <2>2, <2>3 DEF TypeOK, Flags, Producers, Places
<1>2. Hands' /\ NoProducerLeak'
  BY DEF TypeOK, Hands, NoProducerLeak, Send, AfterSend, WorkerEnds, LetGo, coord, mgr
<1>3. OffIsEmpty'
  BY DEF TypeOK, OffIsEmpty, Send, AfterSend, WorkerEnds, LetGo, coord, mgr
<1>4. NoLostWakeup'
  BY DEF TypeOK, NoLostWakeup, Send, AfterSend, WorkerEnds, LetGo, coord, mgr
<1>5. StopAfterWorker' /\ SpawnedOnce'
  BY DEF TypeOK, StopAfterWorker, SpawnedOnce, Send, AfterSend, WorkerEnds, LetGo, coord, mgr
<1> QED BY <1>1, <1>2, <1>3, <1>4, <1>5

LEMMA StutterOK ==
    ASSUME IInv, UNCHANGED vars
    PROVE  IInv'
<1> USE DEF IInv, vars, coord, mgr, work
<1>1. TypeOK'
  BY DEF TypeOK
<1>2. Hands' /\ NoProducerLeak' /\ OffIsEmpty' /\ NoLostWakeup' /\ StopAfterWorker' /\ SpawnedOnce'
  BY DEF Hands, NoProducerLeak, OffIsEmpty, NoLostWakeup, StopAfterWorker, SpawnedOnce
<1> QED BY <1>1, <1>2

----------------------------------------------------------------------------
LEMMA StepOK == IInv /\ [Next]_vars => IInv'
<1> SUFFICES ASSUME IInv, [Next]_vars PROVE IInv'
  OBVIOUS
<1>1. ASSUME NEW a \in Actor, ActorStep(a) PROVE IInv'
  BY <1>1, EndAdmissionOK, DiscardAllOK, DropOK, OpenSucceedsOK, OpenFailsOK, AdmitOK, SwapOK,
     CloseOK, NotifyOK DEF ActorStep
<1>2. ASSUME NEW c \in Client, NEW w \in BOOLEAN, Update(c, w) PROVE IInv'
  BY <1>2, UpdateOK
<1>3. CASE StartStep \/ ReconnectTries \/ ReconnectEnds
  BY <1>3, StartOK, ReconnectOK
<1>4. CASE StopAccepting \/ StopStep \/ StopExpires \/ CloseListener
  BY <1>4, StopBeginsOK, StopWaitsOK, StopEndsOK DEF StopStep
<1>5. CASE Submit \/ WorkerStep \/ WorkerEnds
  BY <1>5, SubmitOK, LookOK, NextMessageOK, SendOK DEF WorkerStep
<1>6. CASE Exit \/ UNCHANGED vars
  BY <1>6, StutterOK DEF Exit
<1> QED
  BY <1>1, <1>2, <1>3, <1>4, <1>5, <1>6 DEF Next

LEMMA Inductive == Spec => []IInv
BY InitOK, StepOK, PTL DEF Spec

\* Every variable keeps its type: the queue never passes its capacity.
THEOREM TypeCorrect == Spec => []TypeOK
<1>1. IInv => TypeOK
  BY DEF IInv
<1> QED BY <1>1, Inductive, PTL

\* However requests, Start, Stop and the reconnect goroutine overlap, an open producer
\* is installed or in the hands of the one that will install or close it.
THEOREM NoneLeftOpen == Spec => []NoProducerLeak
<1>1. IInv => NoProducerLeak
  BY DEF IInv
<1> QED BY <1>1, Inductive, PTL

\* A snapshot admitted while Kafka is being switched off does not stay queued.
THEOREM NothingLeftQueued == Spec => []OffIsEmpty
<1>1. IInv => OffIsEmpty
  BY DEF IInv
<1> QED BY <1>1, Inductive, PTL

\* The worker's look and the installation of a producer never miss one another.
THEOREM WorkerIsWoken == Spec => []NoLostWakeup
<1>1. IInv => NoLostWakeup
  BY DEF IInv
<1> QED BY <1>1, Inductive, PTL

\* A Stop that returns nil leaves no worker to send a message.
THEOREM StopIsLast == Spec => []StopEndsSending
<1>1. IInv => StopEndsSending
  BY DEF IInv, StopAfterWorker, StopEndsSending
<1> QED BY <1>1, Inductive, PTL

==============================================================================
