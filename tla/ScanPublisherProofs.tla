------------------------- MODULE ScanPublisherProofs -------------------------
(***************************************************************************)
(* Scans, policies and the worker use the queue in no other way than         *)
(* MessageQueue says, so what is proved of the queue holds between them; and *)
(* what a consumer has been told, with the changes on their way to it, are   *)
(* the values of the completed scans.                                       *)
(***************************************************************************)
EXTENDS ScanPublisher, MessageQueueProofs, WellFoundedInduction

\* What messages are made of.
Typed ==
    /\ udm \in Points
    /\ policy \in Policies
    /\ state # None => state \in DeviceStates

LEMMA OverPoints ==
  ASSUME NEW values \in Points, NEW points \in Points
  PROVE  Over(values, points) \in Points
BY DEF Over, Points

LEMMA NoValuesPoints == NoValues \in Points
  BY DEF NoValues, Points

LEMMA DeviceStateIs == Typed => DeviceState \in DeviceStates
  BY NoValuesPoints, ScanPublisherAssumption DEF Typed, DeviceState, NewState, DeviceStates

LEMMA TypedInit == PublisherInit => Typed
  BY NoValuesPoints DEF PublisherInit, Typed

\* A message that a policy sends.
LEMMA OutgoingIs ==
  ASSUME Typed, policy.on, NEW points \in Points, Has(points) # {}
  PROVE  Outgoing(points) \in Message
BY MessageAssumption DEF Typed, Outgoing

LEMMA SubmitChangesOK ==
  ASSUME Typed, policy.on, NEW scan \in Points, SubmitChanges(scan)
  PROVE  [QueueNext]_queueVars /\ state' \in DeviceStates
<1> DEFINE last == DeviceState.last
           changes == Changed(last, scan)
<1>1. last \in Points
  BY DeviceStateIs DEF DeviceStates
<1>2. changes \in Points
  BY <1>1 DEF Changed, Points
<1>3. state' \in DeviceStates
  <2>1. Remember(last, scan) \in Points
    BY <1>1, OverPoints DEF Remember
  <2>2. state' = [DeviceState EXCEPT !.last = Remember(last, scan)]
    BY DEF SubmitChanges
  <2> QED BY <2>1, <2>2, DeviceStateIs DEF DeviceStates
<1>4. CASE Has(changes) # {} /\ Announce(Outgoing(changes), scan)
  <2>1. Outgoing(changes) \in Message
    BY <1>2, <1>4, OutgoingIs
  <2> QED BY <1>3, <1>4, <2>1 DEF Announce, QueueNext
<1>5. CASE UNCHANGED queueVars
  BY <1>3, <1>5
<1> QED BY <1>4, <1>5 DEF SubmitChanges, Baseline

LEMMA SubmitFullOK ==
  ASSUME Typed, policy.on, udm' \in Points, SubmitFull
  PROVE  [QueueNext]_queueVars /\ state' \in DeviceStates
<1>1. CASE Has(udm') # {} /\ Push(Outgoing(udm')) /\ state' = [DeviceState EXCEPT !.age = 0]
  <2>1. Outgoing(udm') \in Message
    BY <1>1, OutgoingIs
  <2> QED BY <1>1, <2>1, DeviceStateIs DEF QueueNext, DeviceStates
<1>2. CASE state' = DeviceState /\ UNCHANGED queueVars
  BY <1>2, DeviceStateIs
<1> QED BY <1>1, <1>2 DEF SubmitFull

LEMMA PublishOK ==
  ASSUME Typed, NEW scan \in Points, Publish(scan)
  PROVE  [QueueNext]_queueVars /\ Typed'
<1>1. udm' \in Points /\ policy' = policy
  BY OverPoints DEF Publish, Scans, Typed
<1>2. CASE policy.on /\ (SubmitChanges(scan) \/ SubmitFull)
  BY <1>1, <1>2, SubmitChangesOK, SubmitFullOK DEF Typed
<1>3. CASE UNCHANGED <<queueVars, state>>
  BY <1>1, <1>3 DEF Typed
<1> QED BY <1>2, <1>3 DEF Publish

LEMMA PublisherStep ==
  Typed /\ [PublisherNext]_pubVars => Typed' /\ [QueueNext]_queueVars
<1> SUFFICES ASSUME Typed, [PublisherNext]_pubVars
             PROVE  Typed' /\ [QueueNext]_queueVars
  OBVIOUS
<1>1. CASE RunnerStarts \/ RunnerEnds \/ EndAdmission \/ Admit
  BY <1>1, NoValuesPoints DEF RunnerStarts, RunnerEnds, ResetDevice, EndAdmission, Admit, runner,
     coordVars, Typed
<1>2. ASSUME NEW scan \in Points, ScanFails(scan) PROVE Typed' /\ [QueueNext]_queueVars
  BY <1>2, OverPoints DEF ScanFails, Scans, coordVars, Typed
<1>3. ASSUME NEW scan \in Points, Publish(scan) PROVE Typed' /\ [QueueNext]_queueVars
  BY <1>3, PublishOK
<1>4. ASSUME NEW p \in Policies, ApplyDeviceConfig(p) PROVE Typed' /\ [QueueNext]_queueVars
  BY <1>4 DEF ApplyDeviceConfig, runner, Typed
<1>5. CASE Discard \/ Close \/ WorkerTakes \/ WorkerWaits
  BY <1>5 DEF Discard, Close, WorkerTakes, WorkerWaits, runner, coordVars, Typed, QueueNext
<1>6. CASE Tick
  BY <1>6, ScanPublisherAssumption DEF Tick, Older, runner, Typed, DeviceStates
<1>7. CASE UNCHANGED pubVars
  BY <1>7 DEF pubVars, runner, coordVars, Typed
<1> QED
  BY <1>1, <1>2, <1>3, <1>4, <1>5, <1>6, <1>7 DEF PublisherNext

\* Between the scans of a device and the Kafka worker, with policies that change and
\* Kafka switched off and on, the queue is used as it is meant to be.
THEOREM UsesQueue == PublisherSpec => QueueSpec
<1>1. PublisherInit => QueueInit
  BY DEF PublisherInit
<1> QED BY <1>1, TypedInit, PublisherStep, PTL DEF PublisherSpec, QueueSpec

\* So scans reach the worker through a FIFO that drops its oldest message: RefinesFifo.
THEOREM ScansGoThroughFifo == PublisherSpec => RefinesFifo
  BY UsesQueue, RingIsFifo

\* And the worker never sleeps on the message of a scan: NoLostWake.
THEOREM ScansWakeWorker == PublisherSpec => []NoLostWake
  BY UsesQueue, NoWakeIsLost

----------------------------------------------------------------------------
(* What a consumer knows after n of a series f of messages, if it knew b.    *)

Telling(f, n, t) == {i \in 1..n : f[i][t] # None}

Latest(S) == CHOOSE i \in S : \A j \in S : j <= i

Knows(b, f, n, t) ==
    IF Telling(f, n, t) = {} THEN b[t] ELSE f[Latest(Telling(f, n, t))][t]

LEMMA LatestTells ==
  ASSUME NEW n \in Nat, NEW S \in SUBSET (1..n), S # {}
  PROVE  \E i \in S : \A j \in S : j <= i
<1> DEFINE T == {k \in Nat : n - k \in S}
<1>1. T # {}
  <2>1. PICK i \in S : TRUE
    OBVIOUS
  <2>2. n - i \in Nat /\ n - (n - i) = i
    OBVIOUS
  <2> QED BY <2>1, <2>2
<1>2. PICK k \in T : \A l \in T : ~ (<<l, k>> \in OpToRel(<, Nat))
  BY <1>1, NatLessThanWellFounded, WFMin
<1>3. \A l \in T : ~ (l < k)
  BY <1>2 DEF OpToRel
<1>4. ASSUME NEW j \in S PROVE j <= n - k
  <2>1. n - j \in Nat /\ n - (n - j) = j
    OBVIOUS
  <2> QED BY <1>3, <2>1
<1> QED BY <1>4

\* Nobody tells of t, or somebody does last.
NobodyTells(f, n, t) == \A i \in 1..n : f[i][t] = None

TellsLast(f, n, t, i) ==
    i \in 1..n /\ f[i][t] # None /\ \A j \in 1..n : j > i => f[j][t] = None

LEMMA KnowsBase ==
  ASSUME NEW b, NEW f, NEW n \in Nat, NEW t, NobodyTells(f, n, t)
  PROVE  Knows(b, f, n, t) = b[t]
BY DEF Knows, Telling, NobodyTells

LEMMA KnowsUntold ==
  ASSUME NEW b, NEW f, NEW t
  PROVE  Knows(b, f, 0, t) = b[t]
<1>1. NobodyTells(f, 0, t)
  BY DEF NobodyTells
<1> QED BY <1>1, KnowsBase

LEMMA KnowsLatest ==
  ASSUME NEW b, NEW f, NEW n \in Nat, NEW t, NEW i, TellsLast(f, n, t, i)
  PROVE  Knows(b, f, n, t) = f[i][t]
<1> DEFINE IsLast(k) == \A j \in Telling(f, n, t) : j <= k
<1>1. i \in Telling(f, n, t) /\ IsLast(i)
  BY DEF TellsLast, Telling
<1>2. \A k \in Telling(f, n, t) : IsLast(k) => k = i
  <2>1. \A k \in Telling(f, n, t) : k \in 1..n
    BY DEF Telling
  <2> QED BY <1>1, <2>1
<1>3. Latest(Telling(f, n, t)) = i
  <2>1. Latest(Telling(f, n, t)) = CHOOSE k \in Telling(f, n, t) : IsLast(k)
    BY DEF Latest
  <2> HIDE DEF IsLast
  <2> QED BY <1>1, <1>2, <2>1
<1> QED BY <1>1, <1>3 DEF Knows

LEMMA LastOrNobody ==
  ASSUME NEW f, NEW n \in Nat, NEW t
  PROVE  NobodyTells(f, n, t) \/ \E i \in 1..n : TellsLast(f, n, t, i)
<1>1. CASE Telling(f, n, t) = {}
  BY <1>1 DEF Telling, NobodyTells
<1>2. CASE Telling(f, n, t) # {}
  <2>1. Telling(f, n, t) \in SUBSET (1..n)
    BY DEF Telling
  <2>2. PICK i \in Telling(f, n, t) : \A j \in Telling(f, n, t) : j <= i
    BY <1>2, <2>1, LatestTells
  <2>3. TellsLast(f, n, t, i)
    BY <2>2 DEF Telling, TellsLast
  <2> QED BY <2>1, <2>2, <2>3
<1> QED BY <1>1, <1>2

LEMMA KnowsSame ==
  ASSUME NEW b, NEW f, NEW g, NEW n \in Nat, NEW t, \A i \in 1..n : g[i] = f[i]
  PROVE  Knows(b, g, n, t) = Knows(b, f, n, t)
<1>1. CASE NobodyTells(f, n, t)
  <2>1. NobodyTells(g, n, t)
    BY <1>1 DEF NobodyTells
  <2> QED BY <1>1, <2>1, KnowsBase
<1>2. ASSUME NEW i \in 1..n, TellsLast(f, n, t, i)
      PROVE  Knows(b, g, n, t) = Knows(b, f, n, t)
  <2>1. TellsLast(g, n, t, i) /\ g[i] = f[i]
    BY <1>2 DEF TellsLast
  <2> QED BY <1>2, <2>1, KnowsLatest
<1> QED BY <1>1, <1>2, LastOrNobody

\* With one message more.
LEMMA KnowsMore ==
  ASSUME NEW b, NEW f, NEW n \in Nat, NEW t
  PROVE  Knows(b, f, n + 1, t) = IF f[n + 1][t] # None THEN f[n + 1][t] ELSE Knows(b, f, n, t)
<1>1. CASE f[n + 1][t] # None
  <2>1. TellsLast(f, n + 1, t, n + 1)
    BY <1>1 DEF TellsLast
  <2> QED BY <1>1, <2>1, KnowsLatest
<1>2. CASE f[n + 1][t] = None
  <2>1. CASE NobodyTells(f, n, t)
    <3>1. NobodyTells(f, n + 1, t)
      BY <1>2, <2>1 DEF NobodyTells
    <3> QED BY <1>2, <2>1, <3>1, KnowsBase
  <2>2. ASSUME NEW i \in 1..n, TellsLast(f, n, t, i)
        PROVE  Knows(b, f, n + 1, t) = Knows(b, f, n, t)
    <3>1. TellsLast(f, n + 1, t, i)
      BY <1>2, <2>2 DEF TellsLast
    <3> QED BY <2>2, <3>1, KnowsLatest
  <2> QED BY <1>2, <2>1, <2>2, LastOrNobody
<1> QED BY <1>1, <1>2

\* The first message is gone, and c is known instead of b.
OneOn(f, g, n) == n \in Nat /\ \A i \in 1..n : g[i] = f[i + 1]

TellsTheSame(b, f, c, g, n, t) ==
  \/ Knows(c, g, n, t) = Knows(b, f, n + 1, t)
  \/ /\ Knows(c, g, n, t) = c[t]
     /\ Knows(b, f, n + 1, t) = IF f[1][t] # None THEN f[1][t] ELSE b[t]

LEMMA KnowsShifted ==
  ASSUME NEW b, NEW f, NEW c, NEW g, NEW n, NEW t, OneOn(f, g, n)
  PROVE  TellsTheSame(b, f, c, g, n, t)
<1> SUFFICES ASSUME n \in Nat, \A i \in 1..n : g[i] = f[i + 1]
             PROVE  \/ Knows(c, g, n, t) = Knows(b, f, n + 1, t)
                    \/ /\ Knows(c, g, n, t) = c[t]
                       /\ Knows(b, f, n + 1, t) = IF f[1][t] # None THEN f[1][t] ELSE b[t]
  BY DEF OneOn, TellsTheSame
<1>1. CASE NobodyTells(g, n, t)
  <2>1. \A j \in 1 .. n + 1 : j > 1 => f[j][t] = None
    <3> SUFFICES ASSUME NEW j \in 1 .. n + 1, j > 1 PROVE f[j][t] = None
      OBVIOUS
    <3>1. j - 1 \in 1..n /\ (j - 1) + 1 = j
      OBVIOUS
    <3> QED BY <1>1, <3>1 DEF NobodyTells
  <2>2. CASE f[1][t] # None
    <3>1. TellsLast(f, n + 1, t, 1)
      BY <2>1, <2>2 DEF TellsLast
    <3> QED BY <1>1, <2>2, <3>1, KnowsLatest, KnowsBase
  <2>3. CASE f[1][t] = None
    <3>1. NobodyTells(f, n + 1, t)
      BY <2>1, <2>3 DEF NobodyTells
    <3> QED BY <1>1, <2>3, <3>1, KnowsBase
  <2> QED BY <2>2, <2>3
<1>2. ASSUME NEW i \in 1..n, TellsLast(g, n, t, i)
      PROVE  Knows(c, g, n, t) = Knows(b, f, n + 1, t)
  <2>1. ASSUME NEW j \in 1 .. n + 1, j > i + 1 PROVE f[j][t] = None
    <3>1. j - 1 \in 1..n /\ j - 1 > i /\ (j - 1) + 1 = j
      BY <2>1
    <3> QED BY <1>2, <3>1 DEF TellsLast
  <2>2. TellsLast(f, n + 1, t, i + 1) /\ g[i] = f[i + 1]
    BY <1>2, <2>1 DEF TellsLast
  <2> QED BY <1>2, <2>2, KnowsLatest
<1> QED BY <1>1, <1>2, LastOrNobody

----------------------------------------------------------------------------
(* The queue as a sequence.                                                 *)

LEMMA PushedQueue ==
  ASSUME Ring, NEW m \in Message, Push(m)
  PROVE  /\ Ring'
         /\ size' = IF size = Capacity THEN size ELSE size + 1
         /\ Queued'[size'] = m
         /\ \A i \in 1 .. size' - 1 :
                Queued'[i] = IF size = Capacity THEN Queued[i + 1] ELSE Queued[i]
<1>1. Ring' /\ Queued' = Append(IF Len(Queued) = Capacity THEN Tail(Queued) ELSE Queued, m)
  BY PushRefines DEF Fifo!Push
<1>2. Queued \in Seq(Message) /\ Len(Queued) = size
  BY QueuedIs
<1>3. size' = IF size = Capacity THEN size ELSE size + 1
  BY DEF Push, Store, Ring
<1>4. size \in Nat /\ size <= Capacity /\ Capacity \in Nat \ {0}
  BY QueueAssumption DEF Ring
<1>5. CASE size = Capacity
  <2>1. /\ Tail(Queued) \in Seq(Message) /\ Len(Tail(Queued)) = size - 1
        /\ \A i \in 1 .. size - 1 : Tail(Queued)[i] = Queued[i + 1]
    BY <1>2, <1>4, <1>5
  <2> QED BY <1>1, <1>2, <1>3, <1>4, <1>5, <2>1, AppendProperties
<1>6. CASE size # Capacity
  <2>1. Queued' = Append(Queued, m) /\ size' = size + 1
    BY <1>1, <1>2, <1>3, <1>6
  <2>2. /\ Append(Queued, m)[Len(Queued) + 1] = m
        /\ \A i \in 1..Len(Queued) : Append(Queued, m)[i] = Queued[i]
    BY <1>2, AppendProperties
  <2> QED BY <1>1, <1>2, <1>4, <1>6, <2>1, <2>2
<1> QED BY <1>5, <1>6

LEMMA TakenQueue ==
  ASSUME Ring, Take
  PROVE  /\ Ring'
         /\ size \in Nat \ {0} /\ size' = size - 1
         /\ \A i \in 1..size' : Queued'[i] = Queued[i + 1]
<1>1. Ring' /\ Queued' = Tail(Queued)
  BY TakeRefines DEF Fifo!Pop
<1>2. Queued \in Seq(Message) /\ Len(Queued) = size
  BY QueuedIs
<1>3. size \in Nat \ {0} /\ size' = size - 1
  BY QueueAssumption DEF Take, Ring
<1> QED BY <1>1, <1>2, <1>3

----------------------------------------------------------------------------
(* The era.                                                                 *)

\* The changes it has queued.
Fresh == [i \in 1..fresh |-> Queued[size - fresh + i].points]

\* View, as Knows.
ViewKnows ==
    fresh \in Nat => \A n \in 0..fresh : \A t \in Tag : View(n)[t] = Knows(told, Fresh, n, t)

LEMMA ViewIs == ViewKnows
<1> SUFFICES ASSUME fresh \in Nat, NEW n \in 0..fresh, NEW t \in Tag
             PROVE  View(n)[t] = Knows(told, Fresh, n, t)
  BY DEF ViewKnows
<1> DEFINE tells == {i \in 1..n : t \in Has(Queued[size - fresh + i].points)}
<1>1. \A i \in 1..n : Fresh[i] = Queued[size - fresh + i].points
  BY DEF Fresh
<1>2. tells = Telling(Fresh, n, t)
  BY <1>1 DEF Telling, Has
<1>3. View(n)[t] = IF tells = {} THEN told[t] ELSE Queued[size - fresh + Latest(tells)].points[t]
  <2> DEFINE who(u) == {i \in 1..n : u \in Has(Queued[size - fresh + i].points)}
             latest(u) == Queued[size - fresh + Latest(who(u))].points[u]
  <2>1. View(n) = [u \in Tag |-> IF who(u) = {} THEN told[u] ELSE latest(u)]
    BY DEF View, Latest
  <2>2. who(t) = tells /\ latest(t) = Queued[size - fresh + Latest(tells)].points[t]
    OBVIOUS
  <2> HIDE DEF who, latest, tells
  <2>3. View(n)[t] = IF who(t) = {} THEN told[t] ELSE latest(t)
    BY <2>1
  <2> QED BY <2>2, <2>3
<1>4. Knows(told, Fresh, n, t) = IF tells = {} THEN told[t] ELSE Fresh[Latest(tells)][t]
  BY <1>2 DEF Knows
<1>5. ASSUME tells # {} PROVE Latest(tells) \in 1..n
  <2>1. tells \in SUBSET (1..n) /\ n \in Nat
    OBVIOUS
  <2>2. \E i \in tells : \A j \in tells : j <= i
    BY <1>5, <2>1, LatestTells
  <2> QED BY <2>1, <2>2 DEF Latest
<1> HIDE DEF tells
<1> QED BY <1>1, <1>3, <1>4, <1>5

LEMMA ViewIsNext == ViewKnows'
  BY ViewIs, PTL

\* The consumer's knowledge, the changes on their way to it, and the scanned values.
AddUp == \A t \in Tag : Knows(told, Fresh, fresh, t) \in {known[t], Lost}

News == \A i \in 1..fresh : \A t \in Tag :
            Fresh[i][t] # None => Fresh[i][t] # Knows(told, Fresh, i - 1, t)

Told ==
    /\ known \in Points
    /\ told \in [Tag -> Value \cup {None, Lost}]
    /\ fresh \in 0..size
    /\ Fresh \in [1..fresh -> Points]
    /\ AddUp /\ News

\* In change mode the coordinator's last values are those of the completed scans.
Linked ==
    /\ policy.on => DeviceState.last = known
    /\ policy.on /\ policy.mode = "full" => fresh = 0
    /\ fresh > 0 => Has(known) # {}

LEMMA ToldIs ==
  Ring /\ Told => ChangesAddUp /\ EachIsNews
<1> SUFFICES ASSUME Ring, Told PROVE ChangesAddUp /\ EachIsNews
  OBVIOUS
<1>1. fresh \in Nat /\ size \in Nat /\ fresh <= size
  BY QueueAssumption DEF Told, Ring
<1>2. ChangesAddUp
  <2>1. \A t \in Tag : View(fresh)[t] = Knows(told, Fresh, fresh, t)
    BY <1>1, ViewIs DEF ViewKnows
  <2> QED BY <2>1 DEF ChangesAddUp, Told, AddUp
<1>3. EachIsNews
  <2> SUFFICES ASSUME NEW i \in 1..fresh, NEW t \in Tag,
                      Queued[size - fresh + i].points[t] # None
               PROVE  Queued[size - fresh + i].points[t] # View(i - 1)[t]
    BY DEF EachIsNews, Has
  <2>1. Fresh[i] = Queued[size - fresh + i].points
    BY DEF Fresh
  <2>2. View(i - 1)[t] = Knows(told, Fresh, i - 1, t)
    BY <1>1, ViewIs DEF ViewKnows
  <2> QED BY <2>1, <2>2 DEF Told, News
<1> QED BY <1>2, <1>3

LEMMA SizeIs == Ring => size \in Nat /\ Capacity \in Nat \ {0} /\ size <= Capacity
  BY QueueAssumption DEF Ring

\* Whatever becomes of the messages before the era's.
LEMMA ToldKept ==
  ASSUME Told, UNCHANGED <<known, told, fresh>>, fresh <= size', size' \in Nat, Fresh' = Fresh
  PROVE  Told'
BY DEF Told, AddUp, News

\* The era has no change in the queue.
LEMMA ToldNothing ==
  ASSUME known' \in Points, told' \in [Tag -> Value \cup {None, Lost}],
         fresh' = 0, size' \in Nat, \A t \in Tag : told'[t] \in {known'[t], Lost}
  PROVE  Told'
<1>1. Fresh' \in [1..fresh' -> Points]
  BY DEF Fresh
<1>2. ASSUME NEW t \in Tag PROVE Knows(told', Fresh', 0, t) = told'[t]
  BY KnowsUntold
<1>3. AddUp'
  BY <1>2 DEF AddUp
<1> QED BY <1>1, <1>3 DEF Told, News

\* A change is what the consumer does not know of a tag, and all it does not know.
LEMMA ChangedIs ==
  ASSUME known \in Points, NEW scan \in Points, NEW t \in Tag
  PROVE  LET change == Changed(known, scan)[t]
         IN  /\ change \in Value \cup {None} /\ change # Lost
             /\ change # None => change # known[t] /\ Over(known, scan)[t] = change
             /\ change = None => Over(known, scan)[t] = known[t]
BY ScanPublisherAssumption DEF Changed, Over, Points

LEMMA ChangedPoints ==
  ASSUME NEW scan \in Points
  PROVE  Changed(known, scan) \in Points /\ (known \in Points => Over(known, scan) \in Points)
BY DEF Changed, Over, Points

\* One change more is on its way.
LEMMA ToldMore ==
  ASSUME Told, NEW scan \in Points, size' \in Nat, fresh' <= size',
         known' = Over(known, scan), told' = told, fresh' = fresh + 1,
         \A i \in 1..fresh : Fresh'[i] = Fresh[i],
         Fresh'[fresh + 1] = Changed(known, scan)
  PROVE  Told'
<1>1. fresh \in Nat
  BY DEF Told
<1>2. ASSUME NEW t \in Tag, NEW n \in 0..fresh
      PROVE  Knows(told', Fresh', n, t) = Knows(told, Fresh, n, t)
  <2>1. n \in Nat /\ \A i \in 1..n : Fresh'[i] = Fresh[i]
    BY <1>1
  <2> QED BY <2>1, KnowsSame
<1>3. ASSUME NEW t \in Tag PROVE Knows(told, Fresh, fresh, t) \in {known[t], Lost}
  BY DEF Told, AddUp
<1>4. AddUp'
  <2> SUFFICES ASSUME NEW t \in Tag
               PROVE  Knows(told', Fresh', fresh', t) \in {known'[t], Lost}
    BY DEF AddUp
  <2>1. Knows(told', Fresh', fresh + 1, t) =
            IF Fresh'[fresh + 1][t] # None THEN Fresh'[fresh + 1][t]
            ELSE Knows(told', Fresh', fresh, t)
    BY <1>1, KnowsMore
  <2>2. fresh \in 0..fresh
    BY <1>1
  <2>3. known \in Points
    BY DEF Told
  <2> QED BY <1>2, <1>3, <2>1, <2>2, <2>3, ChangedIs
<1>5. News'
  <2> SUFFICES ASSUME NEW i \in 1..fresh', NEW t \in Tag, Fresh'[i][t] # None
               PROVE  Fresh'[i][t] # Knows(told', Fresh', i - 1, t)
    BY DEF News
  <2>1. i - 1 \in 0..fresh
    BY <1>1
  <2>2. CASE i <= fresh
    BY <1>1, <1>2, <2>1, <2>2 DEF Told, News
  <2>3. CASE i = fresh + 1
    <3>1. i - 1 = fresh /\ known \in Points
      BY <1>1, <2>3 DEF Told
    <3> QED BY <1>2, <1>3, <2>1, <2>3, <3>1, ChangedIs
  <2> QED BY <1>1, <2>2, <2>3
<1>6. Fresh' \in [1..fresh' -> Points]
  <2>1. \A i \in 1..fresh' : Fresh'[i] \in Points
    BY <1>1, ChangedPoints DEF Told
  <2> QED BY <2>1 DEF Fresh
<1> QED BY <1>1, <1>4, <1>5, <1>6, ChangedPoints DEF Told

\* The era's oldest change is gone.
LEMMA KnowsAfter ==
  ASSUME Told, NEW n \in Nat, n < fresh, NEW t \in Tag, NEW lost \in BOOLEAN,
         \A i \in 1..n : Fresh'[i] = Fresh[i + 1],
         told'[t] = IF Fresh[1][t] = None THEN told[t] ELSE IF lost THEN Lost ELSE Fresh[1][t]
  PROVE  \/ Knows(told', Fresh', n, t) = Knows(told, Fresh, n + 1, t)
         \/ lost /\ Knows(told', Fresh', n, t) = Lost
<1>1. \/ Knows(told', Fresh', n, t) = Knows(told, Fresh, n + 1, t)
      \/ /\ Knows(told', Fresh', n, t) = told'[t]
         /\ Knows(told, Fresh, n + 1, t) = IF Fresh[1][t] # None THEN Fresh[1][t] ELSE told[t]
  <2> DEFINE f == Fresh
             g == Fresh'
             h == told'
  <2>1. OneOn(f, g, n)
    BY DEF OneOn
  <2>2. TellsTheSame(told, f, h, g, n, t)
    <3> HIDE DEF f, g, h
    <3> QED BY ONLY <2>1, KnowsShifted, Zenon
  <2> QED BY <2>2 DEF TellsTheSame
<1>2. ASSUME Knows(told', Fresh', n, t) = told'[t],
             Knows(told, Fresh, n + 1, t) = IF Fresh[1][t] # None THEN Fresh[1][t] ELSE told[t],
             ~lost \/ Fresh[1][t] = None
      PROVE  Knows(told', Fresh', n, t) = Knows(told, Fresh, n + 1, t)
  <2>1. CASE Fresh[1][t] = None
    BY <1>2, <2>1
  <2>2. CASE Fresh[1][t] # None
    BY <1>2, <2>2
  <2> QED BY <2>1, <2>2
<1>3. ASSUME Knows(told', Fresh', n, t) = told'[t], lost, Fresh[1][t] # None
      PROVE  Knows(told', Fresh', n, t) = Lost
  BY <1>3
<1> QED BY <1>1, <1>2, <1>3

LEMMA ToldTaken ==
  ASSUME Told, fresh > 0, size' \in Nat, fresh' <= size',
         known' = known, told' = Over(told, Fresh[1]), fresh' = fresh - 1,
         \A i \in 1..fresh' : Fresh'[i] = Fresh[i + 1]
  PROVE  Told'
<1>1. fresh \in Nat /\ fresh' \in Nat /\ Fresh[1] \in Points
  BY DEF Told
<1>2. told' \in [Tag -> Value \cup {None, Lost}]
  BY <1>1 DEF Told, Over, Points
<1>3. ASSUME NEW t \in Tag, NEW n \in 0..fresh'
      PROVE  Knows(told', Fresh', n, t) = Knows(told, Fresh, n + 1, t)
  <2>1. told'[t] = IF Fresh[1][t] = None THEN told[t] ELSE IF FALSE THEN Lost ELSE Fresh[1][t]
    BY DEF Over
  <2>2. n \in Nat /\ n < fresh /\ \A i \in 1..n : Fresh'[i] = Fresh[i + 1]
    BY <1>1
  <2> QED BY <2>1, <2>2, KnowsAfter
<1>4. AddUp'
  <2> SUFFICES ASSUME NEW t \in Tag
               PROVE  Knows(told', Fresh', fresh', t) \in {known'[t], Lost}
    BY DEF AddUp
  <2>1. fresh' \in 0..fresh' /\ fresh' + 1 = fresh
    BY <1>1
  <2> QED BY <1>3, <2>1 DEF Told, AddUp
<1>5. News'
  <2> SUFFICES ASSUME NEW i \in 1..fresh', NEW t \in Tag, Fresh'[i][t] # None
               PROVE  Fresh'[i][t] # Knows(told', Fresh', i - 1, t)
    BY DEF News
  <2>1. i - 1 \in 0..fresh' /\ (i - 1) + 1 = i /\ i + 1 \in 1..fresh /\ (i + 1) - 1 = i
    BY <1>1
  <2>2. Fresh'[i] = Fresh[i + 1] /\ Fresh[i + 1][t] # None
    OBVIOUS
  <2>3. Fresh[i + 1][t] # Knows(told, Fresh, i, t)
    BY <2>1, <2>2 DEF Told, News
  <2> QED BY <1>3, <2>1, <2>2, <2>3
<1>6. Fresh' \in [1..fresh' -> Points]
  <2>1. \A i \in 1..fresh' : Fresh'[i] \in Points
    BY <1>1 DEF Told
  <2> QED BY <2>1 DEF Fresh
<1> QED BY <1>1, <1>2, <1>4, <1>5, <1>6 DEF Told

\* A change overwrites the era's oldest, in a ring full of them.
LEMMA ToldOver ==
  ASSUME Told, NEW scan \in Points, fresh > 0, size' \in Nat, fresh' <= size',
         known' = Over(known, scan), fresh' = fresh,
         told' = [t \in Tag |-> IF t \in Has(Fresh[1]) THEN Lost ELSE told[t]],
         \A i \in 1 .. fresh - 1 : Fresh'[i] = Fresh[i + 1],
         Fresh'[fresh] = Changed(known, scan)
  PROVE  Told'
<1>1. fresh \in Nat /\ Fresh[1] \in Points /\ known \in Points
  BY DEF Told
<1>2. told' \in [Tag -> Value \cup {None, Lost}]
  BY DEF Told
<1>3. ASSUME NEW t \in Tag, NEW n \in 0 .. fresh - 1
      PROVE  Knows(told', Fresh', n, t) \in {Knows(told, Fresh, n + 1, t), Lost}
  <2>1. told'[t] = IF Fresh[1][t] = None THEN told[t] ELSE IF TRUE THEN Lost ELSE Fresh[1][t]
    BY DEF Has
  <2>2. n \in Nat /\ n < fresh /\ \A i \in 1..n : Fresh'[i] = Fresh[i + 1]
    BY <1>1
  <2> QED BY <2>1, <2>2, KnowsAfter
<1>4. ASSUME NEW t \in Tag
      PROVE  Knows(told', Fresh', fresh - 1, t) \in {known[t], Lost}
  <2>1. fresh - 1 \in 0 .. fresh - 1 /\ (fresh - 1) + 1 = fresh
    BY <1>1
  <2>2. Knows(told, Fresh, fresh, t) \in {known[t], Lost}
    BY DEF Told, AddUp
  <2> QED BY <1>3, <2>1, <2>2
<1>5. AddUp'
  <2> SUFFICES ASSUME NEW t \in Tag
               PROVE  Knows(told', Fresh', fresh', t) \in {known'[t], Lost}
    BY DEF AddUp
  <2>1. fresh - 1 \in Nat /\ (fresh - 1) + 1 = fresh
    BY <1>1
  <2>2. Knows(told', Fresh', fresh, t) =
            IF Fresh'[fresh][t] # None THEN Fresh'[fresh][t]
            ELSE Knows(told', Fresh', fresh - 1, t)
    <3>1. Knows(told', Fresh', (fresh - 1) + 1, t) =
              IF Fresh'[(fresh - 1) + 1][t] # None THEN Fresh'[(fresh - 1) + 1][t]
              ELSE Knows(told', Fresh', fresh - 1, t)
      BY <2>1, KnowsMore
    <3> QED BY <2>1, <3>1
  <2> QED BY <1>1, <1>4, <2>2, ChangedIs
<1>6. News'
  <2> SUFFICES ASSUME NEW i \in 1..fresh', NEW t \in Tag, Fresh'[i][t] # None
               PROVE  Fresh'[i][t] # Knows(told', Fresh', i - 1, t)
    BY DEF News
  <2>1. i - 1 \in 0 .. fresh - 1 /\ (i - 1) + 1 = i
    BY <1>1
  <2>2. CASE i < fresh
    <3>1. i + 1 \in 1..fresh /\ (i + 1) - 1 = i /\ Fresh'[i] = Fresh[i + 1]
      BY <1>1, <2>2
    <3>2. Fresh[i + 1][t] # Knows(told, Fresh, i, t)
      BY <3>1 DEF Told, News
    <3>3. Fresh[i + 1][t] # Lost
      BY <3>1, ScanPublisherAssumption DEF Told, Points
    <3> QED BY <1>3, <2>1, <3>1, <3>2, <3>3
  <2>3. CASE i = fresh
    BY <1>1, <1>4, <2>3, ChangedIs
  <2> QED BY <1>1, <2>2, <2>3
<1>7. Fresh' \in [1..fresh' -> Points]
  <2>1. \A i \in 1..fresh' : Fresh'[i] \in Points
    <3> SUFFICES ASSUME NEW i \in 1..fresh' PROVE Fresh'[i] \in Points
      OBVIOUS
    <3>1. CASE i = fresh
      BY <3>1, ChangedPoints
    <3>2. CASE i # fresh
      BY <1>1, <3>2 DEF Told
    <3> QED BY <3>1, <3>2
  <2> QED BY <2>1 DEF Fresh
<1> QED BY <1>1, <1>2, <1>5, <1>6, <1>7, ChangedPoints DEF Told

----------------------------------------------------------------------------
(* The invariant, and the steps that keep it.                               *)

EraInv == Typed /\ Ring /\ Told /\ Linked

LEMMA OneMore ==
  ASSUME NEW s \in Nat, NEW f \in Nat, NEW g \in Nat, g = f + 1, g <= s
  PROVE  g \in 1..g /\ s - g + g = s
OBVIOUS

LEMMA AllBefore ==
  ASSUME NEW s \in Nat, NEW f \in Nat, NEW g \in Nat, g = f + 1, g <= s, NEW i \in 1..f
  PROVE  i \in 1..g /\ s - g + i \in 1 .. s - 1
OBVIOUS

\* A change, to a consumer that has its baseline.
LEMMA AnnounceOK ==
  ASSUME Ring, Told, NEW scan \in Points, NEW m \in Message,
         m.points = Changed(known, scan), Announce(m, scan)
  PROVE  Told'
<1>1. /\ Ring' /\ size' = IF size = Capacity THEN size ELSE size + 1
      /\ Queued'[size'] = m
      /\ \A i \in 1 .. size' - 1 : Queued'[i] = IF size = Capacity THEN Queued[i + 1] ELSE Queued[i]
  BY PushedQueue DEF Announce
<1>2. size \in Nat /\ Capacity \in Nat \ {0} /\ size <= Capacity /\ fresh \in 0..size
  BY SizeIs DEF Told
<1>3. known' = Over(known, scan)
  BY DEF Announce
<1>4. Fresh' = [i \in 1..fresh' |-> Queued'[size' - fresh' + i].points]
  BY DEF Fresh
<1>5. \A i \in 1..fresh : Fresh[i] = Queued[size - fresh + i].points
  BY DEF Fresh
<1>6. CASE fresh < Capacity
  <2>1. fresh' = fresh + 1 /\ told' = told
    BY <1>2, <1>6 DEF Announce
  <2>2. fresh' <= size' /\ size' \in Nat /\ fresh' \in Nat /\ fresh \in Nat
    BY <1>1, <1>2, <1>6, <2>1
  <2>3. Fresh'[fresh + 1] = Changed(known, scan)
    <3>1. fresh' \in 1..fresh' /\ size' - fresh' + fresh' = size'
      BY <2>1, <2>2, OneMore
    <3> QED BY <1>1, <1>4, <2>1, <3>1
  <2>4. ASSUME NEW i \in 1..fresh PROVE Fresh'[i] = Fresh[i]
    <3>1. i \in 1..fresh' /\ size' - fresh' + i \in 1 .. size' - 1
      BY <2>1, <2>2, AllBefore
    <3>2. Fresh'[i] = Queued'[size' - fresh' + i].points
      BY <1>4, <3>1
    <3>3. CASE size = Capacity
      <4>1. (size' - fresh' + i) + 1 = size - fresh + i
        BY <1>1, <1>2, <2>1, <3>3
      <4>2. Queued'[size' - fresh' + i] = Queued[(size' - fresh' + i) + 1]
        BY <1>1, <3>1, <3>3
      <4> QED BY <1>5, <3>2, <4>1, <4>2
    <3>4. CASE size # Capacity
      <4>1. size' - fresh' + i = size - fresh + i
        BY <1>1, <1>2, <2>1, <3>4
      <4>2. Queued'[size' - fresh' + i] = Queued[size' - fresh' + i]
        BY <1>1, <3>1, <3>4
      <4> QED BY <1>5, <3>2, <4>1, <4>2
    <3> QED BY <3>3, <3>4
  <2> QED BY <1>2, <1>3, <2>1, <2>2, <2>3, <2>4, ToldMore
<1>7. CASE fresh = Capacity
  <2>1. size = fresh /\ fresh > 0 /\ size' = size
    BY <1>1, <1>2, <1>7
  <2>2. fresh' = fresh
    BY <1>2, <1>7, <2>1 DEF Announce
  <2>3. told' = [t \in Tag |-> IF t \in Has(Fresh[1]) THEN Lost ELSE told[t]]
    <3>1. Fresh[1] = Queued[1].points
      <4>1. 1 \in 1..fresh /\ size - fresh + 1 = 1
        BY <1>2, <2>1
      <4> QED BY <1>5, <4>1
    <3> QED BY <1>7, <3>1 DEF Announce
  <2>4. Fresh'[fresh] = Changed(known, scan)
    <3>1. fresh \in 1..fresh' /\ size' - fresh' + fresh = size'
      BY <1>2, <2>1, <2>2
    <3> QED BY <1>1, <1>4, <3>1
  <2>5. ASSUME NEW i \in 1 .. fresh - 1 PROVE Fresh'[i] = Fresh[i + 1]
    <3>1. /\ i \in 1..fresh' /\ size' - fresh' + i = i /\ i \in 1 .. size' - 1
          /\ i + 1 \in 1..fresh /\ size - fresh + (i + 1) = i + 1
      BY <1>2, <2>1, <2>2
    <3> QED BY <1>1, <1>4, <1>5, <1>7, <2>1, <3>1
  <2> QED BY <1>2, <1>3, <2>1, <2>2, <2>3, <2>4, <2>5, ToldOver
<1> QED BY <1>2, <1>6, <1>7

LEMMA EraStarts == PublisherInit => EraInv
<1> SUFFICES ASSUME PublisherInit PROVE EraInv
  OBVIOUS
<1>1. Typed /\ Ring
  BY TypedInit, RingInit DEF PublisherInit
<1>2. Told
  <2>1. fresh = 0 /\ size = 0 /\ known \in Points /\ known = told
    BY NoValuesPoints DEF PublisherInit, QueueInit
  <2>2. told \in [Tag -> Value \cup {None, Lost}]
    BY <2>1 DEF Points
  <2>3. \A t \in Tag : Knows(told, Fresh, 0, t) = told[t]
    BY KnowsUntold
  <2>4. AddUp
    BY <2>1, <2>3 DEF AddUp
  <2>5. Fresh \in [1..fresh -> Points] /\ News
    BY <2>1 DEF Fresh, News
  <2> QED BY <2>1, <2>2, <2>4, <2>5 DEF Told
<1>3. Linked
  BY DEF PublisherInit, Linked, DeviceState, NewState
<1> QED BY <1>1, <1>2, <1>3 DEF EraInv

\* A reset, after which nobody knows anything.
LEMMA NewEraOK ==
  ASSUME NewEra, size' \in Nat
  PROVE  Told' /\ known' = NoValues /\ fresh' = 0
<1>1. known' \in Points /\ known' = told' /\ fresh' = 0
  BY NoValuesPoints DEF NewEra
<1>2. told' \in [Tag -> Value \cup {None, Lost}]
  BY <1>1 DEF Points
<1> QED BY <1>1, <1>2, ToldNothing DEF NewEra

\* Of the queue, only the messages count.
LEMMA SameQueue ==
  ASSUME Ring, Told, UNCHANGED <<ring, known, told, fresh>>
  PROVE  Told'
<1>1. Fresh' = Fresh
  BY DEF ring, Fresh, Queued
<1> QED BY <1>1, SizeIs, ToldKept DEF ring, Told

LEMMA SubmitChangesKeeps ==
  ASSUME EraInv, NEW scan \in Points, policy.on, policy.mode = "change",
         UNCHANGED policy, SubmitChanges(scan)
  PROVE  Told' /\ Linked'
<1> DEFINE changes == Changed(known, scan)
<1>1. DeviceState.last = known /\ DeviceState \in DeviceStates
  BY DeviceStateIs DEF EraInv, Linked
<1>2. known \in Points /\ Over(known, scan) \in Points /\ changes \in Points
  BY ChangedPoints DEF EraInv, Told
<1>3. state' = [DeviceState EXCEPT !.last = Over(known, scan)]
  BY <1>1 DEF SubmitChanges, Remember
<1>4. state'.last = Over(known, scan) /\ state' # None
  BY <1>1, <1>2, <1>3, NoneAssumption DEF DeviceStates
<1>5. DeviceState'.last = Over(known, scan)
  BY <1>4 DEF DeviceState
<1>6. Has(known) \subseteq Has(Over(known, scan))
  BY <1>2 DEF Has, Over
<1>7. CASE Has(known) = {} /\ Baseline(scan)
  <2>1. fresh = 0 /\ fresh' = 0 /\ size' = size
    BY <1>7, SizeIs DEF EraInv, Told, Linked, Baseline, queueVars, ring
  <2>2. known' = Over(known, scan) /\ told' = Over(told, scan)
    BY <1>7 DEF Baseline
  <2>3. told' \in [Tag -> Value \cup {None, Lost}]
    BY <2>2 DEF EraInv, Told, Over, Points
  <2>4. ASSUME NEW t \in Tag PROVE told'[t] \in {known'[t], Lost}
    <3>1. told[t] \in {known[t], Lost}
      <4>1. Knows(told, Fresh, 0, t) = told[t]
        BY KnowsUntold
      <4> QED BY <2>1, <4>1 DEF EraInv, Told, AddUp
    <3> QED BY <2>2, <3>1 DEF Over
  <2>5. Told'
    BY <1>2, <2>1, <2>2, <2>3, <2>4, SizeIs, ToldNothing DEF EraInv
  <2> QED BY <1>5, <2>1, <2>2, <2>5 DEF Linked
<1>8. CASE Has(known) # {} /\ Has(changes) # {} /\ Announce(Outgoing(changes), scan)
  <2>1. Outgoing(changes) \in Message
    BY <1>2, <1>8, OutgoingIs DEF EraInv
  <2>2. Told' /\ known' = Over(known, scan)
    BY <1>8, <2>1, AnnounceOK DEF EraInv, Outgoing, Announce
  <2> QED BY <1>5, <1>6, <1>8, <2>2 DEF Linked
<1>9. CASE Has(changes) = {} /\ UNCHANGED <<queueVars, era>>
  <2>1. Over(known, scan) = known
    <3>1. \A t \in Tag : changes[t] = None
      BY <1>9 DEF Has
    <3>2. \A t \in Tag : Over(known, scan)[t] = known[t]
      BY <1>2, <3>1, ChangedIs
    <3> QED BY <1>2, <3>2 DEF Points
  <2>2. Told'
    BY <1>9, SameQueue DEF EraInv, queueVars, era
  <2> QED BY <1>5, <1>9, <2>1, <2>2 DEF EraInv, Linked, era
<1> QED BY <1>1, <1>7, <1>8, <1>9 DEF SubmitChanges

LEMMA SubmitFullKeeps ==
  ASSUME EraInv, policy.on, policy.mode = "full", UNCHANGED policy,
         udm' \in Points, SubmitFull
  PROVE  Told' /\ Linked'
<1>1. DeviceState.last = known /\ fresh = 0 /\ DeviceState \in DeviceStates
  BY DeviceStateIs DEF EraInv, Linked
<1>2. CASE Has(udm') # {} /\ Push(Outgoing(udm')) /\ state' = [DeviceState EXCEPT !.age = 0]
           /\ UNCHANGED <<known, told, fresh>>
  <2>1. size' \in Nat
    <3>1. Outgoing(udm') \in Message
      BY <1>2, OutgoingIs DEF EraInv
    <3>2. Ring'
      BY <1>2, <3>1, PushedQueue DEF EraInv
    <3> QED BY <3>2, QueueAssumption DEF Ring
  <2>2. ASSUME NEW t \in Tag PROVE told'[t] \in {known'[t], Lost}
    <3>1. Knows(told, Fresh, 0, t) = told[t]
      BY KnowsUntold
    <3> QED BY <1>1, <1>2, <3>1 DEF EraInv, Told, AddUp
  <2>3. Told'
    BY <1>1, <1>2, <2>1, <2>2, ToldNothing DEF EraInv, Told
  <2>4. DeviceState'.last = known'
    <3>1. state'.last = known /\ state' # None
      BY <1>1, <1>2, NoneAssumption DEF DeviceStates
    <3> QED BY <1>2, <3>1 DEF DeviceState
  <2> QED BY <1>1, <1>2, <2>3, <2>4 DEF Linked
<1>3. CASE state' = DeviceState /\ UNCHANGED <<queueVars, era>>
  <2>1. Told'
    BY <1>3, SameQueue DEF EraInv, queueVars, era
  <2>2. DeviceState'.last = known'
    <3>1. state'.last = known /\ state' # None
      BY <1>1, <1>3, NoneAssumption DEF DeviceStates
    <3> QED BY <1>3, <3>1 DEF DeviceState, era
  <2> QED BY <1>1, <1>3, <2>1, <2>2 DEF Linked, era
<1> QED BY <1>2, <1>3 DEF SubmitFull

LEMMA PublishKeeps ==
  ASSUME EraInv, NEW scan \in Points, Publish(scan)
  PROVE  Told' /\ Linked'
<1>1. udm' \in Points /\ policy' = policy
  BY OverPoints DEF Publish, Scans, EraInv, Typed
<1>2. policy.mode \in {"change", "full"}
  BY ScanPublisherAssumption DEF EraInv, Typed, Mode
<1>3. CASE policy.on /\ policy.mode = "change" /\ SubmitChanges(scan)
  BY <1>1, <1>3, SubmitChangesKeeps
<1>4. CASE policy.on /\ policy.mode = "full" /\ SubmitFull
  BY <1>1, <1>4, SubmitFullKeeps
<1>5. CASE UNCHANGED <<queueVars, state, era>>
  <2>1. Told'
    BY <1>5, SameQueue DEF EraInv, queueVars, era
  <2> QED BY <1>1, <1>5, <2>1 DEF EraInv, Linked, DeviceState, NewState, era
<1> QED BY <1>1, <1>2, <1>3, <1>4, <1>5 DEF Publish

LEMMA ApplyDeviceConfigKeeps ==
  ASSUME EraInv, NEW p \in Policies, ApplyDeviceConfig(p)
  PROVE  Told' /\ Linked'
<1>1. p.on \in BOOLEAN /\ policy.on \in BOOLEAN
  BY ScanPublisherAssumption DEF EraInv, Typed
<1>2. CASE UNCHANGED era
  <2>1. Told'
    BY <1>2, SameQueue DEF EraInv, ApplyDeviceConfig, queueVars, era
  <2>2. CASE ~ p.on
    BY <1>2, <2>1, <2>2 DEF EraInv, Linked, ApplyDeviceConfig, era
  <2>3. CASE p.on /\ Compatible(p)
    BY <1>2, <2>1, <2>3 DEF EraInv, Linked, ApplyDeviceConfig, Compatible, DeviceState, NewState,
       era
  <2>4. CASE p.on /\ ~ Compatible(p) /\ NewEra
    BY <2>1, <2>4 DEF Linked, ApplyDeviceConfig, NewEra, DeviceState, NewState
  <2> QED BY <1>1, <2>2, <2>3, <2>4 DEF ApplyDeviceConfig, Compatible
<1>3. CASE p.on /\ ~ Compatible(p) /\ NewEra
  <2>1. size' \in Nat
    BY SizeIs DEF EraInv, ApplyDeviceConfig, queueVars, ring
  <2> QED BY <1>3, <2>1, NewEraOK DEF Linked, ApplyDeviceConfig, DeviceState, NewState
<1> QED BY <1>1, <1>2, <1>3 DEF ApplyDeviceConfig, Compatible

LEMMA RunnerEndsKeeps == EraInv /\ RunnerEnds => Told' /\ Linked'
<1> SUFFICES ASSUME EraInv, RunnerEnds PROVE Told' /\ Linked'
  OBVIOUS
<1>1. size' \in Nat
  BY SizeIs DEF EraInv, RunnerEnds, queueVars, ring
<1> QED BY <1>1, NewEraOK DEF RunnerEnds, ResetDevice, Linked, DeviceState, NewState

LEMMA WorkerTakesKeeps == EraInv /\ WorkerTakes => Told' /\ Linked'
<1> SUFFICES ASSUME EraInv, WorkerTakes PROVE Told' /\ Linked'
  OBVIOUS
<1>1. size \in Nat \ {0} /\ size' = size - 1 /\ \A i \in 1..size' : Queued'[i] = Queued[i + 1]
  BY TakenQueue DEF EraInv, WorkerTakes
<1>2. fresh \in 0..size
  BY DEF EraInv, Told
<1>3. Fresh' = [i \in 1..fresh' |-> Queued'[size' - fresh' + i].points]
  BY DEF Fresh
<1>4. \A i \in 1..fresh : Fresh[i] = Queued[size - fresh + i].points
  BY DEF Fresh
<1>5. CASE fresh = size
  <2>1. fresh' = fresh - 1 /\ fresh > 0 /\ size' \in Nat /\ fresh' = size'
    BY <1>1, <1>2, <1>5 DEF WorkerTakes
  <2>2. told' = Over(told, Fresh[1])
    <3>1. 1 \in 1..fresh /\ size - fresh + 1 = 1
      BY <1>1, <1>5
    <3> QED BY <1>4, <1>5, <3>1 DEF WorkerTakes
  <2>3. ASSUME NEW i \in 1..fresh' PROVE Fresh'[i] = Fresh[i + 1]
    <3>1. /\ i + 1 \in 1..fresh /\ size - fresh + (i + 1) = i + 1
          /\ i \in 1..size' /\ size' - fresh' + i = i
      BY <1>1, <1>5, <2>1
    <3> QED BY <1>1, <1>3, <1>4, <3>1
  <2>4. Told'
    BY <1>2, <2>1, <2>2, <2>3, ToldTaken DEF EraInv, WorkerTakes
  <2> QED
    BY <2>1, <2>4 DEF EraInv, Linked, WorkerTakes, DeviceState, NewState, coordVars
<1>6. CASE fresh # size
  <2>1. UNCHANGED <<known, told, fresh>> /\ fresh \in Nat /\ fresh <= size' /\ size' \in Nat
    BY <1>1, <1>2, <1>6 DEF WorkerTakes
  <2>2. Fresh' = Fresh
    <3>1. ASSUME NEW i \in 1..fresh
          PROVE  Queued'[size' - fresh' + i] = Queued[size - fresh + i]
      <4>1. size' - fresh' + i \in 1..size' /\ (size' - fresh' + i) + 1 = size - fresh + i
        BY <1>1, <2>1
      <4> QED BY <1>1, <4>1
    <3> QED BY <1>3, <2>1, <3>1 DEF Fresh
  <2>3. Told'
    BY <2>1, <2>2, ToldKept DEF EraInv
  <2> QED
    BY <2>1, <2>3 DEF EraInv, Linked, WorkerTakes, DeviceState, NewState, coordVars
<1> QED BY <1>5, <1>6

\* A discarded message of the era loses what it told.
LEMMA DiscardKeeps == EraInv /\ Discard => Told' /\ Linked'
<1> SUFFICES ASSUME EraInv, Discard PROVE Told' /\ Linked'
  OBVIOUS
<1>1. size' = 0 /\ fresh' = 0 /\ known' = known
  BY DEF Discard, DiscardAll
<1>2. size \in Nat /\ fresh \in 0..size
  BY SizeIs DEF EraInv, Told
<1>3. told' \in [Tag -> Value \cup {None, Lost}]
  BY DEF Discard, EraInv, Told
<1>4. ASSUME NEW t \in Tag PROVE told'[t] \in {known'[t], Lost}
  <2>1. CASE \E i \in size - fresh + 1 .. size : t \in Has(Queued[i].points)
    BY <2>1 DEF Discard
  <2>2. CASE ~ \E i \in size - fresh + 1 .. size : t \in Has(Queued[i].points)
    <3>1. ASSUME NEW i \in 1..fresh PROVE Fresh[i][t] = None
      <4>1. size - fresh + i \in size - fresh + 1 .. size
        BY <1>2
      <4> QED BY <2>2, <4>1 DEF Fresh, Has
    <3>2. NobodyTells(Fresh, fresh, t)
      BY <3>1 DEF NobodyTells
    <3>3. Knows(told, Fresh, fresh, t) = told[t]
      BY <1>2, <3>2, KnowsBase
    <3>4. told'[t] = told[t]
      BY <2>2 DEF Discard
    <3> QED BY <1>1, <3>3, <3>4 DEF EraInv, Told, AddUp
  <2> QED BY <2>1, <2>2
<1>5. Told'
  BY <1>1, <1>3, <1>4, ToldNothing DEF EraInv, Told
<1> QED BY <1>1, <1>5 DEF EraInv, Linked, Discard, DeviceState, NewState

LEMMA EraStep == EraInv /\ [PublisherNext]_pubVars => EraInv'
<1> SUFFICES ASSUME EraInv, [PublisherNext]_pubVars PROVE EraInv'
  OBVIOUS
<1>1. Typed' /\ Ring'
  BY PublisherStep, RingStep DEF EraInv
<1> SUFFICES Told' /\ Linked'
  BY <1>1 DEF EraInv
<1> USE DEF EraInv
<1>2. CASE RunnerStarts \/ EndAdmission \/ Admit \/ WorkerWaits \/ Close
  <2>1. UNCHANGED <<ring, policy, state, known, told, fresh>>
    BY <1>2 DEF RunnerStarts, EndAdmission, Admit, WorkerWaits, WaitStep, FindEmpty, Select, Woken,
       Close, StopAccepting, queueVars, coordVars, era
  <2> QED BY <2>1, SameQueue DEF Linked, DeviceState, NewState
<1>3. CASE RunnerEnds
  BY <1>3, RunnerEndsKeeps
<1>4. ASSUME NEW scan \in Points, ScanFails(scan) PROVE Told' /\ Linked'
  BY <1>4, SameQueue DEF ScanFails, queueVars, coordVars, era, Linked, DeviceState, NewState
<1>5. ASSUME NEW scan \in Points, Publish(scan) PROVE Told' /\ Linked'
  BY <1>5, PublishKeeps
<1>6. ASSUME NEW p \in Policies, ApplyDeviceConfig(p) PROVE Told' /\ Linked'
  BY <1>6, ApplyDeviceConfigKeeps
<1>7. CASE Discard
  BY <1>7, DiscardKeeps
<1>8. CASE WorkerTakes
  BY <1>8, WorkerTakesKeeps
<1>9. CASE Tick
  <2>1. state # None => state'.last = state.last /\ state' # None
    BY <1>9, ScanPublisherAssumption, NoneAssumption DEF Tick, Older, Typed, DeviceStates
  <2>2. Told'
    BY <1>9, SameQueue DEF Tick, queueVars
  <2> QED BY <1>9, <2>1, <2>2 DEF Tick, Linked, DeviceState, NewState
<1>10. CASE UNCHANGED pubVars
  BY <1>10, SameQueue DEF pubVars, queueVars, coordVars, era, Linked, DeviceState, NewState
<1> QED
  BY <1>2, <1>3, <1>4, <1>5, <1>6, <1>7, <1>8, <1>9, <1>10 DEF PublisherNext

\* Whatever is dropped, discarded, read in part or reconfigured, the changes sent to
\* the consumer of a device add up to the values of its completed scans, but for the
\* tags whose latest message was lost: ChangesAddUp.
THEOREM ChangesAreComplete == PublisherSpec => []ChangesAddUp
<1>1. EraInv => ChangesAddUp
  BY ToldIs DEF EraInv
<1> QED BY <1>1, EraStarts, EraStep, PTL DEF PublisherSpec

\* And none of them tells the consumer what it knew already: EachIsNews.
THEOREM ChangesAreNews == PublisherSpec => []EachIsNews
<1>1. EraInv => EachIsNews
  BY ToldIs DEF EraInv
<1> QED BY <1>1, EraStarts, EraStep, PTL DEF PublisherSpec

----------------------------------------------------------------------------
(* Full messages.                                                           *)

\* The age the coordinator keeps is the time since.
Aged == Typed /\ (policy.on => DeviceState.age = since)

LEMMA AgedInit == PublisherInit => Aged
  BY TypedInit DEF PublisherInit, Aged, DeviceState, NewState

LEMMA StateAge ==
  ASSUME Typed
  PROVE  /\ state # None => DeviceState = state
         /\ \A points \in Points :
                [DeviceState EXCEPT !.last = points] # None
                /\ [DeviceState EXCEPT !.last = points].age = DeviceState.age
         /\ [DeviceState EXCEPT !.age = 0] # None /\ [DeviceState EXCEPT !.age = 0].age = 0
         /\ DeviceState # None
<1>1. DeviceState \in DeviceStates
  BY DeviceStateIs
<1>2. state # None => DeviceState = state
  BY DEF DeviceState
<1>3. \A points \in Points : [DeviceState EXCEPT !.last = points] \in DeviceStates
  BY <1>1 DEF DeviceStates
<1>4. [DeviceState EXCEPT !.age = 0] \in DeviceStates
  BY <1>1 DEF DeviceStates
<1> QED BY <1>1, <1>2, <1>3, <1>4, NoneAssumption DEF DeviceStates

LEMMA PublishAged ==
  ASSUME Aged, NEW scan \in Points, Publish(scan), policy.on
  PROVE  DeviceState'.age = since'
<1>1. DeviceState.age = since
  BY DEF Aged
<1>2. CASE SubmitChanges(scan)
  <2>1. Remember(DeviceState.last, scan) \in Points
    BY DeviceStateIs, OverPoints DEF Aged, DeviceStates, Remember
  <2>2. state' = [DeviceState EXCEPT !.last = Remember(DeviceState.last, scan)] /\ since' = since
    BY <1>2 DEF SubmitChanges, Baseline, Announce, era
  <2> QED BY <1>1, <2>1, <2>2, StateAge DEF Aged, DeviceState
<1>3. CASE SubmitFull
  <2>1. CASE state' = [DeviceState EXCEPT !.age = 0] /\ since' = 0
    BY <2>1, StateAge DEF Aged, DeviceState
  <2>2. CASE state' = DeviceState /\ since' = since
    BY <1>1, <2>2, StateAge DEF Aged, DeviceState
  <2> QED BY <1>3, <2>1, <2>2 DEF SubmitFull, era
<1>4. CASE UNCHANGED <<state, era>>
  BY <1>1, <1>4 DEF era, DeviceState, NewState
<1> QED BY <1>2, <1>3, <1>4 DEF Publish

LEMMA AgedStep == Aged /\ [PublisherNext]_pubVars => Aged'
<1> SUFFICES ASSUME Aged, [PublisherNext]_pubVars, policy'.on PROVE DeviceState'.age = since'
  BY PublisherStep DEF Aged
<1>1. CASE UNCHANGED <<policy, state, since>>
  BY <1>1 DEF Aged, DeviceState, NewState
<1>2. CASE RunnerEnds
  BY <1>2 DEF RunnerEnds, ResetDevice, NewEra, DeviceState, NewState
<1>3. ASSUME NEW scan \in Points, Publish(scan) PROVE DeviceState'.age = since'
  BY <1>3, PublishAged DEF Publish
<1>4. ASSUME NEW p \in Policies, ApplyDeviceConfig(p) PROVE DeviceState'.age = since'
  <2>1. p.on
    BY <1>4 DEF ApplyDeviceConfig
  <2>2. CASE Compatible(p)
    BY <1>4, <2>1, <2>2 DEF Aged, ApplyDeviceConfig, Compatible, DeviceState, NewState, era
  <2>3. CASE ~ Compatible(p)
    BY <1>4, <2>1, <2>3 DEF ApplyDeviceConfig, Compatible, NewEra, DeviceState, NewState
  <2> QED BY <2>2, <2>3
<1>5. CASE Tick
  <2>1. since = DeviceState.age /\ policy.on
    BY <1>5 DEF Aged, Tick
  <2>2. CASE state = None
    BY <1>5, <2>1, <2>2, ScanPublisherAssumption DEF Tick, Older, DeviceState, NewState
  <2>3. CASE state # None
    <3>1. state \in DeviceStates /\ state.age = since
      BY <2>1, <2>3, StateAge DEF Aged, Typed
    <3>2. state' = [state EXCEPT !.age = Older(@)] /\ since' = Older(since)
      BY <1>5, <2>3 DEF Tick
    <3>3. state' \in DeviceStates /\ state'.age = Older(since)
      BY <3>1, <3>2, ScanPublisherAssumption DEF Older, DeviceStates
    <3> QED BY <3>2, <3>3, NoneAssumption DEF DeviceState
  <2> QED BY <2>2, <2>3
<1>6. CASE RunnerStarts \/ EndAdmission \/ Admit \/ Discard \/ Close \/ WorkerTakes \/ WorkerWaits
  <2>1. UNCHANGED <<policy, state, since>>
    BY <1>6 DEF RunnerStarts, EndAdmission, Admit, Discard, Close, WorkerTakes, WorkerWaits,
       coordVars, era
  <2> QED BY <1>1, <2>1
<1>7. CASE (\E scan \in Points : ScanFails(scan)) \/ UNCHANGED pubVars
  <2>1. UNCHANGED <<policy, state, since>>
    BY <1>7 DEF ScanFails, pubVars, coordVars, era
  <2> QED BY <1>1, <2>1
<1> QED
  BY <1>2, <1>3, <1>4, <1>5, <1>6, <1>7 DEF PublisherNext

\* However its policy is changed and its runner replaced, a completed scan leaves no
\* device in full mode without a full message of its interval: FullOnTime.
THEOREM FullsAreOnTime == PublisherSpec => FullOnTime
<1> DEFINE OnTime ==
             \A scan \in Points :
               Publish(scan) /\ admit /\ policy.on /\ policy.mode = "full" /\ Has(udm') # {}
               => since' < policy.every
<1>1. Aged => OnTime
  <2> SUFFICES ASSUME Aged, NEW scan \in Points, Publish(scan), admit, policy.on,
                      policy.mode = "full", Has(udm') # {}
               PROVE  since' < policy.every
    OBVIOUS
  <2>1. SubmitFull
    BY DEF Publish
  <2>2. policy.every \in Nat \ {0} /\ DeviceState.age \in Nat /\ DeviceState.age = since
    BY ScanPublisherAssumption, DeviceStateIs DEF Aged, Typed, DeviceStates
  <2>3. CASE IsDue
    BY <2>1, <2>2, <2>3 DEF SubmitFull
  <2>4. CASE ~ IsDue
    BY <2>1, <2>2, <2>4 DEF SubmitFull, IsDue, era
  <2> QED BY <2>3, <2>4
<1> QED BY <1>1, AgedInit, AgedStep, PTL DEF PublisherSpec, FullOnTime

==============================================================================
