---------------------------- MODULE ScanPublisher ----------------------------
(***************************************************************************)
(* From the scans of one device to the Kafka worker: publishSnapshot of the  *)
(* runner (internal/collector/runtime.go) hands each completed scan to the   *)
(* coordinator (internal/kafkapub/coordinator.go), whose policy for the      *)
(* device makes of it the messages of MessageQueue.                          *)
(*                                                                          *)
(* c.mu is held through each operation of the coordinator but the discarding *)
(* of SetEnabled, so each is one step.  Time is counted in ticks, as far as  *)
(* LongAgo.  A scan's values are any of those Collector may give; the        *)
(* requests that set a policy, the manager that turns Kafka on and off, and  *)
(* the runner's lease are other modules' and come at any time.               *)
(***************************************************************************)
EXTENDS MessageQueue

CONSTANTS
    Tag,       \* the device's points
    Value,     \* their values
    None,      \* no value; no state
    Policies,  \* device policies: whether on, topic, mode and interval
    LongAgo,   \* ticks after which every full message is due
    Lost       \* what a consumer knows of a tag whose latest message was lost

Mode == {"change", "full"}

ASSUME ScanPublisherAssumption ==
    /\ None \notin Value /\ Lost \notin Value \cup {None}
    /\ LongAgo \in Nat
    /\ \A p \in Policies : p.on \in BOOLEAN /\ p.mode \in Mode /\ p.every \in 1..LongAgo

VARIABLES
    running,     \* whether the device has a runner
    udm,         \* the runner's UDM: tag -> value
    policy,      \* c.configs[device]
    state,       \* c.states[device]: its last values and the age of its full message
    admit        \* c.enabled

\* Of the device's current era, which the documented resets end, and its consumer.
VARIABLES
    known,  \* tag -> its value in the last completed scan that had one
    told,   \* tag -> its value in the messages taken from the queue, or Lost
    fresh,  \* how many of the newest queued messages are the era's changes
    since   \* ticks since a full message was queued

runner    == <<running, udm>>
coordVars == <<policy, state, admit>>
era       == <<known, told, fresh, since>>
pubVars   == <<queueVars, runner, coordVars, era>>

NoValues == [t \in Tag |-> None]

PublisherInit ==
    /\ QueueInit
    /\ running = FALSE /\ udm = NoValues
    /\ policy \in Policies /\ state = None
    /\ admit = TRUE
    /\ known = NoValues /\ told = NoValues /\ fresh = 0 /\ since = LongAgo

Points == [Tag -> Value \cup {None}]
Has(points) == {t \in Tag : points[t] # None}

DeviceStates == [last : Points, age : Nat]
ASSUME NoneAssumption == None \notin DeviceStates

\* What policies send is a message.
ASSUME MessageAssumption ==
    \A p \in Policies : p.on =>
        \A points \in Points : Has(points) # {} =>
            [type |-> p.mode, topic |-> p.topic, points |-> points] \in Message

Over(values, points) ==
    [t \in Tag |-> IF points[t] # None THEN points[t] ELSE values[t]]

NewEra == known' = NoValues /\ told' = NoValues /\ fresh' = 0 /\ since' = LongAgo

----------------------------------------------------------------------------
(* The runner.                                                              *)

\* Not after Close: of a start served during the shutdown the queue takes nothing.
RunnerStarts ==
    /\ accepting
    /\ ~running /\ running' = TRUE
    /\ UNCHANGED <<queueVars, udm, coordVars, era>>

\* Run's deferred ResetDevice; the next runner has a new UDM.
\* Mutant: the state survives its runner.
KeepState == UNCHANGED state
ResetDevice == state' = None

RunnerEnds ==
    /\ running /\ running' = FALSE
    /\ udm' = NoValues
    /\ ResetDevice
    /\ NewEra
    /\ UNCHANGED <<queueVars, policy, admit>>

\* The values a scan has read, of which some points may have none: all there will
\* be of a scan that a read's failure ends.
Scans(scan) ==
    /\ running
    /\ udm' = Over(udm, scan)
    /\ UNCHANGED running

ScanFails(scan) == Scans(scan) /\ UNCHANGED <<queueVars, coordVars, era>>

----------------------------------------------------------------------------
(* Submit.                                                                  *)

NewState == [last |-> NoValues, age |-> LongAgo]
DeviceState  == IF state = None THEN NewState ELSE state

Outgoing(points) == [type |-> policy.mode, topic |-> policy.topic, points |-> points]

\* Mutant: a tag without a last value is not a change.
ChangedIfKnown(last, scan) ==
    [t \in Tag |-> IF scan[t] # last[t] /\ last[t] # None THEN scan[t] ELSE None]
Changed(last, scan) == [t \in Tag |-> IF scan[t] # last[t] THEN scan[t] ELSE None]

\* Mutant: the last values are those of this scan.
RememberScan(last, scan) == scan
Remember(last, scan) == Over(last, scan)

\* The consumer is taken to know the baseline, of which no message tells.
Baseline(scan) ==
    /\ known' = Over(known, scan) /\ told' = Over(told, scan)
    /\ UNCHANGED <<queueVars, fresh, since>>

\* A message that overwrites one of the era loses what that one told.
Announce(m, scan) ==
    /\ Push(m)
    /\ known' = Over(known, scan)
    /\ fresh' = IF fresh < Capacity THEN fresh + 1 ELSE fresh
    /\ told' = IF fresh = Capacity
               THEN [t \in Tag |->
                        IF t \in Has(Queued[1].points) THEN Lost ELSE told[t]]
               ELSE told
    /\ UNCHANGED since

SubmitChanges(scan) ==
    LET last    == DeviceState.last
        changes == Changed(last, scan)
    IN  /\ state' = [DeviceState EXCEPT !.last = Remember(last, scan)]
        /\ IF Has(last) = {} THEN Baseline(scan)
           ELSE IF Has(changes) # {} THEN Announce(Outgoing(changes), scan)
           ELSE UNCHANGED <<queueVars, era>>

IsDue == DeviceState.age >= policy.every

SubmitFull ==
    IF IsDue /\ Has(udm') # {}
    THEN /\ Push(Outgoing(udm'))
         /\ state' = [DeviceState EXCEPT !.age = 0]
         /\ since' = 0
         /\ UNCHANGED <<known, told, fresh>>
    ELSE state' = DeviceState /\ UNCHANGED <<queueVars, era>>

Publish(scan) ==
    /\ Scans(scan)
    /\ IF admit /\ policy.on
       THEN IF policy.mode = "change" THEN SubmitChanges(scan) ELSE SubmitFull
       ELSE UNCHANGED <<queueVars, state, era>>
    /\ UNCHANGED <<policy, admit>>

----------------------------------------------------------------------------
(* Policies, the admission switch, the worker, and time.                    *)

Compatible(p) == policy.on /\ policy.topic = p.topic /\ policy.mode = p.mode

ApplyDeviceConfig(p) ==
    /\ p # policy /\ policy' = p
    /\ state' = IF p.on /\ Compatible(p) THEN state ELSE None
    /\ IF p.on => policy.on /\ p.topic = policy.topic /\ p.mode = policy.mode
       THEN UNCHANGED era ELSE NewEra
    /\ UNCHANGED <<queueVars, runner, admit>>

EndAdmission ==
    /\ admit /\ admit' = FALSE
    /\ UNCHANGED <<queueVars, runner, policy, state, era>>

\* Whatever requests have made of admission meanwhile.
Discard ==
    /\ DiscardAll
    /\ told' = [t \in Tag |->
                   IF \E i \in size - fresh + 1 .. size : t \in Has(Queued[i].points)
                   THEN Lost ELSE told[t]]
    /\ fresh' = 0
    /\ UNCHANGED <<runner, policy, state, admit, known, since>>

Admit ==
    /\ ~admit /\ admit' = TRUE
    /\ UNCHANGED <<queueVars, runner, policy, state, era>>

WorkerTakes ==
    /\ Take
    /\ IF fresh = size
       THEN told' = Over(told, Queued[1].points) /\ fresh' = fresh - 1
       ELSE UNCHANGED <<told, fresh>>
    /\ UNCHANGED <<runner, coordVars, known, since>>

WorkerWaits ==
    /\ WaitStep
    /\ UNCHANGED <<runner, coordVars, era>>

\* The process stops, its devices first.
Close ==
    /\ ~running
    /\ accepting /\ StopAccepting
    /\ UNCHANGED <<runner, coordVars, era>>

Older(n) == IF n < LongAgo THEN n + 1 ELSE n

Tick ==
    /\ state' = IF state = None THEN None ELSE [state EXCEPT !.age = Older(@)]
    /\ since' = Older(since)
    /\ UNCHANGED <<queueVars, runner, policy, admit,
                   known, told, fresh>>

PublisherNext ==
    \/ RunnerStarts \/ RunnerEnds
    \/ \E scan \in Points : ScanFails(scan) \/ Publish(scan)
    \/ \E p \in Policies : ApplyDeviceConfig(p)
    \/ EndAdmission \/ Discard \/ Admit \/ Close
    \/ WorkerTakes \/ WorkerWaits
    \/ Tick

PublisherSpec == PublisherInit /\ [][PublisherNext]_pubVars

----------------------------------------------------------------------------
(* Properties.                                                              *)

\* What the consumer knows once it has the era's n oldest queued messages.
View(n) ==
    LET latest(t) == {i \in 1..n : t \in Has(Queued[size - fresh + i].points)}
    IN  [t \in Tag |->
            IF latest(t) = {} THEN told[t]
            ELSE Queued[size - fresh + CHOOSE i \in latest(t) :
                                           \A j \in latest(t) : j <= i].points[t]]

\* The changes sent since the baseline add up to the values of the completed scans,
\* whatever was read in part, failed or was dropped: only a tag whose latest message
\* was lost may differ, and until its next change.
ChangesAddUp ==
    \A t \in Tag : View(fresh)[t] \in {known[t], Lost}

\* Each change tells the consumer of every tag in it something it did not know.
EachIsNews ==
    \A i \in 1..fresh :
        LET points == Queued[size - fresh + i].points
        IN  \A t \in Has(points) : points[t] # View(i - 1)[t]

\* A completed scan leaves no device in full mode without a full message of its
\* interval, from the first scan after a reset on.
FullOnTime ==
    [][\A scan \in Points :
          Publish(scan) /\ admit /\ policy.on /\ policy.mode = "full" /\ Has(udm') # {}
          => since' < policy.every]_pubVars

==============================================================================
