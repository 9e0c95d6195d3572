------------------------------ MODULE Collector ------------------------------
(***************************************************************************)
(* A collector's scans: scanOnce, parseAndUpdate and updateValue of         *)
(* internal/collector/collector.go over the reads that ReadPlan plans, with *)
(* the values they leave in the universal data model (internal/udm/udm.go). *)
(*                                                                          *)
(* A read is one step, and the device's registers change between reads; the *)
(* points of one answer are decoded in one step, as nothing but this        *)
(* goroutine writes values.  Whether there is a client to read with, and    *)
(* what a failed read starts, is ConnManager's.                             *)
(***************************************************************************)
EXTENDS ReadPlan, PointDecode

CONSTANTS
    Devices,   \* the devices considered, with their points and byte order
    Memories,  \* the contents of the device: register type -> address -> register or bit
    Missing    \* how many bytes an answer may lack

ASSUME CollectorAssumption ==
    /\ \A d \in Devices : d.points \in Plans /\ d.order \in ByteOrder
    /\ Memories \subseteq [RegType -> [0 .. AddrSpace - 1 -> 0 .. TwoTo[2 * ByteBits] - 1]]
    /\ 0 \in Missing /\ Missing \subseteq Nat
    /\ None \notin Value /\ \A plan \in Plans : None \notin [DOMAIN plan -> Value \cup {None}]

VARIABLES
    order,     \* c.byteOrder
    memory,    \* the device
    position,  \* register type -> how many of its reads the scan has done
    scan,      \* c.scanValues: None outside a scan
    udm,       \* tag -> its value in the UDM, None when it has none
    readFrom   \* tag -> the contents of the device when its value was read

deviceVars == <<order, memory>>
scanVars   == <<position, scan, udm, readFrom>>

NoValues == [t \in DOMAIN config |-> None]

AtStart == [r \in RegType |-> 0]

CollectorInit ==
    /\ PlanInit
    /\ \E d \in Devices : config = d.points /\ order = d.order
    /\ memory \in Memories
    /\ position = AtStart
    /\ scan = None
    /\ udm = NoValues /\ readFrom = NoValues

Plan == PlanStep /\ UNCHANGED <<deviceVars, scanVars>>

DeviceChanges ==
    /\ Planned
    /\ memory' \in Memories \ {memory}
    /\ UNCHANGED <<planVars, order, scanVars>>

\* scanOnce, once it has a client.
StartScan ==
    /\ Planned
    /\ scan = None
    /\ scan' = NoValues
    /\ UNCHANGED <<planVars, deviceVars, position, udm, readFrom>>

\* The groups are read one after the other, in the order of a Go map.
ToRead(reg) ==
    /\ position[reg] < Len(chunks[reg])
    /\ \A r \in RegType \ {reg} : position[r] \in {0, Len(chunks[r])}

\* The device's answer, of which some bytes at the end may be missing.
Answer(reg, c) ==
    IF IsRegTypeBit(reg)
    THEN LET bit(i) == IF i < c.qty THEN memory[reg][c.start + i] % 2 ELSE 0
         IN  [b \in 1 .. (c.qty + ByteBits - 1) \div ByteBits |->
                 Number(2, [k \in 1..ByteBits |-> bit(b * ByteBits - k)])]
    ELSE [k \in 1 .. 2 * c.qty |-> ByteAt(memory[reg], c.start, k)]

Received(raw, lack) == SubSeq(raw, 1, IF lack < Len(raw) THEN Len(raw) - lack ELSE 0)

\* The values an answer has for its points, over those there were.
Updated(values, c, raw) ==
    [t \in DOMAIN values |->
        IF t \in c.tags /\ Fits(config[t], c.start, raw)
        THEN Decode(config[t], c.start, raw, order)
        ELSE values[t]]

ReadOne(reg, lack) ==
    /\ scan # None
    /\ ToRead(reg)
    /\ LET c   == chunks[reg][position[reg] + 1]
           raw == Received(Answer(reg, c), lack)
       IN  /\ udm' = Updated(udm, c, raw)
           /\ scan' = Updated(scan, c, raw)
           /\ readFrom' = [t \in DOMAIN readFrom |->
                               IF t \in c.tags /\ Fits(config[t], c.start, raw)
                               THEN memory[reg] ELSE readFrom[t]]
    /\ position' = [position EXCEPT ![reg] = @ + 1]
    /\ UNCHANGED <<planVars, deviceVars>>

\* A read fails: the rest of the scan is skipped and it is not completed.
ReadFails ==
    /\ scan # None
    /\ \E reg \in RegType : ToRead(reg)
    /\ scan' = None /\ position' = AtStart
    /\ UNCHANGED <<planVars, deviceVars, udm, readFrom>>

\* completeScan, with every read done; what it hands over is for the caller.
ScanIsDone == scan # None /\ \A reg \in RegType : position[reg] = Len(chunks[reg])

CompleteScan ==
    /\ ScanIsDone
    /\ scan' = None /\ position' = AtStart
    /\ UNCHANGED <<planVars, deviceVars, udm, readFrom>>

ScanStep ==
    \/ StartScan
    \/ \E reg \in RegType, lack \in Missing : ReadOne(reg, lack)
    \/ ReadFails

CollectorNext == Plan \/ DeviceChanges \/ ScanStep \/ CompleteScan

CollectorSpec ==
    CollectorInit /\ [][CollectorNext]_<<planVars, deviceVars, scanVars>>

----------------------------------------------------------------------------
(* Properties.                                                              *)

\* Whatever reads the points were merged into, and however short an answer was,
\* a value is what the point's own registers meant in the device, all of them at
\* the one moment they were read.
ValuesAreTrue ==
    \A t \in DOMAIN config :
        udm[t] # None => udm[t] = Meaning(config[t], readFrom[t], order)

\* When no byte is missing, what a completed scan hands over has a value for every
\* point of the device.
ScanIsWhole == ScanIsDone => \A t \in DOMAIN config : scan[t] # None

==============================================================================
