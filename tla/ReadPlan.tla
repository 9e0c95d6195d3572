------------------------------- MODULE ReadPlan -------------------------------
(***************************************************************************)
(* OptimizeChunks of internal/config/point_config.go, run by a collector at *)
(* its start: the points of each register type, in the order of their       *)
(* addresses, are merged into reads as long as they touch and the read      *)
(* stays within the limit of the protocol.                                  *)
(*                                                                          *)
(* One step is one iteration of its inner loop.  The sort is not stable and *)
(* the order of the groups is that of a Go map, so the next point is any of *)
(* the lowest address, and the next group is any.                           *)
(***************************************************************************)
EXTENDS PointConfig, Sequences

CONSTANTS
    Plans,   \* the devices considered: functions from tags to points
    None     \* no chunk under construction

ASSUME PlansAssumption ==
    \A plan \in Plans : \A t \in DOMAIN plan :
        plan[t] \in PointConfig /\ ValidatePoint(plan[t])

Tag == UNION {DOMAIN plan : plan \in Plans}

\* A read under construction, with its chunkEndAddr, and one that is finished.
Current == [reg : RegType, start : Nat, end : Nat, tags : SUBSET Tag]
ReadChunk == [start : Nat, qty : Nat, tags : SUBSET Tag]

ASSUME NoneAssumption == None \notin Current

VARIABLES
    config,   \* the points of this device
    left,     \* the tags not yet in a read
    current,  \* currentChunk, with its chunkEndAddr
    chunks    \* register type -> the reads planned, in order

planVars == <<config, left, current, chunks>>

\* uint16 arithmetic.
Wrap(n) == n % AddrSpace

EndAddr(pt) == Wrap(pt.addr + GetRegisterCount(pt) - 1)

\* The tags that sort first among those left of a register type.
Lowest(reg) ==
    {t \in left : /\ config[t].reg = reg
                  /\ \A u \in left : config[u].reg = reg => config[t].addr <= config[u].addr}

PlanInit ==
    /\ config \in Plans
    /\ left = DOMAIN config
    /\ current = None
    /\ chunks = [r \in RegType |-> <<>>]

StartingAt(t) ==
    [reg |-> config[t].reg, start |-> config[t].addr, end |-> EndAddr(config[t]), tags |-> {t}]

Finished(c) ==
    [start |-> c.start, qty |-> Wrap(c.end - c.start + 1), tags |-> c.tags]

\* Mutant: the read begun last is forgotten.
AppendUnlessLast(c) ==
    IF Lowest(c.reg) = {} THEN UNCHANGED chunks
    ELSE chunks' = [chunks EXCEPT ![c.reg] = Append(@, Finished(c))]
Append1(c) == chunks' = [chunks EXCEPT ![c.reg] = Append(@, Finished(c))]

\* Mutants: points that overlap are not merged, points that do not touch are.
NotOverlapping(c, pt) ==
    /\ pt.addr = Wrap(c.end + 1)
    /\ Wrap(EndAddr(pt) - c.start + 1) <= MaxQty(c.reg)
AcrossGap(c, pt) ==
    /\ pt.addr <= Wrap(c.end + 2)
    /\ Wrap(EndAddr(pt) - c.start + 1) <= MaxQty(c.reg)
Mergeable(c, pt) ==
    /\ pt.addr <= Wrap(c.end + 1)
    /\ Wrap(EndAddr(pt) - c.start + 1) <= MaxQty(c.reg)

OpenGroup(t) ==
    /\ current = None
    /\ t \in Lowest(config[t].reg)
    /\ current' = StartingAt(t)
    /\ left' = left \ {t}
    /\ UNCHANGED <<config, chunks>>

Farthest(c, pt) == IF EndAddr(pt) > c.end THEN EndAddr(pt) ELSE c.end

Merge(t) ==
    /\ current # None
    /\ t \in Lowest(current.reg)
    /\ Mergeable(current, config[t])
    /\ current' = [current EXCEPT !.tags = @ \cup {t}, !.end = Farthest(current, config[t])]
    /\ left' = left \ {t}
    /\ UNCHANGED <<config, chunks>>

Cut(t) ==
    /\ current # None
    /\ t \in Lowest(current.reg)
    /\ ~Mergeable(current, config[t])
    /\ Append1(current)
    /\ current' = StartingAt(t)
    /\ left' = left \ {t}
    /\ UNCHANGED config

CloseGroup ==
    /\ current # None
    /\ Lowest(current.reg) = {}
    /\ Append1(current)
    /\ current' = None
    /\ UNCHANGED <<config, left>>

PlanStep ==
    \/ \E t \in left : OpenGroup(t) \/ Merge(t) \/ Cut(t)
    \/ CloseGroup

Planned == left = {} /\ current = None

PlanSpec == PlanInit /\ [][PlanStep]_planVars

----------------------------------------------------------------------------
(* Properties.                                                              *)

\* The addresses a point occupies, and those a read asks for.
Occupies(pt) == pt.addr .. pt.addr + GetRegisterCount(pt) - 1
Asks(c) == c.start .. c.start + c.qty - 1

\* No read exceeds what the protocol allows, each holds its points whole, and it
\* asks for no register that none of them has: a device refuses a read that
\* touches a register it does not have, and with it the whole scan.
ReadIsSound(reg, c) ==
    /\ c.qty \in 1..MaxQty(reg)
    /\ \A t \in c.tags : config[t].reg = reg /\ Occupies(config[t]) \subseteq Asks(c)
    /\ \A a \in Asks(c) : \E t \in c.tags : a \in Occupies(config[t])

ReadsAreSound ==
    \A reg \in RegType : \A i \in DOMAIN chunks[reg] : ReadIsSound(reg, chunks[reg][i])

\* Every point is read by exactly one of the reads.
EachPointOnce ==
    Planned => \A t \in DOMAIN config :
        \E i \in DOMAIN chunks[config[t].reg] :
            \A reg \in RegType : \A j \in DOMAIN chunks[reg] :
                t \in chunks[reg][j].tags <=> reg = config[t].reg /\ j = i

\* Two successive reads could not have been one: there is a gap between them, or
\* the first point of the second exceeds the limit.  Except at the last address,
\* whose successor wraps to 0.
NoReadToSpare ==
    \A reg \in RegType : \A i \in 2..Len(chunks[reg]) :
        LET c == chunks[reg][i - 1]
            d == chunks[reg][i]
        IN  \/ c.start + c.qty = AddrSpace
            \/ d.start > c.start + c.qty
            \/ \E t \in d.tags : config[t].addr = d.start
                              /\ d.start + GetRegisterCount(config[t]) - c.start > MaxQty(reg)

==============================================================================
