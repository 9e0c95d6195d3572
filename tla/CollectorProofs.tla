---------------------------- MODULE CollectorProofs ----------------------------
(***************************************************************************)
(* Proofs of what a collector reads and decodes, whatever the points, their *)
(* number, the limits of the protocol and the width of a byte: first that    *)
(* the plan of reads is sound, then, from the arithmetic of digits and bits,  *)
(* that every value is what the registers of its point meant.                *)
(***************************************************************************)
EXTENDS Collector, TLAPS, WellFoundedInduction, SequenceTheorems

\* What is known of the read under construction: it is sound as far as it goes,
\* and the points of its type still to come, among rest, start no lower.
SoundSoFar(c, rest) ==
    /\ c.reg \in RegType
    /\ c.start \in Nat /\ c.end \in Nat
    /\ c.start <= c.end /\ c.end < AddrSpace
    /\ c.end - c.start + 1 <= MaxQty(c.reg)
    /\ c.tags \subseteq DOMAIN config
    /\ \A t \in c.tags : /\ config[t].reg = c.reg
                         /\ c.start <= config[t].addr
                         /\ config[t].addr + GetRegisterCount(config[t]) - 1 <= c.end
    /\ \A a \in c.start .. c.end : \E t \in c.tags : a \in Occupies(config[t])
    /\ \A u \in rest : config[u].reg = c.reg => c.start <= config[u].addr

PlanInv ==
    /\ config \in Plans
    /\ left \subseteq DOMAIN config
    /\ chunks \in [RegType -> Seq(ReadChunk)]
    /\ current # None => current \in Current /\ SoundSoFar(current, left)
    /\ ReadsAreSound

----------------------------------------------------------------------------
(* Arithmetic of uint16, and of a point's registers.                         *)

\* A number in range is itself in uint16 arithmetic.
LEMMA WrapInRange ==
    ASSUME NEW n \in 0 .. AddrSpace - 1
    PROVE  Wrap(n) = n
BY ConfigAssumption, SMT DEF Wrap

\* The number after the last wraps to 0.
LEMMA WrapAtEnd == Wrap(AddrSpace) = 0
BY ConfigAssumption, SMT DEF Wrap

\* A validated point has one to four registers, or one bit, and they end in the
\* address space.
LEMMA PointEnds ==
    ASSUME NEW pt \in PointConfig, ValidatePoint(pt)
    PROVE  /\ GetRegisterCount(pt) \in 1..4
           /\ IsRegTypeBit(pt.reg) => GetRegisterCount(pt) = 1
           /\ pt.addr \in Nat /\ pt.reg \in RegType
           /\ pt.addr + GetRegisterCount(pt) - 1 \in 0 .. AddrSpace - 1
           /\ EndAddr(pt) = pt.addr + GetRegisterCount(pt) - 1
<1>1. /\ pt.addr \in 0 .. AddrSpace - 1
      /\ pt.reg \in RegType /\ pt.type \in DataType
  BY DEF PointConfig
<1>2. Registers(pt.type) \in 1..4
  BY DEF Registers
<1>3. GetRegisterCount(pt) \in 1..4 /\ (IsRegTypeBit(pt.reg) => GetRegisterCount(pt) = 1)
  BY <1>2 DEF GetRegisterCount
<1>4. pt.addr + GetRegisterCount(pt) - 1 \in 0 .. AddrSpace - 1
  <2>1. CASE IsRegTypeBit(pt.reg)
    BY <1>1, <2>1, ConfigAssumption DEF GetRegisterCount
  <2>2. CASE ~IsRegTypeBit(pt.reg)
    BY <1>1, <1>2, <2>2, ConfigAssumption DEF GetRegisterCount, ValidatePoint, InAddressRange
  <2> QED BY <2>1, <2>2
<1>5. EndAddr(pt) = pt.addr + GetRegisterCount(pt) - 1
  BY <1>4, WrapInRange DEF EndAddr
<1> QED BY <1>1, <1>3, <1>4, <1>5, ConfigAssumption

\* The limit of either kind of read holds any one point, and leaves room for one
\* more in the address space.
LEMMA LimitInRange ==
    ASSUME NEW reg \in RegType
    PROVE  /\ MaxQty(reg) \in Nat \ {0} /\ MaxQty(reg) + 4 < AddrSpace
           /\ ~IsRegTypeBit(reg) => MaxQty(reg) >= 4
BY ConfigAssumption DEF MaxQty

----------------------------------------------------------------------------
(* The read under construction.                                              *)

\* A read begun with the lowest point of its type is sound so far.
LEMMA StartIsSound ==
    ASSUME config \in Plans, left \subseteq DOMAIN config,
           NEW t \in left, t \in Lowest(config[t].reg)
    PROVE  StartingAt(t) \in Current /\ SoundSoFar(StartingAt(t), left \ {t})
<1> DEFINE c == StartingAt(t)
<1>1. config[t] \in PointConfig /\ ValidatePoint(config[t])
  BY PlansAssumption
<1>2. /\ c.reg = config[t].reg /\ c.start = config[t].addr /\ c.tags = {t}
      /\ c.end = config[t].addr + GetRegisterCount(config[t]) - 1
  BY <1>1, PointEnds DEF StartingAt
<1>3. /\ c.reg \in RegType /\ c.start \in Nat /\ c.end \in Nat
      /\ c.start <= c.end /\ c.end < AddrSpace
  BY <1>1, <1>2, PointEnds, ConfigAssumption
<1>4. c.end - c.start + 1 <= MaxQty(c.reg)
  BY <1>1, <1>2, <1>3, PointEnds, LimitInRange
<1>5. \A a \in c.start .. c.end : \E u \in c.tags : a \in Occupies(config[u])
  BY <1>2 DEF Occupies
<1>6. \A u \in left \ {t} : config[u].reg = c.reg => c.start <= config[u].addr
  BY <1>2 DEF Lowest
<1>7. c \in Current /\ c.tags \subseteq DOMAIN config
  BY <1>1, <1>2, <1>3 DEF StartingAt, Current, Tag
<1>8. \A u \in c.tags : /\ config[u].reg = c.reg
                        /\ c.start <= config[u].addr
                        /\ config[u].addr + GetRegisterCount(config[u]) - 1 <= c.end
  BY <1>1, <1>2, <1>3, PointEnds
<1>9. SoundSoFar(c, left \ {t})
  <2> HIDE DEF c
  <2> QED BY <1>3, <1>4, <1>5, <1>6, <1>7, <1>8 DEF SoundSoFar
<1> QED BY <1>7, <1>9

\* Merging the next point keeps it so.
LEMMA MergeIsSound ==
    ASSUME config \in Plans, left \subseteq DOMAIN config,
           NEW c \in Current, SoundSoFar(c, left),
           NEW t \in Lowest(c.reg), Mergeable(c, config[t]),
           NEW d, d = [c EXCEPT !.tags = @ \cup {t}, !.end = Farthest(c, config[t])]
    PROVE  d \in Current /\ SoundSoFar(d, left \ {t})
<1> DEFINE pt == config[t]
           e == pt.addr + GetRegisterCount(pt) - 1
<1>1. t \in left /\ pt.reg = c.reg
  BY DEF Lowest
<1>2. pt \in PointConfig /\ ValidatePoint(pt)
  BY <1>1, PlansAssumption
<1>3. /\ GetRegisterCount(pt) \in 1..4 /\ pt.addr \in Nat
      /\ e \in 0 .. AddrSpace - 1 /\ EndAddr(pt) = e
  BY <1>2, PointEnds
<1>4. /\ c.start \in Nat /\ c.end \in Nat /\ c.start <= c.end /\ c.end < AddrSpace
      /\ c.end - c.start + 1 <= MaxQty(c.reg)
      /\ c.start <= pt.addr
  BY <1>1 DEF SoundSoFar
<1>5. MaxQty(c.reg) \in Nat /\ MaxQty(c.reg) + 4 < AddrSpace
  BY LimitInRange DEF Current
<1>6. pt.addr <= c.end + 1
  <2>1. CASE c.end + 1 < AddrSpace
    BY <2>1, <1>3, <1>4, WrapInRange, ConfigAssumption DEF Mergeable
  <2>2. CASE c.end + 1 = AddrSpace
    BY <2>2, <1>4, <1>3, WrapAtEnd DEF Mergeable
  <2> QED BY <2>1, <2>2, <1>4, ConfigAssumption
<1>7. e - c.start + 1 <= MaxQty(c.reg)
  <2>1. e - c.start + 1 \in 0 .. AddrSpace - 1
    BY <1>3, <1>4, <1>5, <1>6, ConfigAssumption
  <2> QED BY <2>1, <1>3, WrapInRange DEF Mergeable
<1>8. Farthest(c, pt) = IF e > c.end THEN e ELSE c.end
  BY <1>3 DEF Farthest
<1> HIDE DEF e
<1>9. /\ d.reg = c.reg /\ d.start = c.start /\ d.tags = c.tags \cup {t}
      /\ d.tags \subseteq DOMAIN config
      /\ d.end = (IF e > c.end THEN e ELSE c.end) /\ d.end \in Nat
      /\ d \in Current
  <2>1. t \in Tag
    BY <1>1 DEF Tag
  <2>2. (IF e > c.end THEN e ELSE c.end) \in Nat
    BY <1>3, <1>4
  <2> QED BY <1>1, <1>8, <2>1, <2>2 DEF Current, SoundSoFar
<1>10. /\ d.start <= d.end /\ d.end < AddrSpace
       /\ d.end - d.start + 1 <= MaxQty(d.reg)
       /\ e <= d.end /\ c.end <= d.end
  BY <1>3, <1>4, <1>7, <1>9, ConfigAssumption
<1>11. \A u \in d.tags : /\ config[u].reg = d.reg
                         /\ d.start <= config[u].addr
                         /\ config[u].addr + GetRegisterCount(config[u]) - 1 <= d.end
  <2> SUFFICES ASSUME NEW u \in d.tags
               PROVE  /\ config[u].reg = d.reg
                      /\ d.start <= config[u].addr
                      /\ config[u].addr + GetRegisterCount(config[u]) - 1 <= d.end
    OBVIOUS
  <2>1. CASE u = t
    BY <2>1, <1>1, <1>4, <1>9, <1>10 DEF e
  <2>2. CASE u \in c.tags
    <3>1. config[u] \in PointConfig /\ ValidatePoint(config[u])
      BY <2>2, PlansAssumption DEF SoundSoFar
    <3>2. config[u].addr + GetRegisterCount(config[u]) - 1 \in Int
      BY <3>1, PointEnds
    <3>3. /\ config[u].reg = c.reg /\ c.start <= config[u].addr
          /\ config[u].addr + GetRegisterCount(config[u]) - 1 <= c.end
      BY <2>2 DEF SoundSoFar
    <3> QED BY <3>2, <3>3, <1>4, <1>9, <1>10
  <2> QED BY <2>1, <2>2, <1>9
<1>12. \A a \in d.start .. d.end : \E u \in d.tags : a \in Occupies(config[u])
  <2> SUFFICES ASSUME NEW a \in d.start .. d.end
               PROVE  \E u \in d.tags : a \in Occupies(config[u])
    OBVIOUS
  <2>1. CASE a <= c.end
    BY <2>1, <1>4, <1>9 DEF SoundSoFar
  <2>2. CASE a > c.end
    BY <2>2, <1>3, <1>4, <1>6, <1>9 DEF Occupies, e
  <2> QED BY <2>1, <2>2, <1>4, <1>9
<1>13. \A u \in left \ {t} : config[u].reg = d.reg => d.start <= config[u].addr
  BY <1>9 DEF SoundSoFar
<1> QED BY <1>4, <1>9, <1>10, <1>11, <1>12, <1>13 DEF SoundSoFar, Current

----------------------------------------------------------------------------
(* A finished read, and the plan.                                            *)

\* What was sound so far is sound when it is finished.
LEMMA FinishedIsSound ==
    ASSUME config \in Plans, NEW c \in Current, NEW rest, SoundSoFar(c, rest)
    PROVE  Finished(c) \in ReadChunk /\ ReadIsSound(c.reg, Finished(c))
<1> DEFINE f == Finished(c)
<1>1. /\ c.start \in Nat /\ c.end \in Nat /\ c.start <= c.end /\ c.end < AddrSpace
      /\ c.end - c.start + 1 <= MaxQty(c.reg)
      /\ MaxQty(c.reg) \in Nat /\ MaxQty(c.reg) + 4 < AddrSpace
  BY LimitInRange DEF SoundSoFar
<1>2. Wrap(c.end - c.start + 1) = c.end - c.start + 1
  BY <1>1, WrapInRange, ConfigAssumption
<1>3. f.start = c.start /\ f.qty = c.end - c.start + 1 /\ f.tags = c.tags
  BY <1>2 DEF Finished
<1>4. f \in ReadChunk
  BY <1>1, <1>2 DEF Finished, ReadChunk, Current
<1>5. Asks(f) = c.start .. c.end
  BY <1>1, <1>3 DEF Asks
<1> HIDE DEF f
<1>6. f.qty \in 1..MaxQty(c.reg)
  BY <1>1, <1>3
<1>7. ASSUME NEW t \in f.tags
      PROVE  config[t].reg = c.reg /\ Occupies(config[t]) \subseteq Asks(f)
  <2>1. config[t] \in PointConfig /\ ValidatePoint(config[t])
    BY <1>3, PlansAssumption DEF SoundSoFar
  <2>2. config[t].addr \in Nat /\ GetRegisterCount(config[t]) \in 1..4
    BY <2>1, PointEnds
  <2> QED BY <1>1, <1>3, <1>5, <2>2 DEF SoundSoFar, Occupies
<1>8. \A a \in Asks(f) : \E t \in f.tags : a \in Occupies(config[t])
  BY <1>3, <1>5 DEF SoundSoFar
<1> QED BY <1>4, <1>6, <1>7, <1>8 DEF ReadIsSound, f

\* Appending a sound read to a sound plan.
LEMMA AppendIsSound ==
    ASSUME PlanInv, current # None, UNCHANGED config, Append1(current)
    PROVE  chunks' \in [RegType -> Seq(ReadChunk)] /\ ReadsAreSound'
<1>1. current \in Current /\ SoundSoFar(current, left) /\ current.reg \in RegType
  BY DEF PlanInv, SoundSoFar
<1> DEFINE f == Finished(current)
<1>2. f \in ReadChunk /\ ReadIsSound(current.reg, f)
  BY <1>1, FinishedIsSound DEF PlanInv
<1> HIDE DEF f
<1>3. chunks' = [chunks EXCEPT ![current.reg] = Append(@, f)]
  BY DEF Append1, f
<1>4. chunks' \in [RegType -> Seq(ReadChunk)]
  <2>1. chunks \in [RegType -> Seq(ReadChunk)] /\ chunks[current.reg] \in Seq(ReadChunk)
    BY <1>1 DEF PlanInv
  <2>2. Append(chunks[current.reg], f) \in Seq(ReadChunk)
    BY <1>2, <2>1
  <2> QED BY <1>3, <2>1, <2>2
<1>5. ASSUME NEW reg \in RegType, NEW i \in DOMAIN chunks'[reg]
      PROVE  ReadIsSound(reg, chunks'[reg][i])
  <2>1. chunks[reg] \in Seq(ReadChunk)
    BY DEF PlanInv
  <2>2. CASE reg # current.reg
    BY <1>3, <2>2 DEF PlanInv, ReadsAreSound
  <2>3. CASE reg = current.reg
    <3>1. chunks'[reg] = Append(chunks[reg], f)
      BY <1>3, <2>3 DEF PlanInv
    <3>2. CASE i \in DOMAIN chunks[reg]
      <4>1. chunks'[reg][i] = chunks[reg][i]
        BY <2>1, <3>1, <3>2, <1>2
      <4> QED BY <4>1, <3>2 DEF PlanInv, ReadsAreSound
    <3>3. CASE i = Len(chunks[reg]) + 1
      <4>1. chunks'[reg][i] = f
        BY <2>1, <3>1, <3>3, <1>2
      <4> QED BY <4>1, <1>2, <2>3
    <3> QED BY <2>1, <3>1, <3>2, <3>3, <1>2
  <2> QED BY <2>2, <2>3
<1>6. ReadsAreSound'
  BY <1>5 DEF ReadsAreSound, ReadIsSound, Occupies
<1> QED BY <1>4, <1>6

\* The invariant holds of an empty plan.
LEMMA PlanInvInit == PlanInit => PlanInv
BY DEF PlanInit, PlanInv, ReadsAreSound

\* Every iteration of the loop keeps the invariant.
LEMMA PlanInvStep == PlanInv /\ [PlanStep]_planVars => PlanInv'
<1> SUFFICES ASSUME PlanInv, [PlanStep]_planVars
             PROVE  PlanInv'
  OBVIOUS
<1>1. CASE UNCHANGED planVars
  BY <1>1 DEF PlanInv, planVars, SoundSoFar, ReadsAreSound, ReadIsSound,
              Occupies
<1>2. ASSUME NEW t \in left, OpenGroup(t)
      PROVE  PlanInv'
  <2>1. StartingAt(t) \in Current /\ SoundSoFar(StartingAt(t), left \ {t})
    BY <1>2, StartIsSound DEF PlanInv, OpenGroup
  <2>2. current' \in Current' /\ SoundSoFar(current, left)'
    BY <2>1, <1>2 DEF OpenGroup, SoundSoFar, Occupies
  <2> QED BY <1>2, <2>2 DEF PlanInv, OpenGroup, ReadsAreSound, ReadIsSound, Occupies
<1>3. ASSUME NEW t \in left, Merge(t)
      PROVE  PlanInv'
  <2>1. current' \in Current /\ SoundSoFar(current', left \ {t})
    BY <1>3, MergeIsSound DEF PlanInv, Merge
  <2>2. current' \in Current' /\ SoundSoFar(current, left)'
    BY <2>1, <1>3 DEF Merge, SoundSoFar, Occupies
  <2> QED BY <1>3, <2>2 DEF PlanInv, Merge, ReadsAreSound, ReadIsSound, Occupies
<1>4. ASSUME NEW t \in left, Cut(t)
      PROVE  PlanInv'
  <2>1. config[t].reg = current.reg
    BY <1>4 DEF Cut, Lowest
  <2>2. StartingAt(t) \in Current /\ SoundSoFar(StartingAt(t), left \ {t})
    BY <1>4, <2>1, StartIsSound DEF PlanInv, Cut
  <2>3. current' \in Current' /\ SoundSoFar(current, left)'
    BY <2>2, <1>4 DEF Cut, SoundSoFar, Occupies
  <2>4. chunks' \in [RegType -> Seq(ReadChunk)] /\ ReadsAreSound'
    BY <1>4, AppendIsSound DEF Cut
  <2> QED BY <1>4, <2>3, <2>4 DEF PlanInv, Cut
<1>5. CASE CloseGroup
  <2>1. chunks' \in [RegType -> Seq(ReadChunk)] /\ ReadsAreSound'
    BY <1>5, AppendIsSound DEF CloseGroup
  <2> QED BY <1>5, <2>1 DEF PlanInv, CloseGroup
<1> QED BY <1>1, <1>2, <1>3, <1>4, <1>5 DEF PlanStep

\* OptimizeChunks never plans a read over the protocol's limit, one that cuts a
\* point in two or one that asks for a register no point has, for any points and
\* any limits.
THEOREM PlanIsSound == PlanSpec => []ReadsAreSound
<1>1. PlanInv => ReadsAreSound
  BY DEF PlanInv
<1> QED BY <1>1, PlanInvInit, PlanInvStep, PTL DEF PlanSpec

----------------------------------------------------------------------------
(* Every point once.                                                         *)

\* A point of a plan with no read that holds it, and with one.
InNoChunk(t) == \A reg \in RegType : \A j \in DOMAIN chunks[reg] : t \notin chunks[reg][j].tags
InOneChunk(t) ==
    \E i \in DOMAIN chunks[config[t].reg] :
        \A reg \in RegType : \A j \in DOMAIN chunks[reg] :
            t \in chunks[reg][j].tags <=> reg = config[t].reg /\ j = i

\* A point is still to come, in the read under construction, or in one read.
Placed(t) ==
    \/ t \in left /\ (current # None => t \notin current.tags) /\ InNoChunk(t)
    \/ t \notin left /\ current # None /\ t \in current.tags /\ InNoChunk(t)
    \/ t \notin left /\ (current # None => t \notin current.tags) /\ InOneChunk(t)

PlacedInv == PlanInv /\ \A t \in DOMAIN config : Placed(t)

\* What appending the read under construction does to a point.
LEMMA AppendPlaces ==
    ASSUME PlanInv, current # None, UNCHANGED config, Append1(current), NEW t \in DOMAIN config
    PROVE  /\ InNoChunk(t) /\ t \notin current.tags => InNoChunk(t)'
           /\ InNoChunk(t) /\ t \in current.tags => InOneChunk(t)'
           /\ InOneChunk(t) /\ t \notin current.tags => InOneChunk(t)'
<1> DEFINE last == Len(chunks[current.reg]) + 1
<1>1. /\ current \in Current /\ current.reg \in RegType
      /\ \A u \in current.tags : config[u].reg = current.reg
  BY DEF PlanInv, SoundSoFar
<1>2. config[t].reg \in RegType
  BY PlansAssumption DEF PlanInv, PointConfig
<1>3. Finished(current) \in ReadChunk /\ Finished(current).tags = current.tags
  BY <1>1, FinishedIsSound DEF PlanInv, Finished
<1>4. \A reg \in RegType : chunks[reg] \in Seq(ReadChunk)
  BY DEF PlanInv
<1>5. /\ \A reg \in RegType \ {current.reg} : chunks'[reg] = chunks[reg]
      /\ chunks'[current.reg] = Append(chunks[current.reg], Finished(current))
  BY <1>1 DEF PlanInv, Append1
<1>6. /\ DOMAIN chunks'[current.reg] = DOMAIN chunks[current.reg] \cup {last}
      /\ last \notin DOMAIN chunks[current.reg]
      /\ \A j \in DOMAIN chunks[current.reg] :
             chunks'[current.reg][j] = chunks[current.reg][j]
      /\ chunks'[current.reg][last].tags = current.tags
  BY <1>1, <1>3, <1>4, <1>5
<1> HIDE DEF last
<1>7. \A reg \in RegType : \A j \in DOMAIN chunks'[reg] :
          t \in chunks'[reg][j].tags <=>
              \/ j \in DOMAIN chunks[reg] /\ t \in chunks[reg][j].tags
              \/ reg = current.reg /\ j = last /\ t \in current.tags
  BY <1>1, <1>5, <1>6
<1>8. \A reg \in RegType : DOMAIN chunks[reg] \subseteq DOMAIN chunks'[reg]
  BY <1>1, <1>5, <1>6
<1>9. ASSUME InNoChunk(t), t \notin current.tags
      PROVE  InNoChunk(t)'
  BY <1>7, <1>9 DEF InNoChunk
<1>10. ASSUME InNoChunk(t), t \in current.tags
       PROVE  InOneChunk(t)'
  <2>1. config[t].reg = current.reg /\ last \in DOMAIN chunks'[current.reg]
    BY <1>1, <1>6, <1>10
  <2>2. \A reg \in RegType : \A j \in DOMAIN chunks'[reg] :
            t \in chunks'[reg][j].tags <=> reg = current.reg /\ j = last
    BY <1>6, <1>7, <1>10 DEF InNoChunk
  <2> QED BY <2>1, <2>2 DEF InOneChunk
<1>11. ASSUME InOneChunk(t), t \notin current.tags
       PROVE  InOneChunk(t)'
  <2>1. PICK i \in DOMAIN chunks[config[t].reg] :
            \A reg \in RegType : \A j \in DOMAIN chunks[reg] :
                t \in chunks[reg][j].tags <=> reg = config[t].reg /\ j = i
    BY <1>11 DEF InOneChunk
  <2>2. i \in DOMAIN chunks'[config[t].reg]
    BY <1>2, <1>8, <2>1
  <2>3. \A reg \in RegType : \A j \in DOMAIN chunks'[reg] :
            t \in chunks'[reg][j].tags <=> reg = config[t].reg /\ j = i
    BY <1>2, <1>7, <1>11, <2>1
  <2> QED BY <2>2, <2>3 DEF InOneChunk
<1> QED BY <1>9, <1>10, <1>11

\* At first every point is still to come.
LEMMA PlacedInit == PlanInit => PlacedInv
<1> SUFFICES ASSUME PlanInit PROVE PlacedInv
  OBVIOUS
<1>1. \A t \in DOMAIN config : InNoChunk(t)
  BY DEF PlanInit, InNoChunk
<1> QED BY <1>1, PlanInvInit DEF PlacedInv, Placed, PlanInit

\* No iteration loses a point or places it twice.
LEMMA PlacedStep == PlacedInv /\ [PlanStep]_planVars => PlacedInv'
<1> SUFFICES ASSUME PlacedInv, [PlanStep]_planVars
             PROVE  PlacedInv'
  OBVIOUS
<1>1. PlanInv /\ PlanInv'
  BY PlanInvStep DEF PlacedInv
<1>2. config' = config
  BY DEF planVars, PlanStep, OpenGroup, Merge, Cut, CloseGroup
<1> SUFFICES ASSUME NEW t \in DOMAIN config PROVE Placed(t)'
  BY <1>1, <1>2 DEF PlacedInv
<1>3. Placed(t)
  BY DEF PlacedInv
<1>4. CASE UNCHANGED planVars
  BY <1>3, <1>4 DEF planVars, Placed, InNoChunk, InOneChunk
<1>5. ASSUME NEW u \in left, OpenGroup(u) PROVE Placed(t)'
  <2>1. /\ chunks' = chunks /\ left' = left \ {u} /\ current = None
        /\ current'.tags = {u}
    BY <1>5 DEF OpenGroup, StartingAt
  <2>2. (InNoChunk(t)' <=> InNoChunk(t)) /\ (InOneChunk(t)' <=> InOneChunk(t))
    BY <1>2, <2>1 DEF InNoChunk, InOneChunk
  <2>3. current' # None
    BY <1>1, <1>5, NoneAssumption, StartIsSound DEF PlanInv, OpenGroup
  <2>4. CASE t = u
    BY <1>3, <1>5, <2>1, <2>2, <2>3, <2>4 DEF Placed, PlacedInv
  <2>5. CASE t # u
    BY <1>3, <2>1, <2>2, <2>5 DEF Placed
  <2> QED BY <2>4, <2>5
<1>6. ASSUME NEW u \in left, Merge(u) PROVE Placed(t)'
  <2>1. /\ chunks' = chunks /\ left' = left \ {u} /\ current # None
        /\ current'.tags = current.tags \cup {u}
    BY <1>1, <1>6 DEF Merge, PlanInv, Current
  <2>2. (InNoChunk(t)' <=> InNoChunk(t)) /\ (InOneChunk(t)' <=> InOneChunk(t))
    BY <1>2, <2>1 DEF InNoChunk, InOneChunk
  <2>3. current' # None
    BY <1>1, <1>6, NoneAssumption, MergeIsSound DEF PlanInv, Merge
  <2> QED BY <1>3, <1>6, <2>1, <2>2, <2>3 DEF Placed
<1>7. ASSUME NEW u \in left, Cut(u) PROVE Placed(t)'
  <2>1. /\ left' = left \ {u} /\ current # None /\ current'.tags = {u}
        /\ Append1(current)
    BY <1>7 DEF Cut, StartingAt
  <2>2. config[u].reg = current.reg
    BY <1>7 DEF Cut, Lowest
  <2>3. current' # None
    BY <1>1, <1>7, <2>2, NoneAssumption, StartIsSound DEF PlanInv, Cut
  <2>4. /\ InNoChunk(t) /\ t \notin current.tags => InNoChunk(t)'
        /\ InNoChunk(t) /\ t \in current.tags => InOneChunk(t)'
        /\ InOneChunk(t) /\ t \notin current.tags => InOneChunk(t)'
    BY <1>1, <1>2, <2>1, AppendPlaces
  <2> QED BY <1>3, <1>7, <2>1, <2>3, <2>4 DEF Placed
<1>8. CASE CloseGroup
  <2>1. left' = left /\ current # None /\ current' = None /\ Append1(current)
    BY <1>8 DEF CloseGroup
  <2>2. /\ InNoChunk(t) /\ t \notin current.tags => InNoChunk(t)'
        /\ InNoChunk(t) /\ t \in current.tags => InOneChunk(t)'
        /\ InOneChunk(t) /\ t \notin current.tags => InOneChunk(t)'
    BY <1>1, <1>2, <2>1, AppendPlaces
  <2> QED BY <1>3, <2>1, <2>2 DEF Placed
<1> QED BY <1>4, <1>5, <1>6, <1>7, <1>8 DEF PlanStep

\* When OptimizeChunks is done, every point of the device is in one of the reads,
\* and in no other: no tag is left unread and none is read twice in a scan.
THEOREM PlanIsComplete == PlanSpec => []EachPointOnce
<1>1. PlacedInv => EachPointOnce
  BY DEF PlacedInv, Placed, EachPointOnce, Planned, InOneChunk
<1> QED BY <1>1, PlacedInit, PlacedStep, PTL DEF PlanSpec

----------------------------------------------------------------------------
(* No read to spare.                                                         *)

\* The points of tags, the first at start, do not fit into the read c before them.
Apart(reg, c, start, tags) ==
    \/ c.start + c.qty = AddrSpace
    \/ start > c.start + c.qty
    \/ \E t \in tags : config[t].addr = start
                      /\ start + GetRegisterCount(config[t]) - c.start > MaxQty(reg)

AllApart(reg) ==
    \A i \in 2..Len(chunks[reg]) :
        Apart(reg, chunks[reg][i - 1], chunks[reg][i].start, chunks[reg][i].tags)

\* The read under construction is apart from the last one, and its type is the only
\* one begun of which points are left.
SpareInv ==
    /\ \A reg \in RegType : AllApart(reg)
    /\ \A u \in left : chunks[config[u].reg] # <<>> =>
           current # None /\ current.reg = config[u].reg
    /\ current # None /\ chunks[current.reg] # <<>> =>
           Apart(current.reg, chunks[current.reg][Len(chunks[current.reg])],
                 current.start, current.tags)

\* There are no two reads at first.
LEMMA SpareInit == PlanInit => SpareInv
<1> SUFFICES ASSUME PlanInit PROVE SpareInv
  OBVIOUS
<1>1. \A u \in left : config[u].reg \in RegType
  BY PlansAssumption DEF PlanInit, PointConfig
<1> QED BY <1>1 DEF PlanInit, SpareInv, AllApart

\* A point that is not merged starts a read apart.
LEMMA CutIsApart ==
    ASSUME config \in Plans, left \subseteq DOMAIN config,
           NEW c \in Current, SoundSoFar(c, left),
           NEW t \in Lowest(c.reg), ~Mergeable(c, config[t])
    PROVE  Apart(c.reg, Finished(c), config[t].addr, {t})
<1> DEFINE pt == config[t]
           e == pt.addr + GetRegisterCount(pt) - 1
<1>1. t \in left /\ pt.reg = c.reg
  BY DEF Lowest
<1>2. pt \in PointConfig /\ ValidatePoint(pt)
  BY <1>1, PlansAssumption
<1>3. /\ GetRegisterCount(pt) \in 1..4 /\ pt.addr \in Nat
      /\ e \in 0 .. AddrSpace - 1 /\ EndAddr(pt) = e
  BY <1>2, PointEnds
<1>4. /\ c.start \in Nat /\ c.end \in Nat /\ c.start <= c.end /\ c.end < AddrSpace
      /\ c.end - c.start + 1 <= MaxQty(c.reg)
      /\ c.start <= pt.addr
  BY <1>1 DEF SoundSoFar
<1>5. MaxQty(c.reg) \in Nat /\ MaxQty(c.reg) + 4 < AddrSpace
  BY LimitInRange DEF Current
<1>6. Wrap(c.end - c.start + 1) = c.end - c.start + 1
  BY <1>4, <1>5, WrapInRange, ConfigAssumption
<1>7. Finished(c).start + Finished(c).qty = c.end + 1 /\ Finished(c).start = c.start
  BY <1>4, <1>6 DEF Finished
<1>8. CASE c.end + 1 = AddrSpace
  BY <1>7, <1>8 DEF Apart
<1>9. CASE c.end + 1 < AddrSpace /\ ~(pt.addr <= Wrap(c.end + 1))
  <2>1. pt.addr > c.end + 1
    BY <1>3, <1>4, <1>9, WrapInRange, ConfigAssumption
  <2> QED BY <1>7, <2>1 DEF Apart
<1>10. CASE ~(Wrap(EndAddr(pt) - c.start + 1) <= MaxQty(c.reg))
  <2>1. e - c.start + 1 \in 0..AddrSpace
    BY <1>3, <1>4, ConfigAssumption
  <2>2. e - c.start + 1 > MaxQty(c.reg)
    <3>1. CASE e - c.start + 1 = AddrSpace
      BY <1>5, <3>1, ConfigAssumption
    <3>2. CASE e - c.start + 1 \in 0 .. AddrSpace - 1
      <4>1. Wrap(e - c.start + 1) = e - c.start + 1
        BY <3>2, WrapInRange
      <4> QED BY <1>3, <1>5, <1>10, <3>2, <4>1
    <3> QED BY <2>1, <3>1, <3>2, ConfigAssumption
  <2>3. pt.addr + GetRegisterCount(pt) - c.start > MaxQty(c.reg)
    BY <1>3, <1>4, <1>5, <2>2
  <2> QED BY <1>7, <2>3 DEF Apart
<1> QED BY <1>4, <1>8, <1>9, <1>10, ConfigAssumption DEF Mergeable

\* Some tag sorts first among those left of a type, if there are any.
LEMMA NoneIsLowest ==
    ASSUME config \in Plans, left \subseteq DOMAIN config, NEW reg, Lowest(reg) = {}
    PROVE  \A u \in left : config[u].reg # reg
<1> SUFFICES ASSUME NEW u \in left, config[u].reg = reg PROVE FALSE
  OBVIOUS
<1> DEFINE S == {v \in left : config[v].reg = reg}
           A == {config[v].addr : v \in S}
<1>1. \A v \in S : config[v].addr \in Nat
  BY PlansAssumption DEF PointConfig
<1>2. A # {} /\ A \subseteq Nat
  BY <1>1
<1>3. PICK a \in A : \A b \in A : ~ (<<b, a>> \in OpToRel(<, Nat))
  BY <1>2, NatLessThanWellFounded, WFMin
<1>4. PICK v \in S : config[v].addr = a
  OBVIOUS
<1>5. ASSUME NEW w \in S PROVE config[v].addr <= config[w].addr
  <2>1. config[w].addr \in A /\ config[w].addr \in Nat /\ config[v].addr \in Nat
    BY <1>1
  <2>2. ~ (config[w].addr < a)
    BY <1>2, <1>3, <2>1 DEF OpToRel
  <2> QED BY <1>4, <2>1, <2>2
<1>6. v \in Lowest(reg)
  BY <1>4, <1>5 DEF Lowest
<1> QED BY <1>6

\* Appending the read under construction.
LEMMA AppendApart ==
    ASSUME PlanInv, SpareInv, current # None, UNCHANGED config, Append1(current)
    PROVE  /\ \A reg \in RegType : AllApart(reg)'
           /\ \A reg \in RegType \ {current.reg} : chunks'[reg] = chunks[reg]
           /\ chunks'[current.reg] # <<>>
           /\ chunks'[current.reg][Len(chunks'[current.reg])] = Finished(current)
<1> DEFINE f == Finished(current)
           n == Len(chunks[current.reg])
<1>1. current \in Current /\ current.reg \in RegType
  BY DEF PlanInv, SoundSoFar
<1>2. f \in ReadChunk /\ f.start = current.start /\ f.tags = current.tags
  BY <1>1, FinishedIsSound DEF PlanInv, Finished
<1>3. \A reg \in RegType : chunks[reg] \in Seq(ReadChunk)
  BY DEF PlanInv
<1>4. /\ \A reg \in RegType \ {current.reg} : chunks'[reg] = chunks[reg]
      /\ chunks'[current.reg] = Append(chunks[current.reg], f)
  BY <1>1 DEF PlanInv, Append1
<1> HIDE DEF f
<1>5. /\ n \in Nat /\ Len(chunks'[current.reg]) = n + 1
      /\ chunks'[current.reg][n + 1] = f
      /\ \A j \in 1..n : chunks'[current.reg][j] = chunks[current.reg][j]
  BY <1>1, <1>2, <1>3, <1>4
<1>6. ASSUME NEW reg \in RegType PROVE AllApart(reg)'
  <2>1. AllApart(reg)
    BY DEF SpareInv
  <2>2. CASE reg # current.reg
    BY <1>4, <2>1, <2>2 DEF AllApart, Apart
  <2>3. CASE reg = current.reg
    <3> SUFFICES ASSUME NEW i \in 2 .. n + 1
                 PROVE  Apart(reg, chunks'[reg][i - 1], chunks'[reg][i].start, chunks'[reg][i].tags)
      BY <1>5, <2>3 DEF AllApart, Apart
    <3>1. CASE i <= n
      <4>1. i - 1 \in 1..n /\ i \in 1..n /\ i \in 2..n
        BY <1>5, <3>1
      <4> QED BY <1>5, <2>1, <2>3, <4>1 DEF AllApart
    <3>2. CASE i = n + 1
      <4>1. n \in 1..n /\ i - 1 = n
        BY <1>5, <3>2
      <4>2. chunks[current.reg] # <<>>
        BY <1>1, <1>3, <4>1
      <4>3. Apart(reg, chunks[reg][n], current.start, current.tags)
        BY <2>3, <4>2 DEF SpareInv
      <4> QED BY <1>2, <1>5, <2>3, <3>2, <4>1, <4>3
    <3> QED BY <1>5, <3>1, <3>2
  <2> QED BY <2>2, <2>3
<1>7. chunks'[current.reg] # <<>>
  BY <1>5
<1> QED BY <1>4, <1>5, <1>6, <1>7 DEF f

\* Every iteration keeps the reads apart.
LEMMA SpareStep == PlanInv /\ SpareInv /\ [PlanStep]_planVars => SpareInv'
<1> SUFFICES ASSUME PlanInv, SpareInv, [PlanStep]_planVars
             PROVE  SpareInv'
  OBVIOUS
<1>1. CASE UNCHANGED planVars
  BY <1>1 DEF SpareInv, AllApart, Apart, planVars
<1>2. ASSUME NEW t \in left, OpenGroup(t)
      PROVE  SpareInv'
  <2>1. current = None /\ current'.reg = config[t].reg /\ UNCHANGED <<config, chunks>>
        /\ left' = left \ {t}
    BY <1>2 DEF OpenGroup, StartingAt
  <2>2. \A u \in left : chunks[config[u].reg] = <<>>
    BY <2>1 DEF SpareInv
  <2> QED BY <2>1, <2>2 DEF SpareInv, AllApart, Apart
<1>3. ASSUME NEW t \in left, Merge(t)
      PROVE  SpareInv'
  <2>1. /\ current # None /\ current'.reg = current.reg /\ current'.start = current.start
        /\ current.tags \subseteq current'.tags
        /\ UNCHANGED <<config, chunks>> /\ left' = left \ {t}
    BY <1>3 DEF Merge, PlanInv, Current
  <2>2. current' # None
    BY <1>3, NoneAssumption, MergeIsSound DEF PlanInv, Merge
  <2> QED BY <2>1, <2>2 DEF SpareInv, AllApart, Apart
<1>4. ASSUME NEW t \in left, Cut(t)
      PROVE  SpareInv'
  <2>1. /\ current # None /\ config[t].reg = current.reg /\ Append1(current)
        /\ current' = StartingAt(t) /\ UNCHANGED config /\ left' = left \ {t}
    BY <1>4 DEF Cut, Lowest
  <2>2. current' # None
    BY <1>4, <2>1, NoneAssumption, StartIsSound DEF PlanInv, Cut
  <2>3. /\ \A reg \in RegType : AllApart(reg)'
        /\ \A reg \in RegType \ {current.reg} : chunks'[reg] = chunks[reg]
        /\ chunks'[current.reg] # <<>>
        /\ chunks'[current.reg][Len(chunks'[current.reg])] = Finished(current)
    BY <2>1, AppendApart
  <2>4. current'.reg = current.reg /\ current'.start = config[t].addr /\ current'.tags = {t}
    BY <2>1 DEF StartingAt
  <2>5. Apart(current.reg, Finished(current), config[t].addr, {t})
    BY <1>4, CutIsApart DEF PlanInv, Cut
  <2>6. \A u \in left' : chunks'[config'[u].reg] # <<>> => current'.reg = config'[u].reg
    <3>1. \A u \in left : config[u].reg \in RegType
      BY PlansAssumption DEF PlanInv, PointConfig
    <3> QED BY <2>1, <2>3, <2>4, <3>1 DEF SpareInv
  <2>7. Apart(current.reg, chunks[current.reg][Len(chunks[current.reg])],
              current.start, current.tags)'
    BY <2>1, <2>3, <2>4, <2>5 DEF Apart
  <2> QED BY <2>2, <2>3, <2>6, <2>7 DEF SpareInv
<1>5. CASE CloseGroup
  <2>1. /\ current # None /\ current' = None /\ Lowest(current.reg) = {} /\ Append1(current)
        /\ UNCHANGED <<config, left>>
    BY <1>5 DEF CloseGroup
  <2>2. /\ \A reg \in RegType : AllApart(reg)'
        /\ \A reg \in RegType \ {current.reg} : chunks'[reg] = chunks[reg]
    BY <2>1, AppendApart
  <2>3. \A u \in left : config[u].reg # current.reg
    BY <2>1, NoneIsLowest DEF PlanInv
  <2>4. \A u \in left : config[u].reg \in RegType
    BY PlansAssumption DEF PlanInv, PointConfig
  <2> QED BY <2>1, <2>2, <2>3, <2>4 DEF SpareInv
<1> QED BY <1>1, <1>2, <1>3, <1>4, <1>5 DEF PlanStep

\* Two successive reads of a plan could not have been one, for any points and limits:
\* NoReadToSpare.
THEOREM PlanIsShort == PlanSpec => []NoReadToSpare
<1>1. PlanInv /\ SpareInv => NoReadToSpare
  BY DEF SpareInv, AllApart, Apart, NoReadToSpare
<1> QED BY <1>1, PlanInvInit, PlanInvStep, SpareInit, SpareStep, PTL DEF PlanSpec

----------------------------------------------------------------------------
(* Induction, by the least number that fails.                               *)

\* Induction over 0 .. k, for a set.
LEMMA UpTo ==
    ASSUME NEW k \in Nat, NEW S,
           0 \in S, \A n \in 1..k : n - 1 \in S => n \in S
    PROVE  0..k \subseteq S
<1> DEFINE T == (0..k) \ S
<1> SUFFICES ASSUME T # {} PROVE FALSE
  OBVIOUS
<1>1. T \subseteq Nat
  OBVIOUS
<1>2. PICK n \in T : \A m \in T : ~ (<<m, n>> \in OpToRel(<, Nat))
  BY <1>1, NatLessThanWellFounded, WFMin
<1>3. n \in Nat /\ n # 0 /\ n - 1 \in 0..k /\ n \in 1..k
  OBVIOUS
<1>4. n - 1 \in T
  BY <1>3
<1>5. <<n - 1, n>> \in OpToRel(<, Nat)
  BY <1>3 DEF OpToRel
<1> QED BY <1>2, <1>4, <1>5

\* A function whose values are each computed from the one before.
LEMMA Recursion ==
    ASSUME NEW k \in Nat, NEW G \in [Nat \X (0..k) -> Nat]
    PROVE  \E f \in [0..k -> Nat] :
              f[0] = G[<<0, 0>>] /\ \A n \in 1..k : f[n] = G[<<f[n - 1], n>>]
<1> DEFINE Is(f, j) == f[0] = G[<<0, 0>>] /\ \A n \in 1..j : f[n] = G[<<f[n - 1], n>>]
           T == {m \in 0..k : \E h \in [0..m -> Nat] : Is(h, m)}
<1>1. 0 \in T
  <2> DEFINE f0 == [n \in 0..0 |-> G[<<0, 0>>]]
  <2>1. f0 \in [0..0 -> Nat] /\ Is(f0, 0)
    OBVIOUS
  <2> HIDE DEF f0
  <2> QED BY <2>1
<1>2. ASSUME NEW j \in 1..k, j - 1 \in T PROVE j \in T
  <2>1. PICK f \in [0..(j - 1) -> Nat] : Is(f, j - 1)
    BY <1>2
  <2> DEFINE g == [n \in 0..j |-> IF n = j THEN G[<<f[j - 1], j>>] ELSE f[n]]
  <2>2. f[j - 1] \in Nat /\ G[<<f[j - 1], j>>] \in Nat
    OBVIOUS
  <2>3. g \in [0..j -> Nat]
    BY <2>2
  <2>4. \A n \in 0..(j - 1) : g[n] = f[n] /\ n # j
    OBVIOUS
  <2>5. g[j] = G[<<f[j - 1], j>>]
    OBVIOUS
  <2> HIDE DEF g
  <2>6. g[0] = G[<<0, 0>>]
    BY <2>1, <2>4
  <2>7. ASSUME NEW n \in 1..j PROVE g[n] = G[<<g[n - 1], n>>]
    <3>1. n - 1 \in 0..(j - 1) /\ (n = j \/ n \in 1..(j - 1))
      OBVIOUS
    <3>2. g[n - 1] = f[n - 1]
      BY <2>4, <3>1
    <3>3. CASE n = j
      BY <2>5, <3>2, <3>3
    <3>4. CASE n \in 1..(j - 1)
      <4>1. g[n] = f[n]
        BY <2>4, <3>4
      <4> QED BY <2>1, <3>2, <3>4, <4>1
    <3> QED BY <3>1, <3>3, <3>4
  <2>8. \E h \in [0..j -> Nat] : Is(h, j)
    BY <2>3, <2>6, <2>7
  <2>9. j \in 0..k
    OBVIOUS
  <2> HIDE DEF Is
  <2> QED BY <2>8, <2>9, Zenon
<1> HIDE DEF T
<1>3. 0..k \subseteq T /\ k \in 0..k
  BY <1>1, <1>2, UpTo
<1> QED BY <1>3 DEF T

----------------------------------------------------------------------------
(* Powers of two.                                                           *)

\* TwoTo is the function its definition asks for: there is one.
LEMMA TwoToRecursive ==
    TwoTo[0] = 1 /\ \A n \in Nat \ {0} : TwoTo[n] = 2 * TwoTo[n - 1]
<1> DEFINE R(f, n) == f[0] = 1 /\ \A m \in 1..n : f[m] = 2 * f[m - 1]
           H(n) == CHOOSE f \in [0..n -> Nat] : R(f, n)
           F == [n \in Nat |-> H(n)[n]]
<1>1. ASSUME NEW n \in Nat PROVE H(n) \in [0..n -> Nat] /\ R(H(n), n)
  <2> DEFINE G == [p \in Nat \X (0..n) |-> IF p[2] = 0 THEN 1 ELSE 2 * p[1]]
  <2>1. G \in [Nat \X (0..n) -> Nat]
    OBVIOUS
  <2>2. G[<<0, 0>>] = 1 /\ \A x \in Nat, m \in 1..n : G[<<x, m>>] = 2 * x
    OBVIOUS
  <2> HIDE DEF G
  <2>3. PICK f \in [0..n -> Nat] :
                f[0] = G[<<0, 0>>] /\ \A m \in 1..n : f[m] = G[<<f[m - 1], m>>]
    BY <2>1, Recursion
  <2>4. ASSUME NEW m \in 1..n PROVE f[m] = 2 * f[m - 1]
    <3>1. m - 1 \in 0..n
      OBVIOUS
    <3> QED BY <2>2, <2>3, <3>1
  <2>5. R(f, n)
    BY <2>2, <2>3, <2>4
  <2> QED BY <2>5
<1> HIDE DEF H
<1>2. F[0] = 1
  BY <1>1
<1>3. ASSUME NEW n \in Nat, n # 0 PROVE F[n] = 2 * F[n - 1]
  <2>1. n - 1 \in Nat /\ n \in 1..n /\ n - 1 \in 0..(n - 1)
    BY <1>3
  <2> DEFINE f == H(n)
             g == H(n - 1)
  <2>2. R(f, n) /\ R(g, n - 1)
    BY <1>1, <2>1
  <2> HIDE DEF f, g
  <2>3. \A m \in 1..(n - 1) : m \in 1..n
    OBVIOUS
  <2>4. f[0] = g[0] /\ \A m \in 1..(n - 1) : f[m - 1] = g[m - 1] => f[m] = g[m]
    BY <2>2, <2>3
  <2>5. f[n - 1] = g[n - 1]
    <3> DEFINE T == {m \in 0..(n - 1) : f[m] = g[m]}
    <3>1. 0 \in T /\ \A m \in 1..(n - 1) : m - 1 \in T => m \in T
      BY <2>1, <2>4
    <3> HIDE DEF T
    <3>2. n - 1 \in T
      BY <2>1, <3>1, UpTo
    <3> QED BY <3>2 DEF T
  <2>6. f[n] = 2 * f[n - 1]
    BY <2>1, <2>2
  <2>7. F[n] = f[n] /\ F[n - 1] = g[n - 1]
    BY <2>1 DEF f, g
  <2> QED BY <2>5, <2>6, <2>7
<1> HIDE DEF F
<1>4. F = [n \in Nat |-> IF n = 0 THEN 1 ELSE 2 * F[n - 1]]
  <2>1. F = [n \in Nat |-> F[n]]
    BY DEF F
  <2> QED BY <1>2, <1>3, <2>1
<1>5. TwoTo = [n \in Nat |-> IF n = 0 THEN 1 ELSE 2 * TwoTo[n - 1]]
  BY <1>4 DEF TwoTo
<1> QED BY <1>5

\* A power of two is a positive number.
LEMMA TwoToPositive == \A n \in Nat : TwoTo[n] \in Nat \ {0}
<1> SUFFICES ASSUME NEW n \in Nat PROVE TwoTo[n] \in Nat \ {0}
  OBVIOUS
<1> DEFINE T == {m \in 0..n : TwoTo[m] \in Nat \ {0}}
<1>1. 0 \in T
  BY TwoToRecursive
<1>2. ASSUME NEW m \in 1..n, m - 1 \in T PROVE m \in T
  <2>1. TwoTo[m] = 2 * TwoTo[m - 1]
    BY TwoToRecursive
  <2> QED BY <1>2, <2>1
<1> HIDE DEF T
<1>3. n \in T
  BY <1>1, <1>2, UpTo
<1> QED BY <1>3 DEF T

\* 2^(a + b) = 2^a * 2^b.
LEMMA TwoToSum ==
    ASSUME NEW a \in Nat, NEW b \in Nat
    PROVE  TwoTo[a + b] = TwoTo[a] * TwoTo[b]
<1> DEFINE T == {m \in 0..b : TwoTo[a + m] = TwoTo[a] * TwoTo[m]}
<1>1. 0 \in T
  BY TwoToRecursive, TwoToPositive
<1>2. ASSUME NEW m \in 1..b, m - 1 \in T PROVE m \in T
  <2>1. TwoTo[m] = 2 * TwoTo[m - 1] /\ TwoTo[a + m] = 2 * TwoTo[a + (m - 1)]
    <3>1. m \in Nat \ {0} /\ a + m \in Nat \ {0} /\ (a + m) - 1 = a + (m - 1)
      OBVIOUS
    <3> QED BY <3>1, TwoToRecursive
  <2>2. TwoTo[a + (m - 1)] = TwoTo[a] * TwoTo[m - 1]
    BY <1>2
  <2>3. \A x, y \in Nat : 2 * (x * y) = x * (2 * y)
    OBVIOUS
  <2>4. TwoTo[a] \in Nat /\ TwoTo[m - 1] \in Nat
    BY TwoToPositive
  <2> QED BY <2>1, <2>2, <2>3, <2>4
<1> HIDE DEF T
<1>3. b \in T
  BY <1>1, <1>2, UpTo
<1> QED BY <1>3 DEF T

----------------------------------------------------------------------------
(* Numbers of digits.                                                       *)

\* A function on 1..n is a sequence.
LEMMA FunctionIsSeq ==
    ASSUME NEW S, NEW n \in Nat, NEW f \in [1..n -> S]
    PROVE  f \in Seq(S) /\ Len(f) = n
<1>1. f \in Seq(S)
  BY SeqDef
<1>2. DOMAIN f = 1..n /\ DOMAIN f = 1..Len(f) /\ Len(f) \in Nat
  BY <1>1
<1> QED BY <1>1, <1>2

\* f[n] is the number of the first n of these k digits.
OfFirst(f, base, k, d) ==
    /\ f \in [0..k -> Nat] /\ f[0] = 0
    /\ \A n \in 1..k : f[n] = base * f[n - 1] + d[n]

\* Number is the last value of the function that adds up the digits.
LEMMA NumberUpTo ==
    ASSUME NEW base \in Nat, NEW k \in Nat, NEW d \in [1..k -> Nat]
    PROVE  \E f : OfFirst(f, base, k, d) /\ Number(base, d) = f[k]
<1> DEFINE G == [p \in Nat \X (0..k) |-> IF p[2] = 0 THEN 0 ELSE base * p[1] + d[p[2]]]
           f == CHOOSE f : f = [n \in 0..k |-> IF n = 0 THEN 0 ELSE base * f[n - 1] + d[n]]
<1>1. G \in [Nat \X (0..k) -> Nat]
  <2>1. ASSUME NEW p \in Nat \X (0..k), p[2] # 0 PROVE base * p[1] + d[p[2]] \in Nat
    <3>1. p[1] \in Nat /\ d[p[2]] \in Nat
      BY <2>1
    <3>2. \A x, y \in Nat : base * x + y \in Nat
      OBVIOUS
    <3> QED BY <3>1, <3>2
  <2> QED BY <2>1
<1>2. G[<<0, 0>>] = 0 /\ \A x \in Nat, n \in 1..k : G[<<x, n>>] = base * x + d[n]
  OBVIOUS
<1> HIDE DEF G
<1>3. PICK g \in [0..k -> Nat] :
              g[0] = G[<<0, 0>>] /\ \A n \in 1..k : g[n] = G[<<g[n - 1], n>>]
  BY <1>1, Recursion
<1>4. ASSUME NEW n \in 1..k PROVE g[n] = base * g[n - 1] + d[n]
  <2>1. n - 1 \in 0..k
    OBVIOUS
  <2> QED BY <1>2, <1>3, <2>1
<1>5. g = [n \in 0..k |-> IF n = 0 THEN 0 ELSE base * g[n - 1] + d[n]]
  <2>1. ASSUME NEW n \in 0..k
        PROVE  g[n] = IF n = 0 THEN 0 ELSE base * g[n - 1] + d[n]
    <3>1. n = 0 \/ n \in 1..k
      OBVIOUS
    <3> QED BY <1>2, <1>3, <1>4, <3>1
  <2> QED BY <2>1
<1>6. f = [n \in 0..k |-> IF n = 0 THEN 0 ELSE base * f[n - 1] + d[n]]
  BY <1>5
<1>7. Number(base, d) = f[k]
  <2>1. Len(d) = k
    BY FunctionIsSeq
  <2> QED BY <2>1 DEF Number
<1> HIDE DEF f
<1>8. f[0] = 0 /\ \A n \in 1..k : f[n] = base * f[n - 1] + d[n]
  BY <1>6
<1>9. ASSUME NEW n \in 0..k PROVE f[n] = g[n]
  <2> DEFINE T == {m \in 0..k : f[m] = g[m]}
  <2>1. 0 \in T /\ \A m \in 1..k : m - 1 \in T => m \in T
    BY <1>2, <1>3, <1>4, <1>8
  <2> HIDE DEF T
  <2>2. n \in T
    BY <2>1, UpTo
  <2> QED BY <2>2 DEF T
<1>10. f \in [0..k -> Nat]
  <2>1. f = [n \in 0..k |-> f[n]]
    BY <1>6
  <2> QED BY <1>9, <2>1
<1>11. OfFirst(f, base, k, d)
  BY <1>8, <1>10 DEF OfFirst
<1> QED BY <1>7, <1>11

\* A function that adds up the digits in the same way ends in the same number.
LEMMA NumberFrom ==
    ASSUME NEW base \in Nat, NEW k \in Nat, NEW d \in [1..k -> Nat],
           NEW g, OfFirst(g, base, k, d)
    PROVE  Number(base, d) = g[k]
<1>1. PICK f : OfFirst(f, base, k, d) /\ Number(base, d) = f[k]
  BY NumberUpTo
<1> DEFINE T == {m \in 0..k : f[m] = g[m]}
<1>2. 0 \in T
  BY <1>1 DEF OfFirst
<1>3. ASSUME NEW m \in 1..k, m - 1 \in T PROVE m \in T
  BY <1>1, <1>3 DEF OfFirst
<1> HIDE DEF T
<1>4. 0..k \subseteq T
  BY <1>2, <1>3, UpTo, Zenon
<1> QED BY <1>1, <1>4 DEF T

----------------------------------------------------------------------------
(* Quotients, remainders and bits.                                          *)

\* The quotient and the remainder are the only ones.
LEMMA Division ==
    ASSUME NEW a \in Nat, NEW b \in Nat \ {0}, NEW q \in Nat, NEW r \in Nat,
           a = b * q + r, r < b
    PROVE  a \div b = q /\ a % b = r
OBVIOUS

\* What is left of a number, and its two parts.
LEMMA Divided ==
    ASSUME NEW a \in Nat, NEW b \in Nat \ {0}
    PROVE  /\ a \div b \in Nat /\ a % b \in Nat /\ a % b < b
           /\ a = b * (a \div b) + (a % b)
OBVIOUS

\* A product of positive numbers is one.
LEMMA Product ==
    ASSUME NEW a \in Nat \ {0}, NEW b \in Nat \ {0}
    PROVE  a * b \in Nat \ {0}
OBVIOUS

\* Dividing twice is dividing by the product.
LEMMA DividedTwice ==
    ASSUME NEW a \in Nat, NEW b \in Nat \ {0}, NEW c \in Nat \ {0}
    PROVE  (a \div b) \div c = a \div (b * c)
<1> DEFINE q == a \div b
           r == a % b
           u == q \div c
           v == q % c
<1>1. q \in Nat /\ r \in 0 .. b - 1 /\ a = b * q + r
  BY Divided
<1>2. u \in Nat /\ v \in 0 .. c - 1 /\ q = c * u + v
  BY <1>1, Divided
<1> HIDE DEF q, r, u, v
<1>3. a = (b * c) * u + (b * v + r)
  <2>1. b * (c * u + v) = (b * c) * u + b * v
    BY <1>2
  <2> QED BY <1>1, <1>2, <2>1
<1>4. b * v + r \in Nat /\ b * v + r < b * c
  <2>1. b * v <= b * (c - 1)
    BY <1>2
  <2>2. b * (c - 1) = b * c - b
    OBVIOUS
  <2> QED BY <1>1, <1>2, <2>1, <2>2
<1>5. a \div (b * c) = u
  BY <1>2, <1>3, <1>4, Product, Division
<1> QED BY <1>5 DEF u, q

\* The remainder by 2p is the remainder by p, and one more bit above it, and it
\* is twice the remainder by p of the half, and one more bit below it.
LEMMA OneMoreBit ==
    ASSUME NEW a \in Nat, NEW p \in Nat \ {0}
    PROVE  /\ a % (2 * p) = p * ((a \div p) % 2) + (a % p)
           /\ a % (2 * p) = 2 * ((a \div 2) % p) + (a % 2)
<1> DEFINE b == 2 * p
           q == a \div p
           r == a % p
           u == q \div 2
           v == q % 2
<1>0. b \in Nat \ {0}
  OBVIOUS
<1>1. q \in Nat /\ r \in 0 .. p - 1 /\ a = p * q + r
  BY Divided
<1>2. u \in Nat /\ v \in 0 .. 1 /\ q = 2 * u + v
  BY <1>1, Divided
<1> HIDE DEF q, r, u, v
<1>3. a = b * u + (p * v + r)
  <2>1. p * (2 * u + v) = (2 * p) * u + p * v
    BY <1>2
  <2> QED BY <1>1, <1>2, <2>1
<1>4. p * v + r \in Nat /\ p * v + r < b
  BY <1>1, <1>2
<1>5. a % b = p * v + r
  <2> HIDE DEF b
  <2> QED BY <1>0, <1>2, <1>3, <1>4, Division
<1> DEFINE s == a \div 2
           t == a % 2
           w == s \div p
           x == s % p
<1>6. s \in Nat /\ t \in 0 .. 1 /\ a = 2 * s + t
  BY Divided
<1>7. w \in Nat /\ x \in 0 .. p - 1 /\ s = p * w + x
  BY <1>6, Divided
<1> HIDE DEF s, t, w, x
<1>8. a = b * w + (2 * x + t)
  <2>1. 2 * (p * w + x) = (2 * p) * w + 2 * x
    BY <1>7
  <2> QED BY <1>6, <1>7, <2>1
<1>9. 2 * x + t \in Nat /\ 2 * x + t < b
  BY <1>6, <1>7
<1>10. a % b = 2 * x + t
  <2> HIDE DEF b
  <2> QED BY <1>0, <1>7, <1>8, <1>9, Division
<1> QED BY <1>5, <1>10 DEF q, r, u, v, s, t, w, x

\* A number's last m bits.
LEMMA LastBits ==
    ASSUME NEW x \in Nat, NEW m \in Nat, NEW d \in [1..m -> Nat],
           \A i \in 1..m : d[i] = (x \div TwoTo[m - i]) % 2
    PROVE  Number(2, d) = x % TwoTo[m]
<1> DEFINE g == [n \in 0..m |-> (x \div TwoTo[m - n]) % TwoTo[n]]
<1>1. ASSUME NEW n \in 0..m
      PROVE  /\ g[n] = (x \div TwoTo[m - n]) % TwoTo[n]
             /\ TwoTo[n] \in Nat \ {0} /\ TwoTo[m - n] \in Nat \ {0}
             /\ x \div TwoTo[m - n] \in Nat /\ g[n] \in Nat
  <2>1. n \in Nat /\ m - n \in Nat
    OBVIOUS
  <2>2. TwoTo[n] \in Nat \ {0} /\ TwoTo[m - n] \in Nat \ {0}
    BY <2>1, TwoToPositive
  <2>3. x \div TwoTo[m - n] \in Nat
    BY <2>2, Divided
  <2>4. (x \div TwoTo[m - n]) % TwoTo[n] \in Nat
    BY <2>2, <2>3, Divided
  <2> QED BY <2>2, <2>3, <2>4
<1>2. g \in [0..m -> Nat]
  BY <1>1
<1>3. g[0] = 0
  <2>1. TwoTo[0] = 1 /\ m - 0 = m
    BY TwoToRecursive
  <2>2. g[0] < 1
    BY <1>1, <2>1, Divided
  <2> QED BY <1>1, <2>2
<1>4. g[m] = x % TwoTo[m]
  <2>1. TwoTo[m - m] = 1
    BY TwoToRecursive
  <2>2. x \div 1 = x
    OBVIOUS
  <2> QED BY <2>1, <2>2
<1>5. ASSUME NEW n \in 1..m PROVE g[n] = 2 * g[n - 1] + d[n]
  <2> DEFINE y == x \div TwoTo[m - n]
             p == TwoTo[n - 1]
  <2>1. n - 1 \in 0..m /\ n \in 0..m /\ m - (n - 1) \in Nat \ {0} /\ n \in Nat \ {0}
        /\ (m - (n - 1)) - 1 = m - n /\ m - n \in Nat
    OBVIOUS
  <2>2. TwoTo[n] = 2 * p /\ TwoTo[m - (n - 1)] = 2 * TwoTo[m - n]
    BY <2>1, TwoToRecursive
  <2>3. y \in Nat /\ p \in Nat \ {0} /\ TwoTo[m - n] \in Nat \ {0}
    BY <1>1, <2>1
  <2>4. y \div 2 = x \div TwoTo[m - (n - 1)]
    <3> DEFINE a == TwoTo[m - n]
    <3>1. a \in Nat \ {0} /\ 2 \in Nat \ {0} /\ 2 * a = a * 2
      BY <2>3
    <3> HIDE DEF a
    <3>2. (x \div a) \div 2 = x \div (a * 2)
      BY <3>1, DividedTwice, Zenon
    <3> QED BY <2>2, <3>1, <3>2 DEF a
  <2>5. g[n] = y % (2 * p) /\ g[n - 1] = (y \div 2) % p
    BY <1>1, <2>1, <2>2, <2>4
  <2>6. d[n] = y % 2
    OBVIOUS
  <2> HIDE DEF g, y, p
  <2>7. y % (2 * p) = 2 * ((y \div 2) % p) + (y % 2)
    BY <2>3, OneMoreBit
  <2> QED BY <2>5, <2>6, <2>7
<1> HIDE DEF g
<1>6. Number(2, d) = g[m]
  <2>1. OfFirst(g, 2, m, d)
    BY <1>2, <1>3, <1>5 DEF OfFirst
  <2> QED BY <2>1, NumberFrom
<1> QED BY <1>4, <1>6

\* The bit above the last m tells whether the number of m + 1 bits is 2^m or more.
LEMMA TopBit ==
    ASSUME NEW x \in Nat, NEW m \in Nat
    PROVE  x % TwoTo[m + 1] >= TwoTo[m] <=> (x \div TwoTo[m]) % 2 = 1
<1> DEFINE p == TwoTo[m]
           b == (x \div p) % 2
           r == x % p
           y == x % (2 * p)
<1>1. p \in Nat \ {0} /\ x \div p \in Nat
  BY TwoToPositive, Divided
<1>2. TwoTo[m + 1] = 2 * p
  <2>1. m + 1 \in Nat \ {0} /\ (m + 1) - 1 = m
    OBVIOUS
  <2> QED BY <2>1, TwoToRecursive
<1>3. y = p * b + r
  BY <1>1, OneMoreBit
<1>4. r \in 0 .. p - 1 /\ b \in 0..1
  BY <1>1, Divided
<1> HIDE DEF p, b, r, y
<1>5. p * 0 = 0 /\ p * 1 = p
  BY <1>1
<1>6. y >= p <=> b = 1
  BY <1>1, <1>3, <1>4, <1>5
<1> QED BY <1>2, <1>6 DEF p, b, y

\* k digits below b.
Digits(d, k, b) == d \in [1..k -> 0 .. b - 1]

\* The first k - q digits, of e bits each, are what is above the last e * q bits.
LEMMA FirstDigits ==
    ASSUME NEW e \in Nat, NEW k \in Nat, NEW d, NEW f,
           Digits(d, k, TwoTo[e]), OfFirst(f, TwoTo[e], k, d)
    PROVE  \A q \in 0..k : f[k - q] = f[k] \div TwoTo[e * q]
<1> SUFFICES ASSUME NEW q \in 0..k PROVE f[k - q] = f[k] \div TwoTo[e * q]
  OBVIOUS
<1> DEFINE b == TwoTo[e]
           v == f[k]
           T == {r \in 0..q : f[k - r] = v \div TwoTo[e * r]}
<1>1. v \in Nat /\ b \in Nat \ {0}
  BY TwoToPositive DEF OfFirst
<1>2. 0 \in T
  <2>1. e * 0 = 0 /\ k - 0 = k /\ v \div 1 = v
    BY <1>1
  <2> QED BY <2>1, TwoToRecursive
<1>3. ASSUME NEW r \in 1..q, r - 1 \in T PROVE r \in T
  <2> DEFINE n == k - (r - 1)
             p == TwoTo[e * (r - 1)]
             y == f[k - r]
             x == d[n]
  <2>1. n \in 1..k /\ n - 1 = k - r /\ k - r \in 0..k /\ r - 1 \in Nat
    OBVIOUS
  <2>2. e * (r - 1) \in Nat /\ e * r = e * (r - 1) + e
    BY <2>1
  <2>3. TwoTo[e * r] = p * b /\ p \in Nat \ {0}
    BY <2>2, TwoToSum, TwoToPositive
  <2>4. f[n] = v \div p
    BY <1>3
  <2>5. x \in Nat /\ x < b /\ y \in Nat
    BY <1>1, <2>1 DEF OfFirst, Digits
  <2>6. f[n] = b * y + x /\ f[n] \in Nat
    BY <2>1 DEF OfFirst
  <2> HIDE DEF b, n, p, v, x, y
  <2>7. f[n] \div b = y
    BY <1>1, <2>5, <2>6, Division
  <2>8. (v \div p) \div b = v \div (p * b)
    BY <1>1, <2>3, DividedTwice
  <2>9. y = v \div TwoTo[e * r]
    BY <2>3, <2>4, <2>7, <2>8
  <2> QED BY <2>9 DEF y
<1> HIDE DEF T
<1>4. 0..q \subseteq T
  <2>1. q \in Nat
    OBVIOUS
  <2> QED BY <2>1, <1>2, <1>3, UpTo, Zenon
<1>5. q \in 0..q
  OBVIOUS
<1> QED BY <1>4, <1>5 DEF T

\* Bits above the first e, of which bit s is one, do not change bit s.
LEMMA BitOfLastDigit ==
    ASSUME NEW e \in Nat, NEW s \in 0 .. e - 1, NEW x \in Nat, NEW y \in Nat
    PROVE  ((TwoTo[e] * y + x) \div TwoTo[s]) % 2 = (x \div TwoTo[s]) % 2
<1> DEFINE b == TwoTo[e]
           c == TwoTo[s]
           h == TwoTo[e - 1 - s]
           u == x \div c
           w == h * y
<1>1. s \in Nat /\ e - 1 - s \in Nat
  OBVIOUS
<1>2. b \in Nat /\ c \in Nat \ {0} /\ h \in Nat \ {0}
  BY <1>1, TwoToPositive
<1>3. b = c * (2 * h)
  <2>1. (e - 1 - s) + 1 \in Nat \ {0} /\ (e - 1 - s) + 1 - 1 = e - 1 - s
        /\ e = s + ((e - 1 - s) + 1)
    OBVIOUS
  <2>2. TwoTo[(e - 1 - s) + 1] = 2 * h
    BY <2>1, TwoToRecursive
  <2>3. TwoTo[s + ((e - 1 - s) + 1)] = c * TwoTo[(e - 1 - s) + 1]
    BY <1>1, <2>1, TwoToSum
  <2> QED BY <2>1, <2>2, <2>3
<1>4. u \in Nat /\ x % c \in Nat /\ x % c < c /\ x = c * u + (x % c)
  BY <1>2, Divided
<1>5. w \in Nat /\ b * y \in Nat
  BY <1>2
<1> HIDE DEF b, c, h, u
<1>6. b * y = c * (2 * w)
  <2>1. \A i, j, l \in Nat : (i * (2 * j)) * l = i * (2 * (j * l))
    OBVIOUS
  <2> QED BY <1>2, <1>3, <2>1
<1> HIDE DEF w
<1>7. b * y + x = c * (2 * w + u) + (x % c)
  <2>1. c * (2 * w + u) = c * (2 * w) + c * u
    BY <1>2, <1>4, <1>5
  <2>2. c * (2 * w) \in Nat /\ c * u \in Nat
    BY <1>2, <1>4, <1>5
  <2> QED BY <1>4, <1>6, <2>1, <2>2
<1>8. 2 * w + u \in Nat /\ b * y + x \in Nat
  BY <1>4, <1>5
<1>9. (b * y + x) \div c = 2 * w + u
  BY <1>2, <1>4, <1>7, <1>8, Division
<1>10. (2 * w + u) % 2 = u % 2
  BY <1>4, <1>5
<1> QED BY <1>9, <1>10 DEF b, c, u

\* Bit b of a number whose digits have e bits is one of a digit.
BitOfDigits(d, k, e, b) == (d[k - b \div e] \div TwoTo[b % e]) % 2

\* That digit, and that the number is one.
LEMMA BitOfNumber ==
    ASSUME NEW e \in Nat, e > 0, NEW k \in Nat, NEW d, Digits(d, k, TwoTo[e]),
           NEW b \in 0 .. e * k - 1
    PROVE  /\ Number(TwoTo[e], d) \in Nat /\ k - b \div e \in 1..k
           /\ (Number(TwoTo[e], d) \div TwoTo[b]) % 2 = BitOfDigits(d, k, e, b)
<1>1. b \in Nat /\ b \div e \in Nat /\ b % e \in 0 .. e - 1 /\ b = e * (b \div e) + (b % e)
  <2>1. b \in Nat /\ e \in Nat \ {0}
    OBVIOUS
  <2> QED BY <2>1, Divided
<1>2. b \div e < k
  <2> DEFINE q == b \div e
  <2> HIDE DEF q
  <2>1. q \in Nat /\ e * q <= b
    BY <1>1 DEF q
  <2> SUFFICES ASSUME q >= k PROVE FALSE
    BY <2>1 DEF q
  <2>2. e * q >= e * k
    BY <2>1
  <2>3. e * q \in Nat /\ e * k \in Nat
    BY <2>1
  <2> QED BY <2>1, <2>2, <2>3
<1>3. PICK q \in 0 .. k - 1 : q = b \div e
  BY <1>1, <1>2
<1>4. PICK s \in 0 .. e - 1 : s = b % e
  BY <1>1
<1>5. b = e * q + s
  BY <1>1, <1>3, <1>4
<1> DEFINE a == TwoTo[e]
<1>6. a \in Nat /\ e \in Nat /\ d \in [1..k -> Nat]
  BY TwoToPositive DEF Digits
<1>7. k - q \in 1..k /\ k - q - 1 \in 0..k /\ q \in 0..k /\ s \in Nat /\ e * q \in Nat
  OBVIOUS
<1>8. PICK f : OfFirst(f, a, k, d) /\ Number(a, d) = f[k]
  BY <1>6, NumberUpTo
<1> DEFINE v == f[k]
           x == d[k - q]
           y == f[k - q - 1]
           p == TwoTo[e * q]
           c == TwoTo[s]
<1>9. f[k - q] = v \div p
  <2>1. \A r \in 0..k : f[k - r] = f[k] \div TwoTo[e * r]
    BY <1>8, FirstDigits, Zenon
  <2> QED BY <1>7, <2>1
<1>10. f[k - q] = a * y + x
  BY <1>7, <1>8 DEF OfFirst
<1>11. v \in Nat /\ x \in Nat /\ y \in Nat
  BY <1>6, <1>7, <1>8 DEF OfFirst
<1>12. c \in Nat \ {0} /\ p \in Nat \ {0}
  BY <1>7, TwoToPositive
<1>13. TwoTo[e * q + s] = p * c
  BY <1>7, TwoToSum
<1>14. ((a * y + x) \div c) % 2 = (x \div c) % 2
  BY <1>11, BitOfLastDigit
<1> HIDE DEF v, x, y, p, c
<1>15. v \div (p * c) = (v \div p) \div c
  BY <1>11, <1>12, DividedTwice
<1>16. v \in Nat /\ (v \div TwoTo[e * q + s]) % 2 = (x \div c) % 2
  BY <1>9, <1>10, <1>11, <1>13, <1>14, <1>15
<1>17. Number(a, d) = v /\ BitOfDigits(d, k, e, b) = (x \div c) % 2
  BY <1>3, <1>4, <1>8 DEF v, x, c, BitOfDigits
<1> QED BY <1>3, <1>5, <1>7, <1>16, <1>17

----------------------------------------------------------------------------
(* Decoding.                                                                *)

\* The byte order is undone: byte j of what is decoded is the one lettered j.
Undone(byteOrder, n) ==
    \A j \in 1..n : /\ Source(byteOrder, n)[j] \in 1..n
                    /\ PlaceOf(j, byteOrder, n) = Source(byteOrder, n)[j]

\* applyGlobalByteOrder undoes every byte order, of one, two or four registers.
LEMMA SourceOfLetter ==
    ASSUME NEW byteOrder \in ByteOrder, NEW n \in {2, 4, 8}
    PROVE  Undone(byteOrder, n)
<1> SUFFICES ASSUME NEW j \in 1..n
             PROVE  /\ Source(byteOrder, n)[j] \in 1..n
                    /\ PlaceOf(j, byteOrder, n) = Source(byteOrder, n)[j]
  BY DEF Undone
<1>1. /\ Source(byteOrder, n)[j] \in 1..n
      /\ \A k \in 1..n : Letters(byteOrder, n)[k] = j <=> k = Source(byteOrder, n)[j]
  <2>1. CASE n = 2 \/ byteOrder = "ABCD"
    <3>1. Source(byteOrder, n) = [i \in 1..n |-> i] /\ Letters(byteOrder, n) = [k \in 1..n |-> k]
      BY <2>1 DEF Source, Letters
    <3> QED BY <3>1
  <2>2. CASE n = 4 /\ byteOrder = "DCBA"
    BY <2>2 DEF Source, Letters
  <2>3. CASE n = 4 /\ byteOrder = "CDAB"
    BY <2>3 DEF Source, Letters
  <2>4. CASE n = 4 /\ byteOrder = "BADC"
    BY <2>4 DEF Source, Letters
  <2>5. CASE n = 8 /\ byteOrder = "DCBA"
    BY <2>5 DEF Source, Letters
  <2>6. CASE n = 8 /\ byteOrder = "CDAB"
    BY <2>6 DEF Source, Letters
  <2>7. CASE n = 8 /\ byteOrder = "BADC"
    BY <2>7 DEF Source, Letters
  <2> QED BY <2>1, <2>2, <2>3, <2>4, <2>5, <2>6, <2>7 DEF ByteOrder
<1> QED BY <1>1 DEF PlaceOf

\* A field is at least one bit and lies within the registers of its point.
LEMMA FieldFits ==
    ASSUME NEW pt \in PointConfig, ValidatePoint(pt), ~IsRegTypeBit(pt.reg)
    PROVE  /\ GetRegisterCount(pt) \in {1, 2, 4}
           /\ pt.off \in Nat /\ FieldLen(pt) \in Nat \ {0}
           /\ pt.off + FieldLen(pt) <= ByteBits * (2 * GetRegisterCount(pt))
           /\ pt.type \in {"Bool", "Float32", "Double"} => pt.off = 0
           /\ pt.type = "Bool" => FieldLen(pt) = 1
<1>1. pt.type \in DataType /\ pt.off \in Nat /\ pt.len \in Nat
  BY DEF PointConfig
<1>2. GetRegisterCount(pt) = Registers(pt.type) /\ Registers(pt.type) \in {1, 2, 4}
  BY DEF GetRegisterCount, Registers
<1>3. /\ pt.type \in {"Bool", "Float32", "Double"} => pt.off = 0 /\ pt.len = 0
      /\ pt.off + EffectiveLen(pt) <= TypeBitWidth(pt.type)
      /\ EffectiveLen(pt) \in Nat /\ (EffectiveLen(pt) = 0 => pt.off = 0 /\ pt.len = 0)
  BY <1>1 DEF ValidatePoint, EffectiveLen
<1>4. ByteBits * (2 * Registers(pt.type)) \in Nat \ {0} /\ ByteBits * (2 * Registers(pt.type)) >= 1
      /\ 2 * ByteBits * Registers(pt.type) = ByteBits * (2 * Registers(pt.type))
  BY <1>2, ConfigAssumption
<1>5. /\ TypeBitWidth(pt.type) \in Nat \ {0}
      /\ TypeBitWidth(pt.type) <= ByteBits * (2 * GetRegisterCount(pt))
      /\ pt.type = "Bool" => TypeBitWidth(pt.type) = 1
  BY <1>2, <1>4 DEF TypeBitWidth
<1>6. pt.type = "Bool" => EffectiveLen(pt) = 0
  BY <1>3 DEF EffectiveLen
<1>7. /\ FieldLen(pt) = (IF EffectiveLen(pt) = 0 THEN TypeBitWidth(pt.type) ELSE EffectiveLen(pt))
  BY DEF FieldLen
<1>8. ByteBits * (2 * GetRegisterCount(pt)) \in Nat
  BY <1>2, <1>4
<1> QED BY <1>1, <1>2, <1>3, <1>5, <1>6, <1>7, <1>8

\* The contents of the registers, or bits, of one type.
Registry == [0 .. AddrSpace - 1 -> 0 .. TwoTo[2 * ByteBits] - 1]

\* A byte of a register is one.
LEMMA ByteInRange ==
    ASSUME NEW registers \in Registry, NEW addr \in Nat, NEW k \in Nat \ {0},
           addr + (k - 1) \div 2 \in 0 .. AddrSpace - 1
    PROVE  ByteAt(registers, addr, k) \in 0 .. TwoTo[ByteBits] - 1
<1> DEFINE r == registers[addr + (k - 1) \div 2]
           b == TwoTo[ByteBits]
<1>1. b \in Nat \ {0}
  BY ConfigAssumption, TwoToPositive
<1>2. TwoTo[2 * ByteBits] = b * b
  <2>1. 2 * ByteBits = ByteBits + ByteBits /\ ByteBits \in Nat
    BY ConfigAssumption
  <2> QED BY <2>1, TwoToSum
<1>3. r \in 0 .. b * b - 1
  BY <1>2 DEF Registry
<1>4. ByteAt(registers, addr, k) = IF k % 2 = 1 THEN r \div b ELSE r % b
  BY DEF ByteAt
<1> HIDE DEF r, b
<1>5. r \in Nat /\ r < b * b
  <2>1. b * b \in Nat
    BY <1>1
  <2> QED BY <1>3, <2>1
<1>6. r \div b \in Nat /\ r % b \in Nat /\ r % b < b /\ r = b * (r \div b) + (r % b)
  BY <1>1, <1>5, Divided
<1> DEFINE q == r \div b
           m == r % b
<1> HIDE DEF q, m
<1>7. q \in Nat /\ m \in Nat /\ m < b /\ r = b * q + m
  BY <1>6 DEF q, m
<1>8. q < b
  <2> SUFFICES ASSUME q >= b PROVE FALSE
    BY <1>1, <1>7
  <2>1. b * q >= b * b
    BY <1>1, <1>7
  <2>2. b * q \in Nat /\ b * b \in Nat
    BY <1>1, <1>7
  <2> QED BY <1>5, <1>7, <2>1, <2>2
<1>9. q \in 0 .. b - 1 /\ m \in 0 .. b - 1
  BY <1>1, <1>7, <1>8
<1> QED BY <1>4, <1>9 DEF q, m, b

\* The bits of the number that is decoded are those the letters give.
LEMMA BitsOfValue ==
    ASSUME NEW byteOrder, NEW n \in Nat, Undone(byteOrder, n),
           NEW registers \in Registry, NEW addr \in Nat, n > 0, addr + (n - 1) \div 2 < AddrSpace,
           NEW data, Len(data) = n, \A k \in 1..n : data[k] = ByteAt(registers, addr, k)
    PROVE  LET v == BigEndian(ApplyGlobalByteOrder(byteOrder, data))
           IN  /\ v \in Nat
               /\ \A b \in 0 .. ByteBits * n - 1 :
                      (v \div TwoTo[b]) % 2 = BitOf(registers, addr, n, byteOrder, b)
<1>0. PICK d : d = ApplyGlobalByteOrder(byteOrder, data)
  OBVIOUS
<1>1. ByteBits \in Nat /\ ByteBits > 0 /\ n \in Nat
  BY ConfigAssumption
<1>2. \A k \in 1..n : ByteAt(registers, addr, k) \in 0 .. TwoTo[ByteBits] - 1
  <2> SUFFICES ASSUME NEW k \in 1..n PROVE ByteAt(registers, addr, k) \in 0 .. TwoTo[ByteBits] - 1
    OBVIOUS
  <2>1. k \in Nat \ {0} /\ (k - 1) \div 2 <= (n - 1) \div 2 /\ (k - 1) \div 2 \in Nat
    OBVIOUS
  <2>2. addr + (k - 1) \div 2 \in 0 .. AddrSpace - 1
    BY <2>1, ConfigAssumption
  <2> QED BY <2>1, <2>2, ByteInRange
<1>3. d = [i \in 1..n |-> data[Source(byteOrder, n)[i]]]
  BY <1>0 DEF ApplyGlobalByteOrder
<1>4. \A j \in 1..n : /\ d[j] = ByteAt(registers, addr, Source(byteOrder, n)[j])
                      /\ d[j] \in 0 .. TwoTo[ByteBits] - 1
  <2> SUFFICES ASSUME NEW j \in 1..n
               PROVE  /\ d[j] = ByteAt(registers, addr, Source(byteOrder, n)[j])
                      /\ d[j] \in 0 .. TwoTo[ByteBits] - 1
    OBVIOUS
  <2>1. Source(byteOrder, n)[j] \in 1..n
    BY DEF Undone
  <2>2. d[j] = data[Source(byteOrder, n)[j]]
    BY <1>3
  <2> QED BY <1>2, <2>1, <2>2
<1>5. Digits(d, n, TwoTo[ByteBits])
  <2>1. d = [j \in 1..n |-> d[j]]
    BY <1>3
  <2> QED BY <1>4, <2>1 DEF Digits
<1> DEFINE v == Number(TwoTo[ByteBits], d)
<1>6. ASSUME NEW b \in 0 .. ByteBits * n - 1
      PROVE  v \in Nat /\ (v \div TwoTo[b]) % 2 = BitOf(registers, addr, n, byteOrder, b)
  <2> DEFINE j == n - b \div ByteBits
  <2>1. v \in Nat /\ n - b \div ByteBits \in 1..n
        /\ (v \div TwoTo[b]) % 2 = BitOfDigits(d, n, ByteBits, b)
    <3>1. (v \div TwoTo[b]) % 2 = BitOfDigits(d, n, ByteBits, b)
      BY <1>1, <1>5, BitOfNumber
    <3>2. v \in Nat
      BY <1>1, <1>5, BitOfNumber, Zenon
    <3>3. n - b \div ByteBits \in 1..n
      BY <1>1, <1>5, BitOfNumber, Zenon
    <3> QED BY <3>1, <3>2, <3>3
  <2>2. BitOf(registers, addr, n, byteOrder, b) =
            (ByteAt(registers, addr, PlaceOf(j, byteOrder, n)) \div TwoTo[b % ByteBits]) % 2
    BY DEF BitOf
  <2> HIDE DEF j
  <2>3. d[j] = ByteAt(registers, addr, PlaceOf(j, byteOrder, n))
    BY <1>4, <2>1 DEF Undone, j
  <2> QED BY <2>1, <2>2, <2>3 DEF BitOfDigits, j
<1>7. 0 \in 0 .. ByteBits * n - 1
  <2>1. ByteBits * n \in Nat /\ ByteBits * n > 0
    BY <1>1
  <2> QED BY <2>1
<1>8. v = BigEndian(d)
  BY DEF BigEndian
<1> QED BY <1>0, <1>6, <1>7, <1>8

\* A field of the number that is decoded is what the field of the registers means.
LEMMA FieldMeans ==
    ASSUME NEW pt \in PointConfig, ValidatePoint(pt), ~IsRegTypeBit(pt.reg),
           NEW byteOrder, NEW registers, NEW v \in Nat, NEW n, n = 2 * GetRegisterCount(pt),
           \A b \in 0 .. ByteBits * n - 1 :
               (v \div TwoTo[b]) % 2 = BitOf(registers, pt.addr, n, byteOrder, b)
    PROVE  Convert(pt, Extracted(pt, v)) = Meaning(pt, registers, byteOrder)
<1> DEFINE w == FieldLen(pt)
           x == v \div TwoTo[pt.off]
           bit == [i \in 0 .. w - 1 |-> BitOf(registers, pt.addr, n, byteOrder, pt.off + i)]
           d == [i \in 1..w |-> bit[w - i]]
           sum == Number(2, d)
<1>1. /\ pt.off \in Nat /\ w \in Nat /\ w > 0 /\ n \in Nat /\ pt.off + w <= ByteBits * n
      /\ pt.type \in {"Bool", "Float32", "Double"} => pt.off = 0
      /\ pt.type = "Bool" => w = 1
  BY FieldFits
<1>2. Meaning(pt, registers, byteOrder) =
          CASE pt.type = "Bool" -> <<"bool", bit[0] = 1>>
            [] pt.type \in {"Float32", "Double"} -> <<"float", sum>>
            [] pt.type \in {"Int16", "Int32"} /\ w = TypeBitWidth(pt.type) /\ bit[w - 1] = 1 ->
                   <<"number", sum - TwoTo[w]>>
            [] OTHER -> <<"number", sum>>
  BY DEF Meaning
<1>3. Extracted(pt, v) = x % TwoTo[w]
  BY DEF Extracted
<1> HIDE DEF w
<1>4. x \in Nat /\ TwoTo[w] \in Nat \ {0} /\ TwoTo[pt.off] \in Nat \ {0}
  BY <1>1, TwoToPositive, Divided
<1>5. ASSUME NEW i \in 0 .. w - 1 PROVE bit[i] = (x \div TwoTo[i]) % 2
  <2>1. i \in Nat /\ pt.off + i \in 0 .. ByteBits * n - 1
    <3>1. ByteBits * n \in Nat
      BY <1>1, ConfigAssumption
    <3> QED BY <1>1, <3>1
  <2>2. bit[i] = (v \div TwoTo[pt.off + i]) % 2
    BY <2>1
  <2>3. TwoTo[pt.off + i] = TwoTo[pt.off] * TwoTo[i] /\ TwoTo[i] \in Nat \ {0}
    BY <1>1, <2>1, TwoToSum, TwoToPositive
  <2>4. v \div (TwoTo[pt.off] * TwoTo[i]) = x \div TwoTo[i]
    BY <1>4, <2>3, DividedTwice
  <2> QED BY <2>2, <2>3, <2>4
<1> HIDE DEF bit
<1>6. \A i \in 1..w : d[i] = (x \div TwoTo[w - i]) % 2 /\ d[i] \in Nat
  <2> SUFFICES ASSUME NEW i \in 1..w PROVE d[i] = (x \div TwoTo[w - i]) % 2 /\ d[i] \in Nat
    OBVIOUS
  <2>1. w - i \in 0 .. w - 1 /\ w - i \in Nat
    BY <1>1
  <2>2. d[i] = (x \div TwoTo[w - i]) % 2
    BY <1>5, <2>1
  <2>3. x \div TwoTo[w - i] \in Nat
    BY <1>4, <2>1, TwoToPositive, Divided
  <2> QED BY <2>2, <2>3
<1>7. d \in [1..w -> Nat]
  BY <1>6
<1> HIDE DEF d, x
<1>8. sum = x % TwoTo[w]
  BY <1>1, <1>4, <1>6, <1>7, LastBits
<1>9. bit[w - 1] = 1 <=> sum >= TwoTo[w - 1]
  <2>1. w - 1 \in Nat /\ w - 1 \in 0 .. w - 1 /\ (w - 1) + 1 = w
    BY <1>1
  <2>2. x % TwoTo[(w - 1) + 1] >= TwoTo[w - 1] <=> (x \div TwoTo[w - 1]) % 2 = 1
    BY <1>4, <2>1, TopBit
  <2> QED BY <1>5, <1>8, <2>1, <2>2
<1>10. CASE pt.type = "Bool"
  <2>1. sum = x % 2
    BY <1>1, <1>8, <1>10, TwoToRecursive
  <2>2. bit[0] = x % 2
    <3>1. 0 \in 0 .. w - 1 /\ x \div 1 = x
      BY <1>1, <1>4
    <3> QED BY <1>5, <3>1, TwoToRecursive
  <2>3. Extracted(pt, v) = bit[0]
    BY <1>3, <1>8, <2>1, <2>2
  <2>4. Convert(pt, Extracted(pt, v)) = <<"bool", Extracted(pt, v) = 1>>
    BY <1>10 DEF Convert, Signed
  <2>5. Meaning(pt, registers, byteOrder) = <<"bool", bit[0] = 1>>
    BY <1>2, <1>10
  <2> QED BY <2>3, <2>4, <2>5, Zenon
<1>11. CASE pt.type \in {"Float32", "Double"}
  <2>1. Convert(pt, Extracted(pt, v)) = <<"float", Extracted(pt, v)>>
    BY <1>11 DEF Convert, Signed
  <2>2. Meaning(pt, registers, byteOrder) = <<"float", sum>>
    BY <1>2, <1>11
  <2> QED BY <1>3, <1>8, <2>1, <2>2
<1>12. CASE pt.type \in {"Int16", "Int32"} /\ w = TypeBitWidth(pt.type)
  <2>1. Signed(pt)
    BY <1>12 DEF Signed, w
  <2>2. Convert(pt, Extracted(pt, v)) = <<"number", TwosComplement(sum, w)>>
    BY <1>3, <1>8, <1>12, <2>1 DEF Convert, w
  <2>3. TwosComplement(sum, w) = IF bit[w - 1] = 1 THEN sum - TwoTo[w] ELSE sum
    BY <1>9 DEF TwosComplement
  <2> QED BY <1>2, <1>12, <2>2, <2>3
<1>13. CASE /\ pt.type \notin {"Bool", "Float32", "Double"}
            /\ ~(pt.type \in {"Int16", "Int32"} /\ w = TypeBitWidth(pt.type))
  <2>1. ~Signed(pt)
    BY <1>13 DEF Signed, w
  <2> QED BY <1>2, <1>3, <1>8, <1>13, <2>1 DEF Convert
<1> QED BY <1>10, <1>11, <1>12, <1>13

----------------------------------------------------------------------------
(* A point's place in an answer.                                            *)

\* What is received is the beginning of what was sent.
BeginningOf(raw, a, k, S) ==
    raw \in Seq(S) /\ Len(raw) \in 0..k /\ \A i \in 1..Len(raw) : raw[i] = a[i]

\* Whatever is missing at its end.
LEMMA ReceivedIsPrefix ==
    ASSUME NEW S, NEW k \in Nat, NEW a \in [1..k -> S], NEW lack \in Nat
    PROVE  BeginningOf(Received(a, lack), a, k, S)
<1> DEFINE m == IF lack < k THEN k - lack ELSE 0
           raw == Received(a, lack)
<1>1. a \in Seq(S) /\ Len(a) = k
  BY FunctionIsSeq
<1>2. raw = SubSeq(a, 1, m) /\ m \in 0..k
  BY <1>1 DEF Received
<1> HIDE DEF m, raw
<1>3. 1 \in 1 .. Len(a) + 1 /\ m \in 1 - 1 .. Len(a)
  BY <1>1, <1>2
<1>4. /\ raw \in Seq(S) /\ Len(raw) = m - 1 + 1
      /\ \A i \in 1 .. m - 1 + 1 : raw[i] = a[1 + i - 1]
  BY <1>1, <1>2, <1>3, SubSeqProperties
<1>5. Len(raw) = m
  BY <1>2, <1>4
<1>6. ASSUME NEW i \in 1..m PROVE raw[i] = a[i]
  <2>1. i \in 1 .. m - 1 + 1 /\ 1 + i - 1 = i
    BY <1>2
  <2> QED BY <1>4, <2>1
<1> QED BY <1>2, <1>4, <1>5, <1>6 DEF raw, BeginningOf

\* And all of it if nothing is.
LEMMA WholeLength ==
    ASSUME NEW k \in Nat, NEW a, a = [i \in 1..k |-> a[i]]
    PROVE  Len(Received(a, 0)) = k
<1>1. PICK S : S = {a[i] : i \in 1..k}
  OBVIOUS
<1>2. a \in [1..k -> S]
  BY <1>1
<1>3. a \in Seq(S) /\ Len(a) = k
  BY <1>2, FunctionIsSeq
<1>4. Received(a, 0) = SubSeq(a, 1, k)
  BY <1>3 DEF Received
<1>5. 1 \in 1 .. Len(a) + 1 /\ k \in 1 - 1 .. Len(a)
  BY <1>3
<1>6. Len(SubSeq(a, 1, k)) = k - 1 + 1
  BY <1>3, <1>5, SubSeqProperties
<1> QED BY <1>4, <1>6

\* The n bytes of what was received that come after the first ones.
IsSlice(data, raw, first, n) == Len(data) = n /\ \A i \in 1..n : data[i] = raw[first + i]

LEMMA Slice ==
    ASSUME NEW S, NEW raw \in Seq(S), NEW from \in Nat, NEW n \in Nat, from + n <= Len(raw)
    PROVE  IsSlice(SubSeq(raw, from + 1, from + n), raw, from, n)
<1>0. PICK data : data = SubSeq(raw, from + 1, from + n)
  OBVIOUS
<1>1. from + 1 \in 1 .. Len(raw) + 1 /\ from + n \in (from + 1) - 1 .. Len(raw)
  OBVIOUS
<1>2. /\ Len(data) = (from + n) - (from + 1) + 1
      /\ \A i \in 1 .. (from + n) - (from + 1) + 1 : data[i] = raw[(from + 1) + i - 1]
  BY <1>0, <1>1, SubSeqProperties
<1>3. Len(data) = n
  BY <1>2
<1>4. ASSUME NEW i \in 1..n PROVE data[i] = raw[from + i]
  <2>1. i \in 1 .. (from + n) - (from + 1) + 1 /\ (from + 1) + i - 1 = from + i
    OBVIOUS
  <2> QED BY <1>2, <2>1
<1> QED BY <1>0, <1>3, <1>4 DEF IsSlice

\* The bytes of a point's registers, wherever in the answer they are.
BytesFrom(registers, start, qty) == [k \in 1 .. 2 * qty |-> ByteAt(registers, start, k)]

IsBytes(data, n, registers, addr) ==
    Len(data) = n /\ \A i \in 1..n : data[i] = ByteAt(registers, addr, i)

\* The bytes cut out of an answer for a point are those of the point's own registers.
LEMMA BytesOfPoint ==
    ASSUME NEW start \in Nat, NEW qty \in Nat, NEW addr \in Nat, start <= addr,
           NEW registers, NEW lack \in Nat, NEW n \in Nat,
           (addr - start) * 2 + n <= Len(Received(BytesFrom(registers, start, qty), lack)),
           NEW data, data = SubSeq(Received(BytesFrom(registers, start, qty), lack),
                                   (addr - start) * 2 + 1, (addr - start) * 2 + n)
    PROVE  IsBytes(data, n, registers, addr)
<1>0. PICK raw : raw = Received(BytesFrom(registers, start, qty), lack)
  OBVIOUS
<1>1. PICK k \in Nat : k = 2 * qty
  OBVIOUS
<1>2. PICK a : a = [i \in 1..k |-> ByteAt(registers, start, i)]
  OBVIOUS
<1>3. PICK S : S = {a[i] : i \in 1..k}
  OBVIOUS
<1>4. a \in [1..k -> S] /\ raw = Received(a, lack)
  BY <1>0, <1>1, <1>2, <1>3 DEF BytesFrom
<1>5. raw \in Seq(S) /\ Len(raw) \in 0..k /\ \A i \in 1..Len(raw) : raw[i] = a[i]
  <2>1. a \in [1..k -> S]
    BY <1>4
  <2>2. BeginningOf(Received(a, lack), a, k, S)
    BY <1>1, <2>1, ReceivedIsPrefix
  <2> QED BY <1>4, <2>2 DEF BeginningOf
<1> DEFINE from == (addr - start) * 2
<1>6. Len(data) = n /\ \A i \in 1..n : data[i] = raw[from + i]
  <2>1. from \in Nat /\ from + n <= Len(raw) /\ data = SubSeq(raw, from + 1, from + n)
    BY <1>0
  <2> HIDE DEF from
  <2>2. IsSlice(data, raw, from, n)
    BY <1>5, <2>1, Slice
  <2> QED BY <2>2 DEF IsSlice
<1>7. ASSUME NEW i \in 1..n PROVE data[i] = ByteAt(registers, addr, i)
  <2>1. from + i \in 1..Len(raw) /\ from + i \in 1..k
    BY <1>0, <1>5
  <2>2. data[i] = ByteAt(registers, start, from + i)
    BY <1>2, <1>5, <1>6, <2>1
  <2>3. PICK j \in Nat : j = from + i
    OBVIOUS
  <2>4. PICK o \in Nat : o = addr - start
    OBVIOUS
  <2>5. j % 2 = i % 2 /\ start + (j - 1) \div 2 = addr + (i - 1) \div 2
    <3>1. j = 2 * o + i /\ i - 1 \in Nat
      BY <2>3, <2>4
    <3>2. (2 * o + (i - 1)) \div 2 = o + (i - 1) \div 2
      BY <3>1
    <3>3. PICK h \in Nat : h = (i - 1) \div 2
      BY <3>1
    <3>4. j - 1 = 2 * o + (i - 1)
      BY <3>1
    <3>5. start + (j - 1) \div 2 = addr + h
      BY <2>4, <3>2, <3>3, <3>4
    <3>6. j % 2 = i % 2
      BY <3>1
    <3> QED BY <3>3, <3>5, <3>6
  <2>6. ByteAt(registers, start, j) = ByteAt(registers, addr, i)
    BY <2>5 DEF ByteAt
  <2> QED BY <2>2, <2>3, <2>6
<1> QED BY <1>6, <1>7 DEF IsBytes

\* A point lies within the read that holds it.
LEMMA PointInRead ==
    ASSUME NEW pt \in PointConfig, ValidatePoint(pt), NEW c \in ReadChunk,
           Occupies(pt) \subseteq Asks(c)
    PROVE  /\ c.start \in Nat /\ c.qty \in Nat /\ pt.addr \in Nat
           /\ c.start <= pt.addr /\ pt.addr + GetRegisterCount(pt) <= c.start + c.qty
<1>1. c.start \in Nat /\ c.qty \in Nat
  BY DEF ReadChunk
<1>2. GetRegisterCount(pt) \in 1..4 /\ pt.addr \in Nat
  BY PointEnds
<1>3. pt.addr \in Occupies(pt) /\ pt.addr + GetRegisterCount(pt) - 1 \in Occupies(pt)
  BY <1>2 DEF Occupies
<1> QED BY <1>1, <1>2, <1>3 DEF Asks

\* A truth value is a value.
LEMMA BoolIsValue == \A b \in BOOLEAN : <<"bool", b>> \in Value
BY DEF Value

\* What is decoded is a value.
LEMMA ConvertIsValue ==
    ASSUME NEW pt \in PointConfig, ValidatePoint(pt), ~IsRegTypeBit(pt.reg), NEW v \in Nat
    PROVE  Convert(pt, Extracted(pt, v)) \in Value
<1>1. PICK w : w = FieldLen(pt)
  OBVIOUS
<1>2. w \in Nat /\ w > 0 /\ pt.off \in Nat
  BY <1>1, FieldFits
<1>3. PICK e : e = Extracted(pt, v)
  OBVIOUS
<1>4. e \in Nat
  <2>1. TwoTo[w] \in Nat \ {0} /\ TwoTo[pt.off] \in Nat \ {0}
    BY <1>2, TwoToPositive
  <2>2. v \div TwoTo[pt.off] \in Nat
    BY <2>1, Divided
  <2>3. (v \div TwoTo[pt.off]) % TwoTo[w] \in Nat
    BY <2>1, <2>2, Divided
  <2> QED BY <1>1, <1>3, <2>3 DEF Extracted
<1>5. TwosComplement(e, w) \in Int
  <2>1. TwoTo[w] \in Nat
    BY <1>2, TwoToPositive
  <2> QED BY <1>4, <2>1 DEF TwosComplement
<1>6. CASE pt.type = "Bool"
  <2>1. Convert(pt, e) = <<"bool", e = 1>>
    BY <1>6 DEF Convert, Signed
  <2>2. <<"bool", e = 1>> \in Value
    BY BoolIsValue, Zenon
  <2> QED BY <1>3, <2>1, <2>2
<1>7. CASE pt.type # "Bool"
  <2>1. \/ Convert(pt, e) = <<"float", e>> \/ Convert(pt, e) = <<"number", e>>
        \/ Convert(pt, e) = <<"number", TwosComplement(e, w)>>
    BY <1>1, <1>7 DEF Convert, Signed
  <2> QED BY <1>3, <1>4, <1>5, <2>1 DEF Value
<1> QED BY <1>6, <1>7

\* What is decoded of an answer is a value, the one the registers mean.
DecodesRight(pt, start, raw, byteOrder, registers) ==
    /\ Decode(pt, start, raw, byteOrder) = Meaning(pt, registers, byteOrder)
    /\ Decode(pt, start, raw, byteOrder) \in Value

\* What parseAndUpdate decodes for a point of registers is what they mean, wherever in
\* the answer the point is.
LEMMA RegistersDecoded ==
    ASSUME NEW registers \in Registry, NEW byteOrder \in ByteOrder, NEW c \in ReadChunk,
           NEW pt \in PointConfig, ValidatePoint(pt), ~IsRegTypeBit(pt.reg),
           Occupies(pt) \subseteq Asks(c), NEW lack \in Nat,
           NEW raw, raw = Received(BytesFrom(registers, c.start, c.qty), lack),
           Fits(pt, c.start, raw)
    PROVE  DecodesRight(pt, c.start, raw, byteOrder, registers)
<1>1. PICK n : n = 2 * GetRegisterCount(pt)
  OBVIOUS
<1>2. PICK from : from = ByteOffset(pt, c.start)
  OBVIOUS
<1>3. PICK data : data = SubSeq(raw, from + 1, from + n)
  OBVIOUS
<1>4. PICK v : v = BigEndian(ApplyGlobalByteOrder(byteOrder, data))
  OBVIOUS
<1>5. GetRegisterCount(pt) \in {1, 2, 4} /\ GetRegisterCount(pt) \in Nat /\ AddrSpace \in Nat
  BY FieldFits, ConfigAssumption
<1>6. /\ c.start \in Nat /\ c.qty \in Nat /\ pt.addr \in Nat /\ c.start <= pt.addr
      /\ pt.addr + GetRegisterCount(pt) <= c.start + c.qty
  BY PointInRead
<1>7. n \in {2, 4, 8} /\ n \in Nat /\ n > 0 /\ (n - 1) \div 2 < GetRegisterCount(pt)
  BY <1>1, <1>5
<1>8. pt.addr + (n - 1) \div 2 < AddrSpace
  <2>1. pt.addr + GetRegisterCount(pt) - 1 < AddrSpace
    BY <1>5, PointEnds
  <2> QED BY <2>1, <1>5, <1>6, <1>7
<1>9. from \in Nat /\ from = (pt.addr - c.start) * 2 /\ from + n <= Len(raw)
  BY <1>1, <1>2, <1>6 DEF ByteOffset, Fits
<1>10. IsBytes(data, n, registers, pt.addr)
  BY <1>3, <1>6, <1>7, <1>9, BytesOfPoint
<1>11. Undone(byteOrder, n)
  BY <1>7, SourceOfLetter
<1>12. v \in Nat /\ \A b \in 0 .. ByteBits * n - 1 :
                       (v \div TwoTo[b]) % 2 = BitOf(registers, pt.addr, n, byteOrder, b)
  BY <1>4, <1>6, <1>7, <1>8, <1>10, <1>11, BitsOfValue DEF IsBytes
<1>13. Convert(pt, Extracted(pt, v)) = Meaning(pt, registers, byteOrder)
  BY <1>1, <1>12, FieldMeans
<1>14. Convert(pt, Extracted(pt, v)) \in Value
  BY <1>12, ConvertIsValue
<1>15. Decode(pt, c.start, raw, byteOrder) = Convert(pt, Extracted(pt, v))
  BY <1>1, <1>2, <1>3, <1>4 DEF Decode, DecodeRegisters
<1> QED BY <1>13, <1>14, <1>15 DEF DecodesRight


\* The bits of one byte of an answer of bits, and that answer.
BitsOfByte(registers, c, b) ==
    [k \in 1..ByteBits |->
        IF b * ByteBits - k < c.qty THEN registers[c.start + (b * ByteBits - k)] % 2 ELSE 0]

BitsFrom(registers, c) ==
    [b \in 1 .. (c.qty + ByteBits - 1) \div ByteBits |-> Number(2, BitsOfByte(registers, c, b))]

\* And for a point of one bit.
LEMMA BitDecoded ==
    ASSUME NEW registers \in Registry, NEW byteOrder, NEW c \in ReadChunk,
           Asks(c) \subseteq 0 .. AddrSpace - 1,
           NEW pt \in PointConfig, ValidatePoint(pt), IsRegTypeBit(pt.reg),
           Occupies(pt) \subseteq Asks(c), NEW lack \in Nat,
           NEW raw, raw = Received(BitsFrom(registers, c), lack),
           Fits(pt, c.start, raw)
    PROVE  DecodesRight(pt, c.start, raw, byteOrder, registers)
<1>0. ByteBits \in Nat /\ ByteBits > 0 /\ AddrSpace \in Nat
  BY ConfigAssumption
<1>1. /\ c.start \in Nat /\ c.qty \in Nat /\ pt.addr \in Nat
      /\ c.start <= pt.addr /\ pt.addr < c.start + c.qty
  <2>1. GetRegisterCount(pt) = 1
    BY DEF GetRegisterCount
  <2> QED BY <2>1, PointInRead
<1>2. PICK o \in Nat : o = pt.addr - c.start
  BY <1>1
<1>3. PICK q \in Nat : q = o \div ByteBits
  BY <1>0, <1>2
<1>4. PICK s \in Nat : s = o % ByteBits /\ s < ByteBits /\ o = q * ByteBits + s
  <2>1. o = ByteBits * (o \div ByteBits) + (o % ByteBits) /\ o % ByteBits \in 0 .. ByteBits - 1
    BY <1>0, Divided
  <2>2. ByteBits * q = q * ByteBits
    BY <1>0
  <2> QED BY <1>0, <1>3, <2>1, <2>2
<1>5. PICK m \in Nat : m = (c.qty + ByteBits - 1) \div ByteBits
  BY <1>0, <1>1
<1>6. raw[q + 1] = Number(2, BitsOfByte(registers, c, q + 1))
  <2>1. PICK a : a = [b \in 1..m |-> Number(2, BitsOfByte(registers, c, b))]
    OBVIOUS
  <2>2. PICK S : S = {a[i] : i \in 1..m}
    OBVIOUS
  <2>3. a \in [1..m -> S] /\ raw = Received(a, lack)
    BY <1>5, <2>1, <2>2 DEF BitsFrom
  <2>4. BeginningOf(raw, a, m, S)
    BY <2>3, ReceivedIsPrefix
  <2>5. q + 1 \in 1..Len(raw) /\ q + 1 \in 1..m
    BY <1>2, <1>3, <2>4 DEF BeginningOf, Fits, BitByte
  <2>6. raw[q + 1] = a[q + 1]
    BY <2>4, <2>5 DEF BeginningOf
  <2> QED BY <2>1, <2>5, <2>6
<1>7. PICK d : d = BitsOfByte(registers, c, q + 1)
  OBVIOUS
<1>8. ASSUME NEW k \in 1..ByteBits PROVE d[k] \in Nat /\ d[k] < 2
  <2>1. PICK i \in Int : i = (q + 1) * ByteBits - k
    BY <1>0
  <2>2. i \in Nat
    <3>1. (q + 1) * ByteBits = q * ByteBits + ByteBits /\ q * ByteBits \in Nat
      BY <1>0
    <3> QED BY <1>0, <2>1, <3>1
  <2>3. d[k] = IF i < c.qty THEN registers[c.start + i] % 2 ELSE 0
    BY <1>7, <2>1 DEF BitsOfByte
  <2>4. CASE i < c.qty
    <3>1. c.start + i \in Asks(c)
      BY <1>1, <2>2, <2>4 DEF Asks
    <3>2. registers[c.start + i] \in Nat
      BY <3>1, TwoToPositive DEF Registry
    <3> QED BY <2>3, <2>4, <3>2
  <2> QED BY <2>3, <2>4
<1>9. d = [k \in 1..ByteBits |-> d[k]]
  BY <1>7 DEF BitsOfByte
<1>10. Digits(d, ByteBits, 2)
  BY <1>8, <1>9 DEF Digits
<1>11. (Number(2, d) \div TwoTo[s]) % 2 = d[ByteBits - s]
  <2>1. TwoTo[1] = 2
    BY TwoToRecursive
  <2>2. s \in 0 .. 1 * ByteBits - 1 /\ s \div 1 = s /\ s % 1 = 0
    BY <1>0, <1>4
  <2>3. (Number(TwoTo[1], d) \div TwoTo[s]) % 2 = BitOfDigits(d, ByteBits, 1, s)
    <3>1. Digits(d, ByteBits, TwoTo[1])
      BY <1>10, <2>1
    <3> QED BY <1>0, <2>2, <3>1, BitOfNumber
  <2>4. BitOfDigits(d, ByteBits, 1, s) = (d[ByteBits - s] \div TwoTo[0]) % 2
    BY <2>2 DEF BitOfDigits
  <2>5. d[ByteBits - s] \in Nat /\ d[ByteBits - s] < 2
    BY <1>0, <1>4, <1>8
  <2>6. (d[ByteBits - s] \div TwoTo[0]) % 2 = d[ByteBits - s]
    <3>1. TwoTo[0] = 1
      BY TwoToRecursive
    <3>2. PICK x \in Nat : x = d[ByteBits - s] /\ x < 2
      BY <2>5
    <3>3. (x \div 1) % 2 = x
      BY <3>2
    <3> QED BY <3>1, <3>2, <3>3
  <2> QED BY <2>1, <2>3, <2>4, <2>6
<1>12. d[ByteBits - s] = registers[pt.addr] % 2
  <2>1. (q + 1) * ByteBits = q * ByteBits + ByteBits /\ q * ByteBits \in Nat
    BY <1>0
  <2>2. PICK k \in 1..ByteBits : k = ByteBits - s
    BY <1>0, <1>4
  <2>3. (q + 1) * ByteBits - k = o
    BY <1>0, <1>4, <2>1, <2>2
  <2>4. d[k] = IF o < c.qty THEN registers[c.start + o] % 2 ELSE 0
    BY <1>7, <2>3 DEF BitsOfByte
  <2>5. o < c.qty /\ c.start + o = pt.addr
    BY <1>1, <1>2
  <2> QED BY <2>2, <2>4, <2>5
<1>13. DecodeBit(pt, c.start, raw) = <<"bool", (raw[q + 1] \div TwoTo[s]) % 2 = 1>>
  BY <1>2, <1>3, <1>4, Zenon DEF DecodeBit, BitByte
<1>14. (raw[q + 1] \div TwoTo[s]) % 2 = registers[pt.addr] % 2
  BY <1>6, <1>7, <1>11, <1>12
<1>15. Decode(pt, c.start, raw, byteOrder) = DecodeBit(pt, c.start, raw)
  BY DEF Decode
<1>16. Meaning(pt, registers, byteOrder) = <<"bool", registers[pt.addr] % 2 = 1>>
  BY Zenon DEF Meaning
<1>17. DecodeBit(pt, c.start, raw) \in Value
  <2>1. <<"bool", (raw[q + 1] \div TwoTo[s]) % 2 = 1>> \in Value
    BY BoolIsValue, Zenon
  <2> QED BY <1>13, <2>1
<1>18. Decode(pt, c.start, raw, byteOrder) = Meaning(pt, registers, byteOrder)
  BY <1>13, <1>14, <1>15, <1>16, Zenon
<1> QED BY <1>15, <1>17, <1>18 DEF DecodesRight

----------------------------------------------------------------------------
(* Every value is true.                                                      *)

\* The reads hold points of the device only.
ReadsHoldPoints ==
    \A reg \in RegType : \A i \in DOMAIN chunks[reg] :
        chunks[reg][i].tags \subseteq DOMAIN config

CollectorInv ==
    /\ PlanInv /\ ReadsHoldPoints
    /\ order \in ByteOrder /\ memory \in Memories
    /\ position \in [RegType -> Nat]
    /\ DOMAIN udm = DOMAIN config /\ DOMAIN readFrom = DOMAIN config
    /\ ValuesAreTrue

\* Appending the read under construction keeps the reads to points of the device.
LEMMA AppendHoldsPoints ==
    ASSUME PlanInv, ReadsHoldPoints, current # None, UNCHANGED config, Append1(current)
    PROVE  ReadsHoldPoints'
<1>1. current \in Current /\ SoundSoFar(current, left) /\ current.reg \in RegType
  BY DEF PlanInv, SoundSoFar
<1>2. PICK f : f = Finished(current)
  OBVIOUS
<1>3. f \in ReadChunk /\ f.tags \subseteq DOMAIN config
  BY <1>1, <1>2, FinishedIsSound DEF PlanInv, Finished, SoundSoFar
<1>4. chunks' = [chunks EXCEPT ![current.reg] = Append(@, f)]
  BY <1>2 DEF Append1
<1>5. ASSUME NEW reg \in RegType, NEW i \in DOMAIN chunks'[reg]
      PROVE  chunks'[reg][i].tags \subseteq DOMAIN config
  <2>1. chunks[reg] \in Seq(ReadChunk)
    BY DEF PlanInv
  <2>2. CASE reg # current.reg
    BY <1>4, <2>2 DEF PlanInv, ReadsHoldPoints
  <2>3. CASE reg = current.reg
    <3>1. chunks'[reg] = Append(chunks[reg], f)
      BY <1>4, <2>3 DEF PlanInv
    <3>2. CASE i \in DOMAIN chunks[reg]
      <4>1. chunks'[reg][i] = chunks[reg][i]
        BY <1>3, <2>1, <3>1, <3>2
      <4> QED BY <4>1, <3>2 DEF ReadsHoldPoints
    <3>3. CASE i = Len(chunks[reg]) + 1
      BY <1>3, <2>1, <3>1, <3>3
    <3> QED BY <1>3, <2>1, <3>1, <3>2, <3>3
  <2> QED BY <2>2, <2>3
<1> QED BY <1>5 DEF ReadsHoldPoints

\* Every iteration of the planning keeps the reads to points of the device.
LEMMA PlanHoldsPoints == PlanInv /\ ReadsHoldPoints /\ PlanStep => ReadsHoldPoints'
<1> SUFFICES ASSUME PlanInv, ReadsHoldPoints, PlanStep PROVE ReadsHoldPoints'
  OBVIOUS
<1>1. ASSUME NEW t \in left, OpenGroup(t) \/ Merge(t) PROVE ReadsHoldPoints'
  BY <1>1 DEF OpenGroup, Merge, ReadsHoldPoints
<1>2. ASSUME NEW t \in left, Cut(t) PROVE ReadsHoldPoints'
  BY <1>2, AppendHoldsPoints DEF Cut
<1>3. CASE CloseGroup
  BY <1>3, AppendHoldsPoints DEF CloseGroup
<1> QED BY <1>1, <1>2, <1>3 DEF PlanStep

\* The value an answer has for a point of a read is what the point's registers meant.
LEMMA AnswerIsTrue ==
    ASSUME CollectorInv, NEW reg \in RegType, NEW i \in DOMAIN chunks[reg],
           NEW lack \in Nat, NEW c, c = chunks[reg][i],
           NEW raw, raw = Received(Answer(reg, c), lack),
           NEW t \in c.tags, Fits(config[t], c.start, raw)
    PROVE  DecodesRight(config[t], c.start, raw, order, memory[reg])
<1>1. c \in ReadChunk /\ ReadIsSound(reg, c) /\ c.tags \subseteq DOMAIN config
  BY DEF CollectorInv, PlanInv, ReadsAreSound, ReadsHoldPoints
<1>2. \A u \in c.tags : config[u] \in PointConfig /\ ValidatePoint(config[u])
  BY <1>1, PlansAssumption DEF CollectorInv, PlanInv
<1>3. PICK pt \in PointConfig : pt = config[t] /\ ValidatePoint(pt)
  BY <1>2
<1>4. pt.reg = reg /\ Occupies(pt) \subseteq Asks(c)
  BY <1>1, <1>3 DEF ReadIsSound
<1>5. PICK m \in Registry : m = memory[reg]
  BY CollectorAssumption DEF CollectorInv, Registry
<1>6. order \in ByteOrder
  BY DEF CollectorInv
<1>7. Fits(pt, c.start, raw)
  BY <1>3
<1>8. DecodesRight(pt, c.start, raw, order, m)
  <2>1. CASE IsRegTypeBit(reg)
    <3>1. raw = Received(BitsFrom(m, c), lack)
      BY <1>5, <2>1 DEF Answer, BitsFrom, BitsOfByte
    <3>2. Asks(c) \subseteq 0 .. AddrSpace - 1
      <4> SUFFICES ASSUME NEW a \in Asks(c) PROVE a \in 0 .. AddrSpace - 1
        OBVIOUS
      <4>1. PICK u \in c.tags : a \in Occupies(config[u])
        BY <1>1 DEF ReadIsSound
      <4>2. config[u] \in PointConfig /\ ValidatePoint(config[u])
        BY <1>2
      <4> QED BY <4>1, <4>2, PointEnds, ConfigAssumption DEF Occupies
    <3>3. IsRegTypeBit(pt.reg)
      BY <1>4, <2>1
    <3> QED BY <1>1, <1>3, <1>4, <1>5, <1>7, <3>1, <3>2, <3>3, BitDecoded
  <2>2. CASE ~IsRegTypeBit(reg)
    <3>1. raw = Received(BytesFrom(m, c.start, c.qty), lack)
      BY <1>5, <2>2 DEF Answer, BytesFrom
    <3>2. ~IsRegTypeBit(pt.reg)
      BY <1>4, <2>2
    <3> QED BY <1>1, <1>3, <1>4, <1>5, <1>6, <1>7, <3>1, <3>2, RegistersDecoded
  <2> QED BY <2>1, <2>2
<1> QED BY <1>3, <1>5, <1>8

\* There are no values at first.
LEMMA CollectorInvInit == CollectorInit => CollectorInv
<1> SUFFICES ASSUME CollectorInit PROVE CollectorInv
  OBVIOUS
<1>1. PlanInv /\ ReadsHoldPoints
  BY PlanInvInit DEF CollectorInit, PlanInit, ReadsHoldPoints
<1>2. order \in ByteOrder /\ memory \in Memories /\ position \in [RegType -> Nat]
  BY CollectorAssumption DEF CollectorInit, AtStart
<1>3. /\ DOMAIN udm = DOMAIN config /\ DOMAIN readFrom = DOMAIN config
      /\ ValuesAreTrue
  BY DEF CollectorInit, NoValues, ValuesAreTrue
<1> QED BY <1>1, <1>2, <1>3 DEF CollectorInv

\* A step that plans no read leaves the plan alone.
LEMMA PlanUnchanged ==
    ASSUME PlanInv, ReadsHoldPoints, UNCHANGED planVars
    PROVE  PlanInv' /\ ReadsHoldPoints'
<1>1. PlanInv'
  BY PlanInvStep
<1> QED BY <1>1 DEF ReadsHoldPoints, planVars

\* The values of one read are true, and the others stay so.
LEMMA ReadKeepsValues ==
    ASSUME CollectorInv, NEW reg \in RegType, NEW lack \in Missing, ReadOne(reg, lack)
    PROVE  CollectorInv'
<1>1. /\ UNCHANGED planVars /\ config' = config /\ order' = order /\ memory' = memory
      /\ position' = [position EXCEPT ![reg] = @ + 1]
  BY DEF ReadOne, planVars, deviceVars
<1>2. lack \in Nat
  BY CollectorAssumption
<1>3. PICK i \in DOMAIN chunks[reg] : i = position[reg] + 1
  <2>1. chunks[reg] \in Seq(ReadChunk) /\ position[reg] \in Nat
    BY DEF CollectorInv, PlanInv
  <2> QED BY <2>1 DEF ReadOne, ToRead
<1>4. PICK c : c = chunks[reg][i]
  OBVIOUS
<1>5. PICK raw : raw = Received(Answer(reg, c), lack)
  OBVIOUS
<1>6. /\ udm' = Updated(udm, c, raw)
      /\ readFrom' = [t \in DOMAIN readFrom |->
                         IF t \in c.tags /\ Fits(config[t], c.start, raw)
                         THEN memory[reg] ELSE readFrom[t]]
  BY <1>3, <1>4, <1>5 DEF ReadOne
<1>7. DOMAIN udm' = DOMAIN config' /\ DOMAIN readFrom' = DOMAIN config'
  BY <1>1, <1>6 DEF Updated, CollectorInv
<1>8. ASSUME NEW t \in DOMAIN config, udm'[t] # None
      PROVE  udm'[t] = Meaning(config[t], readFrom'[t], order)
  <2>1. CASE t \in c.tags /\ Fits(config[t], c.start, raw)
    <3>1. udm'[t] = Decode(config[t], c.start, raw, order) /\ readFrom'[t] = memory[reg]
      BY <1>6, <2>1 DEF Updated, CollectorInv
    <3>2. Decode(config[t], c.start, raw, order) = Meaning(config[t], memory[reg], order)
      BY <1>2, <1>3, <1>4, <1>5, <2>1, AnswerIsTrue DEF DecodesRight
    <3> QED BY <3>1, <3>2
  <2>2. CASE ~(t \in c.tags /\ Fits(config[t], c.start, raw))
    <3>1. udm'[t] = udm[t] /\ readFrom'[t] = readFrom[t]
      BY <1>6, <2>2 DEF Updated, CollectorInv
    <3> QED BY <1>8, <3>1 DEF CollectorInv, ValuesAreTrue
  <2> QED BY <2>1, <2>2
<1>9. ValuesAreTrue'
  BY <1>1, <1>8 DEF ValuesAreTrue
<1>10. position' \in [RegType -> Nat]
  BY <1>1 DEF CollectorInv
<1>11. PlanInv' /\ ReadsHoldPoints'
  BY <1>1, PlanUnchanged DEF CollectorInv
<1> QED BY <1>1, <1>7, <1>9, <1>10, <1>11 DEF CollectorInv

\* No step makes a value untrue: what the device does later changes no value read.
LEMMA CollectorInvStep ==
    CollectorInv /\ [CollectorNext]_<<planVars, deviceVars, scanVars>> => CollectorInv'
<1> SUFFICES ASSUME CollectorInv, [CollectorNext]_<<planVars, deviceVars, scanVars>>
             PROVE  CollectorInv'
  OBVIOUS
<1>1. CASE Plan
  <2>1. /\ PlanStep /\ config' = config
        /\ UNCHANGED <<order, memory, position, udm, readFrom>>
    BY <1>1 DEF Plan, PlanStep, OpenGroup, Merge, Cut, CloseGroup, deviceVars, scanVars
  <2>2. PlanInv' /\ ReadsHoldPoints'
    BY <2>1, PlanInvStep, PlanHoldsPoints DEF CollectorInv
  <2>3. ValuesAreTrue'
    BY <2>1 DEF CollectorInv, ValuesAreTrue
  <2> QED BY <2>1, <2>2, <2>3 DEF CollectorInv
<1>2. ASSUME NEW reg \in RegType, NEW lack \in Missing, ReadOne(reg, lack)
      PROVE  CollectorInv'
  BY <1>2, ReadKeepsValues
<1>3. ASSUME UNCHANGED <<planVars, order, udm, readFrom>>,
             memory' \in Memories, position' \in [RegType -> Nat]
      PROVE  CollectorInv'
  <2>1. config' = config
    BY <1>3 DEF planVars
  <2>2. PlanInv' /\ ReadsHoldPoints'
    BY <1>3, PlanUnchanged DEF CollectorInv
  <2>3. ValuesAreTrue'
    BY <1>3, <2>1 DEF CollectorInv, ValuesAreTrue
  <2> QED BY <1>3, <2>1, <2>2, <2>3 DEF CollectorInv
<1>4. AtStart \in [RegType -> Nat]
  BY DEF AtStart
<1>5. CASE DeviceChanges
  BY <1>3, <1>5 DEF DeviceChanges, scanVars, CollectorInv
<1>6. CASE StartScan
  BY <1>3, <1>6 DEF StartScan, deviceVars, CollectorInv
<1>7. CASE ReadFails
  BY <1>3, <1>4, <1>7 DEF ReadFails, deviceVars, CollectorInv
<1>8. CASE CompleteScan
  BY <1>3, <1>4, <1>8 DEF CompleteScan, deviceVars, CollectorInv
<1>9. CASE UNCHANGED <<planVars, deviceVars, scanVars>>
  BY <1>3, <1>9 DEF deviceVars, scanVars, CollectorInv
<1> QED BY <1>1, <1>2, <1>5, <1>6, <1>7, <1>8, <1>9 DEF CollectorNext, ScanStep

\* Whatever the points, the reads they were merged into, the byte order, the width of
\* a byte and the bytes an answer lacks, a value of the UDM is what its point's own
\* registers meant at the moment they were read: ValuesAreTrue.
THEOREM CollectorIsTrue == CollectorSpec => []ValuesAreTrue
<1>1. CollectorInv => ValuesAreTrue
  BY DEF CollectorInv
<1> QED BY <1>1, CollectorInvInit, CollectorInvStep, PTL DEF CollectorSpec

\* A collector plans as ReadPlan says and then leaves its plan alone, so that what is
\* proved of the plan holds during its scans: PlanSpec.
THEOREM CollectorPlans == CollectorSpec => PlanSpec
<1>1. CollectorInit => PlanInit
  BY DEF CollectorInit
<1>2. [CollectorNext]_<<planVars, deviceVars, scanVars>> => [PlanStep]_planVars
  <2> SUFFICES ASSUME [CollectorNext]_<<planVars, deviceVars, scanVars>>
               PROVE  PlanStep \/ UNCHANGED planVars
    OBVIOUS
  <2> QED BY DEF CollectorNext, Plan, DeviceChanges, ScanStep, StartScan, ReadOne, ReadFails,
                 CompleteScan
<1> QED BY <1>1, <1>2, PTL DEF CollectorSpec, PlanSpec

----------------------------------------------------------------------------
(* A completed scan is whole.                                                *)

\* The reads done have left a value for each of their points.
ReadHaveValues ==
    \A reg \in RegType : \A i \in DOMAIN chunks[reg] :
        i <= position[reg] => \A t \in chunks[reg][i].tags : scan[t] # None

\* What a scan may have collected.
Values == [DOMAIN config -> Value \cup {None}]

\* A scan follows the planning and starts with no read done.
WholeInv ==
    /\ CollectorInv
    /\ scan = None => position = AtStart
    /\ scan # None => Planned /\ scan \in Values /\ ReadHaveValues

\* An answer that lacks nothing reaches every point of its read.
LEMMA WholeAnswerFits ==
    ASSUME CollectorInv, NEW reg \in RegType, NEW i \in DOMAIN chunks[reg],
           NEW c, c = chunks[reg][i], NEW t \in c.tags
    PROVE  Fits(config[t], c.start, Received(Answer(reg, c), 0))
<1>1. c \in ReadChunk /\ ReadIsSound(reg, c) /\ c.tags \subseteq DOMAIN config
  BY DEF CollectorInv, PlanInv, ReadsAreSound, ReadsHoldPoints
<1>2. PICK pt \in PointConfig : pt = config[t] /\ ValidatePoint(pt)
  BY <1>1, PlansAssumption DEF CollectorInv, PlanInv
<1>3. pt.reg = reg /\ Occupies(pt) \subseteq Asks(c)
  BY <1>1, <1>2 DEF ReadIsSound
<1>4. /\ c.start \in Nat /\ c.qty \in Nat /\ pt.addr \in Nat
      /\ c.start <= pt.addr /\ pt.addr + GetRegisterCount(pt) <= c.start + c.qty
  BY <1>1, <1>2, <1>3, PointInRead
<1>5. GetRegisterCount(pt) \in 1..4
  BY <1>2, PointEnds
<1>6. Fits(pt, c.start, Received(Answer(reg, c), 0))
  <2>1. CASE IsRegTypeBit(reg)
    <3>1. PICK m \in Nat : m = (c.qty + ByteBits - 1) \div ByteBits
      BY <1>4, ConfigAssumption
    <3>2. Len(Received(Answer(reg, c), 0)) = m
      BY <2>1, <3>1, WholeLength DEF Answer
    <3>3. (pt.addr - c.start) \div ByteBits < m
      <4>1. PICK o \in Nat : o = pt.addr - c.start /\ o < c.qty
        BY <1>4, <1>5
      <4>2. PICK b \in Nat : b = ByteBits /\ b > 0
        BY ConfigAssumption
      <4> DEFINE q == o \div b
                 u == c.qty + b - 1
      <4>3. q \in Nat /\ u \in Nat /\ b * q <= o
        <5>0. o \in Nat /\ b \in Nat \ {0}
          BY <4>1, <4>2
        <5>1. /\ o \div b \in Nat /\ o % b \in Nat /\ o % b < b
              /\ o = b * (o \div b) + (o % b)
          BY <5>0, Divided, Zenon
        <5>2. b * (o \div b) \in Nat /\ u \in Nat
          BY <1>4, <4>2, <5>1
        <5> QED BY <5>1, <5>2
      <4>4. u \div b \in Nat /\ u % b < b /\ u % b \in Nat /\ u = b * (u \div b) + (u % b)
        BY <4>2, <4>3, Divided
      <4>5. q < u \div b
        <5> DEFINE v == u \div b
        <5> HIDE DEF v
        <5> SUFFICES ASSUME v <= q PROVE FALSE
          BY <4>3, <4>4 DEF v
        <5>1. v \in Nat /\ u < b * v + b
          BY <4>2, <4>3, <4>4 DEF v
        <5>2. b * v <= b * q
          BY <4>2, <4>3, <5>1
        <5>3. u >= o + b
          BY <1>4, <4>1, <4>2
        <5>4. b * v \in Nat /\ b * q \in Nat
          BY <4>2, <4>3, <5>1
        <5> HIDE DEF u, q
        <5> QED BY <4>1, <4>2, <4>3, <5>1, <5>2, <5>3, <5>4
      <4> QED BY <3>1, <4>1, <4>2, <4>5
    <3> QED BY <1>3, <2>1, <3>2, <3>3 DEF Fits, BitByte
  <2>2. CASE ~IsRegTypeBit(reg)
    <3>1. PICK m \in Nat : m = 2 * c.qty
      BY <1>4
    <3>2. Len(Received(Answer(reg, c), 0)) = m
      BY <2>2, <3>1, WholeLength DEF Answer
    <3>3. (pt.addr - c.start) * 2 + 2 * GetRegisterCount(pt) <= m
      BY <1>4, <1>5, <3>1
    <3> QED BY <1>3, <2>2, <3>2, <3>3 DEF Fits, ByteOffset
  <2> QED BY <2>1, <2>2
<1> QED BY <1>2, <1>6

\* None is not among what a scan may have collected.
LEMMA ValuesAreNotNone == ASSUME PlanInv PROVE None \notin Values
BY CollectorAssumption DEF PlanInv, Values

\* No scan is under way at first.
LEMMA WholeInit == CollectorInit => WholeInv
<1> SUFFICES ASSUME CollectorInit PROVE WholeInv
  OBVIOUS
<1>1. CollectorInv
  BY CollectorInvInit
<1>2. scan = None /\ position = AtStart
  BY DEF CollectorInit
<1> QED BY <1>1, <1>2 DEF WholeInv

\* A read gives its points a value and leaves those of the others.
LEMMA ReadFills ==
    ASSUME Missing = {0}, WholeInv, NEW reg \in RegType, NEW lack \in Missing,
           ReadOne(reg, lack)
    PROVE  WholeInv'
<1>1. /\ CollectorInv /\ scan # None /\ Planned /\ scan \in Values /\ ReadHaveValues
      /\ chunks[reg] \in Seq(ReadChunk) /\ position \in [RegType -> Nat] /\ lack = 0
  BY DEF WholeInv, ReadOne, CollectorInv, PlanInv
<1>2. /\ UNCHANGED <<config, left, current, chunks>>
      /\ position' = [position EXCEPT ![reg] = @ + 1]
  BY DEF ReadOne, planVars
<1>3. PICK i \in DOMAIN chunks[reg] : i = position[reg] + 1
  BY <1>1 DEF ReadOne, ToRead
<1>4. PICK c : c = chunks[reg][i]
  OBVIOUS
<1>5. PICK raw : raw = Received(Answer(reg, c), 0)
  OBVIOUS
<1>6. scan' = Updated(scan, c, raw)
  BY <1>1, <1>3, <1>4, <1>5 DEF ReadOne
<1>7. ASSUME NEW t \in c.tags
      PROVE  Fits(config[t], c.start, raw) /\ Decode(config[t], c.start, raw, order) \in Value
  <2>1. Fits(config[t], c.start, raw)
    BY <1>1, <1>4, <1>5, WholeAnswerFits
  <2>2. Decode(config[t], c.start, raw, order) \in Value
    BY <1>1, <1>4, <1>5, <2>1, AnswerIsTrue DEF DecodesRight
  <2> QED BY <2>1, <2>2
<1>8. ASSUME NEW t \in DOMAIN config
      PROVE  /\ scan'[t] \in Value \cup {None}
             /\ t \in c.tags \/ scan[t] # None => scan'[t] # None
  <2>1. CASE t \in c.tags
    <3>1. scan'[t] = Decode(config[t], c.start, raw, order)
      BY <1>1, <1>6, <1>7, <2>1 DEF Updated, Values
    <3> QED BY <1>7, <2>1, <3>1, CollectorAssumption
  <2>2. CASE t \notin c.tags
    <3>1. scan'[t] = scan[t]
      BY <1>1, <1>6, <2>2 DEF Updated, Values
    <3> QED BY <1>1, <2>2, <3>1 DEF Values
  <2> QED BY <2>1, <2>2
<1>9. scan' \in Values
  <2>1. scan' = [t \in DOMAIN config |-> scan'[t]]
    BY <1>1, <1>6 DEF Updated, Values
  <2> QED BY <1>8, <2>1 DEF Values
<1>10. scan' # None
  BY <1>1, <1>9, ValuesAreNotNone DEF CollectorInv
<1>11. CollectorInv'
  BY <1>1, ReadKeepsValues
<1>12. ReadHaveValues'
  <2> SUFFICES ASSUME NEW r \in RegType, NEW j \in DOMAIN chunks[r], j <= position'[r],
                      NEW t \in chunks[r][j].tags
               PROVE  scan'[t] # None
    BY <1>2 DEF ReadHaveValues
  <2>1. t \in DOMAIN config
    BY <1>1 DEF CollectorInv, ReadsHoldPoints
  <2>2. CASE r = reg /\ j = i
    BY <1>4, <1>8, <2>1, <2>2
  <2>3. CASE ~(r = reg /\ j = i)
    <3>1. j <= position[r]
      <4>1. CASE r # reg
        BY <1>1, <1>2, <4>1
      <4>2. CASE r = reg
        <5>1. position'[r] = position[r] + 1 /\ j # i /\ j \in Nat
          BY <1>1, <1>2, <2>3, <4>2
        <5> QED BY <1>1, <1>3, <4>2, <5>1
      <4> QED BY <4>1, <4>2
    <3>2. scan[t] # None
      BY <1>1, <3>1 DEF ReadHaveValues
    <3> QED BY <1>8, <2>1, <3>2
  <2> QED BY <2>2, <2>3
<1>13. Planned' /\ Values' = Values
  BY <1>1, <1>2 DEF Planned, Values
<1> QED BY <1>9, <1>10, <1>11, <1>12, <1>13 DEF WholeInv

\* A scan begins with no read done, and no other step changes what it has.
LEMMA WholeStep ==
    ASSUME Missing = {0}
    PROVE  WholeInv /\ [CollectorNext]_<<planVars, deviceVars, scanVars>> => WholeInv'
<1> SUFFICES ASSUME WholeInv, [CollectorNext]_<<planVars, deviceVars, scanVars>>
             PROVE  WholeInv'
  OBVIOUS
<1>1. CollectorInv'
  BY CollectorInvStep DEF WholeInv
<1>2. CASE Plan
  <2>1. scan = None
    BY <1>2 DEF Plan, PlanStep, CloseGroup, WholeInv, Planned
  <2>2. scan' = scan /\ position' = position
    BY <1>2 DEF Plan, scanVars
  <2> QED BY <1>1, <2>1, <2>2 DEF WholeInv, AtStart
<1>3. CASE DeviceChanges \/ UNCHANGED <<planVars, deviceVars, scanVars>>
  <2>1. UNCHANGED <<config, left, current, chunks, position, scan>>
    BY <1>3 DEF DeviceChanges, planVars, scanVars
  <2> QED BY <1>1, <2>1 DEF WholeInv, Planned, Values, ReadHaveValues, AtStart
<1>4. CASE StartScan
  <2>1. /\ Planned /\ scan = None /\ scan' = NoValues /\ position = AtStart
        /\ UNCHANGED <<config, left, current, chunks, position>>
    BY <1>4 DEF StartScan, planVars, WholeInv
  <2>2. scan' \in Values /\ Planned' /\ Values' = Values
    BY <2>1 DEF Values, NoValues, Planned
  <2>3. scan' # None
    BY <2>2, ValuesAreNotNone DEF WholeInv, CollectorInv
  <2>4. ReadHaveValues'
    <3> SUFFICES ASSUME NEW r \in RegType, NEW j \in DOMAIN chunks[r], j <= position[r]
                 PROVE  FALSE
      BY <2>1 DEF ReadHaveValues
    <3>1. chunks[r] \in Seq(ReadChunk) /\ position[r] = 0
      BY <2>1 DEF WholeInv, CollectorInv, PlanInv, AtStart
    <3> QED BY <3>1
  <2> QED BY <1>1, <2>2, <2>3, <2>4 DEF WholeInv
<1>5. ASSUME NEW reg \in RegType, NEW lack \in Missing, ReadOne(reg, lack)
      PROVE  WholeInv'
  BY <1>5, ReadFills
<1>6. CASE ReadFails \/ CompleteScan
  <2>1. scan' = None /\ position' = AtStart
    BY <1>6 DEF ReadFails, CompleteScan
  <2> QED BY <1>1, <2>1 DEF WholeInv, AtStart
<1> QED BY <1>2, <1>3, <1>4, <1>5, <1>6 DEF CollectorNext, ScanStep

\* When no byte of an answer is missing, what completeScan hands over has a value for
\* every point of the device, whatever the points and the order of the groups: no scan
\* is counted as complete with a point that was not read, or read past the answer's
\* end: ScanIsWhole.
THEOREM ScansAreWhole == ASSUME Missing = {0} PROVE CollectorSpec => []ScanIsWhole
<1>1. WholeInv /\ EachPointOnce => ScanIsWhole
  <2> SUFFICES ASSUME WholeInv, EachPointOnce, ScanIsDone, NEW t \in DOMAIN config
               PROVE  scan[t] # None
    BY DEF ScanIsWhole
  <2>1. Planned /\ ReadHaveValues /\ CollectorInv
    BY DEF WholeInv, ScanIsDone
  <2>2. PICK reg \in RegType : reg = config[t].reg
    BY <2>1, PlansAssumption DEF CollectorInv, PlanInv, PointConfig
  <2>3. PICK i \in DOMAIN chunks[reg] : t \in chunks[reg][i].tags
    BY <2>1, <2>2 DEF EachPointOnce
  <2>4. chunks[reg] \in Seq(ReadChunk) /\ position[reg] = Len(chunks[reg])
    BY <2>1 DEF CollectorInv, PlanInv, ScanIsDone
  <2>5. i <= position[reg]
    BY <2>4
  <2> QED BY <2>1, <2>3, <2>5 DEF ReadHaveValues
<1>2. CollectorSpec => []EachPointOnce
  BY CollectorPlans, PlanIsComplete, PTL
<1> QED BY <1>1, <1>2, WholeInit, WholeStep, PTL DEF CollectorSpec

==============================================================================
