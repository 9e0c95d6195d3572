-------------------------- MODULE ConnManagerProofs --------------------------
(***************************************************************************)
(* What holds of a collector's connection for every number of goroutines and *)
(* retries, and however often a timer beats the code that can run: its       *)
(* type, that one reconnect works at a time, and that a connection shown as  *)
(* reconnecting or offline has a goroutine working on it.                    *)
(*                                                                          *)
(* The flag and the state are stored apart from one another, so the argument *)
(* is about the reconnect between its last store and its release: it holds   *)
(* the flag alone, and what it has left the state at is nobody's to change   *)
(* but a probe's, which ends only when the state is no longer offline.       *)
(***************************************************************************)
EXTENDS ConnManager, TLAPS

\* Whoever is in the loop has set the flag.
FlagHeld == \A g \in Reconnect : InLoop(g) => reconnecting

\* Run calls ReconnectWithBackoff once, after its dial.
FirstOnce == run \in {"boot", "dial"} => rec[Run] = "none"

\* A reconnect that has given up or is about to release leaves nothing to be done, or
\* a probe.
LeavesWell ==
    ~cancelled =>
        \A g \in Reconnect :
            /\ rec[g] \in {"probe", "release"} => state # "reconnecting"
            /\ rec[g] = "release" /\ state = "offline" => \E h \in Probe : probe[h] # "none"

\* TypeOK in two, the flags apart from the rest.
Flags ==
    /\ up \in BOOLEAN /\ broken \in BOOLEAN /\ cancelled \in BOOLEAN
    /\ attached \in BOOLEAN /\ leaked \in BOOLEAN /\ reconnecting \in BOOLEAN

Places ==
    /\ late \in 0..MaxLate
    /\ stop \in {"idle", "close", "wait", "stopped"}
    /\ run \in {"boot", "dial", "backoff", "tick", "client", "read", "done"}
    /\ handler \in {"none", "closed", "open"}
    /\ client \in {"none", "current", "older"}
    /\ state \in {"online", "reconnecting", "offline"}
    /\ rec \in [Reconnect -> {"none", "cas", "tear", "wait", "dial", "online",
                              "give", "probe", "release"}]
    /\ attempt \in [Reconnect -> 0..MaxRetries]
    /\ probe \in [Probe -> {"none", "wait", "dial", "online"}]

IInv == TypeOK /\ SingleReconnect /\ FlagHeld /\ FirstOnce /\ NeverAbandoned /\ LeavesWell

LEMMA InitOK == Init => IInv
<1> SUFFICES ASSUME Init PROVE IInv
  OBVIOUS
<1>1. Flags
  BY Zenon DEF Init, Flags
<1>2. Places
  BY ConnAssumption DEF Init, Places
<1>3. SingleReconnect /\ FlagHeld /\ FirstOnce /\ NeverAbandoned /\ LeavesWell
  BY DEF Init, SingleReconnect, FlagHeld, FirstOnce, NeverAbandoned, LeavesWell, InLoop, Reconnect
<1> QED BY <1>1, <1>2, <1>3 DEF IInv, TypeOK, Flags, Places

----------------------------------------------------------------------------
(* The steps that are not a reconnect's or a probe's.                       *)

LEMMA DeviceOK ==
    ASSUME IInv, DeviceToggles
    PROVE  IInv'
<1> USE ConnAssumption DEF IInv, Reconnect, env
<1>1. TypeOK'
  <2>1. Flags'
    BY Zenon DEF TypeOK, Flags, DeviceToggles
  <2>2. Places'
    BY DEF TypeOK, Places, DeviceToggles
  <2> QED BY <2>1, <2>2 DEF TypeOK, Flags, Places
<1>2. SingleReconnect' /\ FlagHeld' /\ FirstOnce'
  BY DEF TypeOK, SingleReconnect, FlagHeld, FirstOnce, InLoop, DeviceToggles
<1>3. NeverAbandoned'
  BY <1>2 DEF TypeOK, SingleReconnect, FlagHeld, FirstOnce, NeverAbandoned, LeavesWell, InLoop, DeviceToggles
<1>4. LeavesWell'
  BY <1>2 DEF TypeOK, SingleReconnect, FlagHeld, NeverAbandoned, LeavesWell, InLoop, DeviceToggles
<1> QED BY <1>1, <1>2, <1>3, <1>4

LEMMA AttachOK ==
    ASSUME IInv, Attach
    PROVE  IInv'
<1> USE ConnAssumption DEF IInv, Reconnect, env
<1>1. TypeOK'
  BY DEF TypeOK, Attach, RunGoes, conn
<1>2. SingleReconnect' /\ FlagHeld' /\ FirstOnce'
  BY DEF TypeOK, SingleReconnect, FlagHeld, FirstOnce, InLoop, Attach, RunGoes, conn
<1>3. NeverAbandoned'
  BY <1>2 DEF TypeOK, SingleReconnect, FlagHeld, FirstOnce, NeverAbandoned, LeavesWell, InLoop, Attach, RunGoes, conn
<1>4. LeavesWell'
  BY <1>2 DEF TypeOK, SingleReconnect, FlagHeld, NeverAbandoned, LeavesWell, InLoop, Attach, RunGoes, conn
<1> QED BY <1>1, <1>2, <1>3, <1>4

LEMMA FirstDialOK ==
    ASSUME IInv, FirstDial
    PROVE  IInv'
<1> USE ConnAssumption DEF IInv, Reconnect, env
<1>1. TypeOK'
  <2>1. /\ handler' \in {"none", "closed", "open"} /\ client' \in {"none", "current", "older"}
        /\ broken' \in BOOLEAN
    BY DEF TypeOK, FirstDial, Dial
  <2>2. leaked' \in BOOLEAN
    BY ZenonT(30) DEF TypeOK, FirstDial, Dial
  <2>3. /\ run' \in {"tick", "backoff"}
        /\ rec' = rec \/ rec' = [rec EXCEPT ![Run] = "cas"]
    BY DEF FirstDial, RunGoes
  <2>4. rec' \in [Reconnect -> {"none", "cas", "tear", "wait", "dial", "online",
                              "give", "probe", "release"}]
    BY <2>3 DEF TypeOK
  <2>5. UNCHANGED <<up, late, cancelled, attached, stop, state, reconnecting, attempt, probe>>
    BY DEF FirstDial
  <2> QED BY <2>1, <2>2, <2>3, <2>4, <2>5 DEF TypeOK
<1>2. SingleReconnect' /\ FlagHeld' /\ FirstOnce'
  BY DEF TypeOK, SingleReconnect, FlagHeld, FirstOnce, InLoop, FirstDial, RunGoes, Dial
<1>3. NeverAbandoned'
  BY <1>2 DEF TypeOK, SingleReconnect, FlagHeld, FirstOnce, NeverAbandoned, LeavesWell, InLoop, FirstDial, RunGoes, Dial
<1>4. LeavesWell'
  BY <1>2 DEF TypeOK, SingleReconnect, FlagHeld, NeverAbandoned, LeavesWell, InLoop, FirstDial, RunGoes, Dial
<1> QED BY <1>1, <1>2, <1>3, <1>4

LEMMA FirstReturnsOK ==
    ASSUME IInv, FirstReturns
    PROVE  IInv'
<1> USE ConnAssumption DEF IInv, Reconnect, env
<1>1. TypeOK'
  BY DEF TypeOK, FirstReturns, RunGoes, conn
<1>2. SingleReconnect' /\ FlagHeld' /\ FirstOnce'
  BY DEF TypeOK, SingleReconnect, FlagHeld, FirstOnce, InLoop, FirstReturns, RunGoes, conn
<1>3. NeverAbandoned'
  BY <1>2 DEF TypeOK, SingleReconnect, FlagHeld, FirstOnce, NeverAbandoned, LeavesWell, InLoop, FirstReturns, RunGoes, conn
<1>4. LeavesWell'
  BY <1>2 DEF TypeOK, SingleReconnect, FlagHeld, NeverAbandoned, LeavesWell, InLoop, FirstReturns, RunGoes, conn
<1> QED BY <1>1, <1>2, <1>3, <1>4

LEMMA ScanTickOK ==
    ASSUME IInv, ScanTick
    PROVE  IInv'
<1> USE ConnAssumption DEF IInv, Reconnect, env
<1>1. TypeOK'
  BY DEF TypeOK, ScanTick, TimerFires, RunGoes, conn
<1>2. SingleReconnect' /\ FlagHeld' /\ FirstOnce'
  BY DEF TypeOK, SingleReconnect, FlagHeld, FirstOnce, InLoop, ScanTick, TimerFires, RunGoes, conn
<1>3. NeverAbandoned'
  BY <1>2 DEF TypeOK, SingleReconnect, FlagHeld, FirstOnce, NeverAbandoned, LeavesWell, InLoop, ScanTick, RunGoes, conn
<1>4. LeavesWell'
  BY <1>2 DEF TypeOK, SingleReconnect, FlagHeld, NeverAbandoned, LeavesWell, InLoop, ScanTick, RunGoes, conn
<1> QED BY <1>1, <1>2, <1>3, <1>4

LEMMA GetClientOK ==
    ASSUME IInv, GetClient
    PROVE  IInv'
<1> USE ConnAssumption DEF IInv, Reconnect, env
<1>1. TypeOK'
  BY DEF TypeOK, GetClient, RunGoes, conn
<1>2. SingleReconnect' /\ FlagHeld' /\ FirstOnce'
  BY DEF TypeOK, SingleReconnect, FlagHeld, FirstOnce, InLoop, GetClient, RunGoes, conn
<1>3. NeverAbandoned'
  BY <1>2 DEF TypeOK, SingleReconnect, FlagHeld, FirstOnce, NeverAbandoned, LeavesWell, InLoop, GetClient, RunGoes, conn
<1>4. LeavesWell'
  BY <1>2 DEF TypeOK, SingleReconnect, FlagHeld, NeverAbandoned, LeavesWell, InLoop, GetClient, RunGoes, conn
<1> QED BY <1>1, <1>2, <1>3, <1>4

LEMMA ScanDoneOK ==
    ASSUME IInv, ScanDone
    PROVE  IInv'
<1> USE ConnAssumption DEF IInv, Reconnect, env
<1>1. TypeOK'
  BY DEF TypeOK, ScanDone, RunGoes, conn
<1>2. SingleReconnect' /\ FlagHeld' /\ FirstOnce'
  BY DEF TypeOK, SingleReconnect, FlagHeld, FirstOnce, InLoop, ScanDone, RunGoes, conn
<1>3. NeverAbandoned'
  BY <1>2 DEF TypeOK, SingleReconnect, FlagHeld, FirstOnce, NeverAbandoned, LeavesWell, InLoop, ScanDone, RunGoes, conn
<1>4. LeavesWell'
  BY <1>2 DEF TypeOK, SingleReconnect, FlagHeld, NeverAbandoned, LeavesWell, InLoop, ScanDone, RunGoes, conn
<1> QED BY <1>1, <1>2, <1>3, <1>4

LEMMA ScanExitOK ==
    ASSUME IInv, ScanExit
    PROVE  IInv'
<1> USE ConnAssumption DEF IInv, Reconnect, env
<1>1. TypeOK'
  BY DEF TypeOK, ScanExit, RunGoes, conn
<1>2. SingleReconnect' /\ FlagHeld' /\ FirstOnce'
  BY DEF TypeOK, SingleReconnect, FlagHeld, FirstOnce, InLoop, ScanExit, RunGoes, conn
<1>3. NeverAbandoned'
  BY <1>2 DEF TypeOK, SingleReconnect, FlagHeld, FirstOnce, NeverAbandoned, LeavesWell, InLoop, ScanExit, RunGoes, conn
<1>4. LeavesWell'
  BY <1>2 DEF TypeOK, SingleReconnect, FlagHeld, NeverAbandoned, LeavesWell, InLoop, ScanExit, RunGoes, conn
<1> QED BY <1>1, <1>2, <1>3, <1>4

LEMMA ScanFailsOK ==
    ASSUME IInv, NEW g \in Spawned, ScanFails(g)
    PROVE  IInv'
<1> USE ConnAssumption DEF IInv, Reconnect, env
<1>1. TypeOK'
  BY DEF TypeOK, ScanFails, RunGoes, conn
<1>2. SingleReconnect' /\ FlagHeld' /\ FirstOnce'
  BY DEF TypeOK, SingleReconnect, FlagHeld, FirstOnce, InLoop, ScanFails, RunGoes, conn
<1>3. NeverAbandoned'
  BY <1>2 DEF TypeOK, SingleReconnect, FlagHeld, FirstOnce, NeverAbandoned, LeavesWell, InLoop, ScanFails, RunGoes, conn
<1>4. LeavesWell'
  BY <1>2 DEF TypeOK, SingleReconnect, FlagHeld, NeverAbandoned, LeavesWell, InLoop, ScanFails, RunGoes, conn
<1> QED BY <1>1, <1>2, <1>3, <1>4

LEMMA StopOK ==
    ASSUME IInv, StopCancel \/ StopClose \/ StopWait
    PROVE  IInv'
<1> USE ConnAssumption DEF IInv, Reconnect, env
<1>1. TypeOK'
  <2>1. Flags'
    BY Zenon DEF TypeOK, Flags, StopCancel, StopClose, StopWait, Disconnect, conn
  <2>2. Places'
    BY DEF TypeOK, Places, StopCancel, StopClose, StopWait, Disconnect, conn
  <2> QED BY <2>1, <2>2 DEF TypeOK, Flags, Places
<1>2. SingleReconnect' /\ FlagHeld' /\ FirstOnce'
  BY DEF TypeOK, SingleReconnect, FlagHeld, FirstOnce, InLoop, StopCancel, StopClose, StopWait, Disconnect, conn
<1>3. NeverAbandoned'
  BY <1>2 DEF TypeOK, SingleReconnect, FlagHeld, FirstOnce, NeverAbandoned, LeavesWell, InLoop, StopCancel, StopClose, StopWait, Disconnect, conn
<1>4. LeavesWell'
  BY <1>2 DEF TypeOK, SingleReconnect, FlagHeld, NeverAbandoned, LeavesWell, InLoop, StopCancel, StopClose, StopWait, Disconnect, conn
<1> QED BY <1>1, <1>2, <1>3, <1>4

----------------------------------------------------------------------------
(* The steps of a reconnect.                                                *)

LEMMA CompareAndSwapOK ==
    ASSUME IInv, NEW g \in Reconnect, CompareAndSwap(g)
    PROVE  IInv'
<1> USE ConnAssumption DEF IInv, Reconnect, env
<1>1. TypeOK'
  <2>1. Flags'
    BY Zenon DEF TypeOK, Flags, CompareAndSwap, Taken, RecGoes, conn
  <2>2. Places'
    BY DEF TypeOK, Places, CompareAndSwap, Taken, RecGoes, conn
  <2> QED BY <2>1, <2>2 DEF TypeOK, Flags, Places
<1>2. SingleReconnect' /\ FlagHeld' /\ FirstOnce'
  BY DEF TypeOK, SingleReconnect, FlagHeld, FirstOnce, InLoop, CompareAndSwap, Taken, RecGoes, conn
<1>3. NeverAbandoned'
  BY <1>2 DEF TypeOK, SingleReconnect, FlagHeld, FirstOnce, NeverAbandoned, LeavesWell, InLoop, CompareAndSwap, Taken, RecGoes, conn
<1>4. LeavesWell'
  BY <1>2 DEF TypeOK, SingleReconnect, FlagHeld, NeverAbandoned, LeavesWell, InLoop, CompareAndSwap, Taken, RecGoes, conn
<1> QED BY <1>1, <1>2, <1>3, <1>4

LEMMA TearOK ==
    ASSUME IInv, NEW g \in Reconnect, Tear(g)
    PROVE  IInv'
<1> USE ConnAssumption DEF IInv, Reconnect, env
<1>1. TypeOK'
  BY DEF TypeOK, Tear, Disconnect, RecGoes
<1>2. SingleReconnect' /\ FlagHeld' /\ FirstOnce'
  BY DEF TypeOK, SingleReconnect, FlagHeld, FirstOnce, InLoop, Tear, Disconnect, RecGoes
<1>3. NeverAbandoned'
  BY <1>2 DEF TypeOK, SingleReconnect, FlagHeld, FirstOnce, NeverAbandoned, LeavesWell, InLoop, Tear, Disconnect, RecGoes
<1>4. LeavesWell'
  BY <1>2 DEF TypeOK, SingleReconnect, FlagHeld, NeverAbandoned, LeavesWell, InLoop, Tear, Disconnect, RecGoes
<1> QED BY <1>1, <1>2, <1>3, <1>4

LEMMA BackoffOK ==
    ASSUME IInv, NEW g \in Reconnect, BackoffCancelled(g) \/ BackoffElapsed(g)
    PROVE  IInv'
<1> USE ConnAssumption DEF IInv, Reconnect, env
<1>1. TypeOK'
  BY DEF TypeOK, BackoffCancelled, BackoffElapsed, TimerFires, Interrupted, RecGoes, conn
<1>2. SingleReconnect' /\ FlagHeld' /\ FirstOnce'
  BY DEF TypeOK, SingleReconnect, FlagHeld, FirstOnce, InLoop, BackoffCancelled, BackoffElapsed, TimerFires, Interrupted, RecGoes, conn
<1>3. NeverAbandoned'
  BY <1>2 DEF TypeOK, SingleReconnect, FlagHeld, FirstOnce, NeverAbandoned, LeavesWell, InLoop, BackoffCancelled, BackoffElapsed, Interrupted, RecGoes, conn
<1>4. LeavesWell'
  BY <1>2 DEF TypeOK, SingleReconnect, FlagHeld, NeverAbandoned, LeavesWell, InLoop, BackoffCancelled, BackoffElapsed, Interrupted, RecGoes, conn
<1> QED BY <1>1, <1>2, <1>3, <1>4

LEMMA RedialOK ==
    ASSUME IInv, NEW g \in Reconnect, Redial(g)
    PROVE  IInv'
<1> USE ConnAssumption DEF IInv, Reconnect, env
<1>1. TypeOK'
  <2>1. Flags'
    BY Zenon DEF TypeOK, Flags, Redial, Last, Dial, RecGoes
  <2>2. Places'
    BY DEF TypeOK, Places, Redial, Last, Dial, RecGoes
  <2> QED BY <2>1, <2>2 DEF TypeOK, Flags, Places
<1>2. SingleReconnect' /\ FlagHeld' /\ FirstOnce'
  BY DEF TypeOK, SingleReconnect, FlagHeld, FirstOnce, InLoop, Redial, Last, Dial, RecGoes
<1>3. NeverAbandoned'
  BY <1>2 DEF TypeOK, SingleReconnect, FlagHeld, FirstOnce, NeverAbandoned, LeavesWell, InLoop, Redial, Last, Dial, RecGoes
<1>4. LeavesWell'
  BY <1>2 DEF TypeOK, SingleReconnect, FlagHeld, NeverAbandoned, LeavesWell, InLoop, Redial, Last, Dial, RecGoes
<1> QED BY <1>1, <1>2, <1>3, <1>4

LEMMA BackOnlineOK ==
    ASSUME IInv, NEW g \in Reconnect, BackOnline(g)
    PROVE  IInv'
<1> USE ConnAssumption DEF IInv, Reconnect, env
<1>1. TypeOK'
  BY DEF TypeOK, BackOnline, RecGoes, conn
<1>2. SingleReconnect' /\ FlagHeld' /\ FirstOnce'
  BY DEF TypeOK, SingleReconnect, FlagHeld, FirstOnce, InLoop, BackOnline, RecGoes, conn
<1>3. NeverAbandoned'
  BY <1>2 DEF TypeOK, SingleReconnect, FlagHeld, FirstOnce, NeverAbandoned, LeavesWell, InLoop, BackOnline, RecGoes, conn
<1>4. LeavesWell'
  BY <1>2 DEF TypeOK, SingleReconnect, FlagHeld, NeverAbandoned, LeavesWell, InLoop, BackOnline, RecGoes, conn
<1> QED BY <1>1, <1>2, <1>3, <1>4

LEMMA GiveUpOK ==
    ASSUME IInv, NEW g \in Reconnect, GiveUp(g)
    PROVE  IInv'
<1> USE ConnAssumption DEF IInv, Reconnect, env
<1>1. TypeOK'
  BY DEF TypeOK, GiveUp, RecGoes, conn
<1>2. SingleReconnect' /\ FlagHeld' /\ FirstOnce'
  BY DEF TypeOK, SingleReconnect, FlagHeld, FirstOnce, InLoop, GiveUp, RecGoes, conn
<1>3. NeverAbandoned'
  BY <1>2 DEF TypeOK, SingleReconnect, FlagHeld, FirstOnce, NeverAbandoned, LeavesWell, InLoop, GiveUp, RecGoes, conn
<1>4. LeavesWell'
  BY <1>2 DEF TypeOK, SingleReconnect, FlagHeld, NeverAbandoned, LeavesWell, InLoop, GiveUp, RecGoes, conn
<1> QED BY <1>1, <1>2, <1>3, <1>4

LEMMA SpawnProbeOK ==
    ASSUME IInv, NEW g \in Reconnect, SpawnProbe(g)
    PROVE  IInv'
<1> USE ConnAssumption DEF IInv, Reconnect, env
<1>1. TypeOK'
  BY DEF TypeOK, SpawnProbe, StartProbe, RecGoes, conn
<1>2. SingleReconnect' /\ FlagHeld' /\ FirstOnce'
  BY DEF TypeOK, SingleReconnect, FlagHeld, FirstOnce, InLoop, SpawnProbe, StartProbe, RecGoes, conn
<1>3. NeverAbandoned'
  BY <1>2 DEF TypeOK, SingleReconnect, FlagHeld, FirstOnce, NeverAbandoned, LeavesWell, InLoop, SpawnProbe, StartProbe, RecGoes, conn
<1>4. LeavesWell'
  BY <1>2 DEF TypeOK, SingleReconnect, FlagHeld, NeverAbandoned, LeavesWell, InLoop, SpawnProbe, StartProbe, RecGoes, conn
<1> QED BY <1>1, <1>2, <1>3, <1>4

LEMMA ReleaseOK ==
    ASSUME IInv, NEW g \in Reconnect, Release(g)
    PROVE  IInv'
<1> USE ConnAssumption DEF IInv, Reconnect, env
<1>1. TypeOK'
  <2>1. Flags'
    BY Zenon DEF TypeOK, Flags, Release, LetGo, RecGoes, conn
  <2>2. Places'
    BY DEF TypeOK, Places, Release, LetGo, RecGoes, conn
  <2> QED BY <2>1, <2>2 DEF TypeOK, Flags, Places
<1>2. SingleReconnect' /\ FlagHeld' /\ FirstOnce'
  BY DEF TypeOK, SingleReconnect, FlagHeld, FirstOnce, InLoop, Release, LetGo, RecGoes, conn
<1>3. NeverAbandoned'
  BY <1>2 DEF TypeOK, SingleReconnect, FlagHeld, FirstOnce, NeverAbandoned, LeavesWell, InLoop, Release, LetGo, RecGoes, conn
<1>4. LeavesWell'
  BY <1>2 DEF TypeOK, SingleReconnect, FlagHeld, NeverAbandoned, LeavesWell, InLoop, Release, LetGo, RecGoes, conn
<1> QED BY <1>1, <1>2, <1>3, <1>4

----------------------------------------------------------------------------
(* The steps of a probe.                                                    *)

LEMMA ProbeCancelledOK ==
    ASSUME IInv, NEW h \in Probe, ProbeCancelled(h)
    PROVE  IInv'
<1> USE ConnAssumption DEF IInv, Reconnect, env
<1>1. TypeOK'
  BY DEF TypeOK, ProbeCancelled, Interrupted, ProbeGoes, conn
<1>2. SingleReconnect' /\ FlagHeld' /\ FirstOnce'
  BY DEF TypeOK, SingleReconnect, FlagHeld, FirstOnce, InLoop, ProbeCancelled, Interrupted, ProbeGoes, conn
<1>3. NeverAbandoned'
  BY <1>2 DEF TypeOK, SingleReconnect, FlagHeld, FirstOnce, NeverAbandoned, LeavesWell, InLoop, ProbeCancelled, Interrupted, ProbeGoes, conn
<1>4. LeavesWell'
  BY <1>2 DEF TypeOK, SingleReconnect, FlagHeld, NeverAbandoned, LeavesWell, InLoop, ProbeCancelled, Interrupted, ProbeGoes, conn
<1> QED BY <1>1, <1>2, <1>3, <1>4

LEMMA ProbeTickOK ==
    ASSUME IInv, NEW h \in Probe, ProbeTick(h)
    PROVE  IInv'
<1> USE ConnAssumption DEF IInv, Reconnect, env
<1>1. TypeOK'
  BY DEF TypeOK, ProbeTick, TimerFires, ProbeGoes, conn
<1>2. SingleReconnect' /\ FlagHeld' /\ FirstOnce'
  BY DEF TypeOK, SingleReconnect, FlagHeld, FirstOnce, InLoop, ProbeTick, TimerFires, ProbeGoes, conn
<1>3. NeverAbandoned'
  BY <1>2 DEF TypeOK, SingleReconnect, FlagHeld, FirstOnce, NeverAbandoned, LeavesWell, InLoop, ProbeTick, ProbeGoes, conn
<1>4. LeavesWell'
  BY <1>2 DEF TypeOK, SingleReconnect, FlagHeld, NeverAbandoned, LeavesWell, InLoop, ProbeTick, ProbeGoes, conn
<1> QED BY <1>1, <1>2, <1>3, <1>4

LEMMA ProbeDialOK ==
    ASSUME IInv, NEW h \in Probe, ProbeDial(h)
    PROVE  IInv'
<1> USE ConnAssumption DEF IInv, Reconnect, env
<1>1. TypeOK'
  <2>1. Flags'
    BY Zenon DEF TypeOK, Flags, ProbeDial, Dial, ProbeGoes
  <2>2. Places'
    BY DEF TypeOK, Places, ProbeDial, Dial, ProbeGoes
  <2> QED BY <2>1, <2>2 DEF TypeOK, Flags, Places
<1>2. SingleReconnect' /\ FlagHeld' /\ FirstOnce'
  BY DEF TypeOK, SingleReconnect, FlagHeld, FirstOnce, InLoop, ProbeDial, Dial, ProbeGoes
<1>3. NeverAbandoned'
  BY <1>2 DEF TypeOK, SingleReconnect, FlagHeld, FirstOnce, NeverAbandoned, LeavesWell, InLoop, ProbeDial, Dial, ProbeGoes
<1>4. LeavesWell'
  BY <1>2 DEF TypeOK, SingleReconnect, FlagHeld, NeverAbandoned, LeavesWell, InLoop, ProbeDial, Dial, ProbeGoes
<1> QED BY <1>1, <1>2, <1>3, <1>4

LEMMA ProbeOnlineOK ==
    ASSUME IInv, NEW h \in Probe, ProbeOnline(h)
    PROVE  IInv'
<1> USE ConnAssumption DEF IInv, Reconnect, env
<1>1. TypeOK'
  BY DEF TypeOK, ProbeOnline, ProbeGoes, conn
<1>2. SingleReconnect' /\ FlagHeld' /\ FirstOnce'
  BY DEF TypeOK, SingleReconnect, FlagHeld, FirstOnce, InLoop, ProbeOnline, ProbeGoes, conn
<1>3. NeverAbandoned'
  BY <1>2 DEF TypeOK, SingleReconnect, FlagHeld, FirstOnce, NeverAbandoned, LeavesWell, InLoop, ProbeOnline, ProbeGoes, conn
<1>4. LeavesWell'
  BY <1>2 DEF TypeOK, SingleReconnect, FlagHeld, NeverAbandoned, LeavesWell, InLoop, ProbeOnline, ProbeGoes, conn
<1> QED BY <1>1, <1>2, <1>3, <1>4

LEMMA StutterOK ==
    ASSUME IInv, UNCHANGED vars
    PROVE  IInv'
BY DEF IInv, TypeOK, SingleReconnect, FlagHeld, FirstOnce, NeverAbandoned, LeavesWell, InLoop, vars, env, conn

----------------------------------------------------------------------------
LEMMA StepOK == IInv /\ [Next]_vars => IInv'
<1> SUFFICES ASSUME IInv, [Next]_vars PROVE IInv'
  OBVIOUS
<1>1. CASE DeviceToggles
  BY <1>1, DeviceOK
<1>2. CASE RunStep
  BY <1>2, AttachOK, FirstDialOK, FirstReturnsOK, ScanTickOK, GetClientOK, ScanDoneOK, ScanExitOK,
     ScanFailsOK DEF RunStep
<1>3. ASSUME NEW g \in Reconnect, RecStep(g) PROVE IInv'
  BY <1>3, CompareAndSwapOK, TearOK, BackoffOK, RedialOK, BackOnlineOK, GiveUpOK, SpawnProbeOK,
     ReleaseOK DEF RecStep
<1>4. ASSUME NEW h \in Probe, ProbeStep(h) PROVE IInv'
  BY <1>4, ProbeCancelledOK, ProbeTickOK, ProbeDialOK, ProbeOnlineOK DEF ProbeStep
<1>5. CASE StopCancel \/ StopClose \/ StopWait
  BY <1>5, StopOK
<1>6. CASE UNCHANGED vars
  BY <1>6, StutterOK
<1> QED
  BY <1>1, <1>2, <1>3, <1>4, <1>5, <1>6 DEF Next

LEMMA Inductive == Spec => []IInv
BY InitOK, StepOK, PTL DEF Spec

\* Every variable keeps its type: attempts never pass maxRetries.
THEOREM TypeCorrect == Spec => []TypeOK
<1>1. IInv => TypeOK
  BY DEF IInv
<1> QED BY <1>1, Inductive, PTL

\* However many failing scans spawn a reconnect, one is in its loop at a time.
THEOREM OneReconnect == Spec => []SingleReconnect
<1>1. IInv => SingleReconnect
  BY DEF IInv
<1> QED BY <1>1, Inductive, PTL

\* However probes, late reconnects and their stores interleave, a connection shown as
\* reconnecting or offline has a goroutine working on it while the collector is wanted.
THEOREM NothingAbandoned == Spec => []NeverAbandoned
<1>1. IInv => NeverAbandoned
  BY DEF IInv
<1> QED BY <1>1, Inductive, PTL

----------------------------------------------------------------------------
(* No connection is dropped unclosed while no timer beats a goroutine that    *)
(* could run: whoever dials is then alone with the connection, and it is closed. *)

\* Goroutines that redial, and that find the connection closed.
Redials(g) == rec[g] \in {"wait", "dial", "give"}
Closed == handler # "open"

\* One reconnect or one probe at a time, none beside a scan or before the first dial.
OneAtATime ==
    /\ \A g, h \in Reconnect : rec[g] # "none" /\ rec[h] # "none" => g = h
    /\ \A h, i \in Probe : probe[h] # "none" /\ probe[i] # "none" => h = i
    /\ \A h \in Probe, g \in Reconnect :
          /\ probe[h] # "none" => rec[g] \in {"none", "release"}
          /\ probe[h] \in {"dial", "online"} => rec[g] = "none"
    /\ run \in {"boot", "dial", "client", "read"} =>
          /\ \A g \in Reconnect : rec[g] = "none"
          /\ \A h \in Probe : probe[h] = "none"

DialsClosed ==
    /\ run \in {"boot", "dial"} => Closed
    /\ \A g \in Reconnect :
          /\ Redials(g) => Closed /\ state = "reconnecting"
          /\ rec[g] = "probe" => Closed /\ state = "offline"
    /\ \A h \in Probe : probe[h] \in {"wait", "dial"} => Closed /\ state = "offline"

ClientIsHandler == ~leaked /\ client # "older" /\ (client = "current" <=> ~Closed)

CalmInv == late = 0 => OneAtATime /\ DialsClosed /\ ClientIsHandler

LEMMA CalmInit == Init => CalmInv
BY DEF Init, CalmInv, OneAtATime, DialsClosed, ClientIsHandler, Closed, Redials

\* A dial that finds the connection closed leaves nothing behind.
LEMMA DialOnClosed ==
  ASSUME ClientIsHandler, Closed, NEW ok \in BOOLEAN, Dial(ok)
  PROVE  ClientIsHandler' /\ (~ok => Closed')
<1>1. ~leaked'
  BY Zenon DEF ClientIsHandler, Closed, Dial
<1>2. client # "current" /\ client # "older"
  BY DEF ClientIsHandler, Closed
<1>3. \/ handler' = "open" /\ client' = "current" /\ ok
      \/ handler' = "closed" /\ client' = client
  BY <1>2, Zenon DEF Dial
<1> QED BY <1>1, <1>2, <1>3 DEF ClientIsHandler, Closed

LEMMA DisconnectCloses ==
  ASSUME ClientIsHandler, NEW then \in {"none", "closed"}, Disconnect(then)
  PROVE  ClientIsHandler' /\ Closed'
BY DEF ClientIsHandler, Closed, Disconnect

LEMMA TimerIsLast ==
  ASSUME TypeOK, TimerFires, late' = 0
  PROVE  late = 0 /\ ~Computing
BY DEF TypeOK, TimerFires

LEMMA CalmRun ==
  ASSUME TypeOK, CalmInv, RunStep, late' = 0
  PROVE  OneAtATime' /\ DialsClosed' /\ ClientIsHandler'
<1> USE DEF RunGoes, env, conn
<1>1. CASE Attach \/ FirstReturns \/ GetClient \/ ScanDone \/ ScanExit
  BY <1>1 DEF Attach, FirstReturns, GetClient, ScanDone, ScanExit, CalmInv, OneAtATime, DialsClosed,
     ClientIsHandler, Closed, Redials
<1>2. CASE FirstDial
  <2>1. late = 0 /\ run = "dial" /\ \E ok \in BOOLEAN : Dial(ok)
    BY <1>2 DEF FirstDial
  <2>2. ClientIsHandler'
    BY <2>1, DialOnClosed DEF CalmInv, DialsClosed
  <2>3. OneAtATime'
    BY <1>2, <2>1, ConnAssumption DEF FirstDial, CalmInv, OneAtATime, TypeOK, Reconnect
  <2>4. DialsClosed'
    BY <1>2, <2>1, ConnAssumption DEF FirstDial, CalmInv, OneAtATime, DialsClosed, Redials, TypeOK,
       Reconnect
  <2> QED BY <2>2, <2>3, <2>4
<1>3. CASE ScanTick
  <2>1. late = 0 /\ ~Computing /\ state = "online" /\ run' = "client"
    BY <1>3, TimerIsLast DEF ScanTick
  <2>2. \A g \in Reconnect : rec[g] = "none"
    BY <2>1 DEF Computing, CalmInv, DialsClosed, Redials, TypeOK
  <2>3. \A h \in Probe : probe[h] = "none"
    BY <2>1 DEF Computing, CalmInv, DialsClosed, TypeOK
  <2> QED
    BY <1>3, <2>1, <2>2, <2>3 DEF ScanTick, CalmInv, OneAtATime, DialsClosed, ClientIsHandler, Closed,
       Redials
<1>4. ASSUME NEW g \in Spawned, ScanFails(g)
      PROVE  OneAtATime' /\ DialsClosed' /\ ClientIsHandler'
  BY <1>4 DEF ScanFails, CalmInv, OneAtATime, DialsClosed, ClientIsHandler, Closed, Redials, TypeOK,
     Reconnect
<1> QED BY <1>1, <1>2, <1>3, <1>4 DEF RunStep

LEMMA CalmRec ==
  ASSUME TypeOK, CalmInv, NEW g \in Reconnect, RecStep(g), late' = 0
  PROVE  OneAtATime' /\ DialsClosed' /\ ClientIsHandler'
<1> USE DEF RecGoes, env, conn
<1>1. CASE CompareAndSwap(g) \/ BackoffCancelled(g) \/ BackOnline(g) \/ Release(g)
  BY <1>1 DEF CompareAndSwap, BackoffCancelled, BackOnline, Release, CalmInv, OneAtATime, DialsClosed,
     ClientIsHandler, Closed, Redials, TypeOK
<1>2. CASE Tear(g)
  <2>1. ClientIsHandler' /\ Closed'
    BY <1>2, DisconnectCloses DEF Tear, CalmInv
  <2> QED BY <1>2, <2>1 DEF Tear, CalmInv, OneAtATime, DialsClosed, Redials, TypeOK
<1>3. CASE BackoffElapsed(g)
  <2>1. late = 0
    BY <1>3, TimerIsLast DEF BackoffElapsed
  <2> QED
    BY <1>3, <2>1 DEF BackoffElapsed, CalmInv, OneAtATime, DialsClosed, ClientIsHandler, Closed,
       Redials, TypeOK
<1>4. CASE Redial(g)
  <2>1. late = 0 /\ rec[g] = "dial" /\ Closed
    BY <1>4 DEF Redial, CalmInv, DialsClosed, Redials
  <2>2. ClientIsHandler' /\ (Closed' \/ rec' = [rec EXCEPT ![g] = "online"])
    BY <1>4, <2>1, DialOnClosed DEF Redial, CalmInv
  <2>3. OneAtATime'
    <3>1. /\ \E to \in {"online", "wait", "give"} : rec' = [rec EXCEPT ![g] = to]
          /\ UNCHANGED <<run, probe>>
      BY <1>4 DEF Redial
    <3> QED BY <2>1, <3>1 DEF CalmInv, OneAtATime, TypeOK
  <2>4. DialsClosed'
    BY <1>4, <2>1, <2>2 DEF Redial, CalmInv, OneAtATime, DialsClosed, Redials, TypeOK
  <2> QED BY <2>2, <2>3, <2>4
<1>5. CASE GiveUp(g)
  BY <1>5 DEF GiveUp, CalmInv, OneAtATime, DialsClosed, ClientIsHandler, Closed, Redials, TypeOK
<1>6. CASE SpawnProbe(g)
  BY <1>6 DEF SpawnProbe, StartProbe, CalmInv, OneAtATime, DialsClosed, ClientIsHandler, Closed,
     Redials, TypeOK
<1> QED BY <1>1, <1>2, <1>3, <1>4, <1>5, <1>6 DEF RecStep

LEMMA CalmProbe ==
  ASSUME TypeOK, CalmInv, NEW h \in Probe, ProbeStep(h), late' = 0
  PROVE  OneAtATime' /\ DialsClosed' /\ ClientIsHandler'
<1> USE DEF ProbeGoes, env, conn
<1>1. CASE ProbeCancelled(h) \/ ProbeOnline(h)
  BY <1>1 DEF ProbeCancelled, ProbeOnline, CalmInv, OneAtATime, DialsClosed, ClientIsHandler, Closed,
     Redials, TypeOK
<1>2. CASE ProbeTick(h)
  <2>1. late = 0 /\ ~Computing
    BY <1>2, TimerIsLast DEF ProbeTick
  <2>2. \A g \in Reconnect : rec[g] = "none"
    BY <1>2, <2>1 DEF ProbeTick, Computing, CalmInv, OneAtATime, TypeOK
  <2> QED
    BY <1>2, <2>1, <2>2 DEF ProbeTick, CalmInv, OneAtATime, DialsClosed, ClientIsHandler, Closed,
       Redials, TypeOK
<1>3. CASE ProbeDial(h)
  <2>1. late = 0 /\ probe[h] = "dial" /\ Closed
    BY <1>3 DEF ProbeDial, CalmInv, DialsClosed
  <2>2. ClientIsHandler' /\ (Closed' \/ probe' = [probe EXCEPT ![h] = "online"])
    BY <1>3, <2>1, DialOnClosed DEF ProbeDial, CalmInv
  <2>3. OneAtATime'
    <3>1. /\ \E to \in {"online", "wait"} : probe' = [probe EXCEPT ![h] = to]
          /\ UNCHANGED <<run, rec>>
      BY <1>3 DEF ProbeDial
    <3> QED BY <2>1, <3>1 DEF CalmInv, OneAtATime, TypeOK
  <2>4. DialsClosed'
    BY <1>3, <2>1, <2>2 DEF ProbeDial, CalmInv, OneAtATime, DialsClosed, Redials, TypeOK
  <2> QED BY <2>2, <2>3, <2>4
<1> QED BY <1>1, <1>2, <1>3 DEF ProbeStep

LEMMA CalmStep == TypeOK /\ CalmInv /\ [Next]_vars => CalmInv'
<1> SUFFICES ASSUME TypeOK, CalmInv, [Next]_vars, late' = 0
             PROVE  OneAtATime' /\ DialsClosed' /\ ClientIsHandler'
  BY DEF CalmInv
<1>1. CASE DeviceToggles \/ StopCancel \/ StopWait \/ UNCHANGED vars
  <2>1. UNCHANGED <<late, run, handler, client, leaked, state, rec, probe>>
    BY <1>1 DEF DeviceToggles, StopCancel, StopWait, vars, env, conn
  <2> QED BY <2>1 DEF CalmInv, OneAtATime, DialsClosed, ClientIsHandler, Closed, Redials
<1>2. CASE StopClose
  <2>1. late = 0 /\ UNCHANGED <<run, rec, probe, state>>
    BY <1>2 DEF StopClose, env
  <2>2. ClientIsHandler' /\ (Closed => Closed')
    BY <1>2, <2>1, DisconnectCloses DEF StopClose, CalmInv, conn, ClientIsHandler, Closed
  <2> QED BY <2>1, <2>2 DEF CalmInv, OneAtATime, DialsClosed, Redials
<1> QED BY <1>1, <1>2, CalmRun, CalmRec, CalmProbe DEF Next

\* While the runnable code is faster than the timers, no open connection is replaced or
\* forgotten without being closed, whatever the outages, give-ups and probes: NoLeak.
THEOREM NothingLeaks == Spec => []NoLeak
<1>1. IInv => TypeOK
  BY DEF IInv
<1>2. CalmInv => NoLeak
  BY DEF CalmInv, ClientIsHandler, NoLeak
<1> QED BY <1>1, <1>2, CalmInit, CalmStep, Inductive, PTL DEF Spec

==============================================================================
