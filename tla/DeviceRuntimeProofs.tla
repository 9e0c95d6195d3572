------------------------ MODULE DeviceRuntimeProofs ------------------------
(***************************************************************************)
(* Proofs about DeviceRuntime for any devices, clients, collectors and      *)
(* config versions.                                                         *)
(***************************************************************************)
EXTENDS DeviceRuntime, TLAPS

\* The steps of an operation that hold the device's opMu.
Locked == {"persist", "stop", "cancel", "wait", "waitErr", "check", "load", "install"}

\* opMu excludes: a caller inside an operation is the one the lock names.
LockInv ==
    \A p \in Caller :
        /\ pc[p] \in Steps => dev[p] \in Device
        /\ pc[p] \in Locked => opMu[dev[p]] = p

\* Main runs only its sweeps, clients only requests.
RoleInv ==
    /\ pc[Main] \notin {"try", "persist", "remove"}
    /\ op[Main] \in {"startEnabled", "stopAll"}
    /\ \A p \in Client : pc[p] \notin Sweep

\* What a caller between two steps knows of the entry it works on.
StartInv ==
    \A p \in Caller : pc[p] \in {"load", "install"} => runner[dev[p]] = None
StopInv ==
    \A p \in Caller : pc[p] \in {"cancel", "wait", "waitErr"} =>
        /\ target[p] \in Runner
        /\ runner[dev[p]] \in {target[p], None}

\* The recorded runner is exactly the goroutine at work, and nothing but a
\* cancelled context ends one.
RunInv ==
    /\ \A r \in Runner : rpc[r] # "none" => rdev[r] \in Device /\ runner[rdev[r]] = r
    /\ \A d \in Device : runner[d] # None => rpc[runner[d]] # "none" /\ rdev[runner[d]] = d
    /\ \A r \in Runner : rpc[r] \in {"none", "exit"} => cancelled[r]

\* Versions only grow, so each copy is at most what it was copied from.
VersionInv ==
    /\ \A d \in Device : exists[d] => version[d] >= 1
    /\ \A d \in Device : listed[d] <= version[d]
    /\ op[Main] = "startEnabled" => \A d \in todo : listed[d] >= 1
    /\ \A p \in Caller : pc[p] \in Locked \ {"persist"} =>
        /\ got[p] <= version[dev[p]]
        /\ pc[p] \in {"check", "load", "install"} \/ op[p] = "restart" => got[p] >= 1
    /\ \A p \in Caller : pc[p] = "install" =>
        got[p] <= read[p] /\ read[p] <= version[dev[p]]
    /\ \A d \in Device : runner[d] # None =>
        /\ 1 <= loaded[d] /\ loaded[d] <= points[runner[d]]
        /\ points[runner[d]] <= version[d]

IInv == TypeOK /\ LockInv /\ RoleInv /\ StartInv /\ StopInv /\ RunInv /\ VersionInv

----------------------------------------------------------------------------
(* Type correctness: one step per action. *)

\* SetDeviceEnabled keeps the column a Boolean.
LEMMA SetEnabledType ==
    ASSUME RowType, NEW p \in Caller, SetEnabled(p)
    PROVE  enabled' \in [Device -> BOOLEAN]
<1> DEFINE b == op[p] \in {"start", "restart"}
<1>1. b \in BOOLEAN OBVIOUS
<1> HIDE DEF b
<1> QED BY <1>1 DEF b, RowType, SetEnabled

\* A status sink keeps the states those of an entry.
LEMMA SinkType ==
    ASSUME EntryType, NEW r, NEW s \in ConnStates, Sink(r, s)
    PROVE  state' \in [Device -> EntryStates]
<1>1. s \in EntryStates
    BY DEF ConnStates, EntryStates
<1> QED BY <1>1 DEF EntryType, Sink

\* A call that returns leaves every caller's variables well typed, and Main in
\* its loop.
LEMMA ReturnType ==
    ASSUME CallerType, NEW p \in Caller, NEW outcome \in Returned, Return(p, outcome),
           UNCHANGED sweep
    PROVE  CallerType'
<1> USE RuntimeAssumption DEF Caller, CallerType, Return, After, Goto, sweep
<1>1. pc' \in [Caller -> Returned \cup Steps \cup Sweep] BY DEF Sweep
<1>2. pc'[Main] \notin Returned BY DEF Returned
<1>3. op' \in [Caller -> {"none", "start", "stop", "restart", "delete",
                          "startEnabled", "stopAll"}] OBVIOUS
<1>4. dev' \in [Caller -> Device \cup {None}] OBVIOUS
<1>5. got' \in [Caller -> 0..MaxVersion] /\ read' \in [Caller -> 0..MaxVersion] OBVIOUS
<1>6. target' \in [Caller -> Runner \cup {None}] OBVIOUS
<1> QED BY <1>1, <1>2, <1>3, <1>4, <1>5, <1>6

\* The devices table keeps its type: enabled stays a Boolean, config_version
\* within its bound.
LEMMA RowStep ==
    ASSUME TypeOK, [Next]_vars
    PROVE  RowType'
<1> USE RuntimeAssumption DEF Caller, vars, row, entry, goro, local, sweep, TypeOK,
        RowType, CallerType
<1>1. ASSUME NEW d \in Device, CreateDevice(d) PROVE RowType'
    BY <1>1 DEF CreateDevice
<1>2. ASSUME NEW d \in Device, UpdateConfig(d) \/ Snapshot(d) PROVE RowType'
    BY <1>2 DEF UpdateConfig, Snapshot
<1>3. ASSUME NEW c \in Client, NEW o \in Operations, NEW d \in Device, Request(c,
              o, d) PROVE RowType'
    BY <1>3 DEF Request, Returned, Return, After, Goto
<1>4. ASSUME NEW p \in Caller, TryBegin(p) PROVE RowType'
    BY <1>4 DEF TryBegin, Busy, Return, After, Goto
<1>5. ASSUME NEW p \in Caller, Persist(p) PROVE RowType'
    BY <1>5, SetEnabledType DEF Persist
<1>6. ASSUME NEW p \in Caller, PersistFails(p) PROVE RowType'
    BY <1>6, SetEnabledType DEF PersistFails
<1>7. ASSUME NEW p \in Caller, StopNothing(p) PROVE RowType'
    BY <1>7 DEF StopNothing, Stopped, Leave, Unlock, Return, After, Goto
<1>8. ASSUME NEW p \in Caller, StopMark(p) PROVE RowType'
    BY <1>8 DEF StopMark, Goto
<1>9. ASSUME NEW p \in Caller, StopCancel(p) PROVE RowType'
    BY <1>9 DEF StopCancel, Cancel, Goto
<1>10. ASSUME NEW p \in Caller, StopWait(p) PROVE RowType'
    BY <1>10 DEF StopWait, Ended, Stopped, Leave, Unlock, Return, After, Goto
<1>11. ASSUME NEW p \in Caller, StopExpires(p) PROVE RowType'
    BY <1>11 DEF StopExpires, Leave, Unlock, Return, After, Goto
<1>12. ASSUME NEW p \in Caller, StartCheck(p) PROVE RowType'
    BY <1>12 DEF StartCheck, Running, Leave, Unlock, Return, After, Goto
<1>13. ASSUME NEW p \in Caller, StartLoad(p) PROVE RowType'
    BY <1>13 DEF StartLoad, Goto
<1>14. ASSUME NEW p \in Caller, StartFails(p) PROVE RowType'
    BY <1>14 DEF StartFails, Leave, Unlock, Return, After, Goto
<1>15. ASSUME NEW p \in Caller, NEW r \in Runner, StartInstall(p, r) PROVE RowType'
    BY <1>15 DEF StartInstall, Free, VersionShown, Leave, Unlock, Return, After,
        Goto
<1>16. ASSUME NEW p \in Caller, Remove(p) PROVE RowType'
    BY <1>16 DEF Remove, Return, After, Goto
<1>17. ASSUME NEW d \in Device, MainNext(d) PROVE RowType'
    BY <1>17 DEF MainNext, Goto
<1>18. ASSUME MainList \/ MainSwept \/ CloseListener \/ Drained \/ Shutdown PROVE RowType'
    BY <1>18 DEF MainList, MainSwept, CloseListener, Drained, Shutdown, Goto
<1>19. ASSUME NEW r \in Runner, RunnerDone(r) PROVE RowType'
    BY <1>19 DEF RunnerDone, Sink
<1>20. ASSUME NEW r \in Runner,
              RunBoot(r) \/ RunConnect(r) \/ RunBackoff(r) \/ RunExit(r) PROVE RowType'
    BY <1>20 DEF RunBoot, RunConnect, RunBackoff, RunExit, Sink, RunAnnounce,
        BackoffCancelled
<1>21. ASSUME NEW r \in Runner, MonitorTick(r) \/ MonitorEnd(r) PROVE RowType'
    BY <1>21 DEF MonitorTick, MonitorEnd, Sink
<1>22. CASE UNCHANGED vars
    BY <1>22
<1> QED
    BY <1>1, <1>2, <1>3, <1>4, <1>5, <1>6, <1>7, <1>8, <1>9, <1>10, <1>11,
       <1>12, <1>13, <1>14, <1>15, <1>16, <1>17, <1>18, <1>19, <1>20, <1>21, <1>22
       DEF Next, CallerStep, MainStep, RunnerStep, MonitorStep, Closed

\* The manager's entries keep their type; it takes LockInv, since an operation
\* writes the entry of the device it has locked.
LEMMA EntryStep ==
    ASSUME TypeOK, LockInv, [Next]_vars
    PROVE  EntryType'
<1> USE RuntimeAssumption DEF Caller, vars, row, entry, goro, local, sweep, TypeOK,
        RowType, EntryType, CollectorType, CallerType, Returned, Steps, Sweep,
        EntryStates, ConnStates, LockInv, Locked
<1>1. ASSUME NEW d \in Device, CreateDevice(d) \/ UpdateConfig(d) \/ Snapshot(d)
      PROVE EntryType'
    BY <1>1 DEF CreateDevice, UpdateConfig, Snapshot
<1>2. ASSUME NEW c \in Client, NEW o \in Operations, NEW d \in Device, Request(c,
              o, d) PROVE EntryType'
    BY <1>2 DEF Request, Returned, Return, After, Goto
<1>3. ASSUME NEW p \in Caller, TryBegin(p) PROVE EntryType'
    <2>1. opMu' \in [Device -> Caller \cup {None}]
        BY <1>3 DEF TryBegin, Busy
    <2>2. entries' \subseteq Device
        BY <1>3 DEF TryBegin
    <2> QED BY <1>3, <2>1, <2>2 DEF TryBegin
<1>4. ASSUME NEW p \in Caller, Persist(p) PROVE EntryType'
    BY <1>4 DEF Persist, SetEnabled, Goto
<1>5. ASSUME NEW p \in Caller, PersistFails(p) PROVE EntryType'
    BY <1>5 DEF PersistFails, SetEnabled, Leave, Unlock, Return, After, Goto
<1>6. ASSUME NEW p \in Caller, StopNothing(p) PROVE EntryType'
    <2>1. opMu' \in [Device -> Caller \cup {None}]
        BY <1>6 DEF StopNothing, Stopped, Leave, Unlock
    <2>2. state' \in [Device -> EntryStates]
        BY <1>6 DEF StopNothing
    <2> QED BY <1>6, <2>1, <2>2 DEF StopNothing
<1>7. ASSUME NEW p \in Caller, StopMark(p) PROVE EntryType'
    BY <1>7 DEF StopMark, Goto
<1>8. ASSUME NEW p \in Caller, StopCancel(p) PROVE EntryType'
    BY <1>8 DEF StopCancel, Cancel, Goto
<1>9. ASSUME NEW p \in Caller, StopWait(p) PROVE EntryType'
    BY <1>9 DEF StopWait, Ended, Stopped, Leave, Unlock, Return, After, Goto
<1>10. ASSUME NEW p \in Caller, StopExpires(p) PROVE EntryType'
    BY <1>10 DEF StopExpires, Leave, Unlock, Return, After, Goto
<1>11. ASSUME NEW p \in Caller, StartCheck(p) PROVE EntryType'
    BY <1>11 DEF StartCheck, Running, Leave, Unlock, Return, After, Goto
<1>12. ASSUME NEW p \in Caller, StartLoad(p) PROVE EntryType'
    BY <1>12 DEF StartLoad, Goto
<1>13. ASSUME NEW p \in Caller, StartFails(p) PROVE EntryType'
    BY <1>13 DEF StartFails, Leave, Unlock, Return, After, Goto
<1>14. ASSUME NEW p \in Caller, NEW r \in Runner, StartInstall(p, r) PROVE EntryType'
    BY <1>14 DEF StartInstall, Free, VersionShown, Leave, Unlock, Return, After,
        Goto
<1>15. ASSUME NEW p \in Caller, Remove(p) PROVE EntryType'
    BY <1>15 DEF Remove, Return, After, Goto
<1>16. ASSUME NEW d \in Device, MainNext(d) PROVE EntryType'
    BY <1>16 DEF MainNext, Goto
<1>17. ASSUME MainList \/ MainSwept \/ CloseListener \/ Drained \/ Shutdown PROVE EntryType'
    BY <1>17 DEF MainList, MainSwept, CloseListener, Drained, Shutdown, Goto
<1>18. ASSUME NEW r \in Runner, RunnerDone(r) PROVE EntryType'
    BY <1>18 DEF RunnerDone, Sink
<1>19. ASSUME NEW r \in Runner,
              RunBoot(r) \/ RunConnect(r) \/ RunBackoff(r) \/ RunExit(r) PROVE EntryType'
    BY <1>19 DEF RunBoot, RunConnect, RunBackoff, RunExit, Sink, RunAnnounce,
        BackoffCancelled
<1>20. ASSUME NEW r \in Runner, MonitorTick(r) PROVE EntryType'
    <2>1. state' \in [Device -> EntryStates]
        <3>1. PICK s \in ConnStates : Sink(r, s)
            BY <1>20 DEF MonitorTick
        <3> QED BY <3>1, SinkType
    <2> QED BY <1>20, <2>1 DEF MonitorTick
<1>21. ASSUME NEW r \in Runner, MonitorEnd(r) PROVE EntryType'
    BY <1>21 DEF MonitorEnd
<1>22. CASE UNCHANGED vars
    BY <1>22
<1> QED
    BY <1>1, <1>2, <1>3, <1>4, <1>5, <1>6, <1>7, <1>8, <1>9, <1>10, <1>11,
       <1>12, <1>13, <1>14, <1>15, <1>16, <1>17, <1>18, <1>19, <1>20, <1>21, <1>22
       DEF Next, CallerStep, MainStep, RunnerStep, MonitorStep, Closed

\* A collector's goroutines keep their type.
LEMMA CollectorStep ==
    ASSUME TypeOK, [Next]_vars
    PROVE  CollectorType'
<1> USE RuntimeAssumption DEF Caller, vars, row, entry, goro, local, sweep, TypeOK,
        RowType, EntryType, CollectorType, CallerType, Returned, Steps, Sweep
<1>1. ASSUME NEW d \in Device, CreateDevice(d) \/ UpdateConfig(d) \/ Snapshot(d)
      PROVE CollectorType'
    BY <1>1 DEF CreateDevice, UpdateConfig, Snapshot
<1>2. ASSUME NEW c \in Client, NEW o \in Operations, NEW d \in Device, Request(c,
              o, d) PROVE CollectorType'
    BY <1>2 DEF Request, Returned, Return, After, Goto
<1>3. ASSUME NEW p \in Caller, TryBegin(p) PROVE CollectorType'
    BY <1>3 DEF TryBegin, Busy, Return, After, Goto
<1>4. ASSUME NEW p \in Caller, Persist(p) PROVE CollectorType'
    BY <1>4 DEF Persist, SetEnabled, Goto
<1>5. ASSUME NEW p \in Caller, PersistFails(p) PROVE CollectorType'
    BY <1>5 DEF PersistFails, SetEnabled, Leave, Unlock, Return, After, Goto
<1>6. ASSUME NEW p \in Caller, StopNothing(p) PROVE CollectorType'
    BY <1>6 DEF StopNothing, Stopped, Leave, Unlock, Return, After, Goto
<1>7. ASSUME NEW p \in Caller, StopMark(p) PROVE CollectorType'
    BY <1>7 DEF StopMark, Goto
<1>8. ASSUME NEW p \in Caller, StopCancel(p) PROVE CollectorType'
    BY <1>8 DEF StopCancel, Cancel, Goto
<1>9. ASSUME NEW p \in Caller, StopWait(p) PROVE CollectorType'
    BY <1>9 DEF StopWait, Ended, Stopped, Leave, Unlock, Return, After, Goto
<1>10. ASSUME NEW p \in Caller, StopExpires(p) PROVE CollectorType'
    BY <1>10 DEF StopExpires, Leave, Unlock, Return, After, Goto
<1>11. ASSUME NEW p \in Caller, StartCheck(p) PROVE CollectorType'
    BY <1>11 DEF StartCheck, Running, Leave, Unlock, Return, After, Goto
<1>12. ASSUME NEW p \in Caller, StartLoad(p) PROVE CollectorType'
    BY <1>12 DEF StartLoad, Goto
<1>13. ASSUME NEW p \in Caller, StartFails(p) PROVE CollectorType'
    BY <1>13 DEF StartFails, Leave, Unlock, Return, After, Goto
<1>14. ASSUME NEW p \in Caller, NEW r \in Runner, StartInstall(p, r) PROVE CollectorType'
    BY <1>14 DEF StartInstall, Free, VersionShown, Leave, Unlock, Return, After,
        Goto
<1>15. ASSUME NEW p \in Caller, Remove(p) PROVE CollectorType'
    BY <1>15 DEF Remove, Return, After, Goto
<1>16. ASSUME NEW d \in Device, MainNext(d) PROVE CollectorType'
    BY <1>16 DEF MainNext, Goto
<1>17. ASSUME MainList \/ MainSwept \/ CloseListener \/ Drained \/ Shutdown PROVE CollectorType'
    BY <1>17 DEF MainList, MainSwept, CloseListener, Drained, Shutdown, Goto
<1>18. ASSUME NEW r \in Runner, RunnerDone(r) PROVE CollectorType'
    BY <1>18 DEF RunnerDone, Sink
<1>19. ASSUME NEW r \in Runner,
              RunBoot(r) \/ RunConnect(r) \/ RunBackoff(r) \/ RunExit(r) PROVE CollectorType'
    <2>1. CASE RunBoot(r)
        BY <2>1 DEF RunBoot
    <2>2. CASE RunConnect(r)
        BY <2>2 DEF RunConnect, RunAnnounce
    <2>3. CASE RunBackoff(r)
        BY <2>3 DEF RunBackoff, RunAnnounce, BackoffCancelled
    <2>4. CASE RunExit(r)
        BY <2>4 DEF RunExit
    <2> QED BY <1>19, <2>1, <2>2, <2>3, <2>4
<1>20. ASSUME NEW r \in Runner, MonitorTick(r) \/ MonitorEnd(r) PROVE CollectorType'
    <2>1. CASE MonitorTick(r)
        BY <2>1 DEF MonitorTick
    <2>2. CASE MonitorEnd(r)
        BY <2>2 DEF MonitorEnd
    <2> QED BY <1>20, <2>1, <2>2
<1>21. CASE UNCHANGED vars
    BY <1>21
<1> QED
    BY <1>1, <1>2, <1>3, <1>4, <1>5, <1>6, <1>7, <1>8, <1>9, <1>10, <1>11,
       <1>12, <1>13, <1>14, <1>15, <1>16, <1>17, <1>18, <1>19, <1>20, <1>21
       DEF Next, CallerStep, MainStep, RunnerStep, MonitorStep, Closed

\* The callers' program counters and locals keep their type.
LEMMA CallerStepType ==
    ASSUME TypeOK, LockInv, [Next]_vars
    PROVE  CallerType'
<1> USE RuntimeAssumption DEF Caller, vars, row, entry, goro, local, sweep, TypeOK,
        RowType, EntryType, CollectorType, CallerType, Returned, Steps, Sweep,
        LockInv, Locked
<1>1. ASSUME NEW d \in Device, CreateDevice(d) \/ UpdateConfig(d) \/ Snapshot(d)
      PROVE CallerType'
    BY <1>1 DEF CreateDevice, UpdateConfig, Snapshot
<1>2. ASSUME NEW c \in Client, NEW o \in Operations, NEW d \in Device, Request(c,
              o, d) PROVE CallerType'
    <2>1. CASE Return(c, "failed") /\ UNCHANGED sweep
        BY <2>1, ReturnType
    <2>2. CASE /\ Goto(c, "try") /\ op' = [op EXCEPT ![c] = o] /\ dev' = [dev EXCEPT ![c] = d]
               /\ UNCHANGED <<got, read, target, sweep>>
        <3>1. pc' \in [Caller -> Returned \cup Steps \cup Sweep] /\ pc'[Main] = pc[Main]
            BY <2>2 DEF Goto
        <3>2. op' \in [Caller -> {"none", "start", "stop", "restart", "delete",
                                  "startEnabled", "stopAll"}]
            BY <2>2
        <3>3. dev' \in [Caller -> Device \cup {None}]
            BY <2>2
        <3> QED BY <2>2, <3>1, <3>2, <3>3
    <2> QED BY <1>2, <2>1, <2>2 DEF Request
<1>3. ASSUME NEW p \in Caller, TryBegin(p) PROVE CallerType'
    <2>1. CASE Return(p, "busy") /\ UNCHANGED sweep
        BY <2>1, ReturnType
    <2>2. CASE Goto(p, "persist") /\ UNCHANGED <<local, sweep>>
        <3>1. pc' \in [Caller -> Returned \cup Steps \cup Sweep]
            BY <2>2 DEF Goto
        <3>2. pc'[Main] \notin Returned
            BY <2>2 DEF Goto
        <3> QED BY <2>2, <3>1, <3>2
    <2> QED BY <1>3, <2>1, <2>2 DEF TryBegin
<1>4. ASSUME NEW p \in Caller, Persist(p) PROVE CallerType'
    <2>1. got' \in [Caller -> 0..MaxVersion]
        BY <1>4 DEF Persist
    <2>2. pc' \in [Caller -> Returned \cup Steps \cup Sweep] /\ pc'[Main] \notin Returned
        BY <1>4 DEF Persist, Goto
    <2> QED BY <1>4, <2>1, <2>2 DEF Persist
<1>5. ASSUME NEW p \in Caller, PersistFails(p) PROVE CallerType'
    BY <1>5 DEF PersistFails, SetEnabled, Leave, Unlock, Return, After, Goto
<1>6. ASSUME NEW p \in Caller, StopNothing(p) PROVE CallerType'
    BY <1>6 DEF StopNothing, Stopped, Leave, Unlock, Return, After, Goto
<1>7. ASSUME NEW p \in Caller, StopMark(p) PROVE CallerType'
    <2>1. target' \in [Caller -> Runner \cup {None}]
        BY <1>7 DEF StopMark
    <2>2. pc' \in [Caller -> Returned \cup Steps \cup Sweep] /\ pc'[Main] \notin Returned
        BY <1>7 DEF StopMark, Goto
    <2> QED BY <1>7, <2>1, <2>2 DEF StopMark
<1>8. ASSUME NEW p \in Caller, StopCancel(p) PROVE CallerType'
    BY <1>8 DEF StopCancel, Cancel, Goto
<1>9. ASSUME NEW p \in Caller, StopWait(p) PROVE CallerType'
    BY <1>9 DEF StopWait, Ended, Stopped, Leave, Unlock, Return, After, Goto
<1>10. ASSUME NEW p \in Caller, StopExpires(p) PROVE CallerType'
    BY <1>10 DEF StopExpires, Leave, Unlock, Return, After, Goto
<1>11. ASSUME NEW p \in Caller, StartCheck(p) PROVE CallerType'
    BY <1>11 DEF StartCheck, Running, Leave, Unlock, Return, After, Goto
<1>12. ASSUME NEW p \in Caller, StartLoad(p) PROVE CallerType'
    <2>1. read' \in [Caller -> 0..MaxVersion]
        BY <1>12 DEF StartLoad
    <2>2. pc' \in [Caller -> Returned \cup Steps \cup Sweep] /\ pc'[Main] \notin Returned
        BY <1>12 DEF StartLoad, Goto
    <2> QED BY <1>12, <2>1, <2>2 DEF StartLoad
<1>13. ASSUME NEW p \in Caller, StartFails(p) PROVE CallerType'
    BY <1>13 DEF StartFails, Leave, Unlock, Return, After, Goto
<1>14. ASSUME NEW p \in Caller, NEW r \in Runner, StartInstall(p, r) PROVE CallerType'
    BY <1>14 DEF StartInstall, Free, VersionShown, Leave, Unlock, Return, After,
        Goto
<1>15. ASSUME NEW p \in Caller, Remove(p) PROVE CallerType'
    BY <1>15 DEF Remove, Return, After, Goto
<1>16. ASSUME NEW d \in Device, MainNext(d) PROVE CallerType'
    BY <1>16 DEF MainNext, Goto
<1>17. ASSUME MainList \/ MainSwept \/ CloseListener \/ Drained \/ Shutdown PROVE CallerType'
    BY <1>17 DEF MainList, MainSwept, CloseListener, Drained, Shutdown, Goto
<1>18. ASSUME NEW r \in Runner, RunnerDone(r) PROVE CallerType'
    BY <1>18 DEF RunnerDone, Sink
<1>19. ASSUME NEW r \in Runner,
              RunBoot(r) \/ RunConnect(r) \/ RunBackoff(r) \/ RunExit(r) PROVE CallerType'
    BY <1>19 DEF RunBoot, RunConnect, RunBackoff, RunExit, Sink, RunAnnounce,
        BackoffCancelled
<1>20. ASSUME NEW r \in Runner, MonitorTick(r) \/ MonitorEnd(r) PROVE CallerType'
    BY <1>20 DEF MonitorTick, MonitorEnd, Sink
<1>21. CASE UNCHANGED vars
    BY <1>21
<1> QED
    BY <1>1, <1>2, <1>3, <1>4, <1>5, <1>6, <1>7, <1>8, <1>9, <1>10, <1>11,
       <1>12, <1>13, <1>14, <1>15, <1>16, <1>17, <1>18, <1>19, <1>20, <1>21
       DEF Next, CallerStep, MainStep, RunnerStep, MonitorStep, Closed

\* Every step keeps TypeOK: the four parts together.
LEMMA TypeStep ==
    ASSUME TypeOK, LockInv, [Next]_vars
    PROVE  TypeOK'
BY RowStep, EntryStep, CollectorStep, CallerStepType DEF TypeOK

----------------------------------------------------------------------------
(* The rest of the inductive invariant. *)

\* opMu changes hands only between operations: TryBegin takes it when free,
\* Leave and Unlock give back the caller's own.
LEMMA LockStep ==
    ASSUME TypeOK, LockInv, [Next]_vars
    PROVE  LockInv'
<1> USE RuntimeAssumption DEF Caller, vars, row, entry, goro, local, sweep, TypeOK,
        RowType, EntryType, CollectorType, CallerType, Returned, Steps, Sweep,
        Locked, LockInv
<1>1. ASSUME NEW d \in Device, CreateDevice(d) \/ UpdateConfig(d) \/ Snapshot(d)
      PROVE LockInv'
    BY <1>1 DEF CreateDevice, UpdateConfig, Snapshot
<1>2. ASSUME NEW c \in Client, NEW o \in Operations, NEW d \in Device, Request(c,
              o, d) PROVE LockInv'
    BY <1>2 DEF Request, Returned, Return, After, Goto
<1>3. ASSUME NEW p \in Caller, TryBegin(p) PROVE LockInv'
    BY <1>3 DEF TryBegin, Busy, Return, After, Goto
<1>4. ASSUME NEW p \in Caller, Persist(p) PROVE LockInv'
    BY <1>4 DEF Persist, SetEnabled, Goto
<1>5. ASSUME NEW p \in Caller, PersistFails(p) PROVE LockInv'
    BY <1>5 DEF PersistFails, SetEnabled, Leave, Unlock, Return, After, Goto
<1>6. ASSUME NEW p \in Caller, StopNothing(p) PROVE LockInv'
    BY <1>6 DEF StopNothing, Stopped, Leave, Unlock, Return, After, Goto
<1>7. ASSUME NEW p \in Caller, StopMark(p) PROVE LockInv'
    BY <1>7 DEF StopMark, Goto
<1>8. ASSUME NEW p \in Caller, StopCancel(p) PROVE LockInv'
    BY <1>8 DEF StopCancel, Cancel, Goto
<1>9. ASSUME NEW p \in Caller, StopWait(p) PROVE LockInv'
    BY <1>9 DEF StopWait, Ended, Stopped, Leave, Unlock, Return, After, Goto
<1>10. ASSUME NEW p \in Caller, StopExpires(p) PROVE LockInv'
    BY <1>10 DEF StopExpires, Leave, Unlock, Return, After, Goto
<1>11. ASSUME NEW p \in Caller, StartCheck(p) PROVE LockInv'
    BY <1>11 DEF StartCheck, Running, Leave, Unlock, Return, After, Goto
<1>12. ASSUME NEW p \in Caller, StartLoad(p) PROVE LockInv'
    BY <1>12 DEF StartLoad, Goto
<1>13. ASSUME NEW p \in Caller, StartFails(p) PROVE LockInv'
    BY <1>13 DEF StartFails, Leave, Unlock, Return, After, Goto
<1>14. ASSUME NEW p \in Caller, NEW r \in Runner, StartInstall(p, r) PROVE LockInv'
    BY <1>14 DEF StartInstall, Free, VersionShown, Leave, Unlock, Return, After,
        Goto
<1>15. ASSUME NEW p \in Caller, Remove(p) PROVE LockInv'
    BY <1>15 DEF Remove, Return, After, Goto
<1>16. ASSUME NEW d \in Device, MainNext(d) PROVE LockInv'
    BY <1>16 DEF MainNext, Goto
<1>17. ASSUME MainList \/ MainSwept \/ CloseListener \/ Drained \/ Shutdown PROVE LockInv'
    BY <1>17 DEF MainList, MainSwept, CloseListener, Drained, Shutdown, Goto
<1>18. ASSUME NEW r \in Runner, RunnerDone(r) PROVE LockInv'
    BY <1>18 DEF RunnerDone, Sink
<1>19. ASSUME NEW r \in Runner,
              RunBoot(r) \/ RunConnect(r) \/ RunBackoff(r) \/ RunExit(r) PROVE LockInv'
    BY <1>19 DEF RunBoot, RunConnect, RunBackoff, RunExit, Sink, RunAnnounce,
        BackoffCancelled
<1>20. ASSUME NEW r \in Runner, MonitorTick(r) \/ MonitorEnd(r) PROVE LockInv'
    BY <1>20 DEF MonitorTick, MonitorEnd, Sink
<1>21. CASE UNCHANGED vars
    BY <1>21
<1> QED
    BY <1>1, <1>2, <1>3, <1>4, <1>5, <1>6, <1>7, <1>8, <1>9, <1>10, <1>11,
       <1>12, <1>13, <1>14, <1>15, <1>16, <1>17, <1>18, <1>19, <1>20, <1>21
       DEF Next, CallerStep, MainStep, RunnerStep, MonitorStep, Closed

\* Main and the clients never enter each other's steps.
LEMMA RoleStep ==
    ASSUME TypeOK, RoleInv, [Next]_vars
    PROVE  RoleInv'
<1> USE RuntimeAssumption DEF Caller, vars, row, entry, goro, local, sweep, TypeOK,
        RowType, EntryType, CollectorType, CallerType, Returned, Steps, Sweep,
        RoleInv
<1>1. ASSUME NEW d \in Device, CreateDevice(d) \/ UpdateConfig(d) \/ Snapshot(d)
      PROVE RoleInv'
    BY <1>1 DEF CreateDevice, UpdateConfig, Snapshot
<1>2. ASSUME NEW c \in Client, NEW o \in Operations, NEW d \in Device, Request(c,
              o, d) PROVE RoleInv'
    BY <1>2 DEF Request, Returned, Return, After, Goto
<1>3. ASSUME NEW p \in Caller, TryBegin(p) PROVE RoleInv'
    BY <1>3 DEF TryBegin, Busy, Return, After, Goto
<1>4. ASSUME NEW p \in Caller, Persist(p) PROVE RoleInv'
    BY <1>4 DEF Persist, SetEnabled, Goto
<1>5. ASSUME NEW p \in Caller, PersistFails(p) PROVE RoleInv'
    BY <1>5 DEF PersistFails, SetEnabled, Leave, Unlock, Return, After, Goto
<1>6. ASSUME NEW p \in Caller, StopNothing(p) PROVE RoleInv'
    BY <1>6 DEF StopNothing, Stopped, Leave, Unlock, Return, After, Goto
<1>7. ASSUME NEW p \in Caller, StopMark(p) PROVE RoleInv'
    BY <1>7 DEF StopMark, Goto
<1>8. ASSUME NEW p \in Caller, StopCancel(p) PROVE RoleInv'
    BY <1>8 DEF StopCancel, Cancel, Goto
<1>9. ASSUME NEW p \in Caller, StopWait(p) PROVE RoleInv'
    BY <1>9 DEF StopWait, Ended, Stopped, Leave, Unlock, Return, After, Goto
<1>10. ASSUME NEW p \in Caller, StopExpires(p) PROVE RoleInv'
    BY <1>10 DEF StopExpires, Leave, Unlock, Return, After, Goto
<1>11. ASSUME NEW p \in Caller, StartCheck(p) PROVE RoleInv'
    BY <1>11 DEF StartCheck, Running, Leave, Unlock, Return, After, Goto
<1>12. ASSUME NEW p \in Caller, StartLoad(p) PROVE RoleInv'
    BY <1>12 DEF StartLoad, Goto
<1>13. ASSUME NEW p \in Caller, StartFails(p) PROVE RoleInv'
    BY <1>13 DEF StartFails, Leave, Unlock, Return, After, Goto
<1>14. ASSUME NEW p \in Caller, NEW r \in Runner, StartInstall(p, r) PROVE RoleInv'
    BY <1>14 DEF StartInstall, Free, VersionShown, Leave, Unlock, Return, After,
        Goto
<1>15. ASSUME NEW p \in Caller, Remove(p) PROVE RoleInv'
    BY <1>15 DEF Remove, Return, After, Goto
<1>16. ASSUME NEW d \in Device, MainNext(d) PROVE RoleInv'
    BY <1>16 DEF MainNext, Goto
<1>17. ASSUME MainList \/ MainSwept \/ CloseListener \/ Drained \/ Shutdown PROVE RoleInv'
    BY <1>17 DEF MainList, MainSwept, CloseListener, Drained, Shutdown, Goto
<1>18. ASSUME NEW r \in Runner, RunnerDone(r) PROVE RoleInv'
    BY <1>18 DEF RunnerDone, Sink
<1>19. ASSUME NEW r \in Runner,
              RunBoot(r) \/ RunConnect(r) \/ RunBackoff(r) \/ RunExit(r) PROVE RoleInv'
    BY <1>19 DEF RunBoot, RunConnect, RunBackoff, RunExit, Sink, RunAnnounce,
        BackoffCancelled
<1>20. ASSUME NEW r \in Runner, MonitorTick(r) \/ MonitorEnd(r) PROVE RoleInv'
    BY <1>20 DEF MonitorTick, MonitorEnd, Sink
<1>21. CASE UNCHANGED vars
    BY <1>21
<1> QED
    BY <1>1, <1>2, <1>3, <1>4, <1>5, <1>6, <1>7, <1>8, <1>9, <1>10, <1>11,
       <1>12, <1>13, <1>14, <1>15, <1>16, <1>17, <1>18, <1>19, <1>20, <1>21
       DEF Next, CallerStep, MainStep, RunnerStep, MonitorStep, Closed

\* Only the holder of opMu installs a runner, so a caller that saw none keeps
\* seeing none.
LEMMA StartStep ==
    ASSUME TypeOK, LockInv, StartInv, [Next]_vars
    PROVE  StartInv'
<1> USE RuntimeAssumption DEF Caller, vars, row, entry, goro, local, sweep, TypeOK,
        RowType, EntryType, CollectorType, CallerType, Returned, Steps, Sweep,
        Locked, LockInv, StartInv
<1>1. ASSUME NEW d \in Device, CreateDevice(d) \/ UpdateConfig(d) \/ Snapshot(d)
      PROVE StartInv'
    BY <1>1 DEF CreateDevice, UpdateConfig, Snapshot
<1>2. ASSUME NEW c \in Client, NEW o \in Operations, NEW d \in Device, Request(c,
              o, d) PROVE StartInv'
    BY <1>2 DEF Request, Returned, Return, After, Goto
<1>3. ASSUME NEW p \in Caller, TryBegin(p) PROVE StartInv'
    BY <1>3 DEF TryBegin, Busy, Return, After, Goto
<1>4. ASSUME NEW p \in Caller, Persist(p) PROVE StartInv'
    BY <1>4 DEF Persist, SetEnabled, Goto
<1>5. ASSUME NEW p \in Caller, PersistFails(p) PROVE StartInv'
    BY <1>5 DEF PersistFails, SetEnabled, Leave, Unlock, Return, After, Goto
<1>6. ASSUME NEW p \in Caller, StopNothing(p) PROVE StartInv'
    BY <1>6 DEF StopNothing, Stopped, Leave, Unlock, Return, After, Goto
<1>7. ASSUME NEW p \in Caller, StopMark(p) PROVE StartInv'
    BY <1>7 DEF StopMark, Goto
<1>8. ASSUME NEW p \in Caller, StopCancel(p) PROVE StartInv'
    BY <1>8 DEF StopCancel, Cancel, Goto
<1>9. ASSUME NEW p \in Caller, StopWait(p) PROVE StartInv'
    BY <1>9 DEF StopWait, Ended, Stopped, Leave, Unlock, Return, After, Goto
<1>10. ASSUME NEW p \in Caller, StopExpires(p) PROVE StartInv'
    BY <1>10 DEF StopExpires, Leave, Unlock, Return, After, Goto
<1>11. ASSUME NEW p \in Caller, StartCheck(p) PROVE StartInv'
    BY <1>11 DEF StartCheck, Running, Leave, Unlock, Return, After, Goto
<1>12. ASSUME NEW p \in Caller, StartLoad(p) PROVE StartInv'
    BY <1>12 DEF StartLoad, Goto
<1>13. ASSUME NEW p \in Caller, StartFails(p) PROVE StartInv'
    BY <1>13 DEF StartFails, Leave, Unlock, Return, After, Goto
<1>14. ASSUME NEW p \in Caller, NEW r \in Runner, StartInstall(p, r) PROVE StartInv'
    BY <1>14 DEF StartInstall, Free, VersionShown, Leave, Unlock, Return, After,
        Goto
<1>15. ASSUME NEW p \in Caller, Remove(p) PROVE StartInv'
    BY <1>15 DEF Remove, Return, After, Goto
<1>16. ASSUME NEW d \in Device, MainNext(d) PROVE StartInv'
    BY <1>16 DEF MainNext, Goto
<1>17. ASSUME MainList \/ MainSwept \/ CloseListener \/ Drained \/ Shutdown PROVE StartInv'
    BY <1>17 DEF MainList, MainSwept, CloseListener, Drained, Shutdown, Goto
<1>18. ASSUME NEW r \in Runner, RunnerDone(r) PROVE StartInv'
    BY <1>18 DEF RunnerDone, Sink
<1>19. ASSUME NEW r \in Runner,
              RunBoot(r) \/ RunConnect(r) \/ RunBackoff(r) \/ RunExit(r) PROVE StartInv'
    BY <1>19 DEF RunBoot, RunConnect, RunBackoff, RunExit, Sink, RunAnnounce,
        BackoffCancelled
<1>20. ASSUME NEW r \in Runner, MonitorTick(r) \/ MonitorEnd(r) PROVE StartInv'
    BY <1>20 DEF MonitorTick, MonitorEnd, Sink
<1>21. CASE UNCHANGED vars
    BY <1>21
<1> QED
    BY <1>1, <1>2, <1>3, <1>4, <1>5, <1>6, <1>7, <1>8, <1>9, <1>10, <1>11,
       <1>12, <1>13, <1>14, <1>15, <1>16, <1>17, <1>18, <1>19, <1>20, <1>21
       DEF Next, CallerStep, MainStep, RunnerStep, MonitorStep, Closed

\* Between StopMark and the end of the wait the device's runner is the one being
\* stopped or none: opMu keeps any other from being installed.
LEMMA StopStep ==
    ASSUME TypeOK, LockInv, StopInv, [Next]_vars
    PROVE  StopInv'
<1> USE RuntimeAssumption DEF Caller, vars, row, entry, goro, local, sweep, TypeOK,
        RowType, EntryType, CollectorType, CallerType, Returned, Steps, Sweep,
        Locked, LockInv, StopInv
<1>1. ASSUME NEW d \in Device, CreateDevice(d) \/ UpdateConfig(d) \/ Snapshot(d)
      PROVE StopInv'
    BY <1>1 DEF CreateDevice, UpdateConfig, Snapshot
<1>2. ASSUME NEW c \in Client, NEW o \in Operations, NEW d \in Device, Request(c,
              o, d) PROVE StopInv'
    BY <1>2 DEF Request, Returned, Return, After, Goto
<1>3. ASSUME NEW p \in Caller, TryBegin(p) PROVE StopInv'
    BY <1>3 DEF TryBegin, Busy, Return, After, Goto
<1>4. ASSUME NEW p \in Caller, Persist(p) PROVE StopInv'
    BY <1>4 DEF Persist, SetEnabled, Goto
<1>5. ASSUME NEW p \in Caller, PersistFails(p) PROVE StopInv'
    BY <1>5 DEF PersistFails, SetEnabled, Leave, Unlock, Return, After, Goto
<1>6. ASSUME NEW p \in Caller, StopNothing(p) PROVE StopInv'
    BY <1>6 DEF StopNothing, Stopped, Leave, Unlock, Return, After, Goto
<1>7. ASSUME NEW p \in Caller, StopMark(p) PROVE StopInv'
    BY <1>7 DEF StopMark, Goto
<1>8. ASSUME NEW p \in Caller, StopCancel(p) PROVE StopInv'
    BY <1>8 DEF StopCancel, Cancel, Goto
<1>9. ASSUME NEW p \in Caller, StopWait(p) PROVE StopInv'
    BY <1>9 DEF StopWait, Ended, Stopped, Leave, Unlock, Return, After, Goto
<1>10. ASSUME NEW p \in Caller, StopExpires(p) PROVE StopInv'
    BY <1>10 DEF StopExpires, Leave, Unlock, Return, After, Goto
<1>11. ASSUME NEW p \in Caller, StartCheck(p) PROVE StopInv'
    BY <1>11 DEF StartCheck, Running, Leave, Unlock, Return, After, Goto
<1>12. ASSUME NEW p \in Caller, StartLoad(p) PROVE StopInv'
    BY <1>12 DEF StartLoad, Goto
<1>13. ASSUME NEW p \in Caller, StartFails(p) PROVE StopInv'
    BY <1>13 DEF StartFails, Leave, Unlock, Return, After, Goto
<1>14. ASSUME NEW p \in Caller, NEW r \in Runner, StartInstall(p, r) PROVE StopInv'
    BY <1>14 DEF StartInstall, Free, VersionShown, Leave, Unlock, Return, After,
        Goto
<1>15. ASSUME NEW p \in Caller, Remove(p) PROVE StopInv'
    BY <1>15 DEF Remove, Return, After, Goto
<1>16. ASSUME NEW d \in Device, MainNext(d) PROVE StopInv'
    BY <1>16 DEF MainNext, Goto
<1>17. ASSUME MainList \/ MainSwept \/ CloseListener \/ Drained \/ Shutdown PROVE StopInv'
    BY <1>17 DEF MainList, MainSwept, CloseListener, Drained, Shutdown, Goto
<1>18. ASSUME NEW r \in Runner, RunnerDone(r) PROVE StopInv'
    BY <1>18 DEF RunnerDone, Sink
<1>19. ASSUME NEW r \in Runner,
              RunBoot(r) \/ RunConnect(r) \/ RunBackoff(r) \/ RunExit(r) PROVE StopInv'
    BY <1>19 DEF RunBoot, RunConnect, RunBackoff, RunExit, Sink, RunAnnounce,
        BackoffCancelled
<1>20. ASSUME NEW r \in Runner, MonitorTick(r) \/ MonitorEnd(r) PROVE StopInv'
    BY <1>20 DEF MonitorTick, MonitorEnd, Sink
<1>21. CASE UNCHANGED vars
    BY <1>21
<1> QED
    BY <1>1, <1>2, <1>3, <1>4, <1>5, <1>6, <1>7, <1>8, <1>9, <1>10, <1>11,
       <1>12, <1>13, <1>14, <1>15, <1>16, <1>17, <1>18, <1>19, <1>20, <1>21
       DEF Next, CallerStep, MainStep, RunnerStep, MonitorStep, Closed

\* A goroutine is recorded from its StartInstall to its RunnerDone, which clears
\* the entry only of its own runner, and it ends only once cancelled.
LEMMA RunStep ==
    ASSUME TypeOK, LockInv, StartInv, StopInv, RunInv, [Next]_vars
    PROVE  RunInv'
<1> USE RuntimeAssumption DEF Caller, vars, row, entry, goro, local, sweep, TypeOK,
        RowType, EntryType, CollectorType, CallerType, Returned, Steps, Sweep,
        Locked, LockInv, StartInv, StopInv, RunInv
<1>1. ASSUME NEW d \in Device, CreateDevice(d) \/ UpdateConfig(d) \/ Snapshot(d)
      PROVE RunInv'
    BY <1>1 DEF CreateDevice, UpdateConfig, Snapshot
<1>2. ASSUME NEW c \in Client, NEW o \in Operations, NEW d \in Device, Request(c,
              o, d) PROVE RunInv'
    BY <1>2 DEF Request, Returned, Return, After, Goto
<1>3. ASSUME NEW p \in Caller, TryBegin(p) PROVE RunInv'
    BY <1>3 DEF TryBegin, Busy, Return, After, Goto
<1>4. ASSUME NEW p \in Caller, Persist(p) PROVE RunInv'
    BY <1>4 DEF Persist, SetEnabled, Goto
<1>5. ASSUME NEW p \in Caller, PersistFails(p) PROVE RunInv'
    BY <1>5 DEF PersistFails, SetEnabled, Leave, Unlock, Return, After, Goto
<1>6. ASSUME NEW p \in Caller, StopNothing(p) PROVE RunInv'
    BY <1>6 DEF StopNothing, Stopped, Leave, Unlock, Return, After, Goto
<1>7. ASSUME NEW p \in Caller, StopMark(p) PROVE RunInv'
    BY <1>7 DEF StopMark, Goto
<1>8. ASSUME NEW p \in Caller, StopCancel(p) PROVE RunInv'
    BY <1>8 DEF StopCancel, Cancel, Goto
<1>9. ASSUME NEW p \in Caller, StopWait(p) PROVE RunInv'
    BY <1>9 DEF StopWait, Ended, Stopped, Leave, Unlock, Return, After, Goto
<1>10. ASSUME NEW p \in Caller, StopExpires(p) PROVE RunInv'
    BY <1>10 DEF StopExpires, Leave, Unlock, Return, After, Goto
<1>11. ASSUME NEW p \in Caller, StartCheck(p) PROVE RunInv'
    BY <1>11 DEF StartCheck, Running, Leave, Unlock, Return, After, Goto
<1>12. ASSUME NEW p \in Caller, StartLoad(p) PROVE RunInv'
    BY <1>12 DEF StartLoad, Goto
<1>13. ASSUME NEW p \in Caller, StartFails(p) PROVE RunInv'
    BY <1>13 DEF StartFails, Leave, Unlock, Return, After, Goto
<1>14. ASSUME NEW p \in Caller, NEW r \in Runner, StartInstall(p, r) PROVE RunInv'
    BY <1>14 DEF StartInstall, Free, VersionShown, Leave, Unlock, Return, After,
        Goto
<1>15. ASSUME NEW p \in Caller, Remove(p) PROVE RunInv'
    BY <1>15 DEF Remove, Return, After, Goto
<1>16. ASSUME NEW d \in Device, MainNext(d) PROVE RunInv'
    BY <1>16 DEF MainNext, Goto
<1>17. ASSUME MainList \/ MainSwept \/ CloseListener \/ Drained \/ Shutdown PROVE RunInv'
    BY <1>17 DEF MainList, MainSwept, CloseListener, Drained, Shutdown, Goto
<1>18. ASSUME NEW r \in Runner, RunnerDone(r) PROVE RunInv'
    BY <1>18 DEF RunnerDone, Sink
<1>19. ASSUME NEW r \in Runner,
              RunBoot(r) \/ RunConnect(r) \/ RunBackoff(r) \/ RunExit(r) PROVE RunInv'
    BY <1>19 DEF RunBoot, RunConnect, RunBackoff, RunExit, Sink, RunAnnounce,
        BackoffCancelled
<1>20. ASSUME NEW r \in Runner, MonitorTick(r) \/ MonitorEnd(r) PROVE RunInv'
    BY <1>20 DEF MonitorTick, MonitorEnd, Sink
<1>21. CASE UNCHANGED vars
    BY <1>21
<1> QED
    BY <1>1, <1>2, <1>3, <1>4, <1>5, <1>6, <1>7, <1>8, <1>9, <1>10, <1>11,
       <1>12, <1>13, <1>14, <1>15, <1>16, <1>17, <1>18, <1>19, <1>20, <1>21
       DEF Next, CallerStep, MainStep, RunnerStep, MonitorStep, Closed

\* The version shown is never newer than the one the points were read at: the
\* record is read before the points, and config_version never decreases.
LEMMA VersionStep ==
    ASSUME TypeOK, LockInv, RoleInv, StartInv, RunInv, VersionInv, [Next]_vars
    PROVE  VersionInv'
<1> USE RuntimeAssumption DEF Caller, vars, row, entry, goro, local, sweep, TypeOK,
        RowType, EntryType, CollectorType, CallerType, Returned, Steps, Sweep,
        Locked, LockInv, RoleInv, StartInv, RunInv, VersionInv
<1>1. ASSUME NEW d \in Device, CreateDevice(d) \/ UpdateConfig(d) \/ Snapshot(d)
      PROVE VersionInv'
    <2>1. CASE CreateDevice(d)
        BY <2>1 DEF CreateDevice
    <2>2. CASE UpdateConfig(d)
        BY <2>2 DEF UpdateConfig
    <2>3. CASE Snapshot(d)
        BY <2>3 DEF Snapshot
    <2> QED BY <1>1, <2>1, <2>2, <2>3
<1>2. ASSUME NEW c \in Client, NEW o \in Operations, NEW d \in Device, Request(c,
              o, d) PROVE VersionInv'
    BY <1>2 DEF Request, Returned, Return, After, Goto
<1>3. ASSUME NEW p \in Caller, TryBegin(p) PROVE VersionInv'
    BY <1>3 DEF TryBegin, Busy, Return, After, Goto
<1>4. ASSUME NEW p \in Caller, Persist(p) PROVE VersionInv'
    BY <1>4 DEF Persist, SetEnabled, Goto
<1>5. ASSUME NEW p \in Caller, PersistFails(p) PROVE VersionInv'
    BY <1>5 DEF PersistFails, SetEnabled, Leave, Unlock, Return, After, Goto
<1>6. ASSUME NEW p \in Caller, StopNothing(p) PROVE VersionInv'
    BY <1>6 DEF StopNothing, Stopped, Leave, Unlock, Return, After, Goto
<1>7. ASSUME NEW p \in Caller, StopMark(p) PROVE VersionInv'
    BY <1>7 DEF StopMark, Goto
<1>8. ASSUME NEW p \in Caller, StopCancel(p) PROVE VersionInv'
    BY <1>8 DEF StopCancel, Cancel, Goto
<1>9. ASSUME NEW p \in Caller, StopWait(p) PROVE VersionInv'
    <2> USE DEF Goto
    <2>1. UNCHANGED <<row, runner, loaded, points, sweep>> /\ pc[p] \in {"wait", "waitErr"}
        BY <1>9 DEF StopWait
    <2>2. CASE op[p] = "restart" /\ Goto(p, "check") /\ UNCHANGED <<op, dev, got, read>>
        BY <2>1, <2>2
    <2>3. CASE op[p] = "delete" /\ Goto(p, "remove") /\ UNCHANGED <<op, dev, got, read>>
        BY <2>1, <2>3
    <2>4. ASSUME NEW outcome, Return(p, outcome), outcome \in {"ok", "failed"} PROVE VersionInv'
        BY <2>1, <2>4 DEF Return, After
    <2> QED BY <1>9, <2>2, <2>3, <2>4 DEF StopWait, Stopped, Leave
<1>10. ASSUME NEW p \in Caller, StopExpires(p) PROVE VersionInv'
    BY <1>10 DEF StopExpires, Leave, Unlock, Return, After, Goto
<1>11. ASSUME NEW p \in Caller, StartCheck(p) PROVE VersionInv'
    BY <1>11 DEF StartCheck, Running, Leave, Unlock, Return, After, Goto
<1>12. ASSUME NEW p \in Caller, StartLoad(p) PROVE VersionInv'
    BY <1>12 DEF StartLoad, Goto
<1>13. ASSUME NEW p \in Caller, StartFails(p) PROVE VersionInv'
    BY <1>13 DEF StartFails, Leave, Unlock, Return, After, Goto
<1>14. ASSUME NEW p \in Caller, NEW r \in Runner, StartInstall(p, r) PROVE VersionInv'
    <2> USE DEF StartInstall, Leave, Return, After, Goto
    <2>1. UNCHANGED <<row, sweep>> /\ op'[Main] = op[Main]
        BY <1>14
    <2>2. \A q \in Caller : pc'[q] \in Locked =>
              q # p /\ pc'[q] = pc[q] /\ dev'[q] = dev[q] /\ got'[q] = got[q]
                    /\ read'[q] = read[q] /\ op'[q] = op[q]
        BY <1>14
    <2>3. \A d \in Device : runner'[d] # None =>
              1 <= loaded'[d] /\ loaded'[d] <= points'[runner'[d]] /\ points'[runner'[d]] <= version'[d]
        <3> SUFFICES ASSUME NEW d \in Device, runner'[d] # None
                     PROVE  /\ 1 <= loaded'[d] /\ loaded'[d] <= points'[runner'[d]]
                            /\ points'[runner'[d]] <= version'[d]
            OBVIOUS
        <3>1. dev[p] \in Device /\ 1 <= got[p] /\ got[p] <= read[p] /\ read[p] <= version[dev[p]]
            BY <1>14
        <3>2. CASE d = dev[p]
            <4>1. runner'[d] = r /\ loaded'[d] = got[p] /\ points'[r] = read[p] /\ version'[d] = version[dev[p]]
                BY <1>14, <3>1, <3>2 DEF VersionShown
            <4> QED BY <3>1, <4>1
        <3>3. CASE d # dev[p]
            <4>1. runner'[d] = runner[d] /\ loaded'[d] = loaded[d] /\ version'[d] = version[d]
                BY <1>14, <3>3
            <4>2. runner[d] # r
                BY <1>14, <3>3, <4>1 DEF Free
            <4>3. points'[runner[d]] = points[runner[d]]
                BY <1>14, <3>3, <4>1, <4>2
            <4> QED BY <4>1, <4>3
        <3> QED BY <3>2, <3>3
    <2> QED BY <2>1, <2>2, <2>3
<1>15. ASSUME NEW p \in Caller, Remove(p) PROVE VersionInv'
    <2>1. UNCHANGED <<version, runner, loaded, points, sweep>> /\ op'[Main] = op[Main]
        BY <1>15 DEF Remove, Return
    <2>2. \A d \in Device : exists'[d] => exists[d]
        BY <1>15 DEF Remove
    <2>3. \A q \in Caller : pc'[q] \in Locked =>
              q # p /\ pc'[q] = pc[q] /\ dev'[q] = dev[q] /\ got'[q] = got[q]
                    /\ read'[q] = read[q] /\ op'[q] = op[q]
        BY <1>15 DEF Remove, Return, After, Goto
    <2> QED BY <2>1, <2>2, <2>3
<1>16. ASSUME NEW d \in Device, MainNext(d) PROVE VersionInv'
    BY <1>16 DEF MainNext, Goto
<1>17. ASSUME MainList \/ MainSwept \/ CloseListener \/ Drained \/ Shutdown PROVE VersionInv'
    BY <1>17 DEF MainList, MainSwept, CloseListener, Drained, Shutdown, Goto
<1>18. ASSUME NEW r \in Runner, RunnerDone(r) PROVE VersionInv'
    BY <1>18 DEF RunnerDone, Sink
<1>19. ASSUME NEW r \in Runner,
              RunBoot(r) \/ RunConnect(r) \/ RunBackoff(r) \/ RunExit(r) PROVE VersionInv'
    BY <1>19 DEF RunBoot, RunConnect, RunBackoff, RunExit, Sink, RunAnnounce,
        BackoffCancelled
<1>20. ASSUME NEW r \in Runner, MonitorTick(r) \/ MonitorEnd(r) PROVE VersionInv'
    BY <1>20 DEF MonitorTick, MonitorEnd, Sink
<1>21. CASE UNCHANGED vars
    BY <1>21
<1> QED
    BY <1>1, <1>2, <1>3, <1>4, <1>5, <1>6, <1>7, <1>8, <1>9, <1>10, <1>11,
       <1>12, <1>13, <1>14, <1>15, <1>16, <1>17, <1>18, <1>19, <1>20, <1>21
       DEF Next, CallerStep, MainStep, RunnerStep, MonitorStep, Closed

\* The service starts with no entry, no goroutine and every caller idle.
LEMMA InitInv ==
    ASSUME Init
    PROVE  IInv
<1> USE RuntimeAssumption DEF Init, Caller
<1>1. RowType /\ EntryType /\ CollectorType
    BY DEF RowType, EntryType, CollectorType, EntryStates
<1>2. CallerType
    BY DEF CallerType, Returned, Steps, Sweep
<1>3. LockInv /\ RoleInv
    BY DEF LockInv, RoleInv, Steps, Locked, Sweep
<1>4. StartInv /\ StopInv /\ RunInv
    BY DEF StartInv, StopInv, RunInv
<1>5. VersionInv
    <2>1. \A d \in Device : exists[d] => version[d] >= 1
        OBVIOUS
    <2>2. \A d \in Device : listed[d] <= version[d]
        <3>1. ASSUME NEW d \in Device
              PROVE  listed[d] <= version[d]
            <4>1. listed[d] = 0
                OBVIOUS
            <4>2. version[d] = 0 \/ version[d] = 1
                OBVIOUS
            <4> HIDE DEF Init
            <4> QED BY ONLY <4>1, <4>2
        <3> QED BY ONLY <3>1
    <2>3. \A p \in Caller : pc[p] \notin Locked
        BY DEF Locked
    <2> QED BY <2>1, <2>2, <2>3 DEF VersionInv, Locked
<1> QED BY <1>1, <1>2, <1>3, <1>4, <1>5 DEF IInv, TypeOK

\* The inductive invariant holds in every reachable state.
LEMMA InductiveInv == Spec => []IInv
<1>1. Init => IInv
    BY InitInv
<1>2. IInv /\ [Next]_vars => IInv'
    BY TypeStep, LockStep, RoleStep, StartStep, StopStep, RunStep, VersionStep DEF IInv
<1> QED BY <1>1, <1>2, PTL DEF Spec

----------------------------------------------------------------------------
(* The safety properties of the manager. *)

\* Every variable keeps its type, whatever the requests; in particular the main loop never leaves
\* StartEnabled or StopAll with the outcome of one device.
THEOREM TypeCorrect == Spec => []TypeOK
<1>1. IInv => TypeOK BY DEF IInv
<1> QED BY <1>1, InductiveInv, PTL

\* RunInv read from the side of a device: its live collectors are the one its
\* entry records.
LEMMA InvOneCollector == IInv => OneCollectorPerDevice
<1> SUFFICES ASSUME IInv, NEW d \in Device
             PROVE  Live(d) = IF runner[d] = None THEN {} ELSE {runner[d]}
    BY DEF OneCollectorPerDevice
<1> QED
    BY RuntimeAssumption DEF IInv, TypeOK, EntryType, RunInv, Live

\* A device is polled by at most one collector, the one its entry records,
\* for any number of devices, requests and collectors.
THEOREM OneCollector == Spec => []OneCollectorPerDevice
BY InvOneCollector, InductiveInv, PTL

\* Without a pending configuration the points polled are the stored ones.
THEOREM PendingIsHonest == Spec => []NotPendingIsCurrent
<1>1. IInv => NotPendingIsCurrent
    <2> SUFFICES ASSUME IInv, NEW d \in Device, runner[d] # None, ~ConfigPending(d)
                 PROVE  points[runner[d]] = version[d]
        BY DEF NotPendingIsCurrent
    <2>1. /\ 1 <= loaded[d] /\ loaded[d] <= points[runner[d]]
          /\ points[runner[d]] <= version[d]
        BY DEF IInv, VersionInv
    <2>2. loaded[d] \in Nat /\ version[d] \in Nat /\ points[runner[d]] \in Nat
        BY RuntimeAssumption DEF IInv, TypeOK, RowType, EntryType, CollectorType
    <2>3. loaded[d] = version[d]
        BY <2>1, <2>2 DEF ConfigPending
    <2> QED BY <2>1, <2>2, <2>3
<1> QED BY <1>1, InductiveInv, PTL

\* What moves a client is its own request or its own step.
LEMMA OwnStep ==
    ASSUME CallerType, [Next]_vars, NEW p \in Client, pc'[p] # pc[p]
    PROVE  \/ \E o \in Operations, d \in Device : Request(p, o, d)
           \/ CallerStep(p)
<1> USE RuntimeAssumption DEF Caller, vars, CallerType
<1>1. ASSUME NEW q \in Client, NEW o \in Operations, NEW d \in Device,
             Request(q, o, d), q # p
      PROVE  FALSE
    BY <1>1 DEF Request, Return, After, Goto
<1>2. ASSUME NEW q \in Caller, CallerStep(q), q # p
      PROVE  FALSE
    <2>1. CASE TryBegin(q) \/ Persist(q) \/ PersistFails(q) \/ Remove(q)
        BY <1>2, <2>1 DEF TryBegin, Persist, PersistFails, Remove, Leave, Return, After, Goto
    <2>2. CASE StopNothing(q) \/ StopMark(q) \/ StopCancel(q) \/ StopWait(q) \/ StopExpires(q)
        BY <1>2, <2>2 DEF StopNothing, StopMark, StopCancel, StopWait, StopExpires,
                          Stopped, Leave, Return, After, Goto
    <2>3. CASE StartCheck(q) \/ StartLoad(q) \/ StartFails(q)
               \/ \E r \in Runner : StartInstall(q, r)
        BY <1>2, <2>3 DEF StartCheck, StartLoad, StartFails, StartInstall,
                          Leave, Return, After, Goto
    <2> QED BY <1>2, <2>1, <2>2, <2>3 DEF CallerStep
<1>3. ASSUME MainStep \/ Shutdown
      PROVE  FALSE
    BY <1>3 DEF MainStep, Shutdown, MainList, MainNext, MainSwept, CloseListener, Drained, Goto
<1>4. ASSUME NEW r \in Runner, RunnerStep(r) \/ MonitorStep(r)
      PROVE  FALSE
    BY <1>4 DEF RunnerStep, MonitorStep, RunBoot, RunConnect, RunBackoff, RunExit,
                RunnerDone, MonitorTick, MonitorEnd
<1>5. ASSUME NEW d \in Device, CreateDevice(d) \/ UpdateConfig(d) \/ Snapshot(d)
      PROVE  FALSE
    BY <1>5 DEF CreateDevice, UpdateConfig, Snapshot
<1> QED BY <1>1, <1>2, <1>3, <1>4, <1>5 DEF Next, Closed

\* A Stop or Delete that got a nil from stopLocked left nothing polling.
THEOREM StopStops == Spec => StopMeansStopped
<1> DEFINE Returns(p, d) ==
        /\ op[p] \in {"stop", "delete"} /\ dev[p] = d
        /\ pc[p] \in {"stop", "wait", "waitErr"} /\ pc'[p] \in {"ok", "remove"}
<1>1. ASSUME IInv, IInv', [Next]_vars, NEW p \in Client, NEW d \in Device, Returns(p, d)
      PROVE  Live(d)' = {}
    <2> USE RuntimeAssumption DEF Caller
    <2>1. StopNothing(p) \/ (pc[p] = "wait" /\ StopWait(p))
        <3>1. CallerStep(p)
            BY <1>1, OwnStep DEF IInv, TypeOK, Request, Returned
        <3> QED
            BY <1>1, <3>1 DEF IInv, TypeOK, CallerType, CallerStep, TryBegin, Persist,
               PersistFails, StopMark, StopCancel, StopWait, StopExpires, StartCheck,
               StartLoad, StartFails, StartInstall, Remove, Leave, Return, After, Goto
    <2>2. runner'[d] = None
        <3>1. CASE StopNothing(p)
            BY <1>1, <3>1 DEF StopNothing
        <3>2. CASE pc[p] = "wait" /\ StopWait(p)
            <4>1. rpc[target[p]] = "none" /\ UNCHANGED runner
                BY <3>2 DEF StopWait, Ended
            <4>2. runner[d] \in {target[p], None}
                BY <1>1, <3>2 DEF IInv, StopInv
            <4>3. runner[d] # None => rpc[runner[d]] # "none"
                BY <1>1 DEF IInv, RunInv
            <4> QED BY <4>1, <4>2, <4>3
        <3> QED BY <2>1, <3>1, <3>2
    <2>3. OneCollectorPerDevice'
        BY <1>1, InvOneCollector, PTL
    <2> QED BY <2>2, <2>3 DEF OneCollectorPerDevice
<1>2. IInv /\ IInv' /\ [Next]_vars =>
        [\A p \in Client, d \in Device : Returns(p, d) => Live(d)' = {}]_vars
    BY <1>1
<1> QED BY <1>2, InductiveInv, PTL DEF Spec, StopMeansStopped

----------------------------------------------------------------------------
(* The manager implements the lease of a device to its collector.           *)

Holders == [d \in Device |-> Live(d)]
Revoked == {r \in Runner : rpc[r] # "none" /\ cancelled[r]}

\* A goroutine starts only in StartInstall, is cancelled only in StopCancel and
\* ends only in RunnerDone.
LEMMA CollectorMoves ==
    ASSUME CollectorType, [Next]_vars
    PROVE  \/ \E p \in Caller, r \in Runner : StartInstall(p, r)
           \/ \E p \in Caller : StopCancel(p)
           \/ \E r \in Runner : RunnerDone(r)
           \/ /\ \A r \in Runner : rpc'[r] # "none" <=> rpc[r] # "none"
              /\ UNCHANGED <<rdev, cancelled>>
<1> USE DEF vars, row, entry, goro, local, sweep
<1>1. ASSUME NEW r \in Runner, RunnerStep(r), ~RunnerDone(r)
      PROVE  /\ \A s \in Runner : rpc'[s] # "none" <=> rpc[s] # "none"
             /\ UNCHANGED <<rdev, cancelled>>
    <2>1. \E t \in {"connect", "backoff", "scan", "exit"} :
              rpc' = [rpc EXCEPT ![r] = t] /\ rpc[r] # "none"
        BY <1>1 DEF RunnerStep, RunBoot, RunConnect, RunBackoff, RunExit, RunAnnounce,
                    BackoffCancelled
    <2>2. UNCHANGED <<rdev, cancelled>>
        BY <1>1 DEF RunnerStep, RunBoot, RunConnect, RunBackoff, RunExit
    <2> QED BY <2>1, <2>2 DEF CollectorType
<1>2. ASSUME NEW p \in Caller, CallerStep(p), ~StopCancel(p),
             ~(\E r \in Runner : StartInstall(p, r))
      PROVE  UNCHANGED <<rpc, rdev, cancelled>>
    BY <1>2 DEF CallerStep, TryBegin, Persist, PersistFails, StopNothing, StopMark,
                StopWait, StopExpires, StartCheck, StartLoad, StartFails, Remove
<1>3. ASSUME NEW p \in Client, NEW o \in Operations, NEW d \in Device, Request(p, o, d)
      PROVE  UNCHANGED <<rpc, rdev, cancelled>>
    BY <1>3 DEF Request
<1>4. ASSUME MainStep \/ Shutdown
      PROVE  UNCHANGED <<rpc, rdev, cancelled>>
    BY <1>4 DEF MainStep, Shutdown, MainList, MainNext, MainSwept, CloseListener, Drained
<1>5. ASSUME NEW r \in Runner, MonitorStep(r)
      PROVE  UNCHANGED <<rpc, rdev, cancelled>>
    BY <1>5 DEF MonitorStep, MonitorTick, MonitorEnd
<1>6. ASSUME NEW d \in Device, CreateDevice(d) \/ UpdateConfig(d) \/ Snapshot(d)
      PROVE  UNCHANGED <<rpc, rdev, cancelled>>
    BY <1>6 DEF CreateDevice, UpdateConfig, Snapshot
<1> QED BY <1>1, <1>2, <1>3, <1>4, <1>5, <1>6 DEF Next, Closed

\* Every step of the manager is a Grant, a Revoke, an End or a stutter of the
\* lease.
LEMMA LeaseStep ==
    ASSUME IInv, IInv', [Next]_vars
    PROVE  [Lease!Next]_<<Holders, Revoked>>
<1> USE RuntimeAssumption
<1>0. /\ rpc \in [Runner -> {"none", "boot", "connect", "backoff", "scan", "exit"}]
      /\ rdev \in [Runner -> Device \cup {None}]
      /\ cancelled \in [Runner -> BOOLEAN]
    BY DEF IInv, TypeOK, CollectorType
<1>1. ASSUME NEW p \in Caller, NEW r \in Runner, StartInstall(p, r)
      PROVE  Lease!Grant(dev[p], r)
    <2>1. dev[p] \in Device /\ runner[dev[p]] = None
        BY <1>1 DEF StartInstall, IInv, LockInv, StartInv, Steps
    <2>2. rpc[r] = "none" /\ cancelled[r]
        BY <1>1 DEF StartInstall, Free, IInv, RunInv
    <2>3. /\ rpc' = [rpc EXCEPT ![r] = "boot"] /\ rdev' = [rdev EXCEPT ![r] = dev[p]]
          /\ cancelled' = [cancelled EXCEPT ![r] = FALSE]
        BY <1>1 DEF StartInstall
    <2>4. Live(dev[p]) = {}
        BY <2>1, InvOneCollector DEF OneCollectorPerDevice
    <2>5. \A e \in Device : r \notin Live(e)
        BY <2>2 DEF Live
    <2>6. Holders' = [Holders EXCEPT ![dev[p]] = {r}]
        <3>1. ASSUME NEW e \in Device
              PROVE  {s \in Runner : rpc'[s] # "none" /\ rdev'[s] = e}
                        = IF e = dev[p] THEN {r} ELSE Live(e)
            BY <1>0, <2>2, <2>3, <2>4 DEF Live
        <3> QED BY <2>1, <3>1 DEF Holders, Live
    <2>7. Revoked' = Revoked
        BY <1>0, <2>2, <2>3 DEF Revoked
    <2> QED BY <2>1, <2>4, <2>5, <2>6, <2>7 DEF Lease!Grant, Holders, Revoked
<1>2. ASSUME NEW p \in Caller, StopCancel(p)
      PROVE  UNCHANGED <<Holders, Revoked>>
             \/ \E d \in Device, r \in Runner : Lease!Revoke(d, r)
    <2>1. /\ dev[p] \in Device /\ target[p] \in Runner
          /\ runner[dev[p]] \in {target[p], None}
        BY <1>2 DEF StopCancel, IInv, LockInv, StopInv, Steps
    <2>2. /\ cancelled' = [cancelled EXCEPT ![target[p]] = TRUE]
          /\ UNCHANGED <<rpc, rdev>>
        BY <1>2 DEF StopCancel, Cancel
    <2>3. Holders' = Holders
        BY <2>2 DEF Holders, Live
    <2>4. CASE rpc[target[p]] = "none"
        BY <1>0, <2>1, <2>2, <2>3, <2>4 DEF Revoked
    <2>5. CASE rpc[target[p]] # "none"
        <3>1. PICK r \in Runner : r = target[p]
            BY <2>1
        <3>2. PICK d \in Device : d = rdev[r]
            BY <2>5, <3>1 DEF IInv, RunInv
        <3>3. r \in Live(d)
            BY <2>5, <3>1, <3>2 DEF Live
        <3>4. Revoked' = Revoked \cup {r}
            BY <1>0, <2>2, <2>5, <3>1 DEF Revoked
        <3>5. Lease!Revoke(d, r)
            BY <2>3, <3>3, <3>4 DEF Lease!Revoke, Holders, Revoked
        <3> QED BY <3>5
    <2> QED BY <2>4, <2>5
<1>3. ASSUME NEW r \in Runner, RunnerDone(r)
      PROVE  Lease!End(rdev[r], r)
    <2>1. rpc[r] = "exit" /\ cancelled[r] /\ rdev[r] \in Device
        BY <1>3 DEF RunnerDone, IInv, RunInv
    <2>2. rpc' = [rpc EXCEPT ![r] = "none"] /\ UNCHANGED <<rdev, cancelled>>
        BY <1>3 DEF RunnerDone
    <2>3. r \in Live(rdev[r]) /\ r \in Revoked
        BY <2>1 DEF Live, Revoked
    <2>4. Holders' = [Holders EXCEPT ![rdev[r]] = @ \ {r}]
        <3>1. ASSUME NEW e \in Device
              PROVE  {s \in Runner : rpc'[s] # "none" /\ rdev'[s] = e}
                        = IF e = rdev[r] THEN Live(e) \ {r} ELSE Live(e)
            BY <1>0, <2>1, <2>2 DEF Live
        <3>2. Holders' = [e \in Device |-> IF e = rdev[r] THEN Live(e) \ {r} ELSE Live(e)]
            BY <3>1 DEF Holders, Live
        <3>3. [Holders EXCEPT ![rdev[r]] = @ \ {r}]
                = [e \in Device |-> IF e = rdev[r] THEN Live(e) \ {r} ELSE Live(e)]
            BY <2>1 DEF Holders
        <3> QED BY ONLY <3>2, <3>3
    <2>5. Revoked' = Revoked \ {r}
        BY <1>0, <2>1, <2>2 DEF Revoked
    <2> QED BY <2>1, <2>3, <2>4, <2>5 DEF Lease!End, Holders, Revoked
<1>4. CASE /\ \A r \in Runner : rpc'[r] # "none" <=> rpc[r] # "none"
           /\ UNCHANGED <<rdev, cancelled>>
    BY <1>4 DEF Holders, Revoked, Live
<1>5. CollectorType
    BY DEF IInv, TypeOK
<1>6. ASSUME NEW p \in Caller, NEW r \in Runner, StartInstall(p, r)
      PROVE  Lease!Next
    BY <1>1, <1>6 DEF Lease!Next, StartInstall, IInv, LockInv, Steps
<1>7. ASSUME NEW r \in Runner, RunnerDone(r)
      PROVE  Lease!Next
    BY <1>3, <1>7 DEF Lease!Next, RunnerDone, IInv, RunInv
<1> QED BY CollectorMoves, <1>2, <1>4, <1>5, <1>6, <1>7 DEF Lease!Next

\* Every behaviour of the manager is one of the lease: a device goes to a new
\* collector only after its last one has ended, and none ends unasked.
THEOREM ImplementsLease == Spec => LeaseSpec
<1>1. Init => Lease!Init
    BY DEF Init, Lease!Init, Live
<1>2. IInv /\ IInv' /\ [Next]_vars => [Lease!Next]_<<Holders, Revoked>>
    BY LeaseStep
<1>3. IInv /\ IInv' /\ [Next]_vars =>
        [Lease!Next]_<<[d \in Device |-> Live(d)],
                       {r \in Runner : rpc[r] # "none" /\ cancelled[r]}>>
    BY <1>2 DEF Holders, Revoked
<1> QED BY <1>1, <1>3, InductiveInv, PTL DEF Spec, LeaseSpec, Lease!Spec

============================================================================
