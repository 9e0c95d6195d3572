--------------------------- MODULE DeviceRuntime ---------------------------
(***************************************************************************)
(* The device lifecycle: internal/runtime/manager.go, with the callers that *)
(* drive it (HTTP requests through internal/service/device.go and the main  *)
(* goroutine's StartEnabled and StopAll), the device rows it persists       *)
(* (internal/store/device.go), and the goroutines of one collector that it  *)
(* supervises (internal/collector/runtime.go).                              *)
(*                                                                          *)
(* Callers and collectors interleave at every lock release, store call and  *)
(* channel operation.  A collector is a "slot" r of Runner, reused once its *)
(* goroutines have ended, so that behaviours are unbounded while the state  *)
(* space is finite.                                                         *)
(***************************************************************************)
EXTENDS Naturals

CONSTANTS
    Device,       \* device identifiers (SQLite rowids, never reused)
    Client,       \* HTTP request goroutines
    Main,         \* the goroutine of runWithReady
    Runner,       \* slots for collectors
    None,         \* Go's nil
    MaxVersion,   \* bound on config_version
    Operations,   \* the requests clients send
    CtxExpires    \* whether a caller's context may end while it waits in stopLocked

Caller == Client \cup {Main}

ASSUME RuntimeAssumption ==
    /\ None \notin Runner \cup Caller
    /\ Main \notin Client
    /\ MaxVersion \in Nat \ {0}
    /\ Operations \subseteq {"start", "stop", "restart", "delete"}
    /\ CtxExpires \in BOOLEAN

VARIABLES
    \* the devices table
    exists,       \* device -> whether its row exists
    enabled,      \* device -> the persisted desired state
    version,      \* device -> config_version, 0 before the row is created
    \* Manager.devices and the fields of deviceRuntime
    entries,      \* the devices that have an entry
    opMu,         \* device -> the caller that holds opMu, or None
    runner,       \* device -> entry.runner
    state,        \* device -> entry.state
    loaded,       \* device -> entry.loadedConfigVersion
    \* one collector each: the runner goroutine, its context, its monitor
    rpc,          \* runner -> where its goroutine is: "none" once done is closed
    rdev,         \* runner -> its device
    cancelled,    \* runner -> whether its context is cancelled
    points,       \* runner -> the config_version its points were read at
    monitor,      \* runner -> whether its monitorConnectionState runs
    \* the callers
    pc, op, dev,  \* where a caller is, in which operation, on which device
    got,          \* the device record it read: its config_version
    read,         \* the config_version at its ListAllPoints
    target,       \* the runner it stops
    todo, listed  \* Main: devices left to start or stop, versions it listed

row    == <<exists, enabled, version>>
goro   == <<rpc, rdev, cancelled, points, monitor>>
entry  == <<entries, opMu, runner, state, loaded>>
local  == <<op, dev, got, read, target>>
sweep  == <<todo, listed>>
vars   == <<row, entry, goro, pc, local, sweep>>

Returned == {"idle", "ok", "busy", "failed"}
Steps == {"try", "persist", "stop", "cancel", "wait", "waitErr", "check",
          "load", "install", "remove"}
Sweep == {"list", "next", "serve", "down", "closing", "closed"}
EntryStates == {"stopped", "starting", "online", "reconnecting", "offline",
                "stopping", "error"}
ConnStates == {"online", "reconnecting", "offline"}

RowType ==
    /\ exists \in [Device -> BOOLEAN] /\ enabled \in [Device -> BOOLEAN]
    /\ version \in [Device -> 0..MaxVersion]

EntryType ==
    /\ entries \subseteq Device
    /\ opMu \in [Device -> Caller \cup {None}]
    /\ runner \in [Device -> Runner \cup {None}]
    /\ state \in [Device -> EntryStates]
    /\ loaded \in [Device -> 0..MaxVersion]

CollectorType ==
    /\ rpc \in [Runner -> {"none", "boot", "connect", "backoff", "scan", "exit"}]
    /\ rdev \in [Runner -> Device \cup {None}]
    /\ cancelled \in [Runner -> BOOLEAN] /\ monitor \in [Runner -> BOOLEAN]
    /\ points \in [Runner -> 0..MaxVersion]

CallerType ==
    /\ pc \in [Caller -> Returned \cup Steps \cup Sweep]
    /\ pc[Main] \notin Returned
    /\ op \in [Caller -> {"none", "start", "stop", "restart", "delete",
                          "startEnabled", "stopAll"}]
    /\ dev \in [Caller -> Device \cup {None}]
    /\ got \in [Caller -> 0..MaxVersion] /\ read \in [Caller -> 0..MaxVersion]
    /\ target \in [Caller -> Runner \cup {None}]
    /\ todo \subseteq Device
    /\ listed \in [Device -> 0..MaxVersion]

\* The main loop's position is never an outcome: a failing device ends neither
\* StartEnabled nor StopAll.
TypeOK == RowType /\ EntryType /\ CollectorType /\ CallerType

(***************************************************************************)
(* The service starts over whatever the last process left in the database.  *)
(***************************************************************************)
Init ==
    /\ exists \in [Device -> BOOLEAN]
    /\ enabled \in [Device -> BOOLEAN]
    /\ \A d \in Device : enabled[d] => exists[d]
    /\ version = [d \in Device |-> IF exists[d] THEN 1 ELSE 0]
    /\ entries = {}
    /\ opMu = [d \in Device |-> None]
    /\ runner = [d \in Device |-> None]
    /\ state = [d \in Device |-> "stopped"]
    /\ loaded = [d \in Device |-> 0]
    /\ rpc = [r \in Runner |-> "none"]
    /\ rdev = [r \in Runner |-> None]
    /\ cancelled = [r \in Runner |-> TRUE]
    /\ points = [r \in Runner |-> 0]
    /\ monitor = [r \in Runner |-> FALSE]
    /\ pc = [p \in Caller |-> IF p = Main THEN "list" ELSE "idle"]
    /\ op = [p \in Caller |-> IF p = Main THEN "startEnabled" ELSE "none"]
    /\ dev = [p \in Caller |-> None]
    /\ got = [p \in Caller |-> 0]
    /\ read = [p \in Caller |-> 0]
    /\ target = [p \in Caller |-> None]
    /\ todo = {}
    /\ listed = [d \in Device |-> 0]

----------------------------------------------------------------------------
(* Rows edited through the API: every edit of a device or of its points     *)
(* commits together with an increment of config_version.                    *)

Answering == pc[Main] # "closed"

CreateDevice(d) ==
    /\ Answering
    /\ version[d] = 0
    /\ exists' = [exists EXCEPT ![d] = TRUE]
    /\ version' = [version EXCEPT ![d] = 1]
    /\ UNCHANGED <<enabled, entry, goro, pc, local, sweep>>

UpdateConfig(d) ==
    /\ Answering
    /\ exists[d] /\ version[d] < MaxVersion
    /\ version' = [version EXCEPT ![d] = @ + 1]
    /\ UNCHANGED <<exists, enabled, entry, goro, pc, local, sweep>>

\* Looking at a device gives it an entry.
Snapshot(d) ==
    /\ Answering
    /\ exists[d]
    /\ entries' = entries \cup {d}
    /\ UNCHANGED <<row, opMu, runner, state, loaded, goro, pc, local, sweep>>

----------------------------------------------------------------------------
(* A caller's operation.                                                    *)

Goto(p, step) == pc' = [pc EXCEPT ![p] = step]

\* Where a call returns to: in StartEnabled and StopAll the loop goes on,
\* whatever the outcome.
\* Mutant: the loop gives up at the first error.
GiveUpAtError(p, outcome) == IF p = Main /\ outcome = "ok" THEN "next" ELSE outcome
After(p, outcome) == IF p = Main THEN "next" ELSE outcome

\* The caller returns and forgets its locals.
Return(p, outcome) ==
    /\ Goto(p, After(p, outcome))
    /\ op' = [op EXCEPT ![p] = IF p = Main THEN @ ELSE "none"]
    /\ dev' = [dev EXCEPT ![p] = None]
    /\ got' = [got EXCEPT ![p] = 0]
    /\ read' = [read EXCEPT ![p] = 0]
    /\ target' = [target EXCEPT ![p] = None]

\* opMu.Unlock, for a request together with clearing the shown operation.
Unlock(p) == opMu' = [opMu EXCEPT ![dev[p]] = None]

\* The deferred endOperation of a call that returns.
\* Mutant: an error returns early, with the lock held.
LeaveLocked(p, outcome) ==
    /\ IF outcome = "failed" THEN UNCHANGED opMu ELSE Unlock(p)
    /\ Return(p, outcome)
Leave(p, outcome) == Unlock(p) /\ Return(p, outcome)

\* A request arrives.  Delete looks the device up first.
Request(p, o, d) ==
    /\ pc[Main] \notin {"closing", "closed"}
    /\ pc[p] \in Returned
    /\ \/ /\ o = "delete" /\ ~exists[d]
          /\ Return(p, "failed")
       \/ /\ o # "delete" \/ exists[d]
          /\ Goto(p, "try")
          /\ op' = [op EXCEPT ![p] = o]
          /\ dev' = [dev EXCEPT ![p] = d]
          /\ UNCHANGED <<got, read, target>>
    /\ UNCHANGED <<row, entry, goro, sweep>>

\* TryLock fails.
\* Mutant: a busy device is operated on all the same.
NeverBusy(d) == FALSE
Busy(d) == opMu[d] # None

\* entry(id), then tryBeginOperation.
TryBegin(p) ==
    /\ pc[p] = "try"
    /\ entries' = entries \cup {dev[p]}
    /\ \/ /\ ~Busy(dev[p])
          /\ opMu' = [opMu EXCEPT ![dev[p]] = p]
          /\ Goto(p, "persist")
          /\ UNCHANGED local
       \/ /\ Busy(dev[p])
          /\ Return(p, "busy")
          /\ UNCHANGED opMu
    /\ UNCHANGED <<row, runner, state, loaded, goro, sweep>>

\* The update of SetDeviceEnabled.
SetEnabled(p) ==
    enabled' = [enabled EXCEPT ![dev[p]] = op[p] \in {"start", "restart"}]

\* The update, then the row is read back.
Persist(p) ==
    /\ pc[p] = "persist"
    /\ exists[dev[p]]
    /\ SetEnabled(p)
    /\ got' = [got EXCEPT ![p] = IF op[p] \in {"start", "restart"} THEN version[dev[p]] ELSE 0]
    /\ Goto(p, IF op[p] = "start" THEN "check" ELSE "stop")
    /\ UNCHANGED <<exists, version, entry, goro, op, dev, read, target, sweep>>
\* No such row; or an error of the store or the context, before the update or
\* between the update and the read.
PersistFails(p) ==
    /\ pc[p] = "persist"
    /\ \/ UNCHANGED enabled
       \/ exists[dev[p]] /\ SetEnabled(p)
    /\ Leave(p, "failed")
    /\ UNCHANGED <<exists, version, entries, runner, state, loaded, goro, sweep>>

----------------------------------------------------------------------------
(* stopLocked                                                               *)

\* stopLocked has returned nil: Restart goes on to startLocked, Delete unlocks
\* and goes on to the row, the others return.
Stopped(p) ==
    \/ /\ op[p] = "restart"
       /\ Goto(p, "check")
       /\ target' = [target EXCEPT ![p] = None]
       /\ UNCHANGED <<opMu, op, dev, got, read>>
    \/ /\ op[p] = "delete"
       /\ Unlock(p)
       /\ Goto(p, "remove")
       /\ target' = [target EXCEPT ![p] = None]
       /\ UNCHANGED <<op, dev, got, read>>
    \/ /\ op[p] \notin {"restart", "delete"}
       /\ Leave(p, "ok")

StopNothing(p) ==
    /\ pc[p] = "stop"
    /\ runner[dev[p]] = None
    /\ state' = [state EXCEPT ![dev[p]] = "stopped"]
    /\ Stopped(p)
    /\ UNCHANGED <<row, entries, runner, loaded, goro, sweep>>

StopMark(p) ==
    /\ pc[p] = "stop"
    /\ runner[dev[p]] # None
    /\ state' = [state EXCEPT ![dev[p]] = "stopping"]
    /\ target' = [target EXCEPT ![p] = runner[dev[p]]]
    /\ Goto(p, "cancel")
    /\ UNCHANGED <<row, entries, opMu, runner, loaded, goro, op, dev, got, read,
                   sweep>>
\* Mutant: the context is left alone.
CancelNothing(r) == UNCHANGED cancelled
Cancel(r) == cancelled' = [cancelled EXCEPT ![r] = TRUE]

\* cancel(), then runner.Close(): the collector may not have a connection yet,
\* and closing one may fail; that error is reported after the collector has ended.
StopCancel(p) ==
    /\ pc[p] = "cancel"
    /\ Cancel(target[p])
    /\ \E step \in {"wait", "waitErr"} : Goto(p, step)
    /\ UNCHANGED <<row, entry, rpc, rdev, points, monitor, local, sweep>>
\* <-done
\* Mutant: nothing is waited for.
EndsAtOnce(r) == TRUE
Ended(r) == rpc[r] = "none"

StopWait(p) ==
    /\ pc[p] \in {"wait", "waitErr"}
    /\ Ended(target[p])
    /\ \/ pc[p] = "wait" /\ Stopped(p)
       \/ pc[p] = "waitErr" /\ Leave(p, "failed")
    /\ UNCHANGED <<row, entries, runner, state, loaded, goro, sweep>>

\* ctx.Done() wins the select: the collector is left in "stopping".
StopExpires(p) ==
    /\ CtxExpires
    /\ pc[p] \in {"wait", "waitErr"}
    /\ Leave(p, "failed")
    /\ UNCHANGED <<row, entries, runner, state, loaded, goro, sweep>>

----------------------------------------------------------------------------
(* startLocked                                                              *)

\* Mutant: the status is asked instead of the runner.
RunningByState(d) == state[d] \notin {"stopped", "stopping", "error"}
Running(d) == runner[d] # None

StartCheck(p) ==
    /\ pc[p] = "check"
    /\ \/ /\ Running(dev[p])
          /\ Leave(p, "ok")
       \/ /\ ~Running(dev[p])
          /\ Goto(p, "load")
          /\ UNCHANGED <<opMu, local>>
    /\ UNCHANGED <<row, entries, runner, state, loaded, goro, sweep>>

StartLoad(p) ==
    /\ pc[p] = "load"
    /\ exists[dev[p]]
    /\ read' = [read EXCEPT ![p] = version[dev[p]]]
    /\ Goto(p, "install")
    /\ UNCHANGED <<row, entry, goro, op, dev, got, target, sweep>>

\* ListAllPoints fails, or returns no point and factory.New refuses the device:
\* always so for a device deleted in the meantime.
StartFails(p) ==
    /\ pc[p] = "load"
    /\ state' = [state EXCEPT ![dev[p]] = "error"]
    /\ Leave(p, "failed")
    /\ UNCHANGED <<row, entries, runner, loaded, goro, sweep>>

\* A slot whose goroutines have ended and that nobody waits for.
Free(r) ==
    /\ rpc[r] = "none" /\ ~monitor[r]
    /\ \A p \in Caller : target[p] # r
\* The version the entry shows: that of the record read before the points.
\* Mutant: the version is read again once the points are loaded.
VersionReread(p) == version[dev[p]]
VersionShown(p) == got[p]

StartInstall(p, r) ==
    /\ pc[p] = "install"
    /\ Free(r)
    /\ runner' = [runner EXCEPT ![dev[p]] = r]
    /\ state' = [state EXCEPT ![dev[p]] = "starting"]
    /\ loaded' = [loaded EXCEPT ![dev[p]] = VersionShown(p)]
    /\ rpc' = [rpc EXCEPT ![r] = "boot"]
    /\ rdev' = [rdev EXCEPT ![r] = dev[p]]
    /\ cancelled' = [cancelled EXCEPT ![r] = FALSE]
    /\ points' = [points EXCEPT ![r] = read[p]]
    /\ Leave(p, "ok")
    /\ UNCHANGED <<row, entries, monitor, sweep>>

\* DeviceService.Delete after its Stop: the row goes, with no lock held.
Remove(p) ==
    /\ pc[p] = "remove"
    /\ exists' = [exists EXCEPT ![dev[p]] = FALSE]
    /\ enabled' = [enabled EXCEPT ![dev[p]] = FALSE]
    /\ Return(p, IF exists[dev[p]] THEN "ok" ELSE "failed")
    /\ UNCHANGED <<version, entry, goro, sweep>>

----------------------------------------------------------------------------
(* The main goroutine.                                                      *)

\* StartEnabled reads every row once; the HTTP service is already up.
MainList ==
    /\ pc[Main] = "list"
    /\ todo' \in {{}, {d \in Device : exists[d] /\ enabled[d]}}
    /\ listed' = [d \in Device |-> IF d \in todo' THEN version[d] ELSE 0]
    /\ Goto(Main, "next")
    /\ UNCHANGED <<row, entry, goro, local>>

\* The next device of StartEnabled or StopAll: opMu.Lock() blocks.
MainNext(d) ==
    /\ pc[Main] = "next"
    /\ d \in todo
    /\ opMu[d] = None
    /\ opMu' = [opMu EXCEPT ![d] = Main]
    /\ entries' = entries \cup {d}
    /\ todo' = todo \ {d}
    /\ listed' = [listed EXCEPT ![d] = 0]
    /\ dev' = [dev EXCEPT ![Main] = d]
    /\ got' = [got EXCEPT ![Main] = listed[d]]
    /\ Goto(Main, IF op[Main] = "startEnabled" THEN "check" ELSE "stop")
    /\ UNCHANGED <<row, runner, state, loaded, goro, op, read, target>>

MainSwept ==
    /\ pc[Main] = "next"
    /\ todo = {}
    /\ Goto(Main, IF op[Main] = "startEnabled" THEN "serve" ELSE "down")
    /\ UNCHANGED <<row, entry, goro, local, sweep>>

\* SIGINT, SIGTERM or a failed listener: StopAll over the entries there are now.
Shutdown ==
    /\ pc[Main] = "serve"
    /\ op' = [op EXCEPT ![Main] = "stopAll"]
    /\ todo' = entries
    /\ Goto(Main, "next")
    /\ UNCHANGED <<row, entry, goro, dev, got, read, target, listed>>

\* server.Shutdown: no new request, then those in flight are answered.
CloseListener ==
    /\ pc[Main] = "down"
    /\ Goto(Main, "closing")
    /\ UNCHANGED <<row, entry, goro, local, sweep>>

\* Or the shutdown context expires first.
Drained ==
    /\ pc[Main] = "closing"
    /\ CtxExpires \/ \A p \in Client : pc[p] \in Returned
    /\ Goto(Main, "closed")
    /\ UNCHANGED <<row, entry, goro, local, sweep>>

----------------------------------------------------------------------------
(* The goroutines of a collector.  Its status sink writes the entry it was  *)
(* created for, whichever collector that entry now has.  How its connection *)
(* fares is the business of ConnManager: here it may be found in any state. *)

Sink(r, s) == state' = [state EXCEPT ![rdev[r]] = s]

RunBoot(r) ==
    /\ rpc[r] = "boot"
    /\ Sink(r, "starting")
    /\ rpc' = [rpc EXCEPT ![r] = "connect"]
    /\ UNCHANGED <<row, entries, opMu, runner, loaded, rdev, cancelled, points,
                   monitor, pc, local, sweep>>

\* The first report of the connection, the monitor, then the scan loop.
RunAnnounce(r, s) ==
    /\ Sink(r, s)
    /\ monitor' = [monitor EXCEPT ![r] = TRUE]
    /\ rpc' = [rpc EXCEPT ![r] = "scan"]

RunConnect(r) ==
    /\ rpc[r] = "connect"
    /\ \/ RunAnnounce(r, "online")
       \/ /\ Sink(r, "reconnecting")
          /\ rpc' = [rpc EXCEPT ![r] = "backoff"]
          /\ UNCHANGED monitor
    /\ UNCHANGED <<row, entries, opMu, runner, loaded, rdev, cancelled, points, pc,
                   local, sweep>>
\* The backoff's select takes ctx.Done() and Run returns.
\* Mutant: the backoff does not listen to the context.
BackoffDeaf(r) == cancelled[r] /\ UNCHANGED <<rpc, state, monitor>>
BackoffCancelled(r) ==
    /\ cancelled[r]
    /\ rpc' = [rpc EXCEPT ![r] = "exit"]
    /\ UNCHANGED <<state, monitor>>

\* ReconnectWithBackoff returns: connected, given up, or cancelled.
RunBackoff(r) ==
    /\ rpc[r] = "backoff"
    /\ \/ /\ ~cancelled[r]
          /\ \E s \in {"online", "offline"} : RunAnnounce(r, s)
       \/ BackoffCancelled(r)
    /\ UNCHANGED <<row, entries, opMu, runner, loaded, rdev, cancelled, points, pc,
                   local, sweep>>

\* ScanLoop leaves only on a cancelled context.
RunExit(r) ==
    /\ rpc[r] = "scan"
    /\ cancelled[r]
    /\ rpc' = [rpc EXCEPT ![r] = "exit"]
    /\ UNCHANGED <<row, entry, rdev, cancelled, points, monitor, pc, local, sweep>>

\* The goroutine of startLocked after Run: clear the entry if it is still this
\* runner's, then close(done).
RunnerDone(r) ==
    /\ rpc[r] = "exit"
    /\ rpc' = [rpc EXCEPT ![r] = "none"]
    /\ points' = [points EXCEPT ![r] = 0]
    /\ \/ /\ runner[rdev[r]] = r
          /\ runner' = [runner EXCEPT ![rdev[r]] = None]
          /\ Sink(r, "stopped")
       \/ runner[rdev[r]] # r /\ UNCHANGED <<runner, state>>
    /\ UNCHANGED <<row, entries, opMu, loaded, rdev, cancelled, monitor, pc, local,
                   sweep>>

\* The connection is found in another state than the last one reported: any
\* state, since it may have changed more than once between two ticks.  The
\* select may take the ticker although the context is cancelled too.
MonitorTick(r) ==
    /\ monitor[r]
    /\ \E s \in ConnStates : Sink(r, s)
    /\ UNCHANGED <<row, entries, opMu, runner, loaded, goro, pc, local, sweep>>

MonitorEnd(r) ==
    /\ monitor[r] /\ cancelled[r]
    /\ monitor' = [monitor EXCEPT ![r] = FALSE]
    /\ UNCHANGED <<row, entry, rpc, rdev, cancelled, points, pc, local, sweep>>

----------------------------------------------------------------------------
CallerStep(p) ==
    \/ TryBegin(p) \/ Persist(p) \/ PersistFails(p)
    \/ StopNothing(p) \/ StopMark(p) \/ StopCancel(p) \/ StopWait(p) \/ StopExpires(p)
    \/ StartCheck(p) \/ StartLoad(p) \/ StartFails(p)
    \/ \E r \in Runner : StartInstall(p, r)
    \/ Remove(p)

MainStep ==
    \/ MainList \/ MainSwept \/ CloseListener \/ Drained
    \/ \E d \in Device : MainNext(d)

RunnerStep(r) ==
    RunBoot(r) \/ RunConnect(r) \/ RunBackoff(r) \/ RunExit(r) \/ RunnerDone(r)

MonitorStep(r) == MonitorTick(r) \/ MonitorEnd(r)

\* The process may exit here: nothing more is required of it.
Closed == pc[Main] = "closed" /\ UNCHANGED vars

Next ==
    \/ \E d \in Device : CreateDevice(d) \/ UpdateConfig(d) \/ Snapshot(d)
    \/ \E p \in Client, o \in Operations, d \in Device : Request(p, o, d)
    \/ \E p \in Caller : CallerStep(p)
    \/ MainStep \/ Shutdown
    \/ \E r \in Runner : RunnerStep(r) \/ MonitorStep(r)
    \/ Closed

Spec == Init /\ [][Next]_vars

\* Goroutines are scheduled; a collector's Run answers its cancelled context,
\* a select takes its ready ctx.Done() some time, and sync.Mutex serves a
\* goroutine blocked in Lock although TryLock may pass it by for a while.
Fairness ==
    /\ \A p \in Caller : WF_vars(CallerStep(p))
    /\ WF_vars(MainStep)
    /\ \A d \in Device : SF_vars(MainNext(d))
    /\ \A r \in Runner : WF_vars(RunnerStep(r)) /\ WF_vars(MonitorEnd(r))

FairSpec == Spec /\ Fairness

----------------------------------------------------------------------------
(* Properties.                                                              *)

\* The collectors whose goroutine is at work on device d.
Live(d) == {r \in Runner : rpc[r] # "none" /\ rdev[r] = d}

\* A device is polled by at most one collector, and it is the one the entry
\* records: whatever starts, stops, restarts, timeouts and sweeps overlap.
OneCollectorPerDevice ==
    \A d \in Device : Live(d) = IF runner[d] = None THEN {} ELSE {runner[d]}

\* Snapshot.ConfigPending is never a false "no": when the loaded version is the
\* device's version, the points being polled were read at that version too,
\* though version and points are read by two queries.
ConfigPending(d) == loaded[d] # 0 /\ loaded[d] # version[d]

NotPendingIsCurrent ==
    \A d \in Device :
        runner[d] # None /\ ~ConfigPending(d) => points[runner[d]] = version[d]

\* A Stop (or the Stop of a Delete) that returns nil leaves nothing polling.
StopMeansStopped ==
    [][\A p \in Client, d \in Device :
         /\ op[p] \in {"stop", "delete"} /\ dev[p] = d
         /\ pc[p] \in {"stop", "wait", "waitErr"} /\ pc'[p] \in {"ok", "remove"}
         => Live(d)' = {}]_vars

\* The manager implements the lease of a device to its collector.
Lease == INSTANCE CollectorLease WITH
    holders <- [d \in Device |-> Live(d)],
    revoked <- {r \in Runner : rpc[r] # "none" /\ cancelled[r]}

LeaseSpec == Lease!Spec

\* A Start or Restart that returns nil leaves a collector that stays.
StartMeansCollecting ==
    [][\A p \in Client :
         /\ op[p] \in {"start", "restart"} /\ pc[p] \in Steps /\ pc'[p] = "ok"
         => /\ runner'[dev[p]] # None
            /\ ~cancelled'[runner'[dev[p]]]]_vars

\* A device that was deleted is no longer polled.
DeletedIsNotPolled ==
    \A d \in Device : version[d] # 0 /\ ~exists[d] => Live(d) = {}

\* No call hangs, whatever the state of the device it finds.
EveryCallReturns ==
    \A p \in Client : pc[p] \in Steps ~> pc[p] \in Returned

\* A collector told to end does end, in any phase of its connection.
CancelledCollectorEnds ==
    \A r \in Runner : (rpc[r] # "none" /\ cancelled[r]) ~> rpc[r] = "none"

\* StartEnabled and StopAll get every lock in turn although clients keep
\* taking it, so the service comes up and, asked to, goes down.
SweepsComplete ==
    /\ pc[Main] = "list" ~> pc[Main] = "serve"
    /\ (pc[Main] = "next" /\ op[Main] = "stopAll") ~> pc[Main] = "closed"

============================================================================
