---------------------------- MODULE ConnManager ----------------------------
(***************************************************************************)
(* The connection of one collector: ConnManager of                          *)
(* internal/collector/collector.go, with the goroutines that share it.  The *)
(* runner dials, then scans; a scan that fails spawns a reconnect; a        *)
(* reconnect that gives up spawns a heartbeat probe; a stopper cancels the  *)
(* context and closes the connection, and waits for the runner only.        *)
(*                                                                          *)
(* cm.state and cm.reconnecting are atomics outside cm.mu, so every access  *)
(* is a step of its own.  A dial holds cm.mu throughout and touches neither,*)
(* so it is one step, taken when its outcome is known.                      *)
(***************************************************************************)
EXTENDS Naturals

CONSTANTS
    Run,         \* the reconnect that Run itself calls
    Spawned,     \* slots for the goroutines of go ReconnectWithBackoff()
    Probe,       \* slots for the goroutines of go startHeartbeatProbe()
    MaxRetries,  \* cm.maxRetries
    MaxLate      \* bound: how often a timer fires before a goroutine that could run

Reconnect == Spawned \cup {Run}

ASSUME ConnAssumption ==
    /\ Run \notin Spawned
    /\ MaxRetries \in Nat \ {0}
    /\ MaxLate \in Nat

VARIABLES
    up,            \* whether the device accepts connections and answers
    late,          \* how often a timer has fired before a goroutine that could run
    broken,        \* whether an outage has cut the connections made before it
    cancelled,     \* the collector's context
    stop,          \* where the stopper is
    attached,      \* whether r.conn is set
    run,           \* where the runner is
    handler,       \* cm.handler: absent, closed (or never connected), or open
    client,        \* cm.client: absent, of cm.handler, or of a handler before it
    leaked,        \* whether an open connection was dropped with nothing left to close it
    state,         \* cm.state
    reconnecting,  \* cm.reconnecting
    rec,           \* reconnect -> where it is, "none" when not running
    attempt,       \* reconnect -> its attempt
    probe          \* probe -> where it is, "none" when not running

env == <<up, late>>
conn == <<handler, client, leaked, broken>>
vars == <<env, cancelled, stop, attached, run, conn, state, reconnecting, rec, attempt, probe>>

TypeOK ==
    /\ up \in BOOLEAN /\ late \in 0..MaxLate /\ broken \in BOOLEAN
    /\ cancelled \in BOOLEAN /\ attached \in BOOLEAN
    /\ stop \in {"idle", "close", "wait", "stopped"}
    /\ run \in {"boot", "dial", "backoff", "tick", "client", "read", "done"}
    /\ handler \in {"none", "closed", "open"}
    /\ client \in {"none", "current", "older"}
    /\ leaked \in BOOLEAN
    /\ state \in {"online", "reconnecting", "offline"}
    /\ reconnecting \in BOOLEAN
    /\ rec \in [Reconnect -> {"none", "cas", "tear", "wait", "dial", "online",
                              "give", "probe", "release"}]
    /\ attempt \in [Reconnect -> 0..MaxRetries]
    /\ probe \in [Probe -> {"none", "wait", "dial", "online"}]

\* NewConnManager; the zero state is online.
Init ==
    /\ up \in BOOLEAN /\ late = 0 /\ broken = FALSE
    /\ cancelled = FALSE /\ stop = "idle"
    /\ attached = FALSE /\ run = "boot"
    /\ handler = "none" /\ client = "none" /\ leaked = FALSE
    /\ state = "online" /\ reconnecting = FALSE
    /\ rec = [g \in Reconnect |-> "none"]
    /\ attempt = [g \in Reconnect |-> 0]
    /\ probe = [h \in Probe |-> "none"]

\* Every timer and ticker here runs for 100 ms or more, the runnable code
\* between two waits for microseconds: a timer seldom fires in between.
Computing ==
    \/ run \in {"boot", "client"}
    \/ \E g \in Reconnect : rec[g] \in {"cas", "tear", "online", "give", "probe", "release"}
    \/ \E h \in Probe : probe[h] = "online"

TimerFires ==
    \/ ~Computing /\ UNCHANGED late
    \/ Computing /\ late < MaxLate /\ late' = late + 1

\* An outage may be short enough for a connection to survive it.
DeviceToggles ==
    /\ up' = ~up
    /\ broken' \in IF up THEN {broken, TRUE} ELSE {broken}
    /\ UNCHANGED <<late, cancelled, stop, attached, run, handler, client, leaked, state,
                   reconnecting, rec, attempt, probe>>

----------------------------------------------------------------------------
(* The connection, under cm.mu.                                             *)

\* Connect: a new handler replaces the old one, dialled or not; a new client
\* only if dialled.
Dial(ok) ==
    /\ ok = up
    /\ \/ /\ ok
          /\ handler' = "open"
          /\ client' = "current"
          /\ broken' = FALSE
          /\ leaked' = (leaked \/ handler = "open" \/ client = "older")
       \/ /\ ~ok
          /\ handler' = "closed"
          /\ client' = IF client = "current" THEN "older" ELSE client
          /\ UNCHANGED <<leaked, broken>>

\* Closing cm.handler and forgetting cm.client; then is what cm.handler becomes.
\* Mutant: the old handler is not closed.
DropOnly(then) ==
    /\ handler' = then
    /\ client' = "none"
    /\ leaked' = (leaked \/ handler = "open" \/ client = "older")
    /\ UNCHANGED broken
Disconnect(then) ==
    /\ handler' = IF handler = "none" THEN "none" ELSE then
    /\ client' = "none"
    /\ leaked' = (leaked \/ client = "older")
    /\ UNCHANGED broken

----------------------------------------------------------------------------
(* The runner: Run, ScanLoop, scanOnce.                                     *)

RunGoes(from, to) == run = from /\ run' = to

Attach ==
    /\ RunGoes("boot", "dial")
    /\ attached' = TRUE
    /\ UNCHANGED <<env, cancelled, stop, conn, state, reconnecting, rec, attempt, probe>>

\* A first dial that fails is retried by the runner itself.
FirstDial ==
    /\ \/ /\ RunGoes("dial", "tick")
          /\ Dial(TRUE)
          /\ UNCHANGED rec
       \/ /\ RunGoes("dial", "backoff")
          /\ Dial(FALSE)
          /\ rec' = [rec EXCEPT ![Run] = "cas"]
    /\ UNCHANGED <<env, cancelled, stop, attached, state, reconnecting, attempt, probe>>

FirstReturns ==
    /\ rec[Run] = "none"
    /\ RunGoes("backoff", IF cancelled THEN "done" ELSE "tick")
    /\ UNCHANGED <<env, cancelled, stop, attached, conn, state, reconnecting, rec, attempt, probe>>

\* A scan: GetClient loads the state, then takes the client under cm.mu.
ScanTick ==
    /\ TimerFires
    /\ state = "online"
    /\ RunGoes("tick", "client")
    /\ UNCHANGED <<up, cancelled, stop, attached, conn, state, reconnecting, rec, attempt, probe>>

GetClient ==
    /\ RunGoes("client", IF client = "none" THEN "tick" ELSE "read")
    /\ UNCHANGED <<env, cancelled, stop, attached, conn, state, reconnecting, rec, attempt, probe>>

ScanDone ==
    /\ up /\ ~broken
    /\ RunGoes("read", "tick")
    /\ UNCHANGED <<env, cancelled, stop, attached, conn, state, reconnecting, rec, attempt, probe>>

\* A read fails, even one through a client replaced since: go ReconnectWithBackoff().
ScanFails(g) ==
    /\ ~up \/ broken
    /\ rec[g] = "none"
    /\ RunGoes("read", "tick")
    /\ rec' = [rec EXCEPT ![g] = "cas"]
    /\ UNCHANGED <<env, cancelled, stop, attached, conn, state, reconnecting, attempt, probe>>

ScanExit ==
    /\ cancelled
    /\ RunGoes("tick", "done")
    /\ UNCHANGED <<env, cancelled, stop, attached, conn, state, reconnecting, rec, attempt, probe>>

----------------------------------------------------------------------------
(* ReconnectWithBackoff.                                                    *)

RecGoes(g, from, to) == rec[g] = from /\ rec' = [rec EXCEPT ![g] = to]

\* Mutant: whether another reconnect runs is not asked.
TakenNever == FALSE
Taken == reconnecting

CompareAndSwap(g) ==
    /\ \/ /\ Taken
          /\ RecGoes(g, "cas", "none")
          /\ UNCHANGED reconnecting
       \/ /\ ~Taken
          /\ RecGoes(g, "cas", "tear")
          /\ reconnecting' = TRUE
    /\ UNCHANGED <<env, cancelled, stop, attached, run, conn, state, attempt, probe>>

Tear(g) ==
    /\ RecGoes(g, "tear", "wait")
    /\ Disconnect("closed")
    /\ state' = "reconnecting"
    /\ attempt' = [attempt EXCEPT ![g] = 1]
    /\ UNCHANGED <<env, cancelled, stop, attached, run, reconnecting, probe>>

\* The two cases of a select on a timer, of a reconnect or of a probe; either
\* may be taken when both are ready.
\* Mutant: only the timer is listened to.
TimerOnly == FALSE
Interrupted == cancelled

BackoffCancelled(g) ==
    /\ Interrupted
    /\ RecGoes(g, "wait", "release")
    /\ UNCHANGED <<env, cancelled, stop, attached, run, conn, state, reconnecting, attempt, probe>>

BackoffElapsed(g) ==
    /\ TimerFires
    /\ RecGoes(g, "wait", "dial")
    /\ UNCHANGED <<up, cancelled, stop, attached, run, conn, state, reconnecting, attempt, probe>>

\* Mutant: one attempt too many.
OneMore(g) == attempt[g] > MaxRetries
Last(g) == attempt[g] = MaxRetries

Redial(g) ==
    /\ \/ /\ Dial(TRUE)
          /\ RecGoes(g, "dial", "online")
          /\ UNCHANGED attempt
       \/ /\ Dial(FALSE)
          /\ ~Last(g)
          /\ RecGoes(g, "dial", "wait")
          /\ attempt' = [attempt EXCEPT ![g] = @ + 1]
       \/ /\ Dial(FALSE)
          /\ Last(g)
          /\ RecGoes(g, "dial", "give")
          /\ UNCHANGED attempt
    /\ UNCHANGED <<env, cancelled, stop, attached, run, state, reconnecting, probe>>

BackOnline(g) ==
    /\ RecGoes(g, "online", "release")
    /\ state' = "online"
    /\ UNCHANGED <<env, cancelled, stop, attached, run, conn, reconnecting, attempt, probe>>

GiveUp(g) ==
    /\ RecGoes(g, "give", "probe")
    /\ state' = "offline"
    /\ UNCHANGED <<env, cancelled, stop, attached, run, conn, reconnecting, attempt, probe>>

\* Mutant: nobody probes a device that is offline.
NoProbe(h) == probe[h] = "none" /\ UNCHANGED probe
StartProbe(h) == probe[h] = "none" /\ probe' = [probe EXCEPT ![h] = "wait"]

SpawnProbe(g) ==
    /\ RecGoes(g, "probe", "release")
    /\ \E h \in Probe : StartProbe(h)
    /\ UNCHANGED <<env, cancelled, stop, attached, run, conn, state, reconnecting, attempt>>

\* The deferred store.
\* Mutant: it is missing.
KeepTaken == UNCHANGED reconnecting
LetGo == reconnecting' = FALSE

Release(g) ==
    /\ RecGoes(g, "release", "none")
    /\ LetGo
    /\ attempt' = [attempt EXCEPT ![g] = 0]
    /\ UNCHANGED <<env, cancelled, stop, attached, run, conn, state, probe>>

----------------------------------------------------------------------------
(* startHeartbeatProbe.                                                     *)

ProbeGoes(h, from, to) == probe[h] = from /\ probe' = [probe EXCEPT ![h] = to]

ProbeCancelled(h) ==
    /\ Interrupted
    /\ ProbeGoes(h, "wait", "none")
    /\ UNCHANGED <<env, cancelled, stop, attached, run, conn, state, reconnecting, rec, attempt>>

ProbeTick(h) ==
    /\ TimerFires
    /\ ProbeGoes(h, "wait", IF state = "offline" THEN "dial" ELSE "none")
    /\ UNCHANGED <<up, cancelled, stop, attached, run, conn, state, reconnecting, rec, attempt>>

ProbeDial(h) ==
    /\ \/ Dial(TRUE) /\ ProbeGoes(h, "dial", "online")
       \/ Dial(FALSE) /\ ProbeGoes(h, "dial", "wait")
    /\ UNCHANGED <<env, cancelled, stop, attached, run, state, reconnecting, rec, attempt>>

ProbeOnline(h) ==
    /\ ProbeGoes(h, "online", "none")
    /\ state' = "online"
    /\ UNCHANGED <<env, cancelled, stop, attached, run, conn, reconnecting, rec, attempt>>

----------------------------------------------------------------------------
(* stopLocked: cancel, close what connection there is, wait for the runner. *)

StopCancel ==
    /\ stop = "idle"
    /\ stop' = "close"
    /\ cancelled' = TRUE
    /\ UNCHANGED <<env, attached, run, conn, state, reconnecting, rec, attempt, probe>>

StopClose ==
    /\ stop = "close"
    /\ stop' = "wait"
    /\ IF attached THEN Disconnect("none") ELSE UNCHANGED conn
    /\ UNCHANGED <<env, cancelled, attached, run, state, reconnecting, rec, attempt, probe>>

StopWait ==
    /\ stop = "wait"
    /\ run = "done"
    /\ stop' = "stopped"
    /\ UNCHANGED <<env, cancelled, attached, run, conn, state, reconnecting, rec, attempt, probe>>

----------------------------------------------------------------------------
RunStep ==
    \/ Attach \/ FirstDial \/ FirstReturns
    \/ ScanTick \/ GetClient \/ ScanDone \/ ScanExit
    \/ \E g \in Spawned : ScanFails(g)

RecStep(g) ==
    \/ CompareAndSwap(g) \/ Tear(g) \/ BackoffCancelled(g) \/ BackoffElapsed(g) \/ Redial(g)
    \/ BackOnline(g) \/ GiveUp(g) \/ SpawnProbe(g) \/ Release(g)

ProbeStep(h) == ProbeCancelled(h) \/ ProbeTick(h) \/ ProbeDial(h) \/ ProbeOnline(h)

Next ==
    \/ DeviceToggles
    \/ RunStep
    \/ \E g \in Reconnect : RecStep(g)
    \/ \E h \in Probe : ProbeStep(h)
    \/ StopCancel \/ StopClose \/ StopWait

Spec == Init /\ [][Next]_vars

\* Goroutines are scheduled, dials and reads have a timeout, and a select whose
\* timer keeps firing takes its ready ctx.Done() some time.
Fairness ==
    /\ WF_vars(RunStep) /\ SF_vars(ScanExit)
    /\ \A g \in Reconnect : WF_vars(RecStep(g)) /\ SF_vars(BackoffCancelled(g))
    /\ \A h \in Probe : WF_vars(ProbeStep(h)) /\ SF_vars(ProbeCancelled(h))
    /\ WF_vars(StopClose \/ StopWait)

FairSpec == Spec /\ Fairness

----------------------------------------------------------------------------
(* Properties.                                                              *)

\* Between the compare-and-swap and the deferred store there is one reconnect,
\* however many failing scans spawn one.
InLoop(g) == rec[g] \notin {"none", "cas"}

SingleReconnect ==
    \A g, h \in Reconnect : InLoop(g) /\ InLoop(h) => g = h

\* While the collector is wanted, a connection shown as reconnecting or offline
\* has a goroutine working on it: no race of probes, late reconnects and their
\* stores leaves it to itself.
NeverAbandoned ==
    ~cancelled =>
        /\ state = "reconnecting" => \E g \in Reconnect : InLoop(g)
        /\ state = "offline" =>
              \/ \E h \in Probe : probe[h] # "none"
              \/ \E g \in Reconnect : InLoop(g)

\* No open connection is replaced or forgotten without being closed: the device
\* serves one connection of this collector at a time.
NoLeak == late = 0 => ~leaked /\ client # "older"

\* Once the device is back for good, the collector has a working connection
\* again, for good, after any number of outages, give-ups and probes.
Recovers ==
    <>[](up /\ ~cancelled /\ late = 0) => <>[](state = "online" /\ client = "current" /\ ~broken)

\* After the context is cancelled every goroutine of the connection ends, also
\* those the stopper does not wait for.
AllGoroutinesEnd ==
    cancelled ~> /\ run = "done"
                 /\ \A g \in Reconnect : rec[g] = "none"
                 /\ \A h \in Probe : probe[h] = "none"

\* Once stopped, the collector holds no connection.
StopClosesConnection ==
    stop = "stopped" => handler # "open" /\ client # "older"

============================================================================
