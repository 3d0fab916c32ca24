---------------------------- MODULE SyncDispatch ----------------------------
(***************************************************************************)
(* The dispatch lock of ONE schedule: how services/scheduler.py takes it,  *)
(* hands it to the Celery tasks of worker/tasks.py, and how the tasks give *)
(* it back.                                                                *)
(*                                                                         *)
(* A dispatch stores a lock (value: its token) and a counter               *)
(* (token:pending children) in Valkey with two separate SETs, then         *)
(* enqueues the parent task.  The parent fetches the source and spawns one *)
(* child per target; the postrun hook releases the lock when the parent    *)
(* spawned nothing, or else when the child that brings the counter to zero *)
(* finishes.  Everything is best effort: a Valkey error is swallowed, a    *)
(* message is acknowledged only after its task returned (task_acks_late),  *)
(* and both keys carry a TTL.                                              *)
(*                                                                         *)
(* A run is named by its token: every dispatch draws a fresh uuid, so each *)
(* member of Runs is dispatched at most once.                              *)
(***************************************************************************)
EXTENDS Naturals, FiniteSets

CONSTANTS
    Runs,        \* the dispatches of the schedule, i.e. their tokens
    Targets,     \* target_ids of the schedule
    TTL,         \* _DISPATCH_LOCK_TTL_SECONDS, in ticks
    MaxRetries,  \* max_retries of both task types
    MaxFaults,   \* bound: crashes and broker/Valkey errors in a behaviour
    MaxBodies,   \* bound: executions of one parent's body
    NoRun        \* an absent key

ASSUME RunsAssumption == NoRun \notin Runs
ASSUME TargetsAssumption == IsFiniteSet(Targets) /\ Targets # {}
ASSUME BoundsAssumption ==
    /\ TTL \in Nat \ {0}
    /\ MaxRetries \in Nat /\ MaxFaults \in Nat /\ MaxBodies \in Nat \ {0}

VARIABLES
    lock,     \* value of ampy3:dispatch_lock:<id>
    lockLeft, \* ticks until the lock key expires
    counter,  \* value of ampy3:dispatch_counter:<id>
    ctrLeft,  \* ticks until the counter key expires
    phase,    \* where each dispatch / parent task stands
    result,   \* what the parent's last execution returned
    retries,  \* self.request.retries of the parent
    body,     \* how often the parent's body was started
    todo,     \* children the spawn loop has still to enqueue
    child,    \* every child task ever enqueued: state and retries
    faults,   \* environment errors so far
    lapsed    \* history: runs whose lock key expired by TTL

keyVars  == <<lock, lockLeft, counter, ctrLeft>>
taskVars == <<phase, result, retries, body, todo, child>>
vars     == <<keyVars, taskVars, faults, lapsed>>

Bodies == 1..MaxBodies

\* A child task is named by the execution of the parent that enqueued it and
\* its target: a parent that runs twice enqueues two tasks per target.
ChildIds == Bodies \X Targets

NoCounter == [token |-> NoRun, n |-> 0]
NoChild   == [st |-> "absent", tries |-> 0]

Phases == {"idle", "locked", "armed", "refused", "aborted", "queued",
           "fetching", "spawning", "returning", "done"}
ChildStates == {"absent", "queued", "running", "returning", "done"}
Results == {"none", "DISPATCHED", "NOTHING", "FAILURE"}

TypeOK ==
    /\ lock \in Runs \cup {NoRun}
    /\ lockLeft \in 0..TTL
    /\ counter \in [token : Runs \cup {NoRun}, n : Nat]
    /\ ctrLeft \in 0..TTL
    /\ phase \in [Runs -> Phases]
    /\ result \in [Runs -> Results]
    /\ retries \in [Runs -> 0..MaxRetries]
    /\ body \in [Runs -> 0..MaxBodies]
    /\ todo \in [Runs -> SUBSET ChildIds]
    /\ child \in [Runs -> [ChildIds -> [st : ChildStates, tries : 0..MaxRetries]]]
    /\ faults \in 0..MaxFaults
    /\ lapsed \subseteq Runs

Init ==
    /\ lock = NoRun /\ lockLeft = 0
    /\ counter = NoCounter /\ ctrLeft = 0
    /\ phase = [r \in Runs |-> "idle"]
    /\ result = [r \in Runs |-> "none"]
    /\ retries = [r \in Runs |-> 0]
    /\ body = [r \in Runs |-> 0]
    /\ todo = [r \in Runs |-> {}]
    /\ child = [r \in Runs |-> [c \in ChildIds |-> NoChild]]
    /\ faults = 0
    /\ lapsed = {}

-----------------------------------------------------------------------------
(* The environment *)

Fault == faults < MaxFaults /\ faults' = faults + 1
NoFault == UNCHANGED faults

(***************************************************************************)
(* The Valkey scripts.  Each is one atomic step on the two keys.           *)
(***************************************************************************)
DelLock    == lock' = NoRun /\ lockLeft' = 0
DelCounter == counter' = NoCounter /\ ctrLeft' = 0

\* _RELEASE_LOCK_SCRIPT: compare the lock with the token, delete both keys.
ReleaseScript(r) ==
    IF lock = r THEN DelLock /\ DelCounter ELSE UNCHANGED keyVars

\* _CHILD_FINISHED_SCRIPT: compare the counter with the token, decrement it
\* with a fresh TTL, and at zero delete the counter and the lock.
ChildFinishedScript(r) ==
    IF counter.token # r THEN UNCHANGED keyVars
    ELSE IF counter.n <= 1
    THEN DelCounter /\ DelLock
    ELSE /\ counter' = [token |-> r, n |-> counter.n - 1]
         /\ ctrLeft' = TTL
         /\ UNCHANGED <<lock, lockLeft>>

\* _release_dispatch_lock and _child_finished_dispatch_lock swallow an error.
BestEffort(Script) ==
    \/ Script /\ NoFault
    \/ UNCHANGED keyVars /\ Fault

-----------------------------------------------------------------------------
(* Dispatch: _dispatch_targets, trigger_sync_now *)

\* Mutant of AcquireLock: a SET without NX.
AcquireLockWithoutNX(r) ==
    /\ phase[r] = "idle"
    /\ lock' = r /\ lockLeft' = TTL
    /\ phase' = [phase EXCEPT ![r] = "locked"]
    /\ UNCHANGED <<counter, ctrLeft, result, retries, body, todo, child, faults, lapsed>>

\* The SET NX EX of the lock wins.
AcquireLock(r) ==
    /\ phase[r] = "idle"
    /\ lock = NoRun
    /\ lock' = r /\ lockLeft' = TTL
    /\ phase' = [phase EXCEPT ![r] = "locked"]
    /\ UNCHANGED <<counter, ctrLeft, result, retries, body, todo, child, faults, lapsed>>

\* The SET NX loses: the dispatch gives up for good (failed SyncRun rows, or
\* None to the caller).
Refuse(r) ==
    /\ phase[r] = "idle"
    /\ lock # NoRun
    /\ phase' = [phase EXCEPT ![r] = "refused"]
    /\ UNCHANGED <<keyVars, result, retries, body, todo, child, faults, lapsed>>

\* The SET NX raises: fail open with a token that is stored nowhere.
FailOpen(r) ==
    /\ phase[r] = "idle"
    /\ Fault
    /\ phase' = [phase EXCEPT ![r] = "armed"]
    /\ UNCHANGED <<keyVars, result, retries, body, todo, child, lapsed>>

\* The SET of the counter; when it raises, the token is returned all the same.
StoreCounter(r) ==
    /\ phase[r] = "locked"
    /\ phase' = [phase EXCEPT ![r] = "armed"]
    /\ \/ /\ counter' = [token |-> r, n |-> Cardinality(Targets)]
          /\ ctrLeft' = TTL
          /\ NoFault
       \/ UNCHANGED <<counter, ctrLeft>> /\ Fault
    /\ UNCHANGED <<lock, lockLeft, result, retries, body, todo, child, lapsed>>

\* sync_playlists_task.delay
Enqueue(r) ==
    /\ phase[r] = "armed"
    /\ phase' = [phase EXCEPT ![r] = "queued"]
    /\ UNCHANGED <<keyVars, result, retries, body, todo, child, faults, lapsed>>

\* The .delay raises, or the dispatching process dies: nobody gives the lock back.
AbortDispatch(r) ==
    /\ phase[r] \in {"locked", "armed"}
    /\ Fault
    /\ phase' = [phase EXCEPT ![r] = "aborted"]
    /\ UNCHANGED <<keyVars, result, retries, body, todo, child, lapsed>>

-----------------------------------------------------------------------------
(* The parent: sync_playlists_task and its postrun hook *)

\* A worker receives the message; the body resets spawned_targets.
ParentStart(r) ==
    /\ phase[r] = "queued"
    /\ body[r] < MaxBodies
    /\ phase' = [phase EXCEPT ![r] = "fetching"]
    /\ body' = [body EXCEPT ![r] = @ + 1]
    /\ UNCHANGED <<keyVars, result, retries, todo, child, faults, lapsed>>

\* Empty track list, schedule gone, validation error: nothing was spawned, so
\* the postrun hook releases the lock.
ParentEndsEarly(r) ==
    /\ phase[r] = "fetching"
    /\ phase' = [phase EXCEPT ![r] = "returning"]
    /\ result' = [result EXCEPT ![r] = "NOTHING"]
    /\ BestEffort(ReleaseScript(r))
    /\ UNCHANGED <<retries, body, todo, child, lapsed>>

\* fetch_source returned tracks: spawned_targets = True, then the loop.
FetchSucceeds(r) ==
    /\ phase[r] = "fetching"
    /\ phase' = [phase EXCEPT ![r] = "spawning"]
    /\ todo' = [todo EXCEPT ![r] = {body[r]} \X Targets]
    /\ UNCHANGED <<keyVars, result, retries, body, child, faults, lapsed>>

\* One sync_target_task.delay of the loop.
SpawnChild(r, c) ==
    /\ phase[r] = "spawning"
    /\ c \in todo[r]
    /\ todo' = [todo EXCEPT ![r] = @ \ {c}]
    /\ child' = [child EXCEPT ![r][c] = [st |-> "queued", tries |-> 0]]
    /\ UNCHANGED <<keyVars, phase, result, retries, body, faults, lapsed>>

ParentDispatched(r) ==
    /\ phase[r] = "spawning"
    /\ todo[r] = {}
    /\ phase' = [phase EXCEPT ![r] = "returning"]
    /\ result' = [result EXCEPT ![r] = "DISPATCHED"]
    /\ UNCHANGED <<keyVars, retries, body, todo, child, faults, lapsed>>

\* The body can raise while it fetches (no fault of the broker needed) or
\* while it spawns (a .delay raises).
ParentRaises(r) ==
    \/ phase[r] = "fetching" /\ NoFault
    \/ phase[r] = "spawning" /\ todo[r] # {} /\ Fault

\* Mutant of ParentRetries: the postrun hook does not look at the task state.
ParentRetriesReleasing(r) ==
    /\ ParentRaises(r)
    /\ retries[r] < MaxRetries
    /\ retries' = [retries EXCEPT ![r] = @ + 1]
    /\ phase' = [phase EXCEPT ![r] = "queued"]
    /\ todo' = [todo EXCEPT ![r] = {}]
    /\ ReleaseScript(r)
    /\ UNCHANGED <<result, body, child, lapsed>>

\* self.retry: the postrun hook sees RETRY and keeps the lock.
ParentRetries(r) ==
    /\ ParentRaises(r)
    /\ retries[r] < MaxRetries
    /\ retries' = [retries EXCEPT ![r] = @ + 1]
    /\ phase' = [phase EXCEPT ![r] = "queued"]
    /\ todo' = [todo EXCEPT ![r] = {}]
    /\ UNCHANGED <<keyVars, result, body, child, lapsed>>

\* Out of retries before any spawn: the hook releases the lock.
FetchFails(r) ==
    /\ phase[r] = "fetching"
    /\ retries[r] = MaxRetries
    /\ phase' = [phase EXCEPT ![r] = "returning"]
    /\ result' = [result EXCEPT ![r] = "FAILURE"]
    /\ BestEffort(ReleaseScript(r))
    /\ UNCHANGED <<retries, body, todo, child, lapsed>>

\* Mutant of SpawnFails: an error of .delay is swallowed by the loop.
SpawnFailureSwallowed(r) ==
    /\ phase[r] = "spawning" /\ todo[r] # {}
    /\ Fault
    /\ phase' = [phase EXCEPT ![r] = "returning"]
    /\ result' = [result EXCEPT ![r] = "DISPATCHED"]
    /\ todo' = [todo EXCEPT ![r] = {}]
    /\ UNCHANGED <<keyVars, retries, body, child, lapsed>>

\* Out of retries inside the spawn loop: the hook releases nothing.
SpawnFails(r) ==
    /\ phase[r] = "spawning" /\ todo[r] # {}
    /\ Fault
    /\ retries[r] = MaxRetries
    /\ phase' = [phase EXCEPT ![r] = "returning"]
    /\ result' = [result EXCEPT ![r] = "FAILURE"]
    /\ todo' = [todo EXCEPT ![r] = {}]
    /\ UNCHANGED <<keyVars, retries, body, child, lapsed>>

ParentAck(r) ==
    /\ phase[r] = "returning"
    /\ phase' = [phase EXCEPT ![r] = "done"]
    /\ UNCHANGED <<keyVars, result, retries, body, todo, child, faults, lapsed>>

\* Mutant of ParentCrash: the message was acknowledged when it was received.
ParentCrashAckedEarly(r) ==
    /\ phase[r] \in {"fetching", "spawning", "returning"}
    /\ Fault
    /\ phase' = [phase EXCEPT ![r] = "aborted"]
    /\ todo' = [todo EXCEPT ![r] = {}]
    /\ UNCHANGED <<keyVars, result, retries, body, child, lapsed>>

\* task_acks_late + task_reject_on_worker_lost: a worker that dies before the
\* acknowledgement puts the message back, even after the postrun hook ran.
ParentCrash(r) ==
    /\ phase[r] \in {"fetching", "spawning", "returning"}
    /\ Fault
    /\ phase' = [phase EXCEPT ![r] = "queued"]
    /\ todo' = [todo EXCEPT ![r] = {}]
    /\ UNCHANGED <<keyVars, result, retries, body, child, lapsed>>

\* task_time_limit: the pool kills the process, no postrun hook runs, and the
\* message is acknowledged (task_acks_on_failure_or_timeout).
ParentKilled(r) ==
    /\ phase[r] \in {"fetching", "spawning"}
    /\ Fault
    /\ phase' = [phase EXCEPT ![r] = "done"]
    /\ result' = [result EXCEPT ![r] = "FAILURE"]
    /\ todo' = [todo EXCEPT ![r] = {}]
    /\ UNCHANGED <<keyVars, retries, body, child, lapsed>>

-----------------------------------------------------------------------------
(* The children: sync_target_task and its postrun hook *)

ChildStart(r, c) ==
    /\ child[r][c].st = "queued"
    /\ child' = [child EXCEPT ![r][c] = [st |-> "running", tries |-> @.tries]]
    /\ UNCHANGED <<keyVars, phase, result, retries, body, todo, faults, lapsed>>

\* Mutant of ChildRetries: the postrun hook counts a retried child as finished.
ChildRetriesCounted(r, c) ==
    /\ child[r][c].st = "running"
    /\ child[r][c].tries < MaxRetries
    /\ child' = [child EXCEPT ![r][c] = [st |-> "queued", tries |-> @.tries + 1]]
    /\ ChildFinishedScript(r)
    /\ UNCHANGED <<phase, result, retries, body, todo, faults, lapsed>>

\* An exception with retries left: RETRY, the counter is not touched.
ChildRetries(r, c) ==
    /\ child[r][c].st = "running"
    /\ child[r][c].tries < MaxRetries
    /\ child' = [child EXCEPT ![r][c] = [st |-> "queued", tries |-> @.tries + 1]]
    /\ UNCHANGED <<keyVars, phase, result, retries, body, todo, faults, lapsed>>

\* Success, dropped, target unreachable, or out of retries: the hook counts it.
ChildFinishes(r, c) ==
    /\ child[r][c].st = "running"
    /\ child' = [child EXCEPT ![r][c] = [st |-> "returning", tries |-> @.tries]]
    /\ BestEffort(ChildFinishedScript(r))
    /\ UNCHANGED <<phase, result, retries, body, todo, lapsed>>

ChildAck(r, c) ==
    /\ child[r][c].st = "returning"
    /\ child' = [child EXCEPT ![r][c] = [st |-> "done", tries |-> @.tries]]
    /\ UNCHANGED <<keyVars, phase, result, retries, body, todo, faults, lapsed>>

ChildCrash(r, c) ==
    /\ child[r][c].st \in {"running", "returning"}
    /\ Fault
    /\ child' = [child EXCEPT ![r][c] = [st |-> "queued", tries |-> @.tries]]
    /\ UNCHANGED <<keyVars, phase, result, retries, body, todo, lapsed>>

ChildKilled(r, c) ==
    /\ child[r][c].st = "running"
    /\ Fault
    /\ child' = [child EXCEPT ![r][c] = [st |-> "done", tries |-> @.tries]]
    /\ UNCHANGED <<keyVars, phase, result, retries, body, todo, lapsed>>

-----------------------------------------------------------------------------
\* Mutant of Tick: the lock was stored without EX.
TickWithoutLockTTL ==
    /\ counter # NoCounter
    /\ IF ctrLeft <= 1 THEN DelCounter ELSE ctrLeft' = ctrLeft - 1 /\ UNCHANGED counter
    /\ UNCHANGED <<lock, lockLeft, taskVars, faults, lapsed>>

\* Time passes; a key whose TTL runs out disappears.
Tick ==
    /\ lock # NoRun \/ counter # NoCounter
    /\ IF lockLeft <= 1 THEN DelLock ELSE lockLeft' = lockLeft - 1 /\ UNCHANGED lock
    /\ IF ctrLeft <= 1 THEN DelCounter ELSE ctrLeft' = ctrLeft - 1 /\ UNCHANGED counter
    /\ lapsed' = IF lock # NoRun /\ lockLeft <= 1 THEN lapsed \cup {lock} ELSE lapsed
    /\ UNCHANGED <<taskVars, faults>>

DispatchStep(r) ==
    \/ AcquireLock(r)
    \/ Refuse(r)
    \/ FailOpen(r)
    \/ StoreCounter(r)
    \/ Enqueue(r)
    \/ AbortDispatch(r)

ParentStep(r) ==
    \/ ParentStart(r)
    \/ ParentEndsEarly(r)
    \/ FetchSucceeds(r)
    \/ \E c \in ChildIds : SpawnChild(r, c)
    \/ ParentDispatched(r)
    \/ ParentRetries(r)
    \/ FetchFails(r)
    \/ SpawnFails(r)
    \/ ParentAck(r)

ChildStep(r, c) ==
    \/ ChildStart(r, c)
    \/ ChildRetries(r, c)
    \/ ChildFinishes(r, c)
    \/ ChildAck(r, c)

WorkerCrash(r) ==
    \/ ParentCrash(r)
    \/ ParentKilled(r)
    \/ \E c \in ChildIds : ChildCrash(r, c) \/ ChildKilled(r, c)

Next ==
    \/ \E r \in Runs :
        \/ DispatchStep(r)
        \/ ParentStep(r)
        \/ \E c \in ChildIds : ChildStep(r, c)
        \/ WorkerCrash(r)
    \/ Tick

Spec == Init /\ [][Next]_vars

\* Workers keep consuming (Celery), the dispatching process keeps running, and
\* Valkey's clock advances.  Nothing makes a fault or a crash happen.
Fairness ==
    /\ \A r \in Runs :
        /\ WF_vars(StoreCounter(r) \/ Enqueue(r))
        /\ WF_vars(ParentStep(r))
        /\ \A c \in ChildIds : WF_vars(ChildStep(r, c))
    /\ WF_vars(Tick)

FairSpec == Spec /\ Fairness

-----------------------------------------------------------------------------
(* Properties *)

Pending(r) == {c \in ChildIds : child[r][c].st \in {"queued", "running"}}

\* What the counter has to count: children enqueued and not finished, and
\* children the loop has still to enqueue.
Owed(r) == todo[r] \cup Pending(r)

Live(r) == phase[r] \in {"locked", "armed", "queued", "fetching"} \/ Owed(r) # {}

\* No crash, no broker or Valkey error, and every run inside its TTL.
Undisturbed == faults = 0 /\ lapsed = {}

\* Two runs of a schedule never overlap (the purpose of the lock, docstring of
\* _try_acquire_dispatch_lock), as long as nothing failed and no TTL ran out:
\* across two SETs, retries of parents and children, and n children that finish
\* in any order while the loop is still spawning.
OneRunAtATime == Undisturbed => \A r, s \in Runs : Live(r) /\ Live(s) => r = s

\* The lock is exactly as long-lived as the run: held while any part of it is
\* live, and given back (not left to its TTL) once the last part ended.
LockIsTheRun == Undisturbed => \A r \in Runs : lock = r <=> Live(r)

\* The counter of a live run is the number of children still owed.
CounterIsOwed ==
    Undisturbed =>
        \A r \in Runs :
            Live(r) /\ phase[r] \in {"spawning", "returning", "done"}
                => counter = [token |-> r, n |-> Cardinality(Owed(r))]

\* No failure loses a target: a parent that reported DISPATCHED has enqueued
\* a child for every target, whatever crashed or was retried before.
EveryTargetSpawned ==
    \A r \in Runs :
        result[r] = "DISPATCHED" =>
            \A t \in Targets : \E b \in Bodies : child[r][<<b, t>>].st # "absent"

\* Every enqueued run ends, through crashes, redeliveries and retries.
EnqueuedRunsEnd == \A r \in Runs : phase[r] = "queued" ~> (phase[r] = "done" /\ ~Live(r))

\* Whatever fails, a lock is given back in the end (the TTL safety net).
LockEventuallyFree == \A r \in Runs : lock = r ~> lock # r

\* The abstract specification, with the state of a run read off its tasks (not
\* off the lock).
Serial == INSTANCE SerialRuns WITH
    active   <- {r \in Runs : Live(r)},
    finished <- {r \in Runs : body[r] > 0 /\ ~Live(r)},
    calm     <- Undisturbed

\* The lock protocol implements serial runs.
ImplementsSerialRuns == Serial!Spec
=============================================================================
