---------------------------- MODULE SyncTrigger -----------------------------
(***************************************************************************)
(* POST /api/v1/syncs: trigger_sync and the idempotency key execution_id.  *)
(*                                                                         *)
(* A request names a schedule, or none (an ad-hoc sync).  Its key is kept  *)
(* on the row it resolves against: a schedule holds the key of the last    *)
(* request only, an ad-hoc sync is a row of its own under a partial unique *)
(* index.  The handler looks the key up, stores it and commits, and only   *)
(* then enqueues the task; when the broker refuses, it undoes what it      *)
(* stored, as far as it can.  Every await lets other requests in.          *)
(*                                                                         *)
(* All requests are one user's: the lookups and the index carry the user.  *)
(* TaskRegistry composes the handler with the tasks it starts and with the *)
(* deletion of what it stored.                                             *)
(***************************************************************************)
EXTENDS Naturals, FiniteSets

CONSTANTS
    Requests,    \* calls of the endpoint
    Schedules,   \* ids of the user's schedules
    Keys,        \* execution_id values, a client's or a fresh uuid
    MaxTroubles, \* bound: broker, database and process failures, deletions
    AdHoc,       \* schedule_id is None
    None         \* no key; no row

ASSUME TriggerAssumption ==
    /\ IsFiniteSet(Requests)
    /\ MaxTroubles \in Nat
    /\ AdHoc \notin Schedules /\ None \notin Keys /\ None \notin Nat

VARIABLES
    key,     \* schedule -> execution_id of its row
    deleted, \* schedules that were deleted
    adhoc,   \* the ad-hoc rows: id and key
    lastId,  \* the id sequence of ad-hoc rows
    tasks,   \* sync_playlists_task messages the broker accepted
    pc,      \* request -> where its handler stands
    call,    \* request -> schedule_id and execution_id of its body
    prev,    \* request -> previous_execution_id
    mine,    \* request -> id of the ad-hoc row it inserted, or is answered with
    answer,  \* request -> what the client was told
    troubles,
    lastRun, \* history: schedule -> key of the run started last
    upset    \* history: where requests to one schedule overlapped, or what a
             \* request stored outlived its failure

rowVars == <<key, deleted, adhoc, lastId>>
vars == <<rowVars, tasks, pc, call, prev, mine, answer, troubles, lastRun, upset>>

Dests == Schedules \cup {AdHoc}

InFlight(r) == pc[r] \notin {"new", "done"}
RowOf(k)    == {a \in adhoc : a.key = k}

Init ==
    /\ key = [s \in Schedules |-> None]
    /\ deleted = {}
    /\ adhoc = {} /\ lastId = 0
    /\ tasks = {}
    /\ pc = [r \in Requests |-> "new"]
    /\ call = [r \in Requests |-> [dest |-> AdHoc, key |-> None]]
    /\ prev = [r \in Requests |-> None]
    /\ mine = [r \in Requests |-> None]
    /\ answer = [r \in Requests |-> "none"]
    /\ troubles = 0
    /\ lastRun = [s \in Schedules |-> None]
    /\ upset = {}

Answer(r, what) ==
    /\ pc' = [pc EXCEPT ![r] = "done"]
    /\ answer' = [answer EXCEPT ![r] = what]

Goto(r, where) ==
    /\ pc' = [pc EXCEPT ![r] = where]
    /\ UNCHANGED answer

-----------------------------------------------------------------------------
(* The handler                                                             *)

\* Mutant: existing_stmt asks for the user's key, whatever row carries it.
LookUnscoped(r, d, k) ==
    LET found == RowOf(k) # {} \/ \E s \in Schedules \ deleted : key[s] = k IN
    /\ pc[r] = "new"
    /\ call' = [call EXCEPT ![r] = [dest |-> d, key |-> k]]
    /\ \/ found /\ Answer(r, "exists")
       \/ ~found /\ Goto(r, IF d = AdHoc THEN "insert" ELSE "read")
    /\ UNCHANGED <<rowVars, tasks, prev, mine, troubles, lastRun, upset>>

\* The request arrives and the handler runs existing_stmt.
Look(r, d, k) ==
    /\ pc[r] = "new"
    /\ call' = [call EXCEPT ![r] = [dest |-> d, key |-> k]]
    /\ \/ /\ d \in Schedules \ deleted /\ key[d] = k
          /\ Answer(r, "exists")
          /\ UNCHANGED mine
       \/ \E a \in RowOf(k) :
             /\ d = AdHoc
             /\ Answer(r, "exists")
             /\ mine' = [mine EXCEPT ![r] = a.id]
       \/ /\ IF d = AdHoc THEN RowOf(k) = {} ELSE d \in deleted \/ key[d] # k
          /\ Goto(r, IF d = AdHoc THEN "insert" ELSE "read")
          /\ UNCHANGED mine
    /\ upset' = upset \cup
          IF \E q \in Requests : InFlight(q) /\ call[q].dest = d /\ d # AdHoc
          THEN {d} ELSE {}
    /\ UNCHANGED <<rowVars, tasks, prev, troubles, lastRun>>

\* Mutant: previous_execution_id stays None.
ReadScheduleOnly(r) ==
    LET s == call[r].dest IN
    /\ pc[r] = "read"
    /\ IF s \in deleted THEN Answer(r, "error") ELSE Goto(r, "store")
    /\ UNCHANGED <<rowVars, tasks, call, prev, mine, troubles, lastRun, upset>>

\* The schedule itself is read, with the key that may have to be restored.
ReadSchedule(r) ==
    LET s == call[r].dest IN
    /\ pc[r] = "read"
    /\ IF s \in deleted
       THEN Answer(r, "error") /\ UNCHANGED prev
       ELSE Goto(r, "store") /\ prev' = [prev EXCEPT ![r] = key[s]]
    /\ UNCHANGED <<rowVars, tasks, call, mine, troubles, lastRun, upset>>

\* The key is assigned and committed.  An unchanged attribute emits no UPDATE;
\* an UPDATE of a row that is gone raises.
StoreKey(r) ==
    LET s == call[r].dest IN
    /\ pc[r] = "store"
    /\ \/ /\ prev[r] = call[r].key
          /\ Goto(r, "enqueue")
          /\ UNCHANGED key
       \/ /\ prev[r] # call[r].key /\ s \notin deleted
          /\ Goto(r, "enqueue")
          /\ key' = [key EXCEPT ![s] = call[r].key]
       \/ /\ prev[r] # call[r].key /\ s \in deleted
          /\ Answer(r, "error")
          /\ UNCHANGED key
    /\ UNCHANGED <<deleted, adhoc, lastId, tasks, call, prev, mine, troubles,
                   lastRun, upset>>

\* Mutant: no unique index.
InsertWithoutIndex(r) ==
    /\ pc[r] = "insert"
    /\ lastId' = lastId + 1
    /\ adhoc' = adhoc \cup {[id |-> lastId + 1, key |-> call[r].key]}
    /\ mine' = [mine EXCEPT ![r] = lastId + 1]
    /\ Goto(r, "enqueue")
    /\ UNCHANGED <<key, deleted, tasks, call, prev, troubles, lastRun, upset>>

\* The ad-hoc row is inserted unless the unique index has the key.
Insert(r) ==
    /\ pc[r] = "insert"
    /\ \/ /\ RowOf(call[r].key) = {}
          /\ lastId' = lastId + 1
          /\ adhoc' = adhoc \cup {[id |-> lastId + 1, key |-> call[r].key]}
          /\ mine' = [mine EXCEPT ![r] = lastId + 1]
          /\ Goto(r, "enqueue")
       \/ /\ RowOf(call[r].key) # {}
          /\ Goto(r, "conflict")
          /\ UNCHANGED <<adhoc, lastId, mine>>
    /\ UNCHANGED <<key, deleted, tasks, call, prev, troubles, lastRun, upset>>

\* After the IntegrityError: roll back and look again; 409 when it is gone.
LookAgain(r) ==
    /\ pc[r] = "conflict"
    /\ \/ \E a \in RowOf(call[r].key) :
             Answer(r, "exists") /\ mine' = [mine EXCEPT ![r] = a.id]
       \/ RowOf(call[r].key) = {} /\ Answer(r, "error") /\ UNCHANGED mine
    /\ UNCHANGED <<rowVars, tasks, call, prev, troubles, lastRun, upset>>

Accepted(r) ==
    /\ tasks' = tasks \cup
          {[req |-> r, dest |-> call[r].dest, key |-> call[r].key, row |-> mine[r]]}
    /\ lastRun' = IF call[r].dest = AdHoc THEN lastRun
                  ELSE [lastRun EXCEPT ![call[r].dest] = call[r].key]

\* sync_playlists_task.delay
Enqueue(r) ==
    /\ pc[r] = "enqueue"
    /\ Accepted(r)
    /\ Goto(r, "register")
    /\ UNCHANGED <<rowVars, call, prev, mine, troubles, upset>>

\* The task is registered (module TaskRegistry) before the client is told.
Tell(r) ==
    /\ pc[r] = "register"
    /\ Answer(r, "started")
    /\ UNCHANGED <<rowVars, tasks, call, prev, mine, lastRun, upset>>

Trouble == troubles < MaxTroubles /\ troubles' = troubles + 1

\* delay raises: the broker did not take the message, or it did and the
\* connection broke before it said so.
EnqueueFails(r) ==
    /\ pc[r] = "enqueue"
    /\ Trouble
    /\ Goto(r, "discard")
    /\ \/ UNCHANGED <<tasks, lastRun, upset>>
       \/ Accepted(r) /\ upset' = upset \cup ({call[r].dest} \ {AdHoc})
    /\ UNCHANGED <<rowVars, call, prev, mine>>

\* Mutant: only the schedule's key is undone.
DiscardKeyOnly(r) ==
    LET s == call[r].dest IN
    /\ pc[r] = "discard"
    /\ key' = IF s \in deleted \cup {AdHoc} THEN key ELSE [key EXCEPT ![s] = prev[r]]
    /\ Answer(r, "error")
    /\ UNCHANGED <<deleted, adhoc, lastId, tasks, call, prev, mine, troubles,
                   lastRun, upset>>

\* _discard_unenqueued_sync, which then re-raises as a 500.
Discard(r) ==
    LET s == call[r].dest IN
    /\ pc[r] = "discard"
    /\ IF s = AdHoc
       THEN /\ adhoc' = {a \in adhoc : a.id # mine[r]}
            /\ UNCHANGED key
       ELSE /\ key' = IF s \in deleted THEN key ELSE [key EXCEPT ![s] = prev[r]]
            /\ UNCHANGED adhoc
    /\ Answer(r, "error")
    /\ UNCHANGED <<deleted, lastId, tasks, call, prev, mine, troubles, lastRun, upset>>

\* The clean-up fails and is only logged, or the API process dies; either way
\* what was stored so far stays.
Dies(r) ==
    /\ InFlight(r)
    /\ Trouble
    /\ Answer(r, "error")
    /\ upset' = upset \cup {call[r].dest}
    /\ UNCHANGED <<rowVars, tasks, call, prev, mine, lastRun>>

\* The commit of DELETE /schedules/{id} or of a bulk deletion (module
\* TaskRegistry): schedules and ad-hoc rows alike.
DeleteRows(ids) ==
    /\ deleted' = deleted \cup (ids \cap Schedules)
    /\ adhoc' = {a \in adhoc : a.id \notin ids}
    /\ UNCHANGED <<key, lastId, tasks, pc, call, prev, mine, answer, troubles, lastRun, upset>>

Handle(r) ==
    \/ \E d \in Dests, k \in Keys : Look(r, d, k)
    \/ ReadSchedule(r) \/ StoreKey(r) \/ Insert(r) \/ LookAgain(r)
    \/ Enqueue(r) \/ EnqueueFails(r) \/ Discard(r) \/ Dies(r)

-----------------------------------------------------------------------------
(* Properties                                                              *)

\* The values of the variables; only ids that were handed out are in use.
TypeOK ==
    /\ key \in [Schedules -> Keys \cup {None}]
    /\ deleted \subseteq Schedules
    /\ lastId \in Nat
    /\ adhoc \subseteq [id : 1..lastId, key : Keys]
    /\ tasks \subseteq [req : Requests, dest : Dests, key : Keys,
                       row : (1..lastId) \cup {None}]
    /\ pc \in [Requests -> {"new", "read", "store", "insert", "conflict",
                            "enqueue", "register", "discard", "done"}]
    /\ call \in [Requests -> [dest : Dests, key : Keys \cup {None}]]
    /\ prev \in [Requests -> Keys \cup {None}]
    /\ mine \in [Requests -> (1..lastId) \cup {None}]
    /\ answer \in [Requests -> {"none", "started", "exists", "error"}]
    /\ lastRun \in [Schedules -> Keys \cup {None}]
    /\ upset \subseteq Dests

\* The idempotency of ad-hoc syncs: whatever races and fails, at most one
\* accepted task of a key finds its row when a worker takes it up (one that
\* does not is dropped, phases.py 160).
OneLiveRunPerKey ==
    \A k \in Keys :
        Cardinality({t \in tasks : t.dest = AdHoc
                        /\ \E a \in RowOf(k) : a.id = t.row}) <= 1

\* No phantom syncs: an ad-hoc row whose task was never accepted belongs to a
\* request that is still at work, unless the clean-up itself was cut short.
NoPhantomSync ==
    AdHoc \in upset
    \/ \A a \in adhoc :
          \/ \E t \in tasks : t.row = a.id
          \/ \E r \in Requests : InFlight(r) /\ mine[r] = a.id

\* The key is scoped to what the request names: "already exists" is answered
\* only when another request brought the same key for the same schedule (or
\* for an ad-hoc sync) before.
AnswerIsOwn ==
    \A r \in Requests : answer[r] = "exists" =>
        \E q \in Requests \ {r} : call[q] = call[r] /\ answer[q] # "exists"

\* As long as the requests to a schedule follow one another, its key is the
\* key of the run that was started last, so that a retry of that run's
\* request is recognised; a request that could not be enqueued leaves no
\* trace.  This is what previous_execution_id is carried along for.
KeyIsLastRun ==
    \A s \in Schedules \ (deleted \cup upset) :
        (\A r \in Requests : ~(InFlight(r) /\ call[r].dest = s)) => key[s] = lastRun[s]
=============================================================================
