---------------------------- MODULE TaskRegistry ----------------------------
(***************************************************************************)
(* The tasks that POST /syncs starts, their registry in Valkey, the status *)
(* endpoint, and the deletion of schedules (services/sync_tasks.py), put   *)
(* together with the handler of SyncTrigger.                               *)
(*                                                                         *)
(* A task adds itself to the set of its sync when its body begins and      *)
(* leaves it when it is through; the parent also adds the child it spawns. *)
(* A deletion reads the set, revokes what it finds, drops the set, and     *)
(* only then deletes the row.  Of a second kind are the mappings from a    *)
(* task to its sync: the handler writes one before it answers, the task    *)
(* writes the same one, and the status endpoint looks there who may poll.  *)
(* Every Valkey error is logged and forgotten.                             *)
(***************************************************************************)
EXTENDS SyncTrigger

CONSTANTS
    Processes,    \* tasks that the workers execute at a time
    MaxDeletions  \* bound: deletions of rows

ASSUME RegistryAssumption == Processes \in Nat \ {0} /\ MaxDeletions \in Nat

VARIABLES
    st,      \* task -> how far it is
    reg,     \* sync -> the tasks in ampy3:sync-tasks:<sync>
    rev,     \* requests whose task has a mapping ampy3:task-to-sync:<task>;
             \* the children's are written too, but no client knows of them
    revoked, \* tasks the workers were told to revoke
    del,     \* the deletion under way, and how many there were
    unsaid,  \* history: requests whose own mapping was lost
    unheard, \* history: tasks whose last registration was lost
    swept    \* history: tasks whose entry a deletion dropped with the set

registry == <<reg, rev>>
history  == <<unsaid, unheard, swept>>
taskVars == <<st, registry, revoked, del, history>>
allVars  == <<vars, taskVars>>

RowIds  == Schedules \cup (1..Cardinality(Requests))
TaskIds == Requests \X {"parent", "child"}
Parent(r) == <<r, "parent">>
Child(t)  == <<t[1], "child">>

\* registry_id: the row the request resolved against.
SyncOf(r) == IF call[r].dest = AdHoc THEN mine[r] ELSE call[r].dest
Alive(id) == id \in Schedules \ deleted \/ \E a \in adhoc : a.id = id

\* waiting: enqueued, PENDING for Celery; again: the same after an attempt;
\* entered: STARTED, the body has not registered yet; spawned: the child is
\* enqueued, not listed.
Stages   == {"absent", "waiting", "again", "entered", "working", "spawned", "over"}
AtWork   == {"working", "spawned"}
Idle(n)  == [at |-> "none", rows |-> {}, left |-> {}, n |-> n]

TInit ==
    /\ Init
    /\ st = [t \in TaskIds |-> "absent"]
    /\ reg = [id \in RowIds |-> {}]
    /\ rev = {} /\ revoked = {}
    /\ del = Idle(0)
    /\ unsaid = {} /\ unheard = {} /\ swept = {}

To(t, stage) == st' = [st EXCEPT ![t] = stage]

-----------------------------------------------------------------------------
(* The handler                                                             *)

\* A message that the broker took, whatever the handler was told.
Arrived ==
    st' = [t \in TaskIds |->
              IF st[t] = "absent" /\ t[2] = "parent" /\ \E m \in tasks' : m.req = t[1]
              THEN "waiting" ELSE st[t]]

Trigger(r) ==
    /\ Handle(r)
    /\ Arrived
    /\ UNCHANGED <<registry, revoked, del, history>>

\* Mutant of Registers: the task is left to register itself.
RegistersNothing(r) ==
    /\ Tell(r)
    /\ UNCHANGED <<troubles, st, registry, revoked, del, history>>

\* register_sync_task_async: the mapping alone.
Registers(r) ==
    /\ Tell(r)
    /\ \/ /\ rev' = rev \cup {r}
          /\ UNCHANGED <<troubles, unsaid>>
       \/ /\ Trouble /\ unsaid' = unsaid \cup {r}
          /\ UNCHANGED rev
    /\ UNCHANGED <<st, reg, revoked, del, unheard, swept>>

-----------------------------------------------------------------------------
(* The tasks                                                               *)

\* A worker takes the message; a revoked one it throws away, if it knows.
Enter(t) ==
    /\ st[t] \in {"waiting", "again"}
    /\ Cardinality({u \in TaskIds : st[u] \in {"entered"} \cup AtWork}) < Processes
    /\ To(t, "entered")
    /\ UNCHANGED <<vars, registry, revoked, del, history>>

\* register_sync_task: the set, then the mapping; both, the first or none.
Register(t) ==
    LET id == SyncOf(t[1]) IN
    /\ st[t] = "entered"
    /\ To(t, "working")
    /\ \/ /\ reg' = [reg EXCEPT ![id] = @ \cup {t}]
          /\ rev' = IF t = Parent(t[1]) THEN rev \cup {t[1]} ELSE rev
          /\ unheard' = unheard \ {t}
          /\ UNCHANGED troubles
       \/ /\ Trouble
          /\ unheard' = unheard \cup {t}
          /\ reg' \in {reg, [reg EXCEPT ![id] = @ \cup {t}]}
          /\ UNCHANGED rev
    /\ swept' = swept \ {t}
    /\ UNCHANGED <<rowVars, tasks, pc, call, prev, mine, answer, lastRun, upset,
                   revoked, del, unsaid>>

\* The source is fetched for a row that is still there: the child is enqueued.
Spawn(t) ==
    /\ t[2] = "parent" /\ st[t] = "working" /\ Alive(SyncOf(t[1]))
    /\ st[Child(t)] = "absent"
    /\ st' = [st EXCEPT ![t] = "spawned", ![Child(t)] = "waiting"]
    /\ UNCHANGED <<vars, registry, revoked, del, history>>

\* What was noted of a task no longer matters when it is over.
Forget(t) == revoked' = revoked \ {t} /\ swept' = swept \ {t}

\* The parent lists its child, which may be anywhere by now, and leaves the
\* set itself; either may fail.
ListChild(t) ==
    LET id == SyncOf(t[1]) IN
    /\ st[t] = "spawned"
    /\ To(t, "over")
    /\ \/ reg' = [reg EXCEPT ![id] = (@ \cup {Child(t)}) \ {t}] /\ UNCHANGED troubles
       \/ Trouble /\ reg' \in {[reg EXCEPT ![id] = @ \ {t}], [reg EXCEPT ![id] = @ \cup {Child(t)}]}
    /\ Forget(t)
    /\ UNCHANGED <<rowVars, tasks, pc, call, prev, mine, answer, lastRun, upset,
                   rev, del, unsaid, unheard>>

\* Mutant of End: the set of the sync is deleted.
EndOfAll(t) ==
    /\ st[t] = "working"
    /\ To(t, "over")
    /\ reg' = [reg EXCEPT ![SyncOf(t[1])] = {}]
    /\ UNCHANGED <<vars, rev, revoked, del, history>>

\* unregister_sync_task: done, dropped because the row is gone, nothing to
\* do, or failed for good.
End(t) ==
    /\ st[t] = "working"
    /\ To(t, "over")
    /\ \/ /\ reg' = [reg EXCEPT ![SyncOf(t[1])] = @ \ {t}]
          /\ UNCHANGED troubles
       \/ Trouble /\ UNCHANGED reg
    /\ Forget(t)
    /\ UNCHANGED <<rowVars, tasks, pc, call, prev, mine, answer, lastRun, upset,
                   rev, del, unsaid, unheard>>

\* self.retry, or the worker was lost: the entry stays.
Retry(t) ==
    /\ st[t] = "working"
    /\ Trouble
    /\ To(t, "again")
    /\ UNCHANGED <<rowVars, tasks, pc, call, prev, mine, answer, lastRun, upset,
                   registry, revoked, del, history>>

\* The revocation reaches the worker: it terminates the task, or will not
\* start it.
Terminate(t) ==
    /\ t \in revoked
    /\ To(t, "over")
    /\ Forget(t)
    /\ UNCHANGED <<vars, registry, del, unsaid, unheard>>

-----------------------------------------------------------------------------
(* DELETE /schedules/{id}, POST /schedules/bulk/delete                     *)

DeleteStarts(rows) ==
    /\ del.at = "none" /\ del.n < MaxDeletions /\ rows # {}
    /\ \A id \in rows : Alive(id)
    /\ del' = [at |-> "read", rows |-> rows, left |-> rows, n |-> del.n + 1]
    /\ UNCHANGED <<vars, st, registry, revoked, history>>

\* _revoke_sync: SMEMBERS and the broadcast.
Revoke(id) ==
    /\ del.at = "read" /\ id \in del.left
    /\ revoked' = revoked \cup {t \in reg[id] : st[t] # "over"}
    /\ del' = [del EXCEPT !.at = "drop", !.left = @ \ {id}]
    /\ UNCHANGED <<vars, st, registry, history>>

\* _revoke_sync: the set is dropped, with what came since; an error is
\* swallowed, and the next row is dealt with.
DropSet(id) ==
    /\ del.at = "drop" /\ id \in del.rows \ del.left
    /\ \/ /\ reg' = [reg EXCEPT ![id] = {}]
          /\ swept' = swept \cup {t \in reg[id] : st[t] # "over"}
          /\ UNCHANGED troubles
       \/ Trouble /\ UNCHANGED <<reg, swept>>
    /\ del' = [del EXCEPT !.at = IF del.left = {} THEN "commit" ELSE "read"]
    /\ UNCHANGED <<rowVars, tasks, pc, call, prev, mine, answer, lastRun, upset,
                   st, rev, revoked, unsaid, unheard>>

\* The rows go, or the commit fails and they stay.
DeleteEnds ==
    /\ del.at = "commit"
    /\ del' = Idle(del.n)
    /\ \/ DeleteRows(del.rows)
       \/ Trouble /\ UNCHANGED <<rowVars, tasks, pc, call, prev, mine, answer, lastRun, upset>>
    /\ UNCHANGED <<st, registry, revoked, history>>

-----------------------------------------------------------------------------
(* GET /syncs/status/{task_id}                                             *)

\* The mapping decides who may poll.  Without one the task is pending as long
\* as Celery never saw it start; the last resort, a result that names its
\* user, does not exist: no task returns one.
Poll(r) ==
    IF r \in rev
    THEN IF Alive(SyncOf(r)) THEN "status" ELSE "not found"
    ELSE IF st[Parent(r)] = "waiting" THEN "pending" ELSE "not found"

-----------------------------------------------------------------------------
Next ==
    \/ \E r \in Requests : Trigger(r) \/ Registers(r)
    \/ \E t \in TaskIds :
          \/ Enter(t) \/ Register(t) \/ Spawn(t) \/ ListChild(t) \/ End(t)
          \/ Retry(t) \/ Terminate(t)
    \/ \E rows \in SUBSET RowIds : DeleteStarts(rows)
    \/ \E id \in RowIds : Revoke(id) \/ DropSet(id)
    \/ DeleteEnds

Spec == TInit /\ [][Next]_allVars

-----------------------------------------------------------------------------
(* Properties                                                              *)

\* A task at work is in the set of its sync, so that a deletion that begins
\* now revokes it: through retries, lost workers, parents that end before or
\* after their children, and deletions that dropped the set and then failed.
\* Only an error at its own registration, or a deletion since, hides it.
WorkIsListed ==
    \A t \in TaskIds :
        st[t] \in AtWork => t \in reg[SyncOf(t[1])] \/ t \in unheard \cup swept

\* A client that was told its task may poll it from then on for as long as
\* the sync exists: the two mappings back each other up (sync_tasks.py 69-76).
\* When the handler's was lost, only the moment before the body registers, or
\* the loss of its mapping too, answers 404.
PollResolves ==
    \A r \in Requests :
        answer[r] = "started" /\ Alive(SyncOf(r)) /\ Poll(r) = "not found"
            => r \in unsaid /\ (st[Parent(r)] = "entered" \/ Parent(r) \in unheard)

=============================================================================
