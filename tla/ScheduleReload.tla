--------------------------- MODULE ScheduleReload ---------------------------
(***************************************************************************)
(* How the APScheduler jobs follow the schedule rows.                      *)
(*                                                                         *)
(* The rows of scheduled_playlist_syncs are the configuration; the jobs    *)
(* that fire live in APScheduler's own tables of the same database.  Every *)
(* handler of api/schedules.py that changes rows commits them and then     *)
(* calls SchedulerService.reload_schedules: list the jobs, remove them one *)
(* by one, read the active rows, add one job per row.  Each of these is an *)
(* await, so the reloads of several requests interleave; and none is       *)
(* undone when a later one raises.                                         *)
(*                                                                         *)
(* A row's configuration is its version; ids are never reused.             *)
(***************************************************************************)
EXTENDS Naturals, FiniteSets

CONSTANTS
    Schedules,   \* ids of rows
    Handlers,    \* requests the API serves at a time
    MaxChanges,  \* bound: committed changes of rows
    NoJob

ASSUME ScheduleAssumption ==
    /\ IsFiniteSet(Schedules)
    /\ MaxChanges \in Nat
    /\ NoJob \notin Nat

VARIABLES
    row,     \* schedule -> its row
    job,     \* schedule -> configuration of its job, or NoJob
    pc,      \* handler -> where its reload stands
    left,    \* handler -> jobs it has still to remove
    toAdd,   \* handler -> rows it read and has still to add
    up,      \* the API process is running
    changes, \* committed changes so far
    broken,  \* history: a reload has failed and none that began later is done
    heals,   \* history: handlers whose reload began after the last failure
    alone    \* history: handlers whose reload nobody has disturbed so far

reloadVars   == <<pc, left, toAdd>>
history      == <<broken, heals, alone>>
scheduleVars == <<row, job, reloadVars, up, changes, history>>

RowStates == {"free", "active", "paused", "gone"}
Rows == [st : RowStates, adhoc : BOOLEAN, ver : 0..MaxChanges]
Read == [id : Schedules, adhoc : BOOLEAN, ver : 0..MaxChanges]

Existing == {s \in Schedules : row[s].st \in {"active", "paused"}}
Active   == {s \in Schedules : row[s].st = "active"}

\* What the jobs ought to be.
Wanted == [s \in Schedules |-> IF s \in Active THEN row[s].ver ELSE NoJob]

Idle(h) == pc[h] = "idle"
Quiet == up /\ \A h \in Handlers : Idle(h)

ReloadInit ==
    /\ row = [s \in Schedules |-> [st |-> "free", adhoc |-> FALSE, ver |-> 0]]
    /\ job = [s \in Schedules |-> NoJob]
    /\ pc = [h \in Handlers |-> "idle"]
    /\ left = [h \in Handlers |-> {}]
    /\ toAdd = [h \in Handlers |-> {}]
    /\ up = TRUE
    /\ changes = 0
    /\ broken = FALSE /\ heals = {} /\ alone = {}

-----------------------------------------------------------------------------
(* The handlers' commits.  Each goes on to reload.                         *)

\* Rows change under every reload but the committing handler's own.
Commit(newRow) ==
    /\ changes < MaxChanges
    /\ changes' = changes + 1
    /\ row' = newRow
    /\ alone' = {}
    /\ UNCHANGED <<job, left, toAdd, up, broken, heals>>

ThenReload(h) ==
    /\ up /\ Idle(h)
    /\ pc' = [pc EXCEPT ![h] = "list"]

\* create_scheduled_sync; its interval was checked against the enum.
Create(h, s) ==
    /\ row[s].st = "free"
    /\ Commit([row EXCEPT ![s] =
                  [st |-> "active", adhoc |-> FALSE, ver |-> changes + 1]])
    /\ ThenReload(h)

\* update_scheduled_sync: any of name, targets, interval and is_active.  A
\* new interval makes an ad-hoc row a recurring one; a body without one does
\* not look at the interval the row has.
Update(h, s) ==
    /\ s \in Existing
    /\ \E st \in {"active", "paused"} :
       \E adhoc \in {row[s].adhoc, FALSE} :
           Commit([row EXCEPT ![s] =
                      [st |-> st, adhoc |-> adhoc, ver |-> changes + 1]])
    /\ ThenReload(h)

\* bulk_toggle_active
Toggle(h, some, st) ==
    /\ some # {} /\ some \subseteq Existing
    /\ Commit([s \in Schedules |->
                  IF s \in some THEN [row[s] EXCEPT !.st = st] ELSE row[s]])
    /\ ThenReload(h)

\* delete_scheduled_sync and bulk_delete
Delete(h, some) ==
    /\ some # {} /\ some \subseteq Existing
    /\ Commit([s \in Schedules |->
                  IF s \in some THEN [row[s] EXCEPT !.st = "gone"] ELSE row[s]])
    /\ ThenReload(h)

\* POST /syncs without a schedule stores an inactive row with the interval
\* "once", which no job can be built from; it does not reload.
AdHoc(s) ==
    /\ up
    /\ row[s].st = "free"
    /\ Commit([row EXCEPT ![s] =
                  [st |-> "paused", adhoc |-> TRUE, ver |-> changes + 1]])
    /\ UNCHANGED pc

\* POST /scheduler/reload
ReloadEndpoint(h) ==
    /\ ThenReload(h)
    /\ UNCHANGED <<row, job, left, toAdd, up, changes, history>>

-----------------------------------------------------------------------------
(* reload_schedules                                                        *)

\* get_schedules
ListJobs(h) ==
    /\ pc[h] = "list"
    /\ pc' = [pc EXCEPT ![h] = "remove"]
    /\ left' = [left EXCEPT ![h] = {s \in Schedules : job[s] # NoJob}]
    /\ heals' = heals \cup {h}
    /\ alone' = IF \A g \in Handlers \ {h} : pc[g] \in {"idle", "list"}
                THEN {h} ELSE {}
    /\ UNCHANGED <<row, job, toAdd, up, changes, broken>>

\* remove_schedule, which does not mind that the job is gone already
RemoveJob(h) ==
    /\ pc[h] = "remove"
    /\ \E s \in left[h] :
           /\ job' = [job EXCEPT ![s] = NoJob]
           /\ left' = [left EXCEPT ![h] = @ \ {s}]
    /\ alone' = alone \cap {h}
    /\ UNCHANGED <<row, pc, toAdd, up, changes, broken, heals>>

\* Mutant: the SELECT does not ask for is_active.
ReadRowsOfAll(h) ==
    /\ pc[h] = "remove" /\ left[h] = {}
    /\ pc' = [pc EXCEPT ![h] = "add"]
    /\ toAdd' = [toAdd EXCEPT ![h] =
          {[id |-> s, adhoc |-> row[s].adhoc, ver |-> row[s].ver] : s \in Existing}]
    /\ alone' = alone \cap {h}
    /\ UNCHANGED <<row, job, left, up, changes, broken, heals>>

\* the SELECT of the active rows
ReadRows(h) ==
    /\ pc[h] = "remove" /\ left[h] = {}
    /\ pc' = [pc EXCEPT ![h] = "add"]
    /\ toAdd' = [toAdd EXCEPT ![h] =
          {[id |-> s, adhoc |-> row[s].adhoc, ver |-> row[s].ver] : s \in Active}]
    /\ alone' = alone \cap {h}
    /\ UNCHANGED <<row, job, left, up, changes, broken, heals>>

\* Mutant: _register_sync logs its error and does not raise it.
AddJobSwallowing(h) ==
    /\ pc[h] = "add"
    /\ \E r \in toAdd[h] :
           /\ job' = IF r.adhoc THEN job ELSE [job EXCEPT ![r.id] = r.ver]
           /\ toAdd' = [toAdd EXCEPT ![h] = @ \ {r}]
    /\ alone' = alone \cap {h}
    /\ UNCHANGED <<row, pc, left, up, changes, broken, heals>>

\* _register_sync: add_schedule with ConflictPolicy.replace, in whatever
\* order the SELECT returned the rows
AddJob(h) ==
    /\ pc[h] = "add"
    /\ \E r \in toAdd[h] :
           /\ ~r.adhoc
           /\ job' = [job EXCEPT ![r.id] = r.ver]
           /\ toAdd' = [toAdd EXCEPT ![h] = @ \ {r}]
    /\ alone' = alone \cap {h}
    /\ UNCHANGED <<row, pc, left, up, changes, broken, heals>>

\* The reload returns; it repairs what failed before it began.
Finish(h) ==
    /\ pc[h] = "add" /\ toAdd[h] = {}
    /\ pc' = [pc EXCEPT ![h] = "idle"]
    /\ broken' = (broken /\ h \notin heals)
    /\ heals' = heals \ {h}
    /\ alone' = alone \cap {h}
    /\ UNCHANGED <<row, job, left, toAdd, up, changes>>

\* A step raises and the request is answered with a 500: the database is
\* away, or _get_trigger has no interval for an ad-hoc row.
Raises(h) ==
    /\ ~Idle(h)
    /\ pc' = [pc EXCEPT ![h] = "idle"]
    /\ left' = [left EXCEPT ![h] = {}]
    /\ toAdd' = [toAdd EXCEPT ![h] = {}]
    /\ broken' = TRUE /\ heals' = {} /\ alone' = {}
    /\ UNCHANGED <<row, job, up, changes>>

\* The API process stops, whatever it was doing; the jobs are in the database.
Crash ==
    /\ up
    /\ up' = FALSE
    /\ pc' = [h \in Handlers |-> "idle"]
    /\ left' = [h \in Handlers |-> {}]
    /\ toAdd' = [h \in Handlers |-> {}]
    /\ broken' = TRUE /\ heals' = {} /\ alone' = {}
    /\ UNCHANGED <<row, job, changes>>

\* The lifespan hook: SchedulerService.start ends with a reload.
Start(h) ==
    /\ ~up
    /\ up' = TRUE
    /\ pc' = [pc EXCEPT ![h] = "list"]
    /\ UNCHANGED <<row, job, left, toAdd, changes, history>>

Request(h) ==
    \/ \E s \in Schedules : Create(h, s) \/ Update(h, s)
    \/ \E some \in SUBSET Schedules :
           \/ \E st \in {"active", "paused"} : Toggle(h, some, st)
           \/ Delete(h, some)
    \/ ReloadEndpoint(h)

Reload(h) ==
    ListJobs(h) \/ RemoveJob(h) \/ ReadRows(h) \/ AddJob(h) \/ Finish(h) \/ Raises(h)

ReloadNext ==
    \/ \E h \in Handlers : Request(h) \/ Reload(h) \/ Start(h)
    \/ \E s \in Schedules : AdHoc(s)
    \/ Crash

ReloadSpec == ReloadInit /\ [][ReloadNext]_scheduleVars

-----------------------------------------------------------------------------
(* Properties                                                              *)

\* The values of the variables; a handler that is not in a reload has
\* nothing to remove or to add.
ReloadTypeOK ==
    /\ row \in [Schedules -> Rows]
    /\ job \in [Schedules -> (0..MaxChanges) \cup {NoJob}]
    /\ pc \in [Handlers -> {"idle", "list", "remove", "add"}]
    /\ left \in [Handlers -> SUBSET Schedules]
    /\ toAdd \in [Handlers -> SUBSET Read]
    /\ up \in BOOLEAN
    /\ changes \in 0..MaxChanges
    /\ broken \in BOOLEAN
    /\ heals \subseteq Handlers /\ alone \subseteq Handlers
    /\ \A h \in Handlers :
           /\ left[h] # {} => pc[h] = "remove"
           /\ toAdd[h] # {} => pc[h] = "add"

\* However the requests overlap, no active schedule is left without a job:
\* when nothing is under way, every one has a job unless some reload failed
\* (a crash included) and none that began afterwards has finished.  It rests
\* on the order of reload_schedules: it reads the rows after it removed its
\* last job, and every change is committed before its reload begins.
NoneMissing ==
    Quiet /\ ~broken => \A s \in Active : job[s] # NoJob

\* A reload that nobody disturbed leaves exactly the active rows, at their
\* present configuration, whatever earlier ones left behind.
LoneReloadExact ==
    [][\A h \in Handlers : Finish(h) /\ h \in alone => job = Wanted]_scheduleVars

=============================================================================
