------------------------------ MODULE SyncRuns ------------------------------
(***************************************************************************)
(* The sync_runs rows of ONE (sync, target) pair and the child tasks       *)
(* (sync_target_task) that write them: worker/tasks.py, worker/pipeline.py *)
(* and worker/phases.py.                                                   *)
(*                                                                         *)
(* A child runs one database transaction per step: it reuses or creates    *)
(* its run row, matches the tracks, marks "the latest row" completed,      *)
(* snapshots the matches as history, and only then, outside any            *)
(* transaction, writes the playlist on the target.  A failure marks "the   *)
(* latest row" failed and retries the task; a lost worker redelivers it    *)
(* (task_acks_late).  Rows are found by position in the history            *)
(* (ORDER BY created_at), not by the execution that owns them, which is    *)
(* where two executions, or a refused dispatch, can get in each other's    *)
(* way.                                                                    *)
(*                                                                         *)
(* The tracks belong to the sync and not to the target: a run for other    *)
(* targets fetches them too.                                               *)
(*                                                                         *)
(* What reaches the target is a set of matched items here; the order and   *)
(* the requests that write it are PlaylistUpdate's.                        *)
(***************************************************************************)
EXTENDS Naturals, Sequences, FiniteSets

CONSTANTS
    Tasks,       \* child tasks, i.e. messages of sync_target_task
    Execs,       \* execution ids
    Items,       \* source tracks, by item_id
    Sources,     \* what a source playlist can contain: sequences of items
    MaxRetries,  \* max_retries of sync_target_task
    MaxTroubles, \* bound: what may come in the way of the runs, in all: lost
                 \* workers, killed tasks, lost failure records, refused
                 \* dispatches, fetches while a run is under way, matches
                 \* asked for by hand
    Refusal,     \* the execution id a refused dispatch draws
    Elsewhere,   \* stands for the executions that are for other targets only
    NoLink       \* a track without PlaylistTrackTarget for this target

ASSUME RefusalAssumption == Refusal \notin Execs
ASSUME ElsewhereAssumption == Elsewhere \notin Execs \cup {Refusal}
ASSUME LinkAssumption == NoLink \notin Items
ASSUME SourcesAssumption == Sources \subseteq Seq(Items)
ASSUME RunBoundsAssumption == MaxRetries \in Nat /\ MaxTroubles \in Nat

VARIABLES
    exists,   \* the scheduled_playlist_syncs row is there
    tracks,   \* playlist_tracks by position, with the link of this target
    runs,     \* sync_runs in order of creation
    playlist, \* matched items the target's playlist holds
    task,     \* every child task: where it stands
    manual,   \* the match_track_task under way
    crossed,  \* history: a fetch came between the two halves of one
    fetched,  \* history: the execution whose fetch wrote the tracks last
    faults, refusals, overlaps  \* the troubles so far, by kind

fetches == <<crossed, fetched>>
single == <<manual, fetches>>
vars == <<exists, tracks, runs, playlist, task, single, faults, refusals, overlaps>>
budgets == <<faults, refusals, overlaps>>

States == {"absent", "queued", "ensuring", "matching", "finalizing",
           "publishing", "published", "added", "short", "over", "lost"}
\* published: the playlist was read and made exactly what was wanted;
\* added: it could not be read and was only added to;
\* short: it was created, and adding some of the items failed;
\* over: dropped, connection failed, playlist not created, or failed for good;
\* lost: killed, revoked, or failed for good with no record of it.
Successful == {"published", "added", "short"}
Ended == Successful \cup {"over", "lost"}
Working == {"ensuring", "matching", "finalizing", "publishing"}

NewTask(st, exec, items) == [st |-> st, exec |-> exec, tries |-> 0, items |-> items,
                             reuse |-> FALSE, out |-> {}]

Active(t) == task[t].st \notin Ended \cup {"absent"}
Pairs == [item : Items, link : Items]
TrackRow == [item : Items, link : Items \cup {NoLink}]
RunRow == [exec : Execs \cup {Refusal}, status : {"running", "completed", "failed"},
           batch : SUBSET Items, history : SUBSET Pairs]
ChildTask == [st : States, exec : Execs \cup {Refusal}, tries : 0..MaxRetries,
              items : Seq(Items), reuse : BOOLEAN, out : SUBSET Items]
ManualMatch == [st : {"idle", "asked", "matching"}, item : Items \cup {NoLink},
                row : Nat, n : Nat]

TypeOK ==
    /\ exists \in BOOLEAN /\ crossed \in BOOLEAN /\ fetched \in Execs \cup {Elsewhere}
    /\ tracks \in Seq(TrackRow)
    /\ runs \in Seq(RunRow)
    /\ playlist \subseteq Items
    /\ task \in [Tasks -> ChildTask]
    /\ manual \in ManualMatch
    /\ manual.row <= Len(tracks)
    /\ faults \in Nat /\ refusals \in Nat /\ overlaps \in Nat
    /\ manual.n + faults + refusals + overlaps <= MaxTroubles

Init ==
    /\ exists = TRUE /\ tracks = <<>> /\ runs = <<>> /\ playlist = {}
    /\ manual = [st |-> "idle", item |-> NoLink, row |-> 0, n |-> 0]
    /\ crossed = FALSE /\ fetched = Elsewhere
    /\ task = [t \in Tasks |-> NewTask("absent", Refusal, <<>>)]
    /\ faults = 0 /\ refusals = 0 /\ overlaps = 0

Trouble == manual.n + faults + refusals + overlaps < MaxTroubles
Fault == Trouble /\ faults' = faults + 1 /\ UNCHANGED <<refusals, overlaps>>

-----------------------------------------------------------------------------
(* The rows *)

NewRun(exec, status, batch) ==
    [exec |-> exec, status |-> status, batch |-> batch, history |-> {}]

\* mutant: the query forgets the status.
RowsOfExecution(exec) == {i \in DOMAIN runs : runs[i].exec = exec}

\* The rows the idempotency query finds: same execution, not yet terminal.
LiveRows(exec) ==
    {i \in DOMAIN runs : runs[i].exec = exec /\ runs[i].status = "running"}

\* ORDER BY created_at DESC LIMIT 1: whatever execution wrote it.
LatestFailed ==
    IF runs = <<>> THEN runs ELSE [runs EXCEPT ![Len(runs)].status = "failed"]

\* FetchPhase: rows are reused by position, with the links of the targets the
\* fetch is not for, and surplus rows pruned;
Overwritten(source) ==
    [i \in DOMAIN source |->
        [item |-> source[i], link |-> IF i \in DOMAIN tracks THEN tracks[i].link ELSE NoLink]]

\* the links of its own targets are deleted (target_id.in_(target_ids)).
Refetched(source) == [i \in DOMAIN source |-> [item |-> source[i], link |-> NoLink]]

\* MatchPhase looks each track of the message up by its item and links the row
\* it gets, when a rule finds something: .first() without ORDER BY gives any row
\* of that item, and a track listed twice is looked up twice.
CanHit(items, hits) ==
    \A i \in hits : Cardinality({j \in hits : tracks[j].item = tracks[i].item})
                     <= Cardinality({k \in DOMAIN items : items[k] = tracks[i].item})

\* The rows that were hit get their link; the others keep what they had.
Matched(hits) ==
    [i \in DOMAIN tracks |->
        IF i \in hits THEN [tracks[i] EXCEPT !.link = tracks[i].item] ELSE tracks[i]]

Links == {tracks[i].link : i \in DOMAIN tracks} \ {NoLink}

\* _snapshot_history: the links of the tracks the row's batch recorded.
Snapshot(batch) ==
    {[item |-> tracks[i].item, link |-> tracks[i].link] :
        i \in {j \in DOMAIN tracks : tracks[j].link # NoLink /\ tracks[j].item \in batch}}

\* uq_sync_run_track_target: a run's copy of a track takes one match.  The
\* snapshot meets it when the row holds a history of its own already, or when
\* a track listed twice is linked at both its positions.
Fits(row) ==
    LET new == {j \in DOMAIN tracks : tracks[j].link # NoLink /\ tracks[j].item \in row.batch}
    IN /\ \A i \in new : \A h \in row.history : h.item # tracks[i].item
       /\ \A i, j \in new : tracks[i].item = tracks[j].item => i = j

\* FinalizePhase's transaction on the latest row.
CompletedRow(row) ==
    [row EXCEPT !.status = "completed", !.history = row.history \cup Snapshot(row.batch)]

LatestCompleted ==
    IF runs = <<>> THEN runs
    ELSE [runs EXCEPT ![Len(runs)] = CompletedRow(runs[Len(runs)])]

-----------------------------------------------------------------------------
(* Tasks ending and failing *)

Goes(t, st) == task' = [task EXCEPT ![t] = [@ EXCEPT !.st = st]]

\* The message is acknowledged: only how the task ended still counts.
Ends(t, st) == task' = [task EXCEPT ![t] = NewTask(st, task[t].exec, <<>>)]

\* raise self.retry, or the last raise once max_retries is reached.
RetryOr(t, st) ==
    IF task[t].tries < MaxRetries
    THEN task' = [task EXCEPT ![t] =
                     [task[t] EXCEPT !.st = "queued", !.tries = task[t].tries + 1]]
    ELSE Ends(t, st)

\* The generic exception handler: mark the latest row failed, then retry.
\* A second database error is swallowed and leaves the rows as they are: the
\* task has then ended "lost" if it was the last attempt.
Fails(t) ==
    \/ runs' = LatestFailed /\ RetryOr(t, "over") /\ UNCHANGED budgets
    \/ UNCHANGED runs /\ RetryOr(t, "lost") /\ Fault

-----------------------------------------------------------------------------
(* A match asked for by hand: match_track_task                             *)

\* The row a match has read is reused for another track, or is gone.
RowsReplaced(count) ==
    /\ crossed' = (manual.st = "matching")
    /\ manual' = [manual EXCEPT !.row = IF @ > count THEN 0 ELSE @]

Answered == manual' = [manual EXCEPT !.st = "idle", !.item = NoLink, !.row = 0]

\* POST /syncs/{id}/match-track: the sync is there, the task is enqueued.
AskMatch(item) ==
    /\ manual.st = "idle" /\ Trouble
    /\ exists
    /\ manual' = [manual EXCEPT !.st = "asked", !.item = item, !.n = @ + 1]
    /\ UNCHANGED <<exists, tracks, runs, playlist, task, fetches, budgets>>

\* TrackMatcher.match reads a row of the item (.first() again), or gives up.
ReadTrack ==
    /\ manual.st = "asked"
    /\ \/ \E i \in DOMAIN tracks :
             /\ tracks[i].item = manual.item
             /\ manual' = [manual EXCEPT !.st = "matching", !.row = i]
       \/ (\A i \in DOMAIN tracks : tracks[i].item # manual.item) /\ Answered
    /\ UNCHANGED <<exists, tracks, runs, playlist, task, fetches, budgets>>

\* The link is written for the id of that row; without the row the foreign
\* key fails, and so does the task.
SaveMatch ==
    /\ manual.st = "matching"
    /\ tracks' = [i \in DOMAIN tracks |->
                     IF i = manual.row THEN [tracks[i] EXCEPT !.link = manual.item]
                     ELSE tracks[i]]
    /\ Answered
    /\ UNCHANGED <<exists, runs, playlist, task, fetches, budgets>>

\* No rule finds anything, or an error, which is not retried.
NoMatch ==
    /\ manual.st = "matching"
    /\ Answered
    /\ UNCHANGED <<exists, tracks, runs, playlist, task, fetches, budgets>>

\* The worker dies, and the message comes again.
MatchLost ==
    /\ manual.st = "matching"
    /\ manual' = [manual EXCEPT !.st = "asked", !.row = 0]
    /\ UNCHANGED <<exists, tracks, runs, playlist, task, fetches, budgets>>

ManualStep ==
    \/ \E item \in Items : AskMatch(item)
    \/ ReadTrack \/ SaveMatch \/ NoMatch \/ MatchLost

-----------------------------------------------------------------------------
(* Outside the child *)

\* A fetch while a child of this target is under way.
Overlap ==
    IF \E t \in Tasks : Active(t)
    THEN Trouble /\ overlaps' = overlaps + 1 /\ UNCHANGED <<faults, refusals>>
    ELSE UNCHANGED budgets

\* A parent fetches the source and enqueues the child of this target; the
\* dispatch lock keeps other runs away, except for the runs it does not cover.
Fetch(t, exec, source) ==
    /\ task[t].st = "absent"
    /\ Overlap
    /\ IF exists /\ source # <<>>
       THEN /\ tracks' = Refetched(source) /\ fetched' = exec
            /\ RowsReplaced(Len(source))
            /\ task' = [task EXCEPT ![t] = NewTask("queued", exec, source)]
       ELSE /\ UNCHANGED <<tracks, single>>
            /\ task' = [task EXCEPT ![t] = NewTask("over", exec, <<>>)]
    /\ UNCHANGED <<exists, runs, playlist>>

\* A parent whose target_ids do not name this target: a run started by hand for
\* another one, or any run once this one was taken off the schedule.
FetchElsewhere(source) ==
    /\ exists /\ source # <<>>
    /\ Overlap
    /\ tracks' = Overwritten(source) /\ fetched' = Elsewhere
    /\ RowsReplaced(Len(source))
    /\ UNCHANGED <<exists, runs, playlist, task>>

\* A scheduled dispatch finds the lock taken and records a failed run.
RefuseDispatch ==
    /\ exists /\ Trouble
    /\ refusals' = refusals + 1
    /\ runs' = Append(runs, NewRun(Refusal, "failed", {}))
    /\ UNCHANGED <<exists, tracks, playlist, task, faults, overlaps>>

\* The schedule is deleted: its tracks and runs go with it (ON DELETE CASCADE).
DeleteSync ==
    /\ exists
    /\ exists' = FALSE /\ tracks' = <<>> /\ runs' = <<>>
    /\ RowsReplaced(0)
    /\ UNCHANGED <<playlist, task, fetched, budgets>>

\* A publication cut short leaves the playlist anywhere between the old and the
\* new content, both of them included.
CutShort(t) ==
    IF task[t].st = "publishing" /\ task[t].out # {}
    THEN playlist' \in SUBSET (playlist \cup task[t].out)
    ELSE UNCHANGED playlist

\* The worker dies, at the latest before the message is acknowledged: the
\* transaction rolls back and the message comes again.
WorkerLost(t) ==
    /\ task[t].st \in Working
    /\ Fault
    /\ CutShort(t)
    /\ task' = [task EXCEPT ![t] = [@ EXCEPT !.st = "queued", !.reuse = FALSE, !.out = {}]]
    /\ UNCHANGED <<exists, tracks, runs>>

\* The child is killed at its hard time limit, or revoked with terminate by a
\* deletion whose commit then fails: the transaction rolls back, no handler of
\* the task runs, and the message is gone (task_acks_on_failure_or_timeout).
Killed(t) ==
    /\ task[t].st \in Working \cup {"queued"}
    /\ Fault
    /\ CutShort(t)
    /\ Ends(t, "lost")
    /\ UNCHANGED <<exists, tracks, runs>>

-----------------------------------------------------------------------------
(* The steps of a child *)

\* _verify_target_connection fails: the run is recorded failed, no retry.  An
\* error while recording it is swallowed.
ConnectionFails(t) ==
    LET live == LiveRows(task[t].exec) IN
    /\ task[t].st = "queued"
    /\ UNCHANGED <<exists, tracks, playlist>>
    /\ \/ /\ \/ ~exists /\ UNCHANGED runs
             \/ exists /\ live = {} /\ runs' = Append(runs, NewRun(task[t].exec, "failed", {}))
             \/ \E i \in live : runs' = [runs EXCEPT ![i].status = "failed"]
          /\ Ends(t, "over")
          /\ UNCHANGED budgets
       \/ UNCHANGED runs /\ Ends(t, "lost") /\ Fault

\* _ensure_sync_run, the reads: the sync, then the row to reuse.  With more
\* than one row to reuse the query raises (scalar_one_or_none): StepRaises.
LookForRun(t) ==
    LET live == LiveRows(task[t].exec) IN
    /\ task[t].st = "queued"
    /\ \/ ~exists /\ Ends(t, "over")
       \/ /\ exists /\ Cardinality(live) <= 1
          /\ task' = [task EXCEPT ![t] = [@ EXCEPT !.st = "ensuring", !.reuse = live # {}]]
    /\ UNCHANGED <<exists, tracks, runs, playlist, budgets>>

\* _ensure_sync_run, the insert: a new row with a copy of the tracks.
EnsureRun(t) ==
    /\ task[t].st = "ensuring"
    /\ exists \/ task[t].reuse   \* a new row needs the sync (foreign key)
    /\ runs' = IF task[t].reuse THEN runs
               ELSE Append(runs, NewRun(task[t].exec, "running",
                                        {tracks[i].item : i \in DOMAIN tracks}))
    /\ Goes(t, "matching")
    /\ UNCHANGED <<exists, tracks, playlist, budgets>>

\* MatchPhase, one transaction.  What the rules find may differ every time.
Match(t, hits) ==
    /\ task[t].st = "matching"
    /\ CanHit(task[t].items, hits) /\ tracks' = Matched(hits)
    /\ Goes(t, "finalizing")
    /\ UNCHANGED <<exists, runs, playlist, budgets>>

\* mutant: a finalized row keeps its running status.
FinalizeLeavesRunning(t) ==
    /\ task[t].st = "finalizing"
    /\ runs' = IF runs = <<>> THEN runs
               ELSE [LatestCompleted EXCEPT ![Len(runs)].status = runs[Len(runs)].status]
    /\ task' = [task EXCEPT ![t] = [@ EXCEPT !.st = "publishing", !.out = Links]]
    /\ UNCHANGED <<exists, tracks, playlist, budgets>>

\* FinalizePhase, its transaction: completed, history, the items to publish.  A
\* snapshot that does not fit rolls it back: StepRaises.
Finalize(t) ==
    /\ task[t].st = "finalizing"
    /\ runs # <<>> => Fits(runs[Len(runs)])
    /\ runs' = LatestCompleted
    /\ task' = [task EXCEPT ![t] = [@ EXCEPT !.st = "publishing", !.out = Links]]
    /\ UNCHANGED <<exists, tracks, playlist, budgets>>

\* mutant: only what the playlist lacks is written, stale items stay.
PublishAddsOnly(t) ==
    /\ task[t].st = "publishing"
    /\ playlist' = playlist \cup task[t].out
    /\ Ends(t, "published")
    /\ UNCHANGED <<exists, tracks, runs, budgets>>

\* PlaylistSync.sync updates a playlist it could read, or creates one with all
\* the items, or has nothing to write.
Publish(t) ==
    /\ task[t].st = "publishing"
    /\ playlist' = IF task[t].out = {} THEN playlist ELSE task[t].out
    /\ Ends(t, "published")
    /\ UNCHANGED <<exists, tracks, runs, budgets>>

\* get_items_in_playlist answers [] on an error: the update takes the playlist
\* for empty, removes nothing, adds every item and reports success.
PublishUnread(t) ==
    /\ task[t].st = "publishing" /\ task[t].out # {}
    /\ playlist' = playlist \cup task[t].out
    /\ Ends(t, "added")
    /\ UNCHANGED <<exists, tracks, runs, budgets>>

\* Plex's create_playlist puts the first item in and ignores how many of the
\* others could be added.
PublishShort(t) ==
    /\ task[t].st = "publishing"
    /\ \E some \in SUBSET task[t].out \ {{}} : playlist' = some
    /\ Ends(t, "short")
    /\ UNCHANGED <<exists, tracks, runs, budgets>>

\* create_playlist answers None: nothing raises, the task succeeds.
PublishSilentlyFails(t) ==
    /\ task[t].st = "publishing" /\ task[t].out # {}
    /\ Ends(t, "over")
    /\ UNCHANGED <<exists, tracks, runs, playlist, budgets>>

\* An error of any step.
StepRaises(t) ==
    /\ task[t].st \in Working \cup {"queued"}
    /\ CutShort(t)
    /\ Fails(t)
    /\ UNCHANGED <<exists, tracks>>

ChildStep(t) ==
    \/ ConnectionFails(t) \/ LookForRun(t) \/ EnsureRun(t)
    \/ \E hits \in SUBSET DOMAIN tracks : Match(t, hits)
    \/ Finalize(t)
    \/ Publish(t) \/ PublishUnread(t) \/ PublishShort(t) \/ PublishSilentlyFails(t)
    \/ StepRaises(t)

FetchStep ==
    \/ \E t \in Tasks, exec \in Execs, source \in Sources : Fetch(t, exec, source)
    \/ \E source \in Sources : FetchElsewhere(source)

OtherStep ==
    \/ DeleteSync \/ ManualStep
    \/ RefuseDispatch /\ UNCHANGED single
    \/ \E t \in Tasks : (WorkerLost(t) \/ Killed(t) \/ ChildStep(t)) /\ UNCHANGED single

Next == FetchStep \/ OtherStep

Spec == Init /\ [][Next]_vars

-----------------------------------------------------------------------------
(* Properties *)

Serial == overlaps = 0

\* Nothing has left an earlier row running: such a row is reused by a message of
\* its execution that comes again later, although it is not the latest, and what
\* the later attempt does is then written into another run's row.
Orderly == Serial /\ refusals = 0 /\ \A t \in Tasks : task[t].st # "lost"

\* A row is "running" only while a task of its execution is at work on it (a
\* row left running shows a sync in progress for ever).  Tasks mark the LATEST
\* row completed or failed (phases.py 420-432, tasks.py 453-467), so this rests
\* on the row order.  What breaks it: a task of its execution that ended without
\* a record (killed at the hard time limit, app.py 114-116; revoked by a deletion
\* that failed; its last failure record lost), a refused dispatch that put its
\* row above, or a second row of an overlapping run.
RunsSettle ==
    \A i \in DOMAIN runs : runs[i].status = "running" =>
        \/ \E t \in Tasks : task[t].exec = runs[i].exec /\ (Active(t) \/ task[t].st = "lost")
        \/ refusals > 0 /\ i < Len(runs)
        \/ ~Serial /\ Len(runs) > 1

\* No attempt is refused its snapshot because an earlier one wrote the history of
\* the row it finalizes: whatever failed or was redelivered, a task at
\* finalization finds on top a row of its own execution that is still running
\* and has no history (pipeline.py 125-160, phases.py 434-482).  An attempt that
\* found another row would meet uq_sync_run_track_target (models.py 349-351)
\* on every retry, and the run could never complete.
SnapshotsFit ==
    Orderly => \A t \in Tasks : task[t].st = "finalizing" /\ runs # <<>> =>
        LET row == runs[Len(runs)] IN
        row.exec = task[t].exec /\ row.status = "running" /\ row.history = {}

\* A track never carries the match made for the track that held its position
\* before: fetching reuses rows by position and clears their links
\* (phases.py 197-241).  Without overlapping runs there are two ways to get
\* there: a match by hand that read the row before a fetch and writes after it,
\* and a fetch for other targets, which keeps this target's links (until the
\* next fetch for this one, which clears them all).
LinksMatchTracks ==
    (Serial /\ ~crossed /\ fetched # Elsewhere) =>
        \A i \in DOMAIN tracks : tracks[i].link \in {tracks[i].item, NoLink}

\* When the tasks of an execution have ended well and its row is the latest, its
\* history tells what is on the target, whatever attempts came before
\* (phases.py 398-418): the history is committed before the playlist is written,
\* and a lost worker or an error can fall between.  Nothing recorded is missing
\* unless additions to a new playlist failed, and nothing else is there unless
\* a playlist that could not be read was only added to (plex/playlist.py 119-121
\* and 314-316, jellyfin/playlist.py 165-167); with neither, both are equal.
PublishedIsRecorded ==
    LET last == runs[Len(runs)]
        recorded == {h.link : h \in last.history}
        AllIn(ends) == \A t \in Tasks : task[t].exec = last.exec => task[t].st \in ends
    IN (Orderly /\ runs # <<>> /\ last.status = "completed" /\ recorded # {}) =>
           /\ AllIn({"published", "added"}) => recorded \subseteq playlist
           /\ AllIn({"published", "short"}) => playlist \subseteq recorded
=============================================================================
