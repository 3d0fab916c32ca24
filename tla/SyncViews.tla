------------------------------ MODULE SyncViews ------------------------------
(***************************************************************************)
(* What the API tells about the runs of SyncRuns: the schedule list        *)
(* (api/schedules.py), the history, the pipeline, the diff of two runs     *)
(* (api/syncs/history.py and helpers.py) and the tracks                    *)
(* (api/syncs/tracks.py).  Every endpoint works out its answer from the    *)
(* rows as it finds them.                                                  *)
(*                                                                         *)
(* Only the pipeline needs one more thing, the record of the last fetch    *)
(* that the parent task keeps in Valkey.  It is written before and after   *)
(* the fetch, also by a fetch that fails or that is for other targets,     *)
(* every write and read of it is best effort, and it expires: what the     *)
(* pipeline finds there is any execution or none (sync_tasks.py 160-216).  *)
(*                                                                         *)
(* An endpoint answers a user about a sync of his own; any other is "not   *)
(* found", as is a deleted one.                                            *)
(***************************************************************************)
EXTENDS SyncRuns, SequencesExt

CONSTANT NoPhase  \* nothing recorded, or the record cannot be read
ASSUME NoPhaseAssumption == NoPhase \notin Execs \cup {Refusal, Elsewhere}

\* execution_id of the fetch phase as get_fetch_phase_async may answer it
Phases == Execs \cup {Elsewhere, NoPhase}

-----------------------------------------------------------------------------
(* Rows by id.  An id is the position of its row; 0 asks for no row. *)

AttemptsOf(exec) == {i \in DOMAIN runs : runs[i].exec = exec}

\* Mutant of NewestRun: the first attempt of the target is kept.
OldestRun(rows) == {i \in rows : \A j \in rows : i <= j}

\* _newest_run_per_target: every attempt that failed left a row of its own.
NewestRun(rows) == {i \in rows : \A j \in rows : j <= i}

\* _select_execution: the runs shown with the selected one.
SelectExecution(id) ==
    IF id \in DOMAIN runs THEN NewestRun(AttemptsOf(runs[id].exec)) ELSE {}

\* GET pipeline: with a run id, its execution; without, every run of the
\* execution whose fetch is recorded.
PipelineRuns(id, phase) == IF id # 0 THEN SelectExecution(id) ELSE AttemptsOf(phase)

\* The fetch is the recorded one, or is taken from the runs.
FetchShown(id, phase) ==
    \/ phase # NoPhase /\ (id = 0 \/ runs[id].exec = phase)
    \/ PipelineRuns(id, phase) # {}

\* GET schedules and GET schedules/{id}: a sync is shown running while one of
\* its rows is; there is no other status.
ShownRunning == \E i \in DOMAIN runs : runs[i].status = "running"

ScheduleShown == IF ~exists THEN "not found" ELSE IF ShownRunning THEN "running" ELSE "idle"

\* GET history: every row, the newest first.
HistoryPage == IF exists THEN Reverse(runs) ELSE <<>>

-----------------------------------------------------------------------------
(* The diff of two runs *)

ItemsMatched(id) == {h.item : h \in runs[id].history}

\* Tracks that are new, or matched now and not before.
DiffAdded(from, to) ==
    (runs[to].batch \ runs[from].batch) \cup (ItemsMatched(to) \ ItemsMatched(from))

\* Tracks that are gone, or matched before and not now.
DiffRemoved(from, to) ==
    (runs[from].batch \ runs[to].batch) \cup (ItemsMatched(from) \ ItemsMatched(to))

-----------------------------------------------------------------------------
(* The tracks *)

\* _build_track_response: the two lists of the tracks page.
MatchedRows == {i \in DOMAIN tracks : tracks[i].link # NoLink}
UnmatchedRows == DOMAIN tracks \ MatchedRows

\* GET unmatched-tracks: the first `limit' rows in the order of the playlist.
UnmatchedTracks(limit) ==
    {i \in UnmatchedRows : Cardinality({j \in UnmatchedRows : j <= i}) <= limit}

-----------------------------------------------------------------------------
(* Properties *)

Newest == Len(runs)

\* The tracks are those the last run fetched, which has ended well, and nobody
\* has matched a track by hand.
Settled ==
    /\ runs # <<>> /\ runs[Newest].status = "completed" /\ runs[Newest].exec = fetched
    /\ Serial /\ manual.n = 0
    /\ \A t \in Tasks : task[t].exec = fetched => task[t].st \in Successful

\* The last run has also written the playlist whole.
Exact == \A t \in Tasks : task[t].exec = fetched => task[t].st = "published"

\* Once a run has settled the pages tell one story, whatever attempts failed or
\* were repeated on the way.  Whatever is recorded of a fetch, the pipeline of
\* any attempt shows the completed row alone and its fetch done, and so does,
\* among the other attempts, the page without a run id if it is this fetch.  The
\* schedule is not shown running (unless a refused dispatch or a task that ended
\* without a record left an earlier row behind); the tracks page lists as matched
\* what the top row of the history has; and, when the playlist was written whole,
\* the diff from any earlier completed run says what changed on the target
\* (history.py 36-234, helpers.py 64-186, tracks.py 111-148).
ViewsAgree ==
    Settled =>
        /\ \A phase \in Phases : \A i \in AttemptsOf(fetched) :
               PipelineRuns(i, phase) = {Newest} /\ FetchShown(i, phase)
        /\ Newest \in PipelineRuns(0, fetched)
        /\ \/ ScheduleShown = "idle"
           \/ refusals > 0 \/ \E t \in Tasks : task[t].st = "lost"
        /\ {tracks[i].item : i \in MatchedRows} = {h.item : h \in Head(HistoryPage).history}
        /\ (Exact /\ runs[Newest].history # {}) =>
               \A from \in 1..(Newest - 1) : runs[from].status = "completed" =>
                   playlist = (ItemsMatched(from) \ DiffRemoved(from, Newest))
                              \cup (ItemsMatched(Newest) \cap DiffAdded(from, Newest))
=============================================================================
