-------------------------- MODULE SyncRuns_proofs --------------------------
(***************************************************************************)
(* Proofs about SyncRuns and SyncViews, for any tasks, executions, items,  *)
(* sources and budgets: types, that no track shows the match of another,   *)
(* that no row is left running, that every attempt finds a row of its own  *)
(* to finalize, that the history tells what is on the playlist, and that   *)
(* the pages of the history and of the tracks tell one story.              *)
(*                                                                         *)
(* Linked is inductive for the links.  For the rows the actions are first  *)
(* reduced to what they do to them (OfAKind); SettleInv then follows the   *)
(* one row that the tasks of an execution work on in turn.  ViewInv adds   *)
(* to both what the rows, tracks and histories have in common.             *)
(***************************************************************************)
EXTENDS SyncViews, TLAPS

USE RefusalAssumption, LinkAssumption, SourcesAssumption, RunBoundsAssumption,
    ElsewhereAssumption

-----------------------------------------------------------------------------
(* Rows and tasks keep their types *)

\* A new row is a row.
LEMMA NewRunType ==
    ASSUME NEW exec \in Execs \cup {Refusal}, NEW batch \in SUBSET Items,
           NEW status \in {"running", "completed", "failed"}
    PROVE  NewRun(exec, status, batch) \in RunRow
  BY DEF NewRun, RunRow

\* Appending it keeps the rows.
LEMMA AppendedRuns ==
    ASSUME TypeOK, NEW exec \in Execs \cup {Refusal}, NEW batch \in SUBSET Items,
           NEW status \in {"running", "completed", "failed"}
    PROVE  Append(runs, NewRun(exec, status, batch)) \in Seq(RunRow)
<1>1. runs \in Seq(RunRow) /\ NewRun(exec, status, batch) \in RunRow
  BY NewRunType DEF TypeOK
<1> QED
  BY <1>1

\* Marking a row failed keeps the rows.
LEMMA FailedRow ==
    ASSUME TypeOK, NEW i \in DOMAIN runs
    PROVE  [runs EXCEPT ![i].status = "failed"] \in Seq(RunRow)
<1>1. runs \in Seq(RunRow) /\ runs[i] \in RunRow
  BY DEF TypeOK
<1>2. [runs[i] EXCEPT !.status = "failed"] \in RunRow
  BY <1>1 DEF RunRow
<1> QED
  BY <1>1, <1>2

LEMMA FailedRuns ==
    ASSUME TypeOK
    PROVE  LatestFailed \in Seq(RunRow)
<1>1. CASE runs = <<>>
  BY <1>1 DEF LatestFailed, TypeOK
<1>2. CASE runs # <<>>
  <2>1. Len(runs) \in DOMAIN runs
    BY <1>2 DEF TypeOK
  <2> QED
    BY <1>2, <2>1, FailedRow DEF LatestFailed
<1> QED
  BY <1>1, <1>2

\* The history taken from the links is a set of pairs.
LEMMA SnapshotType ==
    ASSUME TypeOK, NEW batch
    PROVE  Snapshot(batch) \in SUBSET Pairs
<1>1. \A i \in DOMAIN tracks : tracks[i] \in TrackRow
  BY DEF TypeOK
<1> QED
  BY <1>1 DEF Snapshot, Pairs, TrackRow

\* Completing the latest row keeps the rows.
LEMMA CompletedRuns ==
    ASSUME TypeOK
    PROVE  LatestCompleted \in Seq(RunRow)
<1>1. CASE runs = <<>>
  BY <1>1 DEF LatestCompleted, TypeOK
<1>2. CASE runs # <<>>
  <2> DEFINE row == runs[Len(runs)]
  <2>1. Len(runs) \in DOMAIN runs /\ runs \in Seq(RunRow) /\ row \in RunRow
    BY <1>2 DEF TypeOK
  <2>2. CompletedRow(row) \in RunRow
    <3>1. row.history \cup Snapshot(row.batch) \in SUBSET Pairs
      BY <2>1, SnapshotType DEF RunRow
    <3> QED
      BY <2>1, <3>1 DEF CompletedRow, RunRow
  <2> HIDE DEF row
  <2> QED
    BY <1>2, <2>1, <2>2 DEF LatestCompleted, row
<1> QED
  BY <1>1, <1>2

\* A new message, or what is left of an ended one, is a task.
LEMMA NewTaskType ==
    ASSUME NEW st \in States, NEW exec \in Execs \cup {Refusal}, NEW items \in Seq(Items)
    PROVE  NewTask(st, exec, items) \in ChildTask
  BY DEF NewTask, ChildTask

\* A task that moves on, ends or is retried is a task.
LEMMA TaskMoves ==
    ASSUME TypeOK, NEW t \in Tasks, NEW st \in States,
           Goes(t, st) \/ Ends(t, st) \/ RetryOr(t, st)
    PROVE  task' \in [Tasks -> ChildTask]
<1>1. task \in [Tasks -> ChildTask] /\ task[t] \in ChildTask
  BY DEF TypeOK
<1>2. [task[t] EXCEPT !.st = st] \in ChildTask
  BY <1>1 DEF ChildTask
<1>3. NewTask(st, task[t].exec, <<>>) \in ChildTask
  <2>1. task[t].exec \in Execs \cup {Refusal}
    BY <1>1 DEF ChildTask
  <2>2. <<>> \in Seq(Items)
    OBVIOUS
  <2> QED
    BY <2>1, <2>2, NewTaskType
<1>4. task[t].tries < MaxRetries =>
          [task[t] EXCEPT !.st = "queued", !.tries = task[t].tries + 1] \in ChildTask
  <2>1. "queued" \in States
    BY DEF States
  <2>2. task[t].tries < MaxRetries => task[t].tries + 1 \in 0..MaxRetries
    BY <1>1 DEF ChildTask
  <2> QED
    BY <1>1, <2>1, <2>2 DEF ChildTask
<1>5. CASE Goes(t, st)
  BY <1>1, <1>2, <1>5 DEF Goes
<1>6. CASE Ends(t, st)
  BY <1>1, <1>3, <1>6 DEF Ends
<1>7. CASE RetryOr(t, st)
  BY <1>1, <1>3, <1>4, <1>7 DEF RetryOr, Ends
<1> QED
  BY <1>5, <1>6, <1>7

\* What a step may take from the budgets.
LEMMA BudgetTypes ==
    ASSUME TypeOK, Fault \/ Overlap \/ UNCHANGED budgets, manual'.n = manual.n
    PROVE  /\ faults' \in Nat /\ refusals' \in Nat /\ overlaps' \in Nat
           /\ manual'.n + faults' + refusals' + overlaps' <= MaxTroubles
<1>1. manual.n \in Nat
  BY DEF TypeOK, ManualMatch
<1>2. CASE UNCHANGED budgets
  BY <1>1, <1>2 DEF budgets, TypeOK
<1>3. CASE Fault
  BY <1>1, <1>3 DEF Fault, Trouble, TypeOK
<1>4. CASE Overlap
  BY <1>1, <1>2, <1>4 DEF Overlap, Trouble, TypeOK
<1> QED
  BY <1>2, <1>3, <1>4

\* What a failing task may do.
LEMMA FailsTypes ==
    ASSUME TypeOK, NEW t \in Tasks, Fails(t)
    PROVE  /\ runs' \in Seq(RunRow) /\ task' \in [Tasks -> ChildTask]
           /\ Fault \/ UNCHANGED budgets
<1>1. "over" \in States /\ "lost" \in States
  BY DEF States, Ended, Successful
<1>2. RetryOr(t, "over") \/ RetryOr(t, "lost")
  BY DEF Fails
<1>3. task' \in [Tasks -> ChildTask]
  BY <1>1, <1>2, TaskMoves
<1>4. runs' \in Seq(RunRow)
  BY FailedRuns DEF Fails, TypeOK
<1> QED
  BY <1>3, <1>4 DEF Fails

\* A publication cut short leaves items.
LEMMA CutTypes ==
    ASSUME TypeOK, NEW t \in Tasks, CutShort(t)
    PROVE  playlist' \subseteq Items
<1>1. task[t].out \subseteq Items
  BY DEF TypeOK, ChildTask
<1> QED
  BY <1>1 DEF CutShort, TypeOK

\* The rows of a new fetch are rows.
LEMMA RefetchedTypes ==
    ASSUME TypeOK, NEW source \in Sources, source # <<>>
    PROVE  /\ Refetched(source) \in Seq(TrackRow)
           /\ Len(Refetched(source)) = Len(source) /\ Len(source) \in Nat
           /\ \A i \in DOMAIN Refetched(source) : Refetched(source)[i].link = NoLink
<1>1. source \in Seq(Items) /\ Len(source) \in Nat /\ DOMAIN source = 1..Len(source)
  OBVIOUS
<1>2. \A i \in 1..Len(source) : [item |-> source[i], link |-> NoLink] \in TrackRow
  BY <1>1 DEF TrackRow
<1>3. Refetched(source) = [i \in 1..Len(source) |-> [item |-> source[i], link |-> NoLink]]
  BY <1>1 DEF Refetched
<1> QED
  BY <1>1, <1>2, <1>3

LEMMA OverwrittenTypes ==
    ASSUME TypeOK, NEW source \in Sources, source # <<>>
    PROVE  /\ Overwritten(source) \in Seq(TrackRow)
           /\ Len(Overwritten(source)) = Len(source) /\ Len(source) \in Nat
<1> DEFINE link(i) == IF i \in DOMAIN tracks THEN tracks[i].link ELSE NoLink
<1>1. source \in Seq(Items) /\ Len(source) \in Nat /\ DOMAIN source = 1..Len(source)
  OBVIOUS
<1>2. \A i \in DOMAIN tracks : tracks[i] \in TrackRow
  BY DEF TypeOK
<1>3. \A i \in 1..Len(source) : link(i) \in Items \cup {NoLink}
  BY <1>2 DEF TrackRow
<1>4. Overwritten(source) = [i \in 1..Len(source) |-> [item |-> source[i], link |-> link(i)]]
  BY <1>1 DEF Overwritten
<1> HIDE DEF link
<1>5. \A i \in 1..Len(source) : [item |-> source[i], link |-> link(i)] \in TrackRow
  BY <1>1, <1>3 DEF TrackRow
<1> QED
  BY <1>1, <1>4, <1>5

\* A sequence whose rows are replaced one by one by rows.
LEMMA RewrittenTracks ==
    ASSUME TypeOK, NEW T, DOMAIN T = DOMAIN tracks,
           T = [i \in DOMAIN tracks |-> T[i]], \A i \in DOMAIN tracks : T[i] \in TrackRow
    PROVE  T \in Seq(TrackRow) /\ Len(T) = Len(tracks)
<1>1. tracks \in Seq(TrackRow) /\ Len(tracks) \in Nat /\ DOMAIN tracks = 1..Len(tracks)
  BY DEF TypeOK
<1>2. T \in [1..Len(tracks) -> TrackRow]
  BY <1>1
<1> QED
  BY <1>1, <1>2

LEMMA MatchedTypes ==
    ASSUME TypeOK, NEW hits
    PROVE  /\ Matched(hits) \in Seq(TrackRow)
           /\ Len(Matched(hits)) = Len(tracks)
           /\ DOMAIN Matched(hits) = DOMAIN tracks
           /\ \A i \in DOMAIN tracks :
                  /\ Matched(hits)[i].item = tracks[i].item
                  /\ Matched(hits)[i].link \in {tracks[i].link, tracks[i].item}
<1> DEFINE T == Matched(hits)
<1>1. \A i \in DOMAIN tracks : tracks[i] \in TrackRow
  BY DEF TypeOK
<1>2. /\ DOMAIN T = DOMAIN tracks
      /\ \A i \in DOMAIN tracks :
             T[i] = tracks[i] \/ T[i] = [tracks[i] EXCEPT !.link = tracks[i].item]
  BY DEF Matched
<1>3. \A i \in DOMAIN tracks :
          T[i] \in TrackRow /\ T[i].item = tracks[i].item
          /\ T[i].link \in {tracks[i].link, tracks[i].item}
  BY <1>1, <1>2 DEF TrackRow
<1>4. T = [i \in DOMAIN tracks |-> T[i]]
  BY DEF Matched
<1> HIDE DEF T
<1> QED
  BY <1>2, <1>3, <1>4, RewrittenTracks DEF T

\* What a match by hand writes.
LEMMA SavedTypes ==
    ASSUME TypeOK, SaveMatch
    PROVE  /\ tracks' \in Seq(TrackRow) /\ Len(tracks') = Len(tracks)
           /\ \A i \in DOMAIN tracks' :
                  /\ i \in DOMAIN tracks
                  /\ tracks'[i].item = tracks[i].item
                  /\ \/ tracks'[i].link = tracks[i].link
                     \/ i = manual.row /\ tracks'[i].link = manual.item
<1>1. \A i \in DOMAIN tracks : tracks[i] \in TrackRow
  BY DEF TypeOK
<1>2. manual.item \in Items \cup {NoLink}
  BY DEF TypeOK, ManualMatch
<1>3. /\ DOMAIN tracks' = DOMAIN tracks
      /\ tracks' = [i \in DOMAIN tracks |-> tracks'[i]]
      /\ \A i \in DOMAIN tracks :
             \/ tracks'[i] = tracks[i]
             \/ i = manual.row /\ tracks'[i] = [tracks[i] EXCEPT !.link = manual.item]
  BY DEF SaveMatch
<1>4. \A i \in DOMAIN tracks :
          /\ tracks'[i] \in TrackRow /\ tracks'[i].item = tracks[i].item
          /\ \/ tracks'[i].link = tracks[i].link
             \/ i = manual.row /\ tracks'[i].link = manual.item
  <2> TAKE i \in DOMAIN tracks
  <2>1. tracks[i] \in TrackRow
    BY <1>1
  <2>2. CASE tracks'[i] = tracks[i]
    BY <2>1, <2>2
  <2>3. CASE i = manual.row /\ tracks'[i] = [tracks[i] EXCEPT !.link = manual.item]
    <3>1. tracks'[i].item = tracks[i].item /\ tracks'[i].link = manual.item
      BY <2>1, <2>3 DEF TrackRow
    <3>2. tracks'[i] \in TrackRow
      BY <1>2, <2>1, <2>3 DEF TrackRow
    <3> QED
      BY <2>3, <3>1, <3>2
  <2> QED
    BY <1>3, <2>2, <2>3
<1>5. \A T : DOMAIN T = DOMAIN tracks /\ T = [i \in DOMAIN tracks |-> T[i]]
             /\ (\A i \in DOMAIN tracks : T[i] \in TrackRow)
             => T \in Seq(TrackRow) /\ Len(T) = Len(tracks)
  BY RewrittenTracks
<1>6. tracks' \in Seq(TrackRow) /\ Len(tracks') = Len(tracks)
  BY <1>3, <1>4, <1>5
<1> QED
  BY <1>3, <1>4, <1>6

-----------------------------------------------------------------------------
(* Every step keeps the types *)

LEMMA TypesInit ==
    Init => TypeOK
<1> SUFFICES ASSUME Init PROVE TypeOK
  OBVIOUS
<1>1. <<>> \in Seq(Items) /\ <<>> \in Seq(TrackRow) /\ <<>> \in Seq(RunRow) /\ Len(<<>>) = 0
  OBVIOUS
<1>2. NewTask("absent", Refusal, <<>>) \in ChildTask
  BY <1>1, NewTaskType DEF States
<1>3. task \in [Tasks -> ChildTask]
  BY <1>2 DEF Init
<1>4. manual \in ManualMatch /\ manual.row = 0 /\ manual.n = 0
  BY DEF Init, ManualMatch
<1>5. /\ faults \in Nat /\ refusals \in Nat /\ overlaps \in Nat
      /\ manual.n + faults + refusals + overlaps <= MaxTroubles
  BY <1>4 DEF Init
<1>6. tracks \in Seq(TrackRow) /\ runs \in Seq(RunRow) /\ Len(tracks) = 0
  BY <1>1 DEF Init
<1>7. /\ exists \in BOOLEAN /\ crossed \in BOOLEAN /\ fetched \in Execs \cup {Elsewhere}
      /\ playlist \subseteq Items
  BY DEF Init
<1> QED
  BY <1>3, <1>4, <1>5, <1>6, <1>7 DEF TypeOK

LEMMA ReplacedTypes ==
    ASSUME TypeOK, NEW count \in Nat, RowsReplaced(count)
    PROVE  /\ manual' \in ManualMatch /\ manual'.row <= count /\ manual'.n = manual.n
           /\ manual'.st = manual.st /\ crossed' \in BOOLEAN
<1>1. manual \in ManualMatch /\ manual.row \in Nat
  BY DEF TypeOK, ManualMatch
<1>2. manual' \in ManualMatch /\ manual'.n = manual.n /\ manual'.st = manual.st
  BY <1>1 DEF RowsReplaced, ManualMatch
<1>3. manual'.row = IF manual.row > count THEN 0 ELSE manual.row
  BY <1>1 DEF RowsReplaced, ManualMatch
<1>4. crossed' \in BOOLEAN
  BY DEF RowsReplaced
<1> QED
  BY <1>1, <1>2, <1>3, <1>4

LEMMA FetchTypes ==
    ASSUME TypeOK, NEW t \in Tasks, NEW exec \in Execs, NEW source \in Sources,
           Fetch(t, exec, source)
    PROVE  TypeOK'
<1>1. Overlap /\ UNCHANGED <<exists, runs, playlist>>
  BY DEF Fetch
<1>2. CASE exists /\ source # <<>>
  <2>1. task' = [task EXCEPT ![t] = NewTask("queued", exec, source)]
        /\ fetched' \in Execs \cup {Elsewhere}
    BY <1>2 DEF Fetch
  <2>2. NewTask("queued", exec, source) \in ChildTask
    BY NewTaskType DEF States
  <2>3. tracks' \in Seq(TrackRow) /\ Len(tracks') = Len(source) /\ Len(source) \in Nat
    BY <1>2, RefetchedTypes DEF Fetch
  <2>4. /\ manual' \in ManualMatch /\ manual'.row <= Len(source) /\ crossed' \in BOOLEAN
        /\ manual'.n = manual.n
    BY <1>2, <2>3, ReplacedTypes DEF Fetch
  <2>5. /\ faults' \in Nat /\ refusals' \in Nat /\ overlaps' \in Nat
        /\ manual'.n + faults' + refusals' + overlaps' <= MaxTroubles
    BY <1>1, <2>4, BudgetTypes
  <2> QED
    BY <1>1, <2>1, <2>2, <2>3, <2>4, <2>5 DEF TypeOK
<1>3. CASE ~(exists /\ source # <<>>)
  <2>1. task' = [task EXCEPT ![t] = NewTask("over", exec, <<>>)]
    BY <1>3 DEF Fetch
  <2>2. <<>> \in Seq(Items)
    OBVIOUS
  <2>3. NewTask("over", exec, <<>>) \in ChildTask
    BY <2>2, NewTaskType DEF States, Ended
  <2>4. UNCHANGED <<tracks, manual, crossed, fetched>>
    BY <1>3 DEF Fetch, single, fetches
  <2>5. /\ faults' \in Nat /\ refusals' \in Nat /\ overlaps' \in Nat
        /\ manual'.n + faults' + refusals' + overlaps' <= MaxTroubles
    BY <1>1, <2>4, BudgetTypes
  <2> QED
    BY <1>1, <2>1, <2>3, <2>4, <2>5 DEF TypeOK
<1> QED
  BY <1>2, <1>3

LEMMA ElsewhereTypes ==
    ASSUME TypeOK, NEW source \in Sources, FetchElsewhere(source)
    PROVE  TypeOK'
<1>1. /\ Overlap /\ UNCHANGED <<exists, runs, playlist, task>>
      /\ tracks' = Overwritten(source) /\ fetched' = Elsewhere /\ RowsReplaced(Len(source))
  BY DEF FetchElsewhere
<1>2. tracks' \in Seq(TrackRow) /\ Len(tracks') = Len(source) /\ Len(source) \in Nat
  BY <1>1, OverwrittenTypes DEF FetchElsewhere
<1>3. /\ manual' \in ManualMatch /\ manual'.row <= Len(source) /\ crossed' \in BOOLEAN
      /\ manual'.n = manual.n
  BY <1>1, <1>2, ReplacedTypes
<1>4. /\ faults' \in Nat /\ refusals' \in Nat /\ overlaps' \in Nat
      /\ manual'.n + faults' + refusals' + overlaps' <= MaxTroubles
  BY <1>1, <1>3, BudgetTypes
<1> QED
  BY <1>1, <1>2, <1>3, <1>4 DEF TypeOK

LEMMA ManualTypes ==
    ASSUME TypeOK, ManualStep
    PROVE  TypeOK'
<1>1. manual \in ManualMatch /\ tracks \in Seq(TrackRow)
  BY DEF TypeOK
<1> USE DEF budgets, fetches
<1>2. ASSUME Answered
      PROVE  manual' \in ManualMatch /\ manual'.row = 0 /\ manual'.n = manual.n
  <2>1. manual' = [manual EXCEPT !.st = "idle", !.item = NoLink, !.row = 0]
    BY <1>2 DEF Answered
  <2>2. [manual EXCEPT !.st = "idle", !.item = NoLink, !.row = 0] \in ManualMatch
    BY <1>1 DEF ManualMatch
  <2>3. /\ [manual EXCEPT !.st = "idle", !.item = NoLink, !.row = 0].row = 0
        /\ [manual EXCEPT !.st = "idle", !.item = NoLink, !.row = 0].n = manual.n
    BY <1>1 DEF ManualMatch
  <2> QED
    BY <2>1, <2>2, <2>3
<1>3. ASSUME NEW item \in Items, AskMatch(item) PROVE TypeOK'
  <2>1. manual.n \in Nat /\ manual.n + faults + refusals + overlaps < MaxTroubles
    BY <1>1, <1>3 DEF AskMatch, Trouble, ManualMatch
  <2>2. manual' \in ManualMatch /\ manual'.row = manual.row /\ manual'.n = manual.n + 1
    <3>1. manual' = [manual EXCEPT !.st = "asked", !.item = item, !.n = manual.n + 1]
      BY <1>3 DEF AskMatch
    <3>2. manual.n + 1 \in Nat
      BY <2>1
    <3>3. [manual EXCEPT !.st = "asked", !.item = item, !.n = manual.n + 1] \in ManualMatch
      BY <1>1, <3>2 DEF ManualMatch
    <3> QED
      BY <1>1, <3>1, <3>3 DEF ManualMatch
  <2>3. manual'.n + faults + refusals + overlaps <= MaxTroubles
    BY <2>1, <2>2 DEF TypeOK
  <2> QED
    BY <1>3, <2>2, <2>3 DEF AskMatch, TypeOK
<1>4. CASE ReadTrack
  <2>1. manual' \in ManualMatch /\ manual'.row <= Len(tracks) /\ manual'.n = manual.n
    <3>1. ASSUME NEW i \in DOMAIN tracks,
                 manual' = [manual EXCEPT !.st = "matching", !.row = i]
          PROVE  manual' \in ManualMatch /\ manual'.row <= Len(tracks) /\ manual'.n = manual.n
      <4>1. i \in Nat /\ i <= Len(tracks)
        BY <1>1, <3>1
      <4> QED
        BY <1>1, <3>1, <4>1 DEF ManualMatch
    <3>2. Len(tracks) \in Nat
      BY <1>1
    <3>3. \/ \E i \in DOMAIN tracks : manual' = [manual EXCEPT !.st = "matching", !.row = i]
          \/ Answered
      BY <1>4 DEF ReadTrack
    <3>4. CASE Answered
      BY <1>2, <3>2, <3>4
    <3> QED
      BY <3>1, <3>3, <3>4
  <2> QED
    BY <1>4, <2>1 DEF ReadTrack, TypeOK
<1>5. CASE SaveMatch
  <2>1. tracks' \in Seq(TrackRow) /\ Len(tracks') = Len(tracks) /\ Len(tracks) \in Nat
    BY <1>1, <1>5, SavedTypes
  <2> QED
    BY <1>2, <1>5, <2>1 DEF SaveMatch, TypeOK
<1>6. CASE NoMatch
  <2>1. Len(tracks) \in Nat
    BY <1>1
  <2>2. Answered /\ UNCHANGED <<exists, tracks, runs, playlist, task, fetches, budgets>>
    BY <1>6 DEF NoMatch
  <2>3. manual' \in ManualMatch /\ manual'.row = 0 /\ manual'.n = manual.n
    BY <1>2, <2>2
  <2> QED
    BY <2>1, <2>2, <2>3 DEF TypeOK
<1>7. CASE MatchLost
  <2>1. [manual EXCEPT !.st = "asked", !.row = 0] \in ManualMatch
    BY <1>1 DEF ManualMatch
  <2>2. /\ [manual EXCEPT !.st = "asked", !.row = 0].row = 0
        /\ [manual EXCEPT !.st = "asked", !.row = 0].n = manual.n
    BY <1>1 DEF ManualMatch
  <2>3. manual' = [manual EXCEPT !.st = "asked", !.row = 0]
    BY <1>7 DEF MatchLost
  <2>4. manual' \in ManualMatch /\ manual'.row = 0 /\ manual'.n = manual.n /\ Len(tracks) \in Nat
    BY <1>1, <2>1, <2>2, <2>3
  <2> QED
    BY <1>7, <2>4 DEF MatchLost, TypeOK
<1> QED
  BY <1>3, <1>4, <1>5, <1>6, <1>7 DEF ManualStep

LEMMA ChildTypes ==
    ASSUME TypeOK, NEW t \in Tasks, ChildStep(t), UNCHANGED single
    PROVE  TypeOK'
<1> USE DEF single, fetches, budgets
<1>1. /\ tracks \in Seq(TrackRow) /\ Len(tracks) \in Nat
      /\ task \in [Tasks -> ChildTask] /\ task[t] \in ChildTask
      /\ task[t].exec \in Execs \cup {Refusal}
  BY DEF TypeOK, ChildTask
<1>2. /\ "over" \in States /\ "lost" \in States /\ "matching" \in States
      /\ "finalizing" \in States /\ "published" \in States /\ "ensuring" \in States
      /\ "publishing" \in States /\ "added" \in States /\ "short" \in States
  BY DEF States, Ended, Successful
<1>3. \A st \in States : Ends(t, st) \/ Goes(t, st) => task' \in [Tasks -> ChildTask]
  BY TaskMoves
<1>4. CASE ConnectionFails(t)
  <2>1. runs' \in Seq(RunRow)
    <3>1. CASE runs' = Append(runs, NewRun(task[t].exec, "failed", {}))
      BY <1>1, <3>1, AppendedRuns
    <3>2. ASSUME NEW i \in LiveRows(task[t].exec), runs' = [runs EXCEPT ![i].status = "failed"]
          PROVE  runs' \in Seq(RunRow)
      BY <3>2, FailedRow DEF LiveRows
    <3> QED
      BY <1>4, <3>1, <3>2 DEF ConnectionFails, TypeOK
  <2>2. task' \in [Tasks -> ChildTask]
    BY <1>2, <1>3, <1>4 DEF ConnectionFails
  <2>3. Fault \/ UNCHANGED <<faults, refusals, overlaps>>
    BY <1>4 DEF ConnectionFails
  <2>4. /\ faults' \in Nat /\ refusals' \in Nat /\ overlaps' \in Nat
        /\ manual'.n + faults' + refusals' + overlaps' <= MaxTroubles
    BY <2>3, BudgetTypes
  <2> QED
    BY <1>4, <2>1, <2>2, <2>4 DEF ConnectionFails, TypeOK
<1>5. CASE LookForRun(t)
  <2>1. task' \in [Tasks -> ChildTask]
    <3>1. \A b \in BOOLEAN : [task[t] EXCEPT !.st = "ensuring", !.reuse = b] \in ChildTask
      BY <1>1, <1>2 DEF ChildTask
    <3>2. (LiveRows(task[t].exec) # {}) \in BOOLEAN
      OBVIOUS
    <3> DEFINE b == LiveRows(task[t].exec) # {}
    <3>3. [task[t] EXCEPT !.st = "ensuring", !.reuse = b] \in ChildTask
      BY <3>1, <3>2
    <3>4. \/ Ends(t, "over")
          \/ task' = [task EXCEPT ![t] = [task[t] EXCEPT !.st = "ensuring", !.reuse = b]]
      BY <1>5 DEF LookForRun
    <3> QED
      BY <1>1, <1>2, <1>3, <3>3, <3>4
  <2> QED
    BY <1>5, <2>1 DEF LookForRun, TypeOK
<1>6. CASE EnsureRun(t)
  <2>1. {tracks[i].item : i \in DOMAIN tracks} \in SUBSET Items
    <3>1. \A i \in DOMAIN tracks : tracks[i] \in TrackRow
      BY <1>1
    <3> QED
      BY <3>1 DEF TrackRow
  <2>2. runs' \in Seq(RunRow)
    BY <1>1, <1>6, <2>1, AppendedRuns DEF EnsureRun, TypeOK
  <2>3. task' \in [Tasks -> ChildTask]
    BY <1>2, <1>3, <1>6 DEF EnsureRun
  <2> QED
    BY <1>6, <2>2, <2>3 DEF EnsureRun, TypeOK
<1>7. ASSUME NEW hits \in SUBSET DOMAIN tracks, Match(t, hits) PROVE TypeOK'
  <2>1. tracks' \in Seq(TrackRow) /\ Len(tracks') = Len(tracks)
    BY <1>7, MatchedTypes DEF Match
  <2>2. task' \in [Tasks -> ChildTask]
    BY <1>2, <1>3, <1>7 DEF Match
  <2> QED
    BY <1>7, <2>1, <2>2 DEF Match, TypeOK
<1>8. CASE Finalize(t)
  <2>1. runs' \in Seq(RunRow)
    BY <1>8, CompletedRuns DEF Finalize
  <2>2. Links \in SUBSET Items
    <3>1. \A i \in DOMAIN tracks : tracks[i] \in TrackRow
      BY <1>1
    <3> QED
      BY <3>1 DEF TrackRow, Links
  <2>3. [task[t] EXCEPT !.st = "publishing", !.out = Links] \in ChildTask
    BY <1>1, <1>2, <2>2 DEF ChildTask
  <2>4. task' \in [Tasks -> ChildTask]
    BY <1>1, <1>8, <2>3 DEF Finalize
  <2> QED
    BY <1>8, <2>1, <2>4 DEF Finalize, TypeOK
<1>9. CASE Publish(t) \/ PublishUnread(t) \/ PublishShort(t)
  <2>1. task[t].out \subseteq Items
    BY <1>1 DEF ChildTask
  <2>2. playlist' \subseteq Items
    BY <1>9, <2>1 DEF Publish, PublishUnread, PublishShort, TypeOK
  <2>3. task' \in [Tasks -> ChildTask]
    BY <1>2, <1>3, <1>9 DEF Publish, PublishUnread, PublishShort
  <2> QED
    BY <1>9, <2>2, <2>3 DEF Publish, PublishUnread, PublishShort, TypeOK
<1>10. CASE PublishSilentlyFails(t)
  <2>1. task' \in [Tasks -> ChildTask]
    BY <1>2, <1>3, <1>10 DEF PublishSilentlyFails
  <2> QED
    BY <1>10, <2>1 DEF PublishSilentlyFails, TypeOK
<1>11. CASE StepRaises(t)
  <2>1. playlist' \subseteq Items
    BY <1>11, CutTypes DEF StepRaises
  <2>2. Fails(t) /\ UNCHANGED <<exists, tracks>>
    BY <1>11 DEF StepRaises
  <2>3. /\ faults' \in Nat /\ refusals' \in Nat /\ overlaps' \in Nat
        /\ manual'.n + faults' + refusals' + overlaps' <= MaxTroubles
    BY <2>2, FailsTypes, BudgetTypes
  <2> QED
    BY <2>1, <2>2, <2>3, FailsTypes DEF TypeOK
<1> QED
  BY <1>4, <1>5, <1>6, <1>7, <1>8, <1>9, <1>10, <1>11 DEF ChildStep

LEMMA TypesStep ==
    ASSUME TypeOK, [Next]_vars
    PROVE  TypeOK'
<1>1. CASE FetchStep
  BY <1>1, FetchTypes, ElsewhereTypes DEF FetchStep
<1>2. CASE DeleteSync
  <2>1. <<>> \in Seq(TrackRow) /\ <<>> \in Seq(RunRow) /\ Len(<<>>) = 0
    OBVIOUS
  <2>2. /\ manual' \in ManualMatch /\ manual'.row <= 0 /\ crossed' \in BOOLEAN
        /\ manual'.n = manual.n
    BY <1>2, ReplacedTypes DEF DeleteSync
  <2> QED
    BY <1>2, <2>1, <2>2 DEF DeleteSync, budgets, TypeOK
<1>3. CASE ManualStep
  BY <1>3, ManualTypes
<1>4. CASE RefuseDispatch /\ UNCHANGED single
  <2>1. runs' \in Seq(RunRow)
    BY <1>4, AppendedRuns DEF RefuseDispatch
  <2>2. manual.n \in Nat
    BY DEF TypeOK, ManualMatch
  <2>3. refusals' \in Nat /\ manual.n + faults + refusals' + overlaps <= MaxTroubles
    BY <1>4, <2>2 DEF RefuseDispatch, Trouble, TypeOK
  <2> QED
    BY <1>4, <2>1, <2>3 DEF RefuseDispatch, single, fetches, TypeOK
<1>5. ASSUME NEW t \in Tasks, WorkerLost(t) \/ Killed(t), UNCHANGED single PROVE TypeOK'
  <2>1. task \in [Tasks -> ChildTask] /\ task[t] \in ChildTask /\ "queued" \in States
    BY DEF TypeOK, States
  <2>2. [task[t] EXCEPT !.st = "queued", !.reuse = FALSE, !.out = {}] \in ChildTask
    BY <2>1 DEF ChildTask
  <2>3. task' \in [Tasks -> ChildTask]
    <3>1. CASE WorkerLost(t)
      BY <2>1, <2>2, <3>1 DEF WorkerLost
    <3>2. CASE Killed(t)
      BY <3>2, TaskMoves DEF Killed, States, Ended
    <3> QED
      BY <1>5, <3>1, <3>2
  <2>4. playlist' \subseteq Items /\ Fault /\ UNCHANGED <<exists, tracks, runs>>
    BY <1>5, CutTypes DEF WorkerLost, Killed
  <2>5. /\ faults' \in Nat /\ refusals' \in Nat /\ overlaps' \in Nat
        /\ manual'.n + faults' + refusals' + overlaps' <= MaxTroubles
    BY <1>5, <2>4, BudgetTypes DEF single
  <2> QED
    BY <1>5, <2>3, <2>4, <2>5 DEF single, fetches, TypeOK
<1>6. ASSUME NEW t \in Tasks, ChildStep(t), UNCHANGED single PROVE TypeOK'
  BY <1>6, ChildTypes
<1>7. CASE UNCHANGED vars
  BY <1>7 DEF vars, single, fetches, TypeOK
<1> QED
  BY <1>1, <1>2, <1>3, <1>4, <1>5, <1>6, <1>7 DEF Next, OtherStep

\* Every reachable state of rows, tasks and links is type correct: a row has one
\* of three states, a history holds matches of tracks, and a match by hand
\* has read a row that is there.
THEOREM RunTypes == Spec => []TypeOK
<1>1. Init => TypeOK
  BY TypesInit
<1>2. TypeOK /\ [Next]_vars => TypeOK'
  BY TypesStep
<1> QED
  BY <1>1, <1>2, PTL DEF Spec

-----------------------------------------------------------------------------
(* Links and tracks *)

\* Inductive: unless a fetch came in between, or one for other targets was the
\* last, what a match by hand has read is still there, and every link is the link
\* of its track.
Linked ==
    (~crossed /\ fetched # Elsewhere) =>
        /\ \A i \in DOMAIN tracks : tracks[i].link \in {tracks[i].item, NoLink}
        /\ (manual.st = "matching" /\ manual.row \in DOMAIN tracks) =>
              tracks[manual.row].item = manual.item

LEMMA LinkedInit ==
    Init => Linked
  BY DEF Init, Linked

\* A fetch clears every link, and notices a match that has read a row.
LEMMA LinkedFetch ==
    ASSUME TypeOK, Linked, NEW t \in Tasks, NEW exec \in Execs, NEW source \in Sources,
           Fetch(t, exec, source)
    PROVE  Linked'
<1>1. CASE exists /\ source # <<>>
  <2>1. \A i \in DOMAIN tracks' : tracks'[i].link = NoLink
    BY <1>1, RefetchedTypes DEF Fetch
  <2>2. crossed' = (manual.st = "matching") /\ manual'.st = manual.st
    BY <1>1 DEF Fetch, RowsReplaced, TypeOK, ManualMatch
  <2> QED
    BY <2>1, <2>2 DEF Linked
<1>2. CASE ~(exists /\ source # <<>>)
  BY <1>2 DEF Fetch, single, fetches, Linked
<1> QED
  BY <1>1, <1>2

LEMMA LinkedStep ==
    ASSUME TypeOK, Linked, [Next]_vars
    PROVE  Linked'
<1>1. CASE FetchStep
  <2>1. ASSUME NEW source \in Sources, FetchElsewhere(source) PROVE Linked'
    BY <2>1 DEF FetchElsewhere, Linked
  <2> QED
    BY <1>1, <2>1, LinkedFetch DEF FetchStep
<1>2. CASE DeleteSync
  BY <1>2 DEF DeleteSync, Linked
<1>3. ASSUME NEW item \in Items, AskMatch(item) PROVE Linked'
  <2>1. manual'.st = "asked" /\ UNCHANGED <<tracks, fetches>>
    BY <1>3 DEF AskMatch, TypeOK, ManualMatch
  <2> QED
    BY <2>1 DEF Linked, fetches
<1>4. CASE ReadTrack
  <2>1. UNCHANGED <<tracks, fetches>>
    BY <1>4 DEF ReadTrack
  <2>2. \/ manual'.st = "idle"
        \/ tracks[manual'.row].item = manual'.item
    BY <1>4 DEF ReadTrack, Answered, TypeOK, ManualMatch
  <2> QED
    BY <2>1, <2>2 DEF Linked, fetches
<1>5. CASE SaveMatch
  <2>1. /\ \A i \in DOMAIN tracks' :
               /\ i \in DOMAIN tracks
               /\ tracks'[i].item = tracks[i].item
               /\ \/ tracks'[i].link = tracks[i].link
                  \/ i = manual.row /\ tracks'[i].link = manual.item
        /\ manual.st = "matching" /\ crossed' = crossed /\ fetched' = fetched
    BY <1>5, SavedTypes DEF SaveMatch, fetches
  <2>2. manual'.st = "idle"
    BY <1>5 DEF SaveMatch, Answered, TypeOK, ManualMatch
  <2> QED
    BY <2>1, <2>2 DEF Linked
<1>6. CASE NoMatch
  <2>1. manual'.st = "idle" /\ UNCHANGED <<tracks, fetches>>
    BY <1>6 DEF NoMatch, Answered, TypeOK, ManualMatch
  <2> QED
    BY <2>1 DEF Linked, fetches
<1>7. CASE MatchLost
  <2>1. manual'.st = "asked" /\ UNCHANGED <<tracks, fetches>>
    BY <1>7 DEF MatchLost, TypeOK, ManualMatch
  <2> QED
    BY <2>1 DEF Linked, fetches
<1>8. CASE RefuseDispatch /\ UNCHANGED single
  BY <1>8 DEF RefuseDispatch, single, fetches, Linked
<1>9. ASSUME NEW t \in Tasks, WorkerLost(t) \/ Killed(t), UNCHANGED single PROVE Linked'
  BY <1>9 DEF WorkerLost, Killed, single, fetches, Linked
<1>10. ASSUME NEW t \in Tasks, ChildStep(t), UNCHANGED single PROVE Linked'
  <2>1. ASSUME NEW hits \in SUBSET DOMAIN tracks, Match(t, hits) PROVE Linked'
    <3>1. /\ DOMAIN tracks' = DOMAIN tracks
          /\ \A i \in DOMAIN tracks :
                /\ tracks'[i].item = tracks[i].item
                /\ tracks'[i].link \in {tracks[i].link, tracks[i].item}
      BY <2>1, MatchedTypes DEF Match
    <3> QED
      BY <1>10, <3>1 DEF single, fetches, Linked
  <2>2. (\A hits \in SUBSET DOMAIN tracks : ~Match(t, hits)) => UNCHANGED tracks
    BY <1>10 DEF ChildStep, ConnectionFails, LookForRun, EnsureRun, Finalize, Publish,
                 PublishUnread, PublishShort, PublishSilentlyFails, StepRaises
  <2>3. CASE UNCHANGED tracks
    BY <1>10, <2>3 DEF single, fetches, Linked
  <2> QED
    BY <2>1, <2>2, <2>3
<1>11. CASE UNCHANGED vars
  BY <1>11 DEF vars, single, fetches, Linked
<1> QED
  BY <1>1, <1>2, <1>3, <1>4, <1>5, <1>6, <1>7, <1>8, <1>9, <1>10, <1>11
     DEF Next, OtherStep, ManualStep

\* However many fetches, matches, retries and lost workers follow one another, a
\* track carries its own match or none, unless a match by hand read its row
\* before a fetch and wrote it afterwards, or the last fetch was for other
\* targets and kept the links of this one (phases.py 197-241).
THEOREM LinksAreRight == Spec => []LinksMatchTracks
<1>1. Init => TypeOK /\ Linked
  BY TypesInit, LinkedInit
<1>2. TypeOK /\ Linked /\ [Next]_vars => TypeOK' /\ Linked'
  BY TypesStep, LinkedStep
<1>3. Linked => LinksMatchTracks
  BY DEF Linked, LinksMatchTracks
<1> QED
  BY <1>1, <1>2, <1>3, PTL DEF Spec

-----------------------------------------------------------------------------
(* What a step does to rows and tasks, in the terms of the invariants *)

Running(i) == i \in DOMAIN runs /\ runs[i].status = "running"

\* Task t alone moves, to state st.
Moves(t, st) ==
    /\ \A u \in Tasks : u # t => task'[u] = task[u]
    /\ task'[t].st = st /\ task'[t].exec = task[t].exec

\* Row i, and no other, ends.
Shut(i) ==
    /\ i \in DOMAIN runs
    /\ Len(runs') = Len(runs) /\ DOMAIN runs' = DOMAIN runs
    /\ \A j \in DOMAIN runs : runs'[j].exec = runs[j].exec /\ (j # i => runs'[j] = runs[j])
    /\ runs'[i].status # "running"

\* A row is added.
Adds(exec, status) ==
    /\ Len(runs') = Len(runs) + 1 /\ DOMAIN runs' = 1..(Len(runs) + 1)
    /\ \A j \in DOMAIN runs : runs'[j] = runs[j]
    /\ runs'[Len(runs) + 1].exec = exec
    /\ runs'[Len(runs) + 1].status = status
    /\ runs'[Len(runs) + 1].history = {}

\* The kinds of steps of a task at work.
Waits(t) == /\ Active(t) /\ runs' = runs
            /\ Moves(t, "queued") \/ Moves(t, "lost")
Looks(t) == /\ Active(t) /\ runs' = runs /\ exists
            /\ Moves(t, "ensuring") /\ task'[t].reuse = (LiveRows(task[t].exec) # {})
TakesRow(t) == /\ task[t].st = "ensuring" /\ task[t].reuse
               /\ runs' = runs /\ Moves(t, "matching")
MakesRow(t) == /\ task[t].st = "ensuring" /\ ~task[t].reuse /\ exists
               /\ Adds(task[t].exec, "running") /\ Moves(t, "matching")
Matches(t) == task[t].st = "matching" /\ runs' = runs /\ Moves(t, "finalizing")
Completes(t) == /\ task[t].st = "finalizing" /\ Moves(t, "publishing")
                /\ \/ runs = <<>> /\ runs' = runs
                   \/ runs # <<>> /\ Shut(Len(runs))
Leaves(t) == /\ task[t].st = "publishing" /\ runs' = runs
             /\ \E st \in Successful \cup {"over"} : Moves(t, st)
FindsNothing(t) == Active(t) /\ ~exists /\ runs' = runs /\ Moves(t, "over")
FailsLatest(t) ==
    /\ Active(t)
    /\ Moves(t, "queued") \/ Moves(t, "over")
    /\ \/ runs = <<>> /\ runs' = runs
       \/ runs # <<>> /\ Shut(Len(runs))
AddsFailed(t) == /\ Active(t) /\ exists /\ LiveRows(task[t].exec) = {}
                 /\ Adds(task[t].exec, "failed") /\ Moves(t, "over")
FailsOwn(t) == /\ Active(t) /\ Moves(t, "over")
               /\ \E i \in LiveRows(task[t].exec) : Shut(i)

OfAKind(t) ==
    \/ Waits(t) \/ Looks(t) \/ TakesRow(t) \/ MakesRow(t) \/ Matches(t) \/ Completes(t)
    \/ Leaves(t) \/ FindsNothing(t) \/ FailsLatest(t) \/ AddsFailed(t) \/ FailsOwn(t)

LEMMA GoesMoves ==
    ASSUME TypeOK, NEW t \in Tasks, NEW st \in States
    PROVE  /\ Goes(t, st) => Moves(t, st)
           /\ Ends(t, st) => Moves(t, st)
           /\ RetryOr(t, st) => Moves(t, "queued") \/ Moves(t, st)
<1>1. task \in [Tasks -> ChildTask] /\ task[t] \in ChildTask
  BY DEF TypeOK
<1>2. Goes(t, st) => Moves(t, st)
  BY <1>1 DEF Goes, Moves, ChildTask
<1>3. Ends(t, st) => Moves(t, st)
  BY <1>1 DEF Ends, Moves, NewTask
<1>4. RetryOr(t, st) => Moves(t, "queued") \/ Moves(t, st)
  <2> SUFFICES ASSUME RetryOr(t, st) PROVE Moves(t, "queued") \/ Moves(t, st)
    OBVIOUS
  <2>1. CASE task[t].tries < MaxRetries
    <3> DEFINE k == [task[t] EXCEPT !.st = "queued", !.tries = task[t].tries + 1]
    <3>1. k.st = "queued" /\ k.exec = task[t].exec
      BY <1>1 DEF ChildTask
    <3>2. task' = [task EXCEPT ![t] = k]
      BY <2>1 DEF RetryOr
    <3> HIDE DEF k
    <3> QED
      BY <1>1, <3>1, <3>2 DEF Moves
  <2>2. CASE ~(task[t].tries < MaxRetries)
    BY <1>3, <2>2 DEF RetryOr
  <2> QED
    BY <2>1, <2>2
<1> QED
  BY <1>2, <1>3, <1>4

LEMMA FailedShuts ==
    ASSUME TypeOK, NEW i \in DOMAIN runs, runs' = [runs EXCEPT ![i].status = "failed"]
    PROVE  Shut(i)
<1>1. runs \in Seq(RunRow) /\ runs[i] \in RunRow /\ runs' \in Seq(RunRow)
  BY FailedRow DEF TypeOK
<1>2. [runs[i] EXCEPT !.status = "failed"].status = "failed"
      /\ [runs[i] EXCEPT !.status = "failed"].exec = runs[i].exec
  BY <1>1 DEF RunRow
<1>3. runs' = [runs EXCEPT ![i] = [runs[i] EXCEPT !.status = "failed"]]
  OBVIOUS
<1>4. /\ Len(runs') = Len(runs) /\ DOMAIN runs' = DOMAIN runs
      /\ \A j \in DOMAIN runs : j # i => runs'[j] = runs[j]
      /\ runs'[i] = [runs[i] EXCEPT !.status = "failed"]
  BY <1>1, <1>3
<1> QED
  BY <1>2, <1>4 DEF Shut

LEMMA LatestInDomain ==
    ASSUME TypeOK, runs # <<>>
    PROVE  Len(runs) \in DOMAIN runs
  BY DEF TypeOK

LEMMA LatestFailedShuts ==
    ASSUME TypeOK, runs' = LatestFailed
    PROVE  \/ runs = <<>> /\ runs' = runs
           \/ runs # <<>> /\ Shut(Len(runs))
<1>1. CASE runs = <<>>
  BY <1>1 DEF LatestFailed
<1>2. CASE runs # <<>>
  BY <1>2, LatestInDomain, FailedShuts DEF LatestFailed
<1> QED
  BY <1>1, <1>2

LEMMA LatestCompletedShuts ==
    ASSUME TypeOK, runs' = LatestCompleted
    PROVE  \/ runs = <<>> /\ runs' = runs
           \/ runs # <<>> /\ Shut(Len(runs))
<1>1. CASE runs = <<>>
  BY <1>1 DEF LatestCompleted
<1>2. CASE runs # <<>>
  <2> DEFINE i == Len(runs)
             row == CompletedRow(runs[i])
  <2>1. i \in DOMAIN runs
    BY <1>2, LatestInDomain
  <2>2. runs \in Seq(RunRow) /\ runs[i] \in RunRow
    BY <2>1 DEF TypeOK
  <2>3. row.status = "completed" /\ row.exec = runs[i].exec
    BY <2>2 DEF CompletedRow, RunRow
  <2>4. runs' = [runs EXCEPT ![i] = row]
    BY <1>2 DEF LatestCompleted
  <2> HIDE DEF row
  <2>5. /\ Len(runs') = Len(runs) /\ DOMAIN runs' = DOMAIN runs
        /\ \A j \in DOMAIN runs : j # i => runs'[j] = runs[j]
        /\ runs'[i] = row
    BY <2>1, <2>2, <2>4
  <2> QED
    BY <1>2, <2>1, <2>3, <2>5 DEF Shut
<1> QED
  BY <1>1, <1>2

LEMMA AppendAdds ==
    ASSUME TypeOK, NEW exec, NEW status, NEW batch,
           runs' = Append(runs, NewRun(exec, status, batch))
    PROVE  Adds(exec, status)
<1>1. runs \in Seq(RunRow)
  BY DEF TypeOK
<1>2. /\ Len(runs') = Len(runs) + 1 /\ DOMAIN runs' = 1..(Len(runs) + 1)
      /\ \A j \in DOMAIN runs : runs'[j] = runs[j]
      /\ runs'[Len(runs) + 1] = NewRun(exec, status, batch)
  BY <1>1
<1>3. /\ NewRun(exec, status, batch).exec = exec /\ NewRun(exec, status, batch).history = {}
      /\ NewRun(exec, status, batch).status = status
  BY DEF NewRun
<1> QED
  BY <1>2, <1>3 DEF Adds

\* Every step of a child is of one of the kinds.
LEMMA ChildKinds ==
    ASSUME TypeOK, NEW t \in Tasks, ChildStep(t) \/ WorkerLost(t) \/ Killed(t)
    PROVE  OfAKind(t) /\ exists' = exists /\ refusals' = refusals /\ overlaps' = overlaps
<1>1. task \in [Tasks -> ChildTask] /\ task[t] \in ChildTask
  BY DEF TypeOK
<1>2. \A st \in States : /\ Goes(t, st) => Moves(t, st)
                         /\ Ends(t, st) => Moves(t, st)
                         /\ RetryOr(t, st) => Moves(t, "queued") \/ Moves(t, st)
  BY GoesMoves
<1>3. {"over", "lost", "queued", "matching", "finalizing", "publishing", "ensuring"}
          \cup Successful \subseteq States
  BY DEF States, Ended, Successful
<1>4. CASE ConnectionFails(t)
  <2>1. Active(t) /\ exists' = exists /\ refusals' = refusals /\ overlaps' = overlaps
    BY <1>4 DEF ConnectionFails, Active, Ended, Successful, Fault, budgets
  <2>2. CASE Ends(t, "lost") /\ runs' = runs
    <3>1. Moves(t, "lost")
      BY <1>2, <1>3, <2>2
    <3> QED
      BY <2>1, <2>2, <3>1 DEF Waits, OfAKind
  <2>3. CASE Ends(t, "over") /\ ~exists /\ runs' = runs
    <3>1. Moves(t, "over")
      BY <1>2, <1>3, <2>3
    <3> QED
      BY <2>1, <2>3, <3>1 DEF FindsNothing, OfAKind
  <2>4. CASE Ends(t, "over") /\ exists /\ LiveRows(task[t].exec) = {}
             /\ runs' = Append(runs, NewRun(task[t].exec, "failed", {}))
    <3>1. Moves(t, "over")
      BY <1>2, <1>3, <2>4
    <3>2. Adds(task[t].exec, "failed")
      BY <2>4, AppendAdds
    <3> QED
      BY <2>1, <2>4, <3>1, <3>2 DEF AddsFailed, OfAKind
  <2>5. ASSUME Ends(t, "over"), NEW i \in LiveRows(task[t].exec),
               runs' = [runs EXCEPT ![i].status = "failed"]
        PROVE  OfAKind(t) /\ exists' = exists /\ refusals' = refusals /\ overlaps' = overlaps
    <3>1. i \in DOMAIN runs
      BY <2>5 DEF LiveRows
    <3>2. Shut(i)
      BY <2>5, <3>1, FailedShuts
    <3> QED
      BY <1>2, <1>3, <2>1, <2>5, <3>2 DEF FailsOwn, OfAKind
  <2> QED
    BY <1>4, <2>2, <2>3, <2>4, <2>5 DEF ConnectionFails, Fault, budgets
<1>5. CASE LookForRun(t)
  <2>1. Active(t)
    BY <1>5 DEF LookForRun, Active, Ended, Successful
  <2>2. CASE ~exists /\ Ends(t, "over")
    BY <1>2, <1>3, <1>5, <2>1, <2>2 DEF FindsNothing, OfAKind, LookForRun, budgets
  <2>3. CASE ~(~exists /\ Ends(t, "over"))
    <3> DEFINE b == LiveRows(task[t].exec) # {}
               k == [task[t] EXCEPT !.st = "ensuring", !.reuse = b]
    <3>1. k.st = "ensuring" /\ k.exec = task[t].exec /\ k.reuse = b
      BY <1>1 DEF ChildTask
    <3>2. exists /\ task' = [task EXCEPT ![t] = k] /\ runs' = runs
      BY <1>5, <2>3 DEF LookForRun
    <3> HIDE DEF k
    <3>3. Moves(t, "ensuring") /\ task'[t].reuse = b
      BY <1>1, <3>1, <3>2 DEF Moves
    <3> QED
      BY <1>5, <2>1, <3>2, <3>3 DEF Looks, OfAKind, LookForRun, budgets
  <2> QED
    BY <2>2, <2>3
<1>6. CASE EnsureRun(t)
  <2>1. Moves(t, "matching") /\ task[t].st = "ensuring"
    BY <1>2, <1>3, <1>6 DEF EnsureRun
  <2>2. CASE task[t].reuse
    BY <1>6, <2>1, <2>2 DEF EnsureRun, TakesRow, OfAKind, budgets
  <2>3. CASE ~task[t].reuse
    <3>1. Adds(task[t].exec, "running")
      BY <1>6, <2>3, AppendAdds DEF EnsureRun
    <3> QED
      BY <1>6, <2>1, <2>3, <3>1 DEF EnsureRun, MakesRow, OfAKind, budgets
  <2> QED
    BY <2>2, <2>3
<1>7. ASSUME NEW hits \in SUBSET DOMAIN tracks, Match(t, hits)
      PROVE  OfAKind(t) /\ exists' = exists /\ refusals' = refusals /\ overlaps' = overlaps
  BY <1>2, <1>3, <1>7 DEF Match, Matches, OfAKind, budgets
<1>8. CASE Finalize(t)
  <2> DEFINE k == [task[t] EXCEPT !.st = "publishing", !.out = Links]
  <2>1. k.st = "publishing" /\ k.exec = task[t].exec
    BY <1>1 DEF ChildTask
  <2>2. task' = [task EXCEPT ![t] = k]
    BY <1>8 DEF Finalize
  <2> HIDE DEF k
  <2>3. Moves(t, "publishing")
    BY <1>1, <2>1, <2>2 DEF Moves
  <2> QED
    BY <1>8, <2>3, LatestCompletedShuts DEF Finalize, Completes, OfAKind, budgets
<1>9. CASE \/ Publish(t) \/ PublishUnread(t) \/ PublishShort(t)
           \/ PublishSilentlyFails(t)
  <2>1. /\ task[t].st = "publishing" /\ UNCHANGED <<runs, exists, budgets>>
        /\ \E st \in Successful \cup {"over"} : Ends(t, st)
    BY <1>9 DEF Publish, PublishUnread, PublishShort, PublishSilentlyFails, Successful
  <2>2. \E st \in Successful \cup {"over"} : Moves(t, st)
    BY <1>2, <1>3, <2>1
  <2> QED
    BY <2>1, <2>2 DEF Leaves, OfAKind, budgets
<1>10. CASE StepRaises(t)
  <2>1. Active(t) /\ exists' = exists /\ refusals' = refusals /\ overlaps' = overlaps
    BY <1>10 DEF StepRaises, Active, Ended, Successful, Working, Fails, Fault, budgets
  <2>2. CASE runs' = LatestFailed /\ RetryOr(t, "over")
    <3>1. Moves(t, "queued") \/ Moves(t, "over")
      BY <1>2, <1>3, <2>2
    <3>2. \/ runs = <<>> /\ runs' = runs
          \/ runs # <<>> /\ Shut(Len(runs))
      BY <2>2, LatestFailedShuts
    <3>3. FailsLatest(t)
      BY <2>1, <3>1, <3>2 DEF FailsLatest
    <3> QED
      BY <2>1, <3>3 DEF OfAKind
  <2>3. CASE runs' = runs /\ RetryOr(t, "lost")
    <3>1. Moves(t, "queued") \/ Moves(t, "lost")
      BY <1>2, <1>3, <2>3
    <3> QED
      BY <2>1, <2>3, <3>1 DEF Waits, OfAKind
  <2> QED
    BY <1>10, <2>1, <2>2, <2>3 DEF StepRaises, Fails
<1>11. CASE WorkerLost(t)
  <2> DEFINE k == [task[t] EXCEPT !.st = "queued", !.reuse = FALSE, !.out = {}]
  <2>1. k.st = "queued" /\ k.exec = task[t].exec
    BY <1>1 DEF ChildTask
  <2>2. task' = [task EXCEPT ![t] = k]
    BY <1>11 DEF WorkerLost
  <2> HIDE DEF k
  <2>3. Moves(t, "queued") /\ Active(t)
    BY <1>1, <1>11, <2>1, <2>2 DEF Moves, WorkerLost, Active, Working, Ended, Successful
  <2> QED
    BY <1>11, <2>3 DEF WorkerLost, Waits, OfAKind, Fault
<1>12. CASE Killed(t)
  <2>1. Moves(t, "lost")
    BY <1>2, <1>3, <1>12 DEF Killed
  <2>2. Active(t)
    BY <1>12 DEF Killed, Active, Working, Ended, Successful
  <2> QED
    BY <1>12, <2>1, <2>2 DEF Killed, Waits, OfAKind, Fault
<1> QED
  BY <1>4, <1>5, <1>6, <1>7, <1>8, <1>9, <1>10, <1>11, <1>12 DEF ChildStep

-----------------------------------------------------------------------------
(* The rows settle *)

WasEnsured(t) == task[t].st \in {"matching", "finalizing", "publishing"}
Reuses(t) == task[t].st = "ensuring" /\ task[t].reuse
Owns(t, i) == task[t].exec = runs[i].exec /\ Active(t) /\ task[t].st # "publishing"
LostOwner(i) == \E t \in Tasks : task[t].exec = runs[i].exec /\ task[t].st = "lost"

\* A sync that is gone has no rows; one that is there has one as soon as a task
\* has passed the look-up; a row has no history before it is completed.
Kept ==
    /\ ~exists => runs = <<>>
    /\ exists => \A t \in Tasks : WasEnsured(t) \/ Reuses(t) => runs # <<>>
    /\ \A i \in DOMAIN runs : Running(i) => runs[i].history = {}

\* While there is one row and it is running, its task has not ended and nobody
\* is past the finalization.
OneRow ==
    (Len(runs) = 1 /\ Running(1)) =>
        /\ LostOwner(1) \/ \E t \in Tasks : Owns(t, 1)
        /\ \A t \in Tasks : task[t].st # "publishing"

\* Runs that come one after the other: one task at work, one running row per
\* execution, and the running row of the task at work on top.
InTurn ==
    Serial =>
        /\ \A t, u \in Tasks : Active(t) /\ Active(u) => t = u
        /\ \A t \in Tasks : task[t].st = "ensuring" /\ ~task[t].reuse
               => LiveRows(task[t].exec) = {}
        /\ \A i, j \in DOMAIN runs :
               Running(i) /\ Running(j) /\ runs[i].exec = runs[j].exec => i = j
        /\ \A i \in DOMAIN runs : Running(i) =>
               \/ LostOwner(i)
               \/ i = Len(runs) /\ \E t \in Tasks : Owns(t, i)
               \/ refusals > 0 /\ i < Len(runs)

\* With nothing left running, a task that is about to snapshot does so into a
\* running row.
OnTop ==
    Orderly =>
        \A t \in Tasks : task[t].st \in {"matching", "finalizing"} \/ Reuses(t)
            => runs = <<>> \/ Running(Len(runs))

SettleInv == Kept /\ OneRow /\ InTurn /\ OnTop

LEMMA RowFacts ==
    ASSUME TypeOK
    PROVE  /\ Len(runs) \in Nat /\ DOMAIN runs = 1..Len(runs)
           /\ runs = <<>> <=> Len(runs) = 0
           /\ \A i \in DOMAIN runs : i \in Nat /\ runs[i] \in RunRow
<1>1. runs \in Seq(RunRow)
  BY DEF TypeOK
<1>2. \A i \in DOMAIN runs : runs[i] \in RunRow
  BY <1>1
<1> QED
  BY <1>1, <1>2 DEF RunRow

LEMMA SettleInit ==
    Init => SettleInv
<1> SUFFICES ASSUME Init PROVE SettleInv
  OBVIOUS
<1>1. runs = <<>> /\ exists /\ Len(runs) = 0 /\ DOMAIN runs = {}
  BY DEF Init
<1>2. \A t \in Tasks : task[t].st = "absent"
  BY DEF Init, NewTask
<1> QED
  BY <1>1, <1>2 DEF SettleInv, Kept, OneRow, InTurn, OnTop, WasEnsured, Reuses, Running, Active

\* Steps that touch neither rows nor tasks.
LEMMA SettleFrame ==
    ASSUME SettleInv, UNCHANGED <<exists, runs, task, refusals, overlaps>>
    PROVE  SettleInv'
  BY DEF SettleInv, Kept, OneRow, InTurn, OnTop, WasEnsured, Reuses, Running, Owns, LostOwner,
         Active, LiveRows, Serial, Orderly

\* The schedule is deleted.
LEMMA SettleGone ==
    ASSUME SettleInv, ~exists', runs' = <<>>, UNCHANGED <<task, refusals, overlaps>>
    PROVE  SettleInv'
<1>1. Len(runs') = 0 /\ DOMAIN runs' = {}
  OBVIOUS
<1> QED
  BY <1>1 DEF SettleInv, Kept, OneRow, InTurn, OnTop, WasEnsured, Reuses, Running, Owns,
              LostOwner, Active, LiveRows, Serial, Orderly

\* A refused dispatch puts its row on top.
LEMMA SettleRefused ==
    ASSUME TypeOK, SettleInv, Adds(Refusal, "failed"), exists, refusals' = refusals + 1,
           UNCHANGED <<exists, task, overlaps>>
    PROVE  SettleInv'
<1> USE RowFacts DEF Adds, Running
<1>1. refusals \in Nat /\ refusals' > 0
  BY DEF TypeOK
<1>2. Kept'
  BY DEF SettleInv, Kept, WasEnsured, Reuses
<1>3. OneRow'
  BY DEF SettleInv, OneRow
<1>4. InTurn'
  <2> SUFFICES ASSUME Serial' PROVE InTurn'
    BY DEF InTurn
  <2>1. InTurn /\ Serial
    BY DEF SettleInv, Serial
  <2>2. \A t \in Tasks : LiveRows(task[t].exec)' = LiveRows(task[t].exec)
    BY DEF LiveRows
  <2>3. \A i \in DOMAIN runs' : Running(i)' => Running(i) /\ i < Len(runs')
    OBVIOUS
  <2> QED
    BY <1>1, <2>1, <2>2, <2>3 DEF InTurn, Serial, Active
<1>5. OnTop'
  BY <1>1 DEF OnTop, Orderly
<1> QED
  BY <1>2, <1>3, <1>4, <1>5 DEF SettleInv

\* A fetch: nothing but its own task, which owns nothing yet.
LEMMA SettleFetch ==
    ASSUME TypeOK, SettleInv, NEW t \in Tasks, NEW exec \in Execs, NEW source \in Sources,
           Fetch(t, exec, source)
    PROVE  SettleInv'
<1>1. UNCHANGED <<exists, runs, refusals>> /\ task[t].st = "absent"
  BY DEF Fetch, Overlap, budgets
<1>2. /\ \A u \in Tasks : u # t => task'[u] = task[u]
      /\ task'[t].st \in {"queued", "over"}
  <2>1. task \in [Tasks -> ChildTask]
    BY DEF TypeOK
  <2>2. \E st \in {"queued", "over"} : \E items :
            task' = [task EXCEPT ![t] = NewTask(st, exec, items)]
    BY DEF Fetch
  <2> QED
    BY <2>1, <2>2 DEF NewTask
<1>3. Serial' => Serial /\ \A u \in Tasks : ~Active(u)
  BY DEF Fetch, Overlap, Trouble, Serial, TypeOK, budgets
<1>4. \A u \in Tasks : u # t => (Active(u)' <=> Active(u))
  BY <1>2 DEF Active
<1>5. Kept'
  BY <1>1, <1>2 DEF SettleInv, Kept, WasEnsured, Reuses, Running
<1>6. OneRow'
  BY <1>1, <1>2, <1>4 DEF SettleInv, OneRow, Running, Owns, LostOwner, Active
<1>7. InTurn'
  <2> SUFFICES ASSUME Serial' PROVE InTurn'
    BY DEF InTurn
  <2>1. InTurn /\ Serial /\ \A u \in Tasks : ~Active(u)
    BY <1>3 DEF SettleInv
  <2>2. \A u, w \in Tasks : Active(u)' /\ Active(w)' => u = w
    BY <1>4, <2>1
  <2>3. \A u \in Tasks : task'[u].st # "ensuring"
    BY <1>2, <2>1 DEF Active, Ended, Successful
  <2>4. \A i \in DOMAIN runs : LostOwner(i) => LostOwner(i)'
    BY <1>1, <1>2 DEF LostOwner
  <2>5. \A i \in DOMAIN runs : Running(i) => LostOwner(i) \/ (refusals > 0 /\ i < Len(runs))
    BY <2>1 DEF InTurn, Owns
  <2>6. DOMAIN runs' = DOMAIN runs /\ \A i \in DOMAIN runs : Running(i)' <=> Running(i)
    BY <1>1 DEF Running
  <2> QED
    BY <1>1, <2>1, <2>2, <2>3, <2>4, <2>5, <2>6 DEF InTurn
<1>8. OnTop'
  BY <1>1, <1>2, <1>3 DEF SettleInv, OnTop, Orderly, Reuses, Running
<1> QED
  BY <1>5, <1>6, <1>7, <1>8 DEF SettleInv

\* A fetch for other targets: nothing of rows and tasks changes.
LEMMA SettleElsewhere ==
    ASSUME TypeOK, SettleInv, NEW source \in Sources, FetchElsewhere(source)
    PROVE  SettleInv'
<1>1. UNCHANGED <<exists, runs, task, refusals>>
  BY DEF FetchElsewhere, Overlap, budgets
<1>2. CASE overlaps' = overlaps
  BY <1>1, <1>2, SettleFrame
<1>3. CASE overlaps' # overlaps
  <2>1. ~Serial'
    BY <1>3 DEF FetchElsewhere, Overlap, budgets, Serial, TypeOK
  <2> QED
    BY <1>1, <2>1 DEF SettleInv, Kept, OneRow, InTurn, OnTop, WasEnsured, Reuses, Running,
                      Owns, LostOwner, Active, Orderly
<1> QED
  BY <1>2, <1>3

LEMMA KeptKind ==
    ASSUME TypeOK, Kept, NEW t \in Tasks, OfAKind(t), exists' = exists
    PROVE  Kept'
<1> USE RowFacts DEF Kept, WasEnsured, Reuses, Running, Moves
<1>1. CASE Waits(t)
  BY <1>1 DEF Waits
<1>2. CASE Looks(t)
  <2>1. LiveRows(task[t].exec) # {} => runs # <<>>
    BY DEF LiveRows
  <2> QED
    BY <1>2, <2>1 DEF Looks
<1>3. CASE TakesRow(t)
  BY <1>3 DEF TakesRow
<1>4. CASE MakesRow(t)
  BY <1>4 DEF MakesRow, Adds
<1>5. CASE Matches(t)
  BY <1>5 DEF Matches
<1>6. CASE Completes(t)
  BY <1>6 DEF Completes, Shut
<1>7. CASE Leaves(t)
  BY <1>7 DEF Leaves
<1>8. CASE FindsNothing(t)
  BY <1>8 DEF FindsNothing
<1>9. CASE FailsLatest(t)
  <2>1. CASE runs = <<>>
    BY <1>9, <2>1 DEF FailsLatest
  <2>2. CASE runs # <<>>
    <3>1. Shut(Len(runs)) /\ runs' # <<>>
      BY <1>9, <2>2 DEF FailsLatest, Shut
    <3>2. \A i \in DOMAIN runs' : Running(i)' => runs'[i].history = {}
      BY <3>1 DEF Shut
    <3> QED
      BY <1>9, <2>2, <3>1, <3>2 DEF FailsLatest
  <2> QED
    BY <2>1, <2>2
<1>10. CASE AddsFailed(t)
  <2>1. /\ runs' # <<>> /\ exists
        /\ \A i \in DOMAIN runs' : Running(i)' => runs'[i].history = {}
    BY <1>10 DEF AddsFailed, Adds
  <2> QED
    BY <1>10, <2>1 DEF AddsFailed
<1>11. CASE FailsOwn(t)
  BY <1>11 DEF FailsOwn, Shut, LiveRows
<1> QED
  BY <1>1, <1>2, <1>3, <1>4, <1>5, <1>6, <1>7, <1>8, <1>9, <1>10, <1>11 DEF OfAKind

LEMMA OneRowKind ==
    ASSUME TypeOK, Kept, OneRow, NEW t \in Tasks, OfAKind(t), exists' = exists
    PROVE  OneRow'
<1> USE RowFacts DEF OneRow, Running, Owns, LostOwner, Active, Ended, Successful, Moves
<1>1. CASE Waits(t)
  BY <1>1 DEF Waits
<1>2. CASE Looks(t)
  BY <1>2 DEF Looks
<1>3. CASE TakesRow(t)
  BY <1>3 DEF TakesRow
<1>4. CASE MakesRow(t)
  <2> SUFFICES ASSUME Len(runs') = 1 PROVE OneRow'
    OBVIOUS
  <2>1. runs = <<>> /\ Len(runs) = 0
    BY <1>4 DEF MakesRow, Adds
  <2>2. \A u \in Tasks : task[u].st # "publishing"
    BY <1>4, <2>1 DEF MakesRow, Kept, WasEnsured
  <2>3. Owns(t, 1)'
    BY <1>4, <2>1 DEF MakesRow, Adds
  <2> QED
    BY <1>4, <2>2, <2>3 DEF MakesRow
<1>5. CASE Matches(t)
  BY <1>5 DEF Matches
<1>6. CASE Completes(t)
  <2>1. CASE runs = <<>>
    BY <1>6, <2>1 DEF Completes
  <2>2. CASE runs # <<>>
    <3>1. Shut(Len(runs))
      BY <1>6, <2>2 DEF Completes
    <3>2. Len(runs') = 1 => ~Running(1)'
      BY <3>1 DEF Shut
    <3> QED
      BY <3>2
  <2> QED
    BY <2>1, <2>2
<1>7. CASE Leaves(t)
  BY <1>7 DEF Leaves
<1>8. CASE FindsNothing(t)
  BY <1>8 DEF FindsNothing, Kept
<1>9. CASE FailsLatest(t)
  BY <1>9 DEF FailsLatest, Shut
<1>10. CASE AddsFailed(t)
  BY <1>10 DEF AddsFailed, Adds, LiveRows
<1>11. CASE FailsOwn(t)
  BY <1>11 DEF FailsOwn, Shut, LiveRows
<1> QED
  BY <1>1, <1>2, <1>3, <1>4, <1>5, <1>6, <1>7, <1>8, <1>9, <1>10, <1>11 DEF OfAKind

\* Whoever moves was at work, and nobody else is while runs come in turn.
LEMMA MoverActive ==
    ASSUME NEW t \in Tasks, OfAKind(t)
    PROVE  /\ Active(t)
           /\ \A u \in Tasks : u # t => task'[u] = task[u]
           /\ task'[t].exec = task[t].exec
<1> USE DEF Moves, Active, Ended, Successful
<1>1. CASE Waits(t) \/ Looks(t) \/ FindsNothing(t) \/ FailsLatest(t)
  BY <1>1 DEF Waits, Looks, FindsNothing, FailsLatest
<1>2. CASE AddsFailed(t) \/ FailsOwn(t)
  BY <1>2 DEF AddsFailed, FailsOwn
<1>3. CASE TakesRow(t) \/ MakesRow(t) \/ Matches(t) \/ Completes(t) \/ Leaves(t)
  BY <1>3 DEF TakesRow, MakesRow, Matches, Completes, Leaves
<1> QED
  BY <1>1, <1>2, <1>3 DEF OfAKind

LEMMA InTurnKind ==
    ASSUME TypeOK, Kept, InTurn, NEW t \in Tasks, OfAKind(t), exists' = exists,
           refusals' = refusals, overlaps' = overlaps
    PROVE  InTurn'
<1> DEFINE Excused(i) == LostOwner(i) \/ (refusals > 0 /\ i < Len(runs))
<1> SUFFICES ASSUME Serial PROVE InTurn'
  BY DEF InTurn, Serial
<1>1. /\ \A u, w \in Tasks : Active(u) /\ Active(w) => u = w
      /\ \A i, j \in DOMAIN runs :
             Running(i) /\ Running(j) /\ runs[i].exec = runs[j].exec => i = j
      /\ \A u \in Tasks : task[u].st = "ensuring" /\ ~task[u].reuse
             => LiveRows(task[u].exec) = {}
      /\ \A i \in DOMAIN runs : Running(i) =>
             Excused(i) \/ (i = Len(runs) /\ \E u \in Tasks : Owns(u, i))
  BY DEF InTurn
<1>2. /\ Active(t) /\ task'[t].exec = task[t].exec
      /\ \A u \in Tasks : u # t => task'[u] = task[u] /\ ~Active(u)
  BY <1>1, MoverActive
<1>3. \A u, w \in Tasks : Active(u)' /\ Active(w)' => u = w
  BY <1>2 DEF Active
<1>4. \A i \in DOMAIN runs : Running(i) =>
          \/ Excused(i)
          \/ i = Len(runs) /\ Owns(t, i) /\ i \in LiveRows(task[t].exec)
  <2>1. \A u \in Tasks, i \in DOMAIN runs : Owns(u, i) => u = t
    BY <1>2 DEF Owns
  <2> HIDE DEF Excused
  <2> QED
    BY <1>1, <2>1 DEF Running, Owns, LiveRows
<1>5. ASSUME NEW i \in DOMAIN runs, NEW j \in DOMAIN runs',
             LostOwner(i), runs'[j].exec = runs[i].exec
      PROVE  LostOwner(j)'
  <2>1. PICK u \in Tasks : task[u].exec = runs[i].exec /\ task[u].st = "lost"
    BY <1>5 DEF LostOwner
  <2>2. u # t
    BY <1>2, <2>1 DEF Active, Ended, Successful
  <2> QED
    BY <1>2, <1>5, <2>1, <2>2 DEF LostOwner
<1> DEFINE Looked == (task'[t].st = "ensuring" /\ ~task'[t].reuse) => LiveRows(task[t].exec)' = {}
           Single == \A i, j \in DOMAIN runs' :
               Running(i)' /\ Running(j)' /\ runs'[i].exec = runs'[j].exec => i = j
           Owned == \A i \in DOMAIN runs' : Running(i)' =>
               \/ LostOwner(i)'
               \/ i = Len(runs') /\ Owns(t, i)'
               \/ refusals > 0 /\ i < Len(runs')
<1>6. SUFFICES Looked /\ Single /\ Owned
  <2>1. \A u \in Tasks : task'[u].st = "ensuring" => u = t
    BY <1>2 DEF Active, Ended, Successful
  <2> QED
    BY <1>2, <1>3, <1>6, <2>1 DEF InTurn
<1>7. ASSUME runs' = runs, \A i \in DOMAIN runs : Owns(t, i) => Owns(t, i)' \/ LostOwner(i)'
      PROVE  Single /\ Owned
  <2>1. \A i : Running(i)' <=> Running(i)
    BY <1>7 DEF Running
  <2> QED
    BY <1>1, <1>4, <1>5, <1>7, <2>1
<1>8. CASE Waits(t)
  <2>1. \A i \in DOMAIN runs : Owns(t, i) => Owns(t, i)' \/ LostOwner(i)'
    BY <1>2, <1>8 DEF Waits, Moves, Owns, LostOwner, Active, Ended, Successful
  <2> QED
    BY <1>7, <1>8, <2>1 DEF Waits, Moves
<1>9. CASE Looks(t)
  <2>1. \A i \in DOMAIN runs : Owns(t, i) => Owns(t, i)' \/ LostOwner(i)'
    BY <1>2, <1>9 DEF Looks, Moves, Owns, Active, Ended, Successful
  <2>2. LiveRows(task[t].exec)' = LiveRows(task[t].exec)
    BY <1>2, <1>9 DEF Looks, LiveRows
  <2> QED
    BY <1>7, <1>9, <2>1, <2>2 DEF Looks, Moves
<1>10. CASE TakesRow(t) \/ Matches(t)
  <2>1. \A i \in DOMAIN runs : Owns(t, i) => Owns(t, i)' \/ LostOwner(i)'
    BY <1>2, <1>10 DEF TakesRow, Matches, Moves, Owns, Active, Ended, Successful
  <2> QED
    BY <1>7, <1>10, <2>1 DEF TakesRow, Matches, Moves
<1>11. CASE Leaves(t)
  <2>1. \A i \in DOMAIN runs : ~Owns(t, i)
    BY <1>11 DEF Leaves, Owns
  <2> QED
    BY <1>7, <1>11, <2>1 DEF Leaves, Moves, Successful
<1>12. CASE FindsNothing(t)
  <2>1. runs' = <<>> /\ DOMAIN runs' = {}
    BY <1>12 DEF FindsNothing, Kept
  <2> QED
    BY <1>12, <2>1 DEF FindsNothing, Moves
<1>13. CASE MakesRow(t)
  <2>1. LiveRows(task[t].exec) = {} /\ Adds(task[t].exec, "running") /\ task'[t].st = "matching"
    BY <1>1, <1>13 DEF MakesRow, Moves
  <2>2. Len(runs) \in Nat /\ DOMAIN runs = 1..Len(runs)
    BY RowFacts
  <2>3. \A i \in DOMAIN runs' : Running(i)' =>
            \/ i = Len(runs') /\ runs'[i].exec = task[t].exec
            \/ /\ i \in DOMAIN runs /\ i < Len(runs') /\ Running(i) /\ runs'[i] = runs[i]
               /\ runs[i].exec # task[t].exec
    BY <2>1, <2>2 DEF Adds, Running, LiveRows
  <2>4. Single
    BY <1>1, <2>3
  <2>5. \A i \in DOMAIN runs' : i = Len(runs') => Owns(t, i)'
    BY <1>2, <2>1, <2>2 DEF Owns, Adds, Active, Ended, Successful
  <2>6. \A i \in DOMAIN runs : Running(i) /\ runs[i].exec # task[t].exec => Excused(i)
    BY <1>4 DEF Owns
  <2>7. Owned
    BY <1>5, <2>2, <2>3, <2>5, <2>6
  <2> QED
    BY <2>1, <2>4, <2>7
<1>14. CASE AddsFailed(t)
  <2>1. LiveRows(task[t].exec) = {} /\ Adds(task[t].exec, "failed") /\ task'[t].st = "over"
    BY <1>14 DEF AddsFailed, Moves
  <2>2. Len(runs) \in Nat /\ DOMAIN runs = 1..Len(runs)
    BY RowFacts
  <2>3. \A i \in DOMAIN runs' : Running(i)' =>
            /\ i \in DOMAIN runs /\ i < Len(runs') /\ Running(i) /\ runs'[i] = runs[i]
            /\ runs[i].exec # task[t].exec
    BY <2>1, <2>2 DEF Adds, Running, LiveRows
  <2>4. Single
    BY <1>1, <2>3
  <2>5. \A i \in DOMAIN runs : Running(i) /\ runs[i].exec # task[t].exec => Excused(i)
    BY <1>4 DEF Owns
  <2>6. Owned
    BY <1>5, <2>2, <2>3, <2>5
  <2> QED
    BY <2>1, <2>4, <2>6
<1>15. ASSUME NEW k \in DOMAIN runs, Shut(k), task'[t].st # "ensuring",
              \A i \in DOMAIN runs : Running(i) /\ i # k => Excused(i)
       PROVE  Looked /\ Single /\ Owned
  <2>1. /\ Len(runs') = Len(runs) /\ DOMAIN runs' = DOMAIN runs
        /\ \A i \in DOMAIN runs' :
              /\ runs'[i].exec = runs[i].exec
              /\ Running(i)' => Running(i) /\ i # k
    BY <1>15 DEF Shut, Running
  <2>2. Single
    BY <1>1, <2>1
  <2>3. Owned
    BY <1>5, <1>15, <2>1
  <2> QED
    BY <1>15, <2>2, <2>3
<1>16. ASSUME task'[t].st # "ensuring", runs = <<>>, runs' = runs
       PROVE  Looked /\ Single /\ Owned
  BY <1>16
<1>17. CASE Completes(t) \/ FailsLatest(t)
  <2>1. task'[t].st # "ensuring"
    BY <1>17 DEF Completes, FailsLatest, Moves
  <2>2. CASE runs = <<>>
    BY <1>16, <1>17, <2>1, <2>2 DEF Completes, FailsLatest
  <2>3. CASE runs # <<>>
    <3>1. Len(runs) \in DOMAIN runs /\ Shut(Len(runs))
      BY <1>17, <2>3, LatestInDomain DEF Completes, FailsLatest
    <3>2. \A i \in DOMAIN runs : Running(i) /\ i # Len(runs) => Excused(i)
      BY <1>4
    <3> QED
      BY <1>15, <2>1, <3>1, <3>2
  <2> QED
    BY <2>2, <2>3
<1>18. CASE FailsOwn(t)
  <2>1. PICK k \in LiveRows(task[t].exec) : Shut(k)
    BY <1>18 DEF FailsOwn
  <2>2. k \in DOMAIN runs /\ Running(k) /\ runs[k].exec = task[t].exec
    BY <2>1 DEF LiveRows, Running
  <2>3. \A i \in DOMAIN runs : Running(i) /\ i # k => Excused(i)
    BY <1>1, <1>4, <2>2 DEF Owns
  <2> QED
    BY <1>15, <1>18, <2>1, <2>2, <2>3 DEF FailsOwn, Moves
<1> QED
  BY <1>8, <1>9, <1>10, <1>11, <1>12, <1>13, <1>14, <1>17, <1>18 DEF OfAKind

LEMMA OnTopKind ==
    ASSUME TypeOK, Kept, InTurn, OnTop, NEW t \in Tasks, OfAKind(t), exists' = exists,
           refusals' = refusals, overlaps' = overlaps
    PROVE  OnTop'
<1> SUFFICES ASSUME Orderly' PROVE OnTop'
  BY DEF OnTop
<1>1. /\ Active(t) /\ task'[t].exec = task[t].exec
      /\ \A u \in Tasks : u # t => task'[u] = task[u]
  BY MoverActive
<1>2. Orderly
  BY <1>1 DEF Orderly, Serial, Active, Ended, Successful
<1>3. \A u \in Tasks : task[u].st \in {"matching", "finalizing"} \/ Reuses(u)
          => runs = <<>> \/ Running(Len(runs))
  BY <1>2 DEF OnTop
<1>4. \A u \in Tasks : u # t => task'[u].st \notin {"matching", "finalizing", "ensuring"}
  BY <1>1, <1>2 DEF InTurn, Orderly, Active, Ended, Successful
<1>5. \A i \in DOMAIN runs : Running(i) => i = Len(runs)
  BY <1>2 DEF InTurn, Orderly, LostOwner, TypeOK
<1>6. ASSUME task'[t].st \in {"matching", "finalizing"} \/ Reuses(t)'
                 => runs' = <<>> \/ Running(Len(runs))'
      PROVE  OnTop'
  BY <1>4, <1>6 DEF OnTop, Reuses
<1>7. CASE Waits(t) \/ Leaves(t) \/ FindsNothing(t)
  <2>1. runs' = runs /\ task'[t].st \notin {"matching", "finalizing", "ensuring"}
    BY <1>7 DEF Waits, Leaves, FindsNothing, Moves, Successful
  <2> QED
    BY <1>3, <1>6, <2>1 DEF Reuses
<1>8. CASE Looks(t)
  <2>1. runs' = runs /\ task'[t].st = "ensuring"
        /\ task'[t].reuse = (LiveRows(task[t].exec) # {})
    BY <1>8 DEF Looks, Moves
  <2>2. LiveRows(task[t].exec) # {} => Running(Len(runs))
    BY <1>5 DEF LiveRows, Running
  <2>3. Running(Len(runs))' <=> Running(Len(runs))
    BY <2>1 DEF Running
  <2> QED
    BY <1>3, <1>6, <2>1, <2>2, <2>3 DEF Reuses
<1>9. CASE TakesRow(t) \/ Matches(t)
  <2>1. runs' = runs /\ (Reuses(t) \/ task[t].st = "matching")
    BY <1>9 DEF TakesRow, Matches, Reuses
  <2>2. Running(Len(runs))' <=> Running(Len(runs))
    BY <2>1 DEF Running
  <2> QED
    BY <1>3, <1>6, <2>1, <2>2
<1>10. CASE MakesRow(t)
  <2>1. Adds(task[t].exec, "running")
    BY <1>10 DEF MakesRow
  <2>2. Running(Len(runs))'
    BY <2>1, RowFacts DEF Adds, Running
  <2> QED
    BY <1>6, <2>2
<1>11. CASE AddsFailed(t) \/ Completes(t) \/ FailsLatest(t) \/ FailsOwn(t)
  <2>1. task'[t].st \in {"queued", "over", "publishing"}
    BY <1>11 DEF AddsFailed, Completes, FailsLatest, FailsOwn, Moves
  <2> QED
    BY <1>6, <2>1 DEF Reuses
<1> QED
  BY <1>7, <1>8, <1>9, <1>10, <1>11 DEF OfAKind

LEMMA SettleStep ==
    ASSUME TypeOK, SettleInv, [Next]_vars
    PROVE  SettleInv'
<1>1. CASE FetchStep
  BY <1>1, SettleFetch, SettleElsewhere DEF FetchStep
<1>2. CASE DeleteSync
  BY <1>2, SettleGone DEF DeleteSync, budgets
<1>3. CASE ManualStep
  BY <1>3, SettleFrame
     DEF ManualStep, AskMatch, ReadTrack, SaveMatch, NoMatch, MatchLost, budgets
<1>4. CASE RefuseDispatch
  <2>1. Adds(Refusal, "failed")
    BY <1>4, AppendAdds DEF RefuseDispatch
  <2> QED
    BY <1>4, <2>1, SettleRefused DEF RefuseDispatch
<1>5. ASSUME NEW t \in Tasks, ChildStep(t) \/ WorkerLost(t) \/ Killed(t) PROVE SettleInv'
  <2>1. OfAKind(t) /\ exists' = exists /\ refusals' = refusals /\ overlaps' = overlaps
    BY <1>5, ChildKinds
  <2> QED
    BY <2>1, KeptKind, OneRowKind, InTurnKind, OnTopKind DEF SettleInv
<1>6. CASE UNCHANGED vars
  BY <1>6, SettleFrame DEF vars
<1> QED
  BY <1>1, <1>2, <1>3, <1>4, <1>5, <1>6 DEF Next, OtherStep

LEMMA Settling ==
    Spec => [](TypeOK /\ SettleInv)
<1>1. Init => TypeOK /\ SettleInv
  BY TypesInit, SettleInit
<1>2. TypeOK /\ SettleInv /\ [Next]_vars => TypeOK' /\ SettleInv'
  BY TypesStep, SettleStep
<1> QED
  BY <1>1, <1>2, PTL DEF Spec

\* A row says "running" only while a task of its execution is at work on it, or
\* one of the three known ways of leaving it behind has happened, for any number
\* of tasks, executions and retries (phases.py 420-432, tasks.py 453-467).
THEOREM RowsSettle == Spec => []RunsSettle
<1>1. TypeOK /\ SettleInv => RunsSettle
  <2> SUFFICES ASSUME TypeOK, SettleInv, NEW i \in DOMAIN runs, Running(i)
               PROVE  \/ \E t \in Tasks : task[t].exec = runs[i].exec
                                          /\ (Active(t) \/ task[t].st = "lost")
                      \/ refusals > 0 /\ i < Len(runs)
                      \/ ~Serial /\ Len(runs) > 1
    BY DEF RunsSettle, Running
  <2>1. CASE Serial
    BY <2>1 DEF SettleInv, InTurn, LostOwner, Owns
  <2>2. CASE Len(runs) = 1
    BY <2>2, RowFacts DEF SettleInv, OneRow, LostOwner, Owns
  <2> QED
    BY <2>1, <2>2, RowFacts
<1> QED
  BY <1>1, Settling, PTL

\* While runs are orderly, one task is at work, and the only row that can be
\* running is the latest, its own.
LEMMA OneAtWork ==
    ASSUME TypeOK, SettleInv, Orderly, NEW t \in Tasks, Active(t)
    PROVE  /\ \A u \in Tasks : u # t => ~Active(u)
           /\ \A i \in DOMAIN runs : Running(i) =>
                 i = Len(runs) /\ runs[i].exec = task[t].exec /\ task[t].st # "publishing"
<1>1. \A u \in Tasks : u # t => ~Active(u)
  BY DEF SettleInv, InTurn, Orderly
<1>2. \A i \in DOMAIN runs : Running(i) => i = Len(runs) /\ \E u \in Tasks : Owns(u, i)
  BY DEF SettleInv, InTurn, Orderly, LostOwner
<1> QED
  BY <1>1, <1>2 DEF Owns

\* However often tasks are retried, redelivered or killed and whatever fails, an
\* attempt at finalization finds a row of its own that has no history yet, as long
\* as no task ended without a record, no dispatch was refused and no run overlapped
\* (pipeline.py 125-160, phases.py 434-482).
THEOREM SnapshotsAlwaysFit == Spec => []SnapshotsFit
<1>1. TypeOK /\ SettleInv => SnapshotsFit
  <2> SUFFICES ASSUME TypeOK, SettleInv, Orderly, NEW t \in Tasks,
                      task[t].st = "finalizing", runs # <<>>
               PROVE  LET row == runs[Len(runs)] IN
                      row.exec = task[t].exec /\ row.status = "running" /\ row.history = {}
    BY DEF SnapshotsFit
  <2>1. Active(t)
    BY DEF Active, Ended, Successful
  <2>2. Running(Len(runs))
    BY DEF SettleInv, OnTop
  <2>3. runs[Len(runs)].exec = task[t].exec
    BY <2>1, <2>2, OneAtWork DEF Running
  <2> QED
    BY <2>2, <2>3 DEF SettleInv, Kept, Running
<1> QED
  BY <1>1, Settling, PTL

-----------------------------------------------------------------------------
(* The playlist is what the history says *)

\* A task has an execution as soon as there is one, and only a refused dispatch
\* leaves a row of no execution.
Named ==
    /\ \A t \in Tasks : task[t].st = "absent" <=> task[t].exec = Refusal
    /\ refusals = 0 => \A i \in DOMAIN runs : runs[i].exec # Refusal

Latest == runs[Len(runs)]
LinksOf(row) == {h.link : h \in row.history}

\* The running row has no history yet, and its batch has every track.
Batched ==
    (runs # <<>> /\ Latest.status = "running") =>
        /\ Latest.history = {}
        /\ \A i \in DOMAIN tracks : tracks[i].item \in Latest.batch

\* What a task is about to publish is what it has just recorded.
Sent ==
    runs # <<>> => \A t \in Tasks : task[t].st = "publishing" =>
        /\ Latest.status = "completed" /\ Latest.exec = task[t].exec
        /\ task[t].out = LinksOf(Latest)

EndedIn(ends) == \A t \in Tasks : task[t].exec = Latest.exec => task[t].st \in ends

Right ==
    (runs # <<>> /\ Latest.status = "completed" /\ Latest.history # {}) =>
        /\ EndedIn({"published", "added"}) => LinksOf(Latest) \subseteq playlist
        /\ EndedIn({"published", "short"}) => playlist \subseteq LinksOf(Latest)

Recorded == Orderly => Batched /\ Sent /\ Right

LEMMA NamedInit ==
    Init => Named /\ Recorded
  BY DEF Init, NewTask, Named, Recorded, Batched, Sent, Right

LEMMA NamedStep ==
    ASSUME TypeOK, Named, [Next]_vars
    PROVE  Named'
<1>1. ASSUME NEW t \in Tasks, NEW exec \in Execs, NEW source \in Sources,
             Fetch(t, exec, source)
      PROVE  Named'
  <2>1. \E st \in {"queued", "over"} : \E items :
            task' = [task EXCEPT ![t] = NewTask(st, exec, items)]
    BY <1>1 DEF Fetch
  <2>2. task'[t].st # "absent" /\ task'[t].exec = exec
        /\ \A u \in Tasks : u # t => task'[u] = task[u]
    BY <2>1 DEF NewTask, TypeOK
  <2> QED
    BY <1>1, <2>2 DEF Named, Fetch, Overlap, budgets
<1>2. CASE DeleteSync \/ ManualStep \/ UNCHANGED vars
  <2>1. UNCHANGED <<task, refusals>> /\ (runs' = runs \/ runs' = <<>>)
    BY <1>2 DEF DeleteSync, ManualStep, AskMatch, ReadTrack, SaveMatch, NoMatch, MatchLost,
                budgets, vars
  <2> QED
    BY <2>1 DEF Named
<1>3. CASE RefuseDispatch
  BY <1>3 DEF Named, RefuseDispatch, TypeOK
<1>4. ASSUME NEW t \in Tasks, ChildStep(t) \/ WorkerLost(t) \/ Killed(t) PROVE Named'
  <2>1. OfAKind(t) /\ refusals' = refusals
    BY <1>4, ChildKinds
  <2>2. /\ Active(t) /\ task'[t].exec = task[t].exec
        /\ \A u \in Tasks : u # t => task'[u] = task[u]
    BY <2>1, MoverActive
  <2>3. task'[t].st # "absent"
    BY <2>1 DEF Successful, OfAKind, Moves, Waits, Looks, TakesRow, MakesRow, Matches,
       Completes, Leaves,
                FindsNothing, FailsLatest, AddsFailed, FailsOwn
  <2>4. \A i \in DOMAIN runs' : \/ runs'[i].exec = task[t].exec
                                \/ i \in DOMAIN runs /\ runs'[i].exec = runs[i].exec
    <3>1. CASE runs' = runs
      BY <3>1
    <3>2. CASE \E i : Shut(i)
      BY <3>2 DEF Shut
    <3>3. CASE \E st : Adds(task[t].exec, st)
      BY <3>3, RowFacts DEF Adds
    <3> QED
      BY <2>1, <3>1, <3>2, <3>3
         DEF OfAKind, Waits, Looks, TakesRow, MakesRow, Matches, Completes, Leaves,
             FindsNothing, FailsLatest, AddsFailed, FailsOwn
  <2> QED
    BY <2>1, <2>2, <2>3, <2>4 DEF Named, Active
<1>5. ASSUME NEW source \in Sources, FetchElsewhere(source) PROVE Named'
  BY <1>5 DEF Named, FetchElsewhere, Overlap, budgets
<1> QED
  BY <1>1, <1>2, <1>3, <1>4, <1>5 DEF Next, FetchStep, OtherStep

\* The latest row ends failed, or there is none: nothing is claimed of it.
LEMMA RecordedFailed ==
    ASSUME TypeOK, SettleInv, Orderly, NEW t \in Tasks, Active(t),
           \A u \in Tasks : u # t => task'[u] = task[u], task'[t].st # "publishing",
           runs' # <<>> => runs'[Len(runs')].status = "failed"
    PROVE  (Batched /\ Sent /\ Right)'
<1>1. \A u \in Tasks : task'[u].st # "publishing"
  BY OneAtWork DEF Active, Ended, Successful
<1> QED
  BY <1>1 DEF Batched, Sent, Right, Latest

\* The rows stay, and the task at work goes on, or waits, or gives up.
LEMMA RecordedStays ==
    ASSUME TypeOK, SettleInv, Orderly, Batched, Sent, Right, NEW t \in Tasks, Active(t),
           \A u \in Tasks : u # t => task'[u] = task[u], task'[t].exec = task[t].exec,
           task'[t].st \notin {"publishing"} \cup Successful, runs' = runs,
           playlist' = playlist \/ task[t].st = "publishing",
           \A i \in DOMAIN tracks' : \E j \in DOMAIN tracks : tracks'[i].item = tracks[j].item
    PROVE  (Batched /\ Sent /\ Right)'
<1>1. \A u \in Tasks : task'[u].st # "publishing"
  BY OneAtWork DEF Active, Ended, Successful
<1>2. Batched'
  BY DEF Batched, Latest
<1>3. Sent'
  BY <1>1 DEF Sent
<1>4. CASE runs # <<>> /\ task[t].exec = Latest.exec
  <2>1. ~EndedIn({"published", "added"})' /\ ~EndedIn({"published", "short"})'
    BY <1>4 DEF EndedIn, Latest, Successful
  <2> QED
    BY <1>2, <1>3, <2>1 DEF Right
<1>5. CASE runs = <<>> \/ task[t].exec # Latest.exec
  <2>1. runs # <<>> => playlist' = playlist
    BY <1>5 DEF Sent
  <2>2. \A ends : runs # <<>> /\ EndedIn(ends)' => EndedIn(ends)
    BY <1>5 DEF EndedIn, Latest
  <2> QED
    BY <1>2, <1>3, <2>1, <2>2 DEF Right, Latest, LinksOf
<1> QED
  BY <1>4, <1>5

\* Marking a row of the task at work failed leaves the latest row failed.
LEMMA LatestIsFailed ==
    ASSUME TypeOK, runs # <<>>, runs' = [runs EXCEPT ![Len(runs)].status = "failed"]
    PROVE  runs'[Len(runs')].status = "failed"
<1>1. runs \in Seq(RunRow) /\ Len(runs) \in DOMAIN runs /\ runs[Len(runs)] \in RunRow
  BY DEF TypeOK
<1>2. Len(runs') = Len(runs)
      /\ runs'[Len(runs)] = [runs[Len(runs)] EXCEPT !.status = "failed"]
  BY <1>1
<1> QED
  BY <1>1, <1>2 DEF RunRow

\* Appending a row makes it the latest.
LEMMA LatestIsNew ==
    ASSUME TypeOK, NEW row, runs' = Append(runs, row)
    PROVE  runs' # <<>> /\ runs'[Len(runs')] = row
<1>1. runs \in Seq(RunRow)
  BY DEF TypeOK
<1> QED
  BY <1>1

\* The tracks that carry a link are all in a batch with every track.
LEMMA SnapshotLinks ==
    ASSUME NEW batch, \A i \in DOMAIN tracks : tracks[i].item \in batch
    PROVE  {h.link : h \in Snapshot(batch)} = Links
<1>1. Snapshot(batch) = {[item |-> tracks[i].item, link |-> tracks[i].link] :
                            i \in {j \in DOMAIN tracks : tracks[j].link # NoLink}}
  BY DEF Snapshot
<1>2. ASSUME NEW h \in Snapshot(batch) PROVE h.link \in Links
  BY <1>1, <1>2 DEF Links
<1>3. ASSUME NEW l \in Links PROVE \E h \in Snapshot(batch) : l = h.link
  <2>1. PICK i \in DOMAIN tracks : tracks[i].link = l /\ l # NoLink
    BY <1>3 DEF Links
  <2>2. [item |-> tracks[i].item, link |-> tracks[i].link] \in Snapshot(batch)
    BY <1>1, <2>1
  <2> QED
    BY <2>1, <2>2
<1> QED
  BY <1>2, <1>3

\* The transaction of the finalization.
LEMMA RecordedFinalize ==
    ASSUME TypeOK, SettleInv, Orderly, Batched, NEW t \in Tasks, Finalize(t)
    PROVE  (Batched /\ Sent /\ Right)'
<1>1. Active(t)
  BY DEF Finalize, Active, Ended, Successful
<1>2. /\ \A u \in Tasks : u # t => task'[u] = task[u]
      /\ task'[t].st = "publishing" /\ task'[t].exec = task[t].exec /\ task'[t].out = Links
  BY DEF Finalize, TypeOK, ChildTask
<1>3. CASE runs = <<>>
  BY <1>3 DEF Finalize, LatestCompleted, Batched, Sent, Right
<1>4. CASE runs # <<>>
  <2> DEFINE row == runs[Len(runs)]
             new == CompletedRow(row)
  <2>1. Len(runs) \in DOMAIN runs /\ runs \in Seq(RunRow) /\ row \in RunRow
    BY <1>4, LatestInDomain DEF TypeOK
  <2>2. row.status = "running" /\ row.exec = task[t].exec
    <3>1. Running(Len(runs))
      BY <1>4 DEF SettleInv, OnTop, Finalize
    <3> QED
      BY <1>1, <2>1, <3>1, OneAtWork DEF Running
  <2>3. row.history = {} /\ {h.link : h \in Snapshot(row.batch)} = Links
    BY <1>4, <2>2, SnapshotLinks DEF Batched, Latest
  <2>4. new.status = "completed" /\ new.exec = row.exec /\ new.history = Snapshot(row.batch)
    BY <2>1, <2>3 DEF CompletedRow, RunRow
  <2>5. runs' # <<>> /\ runs'[Len(runs')] = new
    <3> HIDE DEF new
    <3>1. runs' = [runs EXCEPT ![Len(runs)] = new]
      BY <1>4 DEF Finalize, LatestCompleted, new
    <3> QED
      BY <1>4, <2>1, <3>1
  <2> HIDE DEF new
  <2>6. Latest' = new
    BY <2>5 DEF Latest
  <2>7. LinksOf(Latest)' = Links
    BY <2>3, <2>4, <2>6 DEF LinksOf
  <2>8. \A u \in Tasks : u # t => task'[u].st # "publishing"
    BY <1>1, <1>2, OneAtWork DEF Active, Ended, Successful
  <2>9. Batched' /\ Sent'
    BY <1>2, <2>2, <2>4, <2>6, <2>7, <2>8 DEF Batched, Sent
  <2>10. Right'
    BY <1>2, <2>2, <2>4, <2>6 DEF Right, EndedIn
  <2> QED
    BY <2>9, <2>10
<1> QED
  BY <1>3, <1>4

\* The publication.
LEMMA RecordedPublish ==
    ASSUME TypeOK, SettleInv, Orderly, Batched, Sent, NEW t \in Tasks,
           Publish(t) \/ PublishUnread(t) \/ PublishShort(t)
    PROVE  (Batched /\ Sent /\ Right)'
<1>1. Active(t) /\ task[t].st = "publishing"
  BY DEF Publish, PublishUnread, PublishShort, Active, Ended, Successful
<1>2. /\ runs' = runs /\ tracks' = tracks
      /\ \E st \in Successful : Ends(t, st)
  BY DEF Publish, PublishUnread, PublishShort, Successful
<1>3. /\ \A u \in Tasks : u # t => task'[u] = task[u]
      /\ task'[t].st \in Successful /\ task'[t].exec = task[t].exec
  BY <1>2 DEF Ends, NewTask, TypeOK
<1>4. \A u \in Tasks : task'[u].st # "publishing"
  BY <1>1, <1>3, OneAtWork DEF Active, Ended, Successful
<1>5. Batched' /\ Sent'
  BY <1>2, <1>4 DEF Batched, Sent, Latest
<1>6. Right'
  <2> SUFFICES ASSUME runs # <<>>, Latest.history # {}
               PROVE  /\ EndedIn({"published", "added"})' => LinksOf(Latest) \subseteq playlist'
                      /\ EndedIn({"published", "short"})' => playlist' \subseteq LinksOf(Latest)
    BY <1>2 DEF Right, Latest, LinksOf
  <2>1. task[t].out = LinksOf(Latest) /\ task[t].exec = Latest.exec
    BY <1>1 DEF Sent
  <2>2. LinksOf(Latest) # {}
    BY DEF LinksOf
  <2>3. \A ends : EndedIn(ends)' => task'[t].st \in ends
    BY <1>2, <1>3, <2>1 DEF EndedIn, Latest
  <2>4. CASE Publish(t)
    BY <2>1, <2>2, <2>4 DEF Publish
  <2>5. CASE PublishUnread(t)
    <3>1. task'[t].st = "added" /\ LinksOf(Latest) \subseteq playlist'
      BY <2>1, <2>5 DEF PublishUnread, Ends, NewTask, TypeOK
    <3> QED
      BY <2>3, <3>1
  <2>6. CASE PublishShort(t)
    <3>1. task'[t].st = "short" /\ playlist' \subseteq LinksOf(Latest)
      BY <2>1, <2>6 DEF PublishShort, Ends, NewTask, TypeOK
    <3> QED
      BY <2>3, <3>1
  <2> QED
    BY <2>4, <2>5, <2>6
<1> QED
  BY <1>5, <1>6

\* Every step of the task at work.
LEMMA RecordedChild ==
    ASSUME TypeOK, SettleInv, Orderly, Batched, Sent, Right, NEW t \in Tasks,
           ChildStep(t) \/ WorkerLost(t) \/ Killed(t)
    PROVE  (Batched /\ Sent /\ Right)'
<1>1. OfAKind(t)
  BY ChildKinds
<1>2. /\ Active(t) /\ task'[t].exec = task[t].exec
      /\ \A u \in Tasks : u # t => task'[u] = task[u]
  BY <1>1, MoverActive
<1>3. ASSUME task'[t].st \notin {"publishing"} \cup Successful, runs' = runs, tracks' = tracks,
             playlist' = playlist \/ task[t].st = "publishing"
      PROVE  (Batched /\ Sent /\ Right)'
  BY <1>2, <1>3, RecordedStays
<1>4. ASSUME task'[t].st # "publishing", runs' # <<>> => runs'[Len(runs')].status = "failed"
      PROVE  (Batched /\ Sent /\ Right)'
  BY <1>2, <1>4, RecordedFailed
<1>5. CASE ConnectionFails(t)
  <2>1. task'[t].st \in {"over", "lost"} /\ tracks' = tracks /\ playlist' = playlist
    BY <1>5 DEF ConnectionFails, Ends, NewTask, TypeOK
  <2>2. CASE runs' = runs
    BY <1>3, <2>1, <2>2 DEF Successful
  <2>3. CASE runs' = Append(runs, NewRun(task[t].exec, "failed", {}))
    BY <1>4, <2>1, <2>3, LatestIsNew DEF NewRun
  <2>4. ASSUME NEW i \in LiveRows(task[t].exec), runs' = [runs EXCEPT ![i].status = "failed"]
        PROVE  (Batched /\ Sent /\ Right)'
    <3>1. i = Len(runs) /\ runs # <<>>
      BY <1>2, <2>4, OneAtWork, RowFacts DEF LiveRows, Running
    <3> QED
      BY <1>4, <2>1, <2>4, <3>1, LatestIsFailed
  <2> QED
    BY <1>5, <2>2, <2>3, <2>4 DEF ConnectionFails
<1>6. CASE LookForRun(t)
  <2>1. task'[t].st \in {"over", "ensuring"}
    <3>1. CASE Ends(t, "over")
      BY <3>1 DEF Ends, NewTask, TypeOK
    <3>2. CASE ~Ends(t, "over")
      <4>1. PICK f \in BOOLEAN :
                task' = [task EXCEPT ![t] = [task[t] EXCEPT !.st = "ensuring", !.reuse = f]]
        BY <1>6, <3>2 DEF LookForRun
      <4> QED
        BY <4>1 DEF TypeOK, ChildTask
    <3> QED
      BY <3>1, <3>2
  <2> QED
    BY <1>3, <1>6, <2>1 DEF LookForRun, Successful
<1>7. CASE EnsureRun(t)
  <2>1. task'[t].st = "matching" /\ tracks' = tracks /\ playlist' = playlist
    BY <1>7 DEF EnsureRun, Goes, TypeOK, ChildTask
  <2>2. CASE task[t].reuse
    BY <1>3, <1>7, <2>1, <2>2 DEF EnsureRun, Successful
  <2>3. CASE ~task[t].reuse
    <3> DEFINE row == NewRun(task[t].exec, "running", {tracks[i].item : i \in DOMAIN tracks})
    <3>1. Latest' = row
      BY <1>7, <2>3, LatestIsNew DEF EnsureRun, Latest
    <3>2. row.status = "running" /\ row.history = {}
          /\ \A i \in DOMAIN tracks : tracks[i].item \in row.batch
      BY DEF NewRun
    <3> HIDE DEF row
    <3>3. \A u \in Tasks : task'[u].st # "publishing"
      BY <1>2, <2>1, OneAtWork DEF Active, Ended, Successful
    <3> QED
      BY <2>1, <3>1, <3>2, <3>3 DEF Batched, Sent, Right
  <2> QED
    BY <2>2, <2>3
<1>8. ASSUME NEW hits \in SUBSET DOMAIN tracks, Match(t, hits) PROVE (Batched /\ Sent /\ Right)'
  <2>1. task'[t].st = "finalizing" /\ runs' = runs /\ playlist' = playlist
    BY <1>8 DEF Match, Goes, TypeOK, ChildTask
  <2>2. \A i \in DOMAIN tracks' : i \in DOMAIN tracks /\ tracks'[i].item = tracks[i].item
    <3>1. \A i \in DOMAIN tracks : tracks[i] \in TrackRow
      BY DEF TypeOK
    <3> QED
      BY <1>8, <3>1 DEF Match, Matched, TrackRow
  <2> QED
    BY <1>2, <2>1, <2>2, RecordedStays DEF Successful
<1>9. CASE PublishSilentlyFails(t)
  <2>1. task'[t].st = "over"
    BY <1>9 DEF PublishSilentlyFails, Ends, NewTask, TypeOK
  <2> QED
    BY <1>3, <1>9, <2>1 DEF PublishSilentlyFails, Successful
<1>10. CASE StepRaises(t)
  <2>1. /\ tracks' = tracks
        /\ playlist' = playlist \/ task[t].st = "publishing"
    BY <1>10 DEF StepRaises, CutShort
  <2>2. task'[t].st \in {"queued", "over", "lost"}
    <3>1. \E st \in {"over", "lost"} : RetryOr(t, st)
      BY <1>10 DEF StepRaises, Fails
    <3>2. \A st \in {"over", "lost"} : RetryOr(t, st) => Moves(t, "queued") \/ Moves(t, st)
      BY GoesMoves DEF States
    <3> QED
      BY <3>1, <3>2 DEF Moves
  <2>3. runs' = runs \/ (runs # <<>> /\ runs' = [runs EXCEPT ![Len(runs)].status = "failed"])
    BY <1>10 DEF StepRaises, Fails, LatestFailed
  <2> QED
    BY <1>3, <1>4, <2>1, <2>2, <2>3, LatestIsFailed DEF Successful
<1>11. CASE WorkerLost(t)
  <2>1. task'[t].st = "queued"
    BY <1>11 DEF WorkerLost, TypeOK, ChildTask
  <2> QED
    BY <1>3, <1>11, <2>1 DEF WorkerLost, CutShort, Successful
<1>12. CASE Killed(t)
  <2>1. task'[t].st = "lost"
    BY <1>12 DEF Killed, Ends, NewTask, TypeOK
  <2> QED
    BY <1>3, <1>12, <2>1 DEF Killed, CutShort, Successful
<1> QED
  BY <1>5, <1>6, <1>7, <1>8, <1>9, <1>10, <1>11, <1>12, RecordedFinalize, RecordedPublish
     DEF ChildStep

\* While nobody is at work the latest row has ended, and is of an execution.
LEMMA NobodyRuns ==
    ASSUME TypeOK, SettleInv, Named, Orderly, \A u \in Tasks : ~Active(u), runs # <<>>
    PROVE  Latest.status # "running" /\ Latest.exec # Refusal
<1>1. Len(runs) \in DOMAIN runs
  BY LatestInDomain
<1>2. ~Running(Len(runs))
  BY <1>1 DEF SettleInv, InTurn, Orderly, LostOwner, Owns
<1> QED
  BY <1>1, <1>2 DEF Latest, Running, Named, Orderly

\* A fetch: nobody is at work, so nothing is running or being published.
LEMMA RecordedFetch ==
    ASSUME TypeOK, SettleInv, Named, Orderly, Sent, Right,
           \A u \in Tasks : ~Active(u),
           NEW t \in Tasks, NEW exec \in Execs, NEW source \in Sources, Fetch(t, exec, source)
    PROVE  (Batched /\ Sent /\ Right)'
<1>1. runs' = runs /\ playlist' = playlist /\ task[t].st = "absent"
  BY DEF Fetch
<1>2. /\ \A u \in Tasks : u # t => task'[u] = task[u]
      /\ task'[t].st \in {"queued", "over"}
  <2>1. \E st \in {"queued", "over"} : \E items :
            task' = [task EXCEPT ![t] = NewTask(st, exec, items)]
    BY DEF Fetch
  <2> QED
    BY <2>1 DEF NewTask, TypeOK
<1>3. \A u \in Tasks : task'[u].st # "publishing"
  BY <1>2 DEF Active, Ended, Successful
<1>4. runs # <<>> => Latest.status # "running" /\ task[t].exec # Latest.exec
  BY <1>1, NobodyRuns DEF Named
<1>5. \A ends : runs # <<>> /\ EndedIn(ends)' => EndedIn(ends)
  BY <1>1, <1>2, <1>4 DEF EndedIn, Latest
<1>6. Right'
  BY <1>1, <1>5 DEF Right, Latest, LinksOf
<1> QED
  BY <1>1, <1>3, <1>4, <1>6 DEF Batched, Sent, Latest

\* So does a fetch for other targets.
LEMMA RecordedElsewhere ==
    ASSUME TypeOK, SettleInv, Named, Orderly, Sent, Right,
           \A u \in Tasks : ~Active(u), NEW source \in Sources, FetchElsewhere(source)
    PROVE  (Batched /\ Sent /\ Right)'
<1>1. UNCHANGED <<runs, playlist, task>>
  BY DEF FetchElsewhere
<1> QED
  BY <1>1, NobodyRuns DEF Batched, Sent, Right, EndedIn, Latest, LinksOf

\* A match by hand changes links, never the tracks.
LEMMA RecordedManual ==
    ASSUME TypeOK, Batched, Sent, Right, ManualStep
    PROVE  (Batched /\ Sent /\ Right)'
<1>1. UNCHANGED <<runs, task, playlist>>
  BY DEF ManualStep, AskMatch, ReadTrack, SaveMatch, NoMatch, MatchLost
<1>2. \A i \in DOMAIN tracks' : i \in DOMAIN tracks /\ tracks'[i].item = tracks[i].item
  <2>1. CASE SaveMatch
    <3>1. \A i \in DOMAIN tracks : tracks[i] \in TrackRow
      BY DEF TypeOK
    <3> QED
      BY <2>1, <3>1 DEF SaveMatch, TrackRow
  <2>2. CASE ~SaveMatch
    BY <2>2 DEF ManualStep, AskMatch, ReadTrack, NoMatch, MatchLost
  <2> QED
    BY <2>1, <2>2
<1> QED
  BY <1>1, <1>2 DEF Batched, Sent, Right, EndedIn, Latest, LinksOf

LEMMA RecordedStep ==
    ASSUME TypeOK, SettleInv, Named, Recorded, [Next]_vars
    PROVE  Recorded'
<1> SUFFICES ASSUME Orderly' PROVE (Batched /\ Sent /\ Right)'
  BY DEF Recorded
<1>1. ASSUME NEW t \in Tasks, NEW exec \in Execs, NEW source \in Sources,
             Fetch(t, exec, source)
      PROVE  (Batched /\ Sent /\ Right)'
  <2>1. overlaps = 0 /\ refusals = 0 /\ \A u \in Tasks : ~Active(u)
    BY <1>1 DEF Orderly, Serial, Fetch, Overlap, budgets, TypeOK
  <2>2. \A u \in Tasks : u # t => task'[u] = task[u]
    BY <1>1 DEF Fetch, TypeOK
  <2>3. Orderly
    BY <1>1, <2>1, <2>2 DEF Orderly, Serial, Fetch
  <2> QED
    BY <1>1, <2>1, <2>3, RecordedFetch DEF Recorded
<1>2. CASE DeleteSync
  BY <1>2 DEF DeleteSync, Batched, Sent, Right
<1>3. CASE ManualStep
  <2>1. UNCHANGED <<task, overlaps, refusals>>
    BY <1>3 DEF ManualStep, AskMatch, ReadTrack, SaveMatch, NoMatch, MatchLost, budgets
  <2> QED
    BY <1>3, <2>1, RecordedManual DEF Recorded, Orderly, Serial
<1>4. ~RefuseDispatch
  BY DEF RefuseDispatch, Orderly, TypeOK
<1>5. ASSUME NEW t \in Tasks, ChildStep(t) \/ WorkerLost(t) \/ Killed(t)
      PROVE  (Batched /\ Sent /\ Right)'
  <2>1. OfAKind(t) /\ refusals' = refusals /\ overlaps' = overlaps
    BY <1>5, ChildKinds
  <2>2. Active(t) /\ \A u \in Tasks : u # t => task'[u] = task[u]
    BY <2>1, MoverActive
  <2>3. Orderly
    BY <2>1, <2>2 DEF Orderly, Serial, Active, Ended, Successful
  <2> QED
    BY <1>5, <2>3, RecordedChild DEF Recorded
<1>6. CASE UNCHANGED vars
  BY <1>6 DEF vars, Recorded, Orderly, Serial, Batched, Sent, Right, EndedIn,
              Latest, LinksOf
<1>7. ASSUME NEW source \in Sources, FetchElsewhere(source)
      PROVE  (Batched /\ Sent /\ Right)'
  <2>1. Orderly /\ \A u \in Tasks : ~Active(u)
    BY <1>7 DEF Orderly, Serial, FetchElsewhere, Overlap, budgets, TypeOK
  <2> QED
    BY <1>7, <2>1, RecordedElsewhere DEF Recorded
<1> QED
  BY <1>1, <1>2, <1>3, <1>4, <1>5, <1>6, <1>7 DEF Next, FetchStep, OtherStep

\* When the tasks of an execution have ended well and its row is the latest, the
\* history misses nothing of the playlist that could be read and nothing recorded
\* is missing there once all could be added, whatever attempts were lost or failed
\* between the commit and the publication (phases.py 398-418).
THEOREM PlaylistIsHistory == Spec => []PublishedIsRecorded
<1>1. Init => Named /\ Recorded
  BY NamedInit
<1>2. TypeOK /\ SettleInv /\ Named /\ Recorded /\ [Next]_vars => Named' /\ Recorded'
  BY NamedStep, RecordedStep
<1>3. Recorded => PublishedIsRecorded
  <2> SUFFICES ASSUME Recorded, Orderly, runs # <<>>, Latest.status = "completed",
                      LinksOf(Latest) # {}
               PROVE  /\ EndedIn({"published", "added"}) => LinksOf(Latest) \subseteq playlist
                      /\ EndedIn({"published", "short"}) => playlist \subseteq LinksOf(Latest)
    BY DEF PublishedIsRecorded, EndedIn, LinksOf, Latest
  <2>1. Latest.history # {}
    BY DEF LinksOf
  <2> QED
    BY <2>1 DEF Recorded, Right
<1> QED
  BY <1>1, <1>2, <1>3, Settling, PTL DEF Spec

-----------------------------------------------------------------------------
(* The pages tell one story *)

\* Whoever is at work works for the execution that fetched the tracks.
Current == Serial => \A t \in Tasks : Active(t) => task[t].exec = fetched

\* The rows of an execution below its latest have ended, and a task of the
\* latest row's execution that is about to match or finalize has that row running.
AtTop ==
    (Serial /\ runs # <<>> /\ Latest.exec # Refusal) =>
        /\ \A i \in DOMAIN runs : Running(i) /\ runs[i].exec = Latest.exec => i = Len(runs)
        /\ \A t \in Tasks :
              (task[t].st \in {"matching", "finalizing"} \/ Reuses(t))
                  /\ task[t].exec = Latest.exec => Running(Len(runs))

\* A running row has no history yet, and a history is of the row's batch.
Written ==
    \A i \in DOMAIN runs :
        /\ Running(i) => runs[i].history = {}
        /\ \A h \in runs[i].history : h.item \in runs[i].batch

\* As long as nobody matches by hand and no runs overlap, a history has the
\* tracks' own matches.
ByRules ==
    manual.n = 0 =>
        /\ manual.st = "idle" /\ ~crossed
        /\ Serial => \A i \in DOMAIN runs : \A h \in runs[i].history : h.link = h.item

\* What the latest row says of the tracks, of what is being published, and of
\* the playlist, when it is the row of the execution that fetched the tracks.
Covered ==
    \/ \E t \in Tasks : task[t].exec = fetched /\ task[t].st = "lost"
    \/ \A i \in DOMAIN tracks : tracks[i].item \in Latest.batch

Done(st) == \A t \in Tasks : task[t].exec = fetched => task[t].st \in st

ItemsLinked == {tracks[i].item : i \in MatchedRows}
ItemsIn(row) == {h.item : h \in row.history}

Tells ==
    /\ manual.n = 0 => ItemsLinked = ItemsIn(Latest)
    /\ \A t \in Tasks : task[t].st = "publishing" => task[t].out = LinksOf(Latest)
    /\ Done({"published"}) /\ Latest.history # {} => playlist = LinksOf(Latest)

Shown ==
    (Serial /\ runs # <<>> /\ Latest.exec = fetched) =>
        /\ Latest.status = "running" => Covered
        /\ Latest.status = "completed" /\ Done({"publishing"} \cup Successful) => Tells

ViewInv == Current /\ AtTop /\ Written /\ ByRules /\ Shown

LEMMA ViewInit ==
    Init => ViewInv
<1> SUFFICES ASSUME Init PROVE ViewInv
  OBVIOUS
<1>1. /\ runs = <<>> /\ tracks = <<>> /\ ~crossed
      /\ DOMAIN runs = {} /\ DOMAIN tracks = {} /\ manual.st = "idle"
  BY DEF Init
<1>2. \A t \in Tasks : task[t].st = "absent"
  BY DEF Init, NewTask
<1> QED
  BY <1>1, <1>2 DEF ViewInv, Current, AtTop, Written, ByRules, Shown, Active

\* Every step is a fetch, or leaves it to whoever has fetched the tracks.
LEMMA ViewKinds ==
    ASSUME [Next]_vars
    PROVE  \/ \E t \in Tasks, exec \in Execs, source \in Sources : Fetch(t, exec, source)
           \/ \E source \in Sources : FetchElsewhere(source)
           \/ /\ fetched' = fetched
              /\ \/ DeleteSync \/ ManualStep \/ UNCHANGED vars
                 \/ RefuseDispatch /\ UNCHANGED single
                 \/ \E t \in Tasks :
                        (WorkerLost(t) \/ Killed(t) \/ ChildStep(t)) /\ UNCHANGED single
<1>1. CASE FetchStep
  BY <1>1 DEF FetchStep
<1>2. CASE DeleteSync \/ ManualStep
  BY <1>2 DEF DeleteSync, ManualStep, AskMatch, ReadTrack, SaveMatch, NoMatch, MatchLost, fetches
<1>3. UNCHANGED single \/ UNCHANGED vars => fetched' = fetched
  BY DEF single, fetches, vars
<1> QED
  BY <1>1, <1>2, <1>3 DEF Next, OtherStep

\* What a fetch does to tasks and rows.
LEMMA Fetching ==
    ASSUME TypeOK, NEW t \in Tasks, NEW exec \in Execs, NEW source \in Sources,
           Fetch(t, exec, source)
    PROVE  /\ UNCHANGED <<exists, runs, playlist, refusals>> /\ task[t].st = "absent"
           /\ task'[t].st \in {"queued", "over"} /\ task'[t].exec = exec
           /\ \A u \in Tasks : u # t => task'[u] = task[u]
           /\ Serial' => Serial /\ \A u \in Tasks : ~Active(u)
           /\ \/ task'[t].st = "queued" /\ fetched' = exec
              \/ task'[t].st = "over" /\ UNCHANGED <<tracks, manual, fetched>>
<1>1. \E st \in {"queued", "over"} : \E items :
          task' = [task EXCEPT ![t] = NewTask(st, exec, items)]
  BY DEF Fetch
<1>2. Serial' => Serial /\ \A u \in Tasks : ~Active(u)
  BY DEF Fetch, Overlap, budgets, Serial, TypeOK
<1>3. \/ task'[t].st = "queued" /\ fetched' = exec
      \/ task'[t].st = "over" /\ UNCHANGED <<tracks, manual, fetched>>
  BY DEF Fetch, NewTask, TypeOK, single, fetches
<1>4. refusals' = refusals
  BY DEF Fetch, Overlap, budgets
<1> QED
  BY <1>1, <1>2, <1>3, <1>4 DEF Fetch, NewTask, TypeOK

LEMMA FetchingElsewhere ==
    ASSUME TypeOK, NEW source \in Sources, FetchElsewhere(source)
    PROVE  /\ UNCHANGED <<exists, runs, playlist, task>> /\ fetched' = Elsewhere
           /\ Serial' => Serial /\ \A u \in Tasks : ~Active(u)
  BY DEF FetchElsewhere, Overlap, budgets, Serial, TypeOK

\* The other steps that are no task's.
LEMMA NoTasks ==
    ASSUME TypeOK, DeleteSync \/ ManualStep \/ UNCHANGED vars
    PROVE  UNCHANGED <<task, playlist, overlaps>> /\ (runs' = runs \/ runs' = <<>>)
  BY DEF DeleteSync, ManualStep, AskMatch, ReadTrack, SaveMatch, NoMatch, MatchLost,
         budgets, vars

LEMMA Refusing ==
    ASSUME TypeOK, RefuseDispatch
    PROVE  /\ UNCHANGED <<task, tracks, playlist, overlaps>>
           /\ runs' # <<>> /\ Latest'.exec = Refusal
<1>1. runs' = Append(runs, NewRun(Refusal, "failed", {}))
  BY DEF RefuseDispatch
<1>2. runs' # <<>> /\ Latest' = NewRun(Refusal, "failed", {})
  BY <1>1, LatestIsNew DEF Latest
<1> QED
  BY <1>2 DEF RefuseDispatch, NewRun

LEMMA CurrentStep ==
    ASSUME TypeOK, Current, [Next]_vars
    PROVE  Current'
<1>1. ASSUME NEW t \in Tasks, NEW exec \in Execs, NEW source \in Sources,
             Fetch(t, exec, source)
      PROVE  Current'
  BY <1>1, Fetching DEF Current, Active, Ended, Successful
<1>2. CASE fetched' = fetched /\ (DeleteSync \/ ManualStep \/ UNCHANGED vars)
  BY <1>2, NoTasks DEF Current, Active, Serial
<1>3. CASE fetched' = fetched /\ RefuseDispatch
  BY <1>3, Refusing DEF Current, Active, Serial
<1>4. ASSUME NEW t \in Tasks, WorkerLost(t) \/ Killed(t) \/ ChildStep(t), fetched' = fetched
      PROVE  Current'
  <2>1. Active(t) /\ task'[t].exec = task[t].exec /\ overlaps' = overlaps
        /\ \A u \in Tasks : u # t => task'[u] = task[u]
    BY <1>4, ChildKinds, MoverActive
  <2> QED
    BY <1>4, <2>1 DEF Current, Active, Serial
<1>5. ASSUME NEW source \in Sources, FetchElsewhere(source) PROVE Current'
  BY <1>5, FetchingElsewhere DEF Current, Active
<1> QED
  BY <1>1, <1>2, <1>3, <1>4, <1>5, ViewKinds

\* The rows of an execution that are not its latest have ended.
LEMMA AtTopKind ==
    ASSUME TypeOK, SettleInv, Named, AtTop, NEW t \in Tasks, OfAKind(t),
           overlaps' = overlaps
    PROVE  AtTop'
<1> SUFFICES ASSUME Serial, runs' # <<>>, Latest'.exec # Refusal
             PROVE  /\ \A i \in DOMAIN runs' :
                          Running(i)' /\ runs'[i].exec = Latest'.exec => i = Len(runs')
                    /\ \A u \in Tasks :
                          (task'[u].st \in {"matching", "finalizing"} \/ Reuses(u)')
                              /\ task'[u].exec = Latest'.exec => Running(Len(runs))'
  BY DEF AtTop, Serial
<1>1. /\ Active(t) /\ task'[t].exec = task[t].exec /\ task[t].exec # Refusal
      /\ \A u \in Tasks : u # t => task'[u] = task[u] /\ ~Active(u)
  BY MoverActive DEF SettleInv, InTurn, Named, Active
<1>2. \A u \in Tasks : u # t => ~(task'[u].st \in {"matching", "finalizing"} \/ Reuses(u)')
  BY <1>1 DEF Active, Ended, Successful, Reuses
<1>3. CASE runs' = runs
  <2>1. /\ \A i \in DOMAIN runs : Running(i) /\ runs[i].exec = Latest.exec => i = Len(runs)
        /\ (task[t].st \in {"matching", "finalizing"} \/ Reuses(t))
              /\ task[t].exec = Latest.exec => Running(Len(runs))
    BY <1>3 DEF AtTop, Latest
  <2>2. ASSUME task'[t].st \in {"matching", "finalizing"} \/ Reuses(t)',
               task[t].exec = Latest.exec
        PROVE  Running(Len(runs))
    <3>1. CASE Looks(t)
      <4>1. LiveRows(task[t].exec) # {}
        BY <2>2, <3>1 DEF Looks, Reuses, Moves
      <4> QED
        BY <2>1, <2>2, <4>1 DEF LiveRows, Running
    <3>2. CASE ~Looks(t)
      <4>1. task[t].st \in {"matching", "finalizing"} \/ Reuses(t)
        BY <1>3, <2>2, <3>2 DEF OfAKind, Waits, TakesRow, MakesRow, Matches, Completes, Leaves,
           FindsNothing, FailsLatest, AddsFailed, FailsOwn, Moves, Reuses, Adds, Successful
      <4> QED
        BY <2>1, <2>2, <4>1
    <3> QED
      BY <3>1, <3>2
  <2> QED
    BY <1>1, <1>2, <1>3, <2>1, <2>2 DEF Latest, Running
<1>4. ASSUME NEW i \in DOMAIN runs, Shut(i),
             task'[t].st \notin {"matching", "finalizing", "ensuring"}
      PROVE  /\ \A j \in DOMAIN runs' :
                   Running(j)' /\ runs'[j].exec = Latest'.exec => j = Len(runs')
             /\ ~(task'[t].st \in {"matching", "finalizing"} \/ Reuses(t)')
  <2>1. runs # <<>> /\ Len(runs) \in DOMAIN runs /\ Latest'.exec = Latest.exec
    BY <1>4, RowFacts DEF Shut, Latest
  <2>2. \A j \in DOMAIN runs : Running(j) /\ runs[j].exec = Latest.exec => j = Len(runs)
    BY <2>1 DEF AtTop
  <2> QED
    BY <1>4, <2>1, <2>2 DEF Shut, Running, Reuses
<1>5. ASSUME NEW st, Adds(task[t].exec, st), LiveRows(task[t].exec) = {}
      PROVE  /\ \A j \in DOMAIN runs' :
                   Running(j)' /\ runs'[j].exec = Latest'.exec => j = Len(runs')
             /\ st = "running" => Running(Len(runs))'
  BY <1>5, RowFacts DEF Adds, Running, LiveRows, Latest
<1>6. CASE MakesRow(t)
  <2>1. LiveRows(task[t].exec) = {}
    BY <1>6 DEF MakesRow, SettleInv, InTurn
  <2> QED
    BY <1>2, <1>5, <1>6, <2>1 DEF MakesRow
<1>7. CASE AddsFailed(t)
  BY <1>2, <1>5, <1>7 DEF AddsFailed, Moves, Reuses
<1>8. CASE Completes(t) \/ FailsLatest(t)
  <2>1. runs = <<>> \/ Len(runs) \in DOMAIN runs
    BY LatestInDomain
  <2> QED
    BY <1>2, <1>3, <1>4, <1>8, <2>1 DEF Completes, FailsLatest, Moves
<1>9. CASE FailsOwn(t)
  BY <1>2, <1>4, <1>9 DEF FailsOwn, LiveRows, Moves
<1>10. runs' = runs \/ MakesRow(t) \/ AddsFailed(t) \/ Completes(t) \/ FailsLatest(t) \/ FailsOwn(t)
  BY DEF OfAKind, Waits, Looks, TakesRow, Matches, Leaves, FindsNothing
<1> QED
  BY <1>3, <1>6, <1>7, <1>8, <1>9, <1>10

LEMMA AtTopStep ==
    ASSUME TypeOK, SettleInv, Named, AtTop, [Next]_vars
    PROVE  AtTop'
<1>1. ASSUME NEW t \in Tasks, NEW exec \in Execs, NEW source \in Sources,
             Fetch(t, exec, source)
      PROVE  AtTop'
  <2> SUFFICES ASSUME Serial' PROVE AtTop'
    BY DEF AtTop
  <2>1. /\ runs' = runs /\ Serial /\ task'[t].st \in {"queued", "over"}
        /\ \A u \in Tasks : u # t => task'[u] = task[u]
    BY <1>1, Fetching
  <2> QED
    BY <2>1 DEF AtTop, Latest, Running, Reuses
<1>2. CASE DeleteSync \/ ManualStep \/ UNCHANGED vars
  BY <1>2, NoTasks DEF AtTop, Latest, Running, Reuses, Serial
<1>3. CASE RefuseDispatch
  BY <1>3, Refusing DEF AtTop
<1>4. ASSUME NEW t \in Tasks, WorkerLost(t) \/ Killed(t) \/ ChildStep(t)
      PROVE  AtTop'
  BY <1>4, ChildKinds, AtTopKind
<1>5. ASSUME NEW source \in Sources, FetchElsewhere(source) PROVE AtTop'
  BY <1>5, FetchingElsewhere DEF AtTop, Latest, Running, Reuses
<1> QED
  BY <1>1, <1>2, <1>3, <1>4, <1>5, ViewKinds

-----------------------------------------------------------------------------
(* Histories and links *)

\* What a step makes of a row: it is kept, or ends without or with a snapshot of
\* the tracks, or it is a new one.
RowFrom(i) ==
    \/ runs'[i].history = {}
    \/ /\ i \in DOMAIN runs /\ runs'[i].batch = runs[i].batch
       /\ \/ runs'[i].history = runs[i].history
          \/ /\ runs'[i].history = runs[i].history \cup Snapshot(runs[i].batch)
             /\ \E t \in Tasks : Active(t)
       /\ runs'[i].status = "running" => runs'[i] = runs[i]

LEMMA FailedFrom ==
    ASSUME TypeOK, NEW j \in DOMAIN runs, runs' = [runs EXCEPT ![j].status = "failed"],
           NEW i \in DOMAIN runs'
    PROVE  RowFrom(i)
<1>1. runs \in Seq(RunRow) /\ DOMAIN runs' = DOMAIN runs /\ runs[i] \in RunRow
  BY DEF TypeOK
<1>2. CASE i = j
  <2>1. runs'[i] = [runs[i] EXCEPT !.status = "failed"]
    BY <1>1, <1>2
  <2> QED
    BY <1>1, <2>1 DEF RowFrom, RunRow
<1>3. CASE i # j
  BY <1>1, <1>3 DEF RowFrom
<1> QED
  BY <1>2, <1>3

LEMMA AppendedFrom ==
    ASSUME TypeOK, NEW exec, NEW status, NEW batch,
           runs' = Append(runs, NewRun(exec, status, batch)), NEW i \in DOMAIN runs'
    PROVE  RowFrom(i)
<1> DEFINE row == NewRun(exec, status, batch)
<1>1. row.history = {}
  BY DEF NewRun
<1> HIDE DEF row
<1>2. runs \in Seq(RunRow) /\ runs' = Append(runs, row)
  BY DEF TypeOK, row
<1>3. runs'[i] = row \/ (i \in DOMAIN runs /\ runs'[i] = runs[i])
  BY <1>2
<1> QED
  BY <1>1, <1>3 DEF RowFrom

LEMMA CompletedFrom ==
    ASSUME TypeOK, NEW t \in Tasks, Finalize(t), NEW i \in DOMAIN runs'
    PROVE  RowFrom(i)
<1>1. CASE runs = <<>>
  BY <1>1 DEF Finalize, LatestCompleted
<1>2. CASE runs # <<>>
  <2> DEFINE row == runs[Len(runs)]
             new == CompletedRow(row)
  <2>1. Len(runs) \in DOMAIN runs /\ runs \in Seq(RunRow) /\ row \in RunRow
    BY <1>2, LatestInDomain DEF TypeOK
  <2>2. /\ new.status = "completed" /\ new.batch = row.batch
        /\ new.history = row.history \cup Snapshot(row.batch)
    BY <2>1 DEF CompletedRow, RunRow
  <2> HIDE DEF new
  <2>3. runs' = [runs EXCEPT ![Len(runs)] = new]
    BY <1>2 DEF Finalize, LatestCompleted, new
  <2>4. (i = Len(runs) /\ runs'[i] = new) \/ (i \in DOMAIN runs /\ runs'[i] = runs[i])
    BY <2>1, <2>3
  <2>5. Active(t)
    BY DEF Finalize, Active, Ended, Successful
  <2> QED
    BY <2>1, <2>2, <2>4, <2>5 DEF RowFrom
<1> QED
  BY <1>1, <1>2

LEMMA RowsFrom ==
    ASSUME TypeOK, [Next]_vars, NEW i \in DOMAIN runs'
    PROVE  RowFrom(i)
<1>1. CASE runs' = runs
  BY <1>1 DEF RowFrom
<1>2. CASE runs' = LatestFailed
  BY <1>1, <1>2, FailedFrom, LatestInDomain DEF LatestFailed
<1>3. ASSUME NEW t \in Tasks, Finalize(t) PROVE RowFrom(i)
  BY <1>3, CompletedFrom
<1>4. CASE DeleteSync
  BY <1>4 DEF DeleteSync
<1>5. CASE RefuseDispatch
  BY <1>5, AppendedFrom DEF RefuseDispatch
<1>6. ASSUME NEW t \in Tasks, ChildStep(t)
      PROVE  RowFrom(i)
  <2>1. CASE ConnectionFails(t)
    <3>1. CASE runs' = Append(runs, NewRun(task[t].exec, "failed", {}))
      BY <3>1, AppendedFrom
    <3>2. ASSUME NEW j \in LiveRows(task[t].exec), runs' = [runs EXCEPT ![j].status = "failed"]
          PROVE  RowFrom(i)
      BY <3>2, FailedFrom DEF LiveRows
    <3> QED
      BY <1>1, <2>1, <3>1, <3>2 DEF ConnectionFails
  <2>2. CASE EnsureRun(t)
    BY <1>1, <2>2, AppendedFrom DEF EnsureRun
  <2>3. CASE ~ConnectionFails(t) /\ ~EnsureRun(t) /\ ~Finalize(t)
    <3>1. runs' = runs \/ runs' = LatestFailed
      BY <1>6, <2>3 DEF ChildStep, LookForRun, Match, Publish, PublishUnread, PublishShort,
                        PublishSilentlyFails, StepRaises, Fails
    <3> QED
      BY <1>1, <1>2, <3>1
  <2> QED
    BY <1>3, <2>1, <2>2, <2>3
<1>7. CASE \/ FetchStep \/ ManualStep \/ UNCHANGED vars
           \/ \E t \in Tasks : WorkerLost(t) \/ Killed(t)
  BY <1>1, <1>7 DEF FetchStep, Fetch, FetchElsewhere, Killed, ManualStep, AskMatch, ReadTrack,
     SaveMatch, NoMatch,
                    MatchLost, WorkerLost, vars
<1> QED
  BY <1>4, <1>5, <1>6, <1>7 DEF Next, OtherStep

LEMMA WrittenStep ==
    ASSUME TypeOK, Written, [Next]_vars
    PROVE  Written'
<1> SUFFICES ASSUME NEW i \in DOMAIN runs'
             PROVE  /\ runs'[i].status = "running" => runs'[i].history = {}
                    /\ \A h \in runs'[i].history : h.item \in runs'[i].batch
  BY DEF Written, Running
<1>1. RowFrom(i)
  BY RowsFrom
<1>2. \A batch : \A h \in Snapshot(batch) : h.item \in batch
  BY DEF Snapshot
<1> QED
  BY <1>1, <1>2 DEF RowFrom, Written, Running

\* As long as nobody matches by hand, what is under way by hand is nothing.
LEMMA ByHand ==
    ASSUME TypeOK, ByRules, [Next]_vars, manual'.n = 0
    PROVE  /\ manual.n = 0 /\ manual.st = "idle" /\ manual'.st = "idle" /\ ~crossed'
           /\ ~ManualStep
<1>1. manual.n \in Nat /\ manual \in ManualMatch
  BY DEF TypeOK, ManualMatch
<1>2. ASSUME NEW item \in Items, AskMatch(item)
      PROVE  FALSE
  BY <1>1, <1>2 DEF AskMatch, ManualMatch
<1>3. CASE ReadTrack \/ SaveMatch \/ NoMatch \/ MatchLost
  <2>1. manual.n = 0
    BY <1>1, <1>3 DEF ReadTrack, SaveMatch, NoMatch, MatchLost, Answered, ManualMatch
  <2> QED
    BY <1>3, <2>1 DEF ByRules, ReadTrack, SaveMatch, NoMatch, MatchLost
<1>4. CASE \/ DeleteSync
           \/ FetchStep
  <2>1. \/ \E n : RowsReplaced(n)
        \/ UNCHANGED single
    BY <1>4 DEF DeleteSync, FetchStep, Fetch, FetchElsewhere
  <2>2. /\ manual'.n = manual.n /\ manual'.st = manual.st
        /\ crossed' = (manual.st = "matching") \/ crossed' = crossed
    BY <1>1, <2>1 DEF RowsReplaced, single, fetches, ManualMatch
  <2>3. manual.n = 0 /\ manual.st = "idle" /\ ~crossed
    BY <2>2 DEF ByRules
  <2>4. ~crossed'
    BY <2>2, <2>3
  <2> QED
    BY <1>2, <1>3, <2>2, <2>3, <2>4 DEF ManualStep
<1>5. CASE UNCHANGED single
  BY <1>2, <1>3, <1>5 DEF single, fetches, ByRules, ManualStep
<1> QED
  BY <1>2, <1>3, <1>4, <1>5 DEF Next, OtherStep, ManualStep, vars

\* Overlaps are counted, never taken back.
LEMMA SerialStays ==
    ASSUME TypeOK, [Next]_vars, Serial'
    PROVE  Serial
<1>1. CASE FetchStep
  BY <1>1, Fetching, FetchingElsewhere DEF FetchStep
<1>2. CASE DeleteSync \/ ManualStep \/ UNCHANGED vars
  BY <1>2, NoTasks DEF Serial
<1>3. CASE RefuseDispatch
  BY <1>3, Refusing DEF Serial
<1>4. CASE \E t \in Tasks : WorkerLost(t) \/ Killed(t) \/ ChildStep(t)
  BY <1>4, ChildKinds DEF Serial
<1> QED
  BY <1>1, <1>2, <1>3, <1>4 DEF Next, OtherStep

LEMMA ByRulesStep ==
    ASSUME TypeOK, Named, Linked, Current, ByRules, [Next]_vars
    PROVE  ByRules'
<1> SUFFICES ASSUME manual'.n = 0
             PROVE  ByRules'
  BY DEF ByRules
<1>1. /\ manual.n = 0 /\ manual'.st = "idle" /\ ~crossed'
  BY ByHand
<1>2. ASSUME Serial', NEW i \in DOMAIN runs', NEW h \in runs'[i].history
      PROVE  h.link = h.item
  <2>1. Serial
    BY <1>2, SerialStays
  <2>2. ASSUME NEW t \in Tasks, Active(t)
        PROVE  \A batch : \A k \in Snapshot(batch) : k.link = k.item
    <3>1. fetched # Elsewhere
      BY <2>1, <2>2 DEF Current, TypeOK, ChildTask
    <3>2. \A j \in DOMAIN tracks : tracks[j].link \in {tracks[j].item, NoLink}
      BY <1>1, <3>1 DEF ByRules, Linked
    <3> QED
      BY <3>2 DEF Snapshot
  <2>3. RowFrom(i)
    BY RowsFrom
  <2>4. \A j \in DOMAIN runs : \A k \in runs[j].history : k.link = k.item
    BY <1>1, <2>1 DEF ByRules
  <2> QED
    BY <1>2, <2>2, <2>3, <2>4 DEF RowFrom
<1> QED
  BY <1>1, <1>2 DEF ByRules

-----------------------------------------------------------------------------
(* The latest row tells what is there *)

\* While runs come in turn, the task at work is alone, is of the recorded
\* execution, and is not done.
LEMMA AtWork ==
    ASSUME SettleInv, Named, Current, Serial, NEW t \in Tasks, Active(t)
    PROVE  /\ task[t].exec = fetched /\ fetched # Refusal
           /\ \A u \in Tasks : u # t => ~Active(u)
  BY DEF SettleInv, InTurn, Named, Current, Active

\* The task at work goes on, or gives up: the rows and the tracks stay.
LEMMA ShownStays ==
    ASSUME SettleInv, Named, Current, Serial, Shown, NEW t \in Tasks, Active(t),
           \A u \in Tasks : u # t => task'[u] = task[u], task'[t].exec = task[t].exec,
           task'[t].st \notin {"publishing"} \cup Successful, runs' = runs, fetched' = fetched,
           \A i \in DOMAIN tracks' : \E j \in DOMAIN tracks : tracks'[i].item = tracks[j].item
    PROVE  Shown'
<1>1. task[t].exec = fetched
  BY AtWork
<1>2. ~Done({"publishing"} \cup Successful)'
  BY <1>1 DEF Done
<1>3. Covered => Covered'
  BY DEF Covered, Latest, Active, Ended, Successful
<1> QED
  BY <1>2, <1>3 DEF Shown, Latest

\* The latest row says failed: it tells nothing.
LEMMA ShownFailed ==
    ASSUME runs' # <<>> => runs'[Len(runs')].status = "failed"
    PROVE  Shown'
  BY DEF Shown, Latest

\* Snapshots and tracks.
LEMMA SnapshotItems ==
    ASSUME NEW batch, \A i \in DOMAIN tracks : tracks[i].item \in batch
    PROVE  {h.item : h \in Snapshot(batch)} = ItemsLinked
<1>1. Snapshot(batch) = {[item |-> tracks[i].item, link |-> tracks[i].link] :
                            i \in MatchedRows}
  BY DEF Snapshot, MatchedRows
<1>2. ASSUME NEW h \in Snapshot(batch) PROVE h.item \in ItemsLinked
  BY <1>1, <1>2 DEF ItemsLinked
<1>3. ASSUME NEW i \in MatchedRows PROVE \E h \in Snapshot(batch) : tracks[i].item = h.item
  <2>1. [item |-> tracks[i].item, link |-> tracks[i].link] \in Snapshot(batch)
    BY <1>1
  <2> QED
    BY <2>1
<1> QED
  BY <1>2, <1>3 DEF ItemsLinked

LEMMA ShownFinalize ==
    ASSUME TypeOK, SettleInv, Named, ViewInv, Serial, NEW t \in Tasks, Finalize(t),
           fetched' = fetched
    PROVE  Shown'
<1>1. Active(t)
  BY DEF Finalize, Active, Ended, Successful
<1>2. /\ \A u \in Tasks : u # t => task'[u] = task[u]
      /\ task'[t].st = "publishing" /\ task'[t].exec = task[t].exec /\ task'[t].out = Links
  BY DEF Finalize, TypeOK, ChildTask
<1>3. /\ task[t].exec = fetched /\ fetched # Refusal
      /\ \A u \in Tasks : u # t => task'[u].st # "publishing"
  BY <1>1, <1>2, AtWork DEF ViewInv, Active, Ended, Successful
<1>4. CASE runs = <<>>
  BY <1>4 DEF Finalize, LatestCompleted, Shown
<1>5. CASE runs # <<>>
  <2> DEFINE row == runs[Len(runs)]
             new == CompletedRow(row)
  <2>1. Len(runs) \in DOMAIN runs /\ runs \in Seq(RunRow) /\ row \in RunRow
    BY <1>5, LatestInDomain DEF TypeOK
  <2>2. new.status = "completed" /\ new.exec = row.exec
        /\ new.history = row.history \cup Snapshot(row.batch)
    BY <2>1 DEF CompletedRow, RunRow
  <2> HIDE DEF new
  <2>3. Latest' = new
    <3>1. runs' = [runs EXCEPT ![Len(runs)] = new]
      BY <1>5 DEF Finalize, LatestCompleted, new
    <3> QED
      BY <1>5, <2>1, <3>1 DEF Latest
  <2>4. SUFFICES ASSUME row.exec = fetched, Done({"publishing"} \cup Successful)'
                 PROVE  Tells'
    BY <2>2, <2>3 DEF Shown
  <2>5. row.status = "running" /\ row.history = {}
    BY <1>3, <1>5, <2>1, <2>4 DEF ViewInv, AtTop, Written, Running, Finalize, Latest
  <2>6. \A i \in DOMAIN tracks : tracks[i].item \in row.batch
    <3>1. \A u \in Tasks : task[u].exec = fetched => task[u].st # "lost"
      BY <1>2, <2>4 DEF Done, Finalize, Successful
    <3> QED
      BY <1>5, <2>4, <2>5, <3>1 DEF ViewInv, Shown, Covered, Latest
  <2>7. /\ LinksOf(Latest)' = Links /\ ItemsIn(Latest)' = ItemsLinked
    <3>1. new.history = Snapshot(row.batch)
      BY <2>2, <2>5
    <3> QED
      BY <2>3, <2>6, <3>1, SnapshotLinks, SnapshotItems DEF LinksOf, ItemsIn
  <2>8. ItemsLinked' = ItemsLinked
    BY DEF Finalize, ItemsLinked, MatchedRows
  <2>9. ~Done({"published"})'
    BY <1>2, <1>3 DEF Done
  <2>10. \A u \in Tasks : task'[u].st = "publishing" => task'[u].out = LinksOf(Latest)'
    BY <1>2, <1>3, <2>7
  <2> QED
    BY <2>7, <2>8, <2>9, <2>10 DEF Tells
<1> QED
  BY <1>4, <1>5

LEMMA ShownPublish ==
    ASSUME TypeOK, SettleInv, Named, ViewInv, Serial, NEW t \in Tasks,
           Publish(t) \/ PublishUnread(t) \/ PublishShort(t), UNCHANGED single
    PROVE  Shown'
<1>1. Active(t) /\ task[t].st = "publishing"
  BY DEF Publish, PublishUnread, PublishShort, Active, Ended, Successful
<1>2. /\ runs' = runs /\ tracks' = tracks /\ manual' = manual /\ fetched' = fetched
      /\ \E st \in Successful : Ends(t, st)
  BY DEF Publish, PublishUnread, PublishShort, Successful, single, fetches
<1>3. /\ \A u \in Tasks : u # t => task'[u] = task[u]
      /\ task'[t].st \in Successful /\ task'[t].exec = task[t].exec
  BY <1>2 DEF Ends, NewTask, TypeOK
<1>4. /\ \A u \in Tasks : task'[u].st # "publishing"
      /\ task[t].exec = fetched
  BY <1>1, <1>3, AtWork DEF ViewInv, Active, Ended, Successful
<1>5. Covered => Covered'
  BY <1>1, <1>2, <1>3 DEF Covered, Latest
<1>6. SUFFICES ASSUME runs # <<>>, Latest.exec = fetched, Latest.status = "completed",
                      Done({"publishing"} \cup Successful)'
               PROVE  Tells'
  BY <1>2, <1>5 DEF ViewInv, Shown, Latest
<1>7. Done({"publishing"} \cup Successful)
  BY <1>1, <1>2, <1>3, <1>6 DEF Done
<1>8. Tells
  BY <1>6, <1>7 DEF ViewInv, Shown
<1>9. Latest' = Latest /\ ItemsLinked' = ItemsLinked
  BY <1>2 DEF Latest, ItemsLinked, MatchedRows
<1>10. Done({"published"})' /\ Latest.history # {} => playlist' = LinksOf(Latest)
  <2>1. CASE Publish(t)
    <3>1. task[t].out = LinksOf(Latest)
      BY <1>1, <1>8 DEF Tells
    <3>2. Latest.history # {} => LinksOf(Latest) # {}
      BY DEF LinksOf
    <3> QED
      BY <2>1, <3>1, <3>2 DEF Publish
  <2>2. CASE PublishUnread(t) \/ PublishShort(t)
    <3>1. task'[t].st # "published"
      BY <2>2 DEF PublishUnread, PublishShort, Ends, NewTask, TypeOK
    <3> QED
      BY <1>2, <1>3, <1>4, <3>1 DEF Done
  <2> QED
    BY <2>1, <2>2
<1> QED
  BY <1>2, <1>4, <1>8, <1>9, <1>10 DEF Tells, LinksOf, ItemsIn

LEMMA ShownChild ==
    ASSUME TypeOK, SettleInv, Named, ViewInv, Serial, NEW t \in Tasks,
           ChildStep(t) \/ WorkerLost(t) \/ Killed(t), UNCHANGED single
    PROVE  Shown'
<1>1. /\ Active(t) /\ task'[t].exec = task[t].exec
      /\ \A u \in Tasks : u # t => task'[u] = task[u]
  BY ChildKinds, MoverActive
<1>2. task[t].exec = fetched /\ fetched # Refusal /\ fetched' = fetched
  BY <1>1, AtWork DEF ViewInv, single, fetches
<1>3. ASSUME task'[t].st \notin {"publishing"} \cup Successful, runs' = runs, tracks' = tracks
      PROVE  Shown'
  BY <1>1, <1>2, <1>3, ShownStays DEF ViewInv
<1>4. CASE ConnectionFails(t)
  <2>1. task'[t].st \in {"over", "lost"} /\ tracks' = tracks
    BY <1>4 DEF ConnectionFails, Ends, NewTask, TypeOK
  <2>2. CASE runs' = runs
    BY <1>3, <2>1, <2>2 DEF Successful
  <2>3. CASE runs' = Append(runs, NewRun(task[t].exec, "failed", {}))
    BY <2>3, LatestIsNew, ShownFailed DEF NewRun
  <2>4. ASSUME NEW i \in LiveRows(task[t].exec), runs' = [runs EXCEPT ![i].status = "failed"]
        PROVE  Shown'
    <3>1. i \in DOMAIN runs /\ Running(i) /\ runs[i].exec = fetched /\ runs # <<>>
      BY <1>2, <2>4, RowFacts DEF LiveRows, Running
    <3>2. CASE i = Len(runs)
      BY <2>4, <3>1, <3>2, LatestIsFailed, ShownFailed
    <3>3. CASE i # Len(runs)
      <4>1. Latest.exec # fetched
        BY <1>2, <3>1, <3>3 DEF ViewInv, AtTop
      <4>2. Latest' = Latest
        BY <2>4, <3>1, <3>3, LatestInDomain DEF Latest, TypeOK
      <4> QED
        BY <1>2, <4>1, <4>2 DEF Shown
    <3> QED
      BY <3>2, <3>3
  <2> QED
    BY <1>4, <2>2, <2>3, <2>4 DEF ConnectionFails
<1>5. CASE LookForRun(t)
  <2>1. task'[t].st \in {"over", "ensuring"}
    <3>1. CASE Ends(t, "over")
      BY <3>1 DEF Ends, NewTask, TypeOK
    <3>2. CASE ~Ends(t, "over")
      <4>1. PICK f \in BOOLEAN :
                task' = [task EXCEPT ![t] = [task[t] EXCEPT !.st = "ensuring", !.reuse = f]]
        BY <1>5, <3>2 DEF LookForRun
      <4> QED
        BY <4>1 DEF TypeOK, ChildTask
    <3> QED
      BY <3>1, <3>2
  <2> QED
    BY <1>3, <1>5, <2>1 DEF LookForRun, Successful
<1>6. CASE EnsureRun(t)
  <2>1. task'[t].st = "matching" /\ tracks' = tracks
    BY <1>6 DEF EnsureRun, Goes, TypeOK, ChildTask
  <2>2. CASE task[t].reuse
    BY <1>3, <1>6, <2>1, <2>2 DEF EnsureRun, Successful
  <2>3. CASE ~task[t].reuse
    <3> DEFINE row == NewRun(task[t].exec, "running", {tracks[i].item : i \in DOMAIN tracks})
    <3>1. Latest' = row
      BY <1>6, <2>3, LatestIsNew DEF EnsureRun, Latest
    <3>2. row.status = "running" /\ \A i \in DOMAIN tracks : tracks[i].item \in row.batch
      BY DEF NewRun
    <3> HIDE DEF row
    <3> QED
      BY <2>1, <3>1, <3>2 DEF Shown, Covered
  <2> QED
    BY <2>2, <2>3
<1>7. ASSUME NEW hits \in SUBSET DOMAIN tracks, Match(t, hits) PROVE Shown'
  <2>1. task'[t].st = "finalizing" /\ runs' = runs
    BY <1>7 DEF Match, Goes, TypeOK, ChildTask
  <2>2. \A i \in DOMAIN tracks' : i \in DOMAIN tracks /\ tracks'[i].item = tracks[i].item
    BY <1>7, MatchedTypes DEF Match
  <2> QED
    BY <1>1, <1>2, <2>1, <2>2, ShownStays DEF ViewInv, Successful
<1>8. CASE PublishSilentlyFails(t)
  <2>1. task'[t].st = "over"
    BY <1>8 DEF PublishSilentlyFails, Ends, NewTask, TypeOK
  <2> QED
    BY <1>3, <1>8, <2>1 DEF PublishSilentlyFails, Successful
<1>9. CASE StepRaises(t)
  <2>1. tracks' = tracks
    BY <1>9 DEF StepRaises
  <2>2. task'[t].st \in {"queued", "over", "lost"}
    <3>1. \E st \in {"over", "lost"} : RetryOr(t, st)
      BY <1>9 DEF StepRaises, Fails
    <3>2. \A st \in {"over", "lost"} : RetryOr(t, st) => Moves(t, "queued") \/ Moves(t, st)
      BY GoesMoves DEF States
    <3> QED
      BY <3>1, <3>2 DEF Moves
  <2>3. runs' = runs \/ (runs # <<>> /\ runs' = [runs EXCEPT ![Len(runs)].status = "failed"])
    BY <1>9 DEF StepRaises, Fails, LatestFailed
  <2> QED
    BY <1>3, <2>1, <2>2, <2>3, LatestIsFailed, ShownFailed DEF Successful
<1>10. CASE WorkerLost(t)
  <2>1. task'[t].st = "queued"
    BY <1>10 DEF WorkerLost, TypeOK, ChildTask
  <2> QED
    BY <1>3, <1>10, <2>1 DEF WorkerLost, Successful
<1>11. CASE Killed(t)
  <2>1. task'[t].st = "lost"
    BY <1>11 DEF Killed, Ends, NewTask, TypeOK
  <2> QED
    BY <1>3, <1>11, <2>1 DEF Killed, Successful
<1> QED
  BY <1>2, <1>4, <1>5, <1>6, <1>7, <1>8, <1>9, <1>10, <1>11, ShownFinalize, ShownPublish
     DEF ChildStep

LEMMA ShownStep ==
    ASSUME TypeOK, SettleInv, Named, ViewInv, [Next]_vars
    PROVE  Shown'
<1> SUFFICES ASSUME Serial' PROVE Shown'
  BY DEF Shown
<1>1. ASSUME NEW t \in Tasks, NEW exec \in Execs, NEW source \in Sources,
             Fetch(t, exec, source), fetched' = exec
      PROVE  Shown'
  <2>1. /\ runs' = runs /\ task[t].st = "absent" /\ Serial
        /\ task'[t].st \in {"queued", "over"} /\ task'[t].exec = exec
        /\ \A u \in Tasks : u # t => task'[u] = task[u]
        /\ \A u \in Tasks : ~Active(u)
    BY <1>1, Fetching
  <2>2. ~Done({"publishing"} \cup Successful)'
    BY <1>1, <2>1 DEF Done, Successful
  <2>3. ASSUME runs # <<>>, Latest.exec = exec, Latest.status = "running"
        PROVE  Covered'
    <3>1. Len(runs) \in DOMAIN runs /\ Running(Len(runs))
      BY <2>3, LatestInDomain DEF Running, Latest
    <3>2. LostOwner(Len(runs))
      BY <2>1, <3>1, RowFacts DEF SettleInv, InTurn, Owns
    <3>3. PICK u \in Tasks : task[u].exec = exec /\ task[u].st = "lost"
      BY <2>3, <3>2 DEF LostOwner, Latest
    <3>4. task'[u] = task[u]
      BY <2>1, <3>3
    <3> QED
      BY <1>1, <3>3, <3>4 DEF Covered
  <2> QED
    BY <1>1, <2>1, <2>2, <2>3 DEF Shown, Latest
<1>2. CASE DeleteSync
  BY <1>2 DEF DeleteSync, Shown
<1>3. CASE ManualStep /\ fetched' = fetched
  <2>1. UNCHANGED <<runs, task, playlist, overlaps>>
    BY <1>3, NoTasks DEF ManualStep, AskMatch, ReadTrack, SaveMatch, NoMatch, MatchLost
  <2>2. \A i \in DOMAIN tracks' : i \in DOMAIN tracks /\ tracks'[i].item = tracks[i].item
    <3>1. CASE SaveMatch
      BY <3>1, SavedTypes
    <3>2. CASE ~SaveMatch
      BY <1>3, <3>2 DEF ManualStep, AskMatch, ReadTrack, NoMatch, MatchLost
    <3> QED
      BY <3>1, <3>2
  <2>3. Covered => Covered'
    BY <1>3, <2>1, <2>2 DEF Covered, Latest
  <2>4. manual'.n # 0
    BY <1>3, ByHand DEF ViewInv, Next, OtherStep
  <2>5. Tells => Tells'
    BY <1>3, <2>1, <2>4 DEF Tells, Done, Latest, LinksOf
  <2> QED
    BY <1>3, <2>1, <2>3, <2>5 DEF ViewInv, Shown, Serial, Latest, Done
<1>4. CASE RefuseDispatch /\ fetched' = fetched
  BY <1>4, Refusing DEF TypeOK, Shown
<1>5. ASSUME NEW t \in Tasks, WorkerLost(t) \/ Killed(t) \/ ChildStep(t), UNCHANGED single
      PROVE  Shown'
  BY <1>5, ShownChild, ChildKinds DEF Serial
<1>6. CASE UNCHANGED vars /\ fetched' = fetched
  BY <1>6 DEF ViewInv, Shown, Serial, Latest, Covered, Done, Tells, ItemsLinked, ItemsIn,
              LinksOf, MatchedRows, vars, single
<1>7. ASSUME NEW t \in Tasks, NEW exec \in Execs, NEW source \in Sources,
             Fetch(t, exec, source), fetched' # exec
      PROVE  Shown'
  <2>1. /\ UNCHANGED <<runs, tracks, manual, fetched, playlist>> /\ Serial
        /\ task[t].st = "absent" /\ task'[t].st = "over" /\ task'[t].exec = exec
        /\ \A u \in Tasks : u # t => task'[u] = task[u]
    BY <1>7, Fetching
  <2>2. exec # fetched /\ task[t].exec # fetched
    BY <1>7, <2>1 DEF Named, TypeOK
  <2>3. /\ Covered => Covered'
        /\ \A ends : Done(ends)' => Done(ends)
    BY <2>1, <2>2 DEF Covered, Done, Latest
  <2>4. Tells => Tells'
    BY <2>1, <2>3 DEF Tells, Latest, LinksOf, ItemsIn, ItemsLinked, MatchedRows
  <2> QED
    BY <2>1, <2>3, <2>4 DEF ViewInv, Shown, Latest
<1>8. ASSUME NEW source \in Sources, FetchElsewhere(source) PROVE Shown'
  <2>1. runs' = runs /\ fetched' = Elsewhere
    BY <1>8, FetchingElsewhere
  <2>2. runs # <<>> => Latest.exec # Elsewhere
    BY LatestInDomain, RowFacts DEF Latest, RunRow
  <2> QED
    BY <2>1, <2>2 DEF Shown, Latest
<1> QED
  BY <1>1, <1>2, <1>3, <1>4, <1>5, <1>6, <1>7, <1>8, ViewKinds

\* The diff of two runs: what was matched before, without what is gone and with
\* what is new, is what is matched now.
LEMMA DiffAddsUp ==
    ASSUME NEW from \in DOMAIN runs, NEW to \in DOMAIN runs,
           ItemsMatched(from) \subseteq runs[from].batch,
           ItemsMatched(to) \subseteq runs[to].batch
    PROVE  ItemsMatched(to) = (ItemsMatched(from) \ DiffRemoved(from, to))
                              \cup (ItemsMatched(to) \cap DiffAdded(from, to))
  BY DEF DiffAdded, DiffRemoved

\* Nobody is at work when the last fetch has settled.
LEMMA SettledRests ==
    ASSUME TypeOK, SettleInv, ViewInv, Settled, refusals = 0,
           \A t \in Tasks : task[t].st # "lost"
    PROVE  ScheduleShown = "idle"
<1>1. \A t \in Tasks : ~Active(t)
  BY DEF ViewInv, Current, Settled, Active, Ended, Successful
<1>2. \A i \in DOMAIN runs : ~Running(i)
  BY <1>1 DEF SettleInv, InTurn, Settled, Owns, LostOwner
<1>3. exists
  BY DEF SettleInv, Kept, Settled, TypeOK
<1> QED
  BY <1>2, <1>3 DEF ScheduleShown, ShownRunning, Running

\* The first row of the history is the latest.
LEMMA TopOfHistory ==
    ASSUME TypeOK, exists, runs # <<>>
    PROVE  Head(HistoryPage) = Latest
<1>1. runs \in Seq(RunRow) /\ Len(runs) \in Nat /\ Len(runs) # 0
  BY DEF TypeOK
<1>2. Reverse(runs) = [i \in 1..Len(runs) |-> runs[(Len(runs) - i) + 1]]
  BY DEF Reverse
<1>3. Reverse(runs)[1] = runs[Len(runs)]
  BY <1>1, <1>2
<1>4. Head(Reverse(runs)) = Reverse(runs)[1]
  BY <1>1, <1>2
<1> QED
  BY <1>3, <1>4 DEF HistoryPage, Latest

LEMMA ViewStep ==
    ASSUME TypeOK, SettleInv, Named, Linked, ViewInv, [Next]_vars
    PROVE  ViewInv'
  BY ViewKinds, CurrentStep, AtTopStep, WrittenStep, ByRulesStep, ShownStep DEF ViewInv

LEMMA Viewing ==
    Spec => [](TypeOK /\ SettleInv /\ ViewInv)
<1> DEFINE Inv == TypeOK /\ SettleInv /\ Named /\ Linked /\ ViewInv
<1>1. Init => Inv
  BY TypesInit, SettleInit, NamedInit, LinkedInit, ViewInit
<1>2. Inv /\ [Next]_vars => Inv'
  BY TypesStep, SettleStep, NamedStep, LinkedStep, ViewStep
<1>3. Inv => TypeOK /\ SettleInv /\ ViewInv
  OBVIOUS
<1> HIDE DEF Inv
<1> QED
  BY <1>1, <1>2, <1>3, PTL DEF Spec

\* Once a run has settled, history, pipeline, schedule list, tracks page and
\* diffs tell one story, whatever was lost, repeated or refused on the way, for
\* any tasks, executions, sources and budgets.
THEOREM PagesTellOneStory == Spec => []ViewsAgree
<1>1. TypeOK /\ SettleInv /\ ViewInv => ViewsAgree
  <2> SUFFICES ASSUME TypeOK, SettleInv, ViewInv, Settled
               PROVE  ViewsAgree
    BY DEF ViewsAgree
  <2>1. /\ Newest \in DOMAIN runs /\ Newest \in Nat /\ runs[Newest] = Latest
        /\ DOMAIN runs = 1..Newest
        /\ Latest.exec = fetched /\ Latest.status = "completed" /\ Serial /\ manual.n = 0
        /\ Done({"publishing"} \cup Successful)
    BY RowFacts, LatestInDomain DEF Settled, Newest, Latest, Done
  <2>2. /\ ItemsLinked = ItemsIn(Latest)
        /\ Exact /\ Latest.history # {} => playlist = LinksOf(Latest)
    BY <2>1 DEF Settled, Exact, Done, ViewInv, Shown, Tells
  <2>3. \A i \in DOMAIN runs : ItemsMatched(i) \subseteq runs[i].batch
    BY DEF ViewInv, Written, ItemsMatched
  <2>4. ItemsMatched(Newest) = ItemsIn(Latest) /\ LinksOf(Latest) = ItemsIn(Latest)
    <3>1. \A h \in Latest.history : h.link = h.item
      BY <2>1 DEF ViewInv, ByRules
    <3> QED
      BY <2>1, <3>1 DEF ItemsMatched, ItemsIn, LinksOf
  <2>5. Newest \in AttemptsOf(fetched) /\ \A i \in AttemptsOf(fetched) : i \in 1..Newest
    BY <2>1 DEF AttemptsOf
  <2>6. \A phase \in Phases : \A i \in AttemptsOf(fetched) :
            PipelineRuns(i, phase) = {Newest} /\ FetchShown(i, phase)
    <3>1. NewestRun(AttemptsOf(fetched)) = {Newest}
      BY <2>1, <2>5 DEF NewestRun
    <3>2. \A i \in AttemptsOf(fetched) : i # 0 /\ i \in DOMAIN runs /\ runs[i].exec = fetched
      BY <2>1 DEF AttemptsOf
    <3> QED
      BY <3>1, <3>2 DEF PipelineRuns, SelectExecution, FetchShown
  <2>7. Newest \in PipelineRuns(0, fetched)
    BY <2>5 DEF PipelineRuns
  <2>8. ScheduleShown = "idle" \/ refusals > 0 \/ \E t \in Tasks : task[t].st = "lost"
    BY SettledRests DEF TypeOK
  <2>9. {tracks[i].item : i \in MatchedRows} = {h.item : h \in Head(HistoryPage).history}
    <3>1. exists
      BY DEF SettleInv, Kept, Settled, TypeOK
    <3> QED
      BY <2>2, <3>1, TopOfHistory DEF Settled, ItemsLinked, ItemsIn
  <2>10. ASSUME Exact, Latest.history # {}, NEW from \in 1..(Newest - 1)
         PROVE  playlist = (ItemsMatched(from) \ DiffRemoved(from, Newest))
                           \cup (ItemsMatched(Newest) \cap DiffAdded(from, Newest))
    <3>1. from \in DOMAIN runs
      BY <2>1
    <3>2. playlist = ItemsMatched(Newest)
      BY <2>2, <2>4, <2>10
    <3> QED
      BY <2>1, <2>3, <3>1, <3>2, DiffAddsUp
  <2> QED
    BY <2>1, <2>6, <2>7, <2>8, <2>9, <2>10 DEF ViewsAgree
<1> QED
  BY <1>1, Viewing, PTL
=============================================================================
