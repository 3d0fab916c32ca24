--------------------------- MODULE PlaylistUpdate ---------------------------
(***************************************************************************)
(* Writing the playlist of ONE (sync, target) pair: PlaylistSync.sync of   *)
(* worker/playlist_sync.py and the two adapters it calls,                  *)
(* core/targets/plex/playlist.py and core/targets/jellyfin/playlist.py,    *)
(* request by request.                                                     *)
(*                                                                         *)
(* Plex edits item by item: it works out what to remove, whether the rest  *)
(* is in the wanted order, and what to add.  Jellyfin empties the playlist *)
(* and fills it again, one request each.  Every request can fail, with an  *)
(* HTTP error (not carried out) or with a lost answer (carried out); some  *)
(* of the calls turn an error into None or an empty list and go on.  The   *)
(* user can edit or delete the playlist at any time, and a lost worker     *)
(* starts the attempt again.                                               *)
(***************************************************************************)
EXTENDS Naturals, Sequences, FiniteSets

CONSTANTS
    Items,       \* library items
    Wanted,      \* the item sequences a sync can ask for
    Backends,    \* a subset of {"plex", "jellyfin"}
    MaxAttempts, \* bound: calls of PlaylistSync.sync
    MaxTroubles  \* bound: failed requests, lost workers, edits by the user

ASSUME ItemsAssumption == "gone" \notin Items
ASSUME WantedAssumption == Wanted \subseteq Seq(Items) \ {<<>>}
ASSUME BackendsAssumption == Backends \subseteq {"plex", "jellyfin"}
ASSUME AttemptBoundsAssumption == MaxAttempts \in Nat /\ MaxTroubles \in Nat

VARIABLES
    backend,  \* the target's adapter
    remote,   \* playlists on the target, by id 1, 2, ...; "gone" if deleted
    saved,    \* schedule_targets.playlist_id, 0 for NULL
    job,      \* the attempt under way or the last one
    attempts, troubles

vars == <<backend, remote, saved, job, attempts, troubles>>

Request == [op : {"del", "add"}, items : Seq(Items)]

Ended == {"idle", "ok", "failed"}

\* desired: matched_item_ids; batches: the calls still to make, each a list of
\* requests; bad: a request of the current batch failed; made: the playlist
\* being created; clean: nothing went wrong in this attempt; skipped: the
\* contents were found equal.
NoJob == [st |-> "idle", desired |-> <<>>, batches |-> <<>>, bad |-> FALSE,
          made |-> 0, clean |-> TRUE, skipped |-> FALSE]

Init ==
    /\ backend \in Backends
    /\ remote = <<>> /\ saved = 0 /\ job = NoJob /\ attempts = 0 /\ troubles = 0

Trouble == troubles < MaxTroubles /\ troubles' = troubles + 1
Calm == UNCHANGED troubles

Gone == <<"gone">>
Exists(id) == id # 0 /\ remote[id] # Gone

\* get_items_in_playlist when nothing goes wrong on the way: a playlist that
\* is gone reads as empty, as does every error.
Listed(id) == IF Exists(id) THEN remote[id] ELSE <<>>

-----------------------------------------------------------------------------
(* What an update has to do *)

ItemsOf(seq) == {seq[i] : i \in DOMAIN seq}
Count(seq, x) == Cardinality({i \in DOMAIN seq : seq[i] = x})
SameItems(s, t) == \A x \in ItemsOf(s) \cup ItemsOf(t) : Count(s, x) = Count(t, x)
NoDuplicates(seq) == \A x \in ItemsOf(seq) : Count(seq, x) = 1

\* The entries that are, or are not, in a set, in their order.
Inside(seq, set) ==
    LET kept[i \in 0..Len(seq)] ==
            IF i = 0 THEN <<>>
            ELSE IF seq[i] \in set THEN Append(kept[i - 1], seq[i]) ELSE kept[i - 1]
    IN  kept[Len(seq)]
Outside(seq, set) == Inside(seq, ItemsOf(seq) \ set)

FirstIndex(seq, x) ==
    CHOOSE i \in DOMAIN seq : seq[i] = x /\ \A j \in 1..(i - 1) : seq[j] # x

\* The greedy walk of _playlist_needs_reorder succeeds iff this holds.
IsSubsequence(s, t) ==
    \E f \in [DOMAIN s -> DOMAIN t] :
        /\ \A i \in DOMAIN s : t[f[i]] = s[i]
        /\ \A i, j \in DOMAIN s : i < j => f[i] < f[j]

\* mutant: the position of the added items is not looked at.
NeedsReorderByWalk(remaining, toAdd, desired) == ~IsSubsequence(remaining, desired)

NeedsReorder(remaining, toAdd, desired) ==
    /\ remaining # <<>>
    /\ \/ ~IsSubsequence(remaining, desired)
       \/ \E a \in ItemsOf(toAdd), r \in ItemsOf(remaining) :
              FirstIndex(desired, a) < FirstIndex(desired, r)

\* One request per item (Plex), one for all (Jellyfin).
Singles(op, seq) == [i \in DOMAIN seq |-> [op |-> op, items |-> <<seq[i]>>]]
Whole(op, seq) == IF seq = <<>> THEN <<>> ELSE << [op |-> op, items |-> seq] >>

PlexPlan(current, desired) ==
    LET toRemove  == Outside(current, ItemsOf(desired))
        toAdd     == Outside(desired, ItemsOf(current))
        remaining == Inside(current, ItemsOf(desired))
    IN  IF current = desired THEN <<>>
        ELSE IF NeedsReorder(remaining, toAdd, desired)
        THEN << Singles("del", toRemove), Singles("del", remaining), Singles("add", desired) >>
        ELSE << Singles("del", toRemove), Singles("add", toAdd) >>

JellyfinPlan(current, desired) == << Whole("del", current), Whole("add", desired) >>

UpdatePlan(current, desired) ==
    IF backend = "plex" THEN PlexPlan(current, desired) ELSE JellyfinPlan(current, desired)

\* What the server does.  Plex drops one entry of the item, Jellyfin every
\* entry whose item is named.
RemoveAt(seq, i) == SubSeq(seq, 1, i - 1) \o SubSeq(seq, i + 1, Len(seq))
Served(seq, req) ==
    CASE req.op = "add" -> seq \o req.items
      [] req.op = "del" /\ backend = "jellyfin" -> Outside(seq, ItemsOf(req.items))
      [] req.op = "del" /\ backend = "plex" ->
             IF req.items[1] \in ItemsOf(seq)
             THEN RemoveAt(seq, FirstIndex(seq, req.items[1])) ELSE seq

-----------------------------------------------------------------------------
(* PlaylistSync.sync *)

Goes(st) == job' = [job EXCEPT !.st = st]
GoesDirty(st) == job' = [job EXCEPT !.st = st, !.clean = FALSE]

\* sync() reads the saved id: look at that playlist, or create one.
StartSync(desired) ==
    /\ job.st \in Ended /\ attempts < MaxAttempts
    /\ attempts' = attempts + 1
    /\ job' = [NoJob EXCEPT !.desired = desired,
                            !.st = IF saved = 0 THEN "create" ELSE "details"]
    /\ UNCHANGED <<backend, remote, saved, troubles>>

\* get_playlist_details: any error reads as "no such playlist".
GetDetails ==
    /\ job.st = "details"
    /\ \/ Goes(IF Exists(saved) THEN "compare" ELSE "create") /\ Calm
       \/ GoesDirty("create") /\ Trouble
    /\ UNCHANGED <<backend, remote, saved, attempts>>

\* get_items_in_playlist: an error reads as an empty playlist.  The items are
\* compared without their order.
CompareItems ==
    /\ job.st = "compare"
    /\ \/ /\ IF SameItems(Listed(saved), job.desired)
             THEN job' = [job EXCEPT !.st = "ok", !.skipped = TRUE]
             ELSE Goes("plan")
          /\ Calm
       \/ GoesDirty("plan") /\ Trouble
    /\ UNCHANGED <<backend, remote, saved, attempts>>

\* update_playlist reads the items once more and decides what to do; an error
\* reads as an empty playlist, a lost answer makes the update fail.
PlanUpdate ==
    /\ job.st = "plan"
    /\ \/ /\ job' = [job EXCEPT !.st = "requests", !.batches =
                        UpdatePlan(Listed(saved), job.desired)]
          /\ Calm
       \/ /\ job' = [job EXCEPT !.st = "requests", !.clean = FALSE,
                                !.batches = UpdatePlan(<<>>, job.desired)]
          /\ Trouble
       \/ GoesDirty("failed") /\ Trouble
    /\ UNCHANGED <<backend, remote, saved, attempts>>

\* The playlist the requests go to: the one being made, or the saved one.
Current == IF job.made # 0 THEN job.made ELSE saved

\* The next request of the current batch.  A playlist that is gone answers
\* with an error; an error is counted and the batch goes on (bad).  A lost
\* answer ends the attempt: in update_playlist as a failure; out of Plex's
\* create_playlist it is raised before the id is saved.
SendRequest ==
    /\ job.st = "requests" /\ job.batches # <<>> /\ Head(job.batches) # <<>>
    /\ LET req  == Head(Head(job.batches))
           rest == << Tail(Head(job.batches)) >> \o Tail(job.batches)
       IN  \/ /\ Exists(Current)
              /\ remote' = [remote EXCEPT ![Current] = Served(@, req)]
              /\ job' = [job EXCEPT !.batches = rest]
              /\ Calm
           \/ /\ ~Exists(Current)
              /\ job' = [job EXCEPT !.batches = rest, !.bad = TRUE]
              /\ UNCHANGED remote /\ Calm
           \/ /\ job' = [job EXCEPT !.batches = rest, !.bad = TRUE, !.clean = FALSE]
              /\ UNCHANGED remote /\ Trouble
           \/ /\ Exists(Current)
              /\ remote' = [remote EXCEPT ![Current] = Served(@, req)]
              /\ GoesDirty("failed") /\ Trouble
    /\ UNCHANGED <<backend, saved, attempts>>

\* mutant: the failed requests of a batch are not looked at.
EndBatchUnchecked ==
    /\ job.st = "requests" /\ job.batches # <<>> /\ Head(job.batches) = <<>>
    /\ job' = [job EXCEPT !.batches = Tail(@), !.bad = FALSE]
    /\ UNCHANGED <<backend, remote, saved, attempts, troubles>>

\* "only removed / added n of m": update_playlist returns False and sync()
\* raises.  While creating, the count is not looked at.
EndBatch ==
    /\ job.st = "requests" /\ job.batches # <<>> /\ Head(job.batches) = <<>>
    /\ IF job.bad /\ job.made = 0
       THEN Goes("failed")
       ELSE job' = [job EXCEPT !.batches = Tail(@), !.bad = FALSE]
    /\ UNCHANGED <<backend, remote, saved, attempts, troubles>>

EndRequests ==
    /\ job.st = "requests" /\ job.batches = <<>>
    /\ Goes(IF job.made = 0 THEN "ok" ELSE "save")
    /\ UNCHANGED <<backend, remote, saved, attempts, troubles>>

\* The ratingKey or Id the server answers with.
NewId == Len(remote) + 1

\* create_playlist of Plex posts the first item and adds the others request by
\* request.  An error answers None, and sync() returns without saving: the
\* attempt counts as a success.  A lost answer is raised.
PlexCreates ==
    /\ job.st = "create" /\ backend = "plex"
    /\ LET first == Append(remote, <<job.desired[1]>>) IN
       \/ /\ remote' = first /\ Calm
          /\ job' = [job EXCEPT !.st = "requests", !.made = NewId,
                                !.batches = << Singles("add", Tail(job.desired)) >>]
       \/ UNCHANGED remote /\ GoesDirty("ok") /\ Trouble
       \/ remote' = first /\ GoesDirty("failed") /\ Trouble
    /\ UNCHANGED <<backend, saved, attempts>>

\* create_playlist of Jellyfin posts all items at once; every error answers
\* None, a lost answer too.  (The description is written with one more
\* request, whose failure is ignored.)
JellyfinCreates ==
    /\ job.st = "create" /\ backend = "jellyfin"
    /\ LET whole == Append(remote, job.desired) IN
       \/ /\ remote' = whole /\ Calm
          /\ job' = [job EXCEPT !.st = "save", !.made = NewId]
       \/ remote' \in {remote, whole} /\ GoesDirty("ok") /\ Trouble
    /\ UNCHANGED <<backend, saved, attempts>>

\* mutant: the new id is stored only where none was stored before.
SaveIdOnce ==
    /\ job.st = "save"
    /\ saved' = (IF saved = 0 THEN job.made ELSE saved)
    /\ Goes("ok")
    /\ UNCHANGED <<backend, remote, attempts, troubles>>

\* save_playlist_id: upsert of schedule_targets.playlist_id.
SaveId ==
    /\ job.st = "save"
    /\ saved' = job.made
    /\ Goes("ok")
    /\ UNCHANGED <<backend, remote, attempts, troubles>>

-----------------------------------------------------------------------------
(* What can happen meanwhile *)

\* The worker dies, or a database error is raised: the attempt is over and
\* the task will make another one.
AttemptLost ==
    /\ job.st \notin Ended
    /\ Trouble
    /\ GoesDirty("failed")
    /\ UNCHANGED <<backend, remote, saved, attempts>>

\* The user adds a track to a playlist, or deletes it.
UserEdits(id) ==
    /\ id \in DOMAIN remote /\ Exists(id)
    /\ Trouble
    /\ \/ \E x \in Items : remote' = [remote EXCEPT ![id] = Append(@, x)]
       \/ remote' = [remote EXCEPT ![id] = Gone]
    /\ job' = [job EXCEPT !.clean = job.st \in Ended /\ @]
    /\ UNCHANGED <<backend, saved, attempts>>

Next ==
    \/ \E d \in Wanted : StartSync(d)
    \/ GetDetails \/ CompareItems \/ PlanUpdate
    \/ SendRequest \/ EndBatch \/ EndRequests
    \/ PlexCreates \/ JellyfinCreates \/ SaveId
    \/ AttemptLost
    \/ \E id \in DOMAIN remote : UserEdits(id)

Spec == Init /\ [][Next]_vars

-----------------------------------------------------------------------------
(* Properties *)

\* The values of the variables.  An attempt has a list to write; it makes a
\* playlist only once it was to create one, and it updates the saved one.
TypeOK ==
    /\ backend \in Backends
    /\ remote \in Seq(Seq(Items) \cup {Gone})
    /\ saved \in 0..Len(remote)
    /\ job \in [st : {"details", "create", "compare", "plan", "requests", "save"} \cup Ended,
                desired : Seq(Items), batches : Seq(Seq(Request)), bad : BOOLEAN,
                made : 0..Len(remote), clean : BOOLEAN, skipped : BOOLEAN]
    /\ attempts \in 0..MaxAttempts /\ troubles \in 0..MaxTroubles
    /\ job.st # "idle" => job.desired \in Wanted
    /\ job.st \in {"details", "create", "compare", "plan"} => job.made = 0
    /\ job.st = "save" => job.made # 0
    /\ job.st \in {"details", "compare", "plan"} => saved # 0
    /\ (job.st = "requests" /\ job.made = 0) => saved # 0

Ends == job.st \notin Ended /\ job'.st \in Ended

\* An attempt in which nothing goes wrong succeeds and leaves exactly the wanted
\* items in the playlist, whatever earlier attempts, half done, had left there:
\* in the wanted order too if it wrote, and as a set of entries if it found
\* nothing to do (playlist_sync.py 94-118, plex/playlist.py 136-244,
\* jellyfin/playlist.py 111-142).  Plex needs a list without duplicates: a
\* second entry of an item it already holds is never added.
CleanSyncExact ==
    [][Ends /\ job'.clean /\ (backend = "plex" => NoDuplicates(job.desired)) =>
         /\ job'.st = "ok" /\ saved' # 0
         /\ IF job'.skipped THEN SameItems(remote'[saved'], job.desired)
                            ELSE remote'[saved'] = job.desired]_vars

\* An update that reports success lost none of the wanted items, whatever was
\* answered on the way (plex/playlist.py 157-206).
UpdateLosesNothing ==
    [][job.st = "requests" /\ job'.st = "ok" /\ Exists(saved)
         => ItemsOf(job.desired) \subseteq ItemsOf(remote[saved])]_vars

\* Every playlist beside the saved one was paid for by a failure: retries and
\* redeliveries do not pile up playlists on the target by themselves
\* (playlist_sync.py 82-136).
StraysBounded ==
    Cardinality({id \in DOMAIN remote : Exists(id)}
                  \ {saved, IF job.st \in Ended THEN 0 ELSE job.made}) <= troubles
=============================================================================
