---------------------------- MODULE TargetCache ----------------------------
(***************************************************************************)
(* The cached client of a sync target in the API and in a worker process.  *)
(*                                                                         *)
(* TargetService builds the client from the configuration and keeps it.    *)
(* The API drops it when a request has saved new settings; a worker        *)
(* compares a fingerprint of the configuration at the start of every child *)
(* task with the one it has dealt with.  The API is one event loop whose   *)
(* requests interleave at their awaits; a worker process runs one task at  *)
(* a time.  One target stands for all of them: they share lock and reset.  *)
(*                                                                         *)
(* A client is represented by the version of the settings it was built     *)
(* from.  The fingerprint is a hash of values: a version has a look, and   *)
(* settings set back to earlier values have their look again.  (A          *)
(* credential is encrypted anew each time it is saved, and looks new; an   *)
(* address is plain.)  The key of the workers is the one their main        *)
(* process loaded when it started.                                         *)
(***************************************************************************)
EXTENDS Naturals

CONSTANTS
    Requests,     \* coroutines of the API
    Looks,        \* what a hash of the settings can tell apart
    None,         \* no client, no fingerprint, nobody
    MaxChanges,   \* bound: changes of the target's settings
    MaxRotations, \* bound: rotations of the secret key
    MaxMishaps   \* bound: failures and deaths of processes

ASSUME TargetCacheAssumption ==
    /\ None \notin Requests \cup Nat \cup (Looks \X Nat)
    /\ MaxChanges \in Nat /\ MaxRotations \in Nat /\ MaxMishaps \in Nat

VARIABLES
    conf, key,   \* version of the stored settings, and of the key in use there
    was,         \* history: version -> how the settings looked
    shared,      \* the fingerprint in Valkey
    cache, lock, \* _instances and _lock of the API
    memKey,      \* the secret key in the API's memory
    pc, inst,    \* request -> where it stands, the client it has in hand
    reading,     \* requests whose background update of `shared` is to read,
    push,        \* request -> the fingerprint its update is to write
    child,       \* worker process: its _instances and _processed_fp, and as
                 \* history the version that fingerprint was taken of
    wkey,        \* the key of the worker's main process
    wpc, seen,   \* where the task stands, the fingerprint it read
    wuse, from,  \* the client it uses; history: the settings when it read
    missed,      \* history: a reset was lost or overtaken a client being built
    mishaps

stored  == <<conf, key, was>>
api     == <<cache, lock, memKey, pc, inst, reading, push, missed>>
worker  == <<child, wkey, wpc, seen, wuse, from>>
cacheVars    == <<stored, shared, api, worker, mishaps>>

Versions     == 0..MaxChanges
Eras         == 0..MaxRotations
Fingerprints == Looks \X Eras

\* _config_fingerprint hashes the values of the whole table, ciphertexts
\* included: these are new after a rotation.
Fingerprint == <<was[conf], key>>

NoClient == [cache |-> None, processed |-> None, asOf |-> 0]
Mishap  == mishaps < MaxMishaps /\ mishaps' = mishaps + 1
Goto(r, l) == pc' = [pc EXCEPT ![r] = l]

TaskOver == wpc' = "idle" /\ seen' = None /\ wuse' = None /\ from' = 0

CacheInit ==
    /\ conf = 0 /\ key = 0 /\ shared = None
    /\ \E l \in Looks : was = [v \in Versions |-> l]
    /\ cache = None /\ lock = None /\ memKey = 0
    /\ pc = [r \in Requests |-> "idle"]
    /\ inst = [r \in Requests |-> None]
    /\ reading = {} /\ push = [r \in Requests |-> None]
    /\ child = NoClient /\ wkey = 0
    /\ wpc = "idle" /\ seen = None /\ wuse = None /\ from = 0
    /\ missed = FALSE /\ mishaps = 0

-----------------------------------------------------------------------------
(* The API: get_target_async                                               *)

\* A cached client is taken without the lock.
Get(r) ==
    /\ pc[r] = "idle"
    /\ Goto(r, IF cache = None THEN "waiting" ELSE "using")
    /\ inst' = [inst EXCEPT ![r] = cache]
    /\ UNCHANGED <<stored, shared, cache, lock, memKey, reading, push, missed, worker, mishaps>>

\* The second look, under the lock.
Lock(r) ==
    /\ pc[r] = "waiting" /\ lock = None
    /\ IF cache = None
       THEN lock' = r /\ Goto(r, "loading") /\ UNCHANGED inst
       ELSE inst' = [inst EXCEPT ![r] = cache] /\ Goto(r, "using") /\ UNCHANGED lock
    /\ UNCHANGED <<stored, shared, cache, memKey, reading, push, missed, worker, mishaps>>

\* The factory reads the settings and decrypts them.
Load(r) ==
    /\ pc[r] = "loading" /\ memKey = key
    /\ inst' = [inst EXCEPT ![r] = conf]
    /\ Goto(r, "built")
    /\ UNCHANGED <<stored, shared, cache, lock, memKey, reading, push, missed, worker, mishaps>>

\* Nothing is cached when it raises.
LoadFails(r) ==
    /\ pc[r] = "loading"
    /\ \/ memKey # key /\ UNCHANGED mishaps
       \/ Mishap
    /\ lock' = None
    /\ Goto(r, "idle")
    /\ UNCHANGED <<stored, shared, cache, memKey, inst, reading, push, missed, worker>>

Store(r) ==
    /\ pc[r] = "built"
    /\ cache' = inst[r]
    /\ lock' = None
    /\ Goto(r, "using")
    /\ UNCHANGED <<stored, shared, memKey, inst, reading, push, missed, worker, mishaps>>

Use(r) ==
    /\ pc[r] = "using"
    /\ Goto(r, "idle")
    /\ inst' = [inst EXCEPT ![r] = None]
    /\ UNCHANGED <<stored, shared, cache, lock, memKey, reading, push, missed, worker, mishaps>>

-----------------------------------------------------------------------------
(* The API: put_settings and plex_setup                                    *)

\* The new values may be those of an earlier version.
Save(r) ==
    /\ pc[r] = "idle" /\ r \notin reading /\ push[r] = None /\ conf < MaxChanges
    /\ conf' = conf + 1
    /\ \E l \in Looks \ {was[conf]} : was' = [was EXCEPT ![conf + 1] = l]
    /\ Goto(r, "saved")
    /\ UNCHANGED <<key, shared, cache, lock, memKey, inst, reading, push, missed, worker, mishaps>>

\* Reading the settings back raises: no reset.
SaveBreaksOff(r) ==
    /\ pc[r] = "saved" /\ Mishap
    /\ Goto(r, "idle")
    /\ missed' = TRUE
    /\ UNCHANGED <<stored, shared, cache, lock, memKey, inst, reading, push, worker>>

\* Mutant of Reset: the clients are closed, but stay in the cache.
ResetClosingOnly(r) ==
    /\ pc[r] = "saved"
    /\ missed' = \E q \in Requests : pc[q] = "built" /\ inst[q] < conf
    /\ reading' = reading \cup {r}
    /\ Goto(r, "idle")
    /\ UNCHANGED <<stored, shared, cache, lock, memKey, inst, push, worker, mishaps>>

\* reset: the cache is emptied whoever holds the lock, the update of the
\* shared fingerprint goes on in the background.
Reset(r) ==
    /\ pc[r] = "saved"
    /\ cache' = None
    /\ missed' = \E q \in Requests : pc[q] = "built" /\ inst[q] < conf
    /\ reading' = reading \cup {r}
    /\ Goto(r, "idle")
    /\ UNCHANGED <<stored, shared, lock, memKey, inst, push, worker, mishaps>>

\* A thread reads the table, then the script stores what it read; an error
\* of either is nobody's.
PushRead(r) ==
    /\ r \in reading
    /\ reading' = reading \ {r}
    /\ \/ push' = [push EXCEPT ![r] = Fingerprint] /\ UNCHANGED mishaps
       \/ UNCHANGED push /\ Mishap
    /\ UNCHANGED <<stored, shared, cache, lock, memKey, pc, inst, missed, worker>>

PushWrite(r) ==
    /\ push[r] # None
    /\ shared' = push[r]
    /\ push' = [push EXCEPT ![r] = None]
    /\ UNCHANGED <<stored, cache, lock, memKey, pc, inst, reading, missed, worker, mishaps>>

\* rotate_secret_key: the memory first, then the rows (module SecretKey).
RotateSwitch ==
    /\ memKey = key /\ key < MaxRotations
    /\ memKey' = key + 1
    /\ UNCHANGED <<stored, shared, cache, lock, pc, inst, reading, push, missed, worker, mishaps>>

RotateCommit ==
    /\ memKey # key
    /\ key' = memKey
    /\ UNCHANGED <<conf, was, shared, api, worker, mishaps>>

ApiRestarts ==
    /\ Mishap
    /\ cache' = None /\ lock' = None /\ memKey' = key /\ missed' = FALSE
    /\ pc' = [r \in Requests |-> "idle"]
    /\ inst' = [r \in Requests |-> None]
    /\ reading' = {} /\ push' = [r \in Requests |-> None]
    /\ UNCHANGED <<stored, shared, worker>>

-----------------------------------------------------------------------------
(* The worker: sync_target_task, match_track_task                          *)

\* The fingerprint is taken, or the attempt raises.
TaskStarts ==
    /\ wpc = "idle"
    /\ from' = conf
    /\ \/ seen' = Fingerprint /\ wpc' = "compare" /\ UNCHANGED mishaps
       \/ wpc' = "again" /\ Mishap /\ UNCHANGED seen
    /\ UNCHANGED <<stored, shared, api, child, wkey, wuse>>

\* Mutant of Compare: with the fingerprint in Valkey, as the pipeline did.
CompareShared ==
    /\ wpc = "compare"
    /\ IF seen = shared
       THEN wpc' = "target" /\ UNCHANGED child
       ELSE wpc' = "push" /\ child' = NoClient
    /\ UNCHANGED <<stored, shared, api, wkey, seen, wuse, from, mishaps>>

\* reset in the worker: cache and fingerprint are gone before it waits.
Compare ==
    /\ wpc = "compare"
    /\ IF seen = child.processed
       THEN wpc' = "target" /\ UNCHANGED child
       ELSE wpc' = "push" /\ child' = NoClient
    /\ UNCHANGED <<stored, shared, api, wkey, seen, wuse, from, mishaps>>

\* It waits for the update of the shared fingerprint, and only then knows
\* its own; an error leads to a second reset.
Push ==
    /\ wpc = "push"
    /\ \/ /\ shared' = Fingerprint
          /\ child' = [child EXCEPT !.processed = seen, !.asOf = from]
          /\ wpc' = "target" /\ UNCHANGED mishaps
       \/ wpc' = "again" /\ Mishap /\ UNCHANGED <<shared, child>>
    /\ UNCHANGED <<stored, api, wkey, seen, wuse, from>>

\* The handler's reset is not guarded: when it raises, the task is over.
ResetAgain ==
    /\ wpc = "again"
    /\ child' = NoClient
    /\ \/ /\ shared' = Fingerprint
          /\ wpc' = "target"
          /\ UNCHANGED <<seen, wuse, from, mishaps>>
       \/ TaskOver /\ Mishap /\ UNCHANGED shared
    /\ UNCHANGED <<stored, api, wkey>>

\* The pipeline asks for its target when it first needs it.
Target ==
    LET client == IF child.cache = None THEN conf ELSE child.cache IN
    /\ wpc = "target"
    /\ child.cache # None \/ wkey = key
    /\ child' = [child EXCEPT !.cache = client]
    /\ wuse' = client
    /\ wpc' = "run"
    /\ UNCHANGED <<stored, shared, api, wkey, seen, from, mishaps>>

\* The credential was encrypted with another key, or the database is away.
TargetFails ==
    /\ wpc = "target" /\ child.cache = None
    /\ \/ wkey # key /\ UNCHANGED mishaps
       \/ Mishap
    /\ TaskOver
    /\ UNCHANGED <<stored, shared, api, child, wkey>>

TaskEnds ==
    /\ wpc = "run"
    /\ TaskOver
    /\ UNCHANGED <<stored, shared, api, child, wkey, mishaps>>

\* A match asked for by hand takes the cached client, or builds it, without a
\* look at the fingerprint.
MatchTrack ==
    /\ wpc = "idle" /\ child.cache = None /\ wkey = key
    /\ child' = [child EXCEPT !.cache = conf]
    /\ UNCHANGED <<stored, shared, api, wkey, wpc, seen, wuse, from, mishaps>>

\* The pool replaces a process by a fork of the main process, which loads
\* the key once, at worker_init.
ChildDies ==
    /\ Mishap
    /\ child' = NoClient /\ TaskOver
    /\ UNCHANGED <<stored, shared, api, wkey>>

WorkerRestarts ==
    /\ wkey' = key
    /\ child' = NoClient /\ TaskOver
    /\ UNCHANGED <<stored, shared, api, mishaps>>

-----------------------------------------------------------------------------
CacheNext ==
    \/ \E r \in Requests :
          \/ Get(r) \/ Lock(r) \/ Load(r) \/ LoadFails(r) \/ Store(r) \/ Use(r)
          \/ Save(r) \/ SaveBreaksOff(r) \/ Reset(r) \/ PushRead(r) \/ PushWrite(r)
    \/ RotateSwitch \/ RotateCommit \/ ApiRestarts
    \/ TaskStarts \/ Compare \/ Push \/ ResetAgain \/ Target \/ TargetFails \/ TaskEnds
    \/ MatchTrack \/ ChildDies \/ WorkerRestarts

CacheSpec == CacheInit /\ [][CacheNext]_cacheVars

-----------------------------------------------------------------------------
(* Properties                                                              *)

\* The values of the variables; whoever builds holds the lock.
CacheTypeOK ==
    /\ conf \in Versions /\ key \in Eras /\ memKey \in Eras /\ wkey \in Eras
    /\ was \in [Versions -> Looks]
    /\ shared \in Fingerprints \cup {None}
    /\ cache \in Versions \cup {None}
    /\ lock \in Requests \cup {None}
    /\ pc \in [Requests -> {"idle", "waiting", "loading", "built", "using", "saved"}]
    /\ \A r \in Requests : (lock = r) <=> (pc[r] \in {"loading", "built"})
    /\ inst \in [Requests -> Versions \cup {None}]
    /\ reading \subseteq Requests
    /\ push \in [Requests -> Fingerprints \cup {None}]
    /\ child \in [cache : Versions \cup {None}, processed : Fingerprints \cup {None},
                  asOf : Versions]
    /\ wpc \in {"idle", "compare", "push", "again", "target", "run"}
    /\ seen \in Fingerprints \cup {None}
    /\ wuse \in Versions \cup {None} /\ from \in Versions
    /\ missed \in BOOLEAN /\ mishaps \in 0..MaxMishaps

\* A child task runs with a client of the settings that were stored when it
\* began, of newer ones, or of older ones with the same values, whatever the
\* API does to the shared fingerprint and however the worker's own attempts to
\* deal with a change fail.  One case breaks it, for the fingerprint is taken
\* before the client is built: the settings were changed in between and set
\* back since.  A task that begins now finds the fingerprint it knows, and
\* keeps the client of the settings in the middle until the next change.
\* Nothing is claimed of a match by hand, which looks at no fingerprint.
WorkerFresh ==
    wpc = "run" => \/ wuse >= from
                   \/ was[wuse] = was[from]
                   \/ child.asOf < wuse /\ was[child.asOf] = was[from]

\* The API serves a client of superseded settings only between a save and
\* its reset, after a save that broke off, or when the reset came while a
\* client was being built from settings read before.
ApiFresh ==
    cache # None /\ cache < conf => missed \/ \E r \in Requests : pc[r] = "saved"

=============================================================================
