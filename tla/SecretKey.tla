----------------------------- MODULE SecretKey ------------------------------
(***************************************************************************)
(* The secret key and the credentials encrypted with it.                   *)
(*                                                                         *)
(* The config table holds the secret key in plaintext and the sensitive    *)
(* settings encrypted with it.  The API process keeps its own copy of the  *)
(* key and of the settings in memory.  Three handlers of api/settings.py   *)
(* change them: the setup wizard, the rotation of the key and the update   *)
(* of settings.  Each is a coroutine that reads rows, changes memory and   *)
(* commits at different awaits, so they interleave.  A worker container    *)
(* starts once the key is there; it is told by a message on a channel that *)
(* keeps nothing for later subscribers.                                    *)
(*                                                                         *)
(* A ciphertext is the plaintext together with the key it was made with.   *)
(***************************************************************************)
EXTENDS Naturals, FiniteSets

CONSTANTS
    MaxRequests, \* bound: calls of the three handlers
    MaxBusy,     \* bound: calls in flight at a time
    Secrets,     \* sensitive settings
    Values,      \* their plaintexts
    Bodies,      \* the updates that are sent: some secrets and their values
    NewKeys,     \* keys that setup and rotation bring
    EnvKey,      \* SECRET_KEY of the environment, with or without characters
    None,        \* no row, no value
    MaxTroubles  \* bound: failed commits and loads, deaths, lost messages

ASSUME SecretKeyAssumption ==
    /\ EnvKey \notin NewKeys
    /\ Bodies \subseteq UNION {[S -> Values] : S \in (SUBSET Secrets) \ {{}}}
    /\ None \notin NewKeys \cup {EnvKey} \cup Values
    /\ None \notin [p : Values, k : NewKeys \cup {EnvKey}]
    /\ MaxRequests \in Nat /\ MaxBusy \in Nat /\ MaxTroubles \in Nat

VARIABLES
    stored,   \* the secret_key row
    row,      \* secret -> its row
    up,       \* the API process serves requests
    mem,      \* settings.secret_key of the API process
    warm,     \* its cipher for mem is built and cached
    val,      \* secret -> its plaintext in the settings of the API process
    pc,       \* request -> the await it stands at
    op,       \* request -> what it was asked and what it has read
    worker,   \* the worker container: where it stands and its key
    troubles, \* troubles so far
    saved,    \* history: secret -> the last value a commit stored
    upset,    \* history: a key change overlapped another handler
    astray,   \* history: secrets written with a strange key, or lost sight of
    alone     \* history: requests nobody has overlapped

api     == <<up, mem, warm, val>>
history == <<saved, upset, astray, alone>>
vars    == <<stored, row, api, pc, op, worker, troubles, history>>

Requests    == 1..MaxRequests   \* numbered as they arrive
Keys        == NewKeys \cup {EnvKey}

\* The key that the rows ought to be encrypted with: without a row, the
\* environment's.
Key == IF stored = None THEN EnvKey ELSE stored

\* decrypt_token with key k; None stands for DecryptionError.
Decrypt(c, k) == IF c # None /\ c.k = k THEN c.p ELSE None

\* r's writes laid over the rows
Over(w) == [s \in Secrets |-> IF s \in DOMAIN w THEN w[s] ELSE row[s]]

\* strange is history: the request began with a key in memory that is not the
\* stored one, left by a rotation whose commit failed, or by a start that could
\* not load.
NoOp == [key |-> None, insert |-> FALSE, body |-> <<>>, strange |-> FALSE,
         rows |-> <<>>, seen |-> None, out |-> <<>>]

InFlight(r)   == pc[r] \notin {"new", "done"}
Busy          == {r \in Requests : InFlight(r)}
ChangesKey(r) == op[r].key # None
Goto(r, l)    == pc' = [pc EXCEPT ![r] = l]

\* The answer is sent: what the request carried is gone.
Done(r) == Goto(r, "done") /\ op' = [op EXCEPT ![r] = NoOp]

Init ==
    /\ stored = None
    /\ row = [s \in Secrets |-> None]
    /\ up = TRUE /\ mem = EnvKey /\ warm = FALSE
    /\ val = [s \in Secrets |-> None]
    /\ pc = [r \in Requests |-> "new"]
    /\ op = [r \in Requests |-> NoOp]
    /\ worker = [at |-> "check", key |-> None]
    /\ troubles = 0
    /\ saved = [s \in Secrets |-> None]
    /\ upset = FALSE /\ astray = {} /\ alone = {}

-----------------------------------------------------------------------------
(* What the handlers share                                                 *)

Trouble == troubles < MaxTroubles /\ troubles' = troubles + 1
Calm    == UNCHANGED troubles

\* A request arrives: the history notes whom it overlaps.
Arrive(r, l, o) ==
    /\ up /\ pc[r] = "new"
    /\ Cardinality(Busy) < MaxBusy
    /\ \A q \in 1..(r - 1) : pc[q] # "new"
    /\ Goto(r, l)
    /\ op' = [op EXCEPT ![r] = o]
    /\ alone' = IF Busy = {} THEN {r} ELSE {}
    /\ upset' = \/ upset
                \/ Busy # {} /\ (o.key # None \/ \E b \in Busy : ChangesKey(b))
    /\ UNCHANGED <<stored, row, api, worker, saved, astray>> /\ Calm

\* The transaction fails, or the session is closed by an exception: the rows
\* stay as they were, memory too.
CommitFails(r) ==
    /\ pc[r] \in {"setup_commit", "rotate_commit", "put_commit"}
    /\ Done(r)
    /\ UNCHANGED <<stored, row, api, worker, history>>

\* An INSERT of the secret_key row meets the primary key.
KeyRowTaken(r) == op[r].insert /\ stored # None

\* A message on app:configured reaches a worker that listens, and only it.
Publish(w) == IF w.at = "listen" THEN [w EXCEPT !.at = "load"] ELSE w

-----------------------------------------------------------------------------
(* POST /settings/setup                                                    *)

\* The row is looked up; the request is refused when there is one.
SetupCheck(r, k) ==
    /\ IF stored = None
       THEN Arrive(r, "setup_find", [NoOp EXCEPT !.key = k])
       ELSE Arrive(r, "done", NoOp)

\* The loop over the two settings looks it up again: insert or update.
SetupFind(r) ==
    /\ pc[r] = "setup_find"
    /\ op' = [op EXCEPT ![r].insert = (stored = None)]
    /\ Goto(r, "setup_commit")
    /\ UNCHANGED <<stored, row, api, worker, history>> /\ Calm

\* Nothing is re-encrypted: what was saved under the environment's key is
\* lost with it.
SetupCommit(r) ==
    /\ pc[r] = "setup_commit"
    /\ ~KeyRowTaken(r)
    /\ stored' = op[r].key
    /\ saved' = [s \in Secrets |-> None] /\ astray' = {}
    /\ Goto(r, "setup_switch")
    /\ UNCHANGED <<row, api, op, worker, upset, alone>> /\ Calm

\* Mutant of SetupSwitch: memory is switched, the worker is not told.
SetupSwitchSilently(r) ==
    /\ pc[r] = "setup_switch"
    /\ mem' = op[r].key /\ warm' = FALSE
    /\ Done(r)
    /\ UNCHANGED <<stored, row, up, val, worker, history>> /\ Calm

\* Memory follows, the caches are reset.
SetupSwitch(r) ==
    /\ pc[r] = "setup_switch"
    /\ mem' = op[r].key /\ warm' = FALSE
    /\ Goto(r, "setup_publish")
    /\ UNCHANGED <<stored, row, up, val, op, worker, history>> /\ Calm

\* The worker is told, unless Valkey fails.
SetupPublish(r) ==
    /\ pc[r] = "setup_publish"
    /\ \/ worker' = Publish(worker) /\ Calm
       \/ UNCHANGED worker /\ Trouble
    /\ Done(r)
    /\ UNCHANGED <<stored, row, api, history>>

-----------------------------------------------------------------------------
(* POST /settings/rotate-secret-key                                        *)

Rotate(r, k) ==
    Arrive(r, "rotate_read", [NoOp EXCEPT !.key = k, !.strange = (mem # Key)])

\* The sensitive rows as the database has them now.
RotateRead(r) ==
    /\ pc[r] = "rotate_read"
    /\ op' = [op EXCEPT ![r].rows = row]
    /\ Goto(r, "rotate_switch")
    /\ UNCHANGED <<stored, row, api, worker, history>> /\ Calm

\* Mutant of RotateSwitch: the key is switched before the values are decrypted.
RotateSwitchFirst(r) ==
    /\ pc[r] = "rotate_switch"
    /\ mem' = op[r].key
    /\ warm' = TRUE
    /\ Goto(r, "rotate_find")
    /\ UNCHANGED <<stored, row, up, val, op, worker, history>> /\ Calm

\* No await in between: decrypt what was read with the key in memory, skip
\* what it does not fit, switch the key, encrypt with the new one.
RotateSwitch(r) ==
    LET read == op[r].rows
        readable == {s \in Secrets : Decrypt(read[s], mem) # None}
    IN  /\ pc[r] = "rotate_switch"
        /\ mem' = op[r].key
        /\ warm' = (readable # {})
        /\ op' = [op EXCEPT ![r].out =
                     [s \in readable |-> [p |-> read[s].p, k |-> op[r].key]]]
        /\ Goto(r, "rotate_find")
        /\ UNCHANGED <<stored, row, up, val, worker, history>> /\ Calm

RotateFind(r) ==
    /\ pc[r] = "rotate_find"
    /\ op' = [op EXCEPT ![r].insert = (stored = None)]
    /\ Goto(r, "rotate_commit")
    /\ UNCHANGED <<stored, row, api, worker, history>> /\ Calm

\* Values and key become visible together; the caches are reset once more.  One
\* that began with a strange key has carried over what that key reads, no more.
RotateCommit(r) ==
    /\ pc[r] = "rotate_commit"
    /\ ~KeyRowTaken(r)
    /\ row' = Over(op[r].out)
    /\ stored' = op[r].key
    /\ warm' = FALSE
    /\ astray' = IF op[r].strange THEN Secrets ELSE astray
    /\ Done(r)
    /\ UNCHANGED <<up, mem, val, worker, saved, upset, alone>> /\ Calm

-----------------------------------------------------------------------------
(* PUT /settings                                                           *)

Put(r, body) ==
    Arrive(r, "put_keys", [NoOp EXCEPT !.body = body, !.strange = (mem # Key)])

\* Mutant of PutKey: a row that is there is kept.
PutKeyKeeping(r, s) ==
    /\ pc[r] = "put_keys"
    /\ s \in DOMAIN op[r].body \ DOMAIN op[r].rows
    /\ op' = [op EXCEPT
                 ![r].rows = [t \in DOMAIN @ \cup {s} |-> row[t]],
                 ![r].out = IF row[s] # None THEN @
                            ELSE [t \in DOMAIN @ \cup {s} |->
                                     IF t = s THEN [p |-> op[r].body[s], k |-> mem] ELSE @[t]]]
    /\ IF DOMAIN op[r].body = DOMAIN op[r].rows \cup {s}
       THEN Goto(r, "put_commit") ELSE UNCHANGED pc
    /\ UNCHANGED <<stored, row, api, worker, history>> /\ Calm

\* One turn of the loop: the row is kept when it decrypts to the new value,
\* else the value is encrypted with the key in memory.  body keeps what is
\* still to be done.
PutKey(r, s) ==
    LET new == op[r].body[s]
        same == Decrypt(row[s], mem) = new
    IN  /\ pc[r] = "put_keys"
        /\ s \in DOMAIN op[r].body \ DOMAIN op[r].rows
        /\ op' = [op EXCEPT
                     ![r].rows = [t \in DOMAIN @ \cup {s} |-> row[t]],
                     ![r].out = IF same THEN @
                                ELSE [t \in DOMAIN @ \cup {s} |->
                                         IF t = s THEN [p |-> new, k |-> mem] ELSE @[t]]]
        /\ warm' = (warm \/ row[s] # None \/ ~same)
        /\ IF DOMAIN op[r].body = DOMAIN op[r].rows \cup {s}
           THEN Goto(r, "put_commit") ELSE UNCHANGED pc
        /\ UNCHANGED <<stored, row, up, mem, val, worker, history>> /\ Calm

\* A row that was missing is inserted: another request may have been faster.
PutConflicts(r) ==
    \E s \in DOMAIN op[r].out : op[r].rows[s] = None /\ row[s] # None

PutCommit(r) ==
    /\ pc[r] = "put_commit"
    /\ ~PutConflicts(r)
    /\ row' = Over(op[r].out)
    /\ saved' = [s \in Secrets |->
                    IF s \in DOMAIN op[r].out THEN op[r].out[s].p ELSE saved[s]]
    /\ astray' = IF op[r].strange THEN astray \cup DOMAIN op[r].out
                 ELSE astray \ DOMAIN op[r].out
    /\ Goto(r, "put_select")
    /\ UNCHANGED <<stored, api, op, worker, upset, alone>> /\ Calm

\* All settings are read back.
PutSelect(r) ==
    /\ pc[r] = "put_select"
    /\ op' = [op EXCEPT ![r].rows = row, ![r].seen = stored]
    /\ Goto(r, "put_load")
    /\ UNCHANGED <<stored, row, api, worker, history>> /\ Calm

\* settings.load_overrides: the key first, then each value, decrypted with
\* the cipher that is still cached, if there is one; a value that does not
\* decrypt leaves the setting alone.  The caches are reset at the end.
Loaded(k, rows, cipher, old) ==
    /\ mem' = k
    /\ warm' = FALSE
    /\ val' = [s \in Secrets |->
                  IF Decrypt(rows[s], cipher) # None THEN rows[s].p ELSE old[s]]

PutLoad(r) ==
    LET k == IF op[r].seen = None THEN mem ELSE op[r].seen
    IN  /\ pc[r] = "put_load"
        /\ Loaded(k, op[r].rows, IF warm THEN mem ELSE k, val)
        /\ Done(r)
        /\ UNCHANGED <<stored, row, up, worker, history>> /\ Calm

-----------------------------------------------------------------------------
(* The processes                                                           *)

\* The API process dies: requests and memory are gone, open transactions
\* are rolled back.
Dies ==
    /\ up /\ Trouble
    /\ up' = FALSE
    /\ pc' = [r \in Requests |-> IF InFlight(r) THEN "done" ELSE pc[r]]
    /\ op' = [r \in Requests |-> NoOp]
    /\ mem' = EnvKey /\ warm' = FALSE
    /\ val' = [s \in Secrets |-> None]
    /\ UNCHANGED <<stored, row, worker, history>>

\* lifespan: the overrides are loaded, the gate lets a process pass that has
\* a key or is not set up yet, and the worker is told when there is a key.
Start ==
    /\ ~up /\ up' = TRUE
    /\ Loaded(Key, row, Key, [s \in Secrets |-> None])
    /\ worker' = IF stored # None THEN Publish(worker) ELSE worker
    /\ UNCHANGED <<stored, row, pc, op, history>> /\ Calm

\* A load that raises is taken for a configured instance: unless the gate
\* stops it, which depends on APP_ENV, REQUIRE_AUTH and SECRET_KEY, the
\* process then works with the environment's key, and tells the worker too.
StartUnloaded ==
    /\ ~up /\ up' = TRUE
    /\ mem' = EnvKey /\ warm' = FALSE
    /\ val' = [s \in Secrets |-> None]
    /\ worker' = Publish(worker)
    /\ UNCHANGED <<stored, row, pc, op, history>> /\ Calm

\* worker-entrypoint.sh looks for the row, or else subscribes and waits.
WorkerCheck ==
    /\ worker.at = "check"
    /\ worker' = [worker EXCEPT !.at = IF stored # None THEN "load" ELSE "subscribe"]
    /\ UNCHANGED <<stored, row, api, pc, op, history>> /\ Calm

WorkerSubscribe ==
    /\ worker.at = "subscribe"
    /\ worker' = [worker EXCEPT !.at = "listen"]
    /\ UNCHANGED <<stored, row, api, pc, op, history>> /\ Calm

\* worker_init loads the settings once, before the pool is forked.
WorkerLoad ==
    /\ worker.at = "load"
    /\ worker' = [at |-> "run", key |-> Key]
    /\ UNCHANGED <<stored, row, api, pc, op, history>> /\ Calm

\* The connection breaks while it listens and is opened again; or the
\* container is restarted, also after a load that raised.
WorkerTrouble ==
    /\ Trouble
    /\ \/ worker.at = "listen" /\ worker' = [worker EXCEPT !.at = "subscribe"]
       \/ worker.at # "check" /\ worker' = [at |-> "check", key |-> None]
    /\ UNCHANGED <<stored, row, api, pc, op, history>>

-----------------------------------------------------------------------------
Arrivals(r) ==
    \/ \E k \in NewKeys : SetupCheck(r, k) \/ Rotate(r, k)
    \/ \E body \in Bodies : Put(r, body)

Handle(r) ==
    \/ SetupFind(r) \/ SetupCommit(r) \/ SetupSwitch(r) \/ SetupPublish(r)
    \/ RotateRead(r) \/ RotateSwitch(r) \/ RotateFind(r) \/ RotateCommit(r)
    \/ \E s \in Secrets : PutKey(r, s)
    \/ PutCommit(r) \/ PutSelect(r) \/ PutLoad(r)
    \/ CommitFails(r) /\ (KeyRowTaken(r) \/ PutConflicts(r)) /\ Calm

Fails(r) == CommitFails(r) /\ Trouble

ApiSteps == Start \/ \E r \in Requests : Handle(r)
WorkerSteps == WorkerCheck \/ WorkerSubscribe \/ WorkerLoad

Next ==
    \/ \E r \in Requests : Arrivals(r) \/ Fails(r)
    \/ ApiSteps \/ Dies \/ StartUnloaded
    \/ WorkerSteps \/ WorkerTrouble

\* The event loop resumes some coroutine that can go on, containers are
\* restarted; nobody has to send a request.
Spec == Init /\ [][Next]_vars /\ WF_vars(ApiSteps) /\ WF_vars(WorkerSteps)

-----------------------------------------------------------------------------
(* Properties                                                              *)

\* No credential is lost, at every moment - between the steps of a rotation,
\* after a commit that failed, after a death and a restart - but in two ways.  A
\* key change overlaps another handler (upset).  Or a handler begins with a key
\* in memory that is not the stored one, which a rotation leaves whose commit
\* failed (settings.py 274 and 305: memory is not switched back), and a start
\* whose load raised: an update that does loses the values it writes, nothing
\* else (385-405); a rotation that does may lose any.
SavedReadable ==
    ~upset => \A s \in Secrets \ astray :
                  saved[s] # None => Decrypt(row[s], Key) = saved[s]

\* An update that nobody overlapped brings the stored key, if there is one, back
\* to memory, whatever key was there; one that began with the stored key leaves
\* its values in the database, in a form that decrypts, and in memory.
LonePutExact ==
    [][\A r \in Requests : PutLoad(r) /\ r \in alone =>
          /\ stored # None \/ ~op[r].strange => mem' = Key
          /\ ~op[r].strange => \A s \in DOMAIN op[r].body :
                 /\ Decrypt(row[s], Key) = op[r].body[s]
                 /\ val'[s] = op[r].body[s]]_vars

\* A worker that listens while the wizard is at work gets its start, if
\* nothing fails: the message cannot be published before the commit.
ListenerStarts ==
    (worker.at = "listen" /\ \E r \in Requests : pc[r] = "setup_switch")
        ~> (worker.at = "run" \/ troubles > 0)

=============================================================================
