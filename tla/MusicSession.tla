---------------------------- MODULE MusicSession ----------------------------
(***************************************************************************)
(* The YouTube Music session of the API process and the feed cached for    *)
(* it: ytauth keeps the stored credentials for TTL seconds, the client     *)
(* tags the cache key of the home feed with them, builds its SDK object    *)
(* from them and lets one thread at a time use the SDK.                    *)
(*                                                                         *)
(* Requests are coroutines of one event loop: their steps lie between two  *)
(* awaits.  A load of the credentials and a call of the SDK run in threads *)
(* of their own, which nothing can stop.  Credentials are versions: every  *)
(* change of the setting is a new one, but it may set them back to what    *)
(* they were before, and the tag is a hash of what they are.  A feed is    *)
(* the version of the session that fetched it.                             *)
(***************************************************************************)
EXTENDS Naturals, FiniteSets

CONSTANTS
    Requests,    \* coroutines that want the home feed
    None,        \* nobody, nothing
    TTL,         \* _YTMUSIC_AUTH_CACHE_TTL, in ticks of the clock
    MaxTime,     \* bound: ticks
    MaxChanges,  \* bound: changes of the setting
    MaxPayloads, \* bound: different credentials
    MaxTroubles  \* bound: failed loads, and changes after the first

ASSUME MusicSessionAssumption ==
    /\ None \notin Requests \cup Nat
    /\ TTL \in Nat \ {0} /\ MaxTime \in Nat
    /\ MaxChanges \in Nat /\ MaxPayloads \in Nat /\ MaxTroubles \in Nat

VARIABLES
    now,       \* the clock
    auth,      \* the stored credentials
    payload,   \* history: version -> its payload, by the first version with it
    memory,    \* and those in settings
    put,       \* where the request that changes them stands
    kept,      \* _ytmusic_auth_cache
    authLock,  \* _ytmusic_auth_lock: its holder
    sdkLock,   \* the client's lock: for whose call it is held
    threads,   \* calls of the SDK that are running
    feeds,     \* Valkey: tag, by the payload it is the hash of -> feed
    pc,        \* request -> the await it stands at
    asked,     \* request -> when it last called get_ytmusic_auth
    tag, sess, \* request -> the session in its cache key, and in its client
    ended,     \* history: version -> when it was superseded
    fellBack,  \* history: a load failed and settings were used instead
    troubles

local   == <<pc, asked, tag, sess>>
setting == <<auth, payload, memory, put, ended>>
vars    == <<now, setting, kept, authLock, sdkLock, threads, feeds, local, fellBack, troubles>>

Versions == 0..MaxChanges

\* A payload goes by the first version that had it.
Names == {f \in [Versions -> Versions] : \A v \in Versions : f[v] <= v}

\* The two calls of get_ytmusic_auth: their waits, and what comes after each
Calls == {"tag", "client"}
Wait  == [tag |-> "tag_lock", client |-> "client_lock"]
Read  == [tag |-> "tag_read", client |-> "client_read"]
Keep  == [tag |-> "tag_keep", client |-> "client_keep"]
After == [tag |-> "look", client |-> "queue"]

Init ==
    /\ now = 0
    /\ auth = 0 /\ memory = 0 /\ put = "idle"
    /\ payload = [v \in Versions |-> v]
    /\ kept = [ver |-> None, until |-> 0]
    /\ authLock = None /\ sdkLock = None /\ threads = {}
    /\ feeds = [v \in Versions |-> None]
    /\ pc = [r \in Requests |-> "idle"]
    /\ asked = [r \in Requests |-> 0]
    /\ tag = [r \in Requests |-> None]
    /\ sess = [r \in Requests |-> None]
    /\ ended = [v \in Versions |-> None]
    /\ fellBack = FALSE /\ troubles = 0

Goto(r, l) == pc' = [pc EXCEPT ![r] = l]

\* The request is answered, fails or is cancelled.
Leave(r) ==
    /\ Goto(r, "idle")
    /\ asked' = [asked EXCEPT ![r] = 0]
    /\ tag' = [tag EXCEPT ![r] = None]
    /\ sess' = [sess EXCEPT ![r] = None]

-----------------------------------------------------------------------------
(* get_ytmusic_auth, called as c                                           *)

\* The call has its credentials.
Got(r, c, v) ==
    /\ Goto(r, After[c])
    /\ IF c = "tag" THEN tag' = [tag EXCEPT ![r] = v] /\ UNCHANGED sess
                    ELSE sess' = [sess EXCEPT ![r] = v] /\ UNCHANGED tag

\* The time is taken once; what is kept is good if it lasts longer.
Ask(r, c) ==
    /\ asked' = [asked EXCEPT ![r] = now]
    /\ IF kept.until > now THEN Got(r, c, kept.ver)
                           ELSE Goto(r, Wait[c]) /\ UNCHANGED <<tag, sess>>

\* The second look, at the time that was taken before the wait.
AuthLock(r, c) ==
    /\ pc[r] = Wait[c] /\ authLock = None
    /\ IF kept.until > asked[r]
       THEN Got(r, c, kept.ver) /\ UNCHANGED authLock
       ELSE authLock' = r /\ Goto(r, Read[c]) /\ UNCHANGED <<tag, sess>>
    /\ UNCHANGED <<now, setting, kept, sdkLock, threads, feeds, asked, fellBack, troubles>>

\* What a load yields is carried where it will end up.
Loaded(r, c, v) ==
    /\ Goto(r, Keep[c])
    /\ IF c = "tag" THEN tag' = [tag EXCEPT ![r] = v] /\ UNCHANGED sess
                    ELSE sess' = [sess EXCEPT ![r] = v] /\ UNCHANGED tag

\* The thread reads the row; if it cannot, the value in settings serves.
ReadAuth(r, c) ==
    /\ pc[r] = Read[c]
    /\ \/ Loaded(r, c, auth) /\ UNCHANGED <<fellBack, troubles>>
       \/ /\ troubles < MaxTroubles
          /\ Loaded(r, c, memory)
          /\ fellBack' = TRUE /\ troubles' = troubles + 1
    /\ UNCHANGED <<now, setting, kept, authLock, sdkLock, threads, feeds, asked>>

Carried(r, c) == IF c = "tag" THEN tag[r] ELSE sess[r]

\* Mutant of KeepAuth: the time to live begins when the load is done.
KeepAuthFromNow(r, c) ==
    /\ pc[r] = Keep[c]
    /\ kept' = [ver |-> Carried(r, c), until |-> now + TTL]
    /\ authLock' = None
    /\ Goto(r, After[c])
    /\ UNCHANGED <<now, setting, sdkLock, threads, feeds, asked, tag, sess, fellBack, troubles>>

\* Kept from the time that was taken before the wait and the load, over an
\* invalidation that came meanwhile.
KeepAuth(r, c) ==
    /\ pc[r] = Keep[c]
    /\ kept' = [ver |-> Carried(r, c), until |-> asked[r] + TTL]
    /\ authLock' = None
    /\ Goto(r, After[c])
    /\ UNCHANGED <<now, setting, sdkLock, threads, feeds, asked, tag, sess, fellBack, troubles>>

-----------------------------------------------------------------------------
(* get_home: the tag, the cache, the client, the SDK                       *)

\* A slot is taken again once its last thread is done.
Begin(r) ==
    /\ pc[r] = "idle" /\ r \notin threads
    /\ Ask(r, "tag")
    /\ UNCHANGED <<now, setting, kept, authLock, sdkLock, threads, feeds, fellBack, troubles>>

\* A feed in the cache is the answer, unless it has expired, the cache does
\* not answer or the request forces a fetch.
Hit(r) ==
    /\ pc[r] = "look" /\ feeds[payload[tag[r]]] # None
    /\ Leave(r)
    /\ UNCHANGED <<now, setting, kept, authLock, sdkLock, threads, feeds, fellBack, troubles>>

\* _get_client builds the SDK object anew when the credentials changed; the
\* request goes on with the object it got.
Miss(r) ==
    /\ pc[r] = "look"
    /\ Ask(r, "client")
    /\ UNCHANGED <<now, setting, kept, authLock, sdkLock, threads, feeds, fellBack, troubles>>

\* The lock is taken and the thread started without an await in between.
SdkLock(r) ==
    /\ pc[r] = "queue" /\ sdkLock = None
    /\ sdkLock' = r
    /\ threads' = threads \cup {r}
    /\ Goto(r, "run")
    /\ asked' = [asked EXCEPT ![r] = 0]
    /\ UNCHANGED <<now, setting, kept, authLock, feeds, tag, sess, fellBack, troubles>>

\* A thread returns; for a call that was given up, its callback releases
\* the lock.
ThreadEnds(r) ==
    /\ r \in threads
    /\ threads' = threads \ {r}
    /\ sdkLock' = IF pc[r] = "run" THEN sdkLock ELSE None
    /\ UNCHANGED <<now, setting, kept, authLock, feeds, local, fellBack, troubles>>

\* The coroutine resumes with the result, or with the SDK's exception.
Finish(r) ==
    /\ pc[r] = "run" /\ r \notin threads
    /\ sdkLock' = None
    /\ \/ Goto(r, "write") /\ UNCHANGED <<asked, tag, sess>>
       \/ Leave(r)
    /\ UNCHANGED <<now, setting, kept, authLock, threads, feeds, fellBack, troubles>>

\* Mutant of TimeOut: the lock is released at once.
TimeOutReleasing(r) ==
    /\ pc[r] = "run" /\ r \in threads
    /\ sdkLock' = None
    /\ Leave(r)
    /\ UNCHANGED <<now, setting, kept, authLock, threads, feeds, fellBack, troubles>>

\* yt_dlp_timeout has passed: the thread keeps the lock.
TimeOut(r) ==
    /\ pc[r] = "run" /\ r \in threads
    /\ Leave(r)
    /\ UNCHANGED <<now, setting, kept, authLock, sdkLock, threads, feeds, fellBack, troubles>>

\* Mutant of Cancel: a call that is cancelled when its thread has already
\* returned leaves the release to a callback that is not called any more.
CancelWaiting(r) ==
    /\ pc[r] # "idle"
    /\ authLock' = IF authLock = r THEN None ELSE authLock
    /\ UNCHANGED sdkLock
    /\ Leave(r)
    /\ UNCHANGED <<now, setting, kept, threads, feeds, fellBack, troubles>>

\* Cancelled at any await: the auth lock is released by its context, the
\* SDK's by the handler if the thread has returned, else by its callback.
Cancel(r) ==
    /\ pc[r] # "idle"
    /\ authLock' = IF authLock = r THEN None ELSE authLock
    /\ sdkLock' = IF pc[r] = "run" /\ r \notin threads THEN None ELSE sdkLock
    /\ Leave(r)
    /\ UNCHANGED <<now, setting, kept, threads, feeds, fellBack, troubles>>

\* Mutant of Write: under the tag of the session as it is now.
WriteUnderNewTag(r) ==
    /\ pc[r] = "write"
    /\ feeds' = IF kept.ver = None THEN feeds
                ELSE [feeds EXCEPT ![payload[kept.ver]] = sess[r]]
    /\ Leave(r)
    /\ UNCHANGED <<now, setting, kept, authLock, sdkLock, threads, fellBack, troubles>>

\* The feed is cached under the tag the request began with, if Valkey works.
Write(r) ==
    /\ pc[r] = "write"
    /\ feeds' \in {feeds, [feeds EXCEPT ![payload[tag[r]]] = sess[r]]}
    /\ Leave(r)
    /\ UNCHANGED <<now, setting, kept, authLock, sdkLock, threads, fellBack, troubles>>

-----------------------------------------------------------------------------
(* put_settings with new credentials, and time                             *)

\* The new credentials were never stored before, or they were, but are not now.
SaveAuth ==
    /\ put = "idle" /\ auth < MaxChanges
    /\ auth' = auth + 1
    /\ \E p \in 0..(auth + 1) :
          /\ payload[p] = p /\ p # payload[auth] /\ p < MaxPayloads
          /\ payload' = [payload EXCEPT ![auth + 1] = p]
    /\ IF auth = 0 THEN UNCHANGED troubles
       ELSE troubles < MaxTroubles /\ troubles' = troubles + 1
    /\ ended' = [ended EXCEPT ![auth] = now]
    /\ put' = "saved"
    /\ UNCHANGED <<now, memory, kept, authLock, sdkLock, threads, feeds, local, fellBack>>

ReadBack ==
    /\ put = "saved"
    /\ memory' = auth
    /\ put' = "loaded"
    /\ UNCHANGED <<now, auth, payload, ended, kept, authLock, sdkLock, threads, feeds, local>>
    /\ UNCHANGED <<fellBack, troubles>>

Invalidate ==
    /\ put = "loaded"
    /\ kept' = [ver |-> None, until |-> 0]
    /\ put' = "idle"
    /\ UNCHANGED <<now, auth, payload, memory, ended, authLock, sdkLock, threads, feeds, local>>
    /\ UNCHANGED <<fellBack, troubles>>

Tick ==
    /\ now < MaxTime
    /\ now' = now + 1
    /\ UNCHANGED <<setting, kept, authLock, sdkLock, threads, feeds, local, fellBack, troubles>>

-----------------------------------------------------------------------------
Next ==
    \/ \E r \in Requests :
          \/ \E c \in Calls : AuthLock(r, c) \/ ReadAuth(r, c) \/ KeepAuth(r, c)
          \/ Begin(r) \/ Hit(r) \/ Miss(r) \/ SdkLock(r) \/ ThreadEnds(r) \/ Finish(r)
          \/ TimeOut(r) \/ Cancel(r) \/ Write(r)
    \/ SaveAuth \/ ReadBack \/ Invalidate \/ Tick

\* The steps of a request that wait for nothing but the loop or a thread,
\* and those that wait for a lock
Resumes(r) ==
    \/ \E c \in Calls : ReadAuth(r, c) \/ KeepAuth(r, c)
    \/ Hit(r) \/ Miss(r) \/ Finish(r) \/ Write(r)
Enters(r) == SdkLock(r) \/ \E c \in Calls : AuthLock(r, c)

\* The loop resumes every coroutine that can go on, threads return, and the
\* locks are handed on in the order of the queue.
Fairness ==
    \A r \in Requests :
        WF_vars(ThreadEnds(r)) /\ WF_vars(Resumes(r)) /\ SF_vars(Enters(r))

Spec == Init /\ [][Next]_vars /\ Fairness

-----------------------------------------------------------------------------
(* Properties                                                              *)

Places == {"idle", "look", "queue", "run", "write", "tag_lock", "tag_read", "tag_keep",
           "client_lock", "client_read", "client_keep"}

\* The values of the variables.
TypeOK ==
    /\ now \in 0..MaxTime
    /\ auth \in Versions /\ payload \in Names /\ memory \in Versions
    /\ put \in {"idle", "saved", "loaded"}
    /\ kept.ver \in Versions \cup {None} /\ kept.until \in 0..(MaxTime + TTL)
    /\ authLock \in Requests \cup {None} /\ sdkLock \in Requests \cup {None}
    /\ threads \subseteq Requests
    /\ feeds \in [Versions -> Versions \cup {None}]
    /\ pc \in [Requests -> Places]
    /\ asked \in [Requests -> 0..MaxTime]
    /\ tag \in [Requests -> Versions \cup {None}]
    /\ sess \in [Requests -> Versions \cup {None}]
    /\ ended \in [Versions -> (0..MaxTime) \cup {None}]
    /\ fellBack \in BOOLEAN /\ troubles \in 0..MaxTroubles

\* The SDK is never used by two threads, although a call that times out or
\* is cancelled leaves its thread behind.
OneThread == Cardinality(threads) <= 1

\* A feed under the tag of a payload was fetched when that payload was stored,
\* or later, however credentials change and requests overlap: credentials
\* never stored before find no feed of an earlier session.  More does not
\* hold, although the client says that a key carries the identity of the
\* session that produced the feed: the tag and the client of a request are
\* two calls, and when the credentials of the first were superseded by the
\* second (AuthFresh says how long before), the feed of the new session stands
\* under the old tag.  It is found there when the old payload is stored again.
FeedNotOlder ==
    ~fellBack => \A p \in Versions : feeds[p] # None => feeds[p] >= p

\* Credentials that a call was given had been stored less than TTL before
\* the call, whatever waits, loads and invalidations came between.
AuthFresh ==
    LET Fresh(v, t) == ended[v] = None \/ ended[v] + TTL > t
    IN  ~fellBack => \A r \in Requests :
            /\ pc[r] = "look" => Fresh(tag[r], asked[r])
            /\ pc[r] = "queue" => Fresh(sess[r], asked[r])

\* Every request comes to its end: no lock is lost, whichever call times out
\* or is cancelled at whatever await.
CallsEnd == \A r \in Requests : pc[r] # "idle" ~> pc[r] = "idle"

=============================================================================
