------------------------------- MODULE Login --------------------------------
(***************************************************************************)
(* Plex sign-in, the owner and the sessions.                               *)
(*                                                                         *)
(* A browser fetches a PIN (plex_login), its user confirms it at plex.tv,  *)
(* and the callback exchanges it for the user.  The first user is made the *)
(* owner, others are turned away; the owner gets a session row and a       *)
(* signed cookie with its id.  Every request presents the cookie to the    *)
(* middleware.  There is one row per user, and schedules refer to it.      *)
(*                                                                         *)
(* PlexSetup puts this together with one of the requests that come after.  *)
(*                                                                         *)
(* Every handler is a coroutine: its steps are what happens between two    *)
(* awaits.  The secret key signs the cookies and encrypts the tokens; its  *)
(* rotation (module SecretKey) is a single step here.                      *)
(***************************************************************************)
EXTENDS Naturals, FiniteSets

CONSTANTS
    Browsers,     \* cookie jars; each has one request under way at a time
    Users,        \* Plex accounts
    None,         \* no user, row, cookie
    MaxLogins,    \* bound: sessions that are minted
    MaxRotations, \* bound: rotations of the key
    MaxTroubles   \* bound: failed commits and stops of the process

ASSUME LoginAssumption ==
    /\ None \notin Users
    /\ MaxLogins \in Nat /\ MaxRotations \in Nat /\ MaxTroubles \in Nat

VARIABLES
    owner,    \* the rows owner_plex_user_id and owner_plex_token
    sess,     \* user -> row of user_sessions
    refs,     \* users that schedules refer to
    idRow,    \* the plex_client_id row exists
    idCached, \* and the process remembers it
    key,      \* the secret key in memory, by number
    pin,      \* browsers with a PIN cookie
    cookie,   \* browser -> its session cookie
    pc, req,  \* browser -> the await its request stands at, and what it carries
    minted,   \* sessions so far
    troubles, \* troubles so far
    last      \* history: the id of the last login, until something may end it

config == <<owner, refs, idRow, idCached, key>>
jars   == <<pin, cookie>>
vars   == <<config, sess, jars, pc, req, minted, troubles, last>>

SessionIds == 1..MaxLogins
KeyEras    == 0..MaxRotations
Sessions   == [id : SessionIds, k : KeyEras, old : BOOLEAN]
Cookies    == [id : SessionIds, k : KeyEras]
Owners     == [user : Users, tok : Users, k : KeyEras]
Nothing    == [user |-> None, id |-> 0, k |-> 0]

ASSUME NoneIsNoRecord == None \notin Sessions \cup Cookies \cup Owners

Goto(b, l) == pc' = [pc EXCEPT ![b] = l]

\* The answer is sent.
Answer(b) == Goto(b, "idle") /\ req' = [req EXCEPT ![b] = Nothing]

Trouble == troubles < MaxTroubles /\ troubles' = troubles + 1
Calm    == UNCHANGED troubles

\* The user whose row has this id
Holders(id) == {u \in Users : sess[u] # None /\ sess[u].id = id}

Init ==
    /\ owner = None
    /\ sess = [u \in Users |-> None]
    /\ refs = {}
    /\ idRow = FALSE /\ idCached = FALSE
    /\ key = 0
    /\ pin = {}
    /\ cookie = [b \in Browsers |-> None]
    /\ pc = [b \in Browsers |-> "idle"]
    /\ req = [b \in Browsers |-> Nothing]
    /\ minted = 0 /\ troubles = 0 /\ last = 0

-----------------------------------------------------------------------------
(* GET /auth/plex/login                                                    *)

\* _get_client_id looks for the row when the process does not know it.
LoginStarts(b) ==
    /\ pc[b] = "idle" /\ minted < MaxLogins
    /\ Goto(b, IF idCached THEN "get_pin" ELSE "find_id")
    /\ UNCHANGED <<config, sess, jars, req, minted, last>> /\ Calm

FindId(b) ==
    /\ pc[b] = "find_id"
    /\ idCached' = (idCached \/ idRow)
    /\ Goto(b, IF idRow THEN "get_pin" ELSE "insert_id")
    /\ UNCHANGED <<owner, refs, idRow, key, sess, jars, req, minted, last>> /\ Calm

\* Of two that found none, the second meets the primary key and fails.
InsertId(b) ==
    /\ pc[b] = "insert_id"
    /\ IF idRow
       THEN Answer(b) /\ UNCHANGED <<idRow, idCached>>
       ELSE idRow' = TRUE /\ idCached' = TRUE /\ Goto(b, "get_pin") /\ UNCHANGED req
    /\ UNCHANGED <<owner, refs, key, sess, jars, minted, last>> /\ Calm

\* plex.tv makes a PIN, or the request fails.
GetPin(b) ==
    /\ pc[b] = "get_pin"
    /\ pin' \in {pin, pin \cup {b}}
    /\ Answer(b)
    /\ UNCHANGED <<config, sess, cookie, minted, last>> /\ Calm

-----------------------------------------------------------------------------
(* GET /auth/plex/callback                                                 *)

\* The PIN is exchanged, and the profile fetched, of the user who confirmed
\* it; on any failure the cookie is cleared.
Exchange(b) ==
    /\ pc[b] = "idle" /\ b \in pin
    /\ \/ \E u \in Users :
             /\ req' = [req EXCEPT ![b].user = u]
             /\ Goto(b, "find_owner") /\ UNCHANGED pin
       \/ pin' = pin \ {b} /\ UNCHANGED <<pc, req>>
    /\ UNCHANGED <<config, sess, cookie, minted, last>> /\ Calm

\* A session id, and the key that signs it and encrypts the token: both are
\* taken before create_session awaits the database.
Mint(b) ==
    /\ minted < MaxLogins
    /\ minted' = minted + 1
    /\ req' = [req EXCEPT ![b].id = minted + 1, ![b].k = key]
    /\ Goto(b, "upsert")

\* No owner: register this user, whose token is encrypted at once.  Another
\* one: refused.
FindOwner(b) ==
    LET u == req[b].user IN
    /\ pc[b] = "find_owner"
    /\ \/ /\ owner = None
          /\ req' = [req EXCEPT ![b].k = key]
          /\ Goto(b, "register")
          /\ UNCHANGED <<pin, minted>>
       \/ owner # None /\ owner.user = u /\ Mint(b) /\ UNCHANGED pin
       \/ /\ owner # None /\ owner.user # u
          /\ pin' = pin \ {b}
          /\ Answer(b)
          /\ UNCHANGED minted
    /\ UNCHANGED <<config, sess, cookie, last>> /\ Calm

\* Mutant of Register: a registration that comes second goes on to log in.
RegisterSwallowing(b) ==
    /\ pc[b] = "register"
    /\ owner' = IF owner = None THEN [user |-> req[b].user, tok |-> req[b].user, k |-> req[b].k]
                ELSE owner
    /\ Goto(b, "registered")
    /\ UNCHANGED <<refs, idRow, idCached, key, sess, jars, req, minted, last>> /\ Calm

\* Id and token of the owner are inserted together; when somebody was faster
\* the primary key makes the request fail, the PIN cookie stays.
Register(b) ==
    /\ pc[b] = "register"
    /\ IF owner = None
       THEN /\ owner' = [user |-> req[b].user, tok |-> req[b].user, k |-> req[b].k]
            /\ Goto(b, "registered") /\ UNCHANGED req
       ELSE Answer(b) /\ UNCHANGED owner
    /\ UNCHANGED <<refs, idRow, idCached, key, sess, jars, minted, last>> /\ Calm

\* The event is logged in between.
Registered(b) ==
    /\ pc[b] = "registered"
    /\ Mint(b)
    /\ UNCHANGED <<config, sess, jars, last>> /\ Calm

\* Mutant of Upsert: a row that is there keeps its id.
UpsertKeepsId(b) ==
    LET u == req[b].user IN
    /\ pc[b] = "upsert"
    /\ sess' = [sess EXCEPT ![u] =
                   [id |-> IF @ = None THEN req[b].id ELSE @.id, k |-> req[b].k, old |-> FALSE]]
    /\ cookie' = [cookie EXCEPT ![b] = [id |-> req[b].id, k |-> req[b].k]]
    /\ pin' = pin \ {b}
    /\ last' = req[b].id
    /\ Answer(b)
    /\ UNCHANGED <<config, minted>> /\ Calm

\* Mutant of Upsert: the token is encrypted when the row is written.
UpsertEncryptsLate(b) ==
    /\ pc[b] = "upsert"
    /\ sess' = [sess EXCEPT ![req[b].user] = [id |-> req[b].id, k |-> 0, old |-> FALSE]]
    /\ cookie' = [cookie EXCEPT ![b] = [id |-> req[b].id, k |-> key]]
    /\ pin' = pin \ {b}
    /\ last' = req[b].id
    /\ Answer(b)
    /\ UNCHANGED <<config, minted>> /\ Calm

\* create_session inserts the row or updates the one the user has, its id
\* included; the answer carries the cookie.
Upsert(b) ==
    /\ pc[b] = "upsert"
    /\ sess' = [sess EXCEPT ![req[b].user] =
                   [id |-> req[b].id, k |-> req[b].k, old |-> FALSE]]
    /\ cookie' = [cookie EXCEPT ![b] = [id |-> req[b].id, k |-> req[b].k]]
    /\ pin' = pin \ {b}
    /\ last' = req[b].id
    /\ Answer(b)
    /\ UNCHANGED <<config, minted>> /\ Calm

-----------------------------------------------------------------------------
(* The middleware, and the requests behind it                              *)

\* A cookie that the present key did not sign is refused at once.
Ask(b, l) ==
    /\ pc[b] = "idle"
    /\ cookie[b] # None /\ cookie[b].k = key
    /\ Goto(b, l)
    /\ req' = [req EXCEPT ![b].id = cookie[b].id]
    /\ UNCHANGED <<config, sess, jars, minted, last>> /\ Calm

\* verify_session: no row or a token that does not decrypt is refused, an
\* expired row is to be deleted, else the request goes on as its user.
Verify(b, l, next) ==
    /\ pc[b] = l
    /\ \/ /\ Holders(req[b].id) = {}
          /\ Answer(b)
       \/ \E u \in Holders(req[b].id) :
             \/ sess[u].old /\ Goto(b, "drop") /\ UNCHANGED req
             \/ ~sess[u].old /\ sess[u].k # key /\ Answer(b)
             \/ /\ ~sess[u].old /\ sess[u].k = key
                /\ Goto(b, next)
                /\ req' = [req EXCEPT ![b].user = u]
    /\ UNCHANGED <<config, sess, jars, minted, last>> /\ Calm

\* DELETE FROM user_sessions WHERE id = ...: a schedule that refers to the
\* user makes it fail.
Delete(id) ==
    /\ Holders(id) \cap refs = {}
    /\ sess' = [u \in Users |-> IF u \in Holders(id) THEN None ELSE sess[u]]
    /\ last' = IF last = id THEN 0 ELSE last

Referenced(id) == Holders(id) \cap refs # {} /\ UNCHANGED <<sess, last>>

DropExpired(b) ==
    /\ pc[b] = "drop"
    /\ Delete(req[b].id) \/ Referenced(req[b].id)
    /\ Answer(b)
    /\ UNCHANGED <<config, jars, minted>> /\ Calm

\* destroy_session; the cookie is cleared unless the deletion fails.
Logout(b) ==
    /\ pc[b] = "logout"
    /\ \/ Delete(req[b].id) /\ cookie' = [cookie EXCEPT ![b] = None]
       \/ Referenced(req[b].id) /\ UNCHANGED cookie
    /\ Answer(b)
    /\ UNCHANGED <<config, pin, minted>> /\ Calm

\* Some other request of the user stores a schedule, for which the session
\* row has to be there, or deletes the schedules.
UseSession(b) ==
    LET u == req[b].user IN
    /\ pc[b] = "use"
    /\ refs' \in {refs \cup (IF sess[u] = None THEN {} ELSE {u}), refs \ {u}}
    /\ Answer(b)
    /\ UNCHANGED <<owner, idRow, idCached, key, sess, jars, minted, last>> /\ Calm

-----------------------------------------------------------------------------
(* Time, the key and the process                                           *)

Expire(u) ==
    /\ sess[u] # None /\ ~sess[u].old
    /\ sess' = [sess EXCEPT ![u].old = TRUE]
    /\ last' = IF last = sess[u].id THEN 0 ELSE last
    /\ UNCHANGED <<config, jars, pc, req, minted>> /\ Calm

\* The owner's token is re-encrypted if it can be read; the sessions are
\* not: their cookies are void with the key that signed them.
RotateKey ==
    /\ key < MaxRotations
    /\ key' = key + 1
    /\ owner' = IF owner # None /\ owner.k = key THEN [owner EXCEPT !.k = key + 1] ELSE owner
    /\ UNCHANGED <<refs, idRow, idCached, sess, jars, pc, req, minted, last>> /\ Calm

\* A commit fails, the request with it.
CommitFails(b) ==
    /\ pc[b] \in {"insert_id", "register", "upsert", "drop", "logout", "use"}
    /\ Trouble
    /\ Answer(b)
    /\ UNCHANGED <<config, sess, jars, minted, last>>

\* The process stops and starts: the requests are gone.  lifespan purges the
\* expired sessions in one statement, which fails as a whole, and is caught.
Restart ==
    /\ Trouble
    /\ idCached' = FALSE
    /\ pc' = [b \in Browsers |-> "idle"]
    /\ req' = [b \in Browsers |-> Nothing]
    /\ LET expired == {u \in Users : sess[u] # None /\ sess[u].old}
       IN  IF expired \cap refs = {}
           THEN sess' = [u \in Users |-> IF u \in expired THEN None ELSE sess[u]]
           ELSE UNCHANGED sess
    /\ UNCHANGED <<owner, refs, idRow, key, jars, minted, last>>

-----------------------------------------------------------------------------
LoginNext ==
    \/ \E b \in Browsers :
          \/ LoginStarts(b) \/ FindId(b) \/ InsertId(b) \/ GetPin(b)
          \/ Exchange(b) \/ FindOwner(b) \/ Register(b) \/ Registered(b) \/ Upsert(b)
          \/ Ask(b, "find_use") \/ Verify(b, "find_use", "use") \/ UseSession(b)
          \/ Ask(b, "find_logout") \/ Verify(b, "find_logout", "logout") \/ Logout(b)
          \/ DropExpired(b) \/ CommitFails(b)
    \/ \E u \in Users : Expire(u)
    \/ RotateKey \/ Restart

-----------------------------------------------------------------------------
(* Properties                                                              *)

\* Where a request may stand; the last are those of PlexSetup.
Places == {"idle", "find_id", "insert_id", "get_pin", "find_owner", "register", "registered",
           "upsert", "find_use", "use", "find_logout", "logout", "drop", "find_setup",
           "setup_id", "setup_ask", "setup_try", "setup_host", "setup_flush", "setup_commit"}

\* What it carries.
Carried == [user : Users \cup {None}, id : 0..MaxLogins, k : KeyEras]

\* The values of the variables.
TypeOK ==
    /\ owner \in Owners \cup {None}
    /\ sess \in [Users -> Sessions \cup {None}]
    /\ refs \subseteq Users
    /\ idRow \in BOOLEAN /\ idCached \in BOOLEAN
    /\ key \in KeyEras
    /\ pin \subseteq Browsers
    /\ cookie \in [Browsers -> Cookies \cup {None}]
    /\ pc \in [Browsers -> Places]
    /\ req \in [Browsers -> Carried]
    /\ minted \in 0..MaxLogins
    /\ last \in 0..MaxLogins

\* However many first logins race, there is one owner: the stored token is
\* the owner's, and nobody else ever has a session, is about to be given one
\* or has schedules.
OwnersOnly ==
    /\ owner # None => owner.tok = owner.user
    /\ \A u \in Users :
           sess[u] # None \/ u \in refs => owner # None /\ owner.user = u

\* A cookie that the present key signed never leads to a token that another
\* key encrypted, although the key may change while a login is under way.
SignedIsReadable ==
    \A b \in Browsers : \A u \in Users :
        cookie[b] # None /\ cookie[b].k = key /\ u \in Holders(cookie[b].id)
            => sess[u].k = key

\* The row of a login lasts until it expires, or a logout with its own cookie:
\* neither a logout with an older cookie nor the removal of an expired session,
\* both verified before the login, ends it.  (A rotation leaves the row and
\* voids the cookie: that ends the login for its user, and is not denied here.)
LoginLasts == last # 0 => Holders(last) # {}

=============================================================================
