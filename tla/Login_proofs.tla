---------------------------- MODULE Login_proofs ----------------------------
(***************************************************************************)
(* Proofs about Login as PlexSetup composes it with the requests that come *)
(* after, for any number of browsers, users, logins, rotations and         *)
(* troubles.                                                               *)
(*                                                                         *)
(* Each promise rests on what a login under way carries: Owned says whose  *)
(* it is, Issued that its id is its own, Lasting that the last login's row *)
(* has not expired.  Paired says that a setup stores an address of the     *)
(* server it has the token of, or leaves one of that server.               *)
(***************************************************************************)
EXTENDS PlexSetup, TLAPS

-----------------------------------------------------------------------------
(* The steps                                                               *)

\* A request behind the middleware moves on: it touches no login.
Behind(b) ==
    /\ idRow' \in BOOLEAN /\ idCached' \in BOOLEAN
    /\ UNCHANGED <<owner, refs, key, sess, jars, minted, last>>
    /\ pc' \in [Browsers -> Places]
    /\ req' \in [Browsers -> Carried]
    /\ \A a \in Browsers \ {b} : pc'[a] = pc[a] /\ req'[a] = req[a]
    /\ pc'[b] \notin {"find_owner", "register", "registered", "upsert"}
    /\ pc'[b] = "use" => req'[b].user \in Users

LoginStep ==
    \/ \E b \in Browsers :
          \/ Behind(b) \/ GetPin(b) \/ Exchange(b) \/ FindOwner(b) \/ Register(b)
          \/ Registered(b) \/ Upsert(b) \/ DropExpired(b) \/ Logout(b) \/ UseSession(b)
    \/ \E u \in Users : Expire(u)
    \/ RotateKey \/ Restart

LEMMA ReadsIds ==
    ASSUME TypeOK
    PROVE  /\ \A b \in Browsers : cookie[b] # None => cookie[b].id \in 0..MaxLogins
           /\ Nothing \in Carried
<1>1. MaxLogins \in Nat /\ MaxRotations \in Nat
  BY LoginAssumption
<1>. QED BY <1>1 DEF TypeOK, Cookies, SessionIds, Nothing, KeyEras, Carried

\* What a request carries is replaced in part.
LEMMA CarryUser ==
    ASSUME TypeOK, NEW b \in Browsers, NEW u \in Users, req' = [req EXCEPT ![b].user = u]
    PROVE  /\ req' \in [Browsers -> Carried]
           /\ req'[b].user = u /\ req'[b].id = req[b].id /\ req'[b].k = req[b].k
<1>1. req \in [Browsers -> Carried] /\ req[b] \in Carried
  BY DEF TypeOK
<1>. DEFINE c == [user |-> u, id |-> req[b].id, k |-> req[b].k]
<1>2. c \in Carried /\ [req[b] EXCEPT !.user = u] = c
  BY <1>1 DEF Carried
<1>3. req' = [req EXCEPT ![b] = c]
  BY <1>1, <1>2
<1>. QED BY <1>1, <1>2, <1>3

LEMMA CarryKey ==
    ASSUME TypeOK, NEW b \in Browsers, NEW k \in KeyEras, req' = [req EXCEPT ![b].k = k]
    PROVE  /\ req' \in [Browsers -> Carried]
           /\ req'[b].user = req[b].user /\ req'[b].id = req[b].id /\ req'[b].k = k
<1>1. req \in [Browsers -> Carried] /\ req[b] \in Carried
  BY DEF TypeOK
<1>. DEFINE c == [user |-> req[b].user, id |-> req[b].id, k |-> k]
<1>2. c \in Carried /\ [req[b] EXCEPT !.k = k] = c
  BY <1>1 DEF Carried
<1>3. req' = [req EXCEPT ![b] = c]
  BY <1>1, <1>2
<1>. QED BY <1>1, <1>2, <1>3

LEMMA CarryMint ==
    ASSUME TypeOK, NEW b \in Browsers, NEW i \in 0..MaxLogins, NEW k \in KeyEras,
           req' = [req EXCEPT ![b].id = i, ![b].k = k]
    PROVE  /\ req' \in [Browsers -> Carried]
           /\ req'[b].user = req[b].user /\ req'[b].id = i /\ req'[b].k = k
<1>1. req \in [Browsers -> Carried] /\ req[b] \in Carried
  BY DEF TypeOK
<1>. DEFINE one == [user |-> req[b].user, id |-> i, k |-> req[b].k]
            two == [user |-> req[b].user, id |-> i, k |-> k]
            mid == [req EXCEPT ![b].id = i]
<1>2. one \in Carried /\ two \in Carried
  BY <1>1 DEF Carried
<1>3. [req[b] EXCEPT !.id = i] = one /\ [one EXCEPT !.k = k] = two
  BY <1>1 DEF Carried
<1>4. mid = [req EXCEPT ![b] = one] /\ mid[b] = one /\ mid \in [Browsers -> Carried]
  BY <1>1, <1>2, <1>3
<1>5. [mid EXCEPT ![b].k = k] = [mid EXCEPT ![b] = two]
  BY <1>3, <1>4
<1>6. req' = [mid EXCEPT ![b].k = k]
  OBVIOUS
<1>7. req' = [mid EXCEPT ![b] = two]
  BY <1>5, <1>6
<1>8. req' \in [Browsers -> Carried] /\ req'[b] = two
  BY <1>2, <1>4, <1>7
<1>. QED BY <1>8

\* Every step is one of these or changes nothing a login works on.
LEMMA StepOfLogin ==
    ASSUME TypeOK, [SNext]_allVars
    PROVE  LoginStep \/ UNCHANGED vars
<1>. USE ReadsIds DEF Goto, Answer, TypeOK, config, jars
<1>1. ASSUME NEW b \in Browsers, LoginStarts(b)
      PROVE  Behind(b)
  <2>1. /\ idRow' \in BOOLEAN /\ idCached' \in BOOLEAN
        /\ UNCHANGED <<owner, refs, key, sess, jars, minted, last>>
    BY <1>1 DEF LoginStarts
  <2>2. /\ pc' \in [Browsers -> Places]
        /\ pc'[b] \notin {"find_owner", "register", "registered", "upsert"}
    BY <1>1 DEF LoginStarts, Places
  <2>3. req' \in [Browsers -> Carried]
    BY <1>1 DEF LoginStarts, Carried
  <2>4. \A a \in Browsers \ {b} : pc'[a] = pc[a] /\ req'[a] = req[a]
    BY <1>1 DEF LoginStarts
  <2>5. pc'[b] = "use" => req'[b].user \in Users
    BY <1>1 DEF LoginStarts
  <2>. QED BY <2>1, <2>2, <2>3, <2>4, <2>5 DEF Behind
<1>2. ASSUME NEW b \in Browsers, FindId(b)
      PROVE  Behind(b)
  <2>1. /\ idRow' \in BOOLEAN /\ idCached' \in BOOLEAN
        /\ UNCHANGED <<owner, refs, key, sess, jars, minted, last>>
    BY <1>2 DEF FindId
  <2>2. /\ pc' \in [Browsers -> Places]
        /\ pc'[b] \notin {"find_owner", "register", "registered", "upsert"}
    BY <1>2 DEF FindId, Places
  <2>3. req' \in [Browsers -> Carried]
    BY <1>2 DEF FindId, Carried
  <2>4. \A a \in Browsers \ {b} : pc'[a] = pc[a] /\ req'[a] = req[a]
    BY <1>2 DEF FindId
  <2>5. pc'[b] = "use" => req'[b].user \in Users
    BY <1>2 DEF FindId
  <2>. QED BY <2>1, <2>2, <2>3, <2>4, <2>5 DEF Behind
<1>3. ASSUME NEW b \in Browsers, InsertId(b)
      PROVE  Behind(b)
  <2>1. /\ idRow' \in BOOLEAN /\ idCached' \in BOOLEAN
        /\ UNCHANGED <<owner, refs, key, sess, jars, minted, last>>
    BY <1>3 DEF InsertId
  <2>2. /\ pc' \in [Browsers -> Places]
        /\ pc'[b] \notin {"find_owner", "register", "registered", "upsert"}
    BY <1>3 DEF InsertId, Places
  <2>3. req' \in [Browsers -> Carried]
    BY <1>3 DEF InsertId, Carried
  <2>4. \A a \in Browsers \ {b} : pc'[a] = pc[a] /\ req'[a] = req[a]
    BY <1>3 DEF InsertId
  <2>5. pc'[b] = "use" => req'[b].user \in Users
    BY <1>3 DEF InsertId
  <2>. QED BY <2>1, <2>2, <2>3, <2>4, <2>5 DEF Behind
<1>4. ASSUME NEW b \in Browsers, CommitFails(b)
      PROVE  Behind(b)
  <2>1. /\ idRow' \in BOOLEAN /\ idCached' \in BOOLEAN
        /\ UNCHANGED <<owner, refs, key, sess, jars, minted, last>>
    BY <1>4 DEF CommitFails
  <2>2. /\ pc' \in [Browsers -> Places]
        /\ pc'[b] \notin {"find_owner", "register", "registered", "upsert"}
    BY <1>4 DEF CommitFails, Places
  <2>3. req' \in [Browsers -> Carried]
    BY <1>4 DEF CommitFails, Carried
  <2>4. \A a \in Browsers \ {b} : pc'[a] = pc[a] /\ req'[a] = req[a]
    BY <1>4 DEF CommitFails
  <2>5. pc'[b] = "use" => req'[b].user \in Users
    BY <1>4 DEF CommitFails
  <2>. QED BY <2>1, <2>2, <2>3, <2>4, <2>5 DEF Behind
<1>5. ASSUME NEW b \in Browsers, Ask(b, "find_use")
      PROVE  Behind(b)
  <2>1. /\ idRow' \in BOOLEAN /\ idCached' \in BOOLEAN
        /\ UNCHANGED <<owner, refs, key, sess, jars, minted, last>>
    BY <1>5 DEF Ask
  <2>2. /\ pc' \in [Browsers -> Places]
        /\ pc'[b] \notin {"find_owner", "register", "registered", "upsert"}
    BY <1>5 DEF Ask, Places
  <2>3. req' \in [Browsers -> Carried]
    BY <1>5 DEF Ask, Carried
  <2>4. \A a \in Browsers \ {b} : pc'[a] = pc[a] /\ req'[a] = req[a]
    BY <1>5 DEF Ask
  <2>5. pc'[b] = "use" => req'[b].user \in Users
    BY <1>5 DEF Ask
  <2>. QED BY <2>1, <2>2, <2>3, <2>4, <2>5 DEF Behind
<1>6. ASSUME NEW b \in Browsers, Verify(b, "find_use", "use")
      PROVE  Behind(b)
  <2>1. /\ idRow' \in BOOLEAN /\ idCached' \in BOOLEAN
        /\ UNCHANGED <<owner, refs, key, sess, jars, minted, last>>
    BY <1>6 DEF Verify
  <2>2. /\ pc' \in [Browsers -> Places]
        /\ pc'[b] \notin {"find_owner", "register", "registered", "upsert"}
    BY <1>6 DEF Verify, Places
  <2>3. req' \in [Browsers -> Carried]
    <3>1. ASSUME NEW u \in Users, req' = [req EXCEPT ![b].user = u]
          PROVE  req' \in [Browsers -> Carried]
      BY <3>1, CarryUser
    <3>2. req' \in {req, [req EXCEPT ![b] = Nothing]}
              \/ \E u \in Users : req' = [req EXCEPT ![b].user = u]
      BY <1>6 DEF Verify, Holders
    <3>. QED BY <3>1, <3>2
  <2>4. \A a \in Browsers \ {b} : pc'[a] = pc[a] /\ req'[a] = req[a]
    BY <1>6 DEF Verify
  <2>5. pc'[b] = "use" => req'[b].user \in Users
    <3>1. ASSUME NEW u \in Users, req' = [req EXCEPT ![b].user = u]
          PROVE  req'[b].user = u
      BY <3>1, CarryUser
    <3>2. pc'[b] = "use" => \E u \in Users : req' = [req EXCEPT ![b].user = u]
      BY <1>6 DEF Verify, Holders
    <3>. QED BY <3>1, <3>2
  <2>. QED BY <2>1, <2>2, <2>3, <2>4, <2>5 DEF Behind
<1>7. ASSUME NEW b \in Browsers, Ask(b, "find_logout")
      PROVE  Behind(b)
  <2>1. /\ idRow' \in BOOLEAN /\ idCached' \in BOOLEAN
        /\ UNCHANGED <<owner, refs, key, sess, jars, minted, last>>
    BY <1>7 DEF Ask
  <2>2. /\ pc' \in [Browsers -> Places]
        /\ pc'[b] \notin {"find_owner", "register", "registered", "upsert"}
    BY <1>7 DEF Ask, Places
  <2>3. req' \in [Browsers -> Carried]
    BY <1>7 DEF Ask, Carried
  <2>4. \A a \in Browsers \ {b} : pc'[a] = pc[a] /\ req'[a] = req[a]
    BY <1>7 DEF Ask
  <2>5. pc'[b] = "use" => req'[b].user \in Users
    BY <1>7 DEF Ask
  <2>. QED BY <2>1, <2>2, <2>3, <2>4, <2>5 DEF Behind
<1>8. ASSUME NEW b \in Browsers, Verify(b, "find_logout", "logout")
      PROVE  Behind(b)
  <2>1. /\ idRow' \in BOOLEAN /\ idCached' \in BOOLEAN
        /\ UNCHANGED <<owner, refs, key, sess, jars, minted, last>>
    BY <1>8 DEF Verify
  <2>2. /\ pc' \in [Browsers -> Places]
        /\ pc'[b] \notin {"find_owner", "register", "registered", "upsert"}
    BY <1>8 DEF Verify, Places
  <2>3. req' \in [Browsers -> Carried]
    <3>1. ASSUME NEW u \in Users, req' = [req EXCEPT ![b].user = u]
          PROVE  req' \in [Browsers -> Carried]
      BY <3>1, CarryUser
    <3>2. req' \in {req, [req EXCEPT ![b] = Nothing]}
              \/ \E u \in Users : req' = [req EXCEPT ![b].user = u]
      BY <1>8 DEF Verify, Holders
    <3>. QED BY <3>1, <3>2
  <2>4. \A a \in Browsers \ {b} : pc'[a] = pc[a] /\ req'[a] = req[a]
    BY <1>8 DEF Verify
  <2>5. pc'[b] = "use" => req'[b].user \in Users
    BY <1>8 DEF Verify
  <2>. QED BY <2>1, <2>2, <2>3, <2>4, <2>5 DEF Behind
<1>9. ASSUME NEW b \in Browsers, SetupStarts(b)
      PROVE  Behind(b)
  <2>1. /\ idRow' \in BOOLEAN /\ idCached' \in BOOLEAN
        /\ UNCHANGED <<owner, refs, key, sess, jars, minted, last>>
    BY <1>9 DEF SetupStarts, Ask, Verify
  <2>2. /\ pc' \in [Browsers -> Places]
        /\ pc'[b] \notin {"find_owner", "register", "registered", "upsert"}
    BY <1>9 DEF SetupStarts, Ask, Verify, Places
  <2>3. req' \in [Browsers -> Carried]
    <3>1. CASE Ask(b, "find_setup")
      BY <3>1 DEF Ask, Carried
    <3>2. CASE Verify(b, "find_setup", IF idCached THEN "setup_ask" ELSE "setup_id")
      <4>1. ASSUME NEW u \in Users, req' = [req EXCEPT ![b].user = u]
            PROVE  req' \in [Browsers -> Carried]
        BY <4>1, CarryUser
      <4>2. req' \in {req, [req EXCEPT ![b] = Nothing]}
                \/ \E u \in Users : req' = [req EXCEPT ![b].user = u]
        BY <3>2 DEF Verify, Holders
      <4>. QED BY <4>1, <4>2
    <3>. QED BY <1>9, <3>1, <3>2 DEF SetupStarts
  <2>4. \A a \in Browsers \ {b} : pc'[a] = pc[a] /\ req'[a] = req[a]
    BY <1>9 DEF SetupStarts, Ask, Verify
  <2>5. pc'[b] = "use" => req'[b].user \in Users
    BY <1>9 DEF SetupStarts, Ask, Verify
  <2>. QED BY <2>1, <2>2, <2>3, <2>4, <2>5 DEF Behind
<1>10. ASSUME NEW b \in Browsers, SetupId(b)
       PROVE  Behind(b)
  <2>1. /\ idRow' \in BOOLEAN /\ idCached' \in BOOLEAN
        /\ UNCHANGED <<owner, refs, key, sess, jars, minted, last>>
    BY <1>10 DEF SetupId
  <2>2. /\ pc' \in [Browsers -> Places]
        /\ pc'[b] \notin {"find_owner", "register", "registered", "upsert"}
    BY <1>10 DEF SetupId, Places
  <2>3. req' \in [Browsers -> Carried]
    BY <1>10 DEF SetupId, Carried
  <2>4. \A a \in Browsers \ {b} : pc'[a] = pc[a] /\ req'[a] = req[a]
    BY <1>10 DEF SetupId
  <2>5. pc'[b] = "use" => req'[b].user \in Users
    BY <1>10 DEF SetupId
  <2>. QED BY <2>1, <2>2, <2>3, <2>4, <2>5 DEF Behind
<1>11. ASSUME NEW b \in Browsers, SetupAsks(b)
       PROVE  Behind(b)
  <2>1. /\ idRow' \in BOOLEAN /\ idCached' \in BOOLEAN
        /\ UNCHANGED <<owner, refs, key, sess, jars, minted, last>>
    BY <1>11 DEF SetupAsks, Refused
  <2>2. /\ pc' \in [Browsers -> Places]
        /\ pc'[b] \notin {"find_owner", "register", "registered", "upsert"}
    BY <1>11 DEF SetupAsks, Refused, Places
  <2>3. req' \in [Browsers -> Carried]
    BY <1>11 DEF SetupAsks, Refused, Carried
  <2>4. \A a \in Browsers \ {b} : pc'[a] = pc[a] /\ req'[a] = req[a]
    BY <1>11 DEF SetupAsks, Refused
  <2>5. pc'[b] = "use" => req'[b].user \in Users
    BY <1>11 DEF SetupAsks, Refused
  <2>. QED BY <2>1, <2>2, <2>3, <2>4, <2>5 DEF Behind
<1>12. ASSUME NEW b \in Browsers, SetupHost(b)
       PROVE  Behind(b)
  <2>1. /\ idRow' \in BOOLEAN /\ idCached' \in BOOLEAN
        /\ UNCHANGED <<owner, refs, key, sess, jars, minted, last>>
    BY <1>12 DEF SetupHost
  <2>2. /\ pc' \in [Browsers -> Places]
        /\ pc'[b] \notin {"find_owner", "register", "registered", "upsert"}
    BY <1>12 DEF SetupHost, Places
  <2>3. req' \in [Browsers -> Carried]
    BY <1>12 DEF SetupHost, Carried
  <2>4. \A a \in Browsers \ {b} : pc'[a] = pc[a] /\ req'[a] = req[a]
    BY <1>12 DEF SetupHost
  <2>5. pc'[b] = "use" => req'[b].user \in Users
    BY <1>12 DEF SetupHost
  <2>. QED BY <2>1, <2>2, <2>3, <2>4, <2>5 DEF Behind
<1>13. ASSUME NEW b \in Browsers, SetupFlush(b)
       PROVE  Behind(b)
  <2>1. /\ idRow' \in BOOLEAN /\ idCached' \in BOOLEAN
        /\ UNCHANGED <<owner, refs, key, sess, jars, minted, last>>
    BY <1>13 DEF SetupFlush, Refused
  <2>2. /\ pc' \in [Browsers -> Places]
        /\ pc'[b] \notin {"find_owner", "register", "registered", "upsert"}
    BY <1>13 DEF SetupFlush, Refused, Places
  <2>3. req' \in [Browsers -> Carried]
    BY <1>13 DEF SetupFlush, Refused, Carried
  <2>4. \A a \in Browsers \ {b} : pc'[a] = pc[a] /\ req'[a] = req[a]
    BY <1>13 DEF SetupFlush, Refused
  <2>5. pc'[b] = "use" => req'[b].user \in Users
    BY <1>13 DEF SetupFlush, Refused
  <2>. QED BY <2>1, <2>2, <2>3, <2>4, <2>5 DEF Behind
<1>14. ASSUME NEW b \in Browsers, SetupCommits(b)
       PROVE  Behind(b)
  <2>1. /\ idRow' \in BOOLEAN /\ idCached' \in BOOLEAN
        /\ UNCHANGED <<owner, refs, key, sess, jars, minted, last>>
    BY <1>14 DEF SetupCommits, Refused
  <2>2. /\ pc' \in [Browsers -> Places]
        /\ pc'[b] \notin {"find_owner", "register", "registered", "upsert"}
    BY <1>14 DEF SetupCommits, Refused, Places
  <2>3. req' \in [Browsers -> Carried]
    BY <1>14 DEF SetupCommits, Refused, Carried
  <2>4. \A a \in Browsers \ {b} : pc'[a] = pc[a] /\ req'[a] = req[a]
    BY <1>14 DEF SetupCommits, Refused
  <2>5. pc'[b] = "use" => req'[b].user \in Users
    BY <1>14 DEF SetupCommits, Refused
  <2>. QED BY <2>1, <2>2, <2>3, <2>4, <2>5 DEF Behind
<1>15. ASSUME NEW b \in Browsers, NEW answers \in Answers, SetupTries(b, answers)
       PROVE  Behind(b)
  <2>1. /\ idRow' \in BOOLEAN /\ idCached' \in BOOLEAN
        /\ UNCHANGED <<owner, refs, key, sess, jars, minted, last>>
    BY <1>15 DEF SetupTries, Refused
  <2>2. /\ pc' \in [Browsers -> Places]
        /\ pc'[b] \notin {"find_owner", "register", "registered", "upsert"}
    BY <1>15 DEF SetupTries, Refused, Places
  <2>3. req' \in [Browsers -> Carried]
    BY <1>15 DEF SetupTries, Refused, Carried
  <2>4. \A a \in Browsers \ {b} : pc'[a] = pc[a] /\ req'[a] = req[a]
    BY <1>15 DEF SetupTries, Refused
  <2>5. pc'[b] = "use" => req'[b].user \in Users
    BY <1>15 DEF SetupTries, Refused
  <2>. QED BY <2>1, <2>2, <2>3, <2>4, <2>5 DEF Behind
<1>16. ASSUME NEW b \in Browsers, PutsPlex(b)
       PROVE  Behind(b)
  <2>1. /\ idRow' \in BOOLEAN /\ idCached' \in BOOLEAN
        /\ UNCHANGED <<owner, refs, key, sess, jars, minted, last>>
    BY <1>16 DEF PutsPlex
  <2>2. /\ pc' \in [Browsers -> Places]
        /\ pc'[b] \notin {"find_owner", "register", "registered", "upsert"}
    BY <1>16 DEF PutsPlex, Places
  <2>3. req' \in [Browsers -> Carried]
    BY <1>16 DEF PutsPlex, Carried
  <2>4. \A a \in Browsers \ {b} : pc'[a] = pc[a] /\ req'[a] = req[a]
    BY <1>16 DEF PutsPlex
  <2>5. pc'[b] = "use" => req'[b].user \in Users
    BY <1>16 DEF PutsPlex
  <2>. QED BY <2>1, <2>2, <2>3, <2>4, <2>5 DEF Behind
<1>17. CASE LoginNext
  BY <1>17, <1>1, <1>2, <1>3, <1>4, <1>5, <1>6, <1>7, <1>8 DEF LoginNext, LoginStep
<1>18. CASE \E b \in Browsers : SetupStep(b)
  BY <1>18, <1>9, <1>10, <1>11, <1>12, <1>13, <1>14, <1>15, <1>16 DEF SetupStep, LoginStep
<1>19. CASE UNCHANGED allVars
  BY <1>19 DEF allVars
<1>. QED BY <1>17, <1>18, <1>19 DEF SNext

-----------------------------------------------------------------------------
(* Types                                                                   *)

\* Which requests have a user.
Signing == \A b \in Browsers :
    pc[b] \in {"find_owner", "register", "registered", "upsert", "use"} => req[b].user \in Users

\* A login that was given an id.
Numbered == \A b \in Browsers : pc[b] = "upsert" => req[b].id \in 1..minted

LEMMA TypeInit == SInit => TypeOK /\ Signing /\ Numbered
<1>. SUFFICES ASSUME Init
              PROVE  TypeOK /\ Signing /\ Numbered
  BY DEF SInit
<1>1. MaxLogins \in Nat /\ MaxRotations \in Nat
  BY LoginAssumption
<1>2. owner = None /\ refs = {} /\ idRow = FALSE /\ idCached = FALSE /\ pin = {}
  BY DEF Init
<1>3. key \in KeyEras /\ minted \in 0..MaxLogins /\ last \in 0..MaxLogins
  BY <1>1 DEF Init, KeyEras
<1>4. sess \in [Users -> Sessions \cup {None}] /\ cookie \in [Browsers -> Cookies \cup {None}]
  BY DEF Init
<1>5. pc \in [Browsers -> Places] /\ \A b \in Browsers : pc[b] = "idle"
  BY DEF Init, Places
<1>6. req \in [Browsers -> Carried]
  BY <1>1 DEF Init, Nothing, Carried, KeyEras
<1>. QED BY <1>2, <1>3, <1>4, <1>5, <1>6 DEF TypeOK, Signing, Numbered

LEMMA TypeStep ==
    ASSUME TypeOK, Signing, Numbered, LoginStep \/ UNCHANGED vars
    PROVE  TypeOK'
<1>. USE LoginAssumption DEF config, jars, KeyEras, SessionIds
<1>1. ASSUME NEW b \in Browsers, Behind(b)
      PROVE  TypeOK'
  <2>1. owner' \in Owners \cup {None} /\ refs' \subseteq Users
    BY <1>1 DEF Behind, TypeOK, Owners
  <2>2. sess' \in [Users -> Sessions \cup {None}]
    BY <1>1 DEF Behind, TypeOK, Sessions
  <2>3. idRow' \in BOOLEAN /\ idCached' \in BOOLEAN
    BY <1>1 DEF Behind, TypeOK
  <2>4. key' \in KeyEras /\ pin' \subseteq Browsers
    BY <1>1 DEF Behind, TypeOK
  <2>5. cookie' \in [Browsers -> Cookies \cup {None}]
    BY <1>1 DEF Behind, TypeOK, Cookies
  <2>6. pc' \in [Browsers -> Places]
    BY <1>1 DEF Behind, TypeOK, Places
  <2>7. req' \in [Browsers -> Carried]
    BY <1>1 DEF Behind, TypeOK, Carried
  <2>8. minted' \in 0..MaxLogins /\ last' \in 0..MaxLogins
    BY <1>1 DEF Behind, TypeOK, Carried
  <2>. QED BY <2>1, <2>2, <2>3, <2>4, <2>5, <2>6, <2>7, <2>8 DEF TypeOK
<1>2. ASSUME NEW b \in Browsers, GetPin(b)
      PROVE  TypeOK'
  <2>1. owner' \in Owners \cup {None} /\ refs' \subseteq Users
    BY <1>2 DEF GetPin, Answer, Goto, Nothing, TypeOK, Owners
  <2>2. sess' \in [Users -> Sessions \cup {None}]
    BY <1>2 DEF GetPin, Answer, Goto, Nothing, TypeOK, Sessions
  <2>3. idRow' \in BOOLEAN /\ idCached' \in BOOLEAN
    BY <1>2 DEF GetPin, Answer, Goto, Nothing, TypeOK
  <2>4. key' \in KeyEras /\ pin' \subseteq Browsers
    BY <1>2 DEF GetPin, Answer, Goto, Nothing, TypeOK
  <2>5. cookie' \in [Browsers -> Cookies \cup {None}]
    BY <1>2 DEF GetPin, Answer, Goto, Nothing, TypeOK, Cookies
  <2>6. pc' \in [Browsers -> Places]
    BY <1>2 DEF GetPin, Answer, Goto, Nothing, TypeOK, Places
  <2>7. req' \in [Browsers -> Carried]
    BY <1>2 DEF GetPin, Answer, Goto, Nothing, TypeOK, Carried
  <2>8. minted' \in 0..MaxLogins /\ last' \in 0..MaxLogins
    BY <1>2 DEF GetPin, Answer, Goto, Nothing, TypeOK, Carried
  <2>. QED BY <2>1, <2>2, <2>3, <2>4, <2>5, <2>6, <2>7, <2>8 DEF TypeOK
<1>3. ASSUME NEW b \in Browsers, Exchange(b)
      PROVE  TypeOK'
  <2>1. owner' \in Owners \cup {None} /\ refs' \subseteq Users
    BY <1>3 DEF Exchange, Goto, TypeOK, Owners
  <2>2. sess' \in [Users -> Sessions \cup {None}]
    BY <1>3 DEF Exchange, Goto, TypeOK, Sessions
  <2>3. idRow' \in BOOLEAN /\ idCached' \in BOOLEAN
    BY <1>3 DEF Exchange, Goto, TypeOK
  <2>4. key' \in KeyEras /\ pin' \subseteq Browsers
    BY <1>3 DEF Exchange, Goto, TypeOK
  <2>5. cookie' \in [Browsers -> Cookies \cup {None}]
    BY <1>3 DEF Exchange, Goto, TypeOK, Cookies
  <2>6. pc' \in [Browsers -> Places]
    BY <1>3 DEF Exchange, Goto, TypeOK, Places
  <2>7. req' \in [Browsers -> Carried]
    BY <1>3 DEF Exchange, Goto, TypeOK, Carried
  <2>8. minted' \in 0..MaxLogins /\ last' \in 0..MaxLogins
    BY <1>3 DEF Exchange, Goto, TypeOK, Carried
  <2>. QED BY <2>1, <2>2, <2>3, <2>4, <2>5, <2>6, <2>7, <2>8 DEF TypeOK
<1>4. ASSUME NEW b \in Browsers, FindOwner(b)
      PROVE  TypeOK'
  <2>1. owner' \in Owners \cup {None} /\ refs' \subseteq Users
    BY <1>4 DEF FindOwner, Mint, Answer, Goto, Nothing, TypeOK, Owners, Signing
  <2>2. sess' \in [Users -> Sessions \cup {None}]
    BY <1>4 DEF FindOwner, Mint, Answer, Goto, Nothing, TypeOK, Sessions, Signing
  <2>3. idRow' \in BOOLEAN /\ idCached' \in BOOLEAN
    BY <1>4 DEF FindOwner, Mint, Answer, Goto, Nothing, TypeOK, Signing
  <2>4. key' \in KeyEras /\ pin' \subseteq Browsers
    BY <1>4 DEF FindOwner, Mint, Answer, Goto, Nothing, TypeOK, Signing
  <2>5. cookie' \in [Browsers -> Cookies \cup {None}]
    BY <1>4 DEF FindOwner, Mint, Answer, Goto, Nothing, TypeOK, Cookies, Signing
  <2>6. pc' \in [Browsers -> Places]
    BY <1>4 DEF FindOwner, Mint, Answer, Goto, Nothing, TypeOK, Places, Signing
  <2>7. req' \in [Browsers -> Carried]
    BY <1>4 DEF FindOwner, Mint, Answer, Goto, Nothing, TypeOK, Carried, Signing
  <2>8. minted' \in 0..MaxLogins /\ last' \in 0..MaxLogins
    BY <1>4 DEF FindOwner, Mint, Answer, Goto, Nothing, TypeOK, Carried, Signing
  <2>. QED BY <2>1, <2>2, <2>3, <2>4, <2>5, <2>6, <2>7, <2>8 DEF TypeOK
<1>5. ASSUME NEW b \in Browsers, Register(b)
      PROVE  TypeOK'
  <2>1. owner' \in Owners \cup {None} /\ refs' \subseteq Users
    <3>1. req[b].user \in Users /\ req[b].k \in KeyEras
      BY <1>5 DEF Register, Signing, TypeOK, Carried
    <3>. HIDE DEF KeyEras
    <3>2. [user |-> req[b].user, tok |-> req[b].user, k |-> req[b].k] \in Owners
      BY <3>1 DEF Owners
    <3>. QED BY <1>5, <3>2 DEF Register, TypeOK
  <2>2. sess' \in [Users -> Sessions \cup {None}]
    BY <1>5 DEF Register, Answer, Goto, Nothing, TypeOK, Sessions, Signing
  <2>3. idRow' \in BOOLEAN /\ idCached' \in BOOLEAN
    BY <1>5 DEF Register, Answer, Goto, Nothing, TypeOK, Signing
  <2>4. key' \in KeyEras /\ pin' \subseteq Browsers
    BY <1>5 DEF Register, Answer, Goto, Nothing, TypeOK, Signing
  <2>5. cookie' \in [Browsers -> Cookies \cup {None}]
    BY <1>5 DEF Register, Answer, Goto, Nothing, TypeOK, Cookies, Signing
  <2>6. pc' \in [Browsers -> Places]
    BY <1>5 DEF Register, Answer, Goto, Nothing, TypeOK, Places, Signing
  <2>7. req' \in [Browsers -> Carried]
    BY <1>5 DEF Register, Answer, Goto, Nothing, TypeOK, Carried, Signing
  <2>8. minted' \in 0..MaxLogins /\ last' \in 0..MaxLogins
    BY <1>5 DEF Register, Answer, Goto, Nothing, TypeOK, Carried, Signing
  <2>. QED BY <2>1, <2>2, <2>3, <2>4, <2>5, <2>6, <2>7, <2>8 DEF TypeOK
<1>6. ASSUME NEW b \in Browsers, Registered(b)
      PROVE  TypeOK'
  <2>1. owner' \in Owners \cup {None} /\ refs' \subseteq Users
    BY <1>6 DEF Registered, Mint, Goto, TypeOK, Owners
  <2>2. sess' \in [Users -> Sessions \cup {None}]
    BY <1>6 DEF Registered, Mint, Goto, TypeOK, Sessions
  <2>3. idRow' \in BOOLEAN /\ idCached' \in BOOLEAN
    BY <1>6 DEF Registered, Mint, Goto, TypeOK
  <2>4. key' \in KeyEras /\ pin' \subseteq Browsers
    BY <1>6 DEF Registered, Mint, Goto, TypeOK
  <2>5. cookie' \in [Browsers -> Cookies \cup {None}]
    BY <1>6 DEF Registered, Mint, Goto, TypeOK, Cookies
  <2>6. pc' \in [Browsers -> Places]
    BY <1>6 DEF Registered, Mint, Goto, TypeOK, Places
  <2>7. req' \in [Browsers -> Carried]
    <3>1. minted + 1 \in 0..MaxLogins /\ key \in KeyEras
      BY <1>6 DEF Registered, Mint, TypeOK
    <3>2. req' = [req EXCEPT ![b].id = minted + 1, ![b].k = key]
      BY <1>6 DEF Registered, Mint
    <3>. QED BY <3>1, <3>2, CarryMint
  <2>8. minted' \in 0..MaxLogins /\ last' \in 0..MaxLogins
    BY <1>6 DEF Registered, Mint, Goto, TypeOK, Carried
  <2>. QED BY <2>1, <2>2, <2>3, <2>4, <2>5, <2>6, <2>7, <2>8 DEF TypeOK
<1>7. ASSUME NEW b \in Browsers, Upsert(b)
      PROVE  TypeOK'
  <2>1. owner' \in Owners \cup {None} /\ refs' \subseteq Users
    BY <1>7 DEF Upsert, Answer, Goto, Nothing, TypeOK, Owners, Numbered
  <2>2. sess' \in [Users -> Sessions \cup {None}]
    <3>1. req[b].id \in SessionIds /\ req[b].k \in KeyEras
      BY <1>7 DEF Upsert, Numbered, TypeOK, Carried
    <3>2. [id |-> req[b].id, k |-> req[b].k, old |-> FALSE] \in Sessions
      BY <3>1 DEF Sessions
    <3>. QED BY <1>7, <3>2 DEF Upsert, TypeOK
  <2>3. idRow' \in BOOLEAN /\ idCached' \in BOOLEAN
    BY <1>7 DEF Upsert, Answer, Goto, Nothing, TypeOK, Numbered
  <2>4. key' \in KeyEras /\ pin' \subseteq Browsers
    BY <1>7 DEF Upsert, Answer, Goto, Nothing, TypeOK, Numbered
  <2>5. cookie' \in [Browsers -> Cookies \cup {None}]
    <3>1. req[b].id \in SessionIds /\ req[b].k \in KeyEras
      BY <1>7 DEF Upsert, Numbered, TypeOK, Carried
    <3>2. [id |-> req[b].id, k |-> req[b].k] \in Cookies
      BY <3>1 DEF Cookies
    <3>. QED BY <1>7, <3>2 DEF Upsert, TypeOK
  <2>6. pc' \in [Browsers -> Places]
    BY <1>7 DEF Upsert, Answer, Goto, Nothing, TypeOK, Places, Numbered
  <2>7. req' \in [Browsers -> Carried]
    BY <1>7 DEF Upsert, Answer, Goto, Nothing, TypeOK, Carried, Numbered
  <2>8. minted' \in 0..MaxLogins /\ last' \in 0..MaxLogins
    BY <1>7 DEF Upsert, Answer, Goto, Nothing, TypeOK, Carried, Numbered
  <2>. QED BY <2>1, <2>2, <2>3, <2>4, <2>5, <2>6, <2>7, <2>8 DEF TypeOK
<1>8. ASSUME NEW b \in Browsers, DropExpired(b)
      PROVE  TypeOK'
  <2>1. owner' \in Owners \cup {None} /\ refs' \subseteq Users
    BY <1>8 DEF DropExpired, Delete, Referenced, Answer, Goto, Nothing, TypeOK, Owners
  <2>2. sess' \in [Users -> Sessions \cup {None}]
    BY <1>8 DEF DropExpired, Delete, Referenced, Answer, Goto, Nothing, TypeOK, Sessions
  <2>3. idRow' \in BOOLEAN /\ idCached' \in BOOLEAN
    BY <1>8 DEF DropExpired, Delete, Referenced, Answer, Goto, Nothing, TypeOK
  <2>4. key' \in KeyEras /\ pin' \subseteq Browsers
    BY <1>8 DEF DropExpired, Delete, Referenced, Answer, Goto, Nothing, TypeOK
  <2>5. cookie' \in [Browsers -> Cookies \cup {None}]
    BY <1>8 DEF DropExpired, Delete, Referenced, Answer, Goto, Nothing, TypeOK, Cookies
  <2>6. pc' \in [Browsers -> Places]
    BY <1>8 DEF DropExpired, Delete, Referenced, Answer, Goto, Nothing, TypeOK, Places
  <2>7. req' \in [Browsers -> Carried]
    BY <1>8 DEF DropExpired, Delete, Referenced, Answer, Goto, Nothing, TypeOK, Carried
  <2>8. minted' \in 0..MaxLogins /\ last' \in 0..MaxLogins
    BY <1>8 DEF DropExpired, Delete, Referenced, Answer, Goto, Nothing, TypeOK, Carried
  <2>. QED BY <2>1, <2>2, <2>3, <2>4, <2>5, <2>6, <2>7, <2>8 DEF TypeOK
<1>9. ASSUME NEW b \in Browsers, Logout(b)
      PROVE  TypeOK'
  <2>1. owner' \in Owners \cup {None} /\ refs' \subseteq Users
    BY <1>9 DEF Logout, Delete, Referenced, Answer, Goto, Nothing, TypeOK, Owners
  <2>2. sess' \in [Users -> Sessions \cup {None}]
    BY <1>9 DEF Logout, Delete, Referenced, Answer, Goto, Nothing, TypeOK, Sessions
  <2>3. idRow' \in BOOLEAN /\ idCached' \in BOOLEAN
    BY <1>9 DEF Logout, Delete, Referenced, Answer, Goto, Nothing, TypeOK
  <2>4. key' \in KeyEras /\ pin' \subseteq Browsers
    BY <1>9 DEF Logout, Delete, Referenced, Answer, Goto, Nothing, TypeOK
  <2>5. cookie' \in [Browsers -> Cookies \cup {None}]
    BY <1>9 DEF Logout, Delete, Referenced, Answer, Goto, Nothing, TypeOK, Cookies
  <2>6. pc' \in [Browsers -> Places]
    BY <1>9 DEF Logout, Delete, Referenced, Answer, Goto, Nothing, TypeOK, Places
  <2>7. req' \in [Browsers -> Carried]
    BY <1>9 DEF Logout, Delete, Referenced, Answer, Goto, Nothing, TypeOK, Carried
  <2>8. minted' \in 0..MaxLogins /\ last' \in 0..MaxLogins
    BY <1>9 DEF Logout, Delete, Referenced, Answer, Goto, Nothing, TypeOK, Carried
  <2>. QED BY <2>1, <2>2, <2>3, <2>4, <2>5, <2>6, <2>7, <2>8 DEF TypeOK
<1>10. ASSUME NEW b \in Browsers, UseSession(b)
       PROVE  TypeOK'
  <2>1. owner' \in Owners \cup {None} /\ refs' \subseteq Users
    <3>1. sess[req[b].user] # None => req[b].user \in Users
      BY <1>10 DEF UseSession, Signing
    <3>. QED BY <1>10, <3>1 DEF UseSession, TypeOK
  <2>2. sess' \in [Users -> Sessions \cup {None}]
    BY <1>10 DEF UseSession, Answer, Goto, Nothing, TypeOK, Sessions
  <2>3. idRow' \in BOOLEAN /\ idCached' \in BOOLEAN
    BY <1>10 DEF UseSession, Answer, Goto, Nothing, TypeOK
  <2>4. key' \in KeyEras /\ pin' \subseteq Browsers
    BY <1>10 DEF UseSession, Answer, Goto, Nothing, TypeOK
  <2>5. cookie' \in [Browsers -> Cookies \cup {None}]
    BY <1>10 DEF UseSession, Answer, Goto, Nothing, TypeOK, Cookies
  <2>6. pc' \in [Browsers -> Places]
    BY <1>10 DEF UseSession, Answer, Goto, Nothing, TypeOK, Places
  <2>7. req' \in [Browsers -> Carried]
    BY <1>10 DEF UseSession, Answer, Goto, Nothing, TypeOK, Carried
  <2>8. minted' \in 0..MaxLogins /\ last' \in 0..MaxLogins
    BY <1>10 DEF UseSession, Answer, Goto, Nothing, TypeOK, Carried
  <2>. QED BY <2>1, <2>2, <2>3, <2>4, <2>5, <2>6, <2>7, <2>8 DEF TypeOK
<1>11. ASSUME NEW u \in Users, Expire(u)
       PROVE  TypeOK'
  <2>1. owner' \in Owners \cup {None} /\ refs' \subseteq Users
    BY <1>11 DEF Expire, TypeOK, Owners
  <2>2. sess' \in [Users -> Sessions \cup {None}]
    BY <1>11 DEF Expire, TypeOK, Sessions
  <2>3. idRow' \in BOOLEAN /\ idCached' \in BOOLEAN
    BY <1>11 DEF Expire, TypeOK
  <2>4. key' \in KeyEras /\ pin' \subseteq Browsers
    BY <1>11 DEF Expire, TypeOK
  <2>5. cookie' \in [Browsers -> Cookies \cup {None}]
    BY <1>11 DEF Expire, TypeOK, Cookies
  <2>6. pc' \in [Browsers -> Places]
    BY <1>11 DEF Expire, TypeOK, Places
  <2>7. req' \in [Browsers -> Carried]
    BY <1>11 DEF Expire, TypeOK, Carried
  <2>8. minted' \in 0..MaxLogins /\ last' \in 0..MaxLogins
    BY <1>11 DEF Expire, TypeOK, Carried
  <2>. QED BY <2>1, <2>2, <2>3, <2>4, <2>5, <2>6, <2>7, <2>8 DEF TypeOK
<1>12. CASE RotateKey
  <2>1. owner' \in Owners \cup {None} /\ refs' \subseteq Users
    BY <1>12 DEF RotateKey, TypeOK, Owners
  <2>2. sess' \in [Users -> Sessions \cup {None}]
    BY <1>12 DEF RotateKey, TypeOK, Sessions
  <2>3. idRow' \in BOOLEAN /\ idCached' \in BOOLEAN
    BY <1>12 DEF RotateKey, TypeOK
  <2>4. key' \in KeyEras /\ pin' \subseteq Browsers
    BY <1>12 DEF RotateKey, TypeOK
  <2>5. cookie' \in [Browsers -> Cookies \cup {None}]
    BY <1>12 DEF RotateKey, TypeOK, Cookies
  <2>6. pc' \in [Browsers -> Places]
    BY <1>12 DEF RotateKey, TypeOK, Places
  <2>7. req' \in [Browsers -> Carried]
    BY <1>12 DEF RotateKey, TypeOK, Carried
  <2>8. minted' \in 0..MaxLogins /\ last' \in 0..MaxLogins
    BY <1>12 DEF RotateKey, TypeOK, Carried
  <2>. QED BY <2>1, <2>2, <2>3, <2>4, <2>5, <2>6, <2>7, <2>8 DEF TypeOK
<1>13. CASE Restart
  <2>1. owner' \in Owners \cup {None} /\ refs' \subseteq Users
    BY <1>13 DEF Restart, Nothing, TypeOK, Owners
  <2>2. sess' \in [Users -> Sessions \cup {None}]
    BY <1>13 DEF Restart, Nothing, TypeOK, Sessions
  <2>3. idRow' \in BOOLEAN /\ idCached' \in BOOLEAN
    BY <1>13 DEF Restart, Nothing, TypeOK
  <2>4. key' \in KeyEras /\ pin' \subseteq Browsers
    BY <1>13 DEF Restart, Nothing, TypeOK
  <2>5. cookie' \in [Browsers -> Cookies \cup {None}]
    BY <1>13 DEF Restart, Nothing, TypeOK, Cookies
  <2>6. pc' \in [Browsers -> Places]
    BY <1>13 DEF Restart, Nothing, TypeOK, Places
  <2>7. req' \in [Browsers -> Carried]
    BY <1>13 DEF Restart, Nothing, TypeOK, Carried
  <2>8. minted' \in 0..MaxLogins /\ last' \in 0..MaxLogins
    BY <1>13 DEF Restart, Nothing, TypeOK, Carried
  <2>. QED BY <2>1, <2>2, <2>3, <2>4, <2>5, <2>6, <2>7, <2>8 DEF TypeOK
<1>14. CASE UNCHANGED vars
  BY <1>14 DEF vars, TypeOK, config, jars
<1>. QED
  BY <1>1, <1>2, <1>3, <1>4, <1>5, <1>6, <1>7,
     <1>8, <1>9, <1>10, <1>11, <1>12, <1>13, <1>14
  DEF LoginStep

LEMMA SigningStep ==
    ASSUME TypeOK, Signing, Numbered, LoginStep \/ UNCHANGED vars
    PROVE  (Signing /\ Numbered)'
<1>. USE LoginAssumption DEF TypeOK, Signing, Numbered, config, jars, KeyEras
<1>1. ASSUME NEW b \in Browsers, Behind(b)
      PROVE  (Signing /\ Numbered)'
  BY <1>1 DEF Behind
<1>2. ASSUME NEW b \in Browsers, GetPin(b)
      PROVE  (Signing /\ Numbered)'
  BY <1>2 DEF GetPin, Answer, Goto, Nothing
<1>3. ASSUME NEW b \in Browsers, Exchange(b)
      PROVE  (Signing /\ Numbered)'
  <2>1. /\ \A a \in Browsers \ {b} : pc'[a] = pc[a] /\ req'[a] = req[a]
        /\ pc'[b] \in {"find_owner", pc[b]} /\ pc[b] = "idle" /\ UNCHANGED minted
        /\ pc'[b] = "find_owner" => \E u \in Users : req' = [req EXCEPT ![b].user = u]
    BY <1>3 DEF Exchange, Goto
  <2>2. ASSUME NEW u \in Users, req' = [req EXCEPT ![b].user = u]
        PROVE  req'[b].user = u
    BY <2>2, CarryUser
  <2>. QED BY <2>1, <2>2
<1>4. ASSUME NEW b \in Browsers, FindOwner(b)
      PROVE  (Signing /\ Numbered)'
  <2>1. /\ req[b].user \in Users /\ key \in KeyEras /\ minted + 1 \in Nat
        /\ \A a \in Browsers \ {b} : pc'[a] = pc[a] /\ req'[a] = req[a]
    BY <1>4 DEF FindOwner, Mint, Answer, Goto
  <2>2. CASE req' = [req EXCEPT ![b].k = key] /\ pc'[b] = "register" /\ UNCHANGED minted
    <3>1. req'[b].user = req[b].user
      BY <2>1, <2>2, CarryKey
    <3>. QED BY <2>1, <2>2, <3>1
  <2>3. CASE /\ req' = [req EXCEPT ![b].id = minted + 1, ![b].k = key] /\ pc'[b] = "upsert"
             /\ minted' = minted + 1 /\ minted < MaxLogins
    <3>1. minted + 1 \in 0..MaxLogins
      BY <2>3
    <3>2. req'[b].user = req[b].user /\ req'[b].id = minted + 1
      BY <2>1, <2>3, <3>1, CarryMint
    <3>. QED BY <2>1, <2>3, <3>2
  <2>4. CASE pc'[b] = "idle" /\ UNCHANGED minted
    BY <2>1, <2>4
  <2>. QED BY <1>4, <2>2, <2>3, <2>4 DEF FindOwner, Mint, Answer, Goto
<1>5. ASSUME NEW b \in Browsers, Register(b)
      PROVE  (Signing /\ Numbered)'
  BY <1>5 DEF Register, Answer, Goto, Nothing
<1>6. ASSUME NEW b \in Browsers, Registered(b)
      PROVE  (Signing /\ Numbered)'
  BY <1>6 DEF Registered, Mint, Goto
<1>7. ASSUME NEW b \in Browsers, Upsert(b)
      PROVE  (Signing /\ Numbered)'
  BY <1>7 DEF Upsert, Answer, Goto, Nothing
<1>8. ASSUME NEW b \in Browsers, DropExpired(b)
      PROVE  (Signing /\ Numbered)'
  BY <1>8 DEF DropExpired, Delete, Referenced, Answer, Goto, Nothing
<1>9. ASSUME NEW b \in Browsers, Logout(b)
      PROVE  (Signing /\ Numbered)'
  BY <1>9 DEF Logout, Delete, Referenced, Answer, Goto, Nothing
<1>10. ASSUME NEW b \in Browsers, UseSession(b)
       PROVE  (Signing /\ Numbered)'
  BY <1>10 DEF UseSession, Answer, Goto, Nothing
<1>11. ASSUME NEW u \in Users, Expire(u)
       PROVE  (Signing /\ Numbered)'
  BY <1>11 DEF Expire
<1>12. CASE RotateKey
  BY <1>12 DEF RotateKey
<1>13. CASE Restart
  BY <1>13 DEF Restart, Nothing
<1>14. CASE UNCHANGED vars
  BY <1>14 DEF vars, Signing, Numbered, config, jars
<1>. QED
  BY <1>1, <1>2, <1>3, <1>4, <1>5, <1>6, <1>7,
     <1>8, <1>9, <1>10, <1>11, <1>12, <1>13, <1>14
  DEF LoginStep

LEMMA SignsIn == SSpec => [](TypeOK /\ Signing /\ Numbered)
<1>1. TypeOK /\ Signing /\ Numbered /\ [SNext]_allVars => TypeOK' /\ (Signing /\ Numbered)'
  BY StepOfLogin, TypeStep, SigningStep
<1>. QED BY TypeInit, <1>1, PTL DEF SSpec

\* Every reachable state of the sign-in is well typed.
THEOREM LoginTypes == SSpec => []TypeOK
BY SignsIn, PTL

-----------------------------------------------------------------------------
(* One owner                                                               *)

\* Whose a login is once it has an owner to belong to.
Owned ==
    /\ OwnersOnly
    /\ \A b \in Browsers : pc[b] \in {"registered", "upsert"} =>
          owner # None /\ owner.user = req[b].user

LEMMA OwnedInit == SInit => Owned
BY DEF SInit, Init, Owned, OwnersOnly

LEMMA OwnedStep ==
    ASSUME TypeOK, Signing, Numbered, Owned, LoginStep \/ UNCHANGED vars
    PROVE  Owned'
<1>. USE NoneIsNoRecord DEF config, jars
<1>1. ASSUME NEW b \in Browsers, Behind(b)
      PROVE  Owned'
  BY <1>1 DEF Behind, Owned, OwnersOnly
<1>2. ASSUME NEW b \in Browsers, GetPin(b)
      PROVE  Owned'
  BY <1>2 DEF GetPin, Answer, Goto, Nothing, TypeOK, Owned, OwnersOnly, Carried
<1>3. ASSUME NEW b \in Browsers, Exchange(b)
      PROVE  Owned'
  BY <1>3 DEF Exchange, Goto, TypeOK, Owned, OwnersOnly, Carried
<1>4. ASSUME NEW b \in Browsers, FindOwner(b)
      PROVE  Owned'
  <2>1. /\ UNCHANGED <<owner, sess, refs>> /\ key \in KeyEras /\ pc[b] = "find_owner"
        /\ \A a \in Browsers \ {b} : pc'[a] = pc[a] /\ req'[a] = req[a]
    BY <1>4 DEF FindOwner, Mint, Answer, Goto, TypeOK
  <2>2. CASE pc'[b] \in {"register", "idle"}
    BY <2>1, <2>2 DEF Owned, OwnersOnly
  <2>3. CASE owner # None /\ owner.user = req[b].user /\ Mint(b)
    <3>1. /\ minted + 1 \in 0..MaxLogins
          /\ req' = [req EXCEPT ![b].id = minted + 1, ![b].k = key]
      BY <2>3, LoginAssumption DEF Mint, TypeOK
    <3>2. req'[b].user = req[b].user
      BY <2>1, <3>1, CarryMint
    <3>. QED BY <2>1, <2>3, <3>2 DEF Owned, OwnersOnly
  <2>. QED BY <1>4, <2>2, <2>3 DEF FindOwner, Answer, Goto, TypeOK
<1>5. ASSUME NEW b \in Browsers, Register(b)
      PROVE  Owned'
  <2>. DEFINE o == [user |-> req[b].user, tok |-> req[b].user, k |-> req[b].k]
  <2>1. CASE owner = None
    <3>1. /\ UNCHANGED <<sess, refs, req>> /\ owner' = o
          /\ pc' = [pc EXCEPT ![b] = "registered"]
      BY <1>5, <2>1 DEF Register, Goto
    <3>2. o # None
      <4>1. req[b].user \in Users /\ req[b].k \in KeyEras
        BY <1>5 DEF Register, Signing, TypeOK, Carried
      <4>2. o \in Owners
        BY <4>1 DEF Owners
      <4>. QED BY <4>2
    <3>3. o.user = req[b].user /\ o.tok = req[b].user
      OBVIOUS
    <3>4. \A u \in Users : sess[u] = None /\ u \notin refs
      BY <2>1 DEF Owned, OwnersOnly
    <3>5. \A a \in Browsers : pc'[a] \in {"registered", "upsert"} => a = b
      BY <2>1, <3>1 DEF Owned, TypeOK
    <3>. HIDE DEF o
    <3>. QED BY <3>1, <3>2, <3>3, <3>4, <3>5 DEF Owned, OwnersOnly
  <2>2. CASE owner # None
    BY <1>5, <2>2 DEF Register, Answer, Goto, TypeOK, Owned, OwnersOnly
  <2>. QED BY <2>1, <2>2
<1>6. ASSUME NEW b \in Browsers, Registered(b)
      PROVE  Owned'
  <2>1. /\ UNCHANGED <<owner, sess, refs>> /\ key \in KeyEras /\ pc[b] = "registered"
        /\ minted + 1 \in 0..MaxLogins /\ req' = [req EXCEPT ![b].id = minted + 1, ![b].k = key]
        /\ \A a \in Browsers \ {b} : pc'[a] = pc[a] /\ req'[a] = req[a]
    BY <1>6, LoginAssumption DEF Registered, Mint, Goto, TypeOK
  <2>2. req'[b].user = req[b].user
    BY <2>1, CarryMint
  <2>. QED BY <2>1, <2>2 DEF Owned, OwnersOnly
<1>7. ASSUME NEW b \in Browsers, Upsert(b)
      PROVE  Owned'
  BY <1>7 DEF Upsert, Answer, Goto, Nothing, TypeOK, Owned, OwnersOnly, Carried
<1>8. ASSUME NEW b \in Browsers, DropExpired(b)
      PROVE  Owned'
  BY <1>8 DEF DropExpired, Delete, Referenced, Answer, Goto, Nothing, TypeOK, Owned, OwnersOnly,
              Carried
<1>9. ASSUME NEW b \in Browsers, Logout(b)
      PROVE  Owned'
  BY <1>9 DEF Logout, Delete, Referenced, Answer, Goto, Nothing, TypeOK, Owned, OwnersOnly,
              Carried
<1>10. ASSUME NEW b \in Browsers, UseSession(b)
       PROVE  Owned'
  BY <1>10 DEF UseSession, Answer, Goto, Nothing, TypeOK, Owned, OwnersOnly, Carried
<1>11. ASSUME NEW u \in Users, Expire(u)
       PROVE  Owned'
  BY <1>11 DEF Expire, TypeOK, Owned, OwnersOnly, Carried
<1>12. CASE RotateKey
  <2>1. UNCHANGED <<sess, refs, pc, req>>
    BY <1>12 DEF RotateKey
  <2>2. CASE UNCHANGED owner
    BY <2>1, <2>2 DEF Owned, OwnersOnly
  <2>3. CASE owner # None /\ owner' = [owner EXCEPT !.k = key + 1]
    <3>1. /\ owner \in Owners /\ owner' \in Owners
          /\ owner'.user = owner.user /\ owner'.tok = owner.tok
      BY <1>12, <2>3, LoginAssumption DEF RotateKey, TypeOK, Owners, KeyEras
    <3>2. owner' # None
      BY <3>1
    <3>. QED BY <2>1, <2>3, <3>1, <3>2 DEF Owned, OwnersOnly
  <2>. QED BY <1>12, <2>2, <2>3 DEF RotateKey
<1>13. CASE Restart
  BY <1>13 DEF Restart, Nothing, TypeOK, Owned, OwnersOnly, Carried
<1>14. CASE UNCHANGED vars
  BY <1>14 DEF vars, Owned, OwnersOnly, config, jars
<1>. QED
  BY <1>1, <1>2, <1>3, <1>4, <1>5, <1>6, <1>7,
     <1>8, <1>9, <1>10, <1>11, <1>12, <1>13, <1>14
  DEF LoginStep

\* There is one owner, and only the owner has a session or schedules.
THEOREM OneOwner == SSpec => []OwnersOnly
<1>1. TypeOK /\ Signing /\ Numbered /\ Owned /\ [SNext]_allVars => Owned'
  BY StepOfLogin, OwnedStep
<1>2. Owned => OwnersOnly
  BY DEF Owned
<1>. QED BY SignsIn, OwnedInit, <1>1, <1>2, PTL DEF SSpec

-----------------------------------------------------------------------------
(* Ids and keys                                                            *)

\* An id is given to one login, whose row and cookie carry the same key.
Issued ==
    /\ \A a, b \in Browsers : pc[a] = "upsert" /\ pc[b] = "upsert" /\ req[a].id = req[b].id =>
          a = b
    /\ \A b \in Browsers : pc[b] = "upsert" =>
          /\ \A u \in Users : sess[u] # None => sess[u].id # req[b].id
          /\ \A a \in Browsers : cookie[a] # None => cookie[a].id # req[b].id
    /\ \A u \in Users : sess[u] # None => sess[u].id <= minted
    /\ \A a \in Browsers : cookie[a] # None => cookie[a].id <= minted
    /\ \A a \in Browsers, u \in Users :
          cookie[a] # None /\ sess[u] # None /\ cookie[a].id = sess[u].id =>
              cookie[a].k = sess[u].k

LEMMA IssuedInit == SInit => Issued
BY DEF SInit, Init, Issued

\* Nothing is issued; rows may go, cookies too, logins may end.
LEMMA IssuedKept ==
    ASSUME Issued, UNCHANGED minted,
           \A b \in Browsers : pc'[b] = "upsert" => pc[b] = "upsert" /\ req'[b].id = req[b].id,
           \A u \in Users : sess'[u] # None =>
               sess[u] # None /\ sess'[u].id = sess[u].id /\ sess'[u].k = sess[u].k,
           \A b \in Browsers : cookie'[b] # None => cookie'[b] = cookie[b]
    PROVE  Issued'
BY DEF Issued

\* A login is given the next id.
LEMMA IssuedNext ==
    ASSUME TypeOK, Numbered, Issued, NEW b \in Browsers, Mint(b), UNCHANGED <<sess, cookie>>
    PROVE  Issued'
<1>1. /\ minted' = minted + 1 /\ minted + 1 \in 0..MaxLogins /\ key \in KeyEras
      /\ req' = [req EXCEPT ![b].id = minted + 1, ![b].k = key]
      /\ \A a \in Browsers \ {b} : pc'[a] = pc[a] /\ req'[a] = req[a]
  BY LoginAssumption DEF Mint, Goto, TypeOK
<1>2. req'[b].id = minted + 1
  BY <1>1, CarryMint
<1>3. \A a \in Browsers \ {b} : pc'[a] = "upsert" => req'[a].id \in 1..minted
  BY <1>1 DEF Numbered
<1>4. \A u \in Users : sess[u] # None => sess[u].id \in Nat
  BY LoginAssumption DEF TypeOK, Sessions, SessionIds
<1>5. \A a \in Browsers : cookie[a] # None => cookie[a].id \in Nat
  BY LoginAssumption DEF TypeOK, Cookies, SessionIds
<1>6. minted \in Nat /\ UNCHANGED <<sess, cookie>>
  BY LoginAssumption DEF TypeOK
<1>7. \A a, c \in Browsers : pc'[a] = "upsert" /\ pc'[c] = "upsert" /\ req'[a].id = req'[c].id
          => a = c
  <2>1. \A a \in Browsers \ {b} : pc'[a] = "upsert" => req'[a].id # req'[b].id
    BY <1>2, <1>3, <1>6
  <2>2. \A a, c \in Browsers \ {b} : pc'[a] = "upsert" /\ pc'[c] = "upsert"
            /\ req'[a].id = req'[c].id => a = c
    BY <1>1 DEF Issued
  <2>. QED BY <2>1, <2>2
<1>8. \A a \in Browsers : pc'[a] = "upsert" =>
          /\ \A u \in Users : sess[u] # None => sess[u].id # req'[a].id
          /\ \A c \in Browsers : cookie[c] # None => cookie[c].id # req'[a].id
  <2>1. \A i \in Nat : i <= minted => i # minted + 1
    BY <1>6
  <2>2. /\ \A u \in Users : sess[u] # None => sess[u].id # req'[b].id
        /\ \A c \in Browsers : cookie[c] # None => cookie[c].id # req'[b].id
    BY <1>2, <1>4, <1>5, <2>1 DEF Issued
  <2>3. \A a \in Browsers \ {b} : pc'[a] = "upsert" =>
            /\ \A u \in Users : sess[u] # None => sess[u].id # req'[a].id
            /\ \A c \in Browsers : cookie[c] # None => cookie[c].id # req'[a].id
    <3>1. ASSUME NEW a \in Browsers, a # b, pc'[a] = "upsert"
          PROVE  pc[a] = "upsert" /\ req'[a].id = req[a].id
      BY <1>1, <3>1
    <3>. QED BY <3>1 DEF Issued
  <2>. QED BY <2>2, <2>3
<1>9. /\ \A u \in Users : sess[u] # None => sess[u].id <= minted'
      /\ \A a \in Browsers : cookie[a] # None => cookie[a].id <= minted'
  BY <1>1, <1>4, <1>5, <1>6 DEF Issued
<1>. QED BY <1>6, <1>7, <1>8, <1>9 DEF Issued

LEMMA IssuedStep ==
    ASSUME TypeOK, Signing, Numbered, Issued, LoginStep \/ UNCHANGED vars
    PROVE  Issued'
<1>. USE DEF config, jars
<1>1. ASSUME NEW b \in Browsers, Behind(b)
      PROVE  Issued'
  <2>1. UNCHANGED minted
    BY <1>1 DEF Behind
  <2>2. \A a \in Browsers : pc'[a] = "upsert" => pc[a] = "upsert" /\ req'[a].id = req[a].id
    BY <1>1 DEF Behind, TypeOK
  <2>3. \A u \in Users : sess'[u] # None =>
            sess[u] # None /\ sess'[u].id = sess[u].id /\ sess'[u].k = sess[u].k
    BY <1>1 DEF Behind, TypeOK, Sessions
  <2>4. \A a \in Browsers : cookie'[a] # None => cookie'[a] = cookie[a]
    BY <1>1 DEF Behind, TypeOK
  <2>. QED BY <2>1, <2>2, <2>3, <2>4, IssuedKept
<1>2. ASSUME NEW b \in Browsers, GetPin(b)
      PROVE  Issued'
  <2>1. UNCHANGED minted
    BY <1>2 DEF GetPin, Answer, Goto, Nothing
  <2>2. \A a \in Browsers : pc'[a] = "upsert" => pc[a] = "upsert" /\ req'[a].id = req[a].id
    BY <1>2 DEF GetPin, Answer, Goto, Nothing, TypeOK
  <2>3. \A u \in Users : sess'[u] # None =>
            sess[u] # None /\ sess'[u].id = sess[u].id /\ sess'[u].k = sess[u].k
    BY <1>2 DEF GetPin, Answer, Goto, Nothing, TypeOK, Sessions
  <2>4. \A a \in Browsers : cookie'[a] # None => cookie'[a] = cookie[a]
    BY <1>2 DEF GetPin, Answer, Goto, Nothing, TypeOK
  <2>. QED BY <2>1, <2>2, <2>3, <2>4, IssuedKept
<1>3. ASSUME NEW b \in Browsers, Exchange(b)
      PROVE  Issued'
  <2>1. UNCHANGED minted
    BY <1>3 DEF Exchange, Goto
  <2>2. \A a \in Browsers : pc'[a] = "upsert" => pc[a] = "upsert" /\ req'[a].id = req[a].id
    BY <1>3 DEF Exchange, Goto, TypeOK
  <2>3. \A u \in Users : sess'[u] # None =>
            sess[u] # None /\ sess'[u].id = sess[u].id /\ sess'[u].k = sess[u].k
    BY <1>3 DEF Exchange, Goto, TypeOK, Sessions
  <2>4. \A a \in Browsers : cookie'[a] # None => cookie'[a] = cookie[a]
    BY <1>3 DEF Exchange, Goto, TypeOK
  <2>. QED BY <2>1, <2>2, <2>3, <2>4, IssuedKept
<1>4. ASSUME NEW b \in Browsers, FindOwner(b)
      PROVE  Issued'
  <2>1. CASE Mint(b)
    BY <1>4, <2>1, IssuedNext DEF FindOwner
  <2>2. CASE pc'[b] \in {"register", "idle"} /\ UNCHANGED minted
    <3>1. /\ UNCHANGED <<sess, cookie>>
          /\ \A a \in Browsers \ {b} : pc'[a] = pc[a] /\ req'[a] = req[a]
      BY <1>4 DEF FindOwner, Mint, Answer, Goto, TypeOK
    <3>. QED BY <2>2, <3>1, IssuedKept
  <2>. QED BY <1>4, <2>1, <2>2 DEF FindOwner, Answer, Goto, TypeOK
<1>5. ASSUME NEW b \in Browsers, Register(b)
      PROVE  Issued'
  <2>1. UNCHANGED minted
    BY <1>5 DEF Register, Answer, Goto, Nothing
  <2>2. \A a \in Browsers : pc'[a] = "upsert" => pc[a] = "upsert" /\ req'[a].id = req[a].id
    BY <1>5 DEF Register, Answer, Goto, Nothing, TypeOK
  <2>3. \A u \in Users : sess'[u] # None =>
            sess[u] # None /\ sess'[u].id = sess[u].id /\ sess'[u].k = sess[u].k
    BY <1>5 DEF Register, Answer, Goto, Nothing, TypeOK, Sessions
  <2>4. \A a \in Browsers : cookie'[a] # None => cookie'[a] = cookie[a]
    BY <1>5 DEF Register, Answer, Goto, Nothing, TypeOK
  <2>. QED BY <2>1, <2>2, <2>3, <2>4, IssuedKept
<1>6. ASSUME NEW b \in Browsers, Registered(b)
      PROVE  Issued'
  BY <1>6, IssuedNext DEF Registered
<1>7. ASSUME NEW b \in Browsers, Upsert(b)
      PROVE  Issued'
  <2>. DEFINE u == req[b].user
              s == [id |-> req[b].id, k |-> req[b].k, old |-> FALSE]
              c == [id |-> req[b].id, k |-> req[b].k]
  <2>1. /\ u \in Users /\ pc[b] = "upsert" /\ req[b].id <= minted
        /\ sess' = [sess EXCEPT ![u] = s] /\ cookie' = [cookie EXCEPT ![b] = c]
        /\ UNCHANGED minted
    BY <1>7 DEF Upsert, Signing, Numbered
  <2>2. s.id = req[b].id /\ s.k = req[b].k /\ c.id = req[b].id /\ c.k = req[b].k
    OBVIOUS
  <2>3. /\ sess'[u] = s /\ \A w \in Users \ {u} : sess'[w] = sess[w]
        /\ cookie'[b] = c /\ \A a \in Browsers \ {b} : cookie'[a] = cookie[a]
    BY <2>1 DEF TypeOK
  <2>4. /\ \A a \in Browsers \ {b} : pc'[a] = pc[a] /\ req'[a] = req[a]
        /\ pc'[b] = "idle"
    BY <1>7 DEF Upsert, Answer, Goto, TypeOK
  <2>. HIDE DEF s, c, u
  <2>5. \A a \in Browsers : pc'[a] = "upsert" => a # b /\ req[a].id # req[b].id
    BY <2>1, <2>4 DEF Issued
  <2>. QED BY <2>1, <2>2, <2>3, <2>4, <2>5 DEF Issued
<1>8. ASSUME NEW b \in Browsers, DropExpired(b)
      PROVE  Issued'
  <2>1. UNCHANGED minted
    BY <1>8 DEF DropExpired, Delete, Referenced, Answer, Goto, Nothing
  <2>2. \A a \in Browsers : pc'[a] = "upsert" => pc[a] = "upsert" /\ req'[a].id = req[a].id
    BY <1>8 DEF DropExpired, Delete, Referenced, Answer, Goto, Nothing, TypeOK
  <2>3. \A u \in Users : sess'[u] # None =>
            sess[u] # None /\ sess'[u].id = sess[u].id /\ sess'[u].k = sess[u].k
    BY <1>8 DEF DropExpired, Delete, Referenced, Answer, Goto, Nothing, TypeOK, Sessions
  <2>4. \A a \in Browsers : cookie'[a] # None => cookie'[a] = cookie[a]
    BY <1>8 DEF DropExpired, Delete, Referenced, Answer, Goto, Nothing, TypeOK
  <2>. QED BY <2>1, <2>2, <2>3, <2>4, IssuedKept
<1>9. ASSUME NEW b \in Browsers, Logout(b)
      PROVE  Issued'
  <2>1. UNCHANGED minted
    BY <1>9 DEF Logout, Delete, Referenced, Answer, Goto, Nothing
  <2>2. \A a \in Browsers : pc'[a] = "upsert" => pc[a] = "upsert" /\ req'[a].id = req[a].id
    BY <1>9 DEF Logout, Delete, Referenced, Answer, Goto, Nothing, TypeOK
  <2>3. \A u \in Users : sess'[u] # None =>
            sess[u] # None /\ sess'[u].id = sess[u].id /\ sess'[u].k = sess[u].k
    BY <1>9 DEF Logout, Delete, Referenced, Answer, Goto, Nothing, TypeOK, Sessions
  <2>4. \A a \in Browsers : cookie'[a] # None => cookie'[a] = cookie[a]
    BY <1>9 DEF Logout, Delete, Referenced, Answer, Goto, Nothing, TypeOK
  <2>. QED BY <2>1, <2>2, <2>3, <2>4, IssuedKept
<1>10. ASSUME NEW b \in Browsers, UseSession(b)
       PROVE  Issued'
  <2>1. UNCHANGED minted
    BY <1>10 DEF UseSession, Answer, Goto, Nothing
  <2>2. \A a \in Browsers : pc'[a] = "upsert" => pc[a] = "upsert" /\ req'[a].id = req[a].id
    BY <1>10 DEF UseSession, Answer, Goto, Nothing, TypeOK
  <2>3. \A u \in Users : sess'[u] # None =>
            sess[u] # None /\ sess'[u].id = sess[u].id /\ sess'[u].k = sess[u].k
    BY <1>10 DEF UseSession, Answer, Goto, Nothing, TypeOK, Sessions
  <2>4. \A a \in Browsers : cookie'[a] # None => cookie'[a] = cookie[a]
    BY <1>10 DEF UseSession, Answer, Goto, Nothing, TypeOK
  <2>. QED BY <2>1, <2>2, <2>3, <2>4, IssuedKept
<1>11. ASSUME NEW u \in Users, Expire(u)
       PROVE  Issued'
  <2>1. UNCHANGED minted
    BY <1>11 DEF Expire
  <2>2. \A a \in Browsers : pc'[a] = "upsert" => pc[a] = "upsert" /\ req'[a].id = req[a].id
    BY <1>11 DEF Expire, TypeOK
  <2>3. \A w \in Users : sess'[w] # None =>
            sess[w] # None /\ sess'[w].id = sess[w].id /\ sess'[w].k = sess[w].k
    <3>1. sess[u] \in Sessions /\ sess' = [sess EXCEPT ![u].old = TRUE]
      BY <1>11 DEF Expire, TypeOK
    <3>2. /\ sess'[u].id = sess[u].id /\ sess'[u].k = sess[u].k
          /\ \A w \in Users \ {u} : sess'[w] = sess[w]
      BY <3>1 DEF Sessions, TypeOK
    <3>. QED BY <1>11, <3>2 DEF Expire
  <2>4. \A a \in Browsers : cookie'[a] # None => cookie'[a] = cookie[a]
    BY <1>11 DEF Expire, TypeOK
  <2>. QED BY <2>1, <2>2, <2>3, <2>4, IssuedKept
<1>12. CASE RotateKey
  <2>1. UNCHANGED minted
    BY <1>12 DEF RotateKey
  <2>2. \A a \in Browsers : pc'[a] = "upsert" => pc[a] = "upsert" /\ req'[a].id = req[a].id
    BY <1>12 DEF RotateKey, TypeOK
  <2>3. \A u \in Users : sess'[u] # None =>
            sess[u] # None /\ sess'[u].id = sess[u].id /\ sess'[u].k = sess[u].k
    BY <1>12 DEF RotateKey, TypeOK, Sessions
  <2>4. \A a \in Browsers : cookie'[a] # None => cookie'[a] = cookie[a]
    BY <1>12 DEF RotateKey, TypeOK
  <2>. QED BY <2>1, <2>2, <2>3, <2>4, IssuedKept
<1>13. CASE Restart
  <2>1. UNCHANGED minted
    BY <1>13 DEF Restart, Nothing
  <2>2. \A a \in Browsers : pc'[a] = "upsert" => pc[a] = "upsert" /\ req'[a].id = req[a].id
    BY <1>13 DEF Restart, Nothing, TypeOK
  <2>3. \A u \in Users : sess'[u] # None =>
            sess[u] # None /\ sess'[u].id = sess[u].id /\ sess'[u].k = sess[u].k
    BY <1>13 DEF Restart, Nothing, TypeOK, Sessions
  <2>4. \A a \in Browsers : cookie'[a] # None => cookie'[a] = cookie[a]
    BY <1>13 DEF Restart, Nothing, TypeOK
  <2>. QED BY <2>1, <2>2, <2>3, <2>4, IssuedKept
<1>14. CASE UNCHANGED vars
  BY <1>14 DEF vars, Issued, config, jars
<1>. QED
  BY <1>1, <1>2, <1>3, <1>4, <1>5, <1>6, <1>7,
     <1>8, <1>9, <1>10, <1>11, <1>12, <1>13, <1>14
  DEF LoginStep

\* A cookie of the present key leads to a token of the present key.
THEOREM CookiesRead == SSpec => []SignedIsReadable
<1>1. TypeOK /\ Signing /\ Numbered /\ Issued /\ [SNext]_allVars => Issued'
  BY StepOfLogin, IssuedStep
<1>2. Issued => SignedIsReadable
  BY DEF Issued, SignedIsReadable, Holders
<1>. QED BY SignsIn, IssuedInit, <1>1, <1>2, PTL DEF SSpec

-----------------------------------------------------------------------------
(* The last login                                                          *)

\* Its row is there and has not expired.
Lasting == last # 0 => \E u \in Users : sess[u] # None /\ sess[u].id = last /\ ~sess[u].old

LEMMA LastingInit == SInit => Lasting
BY DEF SInit, Init, Lasting

LEMMA LastingStep ==
    ASSUME TypeOK, Signing, Numbered, Lasting, LoginStep \/ UNCHANGED vars
    PROVE  Lasting'
<1>. USE NoneIsNoRecord DEF config, jars
<1>1. ASSUME NEW b \in Browsers, Behind(b)
      PROVE  Lasting'
  BY <1>1 DEF Behind, Lasting
<1>2. ASSUME NEW b \in Browsers, GetPin(b)
      PROVE  Lasting'
  BY <1>2 DEF GetPin, Answer, Goto, Nothing, Lasting
<1>3. ASSUME NEW b \in Browsers, Exchange(b)
      PROVE  Lasting'
  BY <1>3 DEF Exchange, Goto, Lasting
<1>4. ASSUME NEW b \in Browsers, FindOwner(b)
      PROVE  Lasting'
  BY <1>4 DEF FindOwner, Mint, Answer, Goto, Nothing, Lasting
<1>5. ASSUME NEW b \in Browsers, Register(b)
      PROVE  Lasting'
  BY <1>5 DEF Register, Answer, Goto, Nothing, Lasting
<1>6. ASSUME NEW b \in Browsers, Registered(b)
      PROVE  Lasting'
  BY <1>6 DEF Registered, Mint, Goto, Lasting
<1>7. ASSUME NEW b \in Browsers, Upsert(b)
      PROVE  Lasting'
  <2>. DEFINE s == [id |-> req[b].id, k |-> req[b].k, old |-> FALSE]
  <2>1. req[b].user \in Users /\ s.id = req[b].id /\ ~s.old
    BY <1>7 DEF Upsert, Signing
  <2>2. s # None
    <3>1. s \in Sessions
      BY <1>7, LoginAssumption DEF Upsert, Numbered, Sessions, SessionIds, TypeOK, Carried
    <3>. QED BY <3>1
  <2>3. sess'[req[b].user] = s /\ last' = req[b].id
    BY <1>7, <2>1 DEF Upsert, TypeOK
  <2>. QED BY <2>1, <2>2, <2>3 DEF Lasting
<1>8. ASSUME NEW b \in Browsers, DropExpired(b)
      PROVE  Lasting'
  <2>1. CASE UNCHANGED <<sess, last>>
    BY <2>1 DEF Lasting
  <2>2. CASE Delete(req[b].id)
    BY <2>2 DEF Delete, Holders, Lasting
  <2>. QED BY <1>8, <2>1, <2>2 DEF DropExpired, Referenced
<1>9. ASSUME NEW b \in Browsers, Logout(b)
      PROVE  Lasting'
  <2>1. CASE UNCHANGED <<sess, last>>
    BY <2>1 DEF Lasting
  <2>2. CASE Delete(req[b].id)
    BY <2>2 DEF Delete, Holders, Lasting
  <2>. QED BY <1>9, <2>1, <2>2 DEF Logout, Referenced
<1>10. ASSUME NEW b \in Browsers, UseSession(b)
       PROVE  Lasting'
  BY <1>10 DEF UseSession, Answer, Goto, Nothing, Lasting
<1>11. ASSUME NEW u \in Users, Expire(u)
       PROVE  Lasting'
  <2>1. /\ \A w \in Users \ {u} : sess'[w] = sess[w]
        /\ last' = IF last = sess[u].id THEN 0 ELSE last
    BY <1>11 DEF Expire, TypeOK
  <2>. QED BY <2>1 DEF Lasting
<1>12. CASE RotateKey
  BY <1>12 DEF RotateKey, Lasting
<1>13. CASE Restart
  BY <1>13 DEF Restart, Nothing, Lasting
<1>14. CASE UNCHANGED vars
  BY <1>14 DEF vars, Lasting, config, jars
<1>. QED
  BY <1>1, <1>2, <1>3, <1>4, <1>5, <1>6, <1>7,
     <1>8, <1>9, <1>10, <1>11, <1>12, <1>13, <1>14
  DEF LoginStep

\* A login lasts until it expires or is logged out with its own cookie.
THEOREM LastLogin == SSpec => []LoginLasts
<1>1. TypeOK /\ Signing /\ Numbered /\ Lasting /\ [SNext]_allVars => Lasting'
  BY StepOfLogin, LastingStep
<1>2. Lasting => LoginLasts
  BY DEF Lasting, LoginLasts, Holders
<1>. QED BY SignsIn, LastingInit, <1>1, <1>2, PTL DEF SSpec

-----------------------------------------------------------------------------
(* The address and the token of the Plex server                            *)

\* Where a setup has found an address that answers as the server it names.
FoundAt == {"setup_host", "setup_flush", "setup_commit"}

Choices == [server : Servers \cup {None}, found : Servers \cup {None}, host : BOOLEAN,
            tok : BOOLEAN, same : BOOLEAN, late : BOOLEAN]

\* The address it leaves is the one it has found, unless it is late.
LeavesItsOwn(b) ==
    pc[b] \in {"setup_flush", "setup_commit"} /\ choice[b].same /\ ~choice[b].late
        => target.host = choice[b].found

Paired ==
    /\ PairMatches
    /\ target \in [host : Servers \cup {None}, tok : Servers \cup {None}]
    /\ choice \in [Browsers -> Choices]
    /\ \A b \in Browsers :
          /\ pc[b] \in FoundAt => choice[b].found = choice[b].server
          /\ LeavesItsOwn(b)

\* The requests of Login bring nobody there.
LEMMA LoginStaysOut ==
    ASSUME TypeOK, LoginNext
    PROVE  \A b \in Browsers : pc'[b] \in FoundAt => pc'[b] = pc[b]
<1>. USE DEF TypeOK, FoundAt, Goto, Answer
<1>1. ASSUME NEW b \in Browsers, LoginStarts(b) \/ FindId(b) \/ InsertId(b) \/ GetPin(b)
      PROVE  \A a \in Browsers : pc'[a] \in FoundAt => pc'[a] = pc[a]
  BY <1>1 DEF LoginStarts, FindId, InsertId, GetPin
<1>2. ASSUME NEW b \in Browsers,
             Exchange(b) \/ FindOwner(b) \/ Register(b) \/ Registered(b) \/ Upsert(b)
      PROVE  \A a \in Browsers : pc'[a] \in FoundAt => pc'[a] = pc[a]
  BY <1>2 DEF Exchange, FindOwner, Register, Registered, Upsert, Mint
<1>3. ASSUME NEW b \in Browsers, NEW l \in {<<"find_use", "use">>, <<"find_logout", "logout">>},
             Ask(b, l[1]) \/ Verify(b, l[1], l[2])
      PROVE  \A a \in Browsers : pc'[a] \in FoundAt => pc'[a] = pc[a]
  BY <1>3 DEF Ask, Verify
<1>4. ASSUME NEW b \in Browsers,
             UseSession(b) \/ Logout(b) \/ DropExpired(b) \/ CommitFails(b)
      PROVE  \A a \in Browsers : pc'[a] \in FoundAt => pc'[a] = pc[a]
  BY <1>4 DEF UseSession, Logout, DropExpired, CommitFails
<1>5. ASSUME (\E u \in Users : Expire(u)) \/ RotateKey \/ Restart
      PROVE  \A a \in Browsers : pc'[a] \in FoundAt => pc'[a] = pc[a]
  BY <1>5 DEF Expire, RotateKey, Restart
<1>. QED BY <1>1, <1>2, <1>3, <1>4, <1>5 DEF LoginNext

\* A setup goes on with another choice, or with the same.
LEMMA PairedOn ==
    ASSUME Paired, NEW b \in Browsers, NEW c \in Choices,
           choice' = [choice EXCEPT ![b] = c], UNCHANGED <<target, mixed>>,
           \A a \in Browsers \ {b} : pc'[a] = pc[a],
           pc'[b] \in FoundAt => c.found = c.server,
           pc'[b] \in {"setup_flush", "setup_commit"} /\ c.same /\ ~c.late
               => target.host = c.found
    PROVE  Paired'
BY DEF Paired, PairMatches, LeavesItsOwn

\* The address is written: of those that were to leave it nothing is said.
LEMMA PairedWritten ==
    ASSUME Paired, NEW b \in Browsers, choice' = Outdated(b),
           \A a \in Browsers \ {b} : pc'[a] = pc[a], pc'[b] = "idle"
    PROVE  /\ choice' \in [Browsers -> Choices]
           /\ \A a \in Browsers : /\ pc'[a] \in FoundAt => choice'[a].found = choice'[a].server
                                 /\ LeavesItsOwn(a)'
<1>1. NoChoice \in Choices
  BY DEF NoChoice, Choices
<1>2. ASSUME NEW a \in Browsers \ {b}
      PROVE  LET c == [choice[a] EXCEPT !.late = choice[a].same]
             IN  /\ c \in Choices /\ c.found = choice[a].found /\ c.server = choice[a].server
                 /\ c.same = choice[a].same /\ c.late = c.same
  BY DEF Paired, Choices
<1>3. choice' \in [Browsers -> Choices]
  BY <1>1, <1>2 DEF Outdated
<1>4. ASSUME NEW a \in Browsers \ {b}
      PROVE  /\ pc'[a] \in FoundAt => choice'[a].found = choice'[a].server
             /\ LeavesItsOwn(a)'
  BY <1>2 DEF Outdated, Paired, LeavesItsOwn
<1>5. pc'[b] \notin FoundAt /\ LeavesItsOwn(b)'
  BY DEF FoundAt, LeavesItsOwn
<1>. QED BY <1>3, <1>4, <1>5

\* The address is looked up.
LEMMA PairedHost ==
    ASSUME TypeOK, Paired, NEW b \in Browsers, SetupHost(b)
    PROVE  Paired'
<1>1. /\ UNCHANGED <<target, mixed>> /\ pc[b] = "setup_host" /\ pc'[b] = "setup_flush"
      /\ \A a \in Browsers \ {b} : pc'[a] = pc[a]
  BY DEF SetupHost, Goto, TypeOK
<1>2. PICK x \in BOOLEAN, same \in BOOLEAN :
          /\ choice' = [choice EXCEPT ![b].host = x, ![b].same = same]
          /\ same => target.host = choice[b].found
  <2>1. PICK same \in {FALSE, target.host = choice[b].found} :
            choice' = [choice EXCEPT ![b].host = target.host # None, ![b].same = same]
    BY DEF SetupHost
  <2>2. (target.host # None) \in BOOLEAN /\ same \in BOOLEAN
    OBVIOUS
  <2>3. same => target.host = choice[b].found
    OBVIOUS
  <2>. QED BY <2>1, <2>2, <2>3
<1>. DEFINE c == [choice[b] EXCEPT !.host = x, !.same = same]
<1>3. choice[b] \in Choices
  BY DEF Paired
<1>4. /\ c \in Choices /\ c.found = choice[b].found /\ c.server = choice[b].server
      /\ c.same = same
  BY <1>3 DEF Choices
<1>5. choice' = [choice EXCEPT ![b] = c]
  BY <1>2 DEF Paired
<1>6. c.found = c.server /\ (c.same => target.host = c.found)
  BY <1>1, <1>2, <1>4 DEF Paired, FoundAt
<1>. HIDE DEF c
<1>. QED BY <1>1, <1>4, <1>5, <1>6, PairedOn

\* The address is flushed, and the token looked up.
LEMMA PairedFlush ==
    ASSUME TypeOK, Paired, NEW b \in Browsers, SetupFlush(b)
    PROVE  Paired'
<1>1. /\ UNCHANGED <<target, mixed>> /\ pc[b] = "setup_flush"
      /\ \A a \in Browsers \ {b} : pc'[a] = pc[a]
  BY DEF SetupFlush, Refused, Answer, Goto, TypeOK
<1>2. CASE Refused(b)
  <2>1. /\ pc'[b] = "idle" /\ choice' = [choice EXCEPT ![b] = NoChoice]
        /\ NoChoice \in Choices
    BY <1>2 DEF Refused, Answer, Goto, TypeOK, NoChoice, Choices
  <2>. QED BY <1>1, <2>1, PairedOn DEF FoundAt
<1>3. CASE choice' = [choice EXCEPT ![b].tok = target.tok # None]
  <2>1. PICK x \in BOOLEAN : x = (target.tok # None)
    OBVIOUS
  <2>. DEFINE c == [choice[b] EXCEPT !.tok = x]
  <2>0. choice[b] \in Choices
    BY DEF Paired
  <2>2. /\ c \in Choices /\ c.found = choice[b].found /\ c.server = choice[b].server
        /\ c.same = choice[b].same /\ c.late = choice[b].late
    BY <2>0 DEF Choices
  <2>3. choice' = [choice EXCEPT ![b] = c]
    BY <1>3, <2>1
  <2>. HIDE DEF c
  <2>4. c.found = c.server /\ (c.same /\ ~c.late => target.host = c.found)
    BY <1>1, <2>2 DEF Paired, FoundAt, LeavesItsOwn
  <2>. QED BY <1>1, <2>2, <2>3, <2>4, PairedOn
<1>. QED BY <1>2, <1>3 DEF SetupFlush

LEMMA PairedStep ==
    ASSUME TypeOK, Paired, [SNext]_allVars
    PROVE  Paired'
<1>. USE DEF Paired, PairMatches, FoundAt
<1>1. CASE LoginNext /\ UNCHANGED setupVars
  BY <1>1, LoginStaysOut DEF setupVars, LeavesItsOwn
<1>. USE DEF TypeOK, Goto, Answer
<1>2. ASSUME NEW b \in Browsers, SetupStarts(b) \/ SetupId(b)
      PROVE  Paired'
  BY <1>2 DEF SetupStarts, SetupId, setupVars, Ask, Verify, LeavesItsOwn
<1>r. NoChoice \in Choices /\ NoChoice.same = FALSE
  BY DEF NoChoice, Choices
<1>3. ASSUME NEW b \in Browsers, SetupAsks(b)
      PROVE  Paired'
  <2>1. /\ UNCHANGED <<target, mixed>> /\ pc'[b] \in {"idle", "setup_try"}
        /\ \A a \in Browsers \ {b} : pc'[a] = pc[a]
    BY <1>3 DEF SetupAsks, Refused
  <2>2. PICK c \in Choices : choice' = [choice EXCEPT ![b] = c]
    <3>1. \A v \in Servers : [NoChoice EXCEPT !.server = v] \in Choices
      BY DEF NoChoice, Choices
    <3>. QED BY <1>3, <1>r, <3>1 DEF SetupAsks, Refused
  <2>. QED BY <2>1, <2>2, PairedOn
<1>4. ASSUME NEW b \in Browsers, NEW answers \in Answers, SetupTries(b, answers)
      PROVE  Paired'
  <2>1. /\ UNCHANGED <<target, mixed>> /\ pc'[b] \in {"idle", "setup_host"}
        /\ \A a \in Browsers \ {b} : pc'[a] = pc[a]
    BY <1>4 DEF SetupTries, Refused
  <2>2. CASE Refused(b)
    BY <1>r, <2>1, <2>2, PairedOn DEF Refused
  <2>3. CASE choice' = [choice EXCEPT ![b].found = choice[b].server]
    <3>. DEFINE c == [choice[b] EXCEPT !.found = choice[b].server]
    <3>1. c \in Choices /\ c.found = c.server
      BY DEF Choices
    <3>2. choice' = [choice EXCEPT ![b] = c]
      BY <2>3
    <3>. QED BY <2>1, <3>1, <3>2, PairedOn
  <2>4. Refused(b) \/ choice' = [choice EXCEPT ![b].found = choice[b].server]
    BY <1>4 DEF SetupTries
  <2>. QED BY <2>2, <2>3, <2>4
<1>5. ASSUME NEW b \in Browsers, SetupHost(b) \/ SetupFlush(b)
      PROVE  Paired'
  BY <1>5, PairedHost, PairedFlush
<1>6. ASSUME NEW b \in Browsers, SetupCommits(b)
      PROVE  Paired'
  <2>1. /\ pc[b] = "setup_commit" /\ pc'[b] = "idle"
        /\ \A a \in Browsers \ {b} : pc'[a] = pc[a]
        /\ choice[b] \in Choices /\ choice[b].found = choice[b].server /\ LeavesItsOwn(b)
    BY <1>6 DEF SetupCommits
  <2>2. CASE choice' = [choice EXCEPT ![b] = NoChoice] /\ UNCHANGED <<target, mixed>>
    BY <1>r, <2>1, <2>2, PairedOn
  <2>3. CASE /\ target' = [host |-> IF choice[b].same THEN target.host ELSE choice[b].found,
                           tok |-> choice[b].server]
             /\ choice' = IF choice[b].same THEN [choice EXCEPT ![b] = NoChoice] ELSE Outdated(b)
             /\ mixed' = (choice[b].same /\ choice[b].late)
    <3>1. PairMatches'
      BY <2>1, <2>3 DEF LeavesItsOwn
    <3>2. target' \in [host : Servers \cup {None}, tok : Servers \cup {None}]
      BY <2>1, <2>3 DEF Choices
    <3>3. CASE ~choice[b].same
      BY <2>1, <2>3, <3>1, <3>2, <3>3, PairedWritten
    <3>4. CASE choice[b].same
      <4>1. /\ choice' = [choice EXCEPT ![b] = NoChoice] /\ target'.host = target.host
            /\ choice' \in [Browsers -> Choices]
        BY <1>r, <2>3, <3>4
      <4>2. ASSUME NEW a \in Browsers \ {b}
            PROVE  /\ pc'[a] \in FoundAt => choice'[a].found = choice'[a].server
                   /\ LeavesItsOwn(a)'
        BY <2>1, <4>1 DEF LeavesItsOwn
      <4>3. pc'[b] \notin FoundAt /\ LeavesItsOwn(b)'
        BY <2>1 DEF LeavesItsOwn
      <4>. QED BY <3>1, <3>2, <4>1, <4>2, <4>3
    <3>. QED BY <3>3, <3>4
  <2>. QED BY <1>6, <2>2, <2>3 DEF SetupCommits
<1>7. ASSUME NEW b \in Browsers, PutsPlex(b)
      PROVE  Paired'
  <2>1. /\ pc'[b] = "idle" /\ mixed' = TRUE
        /\ \A a \in Browsers \ {b} : pc'[a] = pc[a]
    BY <1>7 DEF PutsPlex
  <2>2. PICK v \in Servers :
            \/ /\ \E t \in Servers \cup {target.tok} : target' = [host |-> v, tok |-> t]
               /\ choice' = Outdated(b)
            \/ target' = [target EXCEPT !.tok = v] /\ UNCHANGED choice
    BY <1>7 DEF PutsPlex
  <2>3. CASE choice' = Outdated(b) /\ \E t \in Servers \cup {target.tok} :
                 target' = [host |-> v, tok |-> t]
    BY <2>1, <2>3, PairedWritten
  <2>4. CASE target' = [target EXCEPT !.tok = v] /\ UNCHANGED choice
    <3>1. target' \in [host : Servers \cup {None}, tok : Servers \cup {None}]
      BY <2>4
    <3>2. target'.host = target.host
      BY <2>4
    <3>. QED BY <2>1, <2>4, <3>1, <3>2 DEF LeavesItsOwn
  <2>. QED BY <2>2, <2>3, <2>4
<1>8. CASE UNCHANGED allVars
  BY <1>8 DEF allVars, vars, setupVars, LeavesItsOwn
<1>. QED BY <1>1, <1>2, <1>3, <1>4, <1>5, <1>6, <1>7, <1>8 DEF SNext, SetupStep

\* The stored token is for the server that answers at the stored address,
\* whichever setups overlap, but after PUT /settings has written one of them by
\* hand, or a setup has left the address it found although it was written in
\* between (router.py 553-611).
THEOREM PairsMatch == SSpec => []PairMatches
<1>1. SInit => Paired
  BY DEF SInit, Init, Paired, PairMatches, FoundAt, Choices, NoChoice, LeavesItsOwn
<1>2. TypeOK /\ Paired /\ [SNext]_allVars => Paired'
  BY PairedStep
<1>3. Paired => PairMatches
  BY DEF Paired
<1>. QED BY SignsIn, <1>1, <1>2, <1>3, PTL DEF SSpec
=============================================================================
