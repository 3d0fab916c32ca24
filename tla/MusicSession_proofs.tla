------------------------ MODULE MusicSession_proofs ------------------------
(***************************************************************************)
(* Proofs about MusicSession, for any number of requests, times to live    *)
(* and changes: type correctness, that one thread at a time uses the SDK,  *)
(* and that neither the credentials of a call nor a cached feed are older  *)
(* than they may be.                                                       *)
(***************************************************************************)
EXTENDS MusicSession, FiniteSetTheorems, TLAPS

-----------------------------------------------------------------------------
(* Types, locks, and what a request carries                                *)

\* The places where a request has a tag, and where it has a client.
Tagged(r) == pc[r] \in {"tag_keep", "look", "client_lock", "client_read", "client_keep",
                        "queue", "run", "write"}
Equipped(r) == pc[r] \in {"client_keep", "queue", "run", "write"}

\* The auth lock is held by the request that loads, the SDK's lock for the call
\* whose thread is running or whose coroutine has not resumed yet.
LockInv ==
    /\ \A r \in Requests :
           /\ authLock = r <=> pc[r] \in {"tag_read", "tag_keep", "client_read", "client_keep"}
           /\ pc[r] = "run" => sdkLock = r
           /\ r \in threads => sdkLock = r
           /\ Tagged(r) => tag[r] # None
           /\ ~Tagged(r) => tag[r] = None
           /\ Equipped(r) => sess[r] # None
           /\ ~Equipped(r) => sess[r] = None
    /\ kept.ver = None => kept.until = 0

\* New credentials have a name, that of an earlier version or their own.
LEMMA NamesKept ==
    ASSUME TypeOK, SaveAuth
    PROVE  payload' \in Names
<1>. USE MusicSessionAssumption DEF Versions
<1>1. payload \in Names /\ auth \in Nat /\ auth < MaxChanges
  BY DEF TypeOK, SaveAuth
<1>2. PICK p \in 0..(auth + 1) : payload' = [payload EXCEPT ![auth + 1] = p]
  BY DEF SaveAuth
<1>3. payload \in [Versions -> Versions] /\ \A v \in Versions : payload[v] <= v
  BY <1>1 DEF Names
<1>4. p \in Versions /\ auth + 1 \in Versions
  BY <1>1, <1>2
<1>5. payload' \in [Versions -> Versions]
  BY <1>2, <1>3, <1>4
<1>6. ASSUME NEW v \in Versions
      PROVE  payload'[v] <= v
  <2>1. CASE v = auth + 1
    BY <1>2, <1>3, <2>1
  <2>2. CASE v # auth + 1
    BY <1>2, <1>3, <2>2
  <2>. QED BY <2>1, <2>2
<1>. QED BY <1>5, <1>6 DEF Names

\* The state stays well typed, the locks with their holders.
LEMMA TypeAndLocks == Spec => [](TypeOK /\ LockInv)
<1>. USE MusicSessionAssumption DEF Versions, Places
<1>1. Init => TypeOK /\ LockInv
  <2>1. Init => fellBack \in BOOLEAN
    BY Zenon DEF Init
  <2>2. Init => payload \in Names
    BY DEF Init, Names
  <2>. QED BY <2>1, <2>2 DEF Init, TypeOK, LockInv, Tagged, Equipped
<1>2. TypeOK /\ LockInv /\ [Next]_vars => TypeOK' /\ LockInv'
  <2>. SUFFICES ASSUME TypeOK, LockInv, [Next]_vars
                PROVE  TypeOK' /\ LockInv'
    OBVIOUS
  <2>. USE DEF TypeOK, LockInv, Tagged, Equipped, setting, local, Goto, Leave
  <2>1. ASSUME NEW r \in Requests, NEW c \in Calls,
               AuthLock(r, c) \/ ReadAuth(r, c) \/ KeepAuth(r, c)
        PROVE  TypeOK' /\ LockInv'
    <3>1. CASE c = "tag"
      <4>. USE DEF Wait, Read, Keep, After, Got, Loaded, Carried
      <4>1. CASE AuthLock(r, c)
        <5>1. CASE kept.until > asked[r]
          <6>1. kept.ver \in Versions
            BY <5>1
          <6>2. TypeOK'
            BY <3>1, <4>1, <5>1, <6>1, ZenonT(60) DEF AuthLock
          <6>3. /\ pc' = [pc EXCEPT ![r] = After[c]]
                /\ tag' = [tag EXCEPT ![r] = IF c = "tag" THEN kept.ver ELSE @]
                /\ sess' = [sess EXCEPT ![r] = IF c = "client" THEN kept.ver ELSE @]
                /\ UNCHANGED <<authLock, sdkLock, threads, kept>>
                /\ pc[r] = Wait[c] /\ kept.ver # None
            BY <3>1, <4>1, <5>1, <6>1 DEF AuthLock
          <6>4. LockInv'
            BY <3>1, <6>3
          <6>. QED BY <6>2, <6>4
        <5>2. CASE ~(kept.until > asked[r])
          <6>1. TypeOK'
            BY <3>1, <4>1, <5>2, ZenonT(60) DEF AuthLock
          <6>2. LockInv'
            BY <3>1, <4>1, <5>2 DEF AuthLock
          <6>. QED BY <6>1, <6>2
        <5>. QED BY <5>1, <5>2
      <4>2. CASE ReadAuth(r, c)
        <5>1. fellBack' \in BOOLEAN
          BY <4>2, Zenon DEF ReadAuth
        <5>2. troubles' \in 0..MaxTroubles
          BY <4>2 DEF ReadAuth
        <5>3. /\ pc' \in [Requests -> Places]
              /\ tag' \in [Requests -> Versions \cup {None}]
              /\ sess' \in [Requests -> Versions \cup {None}]
          <6>1. PICK v \in Versions : Loaded(r, c, v)
            BY <4>2 DEF ReadAuth
          <6>2. pc' \in [Requests -> Places]
            BY <3>1, <6>1
          <6>3. tag' \in [Requests -> Versions \cup {None}]
            BY <3>1, <6>1
          <6>4. sess' \in [Requests -> Versions \cup {None}]
            BY <3>1, <6>1
          <6>. QED BY <6>2, <6>3, <6>4
        <5>4. TypeOK'
          BY <4>2, <5>1, <5>2, <5>3 DEF ReadAuth
        <5>5. LockInv'
          BY <3>1, <4>2 DEF ReadAuth
        <5>. QED BY <5>4, <5>5
      <4>3. CASE KeepAuth(r, c)
        BY <3>1, <4>3 DEF KeepAuth
      <4>. QED BY <2>1, <4>1, <4>2, <4>3
    <3>2. CASE c = "client"
      <4>. USE DEF Wait, Read, Keep, After, Got, Loaded, Carried
      <4>1. CASE AuthLock(r, c)
        <5>1. CASE kept.until > asked[r]
          <6>1. kept.ver \in Versions
            BY <5>1
          <6>2. TypeOK'
            BY <3>2, <4>1, <5>1, <6>1, ZenonT(60) DEF AuthLock
          <6>3. /\ pc' = [pc EXCEPT ![r] = After[c]]
                /\ tag' = [tag EXCEPT ![r] = IF c = "tag" THEN kept.ver ELSE @]
                /\ sess' = [sess EXCEPT ![r] = IF c = "client" THEN kept.ver ELSE @]
                /\ UNCHANGED <<authLock, sdkLock, threads, kept>>
                /\ pc[r] = Wait[c] /\ kept.ver # None
            BY <3>2, <4>1, <5>1, <6>1 DEF AuthLock
          <6>4. LockInv'
            BY <3>2, <6>3
          <6>. QED BY <6>2, <6>4
        <5>2. CASE ~(kept.until > asked[r])
          <6>1. TypeOK'
            BY <3>2, <4>1, <5>2, ZenonT(60) DEF AuthLock
          <6>2. /\ UNCHANGED <<asked, tag, sess, kept, sdkLock, threads>>
                /\ pc[r] = "client_lock" /\ authLock = None
                /\ authLock' = r /\ pc' = [pc EXCEPT ![r] = "client_read"]
            BY <3>2, <4>1, <5>2 DEF AuthLock
          <6>3. LockInv'
            BY <6>2
          <6>. QED BY <6>1, <6>3
        <5>. QED BY <5>1, <5>2
      <4>2. CASE ReadAuth(r, c)
        <5>1. fellBack' \in BOOLEAN
          BY <4>2, Zenon DEF ReadAuth
        <5>2. troubles' \in 0..MaxTroubles
          BY <4>2 DEF ReadAuth
        <5>3. /\ pc' \in [Requests -> Places]
              /\ tag' \in [Requests -> Versions \cup {None}]
              /\ sess' \in [Requests -> Versions \cup {None}]
          <6>1. PICK v \in Versions : Loaded(r, c, v)
            BY <4>2 DEF ReadAuth
          <6>2. pc' \in [Requests -> Places]
            BY <3>2, <6>1
          <6>3. tag' \in [Requests -> Versions \cup {None}]
            BY <3>2, <6>1
          <6>4. sess' \in [Requests -> Versions \cup {None}]
            BY <3>2, <6>1
          <6>. QED BY <6>2, <6>3, <6>4
        <5>4. TypeOK'
          BY <4>2, <5>1, <5>2, <5>3 DEF ReadAuth
        <5>5. LockInv'
          BY <3>2, <4>2 DEF ReadAuth
        <5>. QED BY <5>4, <5>5
      <4>3. CASE KeepAuth(r, c)
        BY <3>2, <4>3, SMTT(30) DEF KeepAuth
      <4>. QED BY <2>1, <4>1, <4>2, <4>3
    <3>. QED BY <3>1, <3>2 DEF Calls
  <2>2. ASSUME NEW r \in Requests, Begin(r) \/ Miss(r)
        PROVE  TypeOK' /\ LockInv'
    <3>1. CASE Begin(r)
      <4>1. TypeOK'
        BY <3>1, ZenonT(60) DEF Begin, Ask, Got, Wait, After
      <4>2. LockInv'
        BY <3>1 DEF Begin, Ask, Got, Wait, After
      <4>. QED BY <4>1, <4>2
    <3>2. CASE Miss(r)
      <4>1. TypeOK'
        BY <3>2, ZenonT(60) DEF Miss, Ask, Got, Wait, After
      <4>2. LockInv'
        BY <3>2 DEF Miss, Ask, Got, Wait, After
      <4>. QED BY <4>1, <4>2
    <3>. QED BY <2>2, <3>1, <3>2
  <2>3. ASSUME NEW r \in Requests, SdkLock(r)
        PROVE  TypeOK' /\ LockInv'
    BY <2>3 DEF SdkLock
  <2>4. ASSUME NEW r \in Requests, ThreadEnds(r)
        PROVE  TypeOK' /\ LockInv'
    BY <2>4 DEF ThreadEnds
  <2>5. ASSUME NEW r \in Requests, Finish(r)
        PROVE  TypeOK' /\ LockInv'
    <3>1. /\ pc' \in [Requests -> Places]
          /\ asked' \in [Requests -> 0..MaxTime]
          /\ tag' \in [Requests -> Versions \cup {None}]
          /\ sess' \in [Requests -> Versions \cup {None}]
      <4>1. CASE Goto(r, "write") /\ UNCHANGED <<asked, tag, sess>>
        BY <4>1
      <4>2. CASE Leave(r)
        BY <4>2
      <4>. QED BY <2>5, <4>1, <4>2 DEF Finish
    <3>2. TypeOK'
      BY <2>5, <3>1 DEF Finish
    <3>3. LockInv'
      BY <2>5 DEF Finish
    <3>. QED BY <3>2, <3>3
  <2>6. ASSUME NEW r \in Requests, Hit(r) \/ TimeOut(r)
        PROVE  TypeOK' /\ LockInv'
    <3>1. CASE Hit(r)
      BY <3>1 DEF Hit
    <3>2. CASE TimeOut(r)
      BY <3>2 DEF TimeOut
    <3>. QED BY <2>6, <3>1, <3>2
  <2>7. ASSUME NEW r \in Requests, Cancel(r)
        PROVE  TypeOK' /\ LockInv'
    BY <2>7 DEF Cancel
  <2>8. ASSUME NEW r \in Requests, Write(r)
        PROVE  TypeOK' /\ LockInv'
    <3>1. feeds' \in [Versions -> Versions \cup {None}]
      BY <2>8 DEF Write
    <3>a. /\ pc' \in [Requests -> Places]
          /\ asked' \in [Requests -> 0..MaxTime]
          /\ tag' \in [Requests -> Versions \cup {None}]
          /\ sess' \in [Requests -> Versions \cup {None}]
      BY <2>8 DEF Write
    <3>b. UNCHANGED <<now, auth, payload, memory, put, ended, kept, authLock, sdkLock,
                      threads, fellBack, troubles>>
      BY <2>8 DEF Write
    <3>2. TypeOK'
      BY <3>1, <3>a, <3>b, Zenon
    <3>3. LockInv'
      BY <2>8 DEF Write
    <3>. QED BY <3>2, <3>3
  <2>9. CASE SaveAuth \/ ReadBack \/ Invalidate \/ Tick
    <3>1. CASE SaveAuth
      <4>1. payload' \in Names
        BY <3>1, NamesKept
      <4>2. troubles' \in 0..MaxTroubles
        BY <3>1 DEF SaveAuth
      <4>3. /\ auth' \in Versions /\ put' = "saved"
            /\ ended' \in [Versions -> (0..MaxTime) \cup {None}]
        BY <3>1 DEF SaveAuth
      <4>4. UNCHANGED <<now, memory, kept, authLock, sdkLock, threads, feeds, local, fellBack>>
        BY <3>1 DEF SaveAuth
      <4>5. TypeOK'
        BY <4>1, <4>2, <4>3, <4>4
      <4>6. LockInv'
        BY <4>4
      <4>. QED BY <4>5, <4>6
    <3>2. CASE ReadBack
      BY <3>2 DEF ReadBack
    <3>3. CASE Invalidate
      BY <3>3 DEF Invalidate
    <3>4. CASE Tick
      BY <3>4 DEF Tick
    <3>. QED BY <2>9, <3>1, <3>2, <3>3, <3>4
  <2>10. CASE UNCHANGED vars
    BY <2>10 DEF vars
  <2>. QED
    BY <2>1, <2>2, <2>3, <2>4, <2>5, <2>6, <2>7, <2>8, <2>9, <2>10 DEF Next
<1>. QED BY <1>1, <1>2, PTL DEF Spec

\* Every reachable state is well typed.
THEOREM SessionTypes == Spec => []TypeOK
BY TypeAndLocks, PTL

\* The SDK is never used by two threads, although a call that times out or is
\* cancelled leaves its thread behind (ytmusic.py 76-125): a running thread
\* keeps the lock.
THEOREM OneThreadOnly == Spec => []OneThread
<1>1. TypeOK /\ LockInv => OneThread
  <2>. SUFFICES ASSUME TypeOK, LockInv
                PROVE  OneThread
    OBVIOUS
  <2>1. threads \subseteq {sdkLock}
    BY DEF TypeOK, LockInv
  <2>2. IsFiniteSet({sdkLock}) /\ Cardinality({sdkLock}) = 1
    BY FS_Singleton
  <2>. QED BY <2>1, <2>2, FS_Subset DEF OneThread
<1>. QED BY <1>1, TypeAndLocks, PTL

-----------------------------------------------------------------------------
(* How old credentials and feeds may be                                    *)

Loading(r) == pc[r] \in {"tag_read", "client_read", "tag_keep", "client_keep"}
Keeping(r) == pc[r] \in {"tag_keep", "client_keep"}
Yield(r)   == IF pc[r] = "tag_keep" THEN tag[r] ELSE sess[r]

\* The clock: nothing is asked, kept or superseded in the future.
Clocked ==
    /\ \A r \in Requests : asked[r] <= now
    /\ kept.until <= now + TTL
    /\ \A v \in Versions : /\ ended[v] = None <=> v >= auth
                           /\ ended[v] # None => ended[v] <= now

\* What was stored at t, or later
StoredAt(v, t) == ended[v] = None \/ ended[v] >= t

\* What a load yields was stored after the call began, and what is kept was
\* stored TTL before it runs out.
Fresh ==
    /\ \A r \in Requests : Keeping(r) => StoredAt(Yield(r), asked[r])
    /\ kept.ver # None => ended[kept.ver] = None \/ ended[kept.ver] + TTL >= kept.until

\* While a load is under way nothing is kept that a call could take.
Expired == \A r \in Requests : Loading(r) => kept.until <= asked[r]

\* Versions follow one another: nobody holds a tag of a later session than
\* what is kept, than what a load yields, and than its own client.
Ordered ==
    /\ \A r \in Requests : Tagged(r) => tag[r] <= auth
    /\ \A q \in Requests : Keeping(q) =>
           /\ Yield(q) <= auth
           /\ \A r \in Requests : Tagged(r) => tag[r] <= Yield(q)
    /\ kept.ver # None =>
           /\ kept.ver <= auth
           /\ \A r \in Requests : Tagged(r) /\ pc[r] # "tag_keep" => tag[r] <= kept.ver
    /\ \A r \in Requests : Equipped(r) => tag[r] <= sess[r]
    /\ \A v \in Versions : feeds[v] # None => feeds[v] >= v

AgeInv == Clocked /\ Expired /\ (~fellBack => AuthFresh /\ Fresh /\ Ordered)

LEMMA AgeInit == Init => AgeInv
<1>. SUFFICES ASSUME Init
              PROVE  AgeInv
  OBVIOUS
<1>. USE MusicSessionAssumption DEF Init, Versions
<1>1. Clocked /\ Expired
  BY DEF Clocked, Expired, Loading
<1>2. AuthFresh /\ Fresh /\ Ordered
  BY DEF AuthFresh, Fresh, Ordered, Keeping, Tagged, Equipped
<1>. QED BY <1>1, <1>2 DEF AgeInv

\* Where a request is given up, goes on to its call or comes back from it.
Proceeds(r) ==
    \/ pc'[r] = pc[r] /\ asked'[r] = asked[r] /\ tag'[r] = tag[r] /\ sess'[r] = sess[r]
    \/ pc'[r] = "idle" /\ asked'[r] = 0
    \/ /\ pc[r] \in {"queue", "run"} /\ pc'[r] \in {"run", "write"}
       /\ asked'[r] \in {0, asked[r]} /\ tag'[r] = tag[r] /\ sess'[r] = sess[r]

LEMMA AgeProceeds ==
    ASSUME TypeOK, AgeInv, UNCHANGED <<now, auth, ended, kept, fellBack>>,
           \A r \in Requests : Proceeds(r),
           ~fellBack => \A v \in Versions : feeds'[v] # None => feeds'[v] >= v
    PROVE  AgeInv'
<1>. USE MusicSessionAssumption DEF Proceeds
<1>1. Clocked' /\ Expired'
  BY DEF TypeOK, AgeInv, Clocked, Expired, Loading
<1>2. ASSUME ~fellBack
      PROVE  AuthFresh' /\ Fresh' /\ Ordered'
  <2>1. AuthFresh'
    BY <1>2 DEF AgeInv, AuthFresh
  <2>2. Fresh'
    BY <1>2 DEF AgeInv, Fresh, Keeping, Yield, StoredAt
  <2>3. Ordered'
    BY <1>2 DEF AgeInv, Ordered, Keeping, Tagged, Equipped, Yield
  <2>. QED BY <2>1, <2>2, <2>3
<1>. QED BY <1>1, <1>2 DEF AgeInv

\* Where a request waits for the auth lock, or has it and reads.
LEMMA AgeWaits ==
    ASSUME TypeOK, AgeInv, UNCHANGED <<now, auth, ended, kept, feeds, tag, sess, fellBack>>,
           NEW r \in Requests, NEW t \in Nat, t <= now, asked' = [asked EXCEPT ![r] = t],
           NEW l, pc' = [pc EXCEPT ![r] = l],
           \/ pc[r] \in {"idle", "tag_lock"} /\ l \in {"tag_lock", "tag_read"}
           \/ pc[r] \in {"look", "client_lock"} /\ l \in {"client_lock", "client_read"},
           kept.until <= t
    PROVE  AgeInv'
<1>1. Clocked' /\ Expired'
  BY DEF TypeOK, AgeInv, Clocked, Expired, Loading
<1>2. ASSUME ~fellBack
      PROVE  AuthFresh' /\ Fresh' /\ Ordered'
  <2>1. AuthFresh'
    BY <1>2 DEF TypeOK, AgeInv, AuthFresh
  <2>2. Fresh'
    BY <1>2 DEF TypeOK, AgeInv, Fresh, Keeping, Yield, StoredAt
  <2>3. Ordered'
    BY <1>2 DEF TypeOK, AgeInv, Ordered, Keeping, Tagged, Equipped, Yield
  <2>. QED BY <2>1, <2>2, <2>3
<1>. QED BY <1>1, <1>2 DEF AgeInv

\* Where a request takes what is kept: nobody loads then.
LEMMA AgeGot ==
    ASSUME TypeOK, LockInv, AgeInv, UNCHANGED <<now, auth, ended, kept, feeds, fellBack>>,
           NEW r \in Requests, NEW t \in Nat, t <= now, asked' = [asked EXCEPT ![r] = t],
           NEW c \in Calls, Got(r, c, kept.ver), kept.until > t,
           pc[r] \in IF c = "tag" THEN {"idle", "tag_lock"} ELSE {"look", "client_lock"},
           \A q \in Requests : ~Loading(q)
    PROVE  AgeInv'
<1>. USE MusicSessionAssumption DEF Got, Goto, After, Calls
<1>1. kept.ver \in Versions /\ kept.ver # None
  BY DEF TypeOK, LockInv
<1>2. Clocked' /\ Expired'
  <2>1. Clocked'
    BY DEF TypeOK, AgeInv, Clocked
  <2>2. Expired'
    BY DEF TypeOK, AgeInv, Expired, Loading
  <2>. QED BY <2>1, <2>2
<1>3. ASSUME ~fellBack
      PROVE  AuthFresh' /\ Fresh' /\ Ordered'
  <2>1. ended[kept.ver] = None \/ ended[kept.ver] + TTL > t
    BY <1>1, <1>3, SMTT(30) DEF TypeOK, AgeInv, Fresh, Versions
  <2>2. AuthFresh'
    BY <1>3, <2>1 DEF TypeOK, AgeInv, AuthFresh
  <2>3. \A q \in Requests : ~Keeping(q) /\ ~Keeping(q)'
    BY DEF TypeOK, Loading, Keeping
  <2>4. Fresh'
    BY <1>3, <2>3 DEF AgeInv, Fresh
  <2>5. kept.ver <= auth
    BY <1>1, <1>3 DEF AgeInv, Ordered
  <2>6. ASSUME c = "tag"
        PROVE  Ordered'
    BY <1>1, <1>3, <2>3, <2>5, <2>6
    DEF TypeOK, AgeInv, Ordered, Tagged, Equipped, Versions
  <2>7. ASSUME c = "client"
        PROVE  Ordered'
    BY <1>1, <1>3, <2>3, <2>5, <2>7
    DEF TypeOK, AgeInv, Ordered, Tagged, Equipped, Versions
  <2>8. Ordered'
    BY <2>6, <2>7 DEF Calls
  <2>. QED BY <2>2, <2>4, <2>8
<1>. QED BY <1>2, <1>3 DEF AgeInv

\* A load has read what is stored now, or its failure is noted.
LEMMA AgeReads ==
    ASSUME TypeOK, LockInv, AgeInv, NEW r \in Requests, NEW c \in Calls, ReadAuth(r, c)
    PROVE  AgeInv'
<1>. USE MusicSessionAssumption DEF ReadAuth, Loaded, Goto, Read, Keep, Calls, setting
<1>1. Clocked'
  BY DEF AgeInv, Clocked
<1>2. \A q \in Requests : Loading(q)' => Loading(q)
  BY DEF TypeOK, Loading
<1>3. Expired'
  BY <1>2 DEF AgeInv, Expired
<1>4. ASSUME ~fellBack'
      PROVE  AuthFresh' /\ Fresh' /\ Ordered'
  <2>1. ~fellBack /\ Loaded(r, c, auth)
    BY <1>4
  <2>2. ended[auth] = None /\ auth \in Versions
    BY DEF TypeOK, AgeInv, Clocked, Versions
  <2>3. AuthFresh'
    BY <2>1 DEF TypeOK, AgeInv, AuthFresh
  <2>4. \A q \in Requests \ {r} : ~Keeping(q) /\ ~Keeping(q)'
    BY DEF TypeOK, LockInv, Keeping
  <2>5. Keeping(r)' /\ Yield(r)' = auth
    BY <2>1 DEF TypeOK, Keeping, Yield
  <2>6. Fresh'
    BY <2>1, <2>2, <2>4, <2>5 DEF AgeInv, Fresh, StoredAt
  <2>7. ASSUME c = "tag"
        PROVE  Ordered'
    BY <2>1, <2>2, <2>4, <2>5, <2>7
    DEF TypeOK, AgeInv, Ordered, Tagged, Equipped, Versions
  <2>8. ASSUME c = "client"
        PROVE  Ordered'
    BY <2>1, <2>2, <2>4, <2>5, <2>8
    DEF TypeOK, AgeInv, Ordered, Tagged, Equipped, Versions
  <2>9. Ordered'
    BY <2>7, <2>8 DEF Calls
  <2>. QED BY <2>3, <2>6, <2>9
<1>. QED BY <1>1, <1>3, <1>4 DEF AgeInv

\* What a load has yielded is kept.
LEMMA AgeKeeps ==
    ASSUME TypeOK, LockInv, AgeInv, NEW r \in Requests, NEW c \in Calls, KeepAuth(r, c)
    PROVE  AgeInv'
<1>. USE MusicSessionAssumption DEF KeepAuth, Goto, Keep, After, Calls, setting
<1>1. /\ Keeping(r) /\ Carried(r, c) = Yield(r) /\ Yield(r) \in Versions
      /\ kept' = [ver |-> Yield(r), until |-> asked[r] + TTL]
  BY DEF TypeOK, LockInv, Keeping, Carried, Yield, Tagged, Equipped
<1>2. Clocked'
  BY <1>1 DEF TypeOK, AgeInv, Clocked
<1>3. \A q \in Requests : ~Loading(q)' /\ ~Keeping(q)'
  BY DEF TypeOK, LockInv, Loading, Keeping
<1>4. Expired'
  BY <1>3 DEF Expired
<1>5. ASSUME ~fellBack
      PROVE  AuthFresh' /\ Fresh' /\ Ordered'
  <2>1. StoredAt(Yield(r), asked[r])
    BY <1>1, <1>5 DEF AgeInv, Fresh
  <2>a. /\ UNCHANGED <<asked, tag, sess, ended, fellBack>>
        /\ \A q \in Requests \ {r} : pc'[q] = pc[q]
        /\ pc'[r] = After[c] /\ Carried(r, c) = Yield(r)
    BY <1>1 DEF TypeOK
  <2>b. ended[Yield(r)] # None => ended[Yield(r)] \in Nat /\ ended[Yield(r)] + TTL > asked[r]
    BY <1>1, <2>1 DEF TypeOK, StoredAt, Versions
  <2>2. AuthFresh'
    BY <1>1, <1>5, <2>a, <2>b DEF AgeInv, AuthFresh, Carried
  <2>3. Fresh'
    BY <1>1, <1>3, <1>5, <2>1 DEF TypeOK, AgeInv, Fresh, StoredAt, Versions
  <2>4. Ordered'
    BY <1>1, <1>3, <1>5 DEF TypeOK, LockInv, AgeInv, Ordered, Tagged, Equipped, Keeping
  <2>. QED BY <2>2, <2>3, <2>4
<1>. QED BY <1>2, <1>4, <1>5 DEF AgeInv

\* New credentials, their invalidation, and time.
LEMMA AgeElse ==
    ASSUME TypeOK, LockInv, AgeInv, SaveAuth \/ Invalidate \/ Tick
    PROVE  AgeInv'
<1>. USE MusicSessionAssumption DEF setting, local
<1>1. CASE SaveAuth
  <2>0. /\ auth' = auth + 1 /\ auth < MaxChanges
        /\ ended' = [ended EXCEPT ![auth] = now]
        /\ UNCHANGED <<now, kept, feeds, local, fellBack>>
    BY <1>1 DEF SaveAuth
  <2>. USE <2>0
  <2>1. Clocked'
    BY DEF TypeOK, AgeInv, Clocked, Versions
  <2>2. Expired'
    BY DEF AgeInv, Expired, Loading
  <2>3. ASSUME ~fellBack
        PROVE  AuthFresh' /\ Fresh' /\ Ordered'
    <3>1. AuthFresh'
      BY <2>3, SMTT(30) DEF TypeOK, AgeInv, AuthFresh, Clocked, Versions
    <3>2. Fresh'
      BY <2>3 DEF TypeOK, AgeInv, Fresh, Clocked, StoredAt, Keeping, Yield, Versions
    <3>3. Ordered'
      BY <2>3 DEF TypeOK, LockInv, AgeInv, Ordered, Tagged, Equipped, Keeping, Yield, Versions
    <3>. QED BY <3>1, <3>2, <3>3
  <2>. QED BY <2>1, <2>2, <2>3 DEF AgeInv
<1>2. CASE Invalidate
  <2>. USE <1>2 DEF Invalidate
  <2>1. Clocked' /\ Expired'
    BY DEF TypeOK, AgeInv, Clocked, Expired, Loading
  <2>2. ASSUME ~fellBack
        PROVE  AuthFresh' /\ Fresh' /\ Ordered'
    BY <2>2 DEF AgeInv, AuthFresh, Fresh, Ordered, StoredAt, Keeping, Yield, Tagged, Equipped
  <2>. QED BY <2>1, <2>2 DEF AgeInv
<1>3. CASE Tick
  <2>. USE <1>3 DEF Tick
  <2>1. Clocked' /\ Expired'
    BY DEF TypeOK, AgeInv, Clocked, Expired, Loading
  <2>2. ASSUME ~fellBack
        PROVE  AuthFresh' /\ Fresh' /\ Ordered'
    BY <2>2 DEF AgeInv, AuthFresh, Fresh, Ordered, StoredAt, Keeping, Yield, Tagged, Equipped
  <2>. QED BY <2>1, <2>2 DEF AgeInv
<1>. QED BY <1>1, <1>2, <1>3

LEMMA AgeStep ==
    ASSUME TypeOK, LockInv, AgeInv, [Next]_vars
    PROVE  AgeInv'
<1>. USE MusicSessionAssumption DEF setting, local, Leave, Goto
<1>1. ASSUME NEW r \in Requests, NEW c \in Calls, AuthLock(r, c)
      PROVE  AgeInv'
  <2>1. /\ UNCHANGED <<now, auth, ended, kept, feeds, fellBack, asked>>
        /\ pc[r] = Wait[c] /\ authLock = None
        /\ asked[r] \in Nat /\ asked[r] <= now /\ asked = [asked EXCEPT ![r] = asked[r]]
    BY <1>1 DEF AuthLock, TypeOK, AgeInv, Clocked
  <2>2. \A q \in Requests : ~Loading(q)
    BY <2>1 DEF LockInv, Loading
  <2>3. CASE Got(r, c, kept.ver) /\ kept.until > asked[r]
    BY <2>1, <2>2, <2>3, AgeGot DEF Wait, Calls
  <2>4. CASE /\ pc' = [pc EXCEPT ![r] = Read[c]] /\ UNCHANGED <<tag, sess>>
             /\ ~(kept.until > asked[r])
    <3>1. kept.until <= asked[r]
      BY <2>1, <2>4 DEF TypeOK
    <3>2. CASE c = "tag"
      BY <2>1, <2>4, <3>1, <3>2, AgeWaits DEF Wait, Read
    <3>3. CASE c = "client"
      BY <2>1, <2>4, <3>1, <3>3, AgeWaits DEF Wait, Read
    <3>. QED BY <3>2, <3>3 DEF Calls
  <2>. QED BY <1>1, <2>3, <2>4 DEF AuthLock
<1>2. ASSUME NEW r \in Requests, NEW c \in Calls, Ask(r, c),
             UNCHANGED <<now, auth, ended, kept, feeds, fellBack>>,
             pc[r] = IF c = "tag" THEN "idle" ELSE "look"
      PROVE  AgeInv'
  <2>1. now \in Nat /\ now <= now /\ asked' = [asked EXCEPT ![r] = now]
    BY <1>2 DEF Ask, TypeOK
  <2>2. CASE Got(r, c, kept.ver) /\ kept.until > now
    <3>1. \A q \in Requests : ~Loading(q)
      BY <2>2 DEF TypeOK, AgeInv, Clocked, Expired
    <3>. QED BY <1>2, <2>1, <2>2, <3>1, AgeGot DEF Calls
  <2>3. CASE /\ pc' = [pc EXCEPT ![r] = Wait[c]] /\ UNCHANGED <<tag, sess>>
             /\ ~(kept.until > now)
    <3>1. kept.until <= now
      BY <2>1, <2>3 DEF TypeOK
    <3>2. CASE c = "tag"
      BY <1>2, <2>1, <2>3, <3>1, <3>2, AgeWaits DEF Wait
    <3>3. CASE c = "client"
      BY <1>2, <2>1, <2>3, <3>1, <3>3, AgeWaits DEF Wait
    <3>. QED BY <3>2, <3>3 DEF Calls
  <2>. QED BY <1>2, <2>2, <2>3 DEF Ask
<1>3. ASSUME NEW r \in Requests, Begin(r) \/ Miss(r)
      PROVE  AgeInv'
  BY <1>2, <1>3 DEF Begin, Miss, Calls
<1>4. ASSUME NEW r \in Requests,
             Hit(r) \/ SdkLock(r) \/ ThreadEnds(r) \/ Finish(r) \/ TimeOut(r) \/ Cancel(r)
      PROVE  AgeInv'
  <2>1. /\ UNCHANGED <<now, auth, ended, kept, fellBack, feeds>>
        /\ \A q \in Requests : Proceeds(q)
    BY <1>4 DEF TypeOK, Hit, SdkLock, ThreadEnds, Finish, TimeOut, Cancel, Proceeds
  <2>2. ~fellBack => \A v \in Versions : feeds'[v] # None => feeds'[v] >= v
    BY <2>1 DEF AgeInv, Ordered
  <2>. QED BY <2>1, <2>2, AgeProceeds
<1>5. ASSUME NEW r \in Requests, Write(r)
      PROVE  AgeInv'
  <2>1. /\ UNCHANGED <<now, auth, ended, kept, fellBack>>
        /\ \A q \in Requests : Proceeds(q)
    BY <1>5 DEF TypeOK, Write, Proceeds
  <2>2. ASSUME ~fellBack
        PROVE  \A v \in Versions : feeds'[v] # None => feeds'[v] >= v
    <3>1. /\ tag[r] \in Versions /\ sess[r] \in Versions /\ tag[r] <= sess[r]
          /\ payload[tag[r]] \in Versions /\ payload[tag[r]] <= tag[r]
      <4>1. tag[r] \in Versions /\ sess[r] \in Versions /\ tag[r] <= sess[r]
        BY <1>5, <2>2 DEF TypeOK, LockInv, AgeInv, Ordered, Equipped, Tagged, Write
      <4>2. payload \in Names
        BY DEF TypeOK
      <4>. QED BY <4>1, <4>2 DEF Names
    <3>2. \A v \in Versions : feeds[v] # None => feeds[v] >= v
      BY <2>2 DEF AgeInv, Ordered
    <3>3. feeds' = feeds \/ feeds' = [feeds EXCEPT ![payload[tag[r]]] = sess[r]]
      BY <1>5 DEF Write
    <3>4. feeds \in [Versions -> Versions \cup {None}]
      BY DEF TypeOK
    <3>. QED BY <3>1, <3>2, <3>3, <3>4 DEF Versions
  <2>. QED BY <2>1, <2>2, AgeProceeds
<1>6. CASE ReadBack \/ UNCHANGED vars
  <2>1. /\ UNCHANGED <<now, auth, ended, kept, fellBack, feeds>>
        /\ \A q \in Requests : Proceeds(q)
    BY <1>6 DEF ReadBack, vars, Proceeds
  <2>2. ~fellBack => \A v \in Versions : feeds'[v] # None => feeds'[v] >= v
    BY <2>1 DEF AgeInv, Ordered
  <2>. QED BY <2>1, <2>2, AgeProceeds
<1>. QED
  BY <1>1, <1>3, <1>4, <1>5, <1>6, AgeReads, AgeKeeps, AgeElse DEF Next

LEMMA Ages == Spec => []AgeInv
<1>1. TypeOK /\ LockInv /\ AgeInv /\ [Next]_vars => AgeInv'
  BY AgeStep
<1>. QED BY AgeInit, TypeAndLocks, <1>1, PTL DEF Spec

\* Credentials that a call was given had been stored less than TTL before the
\* call (ytauth.py 89-124): the time to live of what a load yields counts from
\* before its wait and its read.
THEOREM CredentialsFresh == Spec => []AuthFresh
<1>1. AgeInv => AuthFresh
  BY DEF AgeInv, AuthFresh
<1>. QED BY <1>1, Ages, PTL

\* A cached feed is never older than the first session with the payload it is
\* cached for (ytmusic.py 41-74): the tag is taken before the client, and loads
\* follow one another under the lock.  That the feed is of a session with that
\* payload is not claimed: it may be of one that took its place.
THEOREM FeedsNotOlder == Spec => []FeedNotOlder
<1>1. AgeInv => FeedNotOlder
  BY DEF AgeInv, Ordered, FeedNotOlder
<1>. QED BY <1>1, Ages, PTL
=============================================================================
