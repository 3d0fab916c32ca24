------------------------ MODULE TaskRegistry_proofs -------------------------
(***************************************************************************)
(* Proofs about TaskRegistry and the handler of SyncTrigger it composes,   *)
(* for any number of requests, schedules, keys, worker processes,          *)
(* deletions and troubles: the four promises of the idempotency key, that  *)
(* a task at work is listed, and that a client that was told its task may  *)
(* poll it.                                                                *)
(*                                                                         *)
(* The first four rest on an invariant each: Rows, NoPhantomSync itself,   *)
(* Origins and Tracked; all of them on the types and on Placed, what a     *)
(* request carries where it stands.  Staged says which tasks there are,    *)
(* and that only those are registered or revoked; WorkIsListed is          *)
(* inductive with it, PollResolves follows from Mapped.                    *)
(***************************************************************************)
EXTENDS TaskRegistry, FiniteSetTheorems, TLAPS

\* What the handlers work on; the tasks only read it.
shared == <<rowVars, tasks, pc, call, prev, mine, answer, lastRun, upset>>

\* One step of the handlers, of one request or of a deletion.
HandlerStep ==
    \/ \E r \in Requests :
          \/ \E d \in Dests, k \in Keys : Look(r, d, k)
          \/ ReadSchedule(r) \/ StoreKey(r) \/ Insert(r) \/ LookAgain(r) \/ Enqueue(r)
          \/ EnqueueFails(r) \/ Discard(r) \/ Dies(r) \/ Tell(r)
    \/ \E ids : DeleteRows(ids)

\* Every step is one of these or leaves what the handlers work on alone.
LEMMA StepOfHandlers ==
    ASSUME [Next]_allVars
    PROVE  HandlerStep \/ UNCHANGED shared
<1>1. CASE \E r \in Requests : Trigger(r) \/ Registers(r)
  BY <1>1 DEF Trigger, Registers, Handle, HandlerStep
<1>2. ASSUME NEW t \in TaskIds,
             \/ Enter(t) \/ Register(t) \/ Spawn(t) \/ ListChild(t) \/ End(t)
             \/ Retry(t) \/ Terminate(t)
      PROVE  UNCHANGED shared
  BY <1>2 DEF Enter, Register, Spawn, ListChild, End, Retry, Terminate, shared, vars
<1>3. ASSUME \/ \E rows \in SUBSET RowIds : DeleteStarts(rows)
             \/ \E id \in RowIds : Revoke(id) \/ DropSet(id)
      PROVE  UNCHANGED shared
  BY <1>3 DEF DeleteStarts, Revoke, DropSet, shared, vars
<1>4. CASE DeleteEnds
  BY <1>4 DEF DeleteEnds, HandlerStep, shared
<1>5. CASE UNCHANGED allVars
  BY <1>5 DEF allVars, vars, shared
<1>. QED BY <1>1, <1>2, <1>3, <1>4, <1>5 DEF Next

-----------------------------------------------------------------------------
(* Types                                                                   *)

\* What a request carries where it stands.
Waiting == {"read", "store", "insert", "conflict"}
Passed  == {"enqueue", "register", "discard"}

Placed ==
    \A r \in Requests :
        /\ pc[r] # "new" => call[r].key \in Keys
        /\ pc[r] \in {"read", "store"} => call[r].dest \in Schedules
        /\ pc[r] \in {"insert", "conflict"} => call[r].dest = AdHoc
        /\ pc[r] \in Passed => (call[r].dest = AdHoc <=> mine[r] # None)
        /\ pc[r] \in Waiting \cup {"new"} => mine[r] = None
        /\ pc[r] \in {"new", "read", "insert", "conflict"} => prev[r] = None

LEMMA TypeInit == TInit => TypeOK /\ Placed
BY TriggerAssumption DEF TInit, Init, TypeOK, Dests, Placed, Waiting, Passed

\* A message names a request, what it asked for and its row.
LEMMA AcceptedTypes ==
    ASSUME TypeOK, Placed, NEW r \in Requests, pc[r] = "enqueue", Accepted(r)
    PROVE  /\ tasks' \subseteq [req : Requests, dest : Dests, key : Keys,
                                row : (1..lastId) \cup {None}]
           /\ lastRun' \in [Schedules -> Keys \cup {None}]
<1>1. /\ call[r].key \in Keys /\ call[r].dest \in Dests
      /\ mine[r] \in (1..lastId) \cup {None}
  BY DEF TypeOK, Placed
<1>2. [req |-> r, dest |-> call[r].dest, key |-> call[r].key, row |-> mine[r]]
          \in [req : Requests, dest : Dests, key : Keys, row : (1..lastId) \cup {None}]
  BY <1>1
<1>3. lastRun' \in [Schedules -> Keys \cup {None}]
  BY <1>1 DEF Accepted, TypeOK, Dests
<1>. QED BY <1>2, <1>3 DEF Accepted, TypeOK

LEMMA TypeStep ==
    ASSUME TypeOK, Placed, HandlerStep \/ UNCHANGED shared
    PROVE  TypeOK'
<1>. USE TriggerAssumption DEF TypeOK, Dests, rowVars, Goto, Answer
<1>1. ASSUME NEW r \in Requests, NEW d \in Dests, NEW k \in Keys, Look(r, d, k)
      PROVE  TypeOK'
  BY <1>1 DEF Look, RowOf
<1>2. ASSUME NEW r \in Requests, ReadSchedule(r)
      PROVE  TypeOK'
  <2>1. call[r].dest \in Schedules
    BY <1>2 DEF ReadSchedule, Placed
  <2>. QED BY <1>2, <2>1 DEF ReadSchedule
<1>3. ASSUME NEW r \in Requests, StoreKey(r)
      PROVE  TypeOK'
  <2>1. call[r].dest \in Schedules /\ call[r].key \in Keys
    BY <1>3 DEF StoreKey, Placed
  <2>. QED BY <1>3, <2>1 DEF StoreKey
<1>4. ASSUME NEW r \in Requests, Insert(r)
      PROVE  TypeOK'
  <2>1. call[r].key \in Keys
    BY <1>4 DEF Insert, Placed
  <2>2. adhoc' \subseteq [id : 1..lastId', key : Keys]
    <3>1. CASE /\ adhoc' = adhoc \cup {[id |-> lastId + 1, key |-> call[r].key]}
               /\ lastId' = lastId + 1
      BY <2>1, <3>1
    <3>2. CASE UNCHANGED <<adhoc, lastId>>
      BY <3>2
    <3>. QED BY <1>4, <3>1, <3>2 DEF Insert
  <2>3. tasks' \subseteq [req : Requests, dest : Dests, key : Keys, row : (1..lastId') \cup {None}]
    <3>1. tasks' = tasks /\ lastId' \in {lastId, lastId + 1}
      BY <1>4 DEF Insert
    <3>. QED BY <3>1
  <2>4. mine' \in [Requests -> (1..lastId') \cup {None}]
    BY <1>4 DEF Insert
  <2>. QED BY <1>4, <2>2, <2>3, <2>4 DEF Insert
<1>5. ASSUME NEW r \in Requests, LookAgain(r)
      PROVE  TypeOK'
  BY <1>5 DEF LookAgain, RowOf
<1>6. ASSUME NEW r \in Requests, Enqueue(r)
      PROVE  TypeOK'
  <2>1. pc[r] = "enqueue" /\ Accepted(r)
    BY <1>6 DEF Enqueue
  <2>. QED BY <1>6, <2>1, AcceptedTypes DEF Enqueue
<1>7. ASSUME NEW r \in Requests, EnqueueFails(r)
      PROVE  TypeOK'
  <2>1. CASE Accepted(r)
    BY <1>7, <2>1, AcceptedTypes DEF EnqueueFails
  <2>2. CASE UNCHANGED <<tasks, lastRun, upset>>
    BY <1>7, <2>2 DEF EnqueueFails
  <2>. QED BY <1>7, <2>1, <2>2 DEF EnqueueFails
<1>8. ASSUME NEW r \in Requests, Discard(r)
      PROVE  TypeOK'
  <2>1. call[r].dest # AdHoc => call[r].dest \in Schedules
    OBVIOUS
  <2>. QED BY <1>8, <2>1 DEF Discard
<1>9. ASSUME NEW r \in Requests, Dies(r)
      PROVE  TypeOK'
  BY <1>9 DEF Dies, InFlight
<1>10. ASSUME NEW r \in Requests, Tell(r)
       PROVE  TypeOK'
  BY <1>10 DEF Tell
<1>11. ASSUME NEW ids, DeleteRows(ids)
       PROVE  TypeOK'
  BY <1>11 DEF DeleteRows
<1>12. CASE UNCHANGED shared
  BY <1>12 DEF shared, rowVars, TypeOK
<1>. QED
  BY <1>1, <1>2, <1>3, <1>4, <1>5, <1>6, <1>7, <1>8, <1>9, <1>10, <1>11, <1>12
  DEF HandlerStep

LEMMA PlacedStep ==
    ASSUME TypeOK, Placed, HandlerStep \/ UNCHANGED shared
    PROVE  Placed'
<1>. USE TriggerAssumption DEF TypeOK, Placed, Waiting, Passed, Dests, rowVars, Goto, Answer
<1>1. ASSUME NEW r \in Requests, NEW d \in Dests, NEW k \in Keys, Look(r, d, k)
      PROVE  Placed'
  BY <1>1 DEF Look, RowOf
<1>2. ASSUME NEW r \in Requests, ReadSchedule(r)
      PROVE  Placed'
  BY <1>2 DEF ReadSchedule
<1>3. ASSUME NEW r \in Requests, StoreKey(r)
      PROVE  Placed'
  BY <1>3 DEF StoreKey
<1>4. ASSUME NEW r \in Requests, Insert(r)
      PROVE  Placed'
  BY <1>4 DEF Insert
<1>5. ASSUME NEW r \in Requests, LookAgain(r)
      PROVE  Placed'
  BY <1>5 DEF LookAgain, RowOf
<1>6. ASSUME NEW r \in Requests, Enqueue(r)
      PROVE  Placed'
  BY <1>6 DEF Enqueue, Accepted
<1>7. ASSUME NEW r \in Requests, EnqueueFails(r)
      PROVE  Placed'
  BY <1>7 DEF EnqueueFails, Accepted
<1>8. ASSUME NEW r \in Requests, Discard(r)
      PROVE  Placed'
  BY <1>8 DEF Discard
<1>9. ASSUME NEW r \in Requests, Dies(r)
      PROVE  Placed'
  BY <1>9 DEF Dies, InFlight
<1>10. ASSUME NEW r \in Requests, Tell(r)
       PROVE  Placed'
  BY <1>10 DEF Tell
<1>11. ASSUME NEW ids, DeleteRows(ids)
       PROVE  Placed'
  BY <1>11 DEF DeleteRows
<1>12. CASE UNCHANGED shared
  BY <1>12 DEF shared, rowVars, Placed
<1>. QED
  BY <1>1, <1>2, <1>3, <1>4, <1>5, <1>6, <1>7, <1>8, <1>9, <1>10, <1>11, <1>12
  DEF HandlerStep

-----------------------------------------------------------------------------
(* Rows and the messages about them                                        *)

\* A row belongs to one request and to one message.
Rows ==
    /\ \A a, b \in adhoc : a.id = b.id \/ a.key = b.key => a = b
    /\ \A r, q \in Requests :
          pc[r] \in Passed /\ pc[q] \in Passed /\ mine[r] # None /\ mine[r] = mine[q] => r = q
    /\ \A t \in tasks :
          /\ t.row = mine[t.req] /\ t.dest = call[t.req].dest
          /\ t.dest = AdHoc <=> t.row # None
          /\ pc[t.req] \in {"register", "discard", "done"}
    /\ \A t \in tasks, r \in Requests :
          t.row # None /\ pc[r] \in Passed /\ mine[r] = t.row => r = t.req
    /\ \A t, u \in tasks : t.row # None /\ t.row = u.row => t = u
    /\ \A r \in Requests : pc[r] = "register" => \E t \in tasks : t.req = r

LEMMA RowsInit == TInit => Rows
BY DEF TInit, Init, Rows, Passed

\* A request moves on and neither rows nor messages change.
LEMMA RowsKept ==
    ASSUME TypeOK, Rows, NEW r \in Requests, UNCHANGED <<adhoc, tasks>>,
           pc[r] \notin {"register", "discard", "done"},
           pc'[r] \in Passed => pc'[r] = "enqueue" /\ mine'[r] = None,
           pc'[r] # "register",
           \A q \in Requests \ {r} : pc'[q] = pc[q] /\ mine'[q] = mine[q] /\ call'[q] = call[q]
    PROVE  Rows'
<1>1. \A t \in tasks : t.req # r
  BY DEF Rows
<1>2. \A t \in tasks : t.req \in Requests
  BY DEF TypeOK
<1>. QED BY <1>1, <1>2 DEF Rows, Passed

LEMMA RowsStep ==
    ASSUME TypeOK, Placed, Rows, HandlerStep \/ UNCHANGED shared
    PROVE  Rows'
<1>. USE TriggerAssumption
<1>1. ASSUME NEW r \in Requests, NEW d \in Dests, NEW k \in Keys, Look(r, d, k)
      PROVE  Rows'
  <2>1. pc[r] = "new" /\ UNCHANGED <<adhoc, tasks>>
    BY <1>1 DEF Look, rowVars
  <2>2. pc'[r] \notin Passed
    BY <1>1 DEF Look, Goto, Answer, TypeOK, Passed
  <2>3. \A q \in Requests \ {r} : pc'[q] = pc[q] /\ mine'[q] = mine[q] /\ call'[q] = call[q]
    BY <1>1 DEF Look, Goto, Answer, TypeOK, Passed
  <2>. QED BY <2>1, <2>2, <2>3, RowsKept DEF Passed
<1>2. ASSUME NEW r \in Requests, ReadSchedule(r)
      PROVE  Rows'
  <2>1. pc[r] = "read" /\ UNCHANGED <<adhoc, tasks>>
    BY <1>2 DEF ReadSchedule, rowVars
  <2>2. pc'[r] \notin Passed
    BY <1>2 DEF ReadSchedule, Goto, Answer, TypeOK, Passed
  <2>3. \A q \in Requests \ {r} : pc'[q] = pc[q] /\ mine'[q] = mine[q] /\ call'[q] = call[q]
    BY <1>2 DEF ReadSchedule, Goto, Answer, TypeOK, Passed
  <2>. QED BY <2>1, <2>2, <2>3, RowsKept DEF Passed
<1>3. ASSUME NEW r \in Requests, StoreKey(r)
      PROVE  Rows'
  <2>1. pc[r] = "store" /\ UNCHANGED <<adhoc, tasks, mine>> /\ mine[r] = None
    BY <1>3 DEF StoreKey, Placed, Waiting
  <2>2. pc'[r] \in {"enqueue", "done"}
    BY <1>3 DEF StoreKey, Goto, Answer, TypeOK
  <2>3. \A q \in Requests \ {r} : pc'[q] = pc[q] /\ mine'[q] = mine[q] /\ call'[q] = call[q]
    BY <1>3 DEF StoreKey, Goto, Answer, TypeOK
  <2>. QED BY <2>1, <2>2, <2>3, RowsKept DEF Passed
<1>4. ASSUME NEW r \in Requests, Insert(r)
      PROVE  Rows'
  <2>1. pc[r] = "insert" /\ UNCHANGED <<tasks, call>>
    BY <1>4 DEF Insert
  <2>2. CASE UNCHANGED <<adhoc, lastId, mine>> /\ pc' = [pc EXCEPT ![r] = "conflict"]
    <3>1. pc'[r] = "conflict" /\ \A q \in Requests \ {r} : pc'[q] = pc[q]
      BY <2>2 DEF TypeOK
    <3>. QED BY <2>1, <2>2, <3>1, RowsKept DEF Passed
  <2>3. CASE /\ RowOf(call[r].key) = {} /\ pc' = [pc EXCEPT ![r] = "enqueue"]
             /\ adhoc' = adhoc \cup {[id |-> lastId + 1, key |-> call[r].key]}
             /\ mine' = [mine EXCEPT ![r] = lastId + 1]
    <3>1. \A a \in adhoc : a.id # lastId + 1 /\ a.key # call[r].key
      BY <2>3 DEF RowOf, TypeOK
    <3>2. /\ \A q \in Requests : mine[q] # lastId + 1
          /\ \A t \in tasks : t.row # lastId + 1 /\ t.req \in Requests /\ t.req # r
      <4>1. lastId \in Nat /\ lastId + 1 \notin (1..lastId) \cup {None}
        BY DEF TypeOK
      <4>2. \A q \in Requests : mine[q] \in (1..lastId) \cup {None}
        BY DEF TypeOK
      <4>3. \A t \in tasks : t.row \in (1..lastId) \cup {None} /\ t.req \in Requests
        BY DEF TypeOK
      <4>4. \A t \in tasks : t.req # r
        BY <2>1 DEF Rows
      <4>. QED BY <4>1, <4>2, <4>3, <4>4
    <3>3. /\ mine'[r] = lastId + 1 /\ pc'[r] = "enqueue"
          /\ \A q \in Requests \ {r} : mine'[q] = mine[q] /\ pc'[q] = pc[q]
      BY <2>3 DEF TypeOK
    <3>. QED BY <2>1, <2>3, <3>1, <3>2, <3>3 DEF Rows, Passed
  <2>. QED BY <1>4, <2>2, <2>3 DEF Insert, Goto
<1>5. ASSUME NEW r \in Requests, LookAgain(r)
      PROVE  Rows'
  <2>1. pc[r] = "conflict" /\ UNCHANGED <<adhoc, tasks>>
    BY <1>5 DEF LookAgain, rowVars
  <2>2. pc'[r] \notin Passed
    BY <1>5 DEF LookAgain, Goto, Answer, TypeOK, Passed
  <2>3. \A q \in Requests \ {r} : pc'[q] = pc[q] /\ mine'[q] = mine[q] /\ call'[q] = call[q]
    BY <1>5 DEF LookAgain, Goto, Answer, TypeOK, Passed
  <2>. QED BY <2>1, <2>2, <2>3, RowsKept DEF Passed
<1>6. ASSUME NEW r \in Requests, Enqueue(r)
      PROVE  Rows'
  <2>. DEFINE m == [req |-> r, dest |-> call[r].dest, key |-> call[r].key, row |-> mine[r]]
  <2>1. /\ pc[r] = "enqueue" /\ pc' = [pc EXCEPT ![r] = "register"]
        /\ UNCHANGED <<adhoc, mine, call>>
    BY <1>6 DEF Enqueue, Goto, rowVars
  <2>2. m.dest = AdHoc <=> m.row # None
    BY <2>1 DEF Placed, Passed
  <2>3. \A u \in tasks : u.req \in Requests /\ u.req # r
    BY <2>1 DEF Rows, TypeOK
  <2>4. m.row # None => \A u \in tasks : u.row # m.row
    BY <2>1, <2>3 DEF Rows, Passed
  <2>5. tasks' = tasks \cup {m}
    BY <1>6 DEF Enqueue, Accepted
  <2>6. /\ pc'[r] = "register"
        /\ \A q \in Requests \ {r} : pc'[q] = pc[q]
    BY <2>1 DEF TypeOK
  <2>7. \A q \in Requests : pc'[q] = "register" => \E t \in tasks' : t.req = q
    <3>1. m \in tasks' /\ m.req = r /\ tasks \subseteq tasks'
      BY <2>5
    <3>2. \A q \in Requests \ {r} : pc'[q] = "register" => \E t \in tasks : t.req = q
      BY <2>6 DEF Rows
    <3>. HIDE DEF m
    <3>. QED BY <3>1, <3>2
  <2>8. \A t \in tasks' :
           /\ t.row = mine[t.req] /\ t.dest = call[t.req].dest
           /\ t.dest = AdHoc <=> t.row # None
           /\ pc'[t.req] \in {"register", "discard", "done"}
    BY <2>2, <2>3, <2>5, <2>6 DEF Rows
  <2>9. \A q \in Requests : pc'[q] \in Passed => pc[q] \in Passed
    BY <2>1, <2>6 DEF Passed
  <2>10. \A t, u \in tasks' : t.row # None /\ t.row = u.row => t = u
    BY <2>4, <2>5 DEF Rows
  <2>11. \A t \in tasks', q \in Requests :
            t.row # None /\ pc'[q] \in Passed /\ mine[q] = t.row => q = t.req
    <3>. SUFFICES ASSUME NEW t \in tasks', NEW q \in Requests,
                         t.row # None, pc'[q] \in Passed, mine[q] = t.row
                  PROVE  q = t.req
      OBVIOUS
    <3>1. CASE t \in tasks
      BY <3>1, <2>9 DEF Rows
    <3>2. CASE t = m
      BY <3>2, <2>1, <2>9 DEF Rows, Passed
    <3>. QED BY <3>1, <3>2, <2>5
  <2>. QED BY <2>1, <2>7, <2>8, <2>9, <2>10, <2>11 DEF Rows
<1>7. ASSUME NEW r \in Requests, EnqueueFails(r)
      PROVE  Rows'
  <2>. DEFINE m == [req |-> r, dest |-> call[r].dest, key |-> call[r].key, row |-> mine[r]]
  <2>1. /\ pc[r] = "enqueue" /\ pc' = [pc EXCEPT ![r] = "discard"]
        /\ UNCHANGED <<adhoc, mine, call>>
    BY <1>7 DEF EnqueueFails, Goto, rowVars
  <2>2. m.dest = AdHoc <=> m.row # None
    BY <2>1 DEF Placed, Passed
  <2>3. \A u \in tasks : u.req \in Requests /\ u.req # r
    BY <2>1 DEF Rows, TypeOK
  <2>4. m.row # None => \A u \in tasks : u.row # m.row
    BY <2>1, <2>3 DEF Rows, Passed
  <2>5. CASE UNCHANGED tasks
    BY <2>1, <2>5 DEF Rows, Passed, TypeOK
  <2>6. CASE tasks' = tasks \cup {m}
    BY <2>1, <2>2, <2>3, <2>4, <2>6 DEF Rows, Passed, TypeOK
  <2>. QED BY <1>7, <2>5, <2>6 DEF EnqueueFails, Accepted
<1>8. ASSUME NEW r \in Requests, Discard(r)
      PROVE  Rows'
  BY <1>8 DEF Discard, Rows, Passed, TypeOK, Answer, rowVars
<1>9. ASSUME NEW r \in Requests, Dies(r)
      PROVE  Rows'
  BY <1>9 DEF Dies, InFlight, Rows, Passed, TypeOK, Answer, rowVars
<1>10. ASSUME NEW r \in Requests, Tell(r)
       PROVE  Rows'
  BY <1>10 DEF Tell, Rows, Passed, TypeOK, Answer, rowVars
<1>11. ASSUME NEW ids, DeleteRows(ids)
       PROVE  Rows'
  BY <1>11 DEF DeleteRows, Rows
<1>12. CASE UNCHANGED shared
  BY <1>12 DEF shared, rowVars, Rows
<1>. QED
  BY <1>1, <1>2, <1>3, <1>4, <1>5, <1>6, <1>7, <1>8, <1>9, <1>10, <1>11, <1>12
  DEF HandlerStep

LEMMA RowsOK == Spec => [](TypeOK /\ Placed /\ Rows)
<1>1. TypeOK /\ Placed /\ Rows /\ [Next]_allVars => TypeOK' /\ Placed' /\ Rows'
  BY StepOfHandlers, TypeStep, PlacedStep, RowsStep
<1>. QED BY TypeInit, RowsInit, <1>1, PTL DEF Spec

\* Every reachable state of the handlers is well typed.
THEOREM TriggerTypes == Spec => []TypeOK
BY RowsOK, PTL

\* Of all accepted tasks of an ad-hoc key one at most finds its row.
THEOREM AdHocIdempotent == Spec => []OneLiveRunPerKey
<1>1. TypeOK /\ Rows => OneLiveRunPerKey
  <2>. SUFFICES ASSUME TypeOK, Rows, NEW k \in Keys
                PROVE  Cardinality({t \in tasks : t.dest = AdHoc
                                       /\ \E a \in RowOf(k) : a.id = t.row}) <= 1
    BY DEF OneLiveRunPerKey
  <2>. DEFINE S == {t \in tasks : t.dest = AdHoc /\ \E a \in RowOf(k) : a.id = t.row}
  <2>1. \A t, u \in S : t = u
    BY DEF RowOf, Rows
  <2>2. ASSUME S = {}
        PROVE  Cardinality(S) <= 1
    <3>1. Cardinality({}) = 0
      BY FS_EmptySet
    <3>. QED BY <2>2, <3>1
  <2>3. ASSUME NEW t \in S
        PROVE  Cardinality(S) <= 1
    <3>1. S = {t}
      BY <2>1
    <3>2. Cardinality({t}) = 1
      BY FS_Singleton
    <3>. HIDE DEF S
    <3>. QED BY <3>1, <3>2
  <2>. QED BY <2>2, <2>3
<1>. QED BY RowsOK, <1>1, PTL

-----------------------------------------------------------------------------
(* No phantom syncs                                                        *)

LEMMA PhantomInit == TInit => NoPhantomSync
BY DEF TInit, Init, NoPhantomSync

\* The row's witness, a message or a request at work, is handed on.
LEMMA PhantomKept ==
    ASSUME NoPhantomSync, upset \subseteq upset', adhoc' \subseteq adhoc,
           tasks \subseteq tasks',
           \A q \in Requests : InFlight(q) /\ (\E a \in adhoc' : a.id = mine[q]) =>
               \/ InFlight(q)' /\ mine'[q] = mine[q]
               \/ AdHoc \in upset'
               \/ \E t \in tasks' : t.row = mine[q]
    PROVE  NoPhantomSync'
BY DEF NoPhantomSync

LEMMA PhantomStep ==
    ASSUME TypeOK, Placed, Rows, NoPhantomSync, HandlerStep \/ UNCHANGED shared
    PROVE  NoPhantomSync'
<1>. USE TriggerAssumption
<1>1. ASSUME NEW r \in Requests, NEW d \in Dests, NEW k \in Keys, Look(r, d, k)
      PROVE  NoPhantomSync'
  <2>1. \A a \in adhoc : a.id # None
    BY DEF TypeOK
  <2>2. upset \subseteq upset' /\ adhoc' \subseteq adhoc /\ tasks \subseteq tasks'
    BY <1>1 DEF Look, rowVars, Accepted
  <2>3. \A q \in Requests : InFlight(q) /\ (\E a \in adhoc' : a.id = mine[q]) =>
            \/ InFlight(q)' /\ mine'[q] = mine[q]
            \/ AdHoc \in upset'
            \/ \E t \in tasks' : t.row = mine[q]
    BY <1>1, <2>1, <2>2 DEF Look, InFlight, Placed, Waiting, Passed, Goto, Answer, rowVars,
                            TypeOK
  <2>. QED BY <2>2, <2>3, PhantomKept
<1>2. ASSUME NEW r \in Requests, ReadSchedule(r)
      PROVE  NoPhantomSync'
  <2>1. \A a \in adhoc : a.id # None
    BY DEF TypeOK
  <2>2. upset \subseteq upset' /\ adhoc' \subseteq adhoc /\ tasks \subseteq tasks'
    BY <1>2 DEF ReadSchedule, rowVars, Accepted
  <2>3. \A q \in Requests : InFlight(q) /\ (\E a \in adhoc' : a.id = mine[q]) =>
            \/ InFlight(q)' /\ mine'[q] = mine[q]
            \/ AdHoc \in upset'
            \/ \E t \in tasks' : t.row = mine[q]
    BY <1>2, <2>1, <2>2 DEF ReadSchedule, InFlight, Placed, Waiting, Passed, Goto, Answer,
                            rowVars, TypeOK
  <2>. QED BY <2>2, <2>3, PhantomKept
<1>3. ASSUME NEW r \in Requests, StoreKey(r)
      PROVE  NoPhantomSync'
  <2>1. \A a \in adhoc : a.id # None
    BY DEF TypeOK
  <2>2. upset \subseteq upset' /\ adhoc' \subseteq adhoc /\ tasks \subseteq tasks'
    BY <1>3 DEF StoreKey, rowVars, Accepted
  <2>3. \A q \in Requests : InFlight(q) /\ (\E a \in adhoc' : a.id = mine[q]) =>
            \/ InFlight(q)' /\ mine'[q] = mine[q]
            \/ AdHoc \in upset'
            \/ \E t \in tasks' : t.row = mine[q]
    BY <1>3, <2>1, <2>2 DEF StoreKey, InFlight, Placed, Waiting, Passed, Goto, Answer, rowVars,
                            TypeOK
  <2>. QED BY <2>2, <2>3, PhantomKept
<1>4. ASSUME NEW r \in Requests, Insert(r)
      PROVE  NoPhantomSync'
  <2>1. pc[r] = "insert" /\ mine[r] = None /\ UNCHANGED <<tasks, upset>>
    BY <1>4 DEF Insert, Placed, Waiting
  <2>2. CASE UNCHANGED <<adhoc, lastId, mine>> /\ pc' = [pc EXCEPT ![r] = "conflict"]
    BY <2>1, <2>2 DEF NoPhantomSync, InFlight, TypeOK
  <2>3. CASE /\ adhoc' = adhoc \cup {[id |-> lastId + 1, key |-> call[r].key]}
             /\ mine' = [mine EXCEPT ![r] = lastId + 1] /\ pc' = [pc EXCEPT ![r] = "enqueue"]
    <3>1. \A a \in adhoc : a.id # None
      BY DEF TypeOK
    <3>2. /\ mine'[r] = lastId + 1 /\ InFlight(r)'
          /\ \A q \in Requests \ {r} : mine'[q] = mine[q] /\ InFlight(q)' = InFlight(q)
      BY <2>3 DEF TypeOK, InFlight
    <3>. QED BY <2>1, <2>3, <3>1, <3>2 DEF NoPhantomSync
  <2>. QED BY <1>4, <2>2, <2>3 DEF Insert, Goto
<1>5. ASSUME NEW r \in Requests, LookAgain(r)
      PROVE  NoPhantomSync'
  <2>1. \A a \in adhoc : a.id # None
    BY DEF TypeOK
  <2>2. upset \subseteq upset' /\ adhoc' \subseteq adhoc /\ tasks \subseteq tasks'
    BY <1>5 DEF LookAgain, rowVars, Accepted
  <2>3. \A q \in Requests : InFlight(q) /\ (\E a \in adhoc' : a.id = mine[q]) =>
            \/ InFlight(q)' /\ mine'[q] = mine[q]
            \/ AdHoc \in upset'
            \/ \E t \in tasks' : t.row = mine[q]
    BY <1>5, <2>1, <2>2 DEF LookAgain, InFlight, Placed, Waiting, Passed, Goto, Answer, rowVars,
                            TypeOK
  <2>. QED BY <2>2, <2>3, PhantomKept
<1>6. ASSUME NEW r \in Requests, Enqueue(r)
      PROVE  NoPhantomSync'
  <2>1. \A a \in adhoc : a.id # None
    BY DEF TypeOK
  <2>2. upset \subseteq upset' /\ adhoc' \subseteq adhoc /\ tasks \subseteq tasks'
    BY <1>6 DEF Enqueue, rowVars, Accepted
  <2>3. \A q \in Requests : InFlight(q) /\ (\E a \in adhoc' : a.id = mine[q]) =>
            \/ InFlight(q)' /\ mine'[q] = mine[q]
            \/ AdHoc \in upset'
            \/ \E t \in tasks' : t.row = mine[q]
    BY <1>6, <2>1, <2>2 DEF Enqueue, InFlight, Placed, Waiting, Passed, Goto, Answer, rowVars,
                            TypeOK
  <2>. QED BY <2>2, <2>3, PhantomKept
<1>7. ASSUME NEW r \in Requests, EnqueueFails(r)
      PROVE  NoPhantomSync'
  <2>1. \A a \in adhoc : a.id # None
    BY DEF TypeOK
  <2>2. upset \subseteq upset' /\ adhoc' \subseteq adhoc /\ tasks \subseteq tasks'
    BY <1>7 DEF EnqueueFails, rowVars, Accepted
  <2>3. \A q \in Requests : InFlight(q) /\ (\E a \in adhoc' : a.id = mine[q]) =>
            \/ InFlight(q)' /\ mine'[q] = mine[q]
            \/ AdHoc \in upset'
            \/ \E t \in tasks' : t.row = mine[q]
    BY <1>7, <2>1, <2>2 DEF EnqueueFails, InFlight, Placed, Waiting, Passed, Goto, Answer,
                            rowVars, TypeOK
  <2>. QED BY <2>2, <2>3, PhantomKept
<1>8. ASSUME NEW r \in Requests, Discard(r)
      PROVE  NoPhantomSync'
  <2>1. \A a \in adhoc : a.id # None
    BY DEF TypeOK
  <2>2. upset \subseteq upset' /\ adhoc' \subseteq adhoc /\ tasks \subseteq tasks'
    BY <1>8 DEF Discard, rowVars, Accepted
  <2>3. \A q \in Requests : InFlight(q) /\ (\E a \in adhoc' : a.id = mine[q]) =>
            \/ InFlight(q)' /\ mine'[q] = mine[q]
            \/ AdHoc \in upset'
            \/ \E t \in tasks' : t.row = mine[q]
    BY <1>8, <2>1, <2>2 DEF Discard, InFlight, Placed, Waiting, Passed, Goto, Answer, rowVars,
                            TypeOK
  <2>. QED BY <2>2, <2>3, PhantomKept
<1>9. ASSUME NEW r \in Requests, Dies(r)
      PROVE  NoPhantomSync'
  <2>1. \A a \in adhoc : a.id # None
    BY DEF TypeOK
  <2>2. upset \subseteq upset' /\ adhoc' \subseteq adhoc /\ tasks \subseteq tasks'
    BY <1>9 DEF Dies, rowVars, Accepted
  <2>3. \A q \in Requests : InFlight(q) /\ (\E a \in adhoc' : a.id = mine[q]) =>
            \/ InFlight(q)' /\ mine'[q] = mine[q]
            \/ AdHoc \in upset'
            \/ \E t \in tasks' : t.row = mine[q]
    BY <1>9, <2>1, <2>2 DEF Dies, InFlight, Placed, Waiting, Passed, Goto, Answer, rowVars,
                            TypeOK
  <2>. QED BY <2>2, <2>3, PhantomKept
<1>10. ASSUME NEW r \in Requests, Tell(r)
       PROVE  NoPhantomSync'
  <2>1. \A a \in adhoc : a.id # None
    BY DEF TypeOK
  <2>2. upset \subseteq upset' /\ adhoc' \subseteq adhoc /\ tasks \subseteq tasks'
    BY <1>10 DEF Tell, rowVars, Accepted
  <2>3. \A q \in Requests : InFlight(q) /\ (\E a \in adhoc' : a.id = mine[q]) =>
            \/ InFlight(q)' /\ mine'[q] = mine[q]
            \/ AdHoc \in upset'
            \/ \E t \in tasks' : t.row = mine[q]
    BY <1>10, <2>1, <2>2 DEF Tell, Rows, InFlight, Placed, Waiting, Passed, Goto, Answer,
                             rowVars, TypeOK
  <2>. QED BY <2>2, <2>3, PhantomKept
<1>11. ASSUME NEW ids, DeleteRows(ids)
       PROVE  NoPhantomSync'
  <2>1. \A a \in adhoc : a.id # None
    BY DEF TypeOK
  <2>2. upset \subseteq upset' /\ adhoc' \subseteq adhoc /\ tasks \subseteq tasks'
    BY <1>11 DEF DeleteRows, rowVars, Accepted
  <2>3. \A q \in Requests : InFlight(q) /\ (\E a \in adhoc' : a.id = mine[q]) =>
            \/ InFlight(q)' /\ mine'[q] = mine[q]
            \/ AdHoc \in upset'
            \/ \E t \in tasks' : t.row = mine[q]
    BY <1>11, <2>1, <2>2 DEF DeleteRows, InFlight, Placed, Waiting, Passed, Goto, Answer,
                             rowVars, TypeOK
  <2>. QED BY <2>2, <2>3, PhantomKept
<1>12. CASE UNCHANGED shared
  BY <1>12 DEF shared, rowVars, NoPhantomSync, InFlight
<1>. QED
  BY <1>1, <1>2, <1>3, <1>4, <1>5, <1>6, <1>7, <1>8, <1>9, <1>10, <1>11, <1>12
  DEF HandlerStep

\* An ad-hoc row without a task belongs to a request still at work.
THEOREM NoPhantoms == Spec => []NoPhantomSync
<1>1. TypeOK /\ Placed /\ Rows /\ NoPhantomSync /\ [Next]_allVars => NoPhantomSync'
  BY StepOfHandlers, PhantomStep
<1>. QED BY RowsOK, PhantomInit, <1>1, PTL DEF Spec

-----------------------------------------------------------------------------
(* The key belongs to what the request names                               *)

\* The request got past the look-up and its outcome is not "exists".
Ran(q) ==
    \/ pc[q] \in {"store"} \cup Passed
    \/ pc[q] = "done" /\ answer[q] # "exists"

\* Such a request named d and brought k; the same in the next state.
Brought(d, k) == \E q \in Requests : Ran(q) /\ call[q] = [dest |-> d, key |-> k]
BroughtNext(d, k) == \E q \in Requests : Ran(q)' /\ call'[q] = [dest |-> d, key |-> k]

\* Every key that can be found was brought by such a request.
Origins ==
    /\ \A s \in Schedules : key[s] # None => Brought(s, key[s])
    /\ \A r \in Requests : pc[r] \in {"store"} \cup Passed /\ prev[r] # None
                              => Brought(call[r].dest, prev[r])
    /\ \A a \in adhoc : Brought(AdHoc, a.key)
    /\ \A r \in Requests : answer[r] = "exists" =>
          pc[r] = "done" /\ Brought(call[r].dest, call[r].key)
    /\ \A r \in Requests : pc[r] = "new" => answer[r] = "none"

LEMMA OriginsInit == TInit => Origins
BY DEF TInit, Init, Origins, Passed

\* A request that ran has run for good, with the call it brought.
LEMMA RanStays ==
    ASSUME TypeOK, HandlerStep
    PROVE  \A q \in Requests : Ran(q) => Ran(q)' /\ call'[q] = call[q]
<1>. SUFFICES ASSUME NEW q \in Requests, Ran(q)
              PROVE  Ran(q)' /\ call'[q] = call[q]
  OBVIOUS
<1>. USE DEF Ran, Passed, TypeOK, Goto, Answer
<1>1. ASSUME NEW r \in Requests, NEW d \in Dests, NEW k \in Keys, Look(r, d, k)
      PROVE  Ran(q)' /\ call'[q] = call[q]
  BY <1>1 DEF Look, RowOf
<1>2. ASSUME NEW r \in Requests, ReadSchedule(r)
      PROVE  Ran(q)' /\ call'[q] = call[q]
  BY <1>2 DEF ReadSchedule
<1>3. ASSUME NEW r \in Requests, StoreKey(r)
      PROVE  Ran(q)' /\ call'[q] = call[q]
  BY <1>3 DEF StoreKey
<1>4. ASSUME NEW r \in Requests, Insert(r)
      PROVE  Ran(q)' /\ call'[q] = call[q]
  BY <1>4 DEF Insert
<1>5. ASSUME NEW r \in Requests, LookAgain(r)
      PROVE  Ran(q)' /\ call'[q] = call[q]
  BY <1>5 DEF LookAgain, RowOf
<1>6. ASSUME NEW r \in Requests, Enqueue(r)
      PROVE  Ran(q)' /\ call'[q] = call[q]
  BY <1>6 DEF Enqueue
<1>7. ASSUME NEW r \in Requests, EnqueueFails(r)
      PROVE  Ran(q)' /\ call'[q] = call[q]
  BY <1>7 DEF EnqueueFails
<1>8. ASSUME NEW r \in Requests, Discard(r)
      PROVE  Ran(q)' /\ call'[q] = call[q]
  BY <1>8 DEF Discard
<1>9. ASSUME NEW r \in Requests, Dies(r)
      PROVE  Ran(q)' /\ call'[q] = call[q]
  BY <1>9 DEF Dies, InFlight
<1>10. ASSUME NEW r \in Requests, Tell(r)
       PROVE  Ran(q)' /\ call'[q] = call[q]
  BY <1>10 DEF Tell
<1>11. ASSUME NEW ids, DeleteRows(ids)
       PROVE  Ran(q)' /\ call'[q] = call[q]
  BY <1>11 DEF DeleteRows
<1>. QED BY <1>1, <1>2, <1>3, <1>4, <1>5, <1>6, <1>7, <1>8, <1>9, <1>10, <1>11 DEF HandlerStep

LEMMA BroughtStays ==
    ASSUME TypeOK, HandlerStep, NEW d, NEW k, Brought(d, k)
    PROVE  BroughtNext(d, k)
BY RanStays DEF Brought, BroughtNext

\* One request moves; what it leaves behind, it or an earlier one brought.
LEMMA OriginsKept ==
    ASSUME TypeOK, Origins, NEW r \in Requests,
           \A d, k : Brought(d, k) => BroughtNext(d, k),
           \A q \in Requests \ {r} : /\ pc'[q] = pc[q] /\ prev'[q] = prev[q]
                                     /\ answer'[q] = answer[q] /\ call'[q] = call[q],
           \A s \in Schedules : key'[s] \in {None, key[s]} \/ BroughtNext(s, key'[s]),
           \A a \in adhoc' : a \in adhoc \/ BroughtNext(AdHoc, a.key),
           pc'[r] \in {"store"} \cup Passed /\ prev'[r] # None
               => BroughtNext(call'[r].dest, prev'[r]),
           answer'[r] = "exists" => pc'[r] = "done" /\ BroughtNext(call'[r].dest, call'[r].key),
           pc'[r] # "new"
    PROVE  Origins'
<1>1. \A s \in Schedules : key'[s] # None => BroughtNext(s, key'[s])
  BY DEF Origins
<1>2. \A a \in adhoc' : BroughtNext(AdHoc, a.key)
  BY DEF Origins
<1>3. \A q \in Requests : pc'[q] \in {"store"} \cup Passed /\ prev'[q] # None
                              => BroughtNext(call'[q].dest, prev'[q])
  BY DEF Origins
<1>4. \A q \in Requests : answer'[q] = "exists" =>
          pc'[q] = "done" /\ BroughtNext(call'[q].dest, call'[q].key)
  BY DEF Origins
<1>5. \A q \in Requests : pc'[q] = "new" => answer'[q] = "none"
  BY DEF Origins
<1>. QED BY <1>1, <1>2, <1>3, <1>4, <1>5 DEF Origins, Brought, BroughtNext

LEMMA OriginsStep ==
    ASSUME TypeOK, Placed, Origins, HandlerStep \/ UNCHANGED shared
    PROVE  Origins'
<1>. USE TriggerAssumption
<1>0. \A d, k : Brought(d, k) => BroughtNext(d, k)
  <2>1. CASE HandlerStep
    BY <2>1, BroughtStays
  <2>2. CASE UNCHANGED shared
    BY <2>2 DEF shared, Brought, BroughtNext, Ran
  <2>. QED BY <2>1, <2>2
<1>1. ASSUME NEW r \in Requests, NEW d \in Dests, NEW k \in Keys, Look(r, d, k)
      PROVE  Origins'
  <2>1. \A q \in Requests \ {r} : /\ pc'[q] = pc[q] /\ prev'[q] = prev[q]
                                  /\ answer'[q] = answer[q] /\ call'[q] = call[q]
    BY <1>1 DEF Look, rowVars, Goto, Answer, TypeOK
  <2>2. \A s \in Schedules : key'[s] \in {None, key[s]} \/ BroughtNext(s, key'[s])
    BY <1>1 DEF Look, rowVars, Goto, Answer, TypeOK
  <2>3. \A a \in adhoc' : a \in adhoc \/ BroughtNext(AdHoc, a.key)
    BY <1>1 DEF Look, rowVars, Goto, Answer, TypeOK
  <2>4. pc'[r] \in {"store"} \cup Passed /\ prev'[r] # None
            => BroughtNext(call'[r].dest, prev'[r])
    BY <1>0, <1>1 DEF Origins, Passed, Look, rowVars, Goto, Answer, TypeOK
  <2>5. answer'[r] = "exists" => pc'[r] = "done" /\ BroughtNext(call'[r].dest, call'[r].key)
    <3>1. call'[r] = [dest |-> d, key |-> k]
      BY <1>1 DEF Look, TypeOK
    <3>2. answer[r] # "exists"
      BY <1>1 DEF Look, Origins
    <3>3. CASE d \in Schedules /\ key[d] = k /\ Answer(r, "exists")
      <4>1. k # None /\ Brought(d, k)
        BY <3>3, TriggerAssumption DEF Origins
      <4>. QED BY <1>0, <3>1, <3>3, <4>1 DEF Answer, TypeOK
    <3>4. CASE d = AdHoc /\ RowOf(k) # {} /\ Answer(r, "exists")
      <4>1. Brought(d, k)
        BY <3>4 DEF Origins, RowOf
      <4>. QED BY <1>0, <3>1, <3>4, <4>1 DEF Answer, TypeOK
    <3>5. CASE answer' = answer
      BY <3>2, <3>5
    <3>. QED BY <1>1, <3>3, <3>4, <3>5 DEF Look, Goto
  <2>6. pc'[r] # "new"
    BY <1>1 DEF Look, rowVars, Goto, Answer, TypeOK
  <2>. QED BY <1>0, <2>1, <2>2, <2>3, <2>4, <2>5, <2>6, OriginsKept
<1>2. ASSUME NEW r \in Requests, ReadSchedule(r)
      PROVE  Origins'
  <2>1. \A q \in Requests \ {r} : /\ pc'[q] = pc[q] /\ prev'[q] = prev[q]
                                  /\ answer'[q] = answer[q] /\ call'[q] = call[q]
    BY <1>2 DEF ReadSchedule, rowVars, Goto, Answer, TypeOK
  <2>2. \A s \in Schedules : key'[s] \in {None, key[s]} \/ BroughtNext(s, key'[s])
    BY <1>2 DEF ReadSchedule, rowVars, Goto, Answer, TypeOK
  <2>3. \A a \in adhoc' : a \in adhoc \/ BroughtNext(AdHoc, a.key)
    BY <1>2 DEF ReadSchedule, rowVars, Goto, Answer, TypeOK
  <2>4. pc'[r] \in {"store"} \cup Passed /\ prev'[r] # None
            => BroughtNext(call'[r].dest, prev'[r])
    <3>1. CASE pc'[r] = "store" /\ prev'[r] = key[call[r].dest] /\ call' = call
      <4>1. call[r].dest \in Schedules
        BY <1>2 DEF ReadSchedule, Placed
      <4>. QED BY <1>0, <3>1, <4>1 DEF Origins
    <3>2. CASE pc'[r] = "done"
      BY <3>2 DEF Passed
    <3>. QED BY <1>2, <3>1, <3>2 DEF ReadSchedule, Goto, Answer, TypeOK
  <2>5. answer'[r] = "exists" => pc'[r] = "done" /\ BroughtNext(call'[r].dest, call'[r].key)
    BY <1>0, <1>2 DEF Origins, ReadSchedule, rowVars, Goto, Answer, TypeOK
  <2>6. pc'[r] # "new"
    BY <1>2 DEF ReadSchedule, rowVars, Goto, Answer, TypeOK
  <2>. QED BY <1>0, <2>1, <2>2, <2>3, <2>4, <2>5, <2>6, OriginsKept
<1>3. ASSUME NEW r \in Requests, StoreKey(r)
      PROVE  Origins'
  <2>1. \A q \in Requests \ {r} : /\ pc'[q] = pc[q] /\ prev'[q] = prev[q]
                                  /\ answer'[q] = answer[q] /\ call'[q] = call[q]
    BY <1>3 DEF StoreKey, rowVars, Goto, Answer, TypeOK
  <2>2. \A s \in Schedules : key'[s] \in {None, key[s]} \/ BroughtNext(s, key'[s])
    <3>1. call[r] = [dest |-> call[r].dest, key |-> call[r].key]
      BY <1>3 DEF StoreKey, Placed, TypeOK
    <3>2. pc'[r] = "enqueue" => BroughtNext(call[r].dest, call[r].key)
      BY <1>3, <3>1 DEF StoreKey, BroughtNext, Ran, Passed, Goto, TypeOK
    <3>. QED BY <1>3, <3>2 DEF StoreKey, Goto, TypeOK
  <2>3. \A a \in adhoc' : a \in adhoc \/ BroughtNext(AdHoc, a.key)
    BY <1>3 DEF StoreKey, rowVars, Goto, Answer, TypeOK
  <2>4. pc'[r] \in {"store"} \cup Passed /\ prev'[r] # None
            => BroughtNext(call'[r].dest, prev'[r])
    BY <1>0, <1>3 DEF Origins, Passed, StoreKey, rowVars, Goto, Answer, TypeOK
  <2>5. answer'[r] = "exists" => pc'[r] = "done" /\ BroughtNext(call'[r].dest, call'[r].key)
    BY <1>0, <1>3 DEF Origins, StoreKey, rowVars, Goto, Answer, TypeOK
  <2>6. pc'[r] # "new"
    BY <1>3 DEF StoreKey, rowVars, Goto, Answer, TypeOK
  <2>. QED BY <1>0, <2>1, <2>2, <2>3, <2>4, <2>5, <2>6, OriginsKept
<1>4. ASSUME NEW r \in Requests, Insert(r)
      PROVE  Origins'
  <2>1. \A q \in Requests \ {r} : /\ pc'[q] = pc[q] /\ prev'[q] = prev[q]
                                  /\ answer'[q] = answer[q] /\ call'[q] = call[q]
    BY <1>4 DEF Insert, rowVars, Goto, Answer, TypeOK
  <2>2. \A s \in Schedules : key'[s] \in {None, key[s]} \/ BroughtNext(s, key'[s])
    BY <1>4 DEF Insert, rowVars, Goto, Answer, TypeOK
  <2>3. \A a \in adhoc' : a \in adhoc \/ BroughtNext(AdHoc, a.key)
    <3>1. call[r] = [dest |-> AdHoc, key |-> call[r].key]
      BY <1>4 DEF Insert, Placed, TypeOK
    <3>2. pc'[r] = "enqueue" => BroughtNext(AdHoc, call[r].key)
      BY <1>4, <3>1 DEF Insert, BroughtNext, Ran, Passed, Goto, TypeOK
    <3>. QED BY <1>4, <3>2 DEF Insert, Goto, TypeOK
  <2>4. pc'[r] \in {"store"} \cup Passed /\ prev'[r] # None
            => BroughtNext(call'[r].dest, prev'[r])
    <3>1. prev'[r] = None
      BY <1>4 DEF Insert, Placed
    <3>. QED BY <3>1
  <2>5. answer'[r] = "exists" => pc'[r] = "done" /\ BroughtNext(call'[r].dest, call'[r].key)
    BY <1>0, <1>4 DEF Origins, Insert, rowVars, Goto, Answer, TypeOK
  <2>6. pc'[r] # "new"
    BY <1>4 DEF Insert, rowVars, Goto, Answer, TypeOK
  <2>. QED BY <1>0, <2>1, <2>2, <2>3, <2>4, <2>5, <2>6, OriginsKept
<1>5. ASSUME NEW r \in Requests, LookAgain(r)
      PROVE  Origins'
  <2>1. \A q \in Requests \ {r} : /\ pc'[q] = pc[q] /\ prev'[q] = prev[q]
                                  /\ answer'[q] = answer[q] /\ call'[q] = call[q]
    BY <1>5 DEF LookAgain, rowVars, Goto, Answer, TypeOK
  <2>2. \A s \in Schedules : key'[s] \in {None, key[s]} \/ BroughtNext(s, key'[s])
    BY <1>5 DEF LookAgain, rowVars, Goto, Answer, TypeOK
  <2>3. \A a \in adhoc' : a \in adhoc \/ BroughtNext(AdHoc, a.key)
    BY <1>5 DEF LookAgain, rowVars, Goto, Answer, TypeOK
  <2>4. pc'[r] \in {"store"} \cup Passed /\ prev'[r] # None
            => BroughtNext(call'[r].dest, prev'[r])
    BY <1>0, <1>5 DEF Origins, Passed, LookAgain, rowVars, Goto, Answer, TypeOK
  <2>5. answer'[r] = "exists" => pc'[r] = "done" /\ BroughtNext(call'[r].dest, call'[r].key)
    <3>1. call[r].dest = AdHoc /\ call' = call
      BY <1>5 DEF LookAgain, Placed
    <3>2. CASE RowOf(call[r].key) # {}
      <4>1. Brought(AdHoc, call[r].key)
        BY <3>2 DEF Origins, RowOf
      <4>. QED BY <1>0, <1>5, <3>1, <4>1 DEF LookAgain, Answer, TypeOK
    <3>3. CASE RowOf(call[r].key) = {}
      BY <1>5, <3>3 DEF LookAgain, Answer, TypeOK
    <3>. QED BY <3>2, <3>3
  <2>6. pc'[r] # "new"
    BY <1>5 DEF LookAgain, rowVars, Goto, Answer, TypeOK
  <2>. QED BY <1>0, <2>1, <2>2, <2>3, <2>4, <2>5, <2>6, OriginsKept
<1>6. ASSUME NEW r \in Requests, Enqueue(r)
      PROVE  Origins'
  <2>1. \A q \in Requests \ {r} : /\ pc'[q] = pc[q] /\ prev'[q] = prev[q]
                                  /\ answer'[q] = answer[q] /\ call'[q] = call[q]
    BY <1>6 DEF Enqueue, rowVars, Goto, Answer, TypeOK
  <2>2. \A s \in Schedules : key'[s] \in {None, key[s]} \/ BroughtNext(s, key'[s])
    BY <1>6 DEF Enqueue, rowVars, Goto, Answer, TypeOK
  <2>3. \A a \in adhoc' : a \in adhoc \/ BroughtNext(AdHoc, a.key)
    BY <1>6 DEF Enqueue, rowVars, Goto, Answer, TypeOK
  <2>4. pc'[r] \in {"store"} \cup Passed /\ prev'[r] # None
            => BroughtNext(call'[r].dest, prev'[r])
    BY <1>0, <1>6 DEF Origins, Passed, Enqueue, rowVars, Goto, Answer, TypeOK
  <2>5. answer'[r] = "exists" => pc'[r] = "done" /\ BroughtNext(call'[r].dest, call'[r].key)
    BY <1>0, <1>6 DEF Origins, Enqueue, rowVars, Goto, Answer, TypeOK
  <2>6. pc'[r] # "new"
    BY <1>6 DEF Enqueue, rowVars, Goto, Answer, TypeOK
  <2>. QED BY <1>0, <2>1, <2>2, <2>3, <2>4, <2>5, <2>6, OriginsKept
<1>7. ASSUME NEW r \in Requests, EnqueueFails(r)
      PROVE  Origins'
  <2>1. \A q \in Requests \ {r} : /\ pc'[q] = pc[q] /\ prev'[q] = prev[q]
                                  /\ answer'[q] = answer[q] /\ call'[q] = call[q]
    BY <1>7 DEF EnqueueFails, rowVars, Goto, Answer, TypeOK
  <2>2. \A s \in Schedules : key'[s] \in {None, key[s]} \/ BroughtNext(s, key'[s])
    BY <1>7 DEF EnqueueFails, rowVars, Goto, Answer, TypeOK
  <2>3. \A a \in adhoc' : a \in adhoc \/ BroughtNext(AdHoc, a.key)
    BY <1>7 DEF EnqueueFails, rowVars, Goto, Answer, TypeOK
  <2>4. pc'[r] \in {"store"} \cup Passed /\ prev'[r] # None
            => BroughtNext(call'[r].dest, prev'[r])
    BY <1>0, <1>7 DEF Origins, Passed, EnqueueFails, rowVars, Goto, Answer, TypeOK
  <2>5. answer'[r] = "exists" => pc'[r] = "done" /\ BroughtNext(call'[r].dest, call'[r].key)
    BY <1>0, <1>7 DEF Origins, EnqueueFails, rowVars, Goto, Answer, TypeOK
  <2>6. pc'[r] # "new"
    BY <1>7 DEF EnqueueFails, rowVars, Goto, Answer, TypeOK
  <2>. QED BY <1>0, <2>1, <2>2, <2>3, <2>4, <2>5, <2>6, OriginsKept
<1>8. ASSUME NEW r \in Requests, Discard(r)
      PROVE  Origins'
  <2>1. \A q \in Requests \ {r} : /\ pc'[q] = pc[q] /\ prev'[q] = prev[q]
                                  /\ answer'[q] = answer[q] /\ call'[q] = call[q]
    BY <1>8 DEF Discard, rowVars, Goto, Answer, TypeOK
  <2>2. \A s \in Schedules : key'[s] \in {None, key[s]} \/ BroughtNext(s, key'[s])
    <3>1. prev[r] # None => BroughtNext(call[r].dest, prev[r])
      BY <1>0, <1>8 DEF Discard, Origins, Passed
    <3>. QED BY <1>8, <3>1 DEF Discard, TypeOK
  <2>3. \A a \in adhoc' : a \in adhoc \/ BroughtNext(AdHoc, a.key)
    BY <1>8 DEF Discard, rowVars, Goto, Answer, TypeOK
  <2>4. pc'[r] \in {"store"} \cup Passed /\ prev'[r] # None
            => BroughtNext(call'[r].dest, prev'[r])
    BY <1>0, <1>8 DEF Origins, Passed, Discard, rowVars, Goto, Answer, TypeOK
  <2>5. answer'[r] = "exists" => pc'[r] = "done" /\ BroughtNext(call'[r].dest, call'[r].key)
    BY <1>0, <1>8 DEF Origins, Discard, rowVars, Goto, Answer, TypeOK
  <2>6. pc'[r] # "new"
    BY <1>8 DEF Discard, rowVars, Goto, Answer, TypeOK
  <2>. QED BY <1>0, <2>1, <2>2, <2>3, <2>4, <2>5, <2>6, OriginsKept
<1>9. ASSUME NEW r \in Requests, Dies(r)
      PROVE  Origins'
  <2>1. \A q \in Requests \ {r} : /\ pc'[q] = pc[q] /\ prev'[q] = prev[q]
                                  /\ answer'[q] = answer[q] /\ call'[q] = call[q]
    BY <1>9 DEF Dies, InFlight, rowVars, Goto, Answer, TypeOK
  <2>2. \A s \in Schedules : key'[s] \in {None, key[s]} \/ BroughtNext(s, key'[s])
    BY <1>9 DEF Dies, InFlight, rowVars, Goto, Answer, TypeOK
  <2>3. \A a \in adhoc' : a \in adhoc \/ BroughtNext(AdHoc, a.key)
    BY <1>9 DEF Dies, InFlight, rowVars, Goto, Answer, TypeOK
  <2>4. pc'[r] \in {"store"} \cup Passed /\ prev'[r] # None
            => BroughtNext(call'[r].dest, prev'[r])
    BY <1>0, <1>9 DEF Origins, Passed, Dies, InFlight, rowVars, Goto, Answer, TypeOK
  <2>5. answer'[r] = "exists" => pc'[r] = "done" /\ BroughtNext(call'[r].dest, call'[r].key)
    BY <1>0, <1>9 DEF Origins, Dies, InFlight, rowVars, Goto, Answer, TypeOK
  <2>6. pc'[r] # "new"
    BY <1>9 DEF Dies, InFlight, rowVars, Goto, Answer, TypeOK
  <2>. QED BY <1>0, <2>1, <2>2, <2>3, <2>4, <2>5, <2>6, OriginsKept
<1>10. ASSUME NEW r \in Requests, Tell(r)
       PROVE  Origins'
  <2>1. \A q \in Requests \ {r} : /\ pc'[q] = pc[q] /\ prev'[q] = prev[q]
                                  /\ answer'[q] = answer[q] /\ call'[q] = call[q]
    BY <1>10 DEF Tell, rowVars, Goto, Answer, TypeOK
  <2>2. \A s \in Schedules : key'[s] \in {None, key[s]} \/ BroughtNext(s, key'[s])
    BY <1>10 DEF Tell, rowVars, Goto, Answer, TypeOK
  <2>3. \A a \in adhoc' : a \in adhoc \/ BroughtNext(AdHoc, a.key)
    BY <1>10 DEF Tell, rowVars, Goto, Answer, TypeOK
  <2>4. pc'[r] \in {"store"} \cup Passed /\ prev'[r] # None
            => BroughtNext(call'[r].dest, prev'[r])
    BY <1>0, <1>10 DEF Origins, Passed, Tell, rowVars, Goto, Answer, TypeOK
  <2>5. answer'[r] = "exists" => pc'[r] = "done" /\ BroughtNext(call'[r].dest, call'[r].key)
    BY <1>0, <1>10 DEF Origins, Tell, rowVars, Goto, Answer, TypeOK
  <2>6. pc'[r] # "new"
    BY <1>10 DEF Tell, rowVars, Goto, Answer, TypeOK
  <2>. QED BY <1>0, <2>1, <2>2, <2>3, <2>4, <2>5, <2>6, OriginsKept
<1>11. ASSUME NEW ids, DeleteRows(ids)
       PROVE  Origins'
  BY <1>11 DEF DeleteRows, Origins, Brought, Ran
<1>12. CASE UNCHANGED shared
  BY <1>12 DEF shared, rowVars, Origins, Brought, Ran
<1>. QED
  BY <1>1, <1>2, <1>3, <1>4, <1>5, <1>6, <1>7, <1>8, <1>9, <1>10, <1>11, <1>12
  DEF HandlerStep

\* "Already exists" is answered only to what another request brought before.
THEOREM AnswersAreOwn == Spec => []AnswerIsOwn
<1>1. TypeOK /\ Placed /\ Origins /\ [Next]_allVars => Origins'
  BY StepOfHandlers, OriginsStep
<1>2. TypeOK /\ Origins => AnswerIsOwn
  <2>. SUFFICES ASSUME TypeOK, Origins, NEW r \in Requests, answer[r] = "exists"
                PROVE  \E q \in Requests \ {r} : call[q] = call[r] /\ answer[q] # "exists"
    BY DEF AnswerIsOwn
  <2>1. PICK q \in Requests : Ran(q) /\ call[q] = [dest |-> call[r].dest, key |-> call[r].key]
    BY DEF Origins, Brought
  <2>2. call[r] = [dest |-> call[r].dest, key |-> call[r].key]
    BY DEF TypeOK
  <2>3. answer[q] # "exists"
    BY <2>1 DEF Origins, Ran, Passed
  <2>. QED BY <2>1, <2>2, <2>3
<1>. QED BY RowsOK, OriginsInit, <1>1, <1>2, PTL DEF Spec

-----------------------------------------------------------------------------
(* A schedule's key and its last run                                       *)

\* How the key that is stored now, that of the last run and the one that a
\* request with key k noted are related when it alone is at work.
Fits(where, k, now, latest, noted) ==
    /\ where \in {"read", "store", "register", "done"} => now = latest
    /\ where \in {"store", "enqueue", "discard"} => noted = latest
    /\ where = "enqueue" => now = k

Tracked ==
    \A s \in Schedules \ (deleted \cup upset) :
        /\ \A r, q \in Requests :
              InFlight(r) /\ InFlight(q) /\ call[r].dest = s /\ call[q].dest = s => r = q
        /\ (\A r \in Requests : ~(InFlight(r) /\ call[r].dest = s)) => key[s] = lastRun[s]
        /\ \A r \in Requests : InFlight(r) /\ call[r].dest = s =>
              Fits(pc[r], call[r].key, key[s], lastRun[s], prev[r])

LEMMA TrackedInit == TInit => Tracked
BY DEF TInit, Init, Tracked, InFlight

\* One request moves, and fits again when it is alone.
LEMMA TrackedKept ==
    ASSUME Tracked, NEW r \in Requests, deleted \subseteq deleted', upset \subseteq upset',
           \A q \in Requests \ {r} :
               pc'[q] = pc[q] /\ prev'[q] = prev[q] /\ call'[q] = call[q],
           call'[r] = call[r] \/ pc[r] = "new", pc'[r] # "new",
           \A s \in Schedules : s # call'[r].dest =>
               key'[s] = key[s] /\ lastRun'[s] = lastRun[s],
           \A s \in Schedules \ (deleted' \cup upset') : s = call'[r].dest =>
               /\ \A q \in Requests \ {r} : ~(InFlight(q) /\ call[q].dest = s)
               /\ Fits(pc'[r], call'[r].key, key'[s], lastRun'[s], prev'[r])
    PROVE  Tracked'
<1>. SUFFICES ASSUME NEW s \in Schedules, s \notin deleted', s \notin upset'
              PROVE  /\ \A a, q \in Requests : InFlight(a)' /\ InFlight(q)'
                            /\ call'[a].dest = s /\ call'[q].dest = s => a = q
                     /\ (\A a \in Requests : ~(InFlight(a)' /\ call'[a].dest = s))
                            => key'[s] = lastRun'[s]
                     /\ \A a \in Requests : InFlight(a)' /\ call'[a].dest = s =>
                            Fits(pc'[a], call'[a].key, key'[s], lastRun'[s], prev'[a])
  BY DEF Tracked, Fits
<1>1. s \in Schedules \ (deleted \cup upset)
  OBVIOUS
<1>2. CASE s = call'[r].dest
  BY <1>2 DEF InFlight, Fits
<1>3. CASE s # call'[r].dest
  <2>1. \A q \in Requests : InFlight(q)' /\ call'[q].dest = s
            <=> InFlight(q) /\ call[q].dest = s
    BY <1>3 DEF InFlight
  <2>2. \A q \in Requests : InFlight(q)' /\ call'[q].dest = s =>
            q # r /\ Fits(pc[q], call[q].key, key[s], lastRun[s], prev[q])
    BY <1>1, <1>3, <2>1 DEF Tracked
  <2>3. key'[s] = key[s] /\ lastRun'[s] = lastRun[s]
    BY <1>3
  <2>. QED BY <1>1, <2>1, <2>2, <2>3 DEF Tracked
<1>. QED BY <1>2, <1>3

LEMMA TrackedStep ==
    ASSUME TypeOK, Placed, Tracked, HandlerStep \/ UNCHANGED shared
    PROVE  Tracked'
<1>. USE TriggerAssumption
<1>1. ASSUME NEW r \in Requests, NEW d \in Dests, NEW k \in Keys, Look(r, d, k)
      PROVE  Tracked'
  <2>1. /\ deleted \subseteq deleted' /\ upset \subseteq upset' /\ pc'[r] # "new"
        /\ call'[r] = call[r] \/ pc[r] = "new"
    BY <1>1 DEF Look, rowVars, Goto, Answer, TypeOK, InFlight
  <2>2. \A q \in Requests \ {r} : pc'[q] = pc[q] /\ prev'[q] = prev[q] /\ call'[q] = call[q]
    BY <1>1 DEF Look, rowVars, Goto, Answer, TypeOK
  <2>3. \A s \in Schedules : s # call'[r].dest => key'[s] = key[s] /\ lastRun'[s] = lastRun[s]
    BY <1>1 DEF Look, rowVars, Goto, Answer, TypeOK, Accepted
  <2>4. \A s \in Schedules \ (deleted' \cup upset') : s = call'[r].dest =>
            /\ \A q \in Requests \ {r} : ~(InFlight(q) /\ call[q].dest = s)
            /\ Fits(pc'[r], call'[r].key, key'[s], lastRun'[s], prev'[r])
    <3>. SUFFICES ASSUME NEW s \in Schedules, s \notin deleted', s \notin upset',
                         s = call'[r].dest
                  PROVE  /\ \A q \in Requests \ {r} : ~(InFlight(q) /\ call[q].dest = s)
                         /\ Fits(pc'[r], call'[r].key, key'[s], lastRun'[s], prev'[r])
      OBVIOUS
    <3>1. s = d /\ s # AdHoc /\ s \in Schedules \ (deleted \cup upset)
      BY <1>1, <2>1, TriggerAssumption DEF Look, TypeOK
    <3>2. \A q \in Requests : ~(InFlight(q) /\ call[q].dest = s)
      BY <1>1, <3>1 DEF Look
    <3>3. key[s] = lastRun[s] /\ UNCHANGED <<key, lastRun>> /\ pc'[r] \in {"read", "done"}
      BY <1>1, <3>1, <3>2 DEF Look, Tracked, rowVars, Goto, Answer, TypeOK
    <3>. QED BY <3>2, <3>3 DEF Fits
  <2>. QED BY <2>1, <2>2, <2>3, <2>4, TrackedKept
<1>2. ASSUME NEW r \in Requests, ReadSchedule(r)
      PROVE  Tracked'
  <2>1. /\ deleted \subseteq deleted' /\ upset \subseteq upset' /\ pc'[r] # "new"
        /\ call'[r] = call[r] \/ pc[r] = "new"
    BY <1>2 DEF ReadSchedule, rowVars, Goto, Answer, TypeOK, InFlight
  <2>2. \A q \in Requests \ {r} : pc'[q] = pc[q] /\ prev'[q] = prev[q] /\ call'[q] = call[q]
    BY <1>2 DEF ReadSchedule, rowVars, Goto, Answer, TypeOK
  <2>3. \A s \in Schedules : s # call'[r].dest => key'[s] = key[s] /\ lastRun'[s] = lastRun[s]
    BY <1>2 DEF ReadSchedule, rowVars, Goto, Answer, TypeOK, Accepted
  <2>4. \A s \in Schedules \ (deleted' \cup upset') : s = call'[r].dest =>
            /\ \A q \in Requests \ {r} : ~(InFlight(q) /\ call[q].dest = s)
            /\ Fits(pc'[r], call'[r].key, key'[s], lastRun'[s], prev'[r])
    <3>. SUFFICES ASSUME NEW s \in Schedules, s \notin deleted', s \notin upset',
                         s = call'[r].dest
                  PROVE  /\ \A q \in Requests \ {r} : ~(InFlight(q) /\ call[q].dest = s)
                         /\ Fits(pc'[r], call'[r].key, key'[s], lastRun'[s], prev'[r])
      OBVIOUS
    <3>1. InFlight(r) /\ call[r].dest = s /\ s \in Schedules \ (deleted \cup upset) /\ s # AdHoc
      BY <2>1, <1>2, TriggerAssumption DEF ReadSchedule, InFlight
    <3>2. \A q \in Requests \ {r} : ~(InFlight(q) /\ call[q].dest = s)
      BY <3>1 DEF Tracked
    <3>3. Fits(pc[r], call[r].key, key[s], lastRun[s], prev[r])
      BY <3>1 DEF Tracked
    <3>4. Fits(pc'[r], call'[r].key, key'[s], lastRun'[s], prev'[r])
      BY <1>2, <3>1, <3>3 DEF ReadSchedule, Fits, Accepted, rowVars, Goto, Answer, TypeOK
    <3>. QED BY <3>2, <3>4
  <2>. QED BY <2>1, <2>2, <2>3, <2>4, TrackedKept
<1>3. ASSUME NEW r \in Requests, StoreKey(r)
      PROVE  Tracked'
  <2>1. /\ deleted \subseteq deleted' /\ upset \subseteq upset' /\ pc'[r] # "new"
        /\ call'[r] = call[r] \/ pc[r] = "new"
    BY <1>3 DEF StoreKey, rowVars, Goto, Answer, TypeOK, InFlight
  <2>2. \A q \in Requests \ {r} : pc'[q] = pc[q] /\ prev'[q] = prev[q] /\ call'[q] = call[q]
    BY <1>3 DEF StoreKey, rowVars, Goto, Answer, TypeOK
  <2>3. \A s \in Schedules : s # call'[r].dest => key'[s] = key[s] /\ lastRun'[s] = lastRun[s]
    BY <1>3 DEF StoreKey, rowVars, Goto, Answer, TypeOK, Accepted
  <2>4. \A s \in Schedules \ (deleted' \cup upset') : s = call'[r].dest =>
            /\ \A q \in Requests \ {r} : ~(InFlight(q) /\ call[q].dest = s)
            /\ Fits(pc'[r], call'[r].key, key'[s], lastRun'[s], prev'[r])
    <3>. SUFFICES ASSUME NEW s \in Schedules, s \notin deleted', s \notin upset',
                         s = call'[r].dest
                  PROVE  /\ \A q \in Requests \ {r} : ~(InFlight(q) /\ call[q].dest = s)
                         /\ Fits(pc'[r], call'[r].key, key'[s], lastRun'[s], prev'[r])
      OBVIOUS
    <3>1. InFlight(r) /\ call[r].dest = s /\ s \in Schedules \ (deleted \cup upset) /\ s # AdHoc
      BY <2>1, <1>3, TriggerAssumption DEF StoreKey, InFlight
    <3>2. \A q \in Requests \ {r} : ~(InFlight(q) /\ call[q].dest = s)
      BY <3>1 DEF Tracked
    <3>3. Fits(pc[r], call[r].key, key[s], lastRun[s], prev[r])
      BY <3>1 DEF Tracked
    <3>4. Fits(pc'[r], call'[r].key, key'[s], lastRun'[s], prev'[r])
      BY <1>3, <3>1, <3>3 DEF StoreKey, Fits, Accepted, rowVars, Goto, Answer, TypeOK
    <3>. QED BY <3>2, <3>4
  <2>. QED BY <2>1, <2>2, <2>3, <2>4, TrackedKept
<1>4. ASSUME NEW r \in Requests, Insert(r)
      PROVE  Tracked'
  <2>1. /\ deleted \subseteq deleted' /\ upset \subseteq upset' /\ pc'[r] # "new"
        /\ call'[r] = call[r] \/ pc[r] = "new"
    BY <1>4 DEF Insert, rowVars, Goto, Answer, TypeOK, InFlight
  <2>2. \A q \in Requests \ {r} : pc'[q] = pc[q] /\ prev'[q] = prev[q] /\ call'[q] = call[q]
    BY <1>4 DEF Insert, rowVars, Goto, Answer, TypeOK
  <2>3. \A s \in Schedules : s # call'[r].dest => key'[s] = key[s] /\ lastRun'[s] = lastRun[s]
    BY <1>4 DEF Insert, rowVars, Goto, Answer, TypeOK, Accepted
  <2>4. \A s \in Schedules \ (deleted' \cup upset') : s = call'[r].dest =>
            /\ \A q \in Requests \ {r} : ~(InFlight(q) /\ call[q].dest = s)
            /\ Fits(pc'[r], call'[r].key, key'[s], lastRun'[s], prev'[r])
    BY <1>4, TriggerAssumption DEF Insert, Placed
  <2>. QED BY <2>1, <2>2, <2>3, <2>4, TrackedKept
<1>5. ASSUME NEW r \in Requests, LookAgain(r)
      PROVE  Tracked'
  <2>1. /\ deleted \subseteq deleted' /\ upset \subseteq upset' /\ pc'[r] # "new"
        /\ call'[r] = call[r] \/ pc[r] = "new"
    BY <1>5 DEF LookAgain, rowVars, Goto, Answer, TypeOK, InFlight
  <2>2. \A q \in Requests \ {r} : pc'[q] = pc[q] /\ prev'[q] = prev[q] /\ call'[q] = call[q]
    BY <1>5 DEF LookAgain, rowVars, Goto, Answer, TypeOK
  <2>3. \A s \in Schedules : s # call'[r].dest => key'[s] = key[s] /\ lastRun'[s] = lastRun[s]
    BY <1>5 DEF LookAgain, rowVars, Goto, Answer, TypeOK, Accepted
  <2>4. \A s \in Schedules \ (deleted' \cup upset') : s = call'[r].dest =>
            /\ \A q \in Requests \ {r} : ~(InFlight(q) /\ call[q].dest = s)
            /\ Fits(pc'[r], call'[r].key, key'[s], lastRun'[s], prev'[r])
    BY <1>5, TriggerAssumption DEF LookAgain, Placed
  <2>. QED BY <2>1, <2>2, <2>3, <2>4, TrackedKept
<1>6. ASSUME NEW r \in Requests, Enqueue(r)
      PROVE  Tracked'
  <2>1. /\ deleted \subseteq deleted' /\ upset \subseteq upset' /\ pc'[r] # "new"
        /\ call'[r] = call[r] \/ pc[r] = "new"
    BY <1>6 DEF Enqueue, rowVars, Goto, Answer, TypeOK, InFlight
  <2>2. \A q \in Requests \ {r} : pc'[q] = pc[q] /\ prev'[q] = prev[q] /\ call'[q] = call[q]
    BY <1>6 DEF Enqueue, rowVars, Goto, Answer, TypeOK
  <2>3. \A s \in Schedules : s # call'[r].dest => key'[s] = key[s] /\ lastRun'[s] = lastRun[s]
    BY <1>6 DEF Enqueue, rowVars, Goto, Answer, TypeOK, Accepted
  <2>4. \A s \in Schedules \ (deleted' \cup upset') : s = call'[r].dest =>
            /\ \A q \in Requests \ {r} : ~(InFlight(q) /\ call[q].dest = s)
            /\ Fits(pc'[r], call'[r].key, key'[s], lastRun'[s], prev'[r])
    <3>. SUFFICES ASSUME NEW s \in Schedules, s \notin deleted', s \notin upset',
                         s = call'[r].dest
                  PROVE  /\ \A q \in Requests \ {r} : ~(InFlight(q) /\ call[q].dest = s)
                         /\ Fits(pc'[r], call'[r].key, key'[s], lastRun'[s], prev'[r])
      OBVIOUS
    <3>1. InFlight(r) /\ call[r].dest = s /\ s \in Schedules \ (deleted \cup upset) /\ s # AdHoc
      BY <2>1, <1>6, TriggerAssumption DEF Enqueue, InFlight
    <3>2. \A q \in Requests \ {r} : ~(InFlight(q) /\ call[q].dest = s)
      BY <3>1 DEF Tracked
    <3>3. Fits(pc[r], call[r].key, key[s], lastRun[s], prev[r])
      BY <3>1 DEF Tracked
    <3>4. Fits(pc'[r], call'[r].key, key'[s], lastRun'[s], prev'[r])
      BY <1>6, <3>1, <3>3 DEF Enqueue, Fits, Accepted, rowVars, Goto, Answer, TypeOK
    <3>. QED BY <3>2, <3>4
  <2>. QED BY <2>1, <2>2, <2>3, <2>4, TrackedKept
<1>7. ASSUME NEW r \in Requests, EnqueueFails(r)
      PROVE  Tracked'
  <2>1. /\ deleted \subseteq deleted' /\ upset \subseteq upset' /\ pc'[r] # "new"
        /\ call'[r] = call[r] \/ pc[r] = "new"
    BY <1>7 DEF EnqueueFails, rowVars, Goto, Answer, TypeOK, InFlight
  <2>2. \A q \in Requests \ {r} : pc'[q] = pc[q] /\ prev'[q] = prev[q] /\ call'[q] = call[q]
    BY <1>7 DEF EnqueueFails, rowVars, Goto, Answer, TypeOK
  <2>3. \A s \in Schedules : s # call'[r].dest => key'[s] = key[s] /\ lastRun'[s] = lastRun[s]
    BY <1>7 DEF EnqueueFails, rowVars, Goto, Answer, TypeOK, Accepted
  <2>4. \A s \in Schedules \ (deleted' \cup upset') : s = call'[r].dest =>
            /\ \A q \in Requests \ {r} : ~(InFlight(q) /\ call[q].dest = s)
            /\ Fits(pc'[r], call'[r].key, key'[s], lastRun'[s], prev'[r])
    <3>. SUFFICES ASSUME NEW s \in Schedules, s \notin deleted', s \notin upset',
                         s = call'[r].dest
                  PROVE  /\ \A q \in Requests \ {r} : ~(InFlight(q) /\ call[q].dest = s)
                         /\ Fits(pc'[r], call'[r].key, key'[s], lastRun'[s], prev'[r])
      OBVIOUS
    <3>1. InFlight(r) /\ call[r].dest = s /\ s \in Schedules \ (deleted \cup upset) /\ s # AdHoc
      BY <2>1, <1>7, TriggerAssumption DEF EnqueueFails, InFlight
    <3>2. \A q \in Requests \ {r} : ~(InFlight(q) /\ call[q].dest = s)
      BY <3>1 DEF Tracked
    <3>3. Fits(pc[r], call[r].key, key[s], lastRun[s], prev[r])
      BY <3>1 DEF Tracked
    <3>4. Fits(pc'[r], call'[r].key, key'[s], lastRun'[s], prev'[r])
      BY <1>7, <3>1, <3>3 DEF EnqueueFails, Fits, Accepted, rowVars, Goto, Answer, TypeOK
    <3>. QED BY <3>2, <3>4
  <2>. QED BY <2>1, <2>2, <2>3, <2>4, TrackedKept
<1>8. ASSUME NEW r \in Requests, Discard(r)
      PROVE  Tracked'
  <2>1. /\ deleted \subseteq deleted' /\ upset \subseteq upset' /\ pc'[r] # "new"
        /\ call'[r] = call[r] \/ pc[r] = "new"
    BY <1>8 DEF Discard, rowVars, Goto, Answer, TypeOK, InFlight
  <2>2. \A q \in Requests \ {r} : pc'[q] = pc[q] /\ prev'[q] = prev[q] /\ call'[q] = call[q]
    BY <1>8 DEF Discard, rowVars, Goto, Answer, TypeOK
  <2>3. \A s \in Schedules : s # call'[r].dest => key'[s] = key[s] /\ lastRun'[s] = lastRun[s]
    BY <1>8 DEF Discard, rowVars, Goto, Answer, TypeOK, Accepted
  <2>4. \A s \in Schedules \ (deleted' \cup upset') : s = call'[r].dest =>
            /\ \A q \in Requests \ {r} : ~(InFlight(q) /\ call[q].dest = s)
            /\ Fits(pc'[r], call'[r].key, key'[s], lastRun'[s], prev'[r])
    <3>. SUFFICES ASSUME NEW s \in Schedules, s \notin deleted', s \notin upset',
                         s = call'[r].dest
                  PROVE  /\ \A q \in Requests \ {r} : ~(InFlight(q) /\ call[q].dest = s)
                         /\ Fits(pc'[r], call'[r].key, key'[s], lastRun'[s], prev'[r])
      OBVIOUS
    <3>1. InFlight(r) /\ call[r].dest = s /\ s \in Schedules \ (deleted \cup upset) /\ s # AdHoc
      BY <2>1, <1>8, TriggerAssumption DEF Discard, InFlight
    <3>2. \A q \in Requests \ {r} : ~(InFlight(q) /\ call[q].dest = s)
      BY <3>1 DEF Tracked
    <3>3. Fits(pc[r], call[r].key, key[s], lastRun[s], prev[r])
      BY <3>1 DEF Tracked
    <3>4. Fits(pc'[r], call'[r].key, key'[s], lastRun'[s], prev'[r])
      BY <1>8, <3>1, <3>3 DEF Discard, Fits, Accepted, rowVars, Goto, Answer, TypeOK
    <3>. QED BY <3>2, <3>4
  <2>. QED BY <2>1, <2>2, <2>3, <2>4, TrackedKept
<1>9. ASSUME NEW r \in Requests, Dies(r)
      PROVE  Tracked'
  <2>1. /\ deleted \subseteq deleted' /\ upset \subseteq upset' /\ pc'[r] # "new"
        /\ call'[r] = call[r] \/ pc[r] = "new"
    BY <1>9 DEF Dies, rowVars, Goto, Answer, TypeOK, InFlight
  <2>2. \A q \in Requests \ {r} : pc'[q] = pc[q] /\ prev'[q] = prev[q] /\ call'[q] = call[q]
    BY <1>9 DEF Dies, rowVars, Goto, Answer, TypeOK
  <2>3. \A s \in Schedules : s # call'[r].dest => key'[s] = key[s] /\ lastRun'[s] = lastRun[s]
    BY <1>9 DEF Dies, rowVars, Goto, Answer, TypeOK, Accepted
  <2>4. \A s \in Schedules \ (deleted' \cup upset') : s = call'[r].dest =>
            /\ \A q \in Requests \ {r} : ~(InFlight(q) /\ call[q].dest = s)
            /\ Fits(pc'[r], call'[r].key, key'[s], lastRun'[s], prev'[r])
    BY <1>9 DEF Dies
  <2>. QED BY <2>1, <2>2, <2>3, <2>4, TrackedKept
<1>10. ASSUME NEW r \in Requests, Tell(r)
       PROVE  Tracked'
  <2>1. /\ deleted \subseteq deleted' /\ upset \subseteq upset' /\ pc'[r] # "new"
        /\ call'[r] = call[r] \/ pc[r] = "new"
    BY <1>10 DEF Tell, rowVars, Goto, Answer, TypeOK, InFlight
  <2>2. \A q \in Requests \ {r} : pc'[q] = pc[q] /\ prev'[q] = prev[q] /\ call'[q] = call[q]
    BY <1>10 DEF Tell, rowVars, Goto, Answer, TypeOK
  <2>3. \A s \in Schedules : s # call'[r].dest => key'[s] = key[s] /\ lastRun'[s] = lastRun[s]
    BY <1>10 DEF Tell, rowVars, Goto, Answer, TypeOK, Accepted
  <2>4. \A s \in Schedules \ (deleted' \cup upset') : s = call'[r].dest =>
            /\ \A q \in Requests \ {r} : ~(InFlight(q) /\ call[q].dest = s)
            /\ Fits(pc'[r], call'[r].key, key'[s], lastRun'[s], prev'[r])
    <3>. SUFFICES ASSUME NEW s \in Schedules, s \notin deleted', s \notin upset',
                         s = call'[r].dest
                  PROVE  /\ \A q \in Requests \ {r} : ~(InFlight(q) /\ call[q].dest = s)
                         /\ Fits(pc'[r], call'[r].key, key'[s], lastRun'[s], prev'[r])
      OBVIOUS
    <3>1. InFlight(r) /\ call[r].dest = s /\ s \in Schedules \ (deleted \cup upset) /\ s # AdHoc
      BY <2>1, <1>10, TriggerAssumption DEF Tell, InFlight
    <3>2. \A q \in Requests \ {r} : ~(InFlight(q) /\ call[q].dest = s)
      BY <3>1 DEF Tracked
    <3>3. Fits(pc[r], call[r].key, key[s], lastRun[s], prev[r])
      BY <3>1 DEF Tracked
    <3>4. Fits(pc'[r], call'[r].key, key'[s], lastRun'[s], prev'[r])
      BY <1>10, <3>1, <3>3 DEF Tell, Fits, Accepted, rowVars, Goto, Answer, TypeOK
    <3>. QED BY <3>2, <3>4
  <2>. QED BY <2>1, <2>2, <2>3, <2>4, TrackedKept
<1>11. ASSUME NEW ids, DeleteRows(ids)
       PROVE  Tracked'
  BY <1>11 DEF DeleteRows, Tracked, Fits, InFlight
<1>12. CASE UNCHANGED shared
  BY <1>12 DEF shared, rowVars, Tracked, Fits, InFlight
<1>. QED
  BY <1>1, <1>2, <1>3, <1>4, <1>5, <1>6, <1>7, <1>8, <1>9, <1>10, <1>11, <1>12
  DEF HandlerStep

\* As long as requests follow one another, the key is that of the last run.
THEOREM KeyTracksRun == Spec => []KeyIsLastRun
<1>1. TypeOK /\ Placed /\ Tracked /\ [Next]_allVars => Tracked'
  BY StepOfHandlers, TrackedStep
<1>2. Tracked => KeyIsLastRun
  BY DEF Tracked, KeyIsLastRun
<1>. QED BY RowsOK, TrackedInit, <1>1, <1>2, PTL DEF Spec


-----------------------------------------------------------------------------
(* The tasks and their registry                                            *)

\* Every id of an ad-hoc row was handed to a request, and no request takes two.
Handed ==
    \A i \in 1..lastId : \E r \in Requests : mine[r] = i /\ pc[r] \in Passed \cup {"done"}

LEMMA HandedInit == TInit => Handed
BY DEF TInit, Init, Handed

LEMMA HandedStep ==
    ASSUME TypeOK, Placed, Handed, HandlerStep \/ UNCHANGED shared
    PROVE  Handed'
<1>. USE TriggerAssumption
<1>1. ASSUME NEW r \in Requests, NEW d \in Dests, NEW k \in Keys, Look(r, d, k)
      PROVE  Handed'
  <2>1. /\ UNCHANGED lastId /\ pc[r] \notin Passed \cup {"done"}
        /\ \A q \in Requests \ {r} : pc'[q] = pc[q] /\ mine'[q] = mine[q]
    BY <1>1 DEF Look, Passed, TypeOK, Goto, Answer, rowVars
  <2>. QED BY <2>1 DEF Handed
<1>2. ASSUME NEW r \in Requests, ReadSchedule(r)
      PROVE  Handed'
  BY <1>2 DEF ReadSchedule, Placed, Waiting, Passed, Handed, TypeOK, Goto, Answer, rowVars
<1>3. ASSUME NEW r \in Requests, StoreKey(r)
      PROVE  Handed'
  BY <1>3 DEF StoreKey, Placed, Waiting, Passed, Handed, TypeOK, Goto, Answer, rowVars
<1>4. ASSUME NEW r \in Requests, Insert(r)
      PROVE  Handed'
  <2>1. CASE UNCHANGED <<lastId, mine>> /\ pc' = [pc EXCEPT ![r] = "conflict"]
    BY <1>4, <2>1 DEF Insert, Handed, Passed, TypeOK
  <2>2. CASE /\ lastId' = lastId + 1 /\ mine' = [mine EXCEPT ![r] = lastId + 1]
             /\ pc' = [pc EXCEPT ![r] = "enqueue"]
    <3>1. pc[r] = "insert"
      BY <1>4 DEF Insert
    <3>2. mine'[r] = lastId + 1 /\ pc'[r] \in Passed \cup {"done"}
      BY <2>2 DEF TypeOK, Passed
    <3>3. \A i \in 1..lastId : \E q \in Requests :
              mine'[q] = i /\ pc'[q] \in Passed \cup {"done"}
      BY <2>2, <3>1 DEF Handed, Passed, TypeOK
    <3>4. \A i \in 1..lastId' : i \in 1..lastId \/ i = lastId + 1
      BY <2>2 DEF TypeOK
    <3>. QED BY <3>2, <3>3, <3>4 DEF Handed, Passed
  <2>. QED BY <1>4, <2>1, <2>2 DEF Insert, Goto
<1>5. ASSUME NEW r \in Requests, LookAgain(r)
      PROVE  Handed'
  <2>1. /\ UNCHANGED lastId /\ pc[r] \notin Passed \cup {"done"}
        /\ \A q \in Requests \ {r} : pc'[q] = pc[q] /\ mine'[q] = mine[q]
    BY <1>5 DEF LookAgain, Passed, TypeOK, Goto, Answer, rowVars
  <2>. QED BY <2>1 DEF Handed
<1>6. ASSUME NEW r \in Requests, Enqueue(r)
      PROVE  Handed'
  BY <1>6 DEF Enqueue, Placed, Waiting, Passed, Handed, TypeOK, Goto, Answer, rowVars
<1>7. ASSUME NEW r \in Requests, EnqueueFails(r)
      PROVE  Handed'
  BY <1>7 DEF EnqueueFails, Placed, Waiting, Passed, Handed, TypeOK, Goto, Answer, rowVars
<1>8. ASSUME NEW r \in Requests, Discard(r)
      PROVE  Handed'
  BY <1>8 DEF Discard, Placed, Waiting, Passed, Handed, TypeOK, Goto, Answer, rowVars
<1>9. ASSUME NEW r \in Requests, Dies(r)
      PROVE  Handed'
  BY <1>9 DEF Dies, InFlight, Placed, Waiting, Passed, Handed, TypeOK, Goto, Answer, rowVars
<1>10. ASSUME NEW r \in Requests, Tell(r)
       PROVE  Handed'
  BY <1>10 DEF Tell, Placed, Waiting, Passed, Handed, TypeOK, Goto, Answer, rowVars
<1>11. ASSUME NEW ids, DeleteRows(ids)
       PROVE  Handed'
  BY <1>11 DEF DeleteRows, Handed
<1>12. CASE UNCHANGED shared
  BY <1>12 DEF shared, rowVars, Handed
<1>. QED
  BY <1>1, <1>2, <1>3, <1>4, <1>5, <1>6, <1>7, <1>8, <1>9, <1>10, <1>11, <1>12
  DEF HandlerStep

\* There are not more ids than requests.
LEMMA EnoughIds ==
    ASSUME TypeOK, Handed
    PROVE  lastId <= Cardinality(Requests) /\ Cardinality(Requests) \in Nat
<1>. DEFINE M == {mine[r] : r \in Requests}
<1>1. IsFiniteSet(Requests) /\ lastId \in Nat
  BY TriggerAssumption DEF TypeOK
<1>2. IsFiniteSet(M) /\ Cardinality(M) <= Cardinality(Requests)
  <2>1. mine \in Surjection(Requests, M)
    BY DEF Surjection, TypeOK
  <2>. QED BY <1>1, <2>1, FS_Surjection
<1>3. 1..lastId \subseteq M
  BY DEF Handed
<1>4. Cardinality(1..lastId) <= Cardinality(M)
  BY <1>2, <1>3, FS_Subset
<1>5. Cardinality(1..lastId) = lastId
  <2>1. Cardinality(1..lastId) = IF 1 > lastId THEN 0 ELSE lastId - 1 + 1
    BY <1>1, FS_Interval
  <2>. QED BY <1>1, <2>1
<1>6. Cardinality(M) \in Nat /\ Cardinality(Requests) \in Nat
  BY <1>1, <1>2, FS_CardinalityType
<1>. HIDE DEF M
<1>. QED BY <1>1, <1>2, <1>4, <1>5, <1>6

\* What a message says of its sync no longer changes.
LEMMA SyncKnown ==
    ASSUME TypeOK, Rows, Handed, NEW m \in tasks
    PROVE  SyncOf(m.req) \in RowIds /\ m.req \in Requests
<1>1. /\ m.req \in Requests /\ m.row = mine[m.req] /\ m.dest = call[m.req].dest
      /\ m.dest = AdHoc <=> m.row # None
      /\ m.dest \in Dests /\ m.row \in (1..lastId) \cup {None}
  BY DEF TypeOK, Rows
<1>2. lastId <= Cardinality(Requests) /\ Cardinality(Requests) \in Nat /\ lastId \in Nat
  BY EnoughIds DEF TypeOK
<1>3. CASE m.dest = AdHoc
  <2>1. m.row \in 1..Cardinality(Requests)
    BY <1>1, <1>2, <1>3
  <2>. QED BY <1>1, <1>3, <2>1 DEF SyncOf, RowIds
<1>4. CASE m.dest # AdHoc
  BY <1>1, <1>4 DEF SyncOf, RowIds, Dests
<1>. QED BY <1>3, <1>4

LEMMA SyncStays ==
    ASSUME TypeOK, Rows, HandlerStep \/ UNCHANGED shared, NEW m \in tasks
    PROVE  m \in tasks' /\ SyncOf(m.req)' = SyncOf(m.req)
<1>1. m.req \in Requests /\ pc[m.req] \in {"register", "discard", "done"}
  BY DEF TypeOK, Rows
<1>2. m \in tasks' /\ call'[m.req] = call[m.req] /\ mine'[m.req] = mine[m.req]
  <2>. USE <1>1 DEF TypeOK, rowVars
  <2>1. ASSUME NEW r \in Requests, NEW d \in Dests, NEW k \in Keys, Look(r, d, k)
        PROVE  m \in tasks' /\ call'[m.req] = call[m.req] /\ mine'[m.req] = mine[m.req]
    BY <2>1 DEF Look
  <2>2. ASSUME NEW r \in Requests, ReadSchedule(r)
        PROVE  m \in tasks' /\ call'[m.req] = call[m.req] /\ mine'[m.req] = mine[m.req]
    BY <2>2 DEF ReadSchedule
  <2>3. ASSUME NEW r \in Requests, StoreKey(r)
        PROVE  m \in tasks' /\ call'[m.req] = call[m.req] /\ mine'[m.req] = mine[m.req]
    BY <2>3 DEF StoreKey
  <2>4. ASSUME NEW r \in Requests, Insert(r)
        PROVE  m \in tasks' /\ call'[m.req] = call[m.req] /\ mine'[m.req] = mine[m.req]
    BY <2>4 DEF Insert
  <2>5. ASSUME NEW r \in Requests, LookAgain(r)
        PROVE  m \in tasks' /\ call'[m.req] = call[m.req] /\ mine'[m.req] = mine[m.req]
    BY <2>5 DEF LookAgain, RowOf
  <2>6. ASSUME NEW r \in Requests, Enqueue(r)
        PROVE  m \in tasks' /\ call'[m.req] = call[m.req] /\ mine'[m.req] = mine[m.req]
    BY <2>6 DEF Enqueue, Accepted
  <2>7. ASSUME NEW r \in Requests, EnqueueFails(r)
        PROVE  m \in tasks' /\ call'[m.req] = call[m.req] /\ mine'[m.req] = mine[m.req]
    BY <2>7 DEF EnqueueFails, Accepted
  <2>8. ASSUME NEW r \in Requests, Discard(r)
        PROVE  m \in tasks' /\ call'[m.req] = call[m.req] /\ mine'[m.req] = mine[m.req]
    BY <2>8 DEF Discard
  <2>9. ASSUME NEW r \in Requests, Dies(r)
        PROVE  m \in tasks' /\ call'[m.req] = call[m.req] /\ mine'[m.req] = mine[m.req]
    BY <2>9 DEF Dies, InFlight
  <2>10. ASSUME NEW r \in Requests, Tell(r)
         PROVE  m \in tasks' /\ call'[m.req] = call[m.req] /\ mine'[m.req] = mine[m.req]
    BY <2>10 DEF Tell
  <2>11. ASSUME NEW ids, DeleteRows(ids)
         PROVE  m \in tasks' /\ call'[m.req] = call[m.req] /\ mine'[m.req] = mine[m.req]
    BY <2>11 DEF DeleteRows
  <2>12. CASE UNCHANGED shared
    BY <2>12 DEF shared
  <2>. QED BY <2>1, <2>2, <2>3, <2>4, <2>5, <2>6, <2>7, <2>8, <2>9, <2>10, <2>11, <2>12
    DEF HandlerStep
<1>. QED BY <1>2 DEF SyncOf

\* Whoever has a stage has a message, every message has a parent, and only
\* tasks are registered or revoked.
Staged ==
    /\ st \in [TaskIds -> Stages]
    /\ reg \in [RowIds -> SUBSET TaskIds]
    /\ \A t \in TaskIds : st[t] # "absent" => \E m \in tasks : m.req = t[1]
    /\ \A m \in tasks : st[Parent(m.req)] # "absent"
    /\ revoked \subseteq TaskIds /\ \A t \in revoked : st[t] # "absent"
    /\ \A id \in RowIds : \A t \in reg[id] : st[t] # "absent"
    /\ \A t \in TaskIds : st[t] = "spawned" => st[Child(t)] # "absent"

LEMMA StagedInit == TInit => Staged
BY DEF TInit, Init, Staged, Stages

\* What a task at work knows of its sync.
LEMMA TaskSync ==
    ASSUME TypeOK, Rows, Handed, Staged, NEW t \in TaskIds, st[t] # "absent"
    PROVE  SyncOf(t[1]) \in RowIds /\ t[1] \in Requests
<1>1. PICK m \in tasks : m.req = t[1]
  BY DEF Staged
<1>. QED BY <1>1, SyncKnown

LEMMA TaskSyncStays ==
    ASSUME TypeOK, Rows, HandlerStep \/ UNCHANGED shared, Staged, NEW t \in TaskIds,
           st[t] # "absent"
    PROVE  SyncOf(t[1])' = SyncOf(t[1])
<1>1. PICK m \in tasks : m.req = t[1]
  BY DEF Staged
<1>. QED BY <1>1, SyncStays

\* A handler's step leaves the registry alone, and a message arrives.
LEMMA Arrivals ==
    ASSUME TypeOK, Staged, Arrived
    PROVE  /\ st' \in [TaskIds -> Stages]
           /\ \A t \in TaskIds : st'[t] = st[t] \/
                 (/\ st[t] = "absent" /\ st'[t] = "waiting" /\ t[2] = "parent"
                  /\ \E m \in tasks' : m.req = t[1])
           /\ \A m \in tasks' : m.req \in Requests => st'[Parent(m.req)] # "absent"
<1>1. st' \in [TaskIds -> Stages]
  BY DEF Arrived, Staged, Stages
<1>2. \A t \in TaskIds :
          st'[t] = IF st[t] = "absent" /\ t[2] = "parent" /\ \E m \in tasks' : m.req = t[1]
                   THEN "waiting" ELSE st[t]
  BY DEF Arrived
<1>3. \A m \in tasks' : m.req \in Requests => st'[Parent(m.req)] # "absent"
  <2>. SUFFICES ASSUME NEW m \in tasks', m.req \in Requests
                PROVE  st'[Parent(m.req)] # "absent"
    OBVIOUS
  <2>1. /\ Parent(m.req) \in TaskIds /\ Parent(m.req)[1] = m.req /\ Parent(m.req)[2] = "parent"
    BY DEF Parent, TaskIds
  <2>. HIDE DEF Parent
  <2>. QED BY <1>2, <2>1
<1>. QED BY <1>1, <1>2, <1>3

LEMMA StagedStep ==
    ASSUME TypeOK, Placed, Rows, Handed, Staged, [Next]_allVars
    PROVE  Staged'
<1>1. ASSUME NEW r \in Requests, Trigger(r)
      PROVE  Staged'
  <2>1. tasks \subseteq tasks' /\ UNCHANGED <<reg, revoked>> /\ Arrived
    BY <1>1, SyncStays, StepOfHandlers DEF Trigger, registry
  <2>2. \A m \in tasks' : m.req \in Requests
    BY StepOfHandlers, TypeStep DEF TypeOK
  <2>3. \A t \in TaskIds : st'[t] = "spawned" => st'[Child(t)] # "absent"
    <3>1. \A t \in TaskIds : Child(t) \in TaskIds
      BY DEF TaskIds, Child
    <3>. QED BY <2>1, <3>1, Arrivals DEF Staged
  <2>. QED BY <2>1, <2>2, <2>3, Arrivals DEF Staged
<1>2. ASSUME NEW r \in Requests, Registers(r)
      PROVE  Staged'
  BY <1>2 DEF Registers, Tell, rowVars, Staged
<1>3. ASSUME NEW t \in TaskIds, Enter(t)
      PROVE  Staged'
  <2>1. UNCHANGED tasks /\ t \in TaskIds /\ st[t] # "absent"
    BY <1>3 DEF Enter, To, vars, AtWork, Staged
  <2>2. st' \in [TaskIds -> Stages] /\ \A u \in TaskIds : st[u] # "absent" => st'[u] # "absent"
    BY <1>3, <2>1 DEF Enter, To, Staged, Stages
  <2>3. \A u \in TaskIds : st'[u] # "absent" => st[u] # "absent"
    BY <1>3, <2>1 DEF Enter, To, Staged
  <2>4. \A u \in TaskIds : st'[u] = "spawned" => st[u] = "spawned"
    BY <1>3, <2>1 DEF Enter, To, Staged
  <2>5. /\ \A m \in tasks : Parent(m.req) \in TaskIds
        /\ \A u \in TaskIds : Child(u) \in TaskIds
    BY DEF TypeOK, TaskIds, Parent, Child
  <2>6. UNCHANGED reg /\ revoked' \subseteq revoked
    BY <1>3 DEF Enter, To, vars, registry
  <2>. QED BY <2>1, <2>2, <2>3, <2>4, <2>5, <2>6 DEF Staged
<1>4. ASSUME NEW t \in TaskIds, Register(t)
      PROVE  Staged'
  <2>1. UNCHANGED tasks /\ t \in TaskIds /\ st[t] # "absent"
    BY <1>4 DEF Register, To, vars, AtWork, Staged
  <2>2. st' \in [TaskIds -> Stages] /\ \A u \in TaskIds : st[u] # "absent" => st'[u] # "absent"
    BY <1>4, <2>1 DEF Register, To, Staged, Stages
  <2>3. \A u \in TaskIds : st'[u] # "absent" => st[u] # "absent"
    BY <1>4, <2>1 DEF Register, To, Staged
  <2>4. \A u \in TaskIds : st'[u] = "spawned" => st[u] = "spawned"
    BY <1>4, <2>1 DEF Register, To, Staged
  <2>5. /\ \A m \in tasks : Parent(m.req) \in TaskIds
        /\ \A u \in TaskIds : Child(u) \in TaskIds
    BY DEF TypeOK, TaskIds, Parent, Child
  <2>6. /\ revoked' \subseteq revoked /\ reg' \in [RowIds -> SUBSET TaskIds]
        /\ \A id \in RowIds : \A u \in reg'[id] : st[u] # "absent"
    <3>1. SyncOf(t[1]) \in RowIds
      BY <2>1, TaskSync
    <3>. QED BY <1>4, <2>1, <3>1 DEF Register, To, Staged, Child, TaskIds
  <2>. QED BY <2>1, <2>2, <2>3, <2>4, <2>5, <2>6 DEF Staged
<1>5. ASSUME NEW t \in TaskIds, Spawn(t)
      PROVE  Staged'
  <2>1. /\ st' = [st EXCEPT ![t] = "spawned", ![Child(t)] = "waiting"]
        /\ st[t] = "working" /\ UNCHANGED <<tasks, reg, revoked>>
        /\ Child(t) \in TaskIds /\ Child(t)[1] = t[1]
        /\ t[2] = "parent" /\ Child(t)[2] = "child"
    BY <1>5 DEF Spawn, Child, TaskIds, vars, registry
  <2>2. /\ \A m \in tasks : Parent(m.req) \in TaskIds
        /\ \A u \in TaskIds : Child(u) \in TaskIds
    BY DEF TypeOK, TaskIds, Parent, Child
  <2>3. st' \in [TaskIds -> Stages]
    BY <2>1 DEF Staged, Stages
  <2>4. \A u \in TaskIds : st'[u] # "absent" => st[u] # "absent" \/ u[1] = t[1]
    BY <2>1 DEF Staged
  <2>5. \A u \in TaskIds : st[u] # "absent" => st'[u] # "absent"
    BY <2>1 DEF Staged
  <2>6. /\ st'[Child(t)] = "waiting"
        /\ \A u \in TaskIds \ {t} : st'[u] = "spawned" => st[u] = "spawned"
    BY <2>1 DEF Staged
  <2>7. \A u \in TaskIds : st'[u] = "spawned" => st'[Child(u)] # "absent"
    BY <2>2, <2>5, <2>6 DEF Staged
  <2>. QED BY <2>1, <2>2, <2>3, <2>4, <2>5, <2>7 DEF Staged
<1>6. ASSUME NEW t \in TaskIds, ListChild(t)
      PROVE  Staged'
  <2>1. UNCHANGED tasks /\ t \in TaskIds /\ st[t] # "absent"
    BY <1>6 DEF ListChild, To, Forget, vars, AtWork, Staged
  <2>2. st' \in [TaskIds -> Stages] /\ \A u \in TaskIds : st[u] # "absent" => st'[u] # "absent"
    BY <1>6, <2>1 DEF ListChild, To, Forget, Staged, Stages
  <2>3. \A u \in TaskIds : st'[u] # "absent" => st[u] # "absent"
    BY <1>6, <2>1 DEF ListChild, To, Forget, Staged
  <2>4. \A u \in TaskIds : st'[u] = "spawned" => st[u] = "spawned"
    BY <1>6, <2>1 DEF ListChild, To, Forget, Staged
  <2>5. /\ \A m \in tasks : Parent(m.req) \in TaskIds
        /\ \A u \in TaskIds : Child(u) \in TaskIds
    BY DEF TypeOK, TaskIds, Parent, Child
  <2>6. /\ revoked' \subseteq revoked /\ reg' \in [RowIds -> SUBSET TaskIds]
        /\ \A id \in RowIds : \A u \in reg'[id] : st[u] # "absent"
    <3>1. SyncOf(t[1]) \in RowIds
      BY <2>1, TaskSync
    <3>. QED BY <1>6, <2>1, <3>1 DEF ListChild, To, Forget, Staged, Child, TaskIds
  <2>. QED BY <2>1, <2>2, <2>3, <2>4, <2>5, <2>6 DEF Staged
<1>7. ASSUME NEW t \in TaskIds, End(t)
      PROVE  Staged'
  <2>1. UNCHANGED tasks /\ t \in TaskIds /\ st[t] # "absent"
    BY <1>7 DEF End, To, Forget, vars, AtWork, Staged
  <2>2. st' \in [TaskIds -> Stages] /\ \A u \in TaskIds : st[u] # "absent" => st'[u] # "absent"
    BY <1>7, <2>1 DEF End, To, Forget, Staged, Stages
  <2>3. \A u \in TaskIds : st'[u] # "absent" => st[u] # "absent"
    BY <1>7, <2>1 DEF End, To, Forget, Staged
  <2>4. \A u \in TaskIds : st'[u] = "spawned" => st[u] = "spawned"
    BY <1>7, <2>1 DEF End, To, Forget, Staged
  <2>5. /\ \A m \in tasks : Parent(m.req) \in TaskIds
        /\ \A u \in TaskIds : Child(u) \in TaskIds
    BY DEF TypeOK, TaskIds, Parent, Child
  <2>6. /\ revoked' \subseteq revoked /\ reg' \in [RowIds -> SUBSET TaskIds]
        /\ \A id \in RowIds : \A u \in reg'[id] : st[u] # "absent"
    <3>1. SyncOf(t[1]) \in RowIds
      BY <2>1, TaskSync
    <3>. QED BY <1>7, <2>1, <3>1 DEF End, To, Forget, Staged, Child, TaskIds
  <2>. QED BY <2>1, <2>2, <2>3, <2>4, <2>5, <2>6 DEF Staged
<1>8. ASSUME NEW t \in TaskIds, Retry(t)
      PROVE  Staged'
  <2>1. UNCHANGED tasks /\ t \in TaskIds /\ st[t] # "absent"
    BY <1>8 DEF Retry, To, vars, AtWork, Staged
  <2>2. st' \in [TaskIds -> Stages] /\ \A u \in TaskIds : st[u] # "absent" => st'[u] # "absent"
    BY <1>8, <2>1 DEF Retry, To, Staged, Stages
  <2>3. \A u \in TaskIds : st'[u] # "absent" => st[u] # "absent"
    BY <1>8, <2>1 DEF Retry, To, Staged
  <2>4. \A u \in TaskIds : st'[u] = "spawned" => st[u] = "spawned"
    BY <1>8, <2>1 DEF Retry, To, Staged
  <2>5. /\ \A m \in tasks : Parent(m.req) \in TaskIds
        /\ \A u \in TaskIds : Child(u) \in TaskIds
    BY DEF TypeOK, TaskIds, Parent, Child
  <2>6. UNCHANGED reg /\ revoked' \subseteq revoked
    BY <1>8 DEF Retry, To, vars, registry
  <2>. QED BY <2>1, <2>2, <2>3, <2>4, <2>5, <2>6 DEF Staged
<1>9. ASSUME NEW t \in TaskIds, Terminate(t)
      PROVE  Staged'
  <2>1. UNCHANGED tasks /\ t \in TaskIds /\ st[t] # "absent"
    BY <1>9 DEF Terminate, To, Forget, vars, AtWork, Staged
  <2>2. st' \in [TaskIds -> Stages] /\ \A u \in TaskIds : st[u] # "absent" => st'[u] # "absent"
    BY <1>9, <2>1 DEF Terminate, To, Forget, Staged, Stages
  <2>3. \A u \in TaskIds : st'[u] # "absent" => st[u] # "absent"
    BY <1>9, <2>1 DEF Terminate, To, Forget, Staged
  <2>4. \A u \in TaskIds : st'[u] = "spawned" => st[u] = "spawned"
    BY <1>9, <2>1 DEF Terminate, To, Forget, Staged
  <2>5. /\ \A m \in tasks : Parent(m.req) \in TaskIds
        /\ \A u \in TaskIds : Child(u) \in TaskIds
    BY DEF TypeOK, TaskIds, Parent, Child
  <2>6. UNCHANGED reg /\ revoked' \subseteq revoked
    BY <1>9 DEF Terminate, To, Forget, vars, registry
  <2>. QED BY <2>1, <2>2, <2>3, <2>4, <2>5, <2>6 DEF Staged
<1>10. ASSUME NEW rows \in SUBSET RowIds, DeleteStarts(rows)
       PROVE  Staged'
  BY <1>10 DEF DeleteStarts, Staged, vars, registry
<1>11. ASSUME NEW id \in RowIds, Revoke(id)
       PROVE  Staged'
  <2>1. UNCHANGED <<tasks, st, reg>> /\ revoked' \subseteq revoked \cup reg[id]
    BY <1>11 DEF Revoke, vars, registry
  <2>. QED BY <2>1 DEF Staged
<1>12. ASSUME NEW id \in RowIds, DropSet(id)
       PROVE  Staged'
  BY <1>12 DEF DropSet, Staged
<1>13. CASE DeleteEnds
  BY <1>13 DEF DeleteEnds, DeleteRows, Staged, registry
<1>14. CASE UNCHANGED allVars
  BY <1>14 DEF allVars, vars, rowVars, taskVars, registry, history, Staged
<1>. QED
  BY <1>1, <1>2, <1>3, <1>4, <1>5, <1>6, <1>7,
     <1>8, <1>9, <1>10, <1>11, <1>12, <1>13, <1>14
  DEF Next

LEMMA StagedOK == Spec => [](TypeOK /\ Placed /\ Rows /\ Handed /\ Staged)
<1>1. TypeOK /\ Placed /\ Rows /\ Handed /\ Staged /\ [Next]_allVars => Handed' /\ Staged'
  BY StepOfHandlers, HandedStep, StagedStep
<1>. QED BY RowsOK, HandedInit, StagedInit, <1>1, PTL DEF Spec

\* A step of a task that leaves its sync's entries to the others.
LEMMA ListedKept ==
    ASSUME Staged, WorkIsListed, NEW t \in TaskIds, SyncOf(t[1]) \in RowIds,
           \A u \in TaskIds : SyncOf(u[1])' = SyncOf(u[1]),
           \A u \in TaskIds \ {t} :
               /\ st'[u] \in AtWork => st[u] \in AtWork
               /\ \A id \in RowIds : u \in reg[id] => u \in reg'[id]
               /\ u \in unheard \cup swept => u \in unheard' \cup swept',
           st'[t] \in AtWork => t \in reg'[SyncOf(t[1])] \/ t \in unheard' \cup swept',
           \A u \in TaskIds : st[u] \in AtWork => SyncOf(u[1]) \in RowIds
    PROVE  WorkIsListed'
BY DEF WorkIsListed

LEMMA ListedInit == TInit => WorkIsListed
BY DEF TInit, WorkIsListed, AtWork

LEMMA ListedStep ==
    ASSUME TypeOK, Placed, Rows, Handed, Staged, WorkIsListed, [Next]_allVars
    PROVE  WorkIsListed'
<1>1. ASSUME NEW r \in Requests, Trigger(r)
      PROVE  WorkIsListed'
  <2>1. UNCHANGED <<reg, unheard, swept>> /\ Arrived
    BY <1>1 DEF Trigger, registry, history
  <2>2. \A u \in TaskIds : st'[u] \in AtWork => st[u] = st'[u]
    BY <2>1, Arrivals DEF AtWork
  <2>3. \A u \in TaskIds : st[u] \in AtWork => SyncOf(u[1])' = SyncOf(u[1])
    BY StepOfHandlers, TaskSyncStays DEF AtWork
  <2>. QED BY <2>1, <2>2, <2>3 DEF WorkIsListed
<1>2. ASSUME NEW r \in Requests, Registers(r)
      PROVE  WorkIsListed'
  <2>1. UNCHANGED <<st, unheard, swept>> /\ \A id \in RowIds : reg[id] \subseteq reg'[id]
    BY <1>2 DEF Registers, registry, history
  <2>2. \A u \in TaskIds : st[u] \in AtWork =>
            SyncOf(u[1])' = SyncOf(u[1]) /\ SyncOf(u[1]) \in RowIds
    BY StepOfHandlers, TaskSyncStays, TaskSync DEF AtWork
  <2>. QED BY <2>1, <2>2 DEF WorkIsListed
<1>3. ASSUME NEW t \in TaskIds, Enter(t)
      PROVE  WorkIsListed'
  <2>1. st[t] # "absent" /\ UNCHANGED <<call, mine>>
    BY <1>3 DEF Enter, To, vars, AtWork, Staged
  <2>2. SyncOf(t[1]) \in RowIds /\ \A u \in TaskIds : SyncOf(u[1])' = SyncOf(u[1])
    BY <2>1, TaskSync DEF SyncOf
  <2>3. \A u \in TaskIds : st[u] \in AtWork => SyncOf(u[1]) \in RowIds
    BY TaskSync DEF AtWork
  <2>4. \A u \in TaskIds \ {t} :
           /\ st'[u] \in AtWork => st[u] \in AtWork
           /\ \A id \in RowIds : u \in reg[id] => u \in reg'[id]
           /\ u \in unheard \cup swept => u \in unheard' \cup swept'
    BY <1>3, <2>2 DEF Enter, To, Staged, registry, history, AtWork
  <2>5. st'[t] \in AtWork => t \in reg'[SyncOf(t[1])] \/ t \in unheard' \cup swept'
    BY <1>3, <2>2 DEF Enter, To, Staged, registry, history, AtWork, WorkIsListed
  <2>. QED BY <2>2, <2>3, <2>4, <2>5, ListedKept
<1>4. ASSUME NEW t \in TaskIds, Register(t)
      PROVE  WorkIsListed'
  <2>1. st[t] # "absent" /\ UNCHANGED <<call, mine>>
    BY <1>4 DEF Register, To, vars, AtWork, Staged
  <2>2. SyncOf(t[1]) \in RowIds /\ \A u \in TaskIds : SyncOf(u[1])' = SyncOf(u[1])
    BY <2>1, TaskSync DEF SyncOf
  <2>3. \A u \in TaskIds : st[u] \in AtWork => SyncOf(u[1]) \in RowIds
    BY TaskSync DEF AtWork
  <2>4. \A u \in TaskIds \ {t} :
           /\ st'[u] \in AtWork => st[u] \in AtWork
           /\ \A id \in RowIds : u \in reg[id] => u \in reg'[id]
           /\ u \in unheard \cup swept => u \in unheard' \cup swept'
    BY <1>4, <2>2 DEF Register, To, Staged, registry, history, AtWork
  <2>5. st'[t] \in AtWork => t \in reg'[SyncOf(t[1])] \/ t \in unheard' \cup swept'
    BY <1>4, <2>2 DEF Register, To, Staged, registry, history, AtWork, WorkIsListed
  <2>. QED BY <2>2, <2>3, <2>4, <2>5, ListedKept
<1>5. ASSUME NEW t \in TaskIds, Spawn(t)
      PROVE  WorkIsListed'
  <2>1. st[t] # "absent" /\ UNCHANGED <<call, mine>>
    BY <1>5 DEF Spawn, Child, vars, AtWork, Staged
  <2>2. SyncOf(t[1]) \in RowIds /\ \A u \in TaskIds : SyncOf(u[1])' = SyncOf(u[1])
    BY <2>1, TaskSync DEF SyncOf
  <2>3. \A u \in TaskIds : st[u] \in AtWork => SyncOf(u[1]) \in RowIds
    BY TaskSync DEF AtWork
  <2>4. \A u \in TaskIds \ {t} :
           /\ st'[u] \in AtWork => st[u] \in AtWork
           /\ \A id \in RowIds : u \in reg[id] => u \in reg'[id]
           /\ u \in unheard \cup swept => u \in unheard' \cup swept'
    BY <1>5, <2>2 DEF Spawn, Child, Staged, registry, history, AtWork
  <2>5. st'[t] \in AtWork => t \in reg'[SyncOf(t[1])] \/ t \in unheard' \cup swept'
    BY <1>5, <2>2 DEF Spawn, Child, Staged, registry, history, AtWork, WorkIsListed
  <2>. QED BY <2>2, <2>3, <2>4, <2>5, ListedKept
<1>6. ASSUME NEW t \in TaskIds, ListChild(t)
      PROVE  WorkIsListed'
  <2>1. st[t] # "absent" /\ UNCHANGED <<call, mine>>
    BY <1>6 DEF ListChild, To, Forget, vars, AtWork, Staged
  <2>2. SyncOf(t[1]) \in RowIds /\ \A u \in TaskIds : SyncOf(u[1])' = SyncOf(u[1])
    BY <2>1, TaskSync DEF SyncOf
  <2>3. \A u \in TaskIds : st[u] \in AtWork => SyncOf(u[1]) \in RowIds
    BY TaskSync DEF AtWork
  <2>4. \A u \in TaskIds \ {t} :
           /\ st'[u] \in AtWork => st[u] \in AtWork
           /\ \A id \in RowIds : u \in reg[id] => u \in reg'[id]
           /\ u \in unheard \cup swept => u \in unheard' \cup swept'
    BY <1>6, <2>2 DEF ListChild, To, Forget, Staged, registry, history, AtWork
  <2>5. st'[t] \in AtWork => t \in reg'[SyncOf(t[1])] \/ t \in unheard' \cup swept'
    BY <1>6, <2>2 DEF ListChild, To, Forget, Staged, registry, history, AtWork, WorkIsListed
  <2>. QED BY <2>2, <2>3, <2>4, <2>5, ListedKept
<1>7. ASSUME NEW t \in TaskIds, End(t)
      PROVE  WorkIsListed'
  <2>1. st[t] # "absent" /\ UNCHANGED <<call, mine>>
    BY <1>7 DEF End, To, Forget, vars, AtWork, Staged
  <2>2. SyncOf(t[1]) \in RowIds /\ \A u \in TaskIds : SyncOf(u[1])' = SyncOf(u[1])
    BY <2>1, TaskSync DEF SyncOf
  <2>3. \A u \in TaskIds : st[u] \in AtWork => SyncOf(u[1]) \in RowIds
    BY TaskSync DEF AtWork
  <2>4. \A u \in TaskIds \ {t} :
           /\ st'[u] \in AtWork => st[u] \in AtWork
           /\ \A id \in RowIds : u \in reg[id] => u \in reg'[id]
           /\ u \in unheard \cup swept => u \in unheard' \cup swept'
    BY <1>7, <2>2 DEF End, To, Forget, Staged, registry, history, AtWork
  <2>5. st'[t] \in AtWork => t \in reg'[SyncOf(t[1])] \/ t \in unheard' \cup swept'
    BY <1>7, <2>2 DEF End, To, Forget, Staged, registry, history, AtWork, WorkIsListed
  <2>. QED BY <2>2, <2>3, <2>4, <2>5, ListedKept
<1>8. ASSUME NEW t \in TaskIds, Retry(t)
      PROVE  WorkIsListed'
  <2>1. st[t] # "absent" /\ UNCHANGED <<call, mine>>
    BY <1>8 DEF Retry, To, vars, AtWork, Staged
  <2>2. SyncOf(t[1]) \in RowIds /\ \A u \in TaskIds : SyncOf(u[1])' = SyncOf(u[1])
    BY <2>1, TaskSync DEF SyncOf
  <2>3. \A u \in TaskIds : st[u] \in AtWork => SyncOf(u[1]) \in RowIds
    BY TaskSync DEF AtWork
  <2>4. \A u \in TaskIds \ {t} :
           /\ st'[u] \in AtWork => st[u] \in AtWork
           /\ \A id \in RowIds : u \in reg[id] => u \in reg'[id]
           /\ u \in unheard \cup swept => u \in unheard' \cup swept'
    BY <1>8, <2>2 DEF Retry, To, Staged, registry, history, AtWork
  <2>5. st'[t] \in AtWork => t \in reg'[SyncOf(t[1])] \/ t \in unheard' \cup swept'
    BY <1>8, <2>2 DEF Retry, To, Staged, registry, history, AtWork, WorkIsListed
  <2>. QED BY <2>2, <2>3, <2>4, <2>5, ListedKept
<1>9. ASSUME NEW t \in TaskIds, Terminate(t)
      PROVE  WorkIsListed'
  <2>1. st[t] # "absent" /\ UNCHANGED <<call, mine>>
    BY <1>9 DEF Terminate, To, Forget, vars, AtWork, Staged
  <2>2. SyncOf(t[1]) \in RowIds /\ \A u \in TaskIds : SyncOf(u[1])' = SyncOf(u[1])
    BY <2>1, TaskSync DEF SyncOf
  <2>3. \A u \in TaskIds : st[u] \in AtWork => SyncOf(u[1]) \in RowIds
    BY TaskSync DEF AtWork
  <2>4. \A u \in TaskIds \ {t} :
           /\ st'[u] \in AtWork => st[u] \in AtWork
           /\ \A id \in RowIds : u \in reg[id] => u \in reg'[id]
           /\ u \in unheard \cup swept => u \in unheard' \cup swept'
    BY <1>9, <2>2 DEF Terminate, To, Forget, Staged, registry, history, AtWork
  <2>5. st'[t] \in AtWork => t \in reg'[SyncOf(t[1])] \/ t \in unheard' \cup swept'
    BY <1>9, <2>2 DEF Terminate, To, Forget, Staged, registry, history, AtWork, WorkIsListed
  <2>. QED BY <2>2, <2>3, <2>4, <2>5, ListedKept
<1>10. ASSUME NEW rows \in SUBSET RowIds, DeleteStarts(rows)
       PROVE  WorkIsListed'
  <2>1. UNCHANGED <<st, unheard, swept>> /\ \A id \in RowIds : reg[id] \subseteq reg'[id]
    BY <1>10 DEF DeleteStarts, registry, history
  <2>2. \A u \in TaskIds : st[u] \in AtWork =>
            SyncOf(u[1])' = SyncOf(u[1]) /\ SyncOf(u[1]) \in RowIds
    BY StepOfHandlers, TaskSyncStays, TaskSync DEF AtWork
  <2>. QED BY <2>1, <2>2 DEF WorkIsListed
<1>11. ASSUME NEW id \in RowIds, Revoke(id)
       PROVE  WorkIsListed'
  <2>1. UNCHANGED <<st, unheard, swept>> /\ \A i \in RowIds : reg[i] \subseteq reg'[i]
    BY <1>11 DEF Revoke, registry, history
  <2>2. \A u \in TaskIds : st[u] \in AtWork =>
            SyncOf(u[1])' = SyncOf(u[1]) /\ SyncOf(u[1]) \in RowIds
    BY StepOfHandlers, TaskSyncStays, TaskSync DEF AtWork
  <2>. QED BY <2>1, <2>2 DEF WorkIsListed
<1>12. ASSUME NEW id \in RowIds, DropSet(id)
       PROVE  WorkIsListed'
  <2>1. UNCHANGED <<st, unheard>>
    BY <1>12 DEF DropSet
  <2>2. \A u \in TaskIds : st[u] \in AtWork =>
            SyncOf(u[1])' = SyncOf(u[1]) /\ SyncOf(u[1]) \in RowIds
    BY StepOfHandlers, TaskSyncStays, TaskSync DEF AtWork
  <2>3. CASE UNCHANGED <<reg, swept>>
    BY <2>1, <2>2, <2>3 DEF WorkIsListed
  <2>4. CASE /\ reg' = [reg EXCEPT ![id] = {}]
             /\ swept' = swept \cup {u \in reg[id] : st[u] # "over"}
    BY <2>1, <2>2, <2>4 DEF WorkIsListed, Staged, AtWork
  <2>. QED BY <1>12, <2>3, <2>4 DEF DropSet
<1>13. CASE DeleteEnds
  <2>1. UNCHANGED <<st, unheard, swept>> /\ \A id \in RowIds : reg[id] \subseteq reg'[id]
    BY <1>13 DEF DeleteEnds, registry, history
  <2>2. \A u \in TaskIds : st[u] \in AtWork =>
            SyncOf(u[1])' = SyncOf(u[1]) /\ SyncOf(u[1]) \in RowIds
    BY StepOfHandlers, TaskSyncStays, TaskSync DEF AtWork
  <2>. QED BY <2>1, <2>2 DEF WorkIsListed
<1>14. CASE UNCHANGED allVars
  BY <1>14 DEF allVars, vars, rowVars, taskVars, registry, history, WorkIsListed, SyncOf
<1>. QED
  BY <1>1, <1>2, <1>3, <1>4, <1>5, <1>6, <1>7,
     <1>8, <1>9, <1>10, <1>11, <1>12, <1>13, <1>14
  DEF Next

\* A task at work is in the set of its sync, or an error or a deletion took it out.
THEOREM WorkListed == Spec => []WorkIsListed
<1>1. /\ TypeOK /\ Placed /\ Rows /\ Handed /\ Staged /\ WorkIsListed /\ [Next]_allVars
      => WorkIsListed'
  BY ListedStep
<1>. QED BY StagedOK, ListedInit, <1>1, PTL DEF Spec

\* Once a parent has registered its mapping is there, or was lost; whoever
\* was told, had been registered by the handler before, or that was lost.
Known(r) == r \in rev \/ Parent(r) \in unheard

Mapped ==
    /\ \A r \in Requests : answer[r] = "started" =>
          r \in rev \cup unsaid /\ \E m \in tasks : m.req = r
    /\ \A r \in Requests : st[Parent(r)] \notin {"absent", "waiting", "entered"} => Known(r)
    /\ \A r \in Requests : Parent(r) \in revoked \/ (\E id \in RowIds : Parent(r) \in reg[id])
          => Known(r)

LEMMA MappedInit == TInit => Mapped
BY DEF TInit, Init, Mapped, Parent, TaskIds

LEMMA MappedStep ==
    ASSUME TypeOK, Placed, Rows, Handed, Staged, Mapped, [Next]_allVars
    PROVE  Mapped'
<1>1. ASSUME NEW r \in Requests, Trigger(r)
      PROVE  Mapped'
  <2>1. tasks \subseteq tasks' /\ UNCHANGED <<reg, rev, revoked, unsaid, unheard>> /\ Arrived
    BY <1>1, SyncStays, StepOfHandlers DEF Trigger, registry, history
  <2>2. \A q \in Requests : answer'[q] = "started" => answer[q] = "started"
    <3>1. \A d \in Dests, k \in Keys : Look(r, d, k) =>
              answer' = [answer EXCEPT ![r] = answer'[r]] /\ answer'[r] \in {answer[r], "exists"}
      BY DEF Look, Answer, Goto, TypeOK
    <3>2. CASE \E d \in Dests, k \in Keys : Look(r, d, k)
      BY <3>1, <3>2 DEF TypeOK
    <3>3. CASE ReadSchedule(r) \/ StoreKey(r) \/ Insert(r) \/ LookAgain(r)
      BY <3>3 DEF ReadSchedule, StoreKey, Insert, LookAgain, Answer, Goto, TypeOK
    <3>4. CASE Enqueue(r) \/ EnqueueFails(r) \/ Discard(r) \/ Dies(r)
      BY <3>4 DEF Enqueue, EnqueueFails, Discard, Dies, Answer, Goto, TypeOK
    <3>. QED BY <1>1, <3>2, <3>3, <3>4 DEF Trigger, Handle
  <2>3. \A q \in Requests : Parent(q) \in TaskIds
    BY DEF Parent, TaskIds
  <2>4. \A q \in Requests : st'[Parent(q)] \notin {"absent", "waiting", "entered"}
            => st'[Parent(q)] = st[Parent(q)]
    BY <2>1, <2>3, Arrivals
  <2>. QED BY <2>1, <2>2, <2>4 DEF Mapped, Known
<1>2. ASSUME NEW r \in Requests, Registers(r)
      PROVE  Mapped'
  <2>1. /\ answer' = [answer EXCEPT ![r] = "started"] /\ pc[r] = "register"
        /\ UNCHANGED <<tasks, st, reg, revoked, unheard>>
    BY <1>2 DEF Registers, Tell, Answer
  <2>2. rev \subseteq rev' /\ unsaid \subseteq unsaid' /\ r \in rev' \cup unsaid'
    BY <1>2 DEF Registers
  <2>3. \E m \in tasks : m.req = r
    BY <2>1 DEF Rows
  <2>. QED BY <2>1, <2>2, <2>3 DEF Mapped, Known, TypeOK
<1>3. ASSUME NEW t \in TaskIds, Enter(t)
      PROVE  Mapped'
  <2>1. st[t] # "absent" /\ UNCHANGED <<tasks, answer, unsaid>> /\ rev \subseteq rev'
    BY <1>3 DEF Enter, To, vars, registry, history, AtWork, Staged
  <2>2. SyncOf(t[1]) \in RowIds /\ t[1] \in Requests
    BY <2>1, TaskSync
  <2>3. \A q \in Requests : Parent(q) \in TaskIds /\ Parent(q)[1] = q /\ Parent(q)[2] = "parent"
    BY DEF Parent, TaskIds
  <2>4. \A q \in Requests : t = Parent(q) => t[1] = q
    BY <2>3
  <2>5. \A q \in Requests : Known(q) => Known(q)'
    BY <1>3, <2>1, <2>3 DEF Enter, To, Known, registry, history
  <2>6. \A q \in Requests : st'[Parent(q)] \notin {"absent", "waiting", "entered"} => Known(q)'
    BY <1>3, <2>3, <2>5 DEF Enter, To, Staged, Mapped, AtWork, Known
  <2>7. \A q \in Requests : Parent(q) \in revoked'
            \/ (\E id \in RowIds : Parent(q) \in reg'[id])
            => Known(q)'
    BY <1>3, <2>2, <2>3, <2>5 DEF Enter, To, Staged, Mapped, registry, history, Known
  <2>. QED BY <2>1, <2>5, <2>6, <2>7 DEF Mapped
<1>4. ASSUME NEW t \in TaskIds, Register(t)
      PROVE  Mapped'
  <2>1. st[t] # "absent" /\ UNCHANGED <<tasks, answer, unsaid>> /\ rev \subseteq rev'
    BY <1>4 DEF Register, To, vars, registry, history, AtWork, Staged
  <2>2. SyncOf(t[1]) \in RowIds /\ t[1] \in Requests
    BY <2>1, TaskSync
  <2>3. \A q \in Requests : Parent(q) \in TaskIds /\ Parent(q)[1] = q /\ Parent(q)[2] = "parent"
    BY DEF Parent, TaskIds
  <2>4. \A q \in Requests : t = Parent(q) => t[1] = q
    BY <2>3
  <2>5. \A q \in Requests : Known(q) => Known(q)'
    BY <1>4, <2>1, <2>3 DEF Register, To, Known, registry, history
  <2>6. \A q \in Requests : st'[Parent(q)] \notin {"absent", "waiting", "entered"} => Known(q)'
    BY <1>4, <2>3, <2>5 DEF Register, To, Staged, Mapped, AtWork, Known
  <2>7. \A q \in Requests : Parent(q) \in revoked'
            \/ (\E id \in RowIds : Parent(q) \in reg'[id])
            => Known(q)'
    BY <1>4, <2>2, <2>3, <2>5 DEF Register, To, Staged, Mapped, registry, history, Known
  <2>. QED BY <2>1, <2>5, <2>6, <2>7 DEF Mapped
<1>5. ASSUME NEW t \in TaskIds, Spawn(t)
      PROVE  Mapped'
  <2>1. st[t] # "absent" /\ UNCHANGED <<tasks, answer, unsaid>> /\ rev \subseteq rev'
    BY <1>5 DEF Spawn, Child, vars, registry, history, AtWork, Staged
  <2>2. SyncOf(t[1]) \in RowIds /\ t[1] \in Requests
    BY <2>1, TaskSync
  <2>3. \A q \in Requests : Parent(q) \in TaskIds /\ Parent(q)[1] = q /\ Parent(q)[2] = "parent"
    BY DEF Parent, TaskIds
  <2>4. \A q \in Requests : t = Parent(q) => t[1] = q
    BY <2>3
  <2>5. \A q \in Requests : Known(q) => Known(q)'
    BY <1>5, <2>1, <2>3 DEF Spawn, Child, Known, registry, history
  <2>6. \A q \in Requests : st'[Parent(q)] \notin {"absent", "waiting", "entered"} => Known(q)'
    BY <1>5, <2>3, <2>5 DEF Spawn, Child, Staged, Mapped, AtWork, Known
  <2>7. \A q \in Requests : Parent(q) \in revoked'
            \/ (\E id \in RowIds : Parent(q) \in reg'[id])
            => Known(q)'
    BY <1>5, <2>2, <2>3, <2>5 DEF Spawn, Child, Staged, Mapped, registry, history, Known
  <2>. QED BY <2>1, <2>5, <2>6, <2>7 DEF Mapped
<1>6. ASSUME NEW t \in TaskIds, ListChild(t)
      PROVE  Mapped'
  <2>1. st[t] # "absent" /\ UNCHANGED <<tasks, answer, unsaid>> /\ rev \subseteq rev'
    BY <1>6 DEF ListChild, To, Forget, vars, registry, history, AtWork, Staged
  <2>2. SyncOf(t[1]) \in RowIds /\ t[1] \in Requests
    BY <2>1, TaskSync
  <2>3. \A q \in Requests : Parent(q) \in TaskIds /\ Parent(q)[1] = q /\ Parent(q)[2] = "parent"
    BY DEF Parent, TaskIds
  <2>4. \A q \in Requests : t = Parent(q) => t[1] = q
    BY <2>3
  <2>5. \A q \in Requests : Known(q) => Known(q)'
    BY <1>6, <2>1, <2>3 DEF ListChild, To, Forget, Known, registry, history
  <2>6. \A q \in Requests : st'[Parent(q)] \notin {"absent", "waiting", "entered"} => Known(q)'
    BY <1>6, <2>3, <2>5 DEF ListChild, To, Forget, Staged, Mapped, AtWork, Known
  <2>7. \A q \in Requests : Parent(q) \in revoked'
            \/ (\E id \in RowIds : Parent(q) \in reg'[id])
            => Known(q)'
    <3>1. \A q \in Requests : Child(t) # Parent(q)
      BY DEF Child, Parent
    <3>2. \A id \in RowIds : reg'[id] \subseteq reg[id] \cup {Child(t)}
      BY <1>6, <2>2 DEF ListChild, Staged
    <3>3. revoked' \subseteq revoked
      BY <1>6 DEF ListChild, Forget
    <3>. QED BY <2>5, <3>1, <3>2, <3>3 DEF Mapped
  <2>. QED BY <2>1, <2>5, <2>6, <2>7 DEF Mapped
<1>7. ASSUME NEW t \in TaskIds, End(t)
      PROVE  Mapped'
  <2>1. st[t] # "absent" /\ UNCHANGED <<tasks, answer, unsaid>> /\ rev \subseteq rev'
    BY <1>7 DEF End, To, Forget, vars, registry, history, AtWork, Staged
  <2>2. SyncOf(t[1]) \in RowIds /\ t[1] \in Requests
    BY <2>1, TaskSync
  <2>3. \A q \in Requests : Parent(q) \in TaskIds /\ Parent(q)[1] = q /\ Parent(q)[2] = "parent"
    BY DEF Parent, TaskIds
  <2>4. \A q \in Requests : t = Parent(q) => t[1] = q
    BY <2>3
  <2>5. \A q \in Requests : Known(q) => Known(q)'
    BY <1>7, <2>1, <2>3 DEF End, To, Forget, Known, registry, history
  <2>6. \A q \in Requests : st'[Parent(q)] \notin {"absent", "waiting", "entered"} => Known(q)'
    BY <1>7, <2>3, <2>5 DEF End, To, Forget, Staged, Mapped, AtWork, Known
  <2>7. \A q \in Requests : Parent(q) \in revoked'
            \/ (\E id \in RowIds : Parent(q) \in reg'[id])
            => Known(q)'
    BY <1>7, <2>2, <2>3, <2>5 DEF End, To, Forget, Staged, Mapped, registry, history, Known
  <2>. QED BY <2>1, <2>5, <2>6, <2>7 DEF Mapped
<1>8. ASSUME NEW t \in TaskIds, Retry(t)
      PROVE  Mapped'
  <2>1. st[t] # "absent" /\ UNCHANGED <<tasks, answer, unsaid>> /\ rev \subseteq rev'
    BY <1>8 DEF Retry, To, vars, registry, history, AtWork, Staged
  <2>2. SyncOf(t[1]) \in RowIds /\ t[1] \in Requests
    BY <2>1, TaskSync
  <2>3. \A q \in Requests : Parent(q) \in TaskIds /\ Parent(q)[1] = q /\ Parent(q)[2] = "parent"
    BY DEF Parent, TaskIds
  <2>4. \A q \in Requests : t = Parent(q) => t[1] = q
    BY <2>3
  <2>5. \A q \in Requests : Known(q) => Known(q)'
    BY <1>8, <2>1, <2>3 DEF Retry, To, Known, registry, history
  <2>6. \A q \in Requests : st'[Parent(q)] \notin {"absent", "waiting", "entered"} => Known(q)'
    BY <1>8, <2>3, <2>5 DEF Retry, To, Staged, Mapped, AtWork, Known
  <2>7. \A q \in Requests : Parent(q) \in revoked'
            \/ (\E id \in RowIds : Parent(q) \in reg'[id])
            => Known(q)'
    BY <1>8, <2>2, <2>3, <2>5 DEF Retry, To, Staged, Mapped, registry, history, Known
  <2>. QED BY <2>1, <2>5, <2>6, <2>7 DEF Mapped
<1>9. ASSUME NEW t \in TaskIds, Terminate(t)
      PROVE  Mapped'
  <2>1. st[t] # "absent" /\ UNCHANGED <<tasks, answer, unsaid>> /\ rev \subseteq rev'
    BY <1>9 DEF Terminate, To, Forget, vars, registry, history, AtWork, Staged
  <2>2. SyncOf(t[1]) \in RowIds /\ t[1] \in Requests
    BY <2>1, TaskSync
  <2>3. \A q \in Requests : Parent(q) \in TaskIds /\ Parent(q)[1] = q /\ Parent(q)[2] = "parent"
    BY DEF Parent, TaskIds
  <2>4. \A q \in Requests : t = Parent(q) => t[1] = q
    BY <2>3
  <2>5. \A q \in Requests : Known(q) => Known(q)'
    BY <1>9, <2>1, <2>3 DEF Terminate, To, Forget, Known, registry, history
  <2>6. \A q \in Requests : st'[Parent(q)] \notin {"absent", "waiting", "entered"} => Known(q)'
    BY <1>9, <2>3, <2>5 DEF Terminate, To, Forget, Staged, Mapped, AtWork, Known
  <2>7. \A q \in Requests : Parent(q) \in revoked'
            \/ (\E id \in RowIds : Parent(q) \in reg'[id])
            => Known(q)'
    BY <1>9, <2>2, <2>3, <2>5 DEF Terminate, To, Forget, Staged, Mapped, registry, history,
                                  Known
  <2>. QED BY <2>1, <2>5, <2>6, <2>7 DEF Mapped
<1>10. ASSUME NEW rows \in SUBSET RowIds, DeleteStarts(rows)
       PROVE  Mapped'
  BY <1>10 DEF DeleteStarts, DeleteRows, vars, rowVars, registry, history, Mapped, Known
<1>11. ASSUME NEW id \in RowIds, Revoke(id)
       PROVE  Mapped'
  <2>1. /\ UNCHANGED <<tasks, answer, st, reg, rev, unsaid, unheard>>
        /\ revoked' \subseteq revoked \cup reg[id]
    BY <1>11 DEF Revoke, vars, registry, history
  <2>. QED BY <2>1 DEF Mapped, Known
<1>12. ASSUME NEW id \in RowIds, DropSet(id)
       PROVE  Mapped'
  <2>1. UNCHANGED <<tasks, answer, st, revoked, rev, unsaid, unheard>>
        /\ \A i \in RowIds : reg'[i] \subseteq reg[i]
    BY <1>12 DEF DropSet, Staged
  <2>. QED BY <2>1 DEF Mapped, Known
<1>13. CASE DeleteEnds
  BY <1>13 DEF DeleteEnds, DeleteRows, vars, rowVars, registry, history, Mapped, Known
<1>14. CASE UNCHANGED allVars
  BY <1>14 DEF allVars, vars, rowVars, taskVars, registry, history, Mapped, Known
<1>. QED
  BY <1>1, <1>2, <1>3, <1>4, <1>5, <1>6, <1>7,
     <1>8, <1>9, <1>10, <1>11, <1>12, <1>13, <1>14
  DEF Next

\* Whoever was told its task may poll it, but for the moment in which both
\* mappings are missing.
THEOREM Polls == Spec => []PollResolves
<1>1. TypeOK /\ Placed /\ Rows /\ Handed /\ Staged /\ Mapped /\ [Next]_allVars => Mapped'
  BY MappedStep
<1>2. Staged /\ Mapped => PollResolves
  <2>. SUFFICES ASSUME Staged, Mapped, NEW r \in Requests, answer[r] = "started",
                       Alive(SyncOf(r)), Poll(r) = "not found"
                PROVE  r \in unsaid /\ (st[Parent(r)] = "entered" \/ Parent(r) \in unheard)
    BY DEF PollResolves
  <2>1. r \notin rev /\ st[Parent(r)] # "waiting"
    BY DEF Poll
  <2>2. r \in unsaid /\ st[Parent(r)] # "absent"
    BY <2>1, ZenonT(60) DEF Mapped, Staged
  <2>3. st[Parent(r)] # "entered" => Parent(r) \in unheard
    BY <2>1, <2>2 DEF Mapped, Known
  <2>. QED BY <2>2, <2>3
<1>. QED BY StagedOK, MappedInit, <1>1, <1>2, PTL DEF Spec
=============================================================================
