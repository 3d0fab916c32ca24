-------------------------- MODULE Scheduler_proofs --------------------------
(***************************************************************************)
(* Proofs about the scheduler, in two parts.  SyncDispatch, for every      *)
(* number of runs and targets and every bound: type correctness; that a    *)
(* schedule's runs are serial as long as nothing failed and no TTL ran     *)
(* out; that no target is lost, whatever fails.  ScheduleReload, for every *)
(* number of schedules, of requests served at a time and of changes: that  *)
(* the jobs are those of the active rows.                                  *)
(***************************************************************************)
EXTENDS SyncDispatch, ScheduleReload, FiniteSetTheorems, TLAPS

-----------------------------------------------------------------------------
(* SyncDispatch: type correctness *)

\* The number of targets is a natural number, the set of child names is finite,
\* and one execution of the parent enqueues as many children as there are targets.
LEMMA TargetFacts ==
    /\ Cardinality(Targets) \in Nat
    /\ Cardinality(Targets) # 0
    /\ IsFiniteSet(ChildIds)
    /\ \A b \in Bodies : /\ {b} \X Targets \in SUBSET ChildIds
                         /\ Cardinality({b} \X Targets) = Cardinality(Targets)
<1>1. IsFiniteSet(Targets) /\ Targets # {}
  BY TargetsAssumption
<1>2. Cardinality(Targets) \in Nat
  BY <1>1, FS_CardinalityType
<1>3. Cardinality(Targets) # 0
  BY <1>1, FS_EmptySet
<1>4. IsFiniteSet(Bodies)
  BY BoundsAssumption, FS_Interval DEF Bodies
<1>5. IsFiniteSet(ChildIds)
  BY <1>1, <1>4, FS_Product DEF ChildIds
<1>6. ASSUME NEW b \in Bodies
      PROVE  /\ {b} \X Targets \in SUBSET ChildIds
             /\ Cardinality({b} \X Targets) = Cardinality(Targets)
  <2>1. IsFiniteSet({b}) /\ Cardinality({b}) = 1
    BY FS_Singleton
  <2>2. Cardinality({b} \X Targets) = 1 * Cardinality(Targets)
    BY <1>1, <2>1, FS_Product
  <2>. QED BY <1>2, <2>2 DEF ChildIds
<1>. QED BY <1>2, <1>3, <1>5, <1>6

\* The two scripts keep the keys well typed.
LEMMA ScriptTypes ==
    ASSUME TypeOK, NEW r \in Runs,
           ReleaseScript(r) \/ ChildFinishedScript(r) \/ UNCHANGED keyVars
    PROVE  /\ lock' \in Runs \cup {NoRun} /\ lockLeft' \in 0..TTL
           /\ counter' \in [token : Runs \cup {NoRun}, n : Nat] /\ ctrLeft' \in 0..TTL
<1>. USE BoundsAssumption DEF TypeOK, keyVars, DelLock, DelCounter, NoCounter
<1>1. CASE ReleaseScript(r)
  BY <1>1 DEF ReleaseScript
<1>2. CASE ChildFinishedScript(r)
  <2>1. CASE counter.token # r
    BY <1>2, <2>1 DEF ChildFinishedScript
  <2>2. CASE counter.token = r /\ counter.n <= 1
    BY <1>2, <2>2 DEF ChildFinishedScript
  <2>3. CASE counter.token = r /\ ~(counter.n <= 1)
    <3>1. counter.n - 1 \in Nat
      BY <2>3
    <3>. QED BY <1>2, <2>3, <3>1 DEF ChildFinishedScript
  <2>. QED BY <2>1, <2>2, <2>3
<1>3. CASE UNCHANGED keyVars
  BY <1>3
<1>. QED BY <1>1, <1>2, <1>3

\* The body of a parent has started exactly when the run got that far.  Without
\* this, TypeOK says nothing of the names of the children about to be enqueued.
Started ==
    \A r \in Runs :
        /\ phase[r] \in {"fetching", "spawning", "returning", "done"} => body[r] \in Bodies
        /\ phase[r] \in {"idle", "locked", "armed"} => body[r] = 0

\* The state stays well typed, and a dispatch that has not enqueued its parent
\* has started no body.
LEMMA TypeAndStarted == Spec => [](TypeOK /\ Started)
<1>1. Init => TypeOK /\ Started
  BY BoundsAssumption
     DEF Init, TypeOK, Started, NoCounter, NoChild, Phases, ChildStates, Results
<1>2. TypeOK /\ Started /\ [Next]_vars => TypeOK' /\ Started'
  <2> SUFFICES ASSUME TypeOK, Started, [Next]_vars PROVE TypeOK' /\ Started'
    OBVIOUS
  <2> USE BoundsAssumption DEF TypeOK, Started, Phases, ChildStates, Results, keyVars,
                               taskVars, Fault, NoFault
  <2>1. ASSUME NEW r \in Runs, DispatchStep(r) PROVE TypeOK' /\ Started'
    <3>1. CASE AcquireLock(r)
      BY <3>1 DEF AcquireLock
    <3>2. CASE Refuse(r)
      BY <3>2 DEF Refuse
    <3>3. CASE FailOpen(r)
      BY <3>3 DEF FailOpen
    <3>4. CASE StoreCounter(r)
      BY <3>4, TargetFacts DEF StoreCounter
    <3>5. CASE Enqueue(r)
      BY <3>5 DEF Enqueue
    <3>6. CASE AbortDispatch(r)
      BY <3>6 DEF AbortDispatch
    <3>. QED BY <2>1, <3>1, <3>2, <3>3, <3>4, <3>5, <3>6 DEF DispatchStep
  <2>2. ASSUME NEW r \in Runs, ParentStep(r) PROVE TypeOK' /\ Started'
    <3>1. CASE ParentStart(r)
      BY <3>1 DEF ParentStart, Bodies
    <3>2. CASE ParentEndsEarly(r)
      BY <3>2, ScriptTypes DEF ParentEndsEarly, BestEffort
    <3>3. CASE FetchSucceeds(r)
      <4>1. {body[r]} \X Targets \in SUBSET ChildIds
        BY <3>3, TargetFacts DEF FetchSucceeds
      <4>. QED BY <3>3, <4>1 DEF FetchSucceeds
    <3>4. ASSUME NEW c \in ChildIds, SpawnChild(r, c) PROVE TypeOK' /\ Started'
      BY <3>4 DEF SpawnChild
    <3>5. CASE ParentDispatched(r)
      BY <3>5 DEF ParentDispatched
    <3>6. CASE ParentRetries(r)
      BY <3>6 DEF ParentRetries, ParentRaises
    <3>7. CASE FetchFails(r)
      BY <3>7, ScriptTypes DEF FetchFails, BestEffort
    <3>8. CASE SpawnFails(r)
      BY <3>8 DEF SpawnFails
    <3>9. CASE ParentAck(r)
      BY <3>9 DEF ParentAck
    <3>. QED BY <2>2, <3>1, <3>2, <3>3, <3>4, <3>5, <3>6, <3>7, <3>8, <3>9 DEF ParentStep
  <2>3. ASSUME NEW r \in Runs, NEW c \in ChildIds, ChildStep(r, c) PROVE TypeOK' /\ Started'
    <3>1. CASE ChildStart(r, c)
      BY <3>1 DEF ChildStart
    <3>2. CASE ChildRetries(r, c)
      BY <3>2 DEF ChildRetries
    <3>3. CASE ChildFinishes(r, c)
      BY <3>3, ScriptTypes DEF ChildFinishes, BestEffort
    <3>4. CASE ChildAck(r, c)
      BY <3>4 DEF ChildAck
    <3>. QED BY <2>3, <3>1, <3>2, <3>3, <3>4 DEF ChildStep
  <2>4. ASSUME NEW r \in Runs, WorkerCrash(r) PROVE TypeOK' /\ Started'
    <3>1. CASE ParentCrash(r)
      BY <3>1 DEF ParentCrash
    <3>2. CASE ParentKilled(r)
      BY <3>2 DEF ParentKilled
    <3>3. ASSUME NEW c \in ChildIds, ChildCrash(r, c) PROVE TypeOK' /\ Started'
      BY <3>3 DEF ChildCrash
    <3>4. ASSUME NEW c \in ChildIds, ChildKilled(r, c) PROVE TypeOK' /\ Started'
      BY <3>4 DEF ChildKilled
    <3>. QED BY <2>4, <3>1, <3>2, <3>3, <3>4 DEF WorkerCrash
  <2>5. CASE Tick
    BY <2>5 DEF Tick, DelLock, DelCounter, NoCounter
  <2>6. CASE UNCHANGED vars
    BY <2>6 DEF vars
  <2>. QED BY <2>1, <2>2, <2>3, <2>4, <2>5, <2>6 DEF Next
<1>. QED BY <1>1, <1>2, PTL DEF Spec

\* Every reachable state is well typed.
THEOREM TypeCorrect == Spec => []TypeOK
BY TypeAndStarted, PTL

-----------------------------------------------------------------------------
(* Serial runs: the inductive invariant *)

\* What one run looks like while nothing has failed.
RunInv(r) ==
    /\ phase[r] # "aborted"
    /\ phase[r] # "spawning" => todo[r] = {}
    /\ phase[r] \notin {"spawning", "returning", "done"} => Pending(r) = {}
    /\ todo[r] \cap Pending(r) = {}
    /\ lock = r <=> Live(r)
    /\ counter.token = r => lock = r
    /\ phase[r] \in {"armed", "queued", "fetching"}
          => counter = [token |-> r, n |-> Cardinality(Targets)]
    /\ phase[r] \in {"spawning", "returning", "done"} /\ Owed(r) # {}
          => counter = [token |-> r, n |-> Cardinality(Owed(r))]

\* The counter never expires before the lock it belongs to.
KeyInv == lock # NoRun /\ counter.token = lock => lockLeft <= ctrLeft

SerialInv == Undisturbed => KeyInv /\ \A r \in Runs : RunInv(r)

\* A child of run r goes to state x: the effect on the pending set of r, and on
\* the other runs.
LEMMA PendingAfter ==
    ASSUME TypeOK, NEW r \in Runs, NEW c \in ChildIds, NEW x, NEW y,
           child' = [child EXCEPT ![r][c] = [st |-> x, tries |-> y]]
    PROVE  /\ x \in {"queued", "running"} => Pending(r)' = Pending(r) \cup {c}
           /\ x \in {"returning", "done"} => Pending(r)' = Pending(r) \ {c}
           /\ \A s \in Runs \ {r} : child'[s] = child[s]
<1>1. child'[r][c].st = x /\ \A d \in ChildIds \ {c} : child'[r][d] = child[r][d]
  BY DEF TypeOK
<1>2. \A s \in Runs \ {r} : child'[s] = child[s]
  BY DEF TypeOK
<1>3. CASE x \in {"queued", "running"}
  BY <1>1, <1>2, <1>3 DEF Pending
<1>4. CASE x \in {"returning", "done"}
  BY <1>1, <1>2, <1>4 DEF Pending
<1>. QED BY <1>2, <1>3, <1>4

\* The tasks of run s are left alone.
Frame(s) == phase'[s] = phase[s] /\ todo'[s] = todo[s] /\ child'[s] = child[s]

\* The keys change at most on behalf of run r, which holds them or takes them
\* while they are free.
KeysOf(r) ==
    \/ UNCHANGED keyVars
    \/ /\ lock \in {r, NoRun} /\ lock' \in {r, NoRun}
       /\ counter' = counter \/ counter'.token \in {r, NoRun}

\* A run whose own tasks a step leaves alone owes the same children and is as
\* live as it was.
LEMMA FramedRun ==
    ASSUME NEW s \in Runs, Frame(s)
    PROVE  Pending(s)' = Pending(s) /\ Owed(s)' = Owed(s) /\ Live(s)' = Live(s)
<1>1. Pending(s)' = Pending(s)
  BY DEF Frame, Pending
<1>2. Owed(s)' = Owed(s)
  BY <1>1 DEF Frame, Owed
<1>. QED BY <1>1, <1>2 DEF Frame, Live

\* A step of run r keeps the invariant of every other run.
LEMMA OtherRuns ==
    ASSUME NEW r \in Runs, NEW s \in Runs, s # r, RunInv(s), Frame(s), KeysOf(r)
    PROVE  RunInv(s)'
<1>1. Pending(s)' = Pending(s) /\ Owed(s)' = Owed(s) /\ Live(s)' = Live(s)
  BY FramedRun
<1>2. (lock' = s <=> lock = s) /\ (counter'.token = s => counter.token = s)
      /\ (counter.token = s => counter' = counter)
  BY RunsAssumption DEF KeysOf, RunInv, keyVars
<1>3. phase'[s] = phase[s] /\ todo'[s] = todo[s]
  BY DEF Frame
<1>4. (lock = s <=> Live(s)) /\ (counter.token = s => lock = s)
  BY DEF RunInv
<1>5. (lock' = s <=> Live(s)') /\ (counter'.token = s => lock' = s)
  BY <1>1, <1>2, <1>4
<1>6. phase'[s] \in {"armed", "queued", "fetching"}
          => counter' = [token |-> s, n |-> Cardinality(Targets)]
  BY <1>2, <1>3 DEF RunInv
<1>7. phase'[s] \in {"spawning", "returning", "done"} /\ Owed(s)' # {}
          => counter' = [token |-> s, n |-> Cardinality(Owed(s)')]
  BY <1>1, <1>2, <1>3 DEF RunInv
<1>. QED BY <1>1, <1>3, <1>5, <1>6, <1>7 DEF RunInv

\* The dispatch of run r keeps the invariant of r.
LEMMA OwnDispatch ==
    ASSUME TypeOK, NEW r \in Runs, RunInv(r), KeyInv, DispatchStep(r), UNCHANGED faults
    PROVE  RunInv(r)' /\ KeyInv' /\ KeysOf(r) /\ \A s \in Runs \ {r} : Frame(s)
<1>. USE RunsAssumption, BoundsAssumption DEF Frame, KeysOf, keyVars
<1>0. faults # faults + 1
  BY DEF TypeOK
<1>1. CASE AcquireLock(r)
  <2>1. Pending(r)' = Pending(r) /\ Owed(r)' = Owed(r)
    BY <1>1 DEF AcquireLock, Pending, Owed
  <2>2. phase'[r] = "locked" /\ lock' = r /\ counter' = counter /\ todo' = todo
    BY <1>1 DEF AcquireLock, TypeOK
  <2>3. counter.token # r /\ lock = NoRun
    BY <1>1 DEF AcquireLock, RunInv
  <2>4. Live(r)'
    BY <2>2 DEF Live
  <2>5. RunInv(r)'
    BY <1>1, <2>1, <2>2, <2>3, <2>4 DEF AcquireLock, RunInv
  <2>6. KeyInv'
    BY <2>2, <2>3 DEF KeyInv
  <2>. QED BY <1>1, <2>2, <2>5, <2>6 DEF AcquireLock, TypeOK
<1>2. CASE Refuse(r)
  <2>1. Pending(r)' = Pending(r) /\ Owed(r)' = Owed(r)
    BY <1>2 DEF Refuse, Pending, Owed
  <2>2. phase'[r] = "refused" /\ UNCHANGED keyVars /\ todo' = todo
    BY <1>2 DEF Refuse, TypeOK
  <2>3. phase[r] = "idle"
    BY <1>2 DEF Refuse
  <2>4. Live(r)' = Live(r)
    BY <2>1, <2>2, <2>3 DEF Live
  <2>5. RunInv(r)'
    BY <2>1, <2>2, <2>3, <2>4 DEF RunInv
  <2>. QED BY <1>2, <2>2, <2>5 DEF Refuse, TypeOK, KeyInv
<1>3. CASE StoreCounter(r)
  <2>1. Pending(r)' = Pending(r) /\ Owed(r)' = Owed(r)
    BY <1>3 DEF StoreCounter, Pending, Owed
  <2>2. /\ phase'[r] = "armed" /\ UNCHANGED <<lock, lockLeft>> /\ todo' = todo
        /\ counter' = [token |-> r, n |-> Cardinality(Targets)] /\ ctrLeft' = TTL
    BY <1>0, <1>3 DEF StoreCounter, TypeOK, Fault
  <2>3. phase[r] = "locked" /\ lock = r
    BY <1>3 DEF StoreCounter, RunInv, Live
  <2>4. Live(r)' /\ Live(r)
    BY <2>2, <2>3 DEF Live
  <2>5. RunInv(r)'
    BY <2>1, <2>2, <2>3, <2>4 DEF RunInv
  <2>6. KeyInv'
    BY <2>2 DEF KeyInv, TypeOK
  <2>. QED BY <1>3, <2>2, <2>3, <2>5, <2>6 DEF StoreCounter, TypeOK
<1>4. CASE Enqueue(r)
  <2>1. Pending(r)' = Pending(r) /\ Owed(r)' = Owed(r)
    BY <1>4 DEF Enqueue, Pending, Owed
  <2>2. phase'[r] = "queued" /\ UNCHANGED keyVars /\ todo' = todo
    BY <1>4 DEF Enqueue, TypeOK
  <2>3. phase[r] = "armed"
    BY <1>4 DEF Enqueue
  <2>4. Live(r)' /\ Live(r)
    BY <2>2, <2>3 DEF Live
  <2>5. RunInv(r)'
    BY <2>1, <2>2, <2>3, <2>4 DEF RunInv
  <2>. QED BY <1>4, <2>2, <2>5 DEF Enqueue, TypeOK, KeyInv
<1>5. CASE FailOpen(r) \/ AbortDispatch(r)
  BY <1>0, <1>5 DEF FailOpen, AbortDispatch, Fault
<1>. QED BY <1>1, <1>2, <1>3, <1>4, <1>5 DEF DispatchStep

\* Ending without children: the release script frees the keys of run r.
LEMMA Released ==
    ASSUME TypeOK, NEW r \in Runs, RunInv(r), phase[r] = "fetching",
           ReleaseScript(r), phase' = [phase EXCEPT ![r] = "returning"],
           UNCHANGED <<todo, child>>
    PROVE  RunInv(r)' /\ KeyInv' /\ KeysOf(r)
<1>. USE RunsAssumption
<1>1. Owed(r) = {} /\ Pending(r) = {} /\ Pending(r)' = Pending(r) /\ Owed(r)' = Owed(r)
  BY DEF RunInv, Owed, Pending
<1>2. lock = r /\ phase'[r] = "returning"
  BY DEF RunInv, Live, TypeOK
<1>3. lock' = NoRun /\ counter' = NoCounter
  BY <1>2 DEF ReleaseScript, DelLock, DelCounter
<1>4. ~Live(r)'
  BY <1>1, <1>2 DEF Live
<1>5. counter'.token = NoRun /\ r # NoRun
  BY <1>3 DEF NoCounter
<1>6. todo'[r] = {}
  BY DEF RunInv
<1>7. RunInv(r)'
  BY <1>1, <1>2, <1>3, <1>4, <1>5, <1>6 DEF RunInv
<1>. QED BY <1>2, <1>3, <1>5, <1>7 DEF KeyInv, KeysOf

\* The parent task of run r keeps the invariant of r.
LEMMA OwnParent ==
    ASSUME TypeOK, Started, NEW r \in Runs, RunInv(r), KeyInv, ParentStep(r), UNCHANGED faults
    PROVE  RunInv(r)' /\ KeyInv' /\ KeysOf(r) /\ \A s \in Runs \ {r} : Frame(s)
<1>. USE RunsAssumption DEF Frame, KeysOf, keyVars
<1>0. faults # faults + 1
  BY DEF TypeOK
<1>1. CASE ParentStart(r)
  <2>1. Pending(r)' = Pending(r) /\ Owed(r)' = Owed(r)
    BY <1>1 DEF ParentStart, Pending, Owed
  <2>2. phase'[r] = "fetching" /\ UNCHANGED keyVars /\ todo' = todo
    BY <1>1 DEF ParentStart, TypeOK
  <2>3. phase[r] = "queued"
    BY <1>1 DEF ParentStart
  <2>4. Live(r)' /\ Live(r)
    BY <2>2, <2>3 DEF Live
  <2>5. RunInv(r)'
    BY <2>1, <2>2, <2>3, <2>4 DEF RunInv
  <2>. QED BY <1>1, <2>2, <2>5 DEF ParentStart, TypeOK, KeyInv
<1>2. CASE ParentEndsEarly(r)
  <2>1. ReleaseScript(r)
    BY <1>0, <1>2 DEF ParentEndsEarly, BestEffort, Fault
  <2>2. RunInv(r)' /\ KeyInv' /\ KeysOf(r)
    BY <1>2, <2>1, Released DEF ParentEndsEarly
  <2>. QED BY <1>2, <2>2 DEF ParentEndsEarly, TypeOK
<1>3. CASE FetchSucceeds(r)
  <2>1. body[r] \in Bodies /\ phase[r] = "fetching"
    BY <1>3 DEF FetchSucceeds, Started
  <2>2. Pending(r)' = Pending(r) /\ Pending(r) = {}
    BY <1>3 DEF FetchSucceeds, Pending, RunInv
  <2>3. phase'[r] = "spawning" /\ UNCHANGED keyVars /\ todo'[r] = {body[r]} \X Targets
    BY <1>3 DEF FetchSucceeds, TypeOK
  <2>4. Owed(r)' = {body[r]} \X Targets
    BY <2>2, <2>3 DEF Owed
  <2>5. Cardinality(Owed(r)') = Cardinality(Targets)
    BY <2>1, <2>4, TargetFacts
  <2>6. Owed(r)' # {}
    <3>1. PICK t \in Targets : TRUE
      BY TargetsAssumption
    <3>2. <<body[r], t>> \in {body[r]} \X Targets
      BY <3>1
    <3>. QED BY <2>4, <3>2
  <2>7. Live(r)' /\ Live(r)
    BY <2>1, <2>6 DEF Live
  <2>8. RunInv(r)'
    BY <2>1, <2>2, <2>3, <2>5, <2>7 DEF RunInv
  <2>. QED BY <1>3, <2>3, <2>8 DEF FetchSucceeds, TypeOK, KeyInv
<1>4. ASSUME NEW c \in ChildIds, SpawnChild(r, c)
      PROVE  RunInv(r)' /\ KeyInv' /\ KeysOf(r) /\ \A s \in Runs \ {r} : Frame(s)
  <2>0. child' = [child EXCEPT ![r][c] = [st |-> "queued", tries |-> 0]]
    BY <1>4 DEF SpawnChild
  <2>1. /\ Pending(r)' = Pending(r) \cup {c}
        /\ \A s \in Runs \ {r} : child'[s] = child[s]
    BY <2>0, PendingAfter
  <2>2. phase'[r] = "spawning" /\ phase[r] = "spawning" /\ UNCHANGED keyVars
        /\ todo'[r] = todo[r] \ {c} /\ c \in todo[r]
    BY <1>4 DEF SpawnChild, TypeOK
  <2>3. Owed(r)' = Owed(r)
    BY <2>1, <2>2 DEF Owed
  <2>4. Live(r)' = Live(r)
    BY <2>2, <2>3 DEF Live
  <2>5. todo'[r] \cap Pending(r)' = {}
    BY <2>1, <2>2 DEF RunInv
  <2>6. RunInv(r)'
    BY <2>2, <2>3, <2>4, <2>5 DEF RunInv
  <2>. QED BY <1>4, <2>1, <2>2, <2>6 DEF SpawnChild, TypeOK, KeyInv
<1>5. CASE ParentDispatched(r) \/ ParentAck(r)
  <2>1. Pending(r)' = Pending(r) /\ Owed(r)' = Owed(r)
    BY <1>5 DEF ParentDispatched, ParentAck, Pending, Owed
  <2>2. /\ phase'[r] \in {"returning", "done"} /\ phase[r] \in {"spawning", "returning"}
        /\ UNCHANGED keyVars /\ todo' = todo /\ todo[r] = {}
    BY <1>5 DEF ParentDispatched, ParentAck, TypeOK, RunInv
  <2>3. Live(r)' = Live(r)
    BY <2>1, <2>2 DEF Live
  <2>4. RunInv(r)'
    BY <2>1, <2>2, <2>3 DEF RunInv
  <2>. QED BY <1>5, <2>2, <2>4 DEF ParentDispatched, ParentAck, TypeOK, KeyInv
<1>6. CASE ParentRetries(r)
  <2>1. phase[r] = "fetching"
    BY <1>0, <1>6 DEF ParentRetries, ParentRaises, Fault
  <2>2. Pending(r)' = Pending(r) /\ todo[r] = {}
    BY <1>6, <2>1 DEF ParentRetries, Pending, RunInv
  <2>3. phase'[r] = "queued" /\ UNCHANGED keyVars /\ todo'[r] = {}
    BY <1>6 DEF ParentRetries, TypeOK
  <2>4. Live(r)' /\ Live(r)
    BY <2>1, <2>3 DEF Live
  <2>5. RunInv(r)'
    BY <2>1, <2>2, <2>3, <2>4 DEF RunInv
  <2>. QED BY <1>6, <2>3, <2>5 DEF ParentRetries, TypeOK, KeyInv
<1>7. CASE FetchFails(r)
  <2>1. ReleaseScript(r)
    BY <1>0, <1>7 DEF FetchFails, BestEffort, Fault
  <2>2. RunInv(r)' /\ KeyInv' /\ KeysOf(r)
    BY <1>7, <2>1, Released DEF FetchFails
  <2>. QED BY <1>7, <2>2 DEF FetchFails, TypeOK
<1>8. CASE SpawnFails(r)
  BY <1>0, <1>8 DEF SpawnFails, Fault
<1>. QED BY <1>1, <1>2, <1>3, <1>4, <1>5, <1>6, <1>7, <1>8 DEF ParentStep

\* A child of run r keeps the invariant of r: what the counter counts shrinks
\* by the child that finishes, and the last one frees both keys.
LEMMA OwnChild ==
    ASSUME TypeOK, NEW r \in Runs, RunInv(r), KeyInv, NEW c \in ChildIds,
           ChildStep(r, c), UNCHANGED faults
    PROVE  RunInv(r)' /\ KeyInv' /\ KeysOf(r) /\ \A s \in Runs \ {r} : Frame(s)
<1>. USE RunsAssumption DEF Frame, KeysOf, keyVars
<1>0. faults # faults + 1
  BY DEF TypeOK
<1>1. CASE ChildStart(r, c) \/ ChildRetries(r, c)
  <2>1. c \in Pending(r)
    BY <1>1 DEF ChildStart, ChildRetries, Pending
  <2>2. PICK y : y = child[r][c].tries
    OBVIOUS
  <2>3. Pending(r)' = Pending(r) /\ \A s \in Runs \ {r} : child'[s] = child[s]
    <3>1. CASE ChildStart(r, c)
      <4>1. child' = [child EXCEPT ![r][c] = [st |-> "running", tries |-> y]]
        BY <2>2, <3>1 DEF ChildStart
      <4>2. Pending(r)' = Pending(r) \cup {c} /\ \A s \in Runs \ {r} : child'[s] = child[s]
        BY <4>1, PendingAfter
      <4>. QED BY <2>1, <4>2
    <3>2. CASE ChildRetries(r, c)
      <4>1. child' = [child EXCEPT ![r][c] = [st |-> "queued", tries |-> y + 1]]
        BY <2>2, <3>2 DEF ChildRetries
      <4>2. Pending(r)' = Pending(r) \cup {c} /\ \A s \in Runs \ {r} : child'[s] = child[s]
        BY <4>1, PendingAfter
      <4>. QED BY <2>1, <4>2
    <3>. QED BY <1>1, <3>1, <3>2
  <2>4. UNCHANGED <<keyVars, phase, todo>>
    BY <1>1 DEF ChildStart, ChildRetries
  <2>5. Owed(r)' = Owed(r) /\ Live(r)' = Live(r)
    BY <2>3, <2>4 DEF Owed, Live
  <2>6. RunInv(r)'
    BY <2>3, <2>4, <2>5 DEF RunInv
  <2>. QED BY <2>3, <2>4, <2>6 DEF KeyInv
<1>2. CASE ChildAck(r, c)
  <2>1. c \notin Pending(r)
    BY <1>2 DEF ChildAck, Pending
  <2>2. PICK y : child' = [child EXCEPT ![r][c] = [st |-> "done", tries |-> y]]
    <3>1. PICK z : z = child[r][c].tries
      OBVIOUS
    <3>2. child' = [child EXCEPT ![r][c] = [st |-> "done", tries |-> z]]
      BY <1>2, <3>1 DEF ChildAck
    <3>. QED BY <3>2
  <2>3. Pending(r)' = Pending(r) /\ \A s \in Runs \ {r} : child'[s] = child[s]
    <3>1. Pending(r)' = Pending(r) \ {c} /\ \A s \in Runs \ {r} : child'[s] = child[s]
      BY <2>2, PendingAfter
    <3>. QED BY <2>1, <3>1
  <2>4. UNCHANGED <<keyVars, phase, todo>>
    BY <1>2 DEF ChildAck
  <2>5. Owed(r)' = Owed(r) /\ Live(r)' = Live(r)
    BY <2>3, <2>4 DEF Owed, Live
  <2>6. RunInv(r)'
    BY <2>3, <2>4, <2>5 DEF RunInv
  <2>. QED BY <2>3, <2>4, <2>6 DEF KeyInv
<1>3. CASE ChildFinishes(r, c)
  <2>1. c \in Pending(r) /\ c \in Owed(r) /\ c \notin todo[r]
    BY <1>3 DEF ChildFinishes, Pending, Owed, RunInv
  <2>2. PICK y : child' = [child EXCEPT ![r][c] = [st |-> "returning", tries |-> y]]
    <3>1. PICK z : z = child[r][c].tries
      OBVIOUS
    <3>2. child' = [child EXCEPT ![r][c] = [st |-> "returning", tries |-> z]]
      BY <1>3, <3>1 DEF ChildFinishes
    <3>. QED BY <3>2
  <2>3. Pending(r)' = Pending(r) \ {c} /\ \A s \in Runs \ {r} : child'[s] = child[s]
    BY <2>2, PendingAfter
  <2>4. UNCHANGED <<phase, todo>> /\ ChildFinishedScript(r)
    BY <1>0, <1>3 DEF ChildFinishes, BestEffort, Fault
  <2>5. Owed(r)' = Owed(r) \ {c}
    BY <2>1, <2>3, <2>4 DEF Owed
  <2>6. phase[r] \in {"spawning", "returning", "done"} /\ lock = r
    BY <2>1 DEF RunInv, Live
  <2>7. counter = [token |-> r, n |-> Cardinality(Owed(r))]
    BY <2>1, <2>6 DEF RunInv
  <2>8. IsFiniteSet(Owed(r))
    <3>1. Owed(r) \in SUBSET ChildIds
      BY DEF Owed, Pending, TypeOK
    <3>. QED BY <3>1, TargetFacts, FS_Subset
  <2>9. /\ Cardinality(Owed(r)') = Cardinality(Owed(r)) - 1
        /\ Cardinality(Owed(r)) \in Nat
        /\ Cardinality(Owed(r)') = 0 <=> Owed(r)' = {}
        /\ Cardinality(Owed(r)') \in Nat
    BY <2>1, <2>5, <2>8, FS_RemoveElement, FS_CardinalityType, FS_EmptySet, ZenonT(60)
  <2>10. todo'[r] \cap Pending(r)' = {} /\ (phase'[r] # "spawning" => todo'[r] = {})
    BY <2>3, <2>4 DEF RunInv
  <2>11. CASE Cardinality(Owed(r)) <= 1
    <3>1. lock' = NoRun /\ counter' = NoCounter
      BY <2>4, <2>7, <2>11 DEF ChildFinishedScript, DelLock, DelCounter
    <3>2. Owed(r)' = {}
      BY <2>9, <2>11
    <3>3. ~Live(r)'
      BY <2>4, <2>6, <3>2 DEF Live
    <3>4. counter'.token = NoRun /\ r # NoRun
      BY <3>1 DEF NoCounter
    <3>5. RunInv(r)'
      BY <2>4, <2>6, <2>10, <3>1, <3>2, <3>3, <3>4 DEF RunInv
    <3>. QED BY <2>3, <2>4, <2>6, <3>1, <3>4, <3>5 DEF KeyInv
  <2>12. CASE ~(Cardinality(Owed(r)) <= 1)
    <3>1. /\ counter' = [token |-> r, n |-> Cardinality(Owed(r)')]
          /\ ctrLeft' = TTL /\ UNCHANGED <<lock, lockLeft>>
      BY <2>4, <2>7, <2>9, <2>12 DEF ChildFinishedScript
    <3>2. Owed(r)' # {}
      BY <2>9, <2>12
    <3>3. Live(r)'
      BY <3>2 DEF Live
    <3>4. RunInv(r)'
      BY <2>4, <2>6, <2>10, <3>1, <3>2, <3>3 DEF RunInv
    <3>5. KeyInv'
      BY <3>1 DEF KeyInv, TypeOK
    <3>. QED BY <2>3, <2>4, <2>6, <3>1, <3>4, <3>5
  <2>. QED BY <2>11, <2>12
<1>. QED BY <1>1, <1>2, <1>3 DEF ChildStep

\* While no TTL runs out, a tick leaves the lock, and with it the counter, alone.
LEMMA TimePasses ==
    ASSUME TypeOK, \A r \in Runs : RunInv(r), KeyInv, Tick, lapsed' = {}
    PROVE  KeyInv' /\ \A r \in Runs : RunInv(r)'
<1>. USE RunsAssumption, BoundsAssumption DEF TypeOK
<1>1. lock = NoRun \/ ~(lockLeft <= 1)
  BY DEF Tick
<1>2. lock' = lock
  BY <1>1 DEF Tick, DelLock
<1>3. ASSUME NEW r \in Runs PROVE RunInv(r)'
  <2>1. Frame(r)
    BY DEF Frame, Tick, taskVars
  <2>2. Pending(r)' = Pending(r) /\ Owed(r)' = Owed(r) /\ Live(r)' = Live(r)
    BY <2>1, FramedRun
  <2>3. counter.token = r => counter' = counter
    <3>1. SUFFICES ASSUME counter.token = r PROVE counter' = counter
      OBVIOUS
    <3>2. lock = r /\ lock # NoRun
      BY <3>1 DEF RunInv
    <3>3. lockLeft <= ctrLeft /\ ~(lockLeft <= 1)
      BY <1>1, <3>1, <3>2 DEF KeyInv
    <3>4. ~(ctrLeft <= 1)
      BY <3>3
    <3>. QED BY <3>4 DEF Tick
  <2>4. counter'.token = r => counter' = counter
    BY DEF Tick, DelCounter, NoCounter
  <2>5. phase'[r] = phase[r] /\ todo'[r] = todo[r]
    BY <2>1 DEF Frame
  <2>6. (lock = r <=> Live(r)) /\ (counter.token = r => lock = r)
    BY DEF RunInv
  <2>7. (lock' = r <=> Live(r)') /\ (counter'.token = r => lock' = r)
    BY <1>2, <2>2, <2>4, <2>6
  <2>8. phase'[r] \in {"armed", "queued", "fetching"}
            => counter' = [token |-> r, n |-> Cardinality(Targets)]
    BY <2>3, <2>5 DEF RunInv
  <2>9. phase'[r] \in {"spawning", "returning", "done"} /\ Owed(r)' # {}
            => counter' = [token |-> r, n |-> Cardinality(Owed(r)')]
    BY <2>2, <2>3, <2>5 DEF RunInv
  <2>. QED BY <2>2, <2>5, <2>7, <2>8, <2>9 DEF RunInv
<1>4. KeyInv'
  <2>1. SUFFICES ASSUME lock' # NoRun, counter'.token = lock' PROVE lockLeft' <= ctrLeft'
    BY DEF KeyInv
  <2>2. ~(lockLeft <= 1) /\ lockLeft' = lockLeft - 1
    BY <1>1, <1>2, <2>1 DEF Tick
  <2>3. ~(ctrLeft <= 1) /\ ctrLeft' = ctrLeft - 1 /\ counter' = counter
    <3>1. counter'.token # NoRun
      BY <2>1
    <3>2. ~(ctrLeft <= 1)
      BY <3>1 DEF Tick, DelCounter, NoCounter
    <3>. QED BY <3>2 DEF Tick
  <2>4. lockLeft <= ctrLeft
    BY <1>2, <2>1, <2>3 DEF KeyInv
  <2>. QED BY <2>2, <2>3, <2>4
<1>. QED BY <1>3, <1>4

\* A step after which nothing has failed is a step before which nothing had.
LEMMA StillUndisturbed ==
    ASSUME TypeOK, TypeOK', [Next]_vars, Undisturbed'
    PROVE  Undisturbed /\ UNCHANGED faults /\ lapsed' = {}
<1>1. faults \in Nat /\ faults' = 0 /\ lapsed' = {}
  BY BoundsAssumption DEF TypeOK, Undisturbed
<1>2. (faults' = faults \/ faults' = faults + 1) /\ lapsed \subseteq lapsed'
  <2> USE DEF Fault, NoFault, BestEffort
  <2>1. ASSUME NEW r \in Runs, DispatchStep(r)
        PROVE  (faults' = faults \/ faults' = faults + 1) /\ lapsed \subseteq lapsed'
    BY <2>1 DEF DispatchStep, AcquireLock, Refuse, FailOpen, StoreCounter, Enqueue, AbortDispatch
  <2>2. ASSUME NEW r \in Runs, ParentStep(r)
        PROVE  (faults' = faults \/ faults' = faults + 1) /\ lapsed \subseteq lapsed'
    BY <2>2 DEF ParentStep, ParentStart, ParentEndsEarly, FetchSucceeds, SpawnChild,
                ParentDispatched, ParentRetries, ParentRaises, FetchFails, SpawnFails, ParentAck
  <2>3. ASSUME NEW r \in Runs, NEW c \in ChildIds, ChildStep(r, c)
        PROVE  (faults' = faults \/ faults' = faults + 1) /\ lapsed \subseteq lapsed'
    BY <2>3 DEF ChildStep, ChildStart, ChildRetries, ChildFinishes, ChildAck
  <2>4. ASSUME NEW r \in Runs, WorkerCrash(r)
        PROVE  (faults' = faults \/ faults' = faults + 1) /\ lapsed \subseteq lapsed'
    BY <2>4 DEF WorkerCrash, ParentCrash, ParentKilled, ChildCrash, ChildKilled
  <2>5. CASE Tick
    BY <2>5 DEF Tick
  <2>6. CASE UNCHANGED vars
    BY <2>6 DEF vars
  <2>. QED BY <2>1, <2>2, <2>3, <2>4, <2>5, <2>6 DEF Next
<1>3. faults = 0 /\ lapsed = {}
  BY <1>1, <1>2
<1>. QED BY <1>1, <1>3 DEF Undisturbed

\* Every step preserves the serial invariant.
LEMMA SerialStep ==
    ASSUME TypeOK, TypeOK', Started, SerialInv, [Next]_vars
    PROVE  SerialInv'
<1>. SUFFICES ASSUME Undisturbed'
              PROVE  KeyInv' /\ \A s \in Runs : RunInv(s)'
  BY DEF SerialInv
<1>1. Undisturbed /\ UNCHANGED faults /\ lapsed' = {}
  BY StillUndisturbed
<1>2. KeyInv /\ \A s \in Runs : RunInv(s)
  BY <1>1 DEF SerialInv
<1>3. ASSUME NEW r \in Runs, RunInv(r)', KeyInv', KeysOf(r), \A s \in Runs \ {r} : Frame(s)
      PROVE  KeyInv' /\ \A s \in Runs : RunInv(s)'
  BY <1>2, <1>3, OtherRuns
<1>4. ASSUME NEW r \in Runs, DispatchStep(r)
      PROVE  KeyInv' /\ \A s \in Runs : RunInv(s)'
  BY <1>1, <1>2, <1>3, <1>4, OwnDispatch
<1>5. ASSUME NEW r \in Runs, ParentStep(r)
      PROVE  KeyInv' /\ \A s \in Runs : RunInv(s)'
  BY <1>1, <1>2, <1>3, <1>5, OwnParent
<1>6. ASSUME NEW r \in Runs, NEW c \in ChildIds, ChildStep(r, c)
      PROVE  KeyInv' /\ \A s \in Runs : RunInv(s)'
  BY <1>1, <1>2, <1>3, <1>6, OwnChild
<1>7. ASSUME NEW r \in Runs PROVE ~WorkerCrash(r)
  <2>1. faults # faults + 1
    BY DEF TypeOK
  <2>. QED BY <1>1, <2>1 DEF WorkerCrash, ParentCrash, ParentKilled, ChildCrash, ChildKilled, Fault
<1>8. CASE Tick
  BY <1>1, <1>2, <1>8, TimePasses
<1>9. CASE UNCHANGED vars
  <2>1. \A s \in Runs : Frame(s)
    BY <1>9 DEF vars, taskVars, Frame
  <2>2. \A s \in Runs : Pending(s)' = Pending(s) /\ Owed(s)' = Owed(s) /\ Live(s)' = Live(s)
    BY <2>1, FramedRun
  <2>3. UNCHANGED <<lock, lockLeft, counter, ctrLeft, phase, todo>>
    BY <1>9 DEF vars, keyVars, taskVars
  <2>. QED BY <1>2, <2>2, <2>3 DEF RunInv, KeyInv
<1>. QED BY <1>4, <1>5, <1>6, <1>7, <1>8, <1>9 DEF Next

-----------------------------------------------------------------------------
(* The theorems *)

\* The serial invariant holds in every reachable state.
THEOREM SerialInvariant == Spec => []SerialInv
<1>1. Init => TypeOK /\ Started /\ SerialInv
  <2> SUFFICES ASSUME Init PROVE TypeOK /\ Started /\ SerialInv
    OBVIOUS
  <2>1. TypeOK /\ Started
    BY BoundsAssumption
       DEF Init, TypeOK, Started, NoCounter, NoChild, Phases, ChildStates, Results
  <2>2. ASSUME NEW r \in Runs PROVE RunInv(r)
    <3>1. Pending(r) = {} /\ Owed(r) = {} /\ todo[r] = {} /\ phase[r] = "idle"
      BY DEF Init, Pending, Owed, NoChild
    <3>2. lock # r /\ counter.token # r
      BY RunsAssumption DEF Init, NoCounter
    <3>3. ~Live(r)
      BY <3>1 DEF Live
    <3>. QED BY <3>1, <3>2, <3>3 DEF RunInv
  <2>. QED BY <2>1, <2>2 DEF SerialInv, KeyInv, Init
<1>2. TypeOK /\ TypeOK' /\ Started /\ SerialInv /\ [Next]_vars => SerialInv'
  BY SerialStep
<1>3. Spec => []TypeOK /\ []Started
  BY TypeAndStarted, PTL
<1>. QED BY <1>1, <1>2, <1>3, PTL DEF Spec

\* Two runs of a schedule never overlap while nothing failed.
THEOREM RunsAreSerial == Spec => []OneRunAtATime
<1>1. SerialInv => OneRunAtATime
  BY DEF SerialInv, OneRunAtATime, RunInv
<1>. QED BY <1>1, SerialInvariant, PTL

\* While nothing failed, the lock is held exactly as long as the run is live.
THEOREM LockFollowsRun == Spec => []LockIsTheRun
<1>1. SerialInv => LockIsTheRun
  BY DEF SerialInv, LockIsTheRun, RunInv
<1>. QED BY <1>1, SerialInvariant, PTL

\* While nothing failed, the counter is the number of children still owed.
THEOREM CounterCorrect == Spec => []CounterIsOwed
<1>1. SerialInv => CounterIsOwed
  <2>. SUFFICES ASSUME SerialInv, Undisturbed, NEW r \in Runs, Live(r),
                       phase[r] \in {"spawning", "returning", "done"}
                PROVE  counter = [token |-> r, n |-> Cardinality(Owed(r))]
    BY DEF CounterIsOwed
  <2>1. Owed(r) # {}
    BY DEF Live
  <2>. QED BY <2>1 DEF SerialInv, RunInv
<1>. QED BY <1>1, SerialInvariant, PTL

-----------------------------------------------------------------------------
(* Refinement: the lock protocol implements SerialRuns *)

\* A step of run r that leaves the other runs alone is a step of SerialRuns.
LEMMA MapsToSerial ==
    ASSUME NEW r \in Runs, SerialInv, Undisturbed, Undisturbed',
           \A s \in Runs \ {r} : Frame(s) /\ body'[s] = body[s],
           body'[r] = body[r] \/ (Live(r) /\ Live(r)' /\ body'[r] > 0),
           ~Live(r) /\ Live(r)' => lock = NoRun /\ ~(body[r] > 0) /\ body'[r] = body[r],
           Live(r) /\ ~Live(r)' => body[r] > 0 /\ body'[r] = body[r]
    PROVE  [Serial!Next]_(Serial!vars)
<1>. DEFINE active == {s \in Runs : Live(s)}
            finished == {s \in Runs : body[s] > 0 /\ ~Live(s)}
<1>1. \A s \in Runs \ {r} : Live(s)' = Live(s) /\ body'[s] = body[s]
  BY FramedRun
<1>2. \A s \in Runs : lock = s <=> Live(s)
  BY DEF SerialInv, RunInv
<1>3. CASE Live(r)' = Live(r)
  <2>1. active' = active
    BY <1>1, <1>3
  <2>2. finished' = finished
    BY <1>1, <1>3
  <2>. QED BY <2>1, <2>2 DEF Serial!vars
<1>4. CASE ~Live(r) /\ Live(r)'
  <2>1. active = {}
    BY <1>2, <1>4, RunsAssumption
  <2>2. active' = {r}
    BY <1>1, <1>4, <2>1
  <2>3. finished' = finished /\ r \notin finished
    BY <1>1, <1>4
  <2>4. Serial!Begin(r)
    BY <2>1, <2>2, <2>3 DEF Serial!Begin
  <2>. QED BY <2>4 DEF Serial!Next
<1>5. CASE Live(r) /\ ~Live(r)'
  <2>1. active = {r}
    BY <1>2, <1>5
  <2>2. active' = {}
    BY <1>1, <1>5, <2>1
  <2>3. finished' = finished \cup {r}
    BY <1>1, <1>5
  <2>4. Serial!End(r)
    BY <2>1, <2>2, <2>3 DEF Serial!End
  <2>. QED BY <2>4 DEF Serial!Next
<1>. QED BY <1>3, <1>4, <1>5 DEF Live

\* Every step of the lock protocol is a step, or a stutter, of SerialRuns.
LEMMA SerialRefinementStep ==
    ASSUME TypeOK, TypeOK', Started, SerialInv, SerialInv', [Next]_vars
    PROVE  [Serial!Next]_(Serial!vars)
<1>1. CASE ~Undisturbed'
  <2>1. {r \in Runs : Live(r)'} \in SUBSET Runs
        /\ {r \in Runs : body'[r] > 0 /\ ~Live(r)'} \in SUBSET Runs
    OBVIOUS
  <2>2. Serial!Upset
    BY <1>1, <2>1 DEF Serial!Upset, Undisturbed
  <2>. QED BY <2>2 DEF Serial!Next
<1>2. CASE Undisturbed'
  <2>. USE <1>2
  <2>1. Undisturbed /\ UNCHANGED faults /\ lapsed' = {} /\ faults # faults + 1
    BY StillUndisturbed DEF TypeOK
  <2>2. \A s \in Runs : RunInv(s) /\ RunInv(s)'
    BY <2>1 DEF SerialInv
  <2>3. KeyInv
    BY <2>1 DEF SerialInv
  <2>4. \A s \in Runs : (lock = s <=> Live(s)) /\ (lock' = s <=> Live(s)')
    BY <2>2 DEF RunInv
  <2>5. ASSUME NEW r \in Runs, DispatchStep(r) PROVE [Serial!Next]_(Serial!vars)
    <3>1. \A s \in Runs \ {r} : Frame(s)
      BY <2>1, <2>2, <2>3, <2>5, OwnDispatch
    <3>2. body' = body
      BY <2>5 DEF DispatchStep, AcquireLock, Refuse, FailOpen, StoreCounter, Enqueue,
                  AbortDispatch
    <3>3. lock' = lock \/ (lock = NoRun /\ lock' = r /\ phase[r] = "idle")
      BY <2>5 DEF DispatchStep, AcquireLock, Refuse, FailOpen, StoreCounter, Enqueue,
                  AbortDispatch, keyVars
    <3>4. ~Live(r) /\ Live(r)' => lock = NoRun /\ ~(body[r] > 0)
      BY <2>4, <3>3 DEF Started
    <3>5. ~(Live(r) /\ ~Live(r)')
      BY <2>4, <3>3, RunsAssumption
    <3>. QED BY <2>1, <3>1, <3>2, <3>4, <3>5, MapsToSerial
  <2>6. ASSUME NEW r \in Runs, ParentStep(r) PROVE [Serial!Next]_(Serial!vars)
    <3>1. \A s \in Runs \ {r} : Frame(s)
      BY <2>1, <2>2, <2>3, <2>6, OwnParent
    <3>2. \A s \in Runs \ {r} : body'[s] = body[s]
      BY <2>6 DEF ParentStep, ParentStart, ParentEndsEarly, FetchSucceeds, SpawnChild,
                  ParentDispatched, ParentRetries, FetchFails, SpawnFails, ParentAck, TypeOK
    <3>3. CASE ParentStart(r)
      <4>1. Live(r) /\ Live(r)'
        BY <3>3 DEF ParentStart, Live, TypeOK
      <4>2. body'[r] > 0
        BY <3>3 DEF ParentStart, TypeOK
      <4>. QED BY <2>1, <3>1, <3>2, <4>1, <4>2, MapsToSerial
    <3>4. CASE ~ParentStart(r)
      <4>1. body' = body
        BY <2>6, <3>4 DEF ParentStep, ParentEndsEarly, FetchSucceeds, SpawnChild,
                          ParentDispatched, ParentRetries, FetchFails, SpawnFails, ParentAck
      <4>2. lock' = lock \/ (phase[r] = "fetching" /\ lock' = NoRun)
        BY <2>6, <3>4 DEF ParentStep, ParentEndsEarly, FetchSucceeds, SpawnChild, BestEffort,
                          ParentDispatched, ParentRetries, FetchFails, SpawnFails, ParentAck,
                          ReleaseScript, DelLock, keyVars
      <4>3. ~(~Live(r) /\ Live(r)')
        BY <2>4, <4>2, RunsAssumption
      <4>4. Live(r) /\ ~Live(r)' => body[r] > 0
        BY <2>4, <4>2, BoundsAssumption DEF Started, Bodies
      <4>. QED BY <2>1, <3>1, <3>2, <4>1, <4>3, <4>4, MapsToSerial
    <3>. QED BY <3>3, <3>4
  <2>7. ASSUME NEW r \in Runs, NEW c \in ChildIds, ChildStep(r, c)
        PROVE  [Serial!Next]_(Serial!vars)
    <3>1. \A s \in Runs \ {r} : Frame(s)
      BY <2>1, <2>2, <2>3, <2>7, OwnChild
    <3>2. body' = body /\ phase' = phase
      BY <2>7 DEF ChildStep, ChildStart, ChildRetries, ChildFinishes, ChildAck
    <3>3. lock' = lock \/ lock' = NoRun
      BY <2>7 DEF ChildStep, ChildStart, ChildRetries, ChildFinishes, ChildAck, BestEffort,
                  ChildFinishedScript, DelLock, keyVars
    <3>4. ~(~Live(r) /\ Live(r)')
      BY <2>4, <3>3, RunsAssumption
    <3>5. Live(r) /\ ~Live(r)' => body[r] > 0
      <4>. SUFFICES ASSUME Live(r), ~Live(r)' PROVE body[r] > 0
        OBVIOUS
      <4>1. phase[r] \notin {"locked", "armed", "queued", "fetching"}
        BY <3>2 DEF Live
      <4>2. Owed(r) # {}
        BY <4>1 DEF Live
      <4>3. phase[r] \in {"spawning", "returning", "done"}
        BY <2>2, <4>2 DEF RunInv, Owed
      <4>. QED BY <4>3 DEF Started, Bodies
    <3>. QED BY <2>1, <3>1, <3>2, <3>4, <3>5, MapsToSerial
  <2>8. ASSUME NEW r \in Runs PROVE ~WorkerCrash(r)
    BY <2>1 DEF WorkerCrash, ParentCrash, ParentKilled, ChildCrash, ChildKilled, Fault
  <2>9. CASE Tick \/ UNCHANGED vars
    <3>1. \A s \in Runs : Frame(s)
      BY <2>9 DEF Tick, vars, taskVars, Frame
    <3>2. \A s \in Runs : Live(s)' = Live(s)
      BY <3>1, FramedRun
    <3>3. body' = body
      BY <2>9 DEF Tick, vars, taskVars
    <3>. QED BY <2>1, <3>2, <3>3 DEF Serial!vars
  <2>. QED BY <2>5, <2>6, <2>7, <2>8, <2>9 DEF Next
<1>. QED BY <1>1, <1>2

\* The lock protocol implements serial runs: while nothing fails, runs follow one
\* another and none is executed twice.
THEOREM SerialRefinement == Spec => ImplementsSerialRuns
<1>1. Init => Serial!Init
  <2>. SUFFICES ASSUME Init PROVE Serial!Init
    OBVIOUS
  <2>1. \A r \in Runs : ~Live(r) /\ ~(body[r] > 0)
    <3>. TAKE r \in Runs
    <3>1. Pending(r) = {} /\ Owed(r) = {} /\ phase[r] = "idle" /\ body[r] = 0
      BY DEF Init, Pending, Owed, NoChild
    <3>. QED BY <3>1 DEF Live
  <2>. QED BY <2>1 DEF Init, Serial!Init, Undisturbed
<1>2. TypeOK /\ TypeOK' /\ Started /\ SerialInv /\ SerialInv' /\ [Next]_vars
          => [Serial!Next]_(Serial!vars)
  BY SerialRefinementStep
<1>. QED BY <1>1, <1>2, TypeAndStarted, SerialInvariant, PTL
         DEF Spec, ImplementsSerialRuns, Serial!Spec

-----------------------------------------------------------------------------
(* Every target is served *)

\* A loop under way has enqueued what it has not still to enqueue.
LoopInv ==
    \A r \in Runs : phase[r] = "spawning" =>
        \A t \in Targets : <<body[r], t>> \in todo[r] \/ child[r][<<body[r], t>>].st # "absent"

\* A child that was enqueued is never forgotten.
LEMMA ChildrenStay ==
    ASSUME TypeOK, [Next]_vars
    PROVE  \A r \in Runs, c \in ChildIds : child[r][c].st # "absent" => child'[r][c].st # "absent"
<1>. SUFFICES ASSUME NEW r \in Runs, NEW c \in ChildIds, child[r][c].st # "absent"
              PROVE  child'[r][c].st # "absent"
  OBVIOUS
<1>. USE DEF TypeOK
<1>1. ASSUME NEW s \in Runs, DispatchStep(s) PROVE child' = child
  BY <1>1 DEF DispatchStep, AcquireLock, Refuse, FailOpen, StoreCounter, Enqueue, AbortDispatch
<1>2. ASSUME NEW s \in Runs, ParentStep(s) PROVE child'[r][c].st # "absent"
  <2>1. ASSUME NEW d \in ChildIds, SpawnChild(s, d) PROVE child'[r][c].st # "absent"
    BY <2>1 DEF SpawnChild
  <2>. QED BY <1>2, <2>1 DEF ParentStep, ParentStart, ParentEndsEarly, FetchSucceeds,
              ParentDispatched, ParentRetries, FetchFails, SpawnFails, ParentAck
<1>3. ASSUME NEW s \in Runs, NEW d \in ChildIds,
             ChildStep(s, d) \/ ChildCrash(s, d) \/ ChildKilled(s, d)
      PROVE  child'[r][c].st # "absent"
  <2>1. PICK x \in {"queued", "running", "returning", "done"}, y \in Nat :
              child' = [child EXCEPT ![s][d] = [st |-> x, tries |-> y]]
    <3>1. child[s][d].tries \in Nat /\ child[s][d].tries + 1 \in Nat
      BY BoundsAssumption
    <3>. QED BY <1>3, <3>1 DEF ChildStep, ChildStart, ChildRetries, ChildFinishes, ChildAck,
                ChildCrash, ChildKilled
  <2>. QED BY <2>1
<1>4. ASSUME NEW s \in Runs, WorkerCrash(s) PROVE child'[r][c].st # "absent"
  BY <1>3, <1>4 DEF WorkerCrash, ParentCrash, ParentKilled
<1>5. CASE Tick \/ UNCHANGED vars
  BY <1>5 DEF Tick, vars, taskVars
<1>. QED BY <1>1, <1>2, <1>3, <1>4, <1>5 DEF Next

\* A step leaves the loop of run r, and what its body returned, alone or ends them.
LoopFrame(r) ==
    /\ phase'[r] = "spawning" => phase[r] = "spawning" /\ todo'[r] = todo[r] /\ body'[r] = body[r]
    /\ result'[r] = "DISPATCHED" => result[r] = "DISPATCHED"

\* Every step but three leaves every loop alone.
LEMMA LoopsFramed ==
    ASSUME TypeOK, [Next]_vars,
           \A s \in Runs : ~FetchSucceeds(s) /\ ~ParentDispatched(s)
                           /\ \A c \in ChildIds : ~SpawnChild(s, c)
    PROVE  \A r \in Runs : LoopFrame(r)
<1>. SUFFICES ASSUME NEW r \in Runs PROVE LoopFrame(r)
  OBVIOUS
<1>. USE DEF TypeOK, LoopFrame
<1>1. ASSUME NEW s \in Runs, DispatchStep(s) PROVE LoopFrame(r)
  BY <1>1 DEF DispatchStep, AcquireLock, Refuse, FailOpen, StoreCounter, Enqueue, AbortDispatch
<1>2. ASSUME NEW s \in Runs, ParentStep(s) PROVE LoopFrame(r)
  BY <1>2 DEF ParentStep, ParentStart, ParentEndsEarly, ParentRetries, FetchFails, SpawnFails,
              ParentAck
<1>3. ASSUME NEW s \in Runs, NEW d \in ChildIds,
             ChildStep(s, d) \/ ChildCrash(s, d) \/ ChildKilled(s, d)
      PROVE  LoopFrame(r)
  BY <1>3 DEF ChildStep, ChildStart, ChildRetries, ChildFinishes, ChildAck, ChildCrash, ChildKilled
<1>4. ASSUME NEW s \in Runs, WorkerCrash(s) PROVE LoopFrame(r)
  BY <1>3, <1>4 DEF WorkerCrash, ParentCrash, ParentKilled
<1>5. CASE Tick \/ UNCHANGED vars
  BY <1>5 DEF Tick, vars, taskVars
<1>. QED BY <1>1, <1>2, <1>3, <1>4, <1>5 DEF Next

\* A step keeps both: only the loop takes children off todo, and it enqueues each.
LEMMA LoopStep ==
    ASSUME TypeOK, Started, LoopInv, EveryTargetSpawned, [Next]_vars
    PROVE  LoopInv' /\ EveryTargetSpawned'
<1>. DEFINE Here(r) == phase'[r] = "spawning" => \A t \in Targets :
                         \/ <<body'[r], t>> \in todo'[r]
                         \/ child'[r][<<body'[r], t>>].st # "absent"
            Told(r) == result'[r] = "DISPATCHED" => \A t \in Targets : \E b \in Bodies :
                         child'[r][<<b, t>>].st # "absent"
<1>1. ASSUME NEW r \in Runs, LoopFrame(r) PROVE Here(r) /\ Told(r)
  <2>1. Here(r)
    <3>. SUFFICES ASSUME phase'[r] = "spawning", NEW t \in Targets
                  PROVE  \/ <<body'[r], t>> \in todo'[r]
                         \/ child'[r][<<body'[r], t>>].st # "absent"
      OBVIOUS
    <3>1. phase[r] = "spawning" /\ todo'[r] = todo[r] /\ body'[r] = body[r]
      BY <1>1 DEF LoopFrame
    <3>2. <<body[r], t>> \in ChildIds
      BY <3>1 DEF Started, ChildIds
    <3>. QED BY <3>1, <3>2, ChildrenStay DEF LoopInv
  <2>2. Told(r)
    BY <1>1, ChildrenStay DEF LoopFrame, EveryTargetSpawned, ChildIds
  <2>. QED BY <2>1, <2>2
<1>2. ASSUME NEW s \in Runs, FetchSucceeds(s), NEW r \in Runs PROVE Here(r) /\ Told(r)
  <2>1. CASE r = s
    <3>1. Here(r)
      BY <1>2, <2>1 DEF FetchSucceeds, TypeOK
    <3>2. Told(r)
      BY <1>2, ChildrenStay DEF FetchSucceeds, EveryTargetSpawned, ChildIds
    <3>. QED BY <3>1, <3>2
  <2>2. CASE r # s
    BY <1>1, <1>2, <2>2 DEF FetchSucceeds, LoopFrame, TypeOK
  <2>. QED BY <2>1, <2>2
<1>3. ASSUME NEW s \in Runs, NEW c \in ChildIds, SpawnChild(s, c), NEW r \in Runs
      PROVE  Here(r) /\ Told(r)
  <2>1. CASE r = s
    <3>1. Here(r)
      <4>. SUFFICES ASSUME NEW t \in Targets, <<body[r], t>> \notin todo'[r]
                    PROVE  child'[r][<<body[r], t>>].st # "absent"
        BY <1>3 DEF SpawnChild
      <4>1. <<body[r], t>> \in ChildIds
        BY <1>3, <2>1 DEF SpawnChild, Started, ChildIds
      <4>2. CASE <<body[r], t>> = c
        BY <1>3, <2>1, <4>2 DEF SpawnChild, TypeOK
      <4>3. CASE <<body[r], t>> # c
        <5>1. <<body[r], t>> \notin todo[r]
          BY <1>3, <2>1, <4>3 DEF SpawnChild, TypeOK
        <5>2. child[r][<<body[r], t>>].st # "absent"
          BY <1>3, <2>1, <5>1 DEF SpawnChild, LoopInv
        <5>. QED BY <4>1, <5>2, ChildrenStay
      <4>. QED BY <4>2, <4>3
    <3>2. Told(r)
      BY <1>3, ChildrenStay DEF SpawnChild, EveryTargetSpawned, ChildIds
    <3>. QED BY <3>1, <3>2
  <2>2. CASE r # s
    BY <1>1, <1>3, <2>2 DEF SpawnChild, LoopFrame, TypeOK
  <2>. QED BY <2>1, <2>2
<1>4. ASSUME NEW s \in Runs, ParentDispatched(s), NEW r \in Runs PROVE Here(r) /\ Told(r)
  <2>1. CASE r = s
    <3>1. phase[r] = "spawning" /\ todo[r] = {} /\ child' = child /\ phase'[r] = "returning"
      BY <1>4, <2>1 DEF ParentDispatched, TypeOK
    <3>2. body[r] \in Bodies
      BY <3>1 DEF Started
    <3>. QED BY <3>1, <3>2 DEF LoopInv
  <2>2. CASE r # s
    BY <1>1, <1>4, <2>2 DEF ParentDispatched, LoopFrame, TypeOK
  <2>. QED BY <2>1, <2>2
<1>5. \A r \in Runs : Here(r) /\ Told(r)
  BY <1>1, <1>2, <1>3, <1>4, LoopsFramed
<1>. QED BY <1>5 DEF LoopInv, EveryTargetSpawned

\* No failure loses a target: whatever crashed, was retried or redelivered, a
\* parent that said DISPATCHED has enqueued a child for every target.
THEOREM NoTargetLost == Spec => []EveryTargetSpawned
<1>1. Init => LoopInv /\ EveryTargetSpawned
  BY DEF Init, LoopInv, EveryTargetSpawned
<1>2. TypeOK /\ Started /\ LoopInv /\ EveryTargetSpawned /\ [Next]_vars
          => LoopInv' /\ EveryTargetSpawned'
  BY LoopStep
<1>. QED BY <1>1, <1>2, TypeAndStarted, PTL DEF Spec

-----------------------------------------------------------------------------
(* ScheduleReload: type correctness *)

\* A process that is down serves no request.  ReloadTypeOK needs it: the process that
\* starts again finds every handler with nothing to remove or to add.
Stopped == ~up => \A h \in Handlers : Idle(h)

\* A commit keeps everything but the rows, and the rows are typed by their states.
LEMMA CommitTypes ==
    ASSUME ReloadTypeOK, NEW newRow, Commit(newRow),
           changes + 1 \in 0..MaxChanges => newRow \in [Schedules -> Rows]
    PROVE  /\ row' \in [Schedules -> Rows]
           /\ changes' \in 0..MaxChanges
           /\ alone' \subseteq Handlers
           /\ UNCHANGED <<job, left, toAdd, up, broken, heals>>
BY ScheduleAssumption DEF Commit, ReloadTypeOK

\* An idle handler that begins a reload has nothing to remove or to add.
LEMMA BeginTypes ==
    ASSUME ReloadTypeOK, NEW h \in Handlers, ThenReload(h),
           row' \in [Schedules -> Rows], changes' \in 0..MaxChanges,
           alone' \subseteq Handlers, UNCHANGED <<job, left, toAdd, up, broken, heals>>
    PROVE  ReloadTypeOK' /\ Stopped'
BY DEF ReloadTypeOK, ThenReload, Idle, Stopped

\* The two together are inductive.
LEMMA TypeAndStopped == ReloadSpec => [](ReloadTypeOK /\ Stopped)
<1>1. ReloadInit => ReloadTypeOK /\ Stopped
  <2>1. 0 \in 0..MaxChanges
    BY ScheduleAssumption
  <2>2. [st |-> "free", adhoc |-> FALSE, ver |-> 0] \in Rows
    BY <2>1 DEF Rows, RowStates
  <2>. QED BY <2>1, <2>2 DEF ReloadInit, ReloadTypeOK, Stopped
<1>2. ReloadTypeOK /\ Stopped /\ [ReloadNext]_scheduleVars => ReloadTypeOK' /\ Stopped'
  <2> SUFFICES ASSUME ReloadTypeOK, Stopped, [ReloadNext]_scheduleVars
     PROVE ReloadTypeOK' /\ Stopped'
    OBVIOUS
  <2>1. ASSUME NEW h \in Handlers, Request(h) PROVE ReloadTypeOK' /\ Stopped'
    <3>1. ASSUME NEW s \in Schedules, Create(h, s) PROVE ReloadTypeOK' /\ Stopped'
      BY <3>1, CommitTypes, BeginTypes, ScheduleAssumption DEF Create, ReloadTypeOK, Rows, RowStates
    <3>2. ASSUME NEW s \in Schedules, Update(h, s) PROVE ReloadTypeOK' /\ Stopped'
      <4>1. PICK st \in {"active", "paused"}, adhoc \in {row[s].adhoc, FALSE} :
                Commit([row EXCEPT ![s] = [st |-> st, adhoc |-> adhoc, ver |-> changes + 1]])
        BY <3>2 DEF Update
      <4>2. adhoc \in BOOLEAN
        BY DEF ReloadTypeOK, Rows
      <4>. QED BY <3>2, <4>1, <4>2, CommitTypes, BeginTypes, ScheduleAssumption
               DEF Update, ReloadTypeOK, Rows, RowStates
    <3>3. ASSUME NEW some \in SUBSET Schedules, NEW st \in {"active", "paused"},
                 Toggle(h, some, st)
          PROVE  ReloadTypeOK' /\ Stopped'
      <4> DEFINE new == [s \in Schedules |->
                            IF s \in some THEN [row[s] EXCEPT !.st = st] ELSE row[s]]
      <4>1. new \in [Schedules -> Rows]
        BY DEF ReloadTypeOK, Rows, RowStates
      <4>. QED BY <3>3, <4>1, CommitTypes, BeginTypes DEF Toggle
    <3>4. ASSUME NEW some \in SUBSET Schedules, Delete(h, some) PROVE ReloadTypeOK' /\ Stopped'
      <4> DEFINE new == [s \in Schedules |->
                            IF s \in some THEN [row[s] EXCEPT !.st = "gone"] ELSE row[s]]
      <4>1. new \in [Schedules -> Rows]
        BY DEF ReloadTypeOK, Rows, RowStates
      <4>. QED BY <3>4, <4>1, CommitTypes, BeginTypes DEF Delete
    <3>5. CASE ReloadEndpoint(h)
      BY <3>5 DEF ReloadEndpoint, ThenReload, Idle, ReloadTypeOK, history, Stopped
    <3>. QED BY <2>1, <3>1, <3>2, <3>3, <3>4, <3>5 DEF Request
  <2>2. ASSUME NEW h \in Handlers, Reload(h) PROVE ReloadTypeOK' /\ Stopped'
    <3> USE DEF ReloadTypeOK, Stopped, Idle
    <3>1. CASE ListJobs(h)
      BY <3>1 DEF ListJobs
    <3>2. CASE RemoveJob(h)
      BY <3>2 DEF RemoveJob
    <3>3. CASE ReadRows(h)
      <4>1. {[id |-> s, adhoc |-> row[s].adhoc, ver |-> row[s].ver] : s \in Active} \subseteq Read
        BY DEF Active, Read, Rows
      <4>. QED BY <3>3, <4>1 DEF ReadRows
    <3>4. CASE AddJob(h)
      BY <3>4 DEF AddJob, Read
    <3>5. CASE Finish(h)
      BY <3>5 DEF Finish
    <3>6. CASE Raises(h)
      BY <3>6 DEF Raises
    <3>. QED BY <2>2, <3>1, <3>2, <3>3, <3>4, <3>5, <3>6 DEF Reload
  <2>3. ASSUME NEW h \in Handlers, Start(h) PROVE ReloadTypeOK' /\ Stopped'
    <3>1. UNCHANGED <<row, job, left, toAdd, changes, broken, heals, alone>>
      BY <2>3 DEF Start, history
    <3>. QED BY <2>3, <3>1 DEF Start, ReloadTypeOK, Stopped, Idle
  <2>4. ASSUME NEW s \in Schedules, AdHoc(s) PROVE ReloadTypeOK' /\ Stopped'
    <3>1. /\ row' \in [Schedules -> Rows] /\ changes' \in 0..MaxChanges
          /\ alone' \subseteq Handlers
          /\ UNCHANGED <<job, left, toAdd, up, broken, heals>>
      BY <2>4, CommitTypes, ScheduleAssumption DEF AdHoc, ReloadTypeOK, Rows, RowStates
    <3>. QED BY <2>4, <3>1 DEF AdHoc, ReloadTypeOK, Stopped
  <2>5. CASE Crash
    BY <2>5 DEF Crash, ReloadTypeOK, Stopped, Idle
  <2>6. CASE UNCHANGED scheduleVars
    BY <2>6 DEF scheduleVars, reloadVars, history, ReloadTypeOK, Stopped, Idle
  <2>. QED BY <2>1, <2>2, <2>3, <2>4, <2>5, <2>6 DEF ReloadNext
<1>. QED BY <1>1, <1>2, PTL DEF ReloadSpec

\* Every reachable state is well typed, and an idle handler owes nothing: left
\* and toAdd are emptied by the steps that leave their phase.
THEOREM ReloadTypes == ReloadSpec => []ReloadTypeOK
BY TypeAndStopped, PTL

-----------------------------------------------------------------------------
(* No active schedule without a job *)

\* Reload h will yet give schedule s a job: it has not read the rows, or it read
\* the row of s and has not come to it.
WillAdd(h, s) ==
    \/ pc[h] \in {"list", "remove"}
    \/ pc[h] = "add" /\ \E r \in toAdd[h] : r.id = s

Covered(s) == job[s] # NoJob \/ \E h \in Handlers : WillAdd(h, s)

\* NoneMissing with the reloads that are under way: as long as no reload has
\* failed, or from the moment on when one that began afterwards has read the
\* rows, every active schedule has a job or a reload that will add it.
CoverInv ==
    ~broken \/ (\E h \in heals : pc[h] = "add") => \A s \in Active : Covered(s)

\* A handler that begins a reload covers every schedule.
LEMMA BeginCovers ==
    ASSUME ReloadTypeOK, NEW h \in Handlers, pc' = [pc EXCEPT ![h] = "list"]
    PROVE  CoverInv'
BY DEF ReloadTypeOK, CoverInv, Covered, WillAdd, Active

\* What a handler of the API does to the rows is covered by the reload it begins.
LEMMA RequestCovers ==
    ASSUME ReloadTypeOK, NEW h \in Handlers, Request(h)
    PROVE  CoverInv'
<1>1. pc' = [pc EXCEPT ![h] = "list"]
  BY DEF Request, Create, Update, Toggle, Delete, ReloadEndpoint, ThenReload
<1>. QED BY <1>1, BeginCovers

\* A step of a reload: it removes jobs only before it reads the rows, and from
\* then on it covers every row that was active.
LEMMA ReloadCovers ==
    ASSUME ReloadTypeOK, CoverInv, NEW h \in Handlers, Reload(h)
    PROVE  CoverInv'
<1>1. CASE ListJobs(h)
  <2>1. pc'[h] = "remove"
    BY <1>1 DEF ListJobs, ReloadTypeOK
  <2>. QED BY <2>1 DEF CoverInv, Covered, WillAdd
<1>2. CASE RemoveJob(h)
  <2>1. pc'[h] = "remove"
    BY <1>2 DEF RemoveJob
  <2>. QED BY <2>1 DEF CoverInv, Covered, WillAdd
<1>3. CASE ReadRows(h)
  <2>1. pc'[h] = "add" /\ Active' = Active
    BY <1>3 DEF ReadRows, ReloadTypeOK, Active
  <2>2. ASSUME NEW s \in Active PROVE \E r \in toAdd'[h] : r.id = s
    <3>1. [id |-> s, adhoc |-> row[s].adhoc, ver |-> row[s].ver] \in toAdd'[h]
      BY <1>3 DEF ReadRows, ReloadTypeOK
    <3>. QED BY <3>1
  <2>. QED BY <2>1, <2>2 DEF CoverInv, Covered, WillAdd
<1>4. CASE AddJob(h)
  <2>1. PICK r \in toAdd[h] : /\ job' = [job EXCEPT ![r.id] = r.ver]
                              /\ toAdd' = [toAdd EXCEPT ![h] = @ \ {r}]
    BY <1>4 DEF AddJob
  <2>2. r.id \in Schedules /\ r.ver # NoJob
    BY ScheduleAssumption DEF ReloadTypeOK, Read
  <2>3. UNCHANGED <<row, pc, broken, heals>> /\ Active' = Active
    BY <1>4 DEF AddJob, Active
  <2>4. ASSUME NEW s \in Active, Covered(s) PROVE Covered(s)'
    <3>1. CASE r.id = s
      BY <2>1, <2>2, <3>1 DEF ReloadTypeOK, Covered
    <3>2. CASE r.id # s
      <4>1. job'[s] = job[s]
        BY <2>1, <3>2 DEF ReloadTypeOK, Active
      <4>2. ASSUME NEW g \in Handlers, WillAdd(g, s) PROVE WillAdd(g, s)'
        BY <2>1, <2>3, <3>2, <4>2 DEF WillAdd, ReloadTypeOK
      <4>. QED BY <2>4, <4>1, <4>2 DEF Covered
    <3>. QED BY <3>1, <3>2
  <2>. QED BY <2>3, <2>4 DEF CoverInv
<1>5. CASE Finish(h)
  <2>1. /\ pc[h] = "add" /\ toAdd[h] = {} /\ pc' = [pc EXCEPT ![h] = "idle"]
        /\ UNCHANGED <<row, job, toAdd>> /\ Active' = Active
    BY <1>5 DEF Finish, Active
  <2>2. ASSUME NEW s \in Active, Covered(s) PROVE Covered(s)'
    <3>1. ASSUME NEW g \in Handlers, WillAdd(g, s) PROVE WillAdd(g, s)'
      <4>1. g # h
        BY <2>1, <3>1 DEF WillAdd
      <4>. QED BY <2>1, <3>1, <4>1 DEF WillAdd, ReloadTypeOK
    <3>. QED BY <2>1, <2>2, <3>1 DEF Covered
  <2>3. ASSUME ~broken' \/ \E g \in heals' : pc'[g] = "add"
        PROVE  ~broken \/ \E g \in heals : pc[g] = "add"
    <3>1. CASE ~broken'
      BY <1>5, <2>1, <3>1 DEF Finish
    <3>2. CASE \E g \in heals' : pc'[g] = "add"
      BY <1>5, <2>1, <3>2 DEF Finish, ReloadTypeOK
    <3>. QED BY <2>3, <3>1, <3>2
  <2>. QED BY <2>1, <2>2, <2>3 DEF CoverInv
<1>6. CASE Raises(h)
  BY <1>6 DEF Raises, CoverInv
<1>. QED BY <1>1, <1>2, <1>3, <1>4, <1>5, <1>6 DEF Reload

\* CoverInv is inductive, given the types.
LEMMA CoverInvariant == ReloadSpec => []CoverInv
<1>1. ReloadInit => CoverInv
  BY DEF ReloadInit, CoverInv, Active
<1>2. ReloadTypeOK /\ CoverInv /\ [ReloadNext]_scheduleVars => CoverInv'
  <2> SUFFICES ASSUME ReloadTypeOK, CoverInv, [ReloadNext]_scheduleVars PROVE CoverInv'
    OBVIOUS
  <2>1. ASSUME NEW h \in Handlers, Request(h) PROVE CoverInv'
    BY <2>1, RequestCovers
  <2>2. ASSUME NEW h \in Handlers, Reload(h) PROVE CoverInv'
    BY <2>2, ReloadCovers
  <2>3. ASSUME NEW h \in Handlers, Start(h) PROVE CoverInv'
    BY <2>3, BeginCovers DEF Start
  <2>4. ASSUME NEW s \in Schedules, AdHoc(s) PROVE CoverInv'
    <3>1. Active' = Active
      BY <2>4 DEF AdHoc, Commit, Active, ReloadTypeOK
    <3>. QED BY <2>4, <3>1 DEF AdHoc, Commit, CoverInv, Covered, WillAdd
  <2>5. CASE Crash
    BY <2>5 DEF Crash, CoverInv
  <2>6. CASE UNCHANGED scheduleVars
    BY <2>6 DEF scheduleVars, reloadVars, history, CoverInv, Covered, WillAdd, Active
  <2>. QED BY <2>1, <2>2, <2>3, <2>4, <2>5, <2>6 DEF ReloadNext
<1>. QED BY <1>1, <1>2, ReloadTypes, PTL DEF ReloadSpec

\* However many reloads overlap, and whatever happened before the last failure,
\* no active schedule is left without a job once nothing is under way.
THEOREM NoScheduleMissing == ReloadSpec => []NoneMissing
<1>1. CoverInv => NoneMissing
  BY DEF CoverInv, NoneMissing, Quiet, Idle, Covered, WillAdd
<1>. QED BY <1>1, CoverInvariant, PTL

-----------------------------------------------------------------------------
(* An undisturbed reload is exact *)

\* What is known of a reload that has had the jobs to itself: while it removes,
\* every job that is left is on its list; while it adds, every schedule has the
\* job it should have or is still to get it, from a row that has not changed.
LoneInv ==
    \A h \in alone :
        /\ pc[h] \in {"remove", "add"} =>
               \A g \in Handlers \ {h} : pc[g] \in {"idle", "list"}
        /\ pc[h] = "remove" => \A s \in Schedules : job[s] # NoJob => s \in left[h]
        /\ pc[h] = "add" =>
               /\ \A r \in toAdd[h] : r.ver = Wanted[r.id]
               /\ \A s \in Schedules : job[s] = Wanted[s] \/ \E r \in toAdd[h] : r.id = s

\* A request that changes rows ends every claim to have been alone; one that only
\* reloads begins with its list and disturbs nobody yet.
LEMMA RequestLone ==
    ASSUME ReloadTypeOK, LoneInv, NEW h \in Handlers, Request(h)
    PROVE  LoneInv'
<1>1. CASE alone' = {}
  BY <1>1 DEF LoneInv
<1>2. CASE ReloadEndpoint(h)
  <2>1. /\ pc[h] = "idle" /\ pc' = [pc EXCEPT ![h] = "list"]
        /\ UNCHANGED <<row, job, left, toAdd, alone>>
    BY <1>2 DEF ReloadEndpoint, ThenReload, Idle, history
  <2>. QED BY <2>1 DEF LoneInv, Wanted, Active, ReloadTypeOK
<1>. QED BY <1>1, <1>2 DEF Request, Create, Update, Toggle, Delete, Commit

\* A step of a reload takes the claim from every other one and keeps its own.
LEMMA ReloadLone ==
    ASSUME ReloadTypeOK, LoneInv, NEW h \in Handlers, Reload(h)
    PROVE  LoneInv'
<1>1. CASE ListJobs(h)
  <2>1. CASE \A g \in Handlers \ {h} : pc[g] \in {"idle", "list"}
    <3>1. alone' = {h} /\ pc' = [pc EXCEPT ![h] = "remove"] /\ job' = job
      BY <1>1, <2>1 DEF ListJobs
    <3>2. \A s \in Schedules : job[s] # NoJob => s \in left'[h]
      BY <1>1 DEF ListJobs, ReloadTypeOK
    <3>. QED BY <2>1, <3>1, <3>2 DEF LoneInv, ReloadTypeOK
  <2>2. CASE ~\A g \in Handlers \ {h} : pc[g] \in {"idle", "list"}
    BY <1>1, <2>2 DEF ListJobs, LoneInv
  <2>. QED BY <2>1, <2>2
<1>2. CASE RemoveJob(h)
  <2>1. /\ pc[h] = "remove" /\ pc' = pc
        /\ alone' = alone \cap {h}
    BY <1>2 DEF RemoveJob
  <2>2. PICK s \in left[h] : /\ job' = [job EXCEPT ![s] = NoJob]
                             /\ left' = [left EXCEPT ![h] = @ \ {s}]
    BY <1>2 DEF RemoveJob
  <2>. QED BY <2>1, <2>2 DEF LoneInv, ReloadTypeOK
<1>3. CASE ReadRows(h)
  <2>1. /\ pc[h] = "remove" /\ left[h] = {}
        /\ pc' = [pc EXCEPT ![h] = "add"]
        /\ toAdd'[h] = {[id |-> s, adhoc |-> row[s].adhoc, ver |-> row[s].ver] : s \in Active}
        /\ alone' = alone \cap {h}
        /\ UNCHANGED <<row, job>> /\ Wanted' = Wanted
    BY <1>3 DEF ReadRows, ReloadTypeOK, Wanted, Active
  <2>2. \A r \in toAdd'[h] : r.ver = Wanted[r.id]
    BY <2>1 DEF Wanted, Active
  <2>3. ASSUME h \in alone, NEW s \in Schedules
        PROVE  job[s] = Wanted[s] \/ \E r \in toAdd'[h] : r.id = s
    <3>1. CASE s \in Active
      <4>1. [id |-> s, adhoc |-> row[s].adhoc, ver |-> row[s].ver] \in toAdd'[h]
        BY <2>1, <3>1
      <4>. QED BY <4>1
    <3>2. CASE s \notin Active
      BY <2>1, <2>3, <3>2 DEF LoneInv, Wanted
    <3>. QED BY <3>1, <3>2
  <2>. QED BY <2>1, <2>2, <2>3 DEF LoneInv, ReloadTypeOK
<1>4. CASE AddJob(h)
  <2>1. /\ pc[h] = "add" /\ pc' = pc
        /\ alone' = alone \cap {h}
        /\ Wanted' = Wanted
    BY <1>4 DEF AddJob, Wanted, Active
  <2>2. PICK r \in toAdd[h] : /\ job' = [job EXCEPT ![r.id] = r.ver]
                              /\ toAdd' = [toAdd EXCEPT ![h] = @ \ {r}]
    BY <1>4 DEF AddJob
  <2>3. r.id \in Schedules
    BY <2>2 DEF ReloadTypeOK, Read
  <2>4. ASSUME h \in alone, NEW s \in Schedules
        PROVE  job'[s] = Wanted[s] \/ \E q \in toAdd'[h] : q.id = s
    <3>1. CASE s = r.id
      BY <2>1, <2>2, <2>3, <2>4, <3>1 DEF LoneInv, ReloadTypeOK
    <3>2. CASE s # r.id
      <4>1. job'[s] = job[s]
        BY <2>2, <3>2 DEF ReloadTypeOK
      <4>2. job[s] = Wanted[s] \/ \E q \in toAdd[h] : q.id = s
        BY <2>1, <2>4 DEF LoneInv
      <4>. QED BY <2>2, <3>2, <4>1, <4>2 DEF ReloadTypeOK
    <3>. QED BY <3>1, <3>2
  <2>. QED BY <2>1, <2>2, <2>4 DEF LoneInv, ReloadTypeOK
<1>5. CASE Finish(h)
  BY <1>5 DEF Finish, LoneInv, ReloadTypeOK
<1>6. CASE Raises(h)
  BY <1>6 DEF Raises, LoneInv
<1>. QED BY <1>1, <1>2, <1>3, <1>4, <1>5, <1>6 DEF Reload

\* LoneInv is inductive, given the types; Stopped says that the process that
\* starts again finds no reload to disturb.
LEMMA LoneInvariant == ReloadSpec => []LoneInv
<1>1. ReloadInit => LoneInv
  BY DEF ReloadInit, LoneInv
<1>2. ReloadTypeOK /\ Stopped /\ LoneInv /\ [ReloadNext]_scheduleVars => LoneInv'
  <2> SUFFICES ASSUME ReloadTypeOK, Stopped, LoneInv, [ReloadNext]_scheduleVars PROVE LoneInv'
    OBVIOUS
  <2>1. ASSUME NEW h \in Handlers, Request(h) PROVE LoneInv'
    BY <2>1, RequestLone
  <2>2. ASSUME NEW h \in Handlers, Reload(h) PROVE LoneInv'
    BY <2>2, ReloadLone
  <2>3. ASSUME NEW h \in Handlers, Start(h) PROVE LoneInv'
    <3>1. /\ \A g \in Handlers : pc[g] = "idle"
          /\ pc' = [pc EXCEPT ![h] = "list"] /\ alone' = alone
      BY <2>3 DEF Start, Stopped, Idle, history
    <3>2. \A g \in Handlers : pc'[g] \in {"idle", "list"}
      BY <3>1 DEF ReloadTypeOK
    <3>. QED BY <3>1, <3>2 DEF ReloadTypeOK, LoneInv
  <2>4. ASSUME NEW s \in Schedules, AdHoc(s) PROVE LoneInv'
    BY <2>4 DEF AdHoc, Commit, LoneInv
  <2>5. CASE Crash
    BY <2>5 DEF Crash, LoneInv
  <2>6. CASE UNCHANGED scheduleVars
    BY <2>6 DEF scheduleVars, reloadVars, history, LoneInv, Wanted, Active
  <2>. QED BY <2>1, <2>2, <2>3, <2>4, <2>5, <2>6 DEF ReloadNext
<1>. QED BY <1>1, <1>2, TypeAndStopped, PTL DEF ReloadSpec

\* Whatever jobs earlier reloads left behind, one that had the jobs and the rows to
\* itself from its list to its end leaves exactly those of the active rows.
THEOREM LoneReloadIsExact == ReloadSpec => LoneReloadExact
<1>1. ASSUME ReloadTypeOK, LoneInv, NEW h \in Handlers, Finish(h), h \in alone
      PROVE  job = Wanted
  <2>1. \A s \in Schedules : job[s] = Wanted[s]
    BY <1>1 DEF LoneInv, Finish
  <2>. QED BY <1>1, <2>1 DEF ReloadTypeOK, Wanted
<1>2. ReloadTypeOK /\ LoneInv /\ [ReloadNext]_scheduleVars
        => [\A h \in Handlers : Finish(h) /\ h \in alone => job = Wanted]_scheduleVars
  BY <1>1
<1>. QED BY <1>2, ReloadTypes, LoneInvariant, PTL DEF ReloadSpec, LoneReloadExact

==============================================================================
