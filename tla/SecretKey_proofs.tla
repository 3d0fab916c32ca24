------------------------- MODULE SecretKey_proofs ---------------------------
(***************************************************************************)
(* Proofs about SecretKey, for any number of requests, secrets, values,    *)
(* keys and troubles: what becomes unreadable, and what an update does     *)
(* that nobody overlapped.                                                 *)
(*                                                                         *)
(* Both need to know what a request carries from one await to the next.    *)
(* KeyInv says it as long as no key change overlaps another handler: a     *)
(* request that changes the key is then alone, so what another one has     *)
(* read is still true.  LoneInv says it of a request that is alone.        *)
(***************************************************************************)
EXTENDS SecretKey, TLAPS

-----------------------------------------------------------------------------
(* Types                                                                   *)

Cipher   == [p : Values, k : Keys]
Table    == [Secrets -> Cipher \cup {None}]
Parts(T) == UNION {[S -> T] : S \in SUBSET Secrets}

PutPlaces == {"put_keys", "put_commit", "put_select", "put_load"}
KeyPlaces == {"setup_find", "setup_commit", "setup_switch", "setup_publish",
              "rotate_read", "rotate_switch", "rotate_find", "rotate_commit"}
Places    == PutPlaces \cup KeyPlaces \cup {"new", "done"}

Carried == [key : NewKeys \cup {None}, insert : BOOLEAN, strange : BOOLEAN, body : Parts(Values),
            rows : Parts(Cipher \cup {None}), seen : Keys \cup {None}, out : Parts(Cipher)]

\* The rows and what the process works with.
TypeOK ==
    /\ stored \in Keys \cup {None}
    /\ row \in Table
    /\ mem \in Keys
    /\ val \in [Secrets -> Values \cup {None}]
    /\ saved \in [Secrets -> Values \cup {None}]
    /\ astray \subseteq Secrets
    /\ pc \in [Requests -> Places]
    /\ op \in [Requests -> Carried]
    /\ \A r \in Requests :
          /\ InFlight(r) => up
          /\ ChangesKey(r) <=> pc[r] \in KeyPlaces
          /\ pc[r] \in {"rotate_switch", "put_load"} => op[r].rows \in Table

\* What r carries while it has not been disturbed: it is alone if it changes the
\* key; what it has read of the key and, for a rotation, of the rows is still
\* true.  Unless it began with a strange key, the key it works with is the stored
\* one, and what it has encrypted fits the rows.
Fits(r) ==
    /\ pc[r] \in KeyPlaces => \A q \in Requests \ {r} : ~InFlight(q)
    /\ pc[r] = "put_load" => op[r].seen = stored
    /\ pc[r] = "rotate_switch" => op[r].rows = row
    /\ ~op[r].strange =>
          /\ pc[r] \in PutPlaces \cup {"rotate_read", "rotate_switch"} => mem = Key
          /\ pc[r] \in {"put_keys", "put_commit"} =>
                \A s \in DOMAIN op[r].out : op[r].out[s].k = Key
          /\ pc[r] \in {"rotate_find", "rotate_commit"} =>
                \A s \in Secrets : Decrypt(row[s], Key) # None =>
                    s \in DOMAIN op[r].out /\ op[r].out[s] = [p |-> row[s].p, k |-> op[r].key]

KeyInv == ~upset => SavedReadable /\ \A r \in Requests : Fits(r)

\* What an update that nobody overlapped has done so far.
Covers(r) ==
    /\ InFlight(r) => \A q \in Requests \ {r} : ~InFlight(q)
    /\ pc[r] = "put_load" => op[r].seen = stored
    /\ ~op[r].strange =>
          /\ pc[r] \in PutPlaces => mem = Key
          /\ pc[r] \in {"put_keys", "put_commit"} =>
                /\ DOMAIN op[r].out \subseteq DOMAIN op[r].rows
                /\ \A s \in DOMAIN op[r].out : op[r].out[s].k = Key
                /\ \A s \in DOMAIN op[r].rows :
                    IF s \in DOMAIN op[r].out THEN op[r].out[s].p = op[r].body[s]
                                              ELSE Decrypt(row[s], Key) = op[r].body[s]
          /\ pc[r] = "put_commit" => DOMAIN op[r].rows = DOMAIN op[r].body
          /\ pc[r] \in {"put_select", "put_load"} =>
                \A s \in DOMAIN op[r].body : Decrypt(row[s], Key) = op[r].body[s]
          /\ pc[r] = "put_load" => op[r].rows = row

LoneInv == alone \subseteq Requests /\ \A r \in alone : Covers(r)

-----------------------------------------------------------------------------
(* Lemmas about what is carried                                            *)

\* What Parts are.
LEMMA PartIs ==
    ASSUME NEW T
    PROVE  /\ \A S \in SUBSET Secrets : \A f \in [S -> T] : f \in Parts(T)
           /\ \A f \in Parts(T) : DOMAIN f \subseteq Secrets /\ f \in [DOMAIN f -> T]
BY DEF Parts

LEMMA EmptyPart ==
    ASSUME NEW T
    PROVE  <<>> \in Parts(T) /\ DOMAIN <<>> = {}
<1>1. DOMAIN <<>> = {} /\ <<>> \in [{} -> T]
  OBVIOUS
<1>. QED BY <1>1, PartIs

LEMMA NoOpCarried ==
    /\ NoOp \in Carried /\ NoOp.key = None
    /\ NoOp.rows = <<>> /\ NoOp.out = <<>> /\ NoOp.strange = FALSE
<1>1. FALSE \in BOOLEAN
  OBVIOUS
<1>. QED BY <1>1, EmptyPart DEF NoOp, Carried

LEMMA BodiesCarried ==
    ASSUME NEW body \in Bodies
    PROVE  body \in Parts(Values)
BY SecretKeyAssumption DEF Parts

\* A request goes to another await with other things in its hands.
LEMMA Moves ==
    ASSUME TypeOK, NEW r \in Requests, NEW o \in Carried, NEW l \in Places,
           op' = [op EXCEPT ![r] = o], pc' = [pc EXCEPT ![r] = l], UNCHANGED up,
           up \/ l = "done", o.key # None <=> l \in KeyPlaces,
           l \in {"rotate_switch", "put_load"} => o.rows \in Table
    PROVE  /\ op' \in [Requests -> Carried] /\ op'[r] = o
           /\ pc' \in [Requests -> Places] /\ pc'[r] = l
           /\ \A q \in Requests \ {r} : op'[q] = op[q] /\ pc'[q] = pc[q]
           /\ \A q \in Requests : /\ InFlight(q)' => up'
                                  /\ ChangesKey(q)' <=> pc'[q] \in KeyPlaces
                                  /\ pc'[q] \in {"rotate_switch", "put_load"} =>
                                        op'[q].rows \in Table
BY DEF TypeOK, InFlight, ChangesKey

\* What a lone update of one field leaves of the others.
LEMMA Updates ==
    ASSUME NEW o \in Carried
    PROVE  /\ \A b \in BOOLEAN : [o EXCEPT !.insert = b] \in Carried
           /\ \A m \in Parts(Cipher \cup {None}) : [o EXCEPT !.rows = m] \in Carried
           /\ \A m \in Parts(Cipher) : [o EXCEPT !.out = m] \in Carried
           /\ \A k \in NewKeys : [o EXCEPT !.key = k] \in Carried
BY DEF Carried

-----------------------------------------------------------------------------
(* Type correctness                                                        *)

LEMMA TypeInit == Init => TypeOK
BY SecretKeyAssumption, NoOpCarried
DEF Init, TypeOK, Keys, Table, Places, InFlight, ChangesKey, KeyPlaces

\* A request arrives.
LEMMA TypeArrives ==
    ASSUME TypeOK, NEW r \in Requests, Arrivals(r)
    PROVE  TypeOK'
<1>1. ASSUME NEW l \in Places, NEW o \in Carried, o.key # None <=> l \in KeyPlaces,
             l \notin {"rotate_switch", "put_load"}, Arrive(r, l, o)
      PROVE  TypeOK'
  BY <1>1, Moves DEF Arrive, Goto, TypeOK, api
<1>2. ASSUME NEW k \in NewKeys, SetupCheck(r, k) \/ Rotate(r, k)
      PROVE  TypeOK'
  <2>. DEFINE o == [NoOp EXCEPT !.key = k]
              p == [NoOp EXCEPT !.key = k, !.strange = (mem # Key)]
  <2>1. o \in Carried /\ o.key = k /\ p \in Carried /\ p.key = k /\ k # None
    <3>1. (mem # Key) \in BOOLEAN
      OBVIOUS
    <3>. QED BY <3>1, NoOpCarried, SecretKeyAssumption DEF Carried
  <2>2. \/ Arrive(r, "setup_find", o) \/ Arrive(r, "rotate_read", p)
        \/ Arrive(r, "done", NoOp)
    BY <1>2 DEF SetupCheck, Rotate
  <2>. HIDE DEF o, p
  <2>3. CASE Arrive(r, "setup_find", o)
    BY <1>1, <2>1, <2>3 DEF Places, KeyPlaces
  <2>4. CASE Arrive(r, "rotate_read", p)
    BY <1>1, <2>1, <2>4 DEF Places, KeyPlaces
  <2>5. CASE Arrive(r, "done", NoOp)
    BY <1>1, <2>5, NoOpCarried DEF Places, KeyPlaces
  <2>. QED BY <2>2, <2>3, <2>4, <2>5
<1>3. ASSUME NEW body \in Bodies, Put(r, body)
      PROVE  TypeOK'
  <2>. DEFINE o == [NoOp EXCEPT !.body = body, !.strange = (mem # Key)]
  <2>1. o \in Carried /\ o.key = None
    <3>1. (mem # Key) \in BOOLEAN
      OBVIOUS
    <3>. QED BY <3>1, NoOpCarried, BodiesCarried DEF Carried
  <2>2. Arrive(r, "put_keys", o)
    BY <1>3 DEF Put
  <2>. HIDE DEF o
  <2>. QED BY <1>1, <2>1, <2>2 DEF Places, PutPlaces, KeyPlaces
<1>. QED BY <1>2, <1>3 DEF Arrivals

\* The request ends.
LEMMA TypeDone ==
    ASSUME TypeOK, NEW r \in Requests, Done(r), UNCHANGED up
    PROVE  /\ op' \in [Requests -> Carried] /\ op'[r] = NoOp
           /\ pc' \in [Requests -> Places] /\ pc'[r] = "done"
           /\ \A q \in Requests \ {r} : op'[q] = op[q] /\ pc'[q] = pc[q]
           /\ \A q \in Requests : /\ InFlight(q)' => up'
                                  /\ ChangesKey(q)' <=> pc'[q] \in KeyPlaces
                                  /\ pc'[q] \in {"rotate_switch", "put_load"} =>
                                        op'[q].rows \in Table
BY Moves, NoOpCarried DEF Done, Goto, Places, KeyPlaces

\* The wizard.
LEMMA TypeSetup ==
    ASSUME TypeOK, NEW r \in Requests,
           SetupFind(r) \/ SetupCommit(r) \/ SetupSwitch(r) \/ SetupPublish(r)
    PROVE  TypeOK'
<1>. DEFINE o == [op[r] EXCEPT !.insert = (stored = None)]
<1>1. op[r] \in Carried /\ (pc[r] \in KeyPlaces => up /\ op[r].key \in NewKeys)
  BY DEF TypeOK, InFlight, ChangesKey, KeyPlaces, Carried
<1>2. CASE SetupFind(r)
  <2>1. (stored = None) \in BOOLEAN
    OBVIOUS
  <2>2. o \in Carried
    BY <1>1, <2>1, Updates
  <2>3. o.key = op[r].key
    BY <1>1 DEF Carried
  <2>4. op' = [op EXCEPT ![r] = o]
    BY <1>2 DEF SetupFind
  <2>. QED BY <1>1, <1>2, <2>2, <2>3, <2>4, Moves
          DEF SetupFind, Goto, TypeOK, api, history, Places, KeyPlaces, ChangesKey
<1>3. CASE SetupCommit(r)
  <2>1. op' = [op EXCEPT ![r] = op[r]]
    BY <1>3 DEF SetupCommit, TypeOK
  <2>. QED BY <1>1, <1>3, <2>1, Moves
          DEF SetupCommit, Goto, TypeOK, api, Places, KeyPlaces, ChangesKey, Keys
<1>4. CASE SetupSwitch(r)
  <2>1. op' = [op EXCEPT ![r] = op[r]]
    BY <1>4 DEF SetupSwitch, TypeOK
  <2>. QED BY <1>1, <1>4, <2>1, Moves
          DEF SetupSwitch, Goto, TypeOK, history, Places, KeyPlaces, ChangesKey, Keys
<1>5. CASE SetupPublish(r)
  BY <1>5, TypeDone DEF SetupPublish, TypeOK, api, history
<1>. QED BY <1>2, <1>3, <1>4, <1>5

\* The rotation.
LEMMA TypeRotate ==
    ASSUME TypeOK, NEW r \in Requests,
           RotateRead(r) \/ RotateSwitch(r) \/ RotateFind(r) \/ RotateCommit(r)
    PROVE  TypeOK'
<1>1. op[r] \in Carried /\ (pc[r] \in KeyPlaces => up /\ op[r].key \in NewKeys)
  BY DEF TypeOK, InFlight, ChangesKey, KeyPlaces, Carried
<1>2. CASE RotateRead(r)
  <2>. DEFINE o == [op[r] EXCEPT !.rows = row]
  <2>1. row \in Parts(Cipher \cup {None})
    BY DEF TypeOK, Table, Parts
  <2>2. o \in Carried /\ o.key = op[r].key /\ o.rows = row
    BY <1>1, <2>1, Updates DEF Carried
  <2>3. op' = [op EXCEPT ![r] = o]
    BY <1>2 DEF RotateRead
  <2>. QED BY <1>1, <1>2, <2>2, <2>3, Moves
          DEF RotateRead, Goto, TypeOK, api, history, Places, KeyPlaces, ChangesKey
<1>3. CASE RotateSwitch(r)
  <2>. DEFINE read == op[r].rows
              readable == {s \in Secrets : Decrypt(read[s], mem) # None}
              out == [s \in readable |-> [p |-> read[s].p, k |-> op[r].key]]
              o == [op[r] EXCEPT !.out = out]
  <2>1. out \in Parts(Cipher)
    <3>1. op[r].rows \in Table /\ op[r].key \in Keys
      BY <1>1, <1>3 DEF RotateSwitch, TypeOK, KeyPlaces, Keys
    <3>2. readable \in SUBSET Secrets /\ out \in [readable -> Cipher]
      BY <3>1 DEF Table, Cipher, Decrypt
    <3>. QED BY <3>2, PartIs
  <2>2. o \in Carried /\ o.key = op[r].key
    BY <1>1, <2>1, Updates DEF Carried
  <2>3. op' = [op EXCEPT ![r] = o]
    BY <1>3 DEF RotateSwitch
  <2>. QED BY <1>1, <1>3, <2>2, <2>3, Moves
          DEF RotateSwitch, Goto, TypeOK, history, Places, KeyPlaces, ChangesKey, Keys
<1>4. CASE RotateFind(r)
  <2>. DEFINE o == [op[r] EXCEPT !.insert = (stored = None)]
  <2>1. (stored = None) \in BOOLEAN
    OBVIOUS
  <2>2. o \in Carried
    BY <1>1, <2>1, Updates
  <2>3. o.key = op[r].key
    BY <1>1 DEF Carried
  <2>4. op' = [op EXCEPT ![r] = o]
    BY <1>4 DEF RotateFind
  <2>. QED BY <1>1, <1>4, <2>2, <2>3, <2>4, Moves
          DEF RotateFind, Goto, TypeOK, api, history, Places, KeyPlaces, ChangesKey
<1>5. CASE RotateCommit(r)
  <2>1. row' \in Table
    BY <1>1, <1>5 DEF RotateCommit, Over, Table, TypeOK, Carried, Parts
  <2>. QED BY <1>1, <1>5, <2>1, TypeDone
          DEF RotateCommit, TypeOK, history, Keys, KeyPlaces
<1>. QED BY <1>2, <1>3, <1>4, <1>5

\* One turn of an update's loop: it has looked at the rows m, has encrypted
\* out, and goes on at l with o.
Turned(r, s, m, out, l, o) ==
    /\ m = [t \in DOMAIN op[r].rows \cup {s} |-> row[t]]
    /\ IF Decrypt(row[s], mem) = op[r].body[s] THEN out = op[r].out
       ELSE out = [t \in DOMAIN op[r].out \cup {s} |->
                      IF t = s THEN [p |-> op[r].body[s], k |-> mem] ELSE op[r].out[t]]
    /\ l = "put_commit" => DOMAIN op[r].body = DOMAIN m
    /\ o.key = None /\ o.rows = m /\ o.out = out /\ o.body = op[r].body
    /\ o.strange = op[r].strange
    /\ op' = [op EXCEPT ![r] = o] /\ pc' = [pc EXCEPT ![r] = l]
    /\ s \in DOMAIN op[r].body \ DOMAIN op[r].rows /\ op[r].body[s] \in Values

LEMMA OneTurn ==
    ASSUME TypeOK, NEW r \in Requests, NEW s \in Secrets, PutKey(r, s)
    PROVE  \E m \in Parts(Cipher \cup {None}), out \in Parts(Cipher),
              l \in {"put_keys", "put_commit"}, o \in Carried :
              Turned(r, s, m, out, l, o)
<1>. DEFINE m == [t \in DOMAIN op[r].rows \cup {s} |-> row[t]]
            same == Decrypt(row[s], mem) = op[r].body[s]
            more == [t \in DOMAIN op[r].out \cup {s} |->
                        IF t = s THEN [p |-> op[r].body[s], k |-> mem] ELSE op[r].out[t]]
            out == IF same THEN op[r].out ELSE more
            l == IF DOMAIN op[r].body = DOMAIN op[r].rows \cup {s} THEN "put_commit" ELSE "put_keys"
            o == [op[r] EXCEPT !.rows = m, !.out = out]
<1>1. /\ op[r] \in Carried /\ pc[r] = "put_keys" /\ op[r].key = None
      /\ s \in DOMAIN op[r].body \ DOMAIN op[r].rows
  BY DEF PutKey, TypeOK, KeyPlaces, ChangesKey
<1>2. /\ op[r].body \in Parts(Values) /\ op[r].out \in Parts(Cipher)
      /\ op[r].rows \in Parts(Cipher \cup {None})
  BY <1>1 DEF Carried
<1>3. op[r].body[s] \in Values
  BY <1>1, <1>2 DEF Parts
<1>4. m \in Parts(Cipher \cup {None})
  <2>1. /\ DOMAIN op[r].rows \cup {s} \in SUBSET Secrets
        /\ m \in [DOMAIN op[r].rows \cup {s} -> Cipher \cup {None}]
    BY <1>2, PartIs DEF TypeOK, Table
  <2>. QED BY <2>1, PartIs
<1>5. out \in Parts(Cipher)
  <2>1. more \in Parts(Cipher)
    <3>1. DOMAIN op[r].out \subseteq Secrets /\ op[r].out \in [DOMAIN op[r].out -> Cipher]
      BY <1>2, PartIs
    <3>2. [p |-> op[r].body[s], k |-> mem] \in Cipher
      BY <1>3 DEF Cipher, TypeOK
    <3>3. /\ DOMAIN op[r].out \cup {s} \in SUBSET Secrets
          /\ more \in [DOMAIN op[r].out \cup {s} -> Cipher]
      BY <3>1, <3>2
    <3>. QED BY <3>3, PartIs
  <2>. QED BY <1>2, <2>1
<1>6. /\ o \in Carried /\ o.key = None /\ o.rows = m /\ o.out = out
      /\ o.body = op[r].body /\ o.strange = op[r].strange
  BY <1>1, <1>4, <1>5 DEF Carried
<1>7. op' = [op EXCEPT ![r] = o]
  BY DEF PutKey
<1>8. pc' = [pc EXCEPT ![r] = l]
  BY <1>1 DEF PutKey, Goto, TypeOK
<1>9. Turned(r, s, m, out, l, o)
  BY <1>1, <1>3, <1>6, <1>7, <1>8 DEF Turned
<1>10. l \in {"put_keys", "put_commit"}
  OBVIOUS
<1>. HIDE DEF m, out, l, o
<1>. QED BY <1>4, <1>5, <1>6, <1>9, <1>10

\* The update.
LEMMA TypePut ==
    ASSUME TypeOK, NEW r \in Requests,
           (\E s \in Secrets : PutKey(r, s)) \/ PutCommit(r) \/ PutSelect(r) \/ PutLoad(r)
    PROVE  TypeOK'
<1>1. op[r] \in Carried /\ (pc[r] \in PutPlaces => up /\ op[r].key = None)
  BY DEF TypeOK, InFlight, ChangesKey, KeyPlaces, PutPlaces
<1>2. ASSUME NEW s \in Secrets, PutKey(r, s)
      PROVE  TypeOK'
  <2>1. PICK o \in Carried, l \in {"put_keys", "put_commit"} :
            o.key = None /\ op' = [op EXCEPT ![r] = o] /\ pc' = [pc EXCEPT ![r] = l]
    BY <1>2, OneTurn DEF Turned
  <2>2. /\ up /\ pc[r] \in PutPlaces
        /\ UNCHANGED <<stored, row, up, mem, val, saved, astray>>
    BY <1>1, <1>2 DEF PutKey, history, PutPlaces
  <2>3. l \in Places \ KeyPlaces /\ l \notin {"rotate_switch", "put_load"}
    BY DEF Places, PutPlaces, KeyPlaces
  <2>. QED BY <2>1, <2>2, <2>3, Moves DEF TypeOK
<1>3. CASE PutCommit(r)
  <2>1. op' = [op EXCEPT ![r] = op[r]]
    BY <1>3 DEF PutCommit, TypeOK
  <2>2. row' \in Table
    BY <1>1, <1>3 DEF PutCommit, Over, Table, TypeOK, Carried, Parts
  <2>3. saved' \in [Secrets -> Values \cup {None}]
    BY <1>1, <1>3 DEF PutCommit, TypeOK, Carried, Parts, Cipher
  <2>4. astray' \subseteq Secrets
    BY <1>1, <1>3, PartIs DEF PutCommit, TypeOK, Carried
  <2>. QED BY <1>1, <1>3, <2>1, <2>2, <2>3, <2>4, Moves
          DEF PutCommit, Goto, TypeOK, api, Places, PutPlaces, KeyPlaces
<1>4. CASE PutSelect(r)
  <2>. DEFINE o == [op[r] EXCEPT !.rows = row, !.seen = stored]
  <2>1. row \in Parts(Cipher \cup {None})
    BY DEF TypeOK, Table, Parts
  <2>2. o \in Carried /\ o.key = op[r].key /\ o.rows = row
    BY <1>1, <2>1 DEF Carried, TypeOK
  <2>3. op' = [op EXCEPT ![r] = o]
    BY <1>4 DEF PutSelect
  <2>4. /\ pc' = [pc EXCEPT ![r] = "put_load"] /\ up /\ o.key = None
        /\ UNCHANGED <<stored, row, mem, val, saved, astray, up>> /\ row \in Table
    BY <1>1, <1>4, <2>2 DEF PutSelect, Goto, api, history, PutPlaces, TypeOK
  <2>. QED BY <2>2, <2>3, <2>4, Moves DEF TypeOK, Places, PutPlaces, KeyPlaces
<1>5. CASE PutLoad(r)
  <2>1. op[r].rows \in Table /\ op[r].seen \in Keys \cup {None}
    BY <1>1, <1>5 DEF PutLoad, TypeOK, Carried
  <2>2. val' \in [Secrets -> Values \cup {None}] /\ mem' \in Keys
    BY <1>5, <2>1 DEF PutLoad, Loaded, Table, TypeOK, Cipher, Decrypt
  <2>. QED BY <1>5, <2>2, TypeDone DEF PutLoad, Loaded, TypeOK, history
<1>. QED BY <1>2, <1>3, <1>4, <1>5

\* The processes.
LEMMA TypeProcesses ==
    ASSUME TypeOK, Dies \/ Start \/ StartUnloaded \/ WorkerSteps \/ WorkerTrouble
    PROVE  TypeOK'
<1>1. CASE Dies
  <2>1. /\ pc' \in [Requests -> Places] /\ \A r \in Requests : pc'[r] \in {"new", "done"}
    BY <1>1 DEF Dies, TypeOK, InFlight, Places
  <2>2. op' \in [Requests -> Carried] /\ \A r \in Requests : op'[r].key = None
    BY <1>1, NoOpCarried DEF Dies
  <2>. QED BY <1>1, <2>1, <2>2
          DEF Dies, TypeOK, history, InFlight, ChangesKey, KeyPlaces, Keys
<1>2. CASE Start
  <2>1. val' \in [Secrets -> Values \cup {None}] /\ mem' \in Keys
    BY <1>2 DEF Start, Loaded, Table, TypeOK, Cipher, Decrypt, Key, Keys
  <2>. QED BY <1>2, <2>1 DEF Start, TypeOK, history, InFlight, ChangesKey
<1>3. CASE StartUnloaded
  BY <1>3 DEF StartUnloaded, TypeOK, history, InFlight, ChangesKey, Keys
<1>4. CASE WorkerSteps \/ WorkerTrouble
  BY <1>4 DEF WorkerSteps, WorkerCheck, WorkerSubscribe, WorkerLoad, WorkerTrouble,
              TypeOK, api, history, InFlight, ChangesKey
<1>. QED BY <1>1, <1>2, <1>3, <1>4

\* A commit fails.
LEMMA TypeFails ==
    ASSUME TypeOK, NEW r \in Requests, CommitFails(r)
    PROVE  TypeOK'
BY TypeDone DEF CommitFails, TypeOK, api, history

\* Every step is one of these.
LEMMA OfAKind ==
    ASSUME [Next]_vars
    PROVE  \/ UNCHANGED vars
           \/ \E r \in Requests :
                 \/ Arrivals(r) \/ CommitFails(r)
                 \/ SetupFind(r) \/ SetupCommit(r) \/ SetupSwitch(r) \/ SetupPublish(r)
                 \/ RotateRead(r) \/ RotateSwitch(r) \/ RotateFind(r) \/ RotateCommit(r)
                 \/ \E s \in Secrets : PutKey(r, s)
                 \/ PutCommit(r) \/ PutSelect(r) \/ PutLoad(r)
           \/ Dies \/ Start \/ StartUnloaded \/ WorkerSteps \/ WorkerTrouble
BY DEF Next, ApiSteps, Handle, Fails

\* Rows, keys, requests and what they carry stay well typed, for any requests,
\* secrets, values and keys.
THEOREM KeyTypes == Spec => []TypeOK
<1>1. TypeOK /\ [Next]_vars => TypeOK'
  <2>. SUFFICES ASSUME TypeOK, [Next]_vars
                PROVE  TypeOK'
    OBVIOUS
  <2>1. CASE UNCHANGED vars
    BY <2>1 DEF vars, api, history, TypeOK, InFlight, ChangesKey
  <2>. QED BY <2>1, OfAKind, TypeArrives, TypeFails, TypeSetup, TypeRotate, TypePut,
              TypeProcesses
<1>. QED BY TypeInit, <1>1, PTL DEF Spec

-----------------------------------------------------------------------------
(* What is saved stays readable                                            *)

LEMMA KeyInit == Init => KeyInv
BY SecretKeyAssumption, NoOpCarried DEF Init, KeyInv, SavedReadable, Fits, PutPlaces, KeyPlaces

\* Who is in flight stands at a place of one kind or the other.
LEMMA OneKind ==
    ASSUME TypeOK, NEW r \in Requests
    PROVE  /\ InFlight(r) <=> pc[r] \in PutPlaces \cup KeyPlaces
           /\ ChangesKey(r) <=> pc[r] \in KeyPlaces
           /\ PutPlaces \cap KeyPlaces = {}
BY DEF TypeOK, InFlight, ChangesKey, Places, PutPlaces, KeyPlaces

\* A request that stands still fits as before, unless rows, key or memory change.
LEMMA FitsOn ==
    ASSUME NEW q \in Requests, Fits(q), pc'[q] = pc[q], op'[q] = op[q],
           UNCHANGED <<stored, row, mem>>,
           \A p \in Requests : InFlight(p)' => InFlight(p)
    PROVE  Fits(q)'
BY DEF Fits, Key, Decrypt

\* One that is not in flight has nothing to fit.
LEMMA FitsIdle ==
    ASSUME NEW q \in Requests, pc[q] \notin PutPlaces \cup KeyPlaces
    PROVE  Fits(q)
BY DEF Fits, PutPlaces, KeyPlaces

\* How a request begins.
LEMMA Begins ==
    ASSUME TypeOK, NEW r \in Requests, Arrivals(r)
    PROVE  \E l \in {"setup_find", "rotate_read", "put_keys", "done"}, o \in Carried :
              /\ Arrive(r, l, o) /\ o.out = <<>> /\ o.rows = <<>>
              /\ o.key # None <=> l \in {"setup_find", "rotate_read"}
              /\ l \in {"rotate_read", "put_keys"} => o.strange = (mem # Key)
<1>0. (mem # Key) \in BOOLEAN
  OBVIOUS
<1>1. ASSUME NEW k \in NewKeys
      PROVE  /\ LET o == [NoOp EXCEPT !.key = k]
                IN  o \in Carried /\ o.key # None /\ o.out = <<>> /\ o.rows = <<>>
             /\ LET o == [NoOp EXCEPT !.key = k, !.strange = (mem # Key)]
                IN  /\ o \in Carried /\ o.key # None /\ o.out = <<>> /\ o.rows = <<>>
                    /\ o.strange = (mem # Key)
  BY <1>0, NoOpCarried, SecretKeyAssumption DEF Carried
<1>2. ASSUME NEW body \in Bodies
      PROVE  LET o == [NoOp EXCEPT !.body = body, !.strange = (mem # Key)]
             IN  /\ o \in Carried /\ o.key = None /\ o.out = <<>> /\ o.rows = <<>>
                 /\ o.strange = (mem # Key)
  BY <1>0, NoOpCarried, BodiesCarried DEF Carried
<1>3. CASE \E k \in NewKeys : SetupCheck(r, k) \/ Rotate(r, k)
  BY <1>1, <1>3, NoOpCarried DEF SetupCheck, Rotate
<1>4. CASE \E body \in Bodies : Put(r, body)
  BY <1>2, <1>4 DEF Put
<1>. QED BY <1>3, <1>4 DEF Arrivals

LEMMA KeyArrives ==
    ASSUME TypeOK, KeyInv, NEW r \in Requests, Arrivals(r), ~upset'
    PROVE  SavedReadable' /\ \A q \in Requests : Fits(q)'
<1>1. PICK l \in {"setup_find", "rotate_read", "put_keys", "done"}, o \in Carried :
          /\ Arrive(r, l, o) /\ o.out = <<>>
          /\ o.key # None <=> l \in {"setup_find", "rotate_read"}
          /\ l \in {"rotate_read", "put_keys"} => o.strange = (mem # Key)
  BY Begins
<1>2. /\ pc[r] = "new" /\ pc' = [pc EXCEPT ![r] = l] /\ op' = [op EXCEPT ![r] = o]
      /\ UNCHANGED <<stored, row, mem, saved, astray>>
      /\ upset' = \/ upset
                  \/ Busy # {} /\ (o.key # None \/ \E b \in Busy : ChangesKey(b))
  BY <1>1 DEF Arrive, Goto, api
<1>3. ~upset
  BY <1>2
<1>4. SavedReadable'
  BY <1>2, <1>3 DEF KeyInv, SavedReadable, Key, Decrypt
<1>5. /\ pc'[r] = l /\ op'[r] = o
      /\ \A q \in Requests \ {r} : pc'[q] = pc[q] /\ op'[q] = op[q]
  BY <1>2 DEF TypeOK
<1>6. ASSUME NEW q \in Requests \ {r}
      PROVE  Fits(q)'
  <2>1. CASE pc[q] \in KeyPlaces
    BY <1>2, <2>1, OneKind DEF Busy
  <2>2. CASE pc[q] \notin KeyPlaces
    BY <1>2, <1>3, <1>5, <2>2 DEF KeyInv, Fits, Key, KeyPlaces
  <2>. QED BY <2>1, <2>2
<1>7. Fits(r)'
  <2>1. o.key # None => \A q \in Requests \ {r} : ~InFlight(q)'
    BY <1>2, <1>5 DEF Busy, InFlight
  <2>2. Key' = Key /\ mem' = mem /\ DOMAIN o.out = {}
    BY <1>1, <1>2, EmptyPart DEF Key
  <2>. QED BY <1>1, <1>5, <2>1, <2>2 DEF Fits, PutPlaces, KeyPlaces
<1>. QED BY <1>4, <1>6, <1>7

\* What a request does that leaves rows, key and memory alone: only it has to
\* be looked at.
LEMMA KeyKeeps ==
    ASSUME TypeOK, KeyInv, NEW r \in Requests, InFlight(r), ~upset,
           UNCHANGED <<stored, row, mem, saved, astray>>,
           \A q \in Requests \ {r} : pc'[q] = pc[q] /\ op'[q] = op[q],
           Fits(r)'
    PROVE  SavedReadable' /\ \A q \in Requests : Fits(q)'
<1>1. \A q \in Requests : InFlight(q)' => InFlight(q)
  BY DEF InFlight
<1>. QED BY <1>1, FitsOn DEF KeyInv, SavedReadable, Key, Decrypt

\* What a request does alone: the others have nothing to fit.
LEMMA KeyAlone ==
    ASSUME TypeOK, KeyInv, NEW r \in Requests, ~upset, pc[r] \in KeyPlaces,
           \A q \in Requests \ {r} : pc'[q] = pc[q]
    PROVE  \A q \in Requests \ {r} : ~InFlight(q)' /\ Fits(q)'
<1>1. \A q \in Requests \ {r} : ~InFlight(q)
  BY DEF KeyInv, Fits
<1>2. \A q \in Requests \ {r} : ~InFlight(q)' /\ pc'[q] \notin PutPlaces \cup KeyPlaces
  BY <1>1, OneKind DEF InFlight
<1>. QED BY <1>2 DEF Fits, PutPlaces, KeyPlaces

LEMMA KeySetup ==
    ASSUME TypeOK, KeyInv, NEW r \in Requests, ~upset',
           SetupFind(r) \/ SetupCommit(r) \/ SetupSwitch(r) \/ SetupPublish(r)
    PROVE  SavedReadable' /\ \A q \in Requests : Fits(q)'
<1>1. /\ pc[r] \in KeyPlaces /\ ~upset
      /\ \A q \in Requests \ {r} : pc'[q] = pc[q]
      /\ pc'[r] \in {"setup_commit", "setup_switch", "setup_publish", "done"}
  BY DEF SetupFind, SetupCommit, SetupSwitch, SetupPublish, Goto, Done, history, KeyPlaces,
         TypeOK
<1>2. \A q \in Requests \ {r} : ~InFlight(q)' /\ Fits(q)'
  BY <1>1, KeyAlone
<1>3. Fits(r)'
  BY <1>1, <1>2 DEF Fits, PutPlaces, KeyPlaces
<1>4. SavedReadable'
  <2>1. CASE UNCHANGED <<stored, row, saved, astray>>
    BY <1>1, <2>1 DEF KeyInv, SavedReadable, Key, Decrypt
  <2>2. CASE SetupCommit(r)
    BY <2>2 DEF SetupCommit, SavedReadable
  <2>. QED BY <2>1, <2>2 DEF SetupFind, SetupSwitch, SetupPublish, history
<1>. QED BY <1>2, <1>3, <1>4

LEMMA KeyRotate ==
    ASSUME TypeOK, KeyInv, NEW r \in Requests, ~upset',
           RotateRead(r) \/ RotateSwitch(r) \/ RotateFind(r) \/ RotateCommit(r)
    PROVE  SavedReadable' /\ \A q \in Requests : Fits(q)'
<1>1. /\ pc[r] \in KeyPlaces /\ ~upset /\ UNCHANGED saved
      /\ ~RotateCommit(r) => UNCHANGED astray
      /\ \A q \in Requests \ {r} : pc'[q] = pc[q]
  BY DEF RotateRead, RotateSwitch, RotateFind, RotateCommit, Goto, Done, history, KeyPlaces,
         TypeOK
<1>2. \A q \in Requests \ {r} : ~InFlight(q)' /\ Fits(q)'
  BY <1>1, KeyAlone
<1>3. op[r] \in Carried /\ op[r].key \in NewKeys /\ Fits(r) /\ SavedReadable
  BY <1>1 DEF TypeOK, ChangesKey, Carried, KeyInv
<1>4. CASE RotateRead(r)
  <2>1. /\ pc'[r] = "rotate_switch" /\ op'[r] = [op[r] EXCEPT !.rows = row]
        /\ pc[r] = "rotate_read" /\ UNCHANGED <<stored, row, mem, astray>>
    BY <1>4 DEF RotateRead, Goto, TypeOK, api, history
  <2>2. op'[r].rows = row /\ op'[r].strange = op[r].strange
    BY <1>3, <2>1 DEF Carried
  <2>3. Fits(r)'
    BY <1>2, <1>3, <2>1, <2>2 DEF Fits, Key, PutPlaces
  <2>. QED BY <1>1, <1>2, <1>3, <2>1, <2>3 DEF SavedReadable, Key, Decrypt
<1>5. CASE RotateSwitch(r)
  <2>. DEFINE read == op[r].rows
              readable == {s \in Secrets : Decrypt(read[s], mem) # None}
              out == [s \in readable |-> [p |-> read[s].p, k |-> op[r].key]]
  <2>1. /\ pc'[r] = "rotate_find" /\ op'[r] = [op[r] EXCEPT !.out = out]
        /\ pc[r] = "rotate_switch" /\ UNCHANGED <<stored, row, astray>>
    BY <1>5 DEF RotateSwitch, Goto, TypeOK, history
  <2>2. op'[r].out = out /\ op'[r].key = op[r].key /\ op'[r].strange = op[r].strange
    BY <1>3, <2>1 DEF Carried
  <2>3. read = row /\ (~op[r].strange => mem = Key)
    BY <1>3, <2>1 DEF Fits
  <2>4. ~op[r].strange => \A s \in Secrets : Decrypt(row[s], Key) # None =>
            s \in DOMAIN out /\ out[s] = [p |-> row[s].p, k |-> op[r].key]
    BY <2>3
  <2>5. Fits(r)'
    BY <1>2, <2>1, <2>2, <2>4 DEF Fits, Key, Decrypt, PutPlaces
  <2>. QED BY <1>1, <1>2, <1>3, <2>1, <2>5 DEF SavedReadable, Key, Decrypt
<1>6. CASE RotateFind(r)
  <2>1. /\ pc'[r] = "rotate_commit" /\ op'[r] = [op[r] EXCEPT !.insert = (stored = None)]
        /\ pc[r] = "rotate_find" /\ UNCHANGED <<stored, row, astray>>
    BY <1>6 DEF RotateFind, Goto, TypeOK, api, history
  <2>2. /\ op'[r].out = op[r].out /\ op'[r].key = op[r].key
        /\ op'[r].strange = op[r].strange
    BY <1>3, <2>1 DEF Carried
  <2>3. Fits(r)'
    BY <1>2, <1>3, <2>1, <2>2 DEF Fits, Key, Decrypt, PutPlaces
  <2>. QED BY <1>1, <1>2, <1>3, <2>1, <2>3 DEF SavedReadable, Key, Decrypt
<1>7. CASE RotateCommit(r)
  <2>1. /\ pc[r] = "rotate_commit" /\ pc'[r] = "done"
        /\ row' = Over(op[r].out) /\ stored' = op[r].key /\ Key' = op[r].key
        /\ astray' = IF op[r].strange THEN Secrets ELSE astray
    BY <1>3, <1>7, SecretKeyAssumption DEF RotateCommit, Done, Goto, TypeOK, Key
  <2>2. ASSUME ~op[r].strange, NEW s \in Secrets \ astray, saved[s] # None
        PROVE  Decrypt(row'[s], Key') = saved[s]
    <3>1. Decrypt(row[s], Key) = saved[s] /\ row[s].p = saved[s]
      BY <1>1, <1>3, <2>2 DEF SavedReadable, Decrypt
    <3>2. s \in DOMAIN op[r].out /\ op[r].out[s] = [p |-> row[s].p, k |-> op[r].key]
      BY <1>3, <2>1, <2>2, <3>1 DEF Fits
    <3>3. row'[s] = [p |-> row[s].p, k |-> op[r].key] /\ row'[s] \in Cipher
      <4>1. op[r].out[s] \in Cipher
        BY <1>3, <3>2, PartIs DEF Carried
      <4>. QED BY <2>1, <3>2, <4>1 DEF Over
    <3>4. None \notin Cipher
      BY SecretKeyAssumption DEF Cipher, Keys
    <3>. QED BY <2>1, <3>1, <3>3, <3>4 DEF Decrypt
  <2>3. Fits(r)'
    BY <2>1 DEF Fits, PutPlaces, KeyPlaces
  <2>4. SavedReadable'
    BY <1>1, <2>1, <2>2 DEF SavedReadable
  <2>. QED BY <1>2, <2>3, <2>4
<1>. QED BY <1>4, <1>5, <1>6, <1>7

LEMMA KeyPut ==
    ASSUME TypeOK, KeyInv, NEW r \in Requests, ~upset',
           (\E s \in Secrets : PutKey(r, s)) \/ PutCommit(r) \/ PutSelect(r) \/ PutLoad(r)
    PROVE  SavedReadable' /\ \A q \in Requests : Fits(q)'
<1>1. pc[r] \in PutPlaces /\ InFlight(r) /\ ~upset
  <2>1. ASSUME NEW s \in Secrets, PutKey(r, s)
        PROVE  pc[r] \in PutPlaces /\ ~upset
    BY <2>1 DEF PutKey, PutPlaces, history
  <2>2. PutCommit(r) \/ PutSelect(r) \/ PutLoad(r) => pc[r] \in PutPlaces /\ ~upset
    BY DEF PutCommit, PutSelect, PutLoad, PutPlaces, history
  <2>. QED BY <2>1, <2>2, OneKind
<1>2. op[r] \in Carried /\ Fits(r) /\ SavedReadable /\ (~op[r].strange => mem = Key)
  BY <1>1 DEF TypeOK, KeyInv, Fits
<1>3. ASSUME NEW s \in Secrets, PutKey(r, s)
      PROVE  SavedReadable' /\ \A q \in Requests : Fits(q)'
  <2>1. /\ pc[r] = "put_keys" /\ UNCHANGED <<stored, row, mem, saved, astray>>
        /\ \A q \in Requests \ {r} : pc'[q] = pc[q] /\ op'[q] = op[q]
    BY <1>3 DEF PutKey, Goto, TypeOK, history
  <2>2. /\ pc'[r] \in {"put_keys", "put_commit"} /\ op'[r].strange = op[r].strange
        /\ ~op[r].strange => \A t \in DOMAIN op'[r].out : op'[r].out[t].k = Key
    <3>1. PICK m \in Parts(Cipher \cup {None}), out \in Parts(Cipher),
               l \in {"put_keys", "put_commit"}, o \in Carried : Turned(r, s, m, out, l, o)
      BY <1>3, OneTurn
    <3>2. ~op[r].strange => \A t \in DOMAIN out : out[t].k = Key
      BY <1>2, <2>1, <3>1 DEF Fits, Turned
    <3>. QED BY <3>1, <3>2 DEF TypeOK, Turned
  <2>3. Fits(r)'
    BY <1>2, <2>1, <2>2 DEF Fits, Key, PutPlaces, KeyPlaces
  <2>. QED BY <1>1, <2>1, <2>3, KeyKeeps
<1>4. CASE PutCommit(r)
  <2>1. /\ pc[r] = "put_commit" /\ pc' = [pc EXCEPT ![r] = "put_select"]
        /\ UNCHANGED <<stored, mem, op>>
        /\ row' = Over(op[r].out)
        /\ saved' = [s \in Secrets |->
                        IF s \in DOMAIN op[r].out THEN op[r].out[s].p ELSE saved[s]]
        /\ astray' = IF op[r].strange THEN astray \cup DOMAIN op[r].out
                     ELSE astray \ DOMAIN op[r].out
    BY <1>4 DEF PutCommit, Goto, api
  <2>2. ASSUME NEW s \in Secrets \ astray', saved'[s] # None
        PROVE  Decrypt(row'[s], Key') = saved'[s]
    <3>1. CASE s \in DOMAIN op[r].out
      <4>0. ~op[r].strange
        BY <2>1, <2>2, <3>1
      <4>1. op[r].out[s] \in Cipher /\ op[r].out[s].k = Key
        BY <1>2, <2>1, <3>1, <4>0, PartIs DEF Carried, Fits
      <4>2. None \notin Cipher
        BY SecretKeyAssumption DEF Cipher, Keys
      <4>. QED BY <2>1, <3>1, <4>1, <4>2 DEF Over, Decrypt, Key
    <3>2. CASE s \notin DOMAIN op[r].out
      BY <1>1, <1>2, <2>1, <2>2, <3>2 DEF SavedReadable, Over, Decrypt, Key
    <3>. QED BY <3>1, <3>2
  <2>3. ASSUME NEW q \in Requests \ {r}
        PROVE  Fits(q)'
    <3>1. Fits(q) /\ pc[q] \notin KeyPlaces
      BY <1>1, <1>2 DEF KeyInv, Fits
    <3>2. pc'[q] = pc[q]
      BY <2>1 DEF TypeOK
    <3>. QED BY <2>1, <3>1, <3>2 DEF Fits, Key, KeyPlaces
  <2>4. Fits(r)'
    BY <1>2, <2>1 DEF Fits, Key, PutPlaces, KeyPlaces, TypeOK
  <2>. QED BY <2>2, <2>3, <2>4 DEF SavedReadable
<1>5. CASE PutSelect(r)
  <2>1. /\ pc[r] = "put_select" /\ UNCHANGED <<stored, row, mem, saved, astray>>
        /\ \A q \in Requests \ {r} : pc'[q] = pc[q] /\ op'[q] = op[q]
        /\ pc'[r] = "put_load" /\ op'[r] = [op[r] EXCEPT !.rows = row, !.seen = stored]
    BY <1>5 DEF PutSelect, Goto, TypeOK, api, history
  <2>2. op'[r].seen = stored /\ op'[r].strange = op[r].strange
    BY <1>2, <2>1 DEF Carried
  <2>3. Fits(r)'
    BY <1>2, <2>1, <2>2 DEF Fits, Key, PutPlaces, KeyPlaces
  <2>. QED BY <1>1, <2>1, <2>3, KeyKeeps
<1>6. CASE PutLoad(r)
  <2>1. /\ pc[r] = "put_load" /\ UNCHANGED <<stored, row, saved, astray>>
        /\ \A q \in Requests \ {r} : pc'[q] = pc[q] /\ op'[q] = op[q]
        /\ pc'[r] = "done"
    BY <1>6 DEF PutLoad, Done, Goto, TypeOK, history
  <2>2. mem' = mem \/ mem' = Key
    BY <1>2, <1>6, <2>1 DEF PutLoad, Loaded, Fits, Key
  <2>3. Fits(r)'
    BY <2>1 DEF Fits, PutPlaces, KeyPlaces
  <2>4. ASSUME NEW q \in Requests \ {r}
        PROVE  Fits(q)'
    <3>1. Fits(q) /\ pc[q] \notin KeyPlaces /\ pc'[q] = pc[q] /\ op'[q] = op[q]
      BY <1>1, <2>1, <2>4 DEF KeyInv, Fits
    <3>2. Key' = Key
      BY <2>1 DEF Key
    <3>. QED BY <2>1, <2>2, <3>1, <3>2 DEF Fits, KeyPlaces
  <2>5. SavedReadable'
    BY <1>1, <1>2, <2>1 DEF SavedReadable, Key, Decrypt
  <2>. QED BY <2>3, <2>4, <2>5
<1>. QED BY <1>3, <1>4, <1>5, <1>6

\* A commit that fails, and what the processes do: the requests that are left
\* in flight fit as before.
LEMMA KeyElse ==
    ASSUME TypeOK, KeyInv, ~upset',
           \/ \E r \in Requests : CommitFails(r)
           \/ Dies \/ Start \/ StartUnloaded \/ WorkerSteps \/ WorkerTrouble
           \/ UNCHANGED vars
    PROVE  SavedReadable' /\ \A q \in Requests : Fits(q)'
<1>1. ~upset /\ UNCHANGED <<stored, row, saved, astray>>
  BY DEF CommitFails, Dies, Start, StartUnloaded, WorkerSteps, WorkerCheck, WorkerSubscribe,
         WorkerLoad, WorkerTrouble, vars, history
<1>2. SavedReadable'
  BY <1>1 DEF KeyInv, SavedReadable, Decrypt, Key
<1>3. ASSUME NEW r \in Requests, CommitFails(r)
      PROVE  \A q \in Requests : Fits(q)'
  <2>1. /\ \A q \in Requests \ {r} : pc'[q] = pc[q] /\ op'[q] = op[q]
        /\ pc'[r] = "done" /\ InFlight(r) /\ UNCHANGED mem
    BY <1>3 DEF CommitFails, Done, Goto, TypeOK, api, InFlight
  <2>2. Fits(r)'
    BY <2>1 DEF Fits, PutPlaces, KeyPlaces
  <2>. QED BY <1>1, <2>1, <2>2, KeyKeeps
<1>4. CASE Dies \/ Start \/ StartUnloaded
  <2>1. \A q \in Requests : pc'[q] \notin PutPlaces \cup KeyPlaces
    <3>1. CASE Dies
      BY <3>1 DEF Dies, InFlight, TypeOK, PutPlaces, KeyPlaces
    <3>2. CASE Start \/ StartUnloaded
      <4>1. UNCHANGED pc /\ \A q \in Requests : ~InFlight(q)
        BY <3>2 DEF Start, StartUnloaded, TypeOK
      <4>2. \A q \in Requests : pc[q] \notin PutPlaces \cup KeyPlaces
        BY <4>1, OneKind
      <4>. QED BY <4>1, <4>2
    <3>. QED BY <1>4, <3>1, <3>2
  <2>. QED BY <1>2, <2>1 DEF Fits, PutPlaces, KeyPlaces
<1>5. CASE WorkerSteps \/ WorkerTrouble \/ UNCHANGED vars
  <2>1. UNCHANGED <<pc, op, mem>>
    BY <1>5 DEF WorkerSteps, WorkerCheck, WorkerSubscribe, WorkerLoad, WorkerTrouble, vars, api
  <2>2. ASSUME NEW q \in Requests
        PROVE  Fits(q)'
    <3>1. Fits(q) /\ \A p \in Requests : InFlight(p)' => InFlight(p)
      BY <1>1, <2>1 DEF KeyInv, InFlight
    <3>2. pc'[q] = pc[q] /\ op'[q] = op[q] /\ UNCHANGED <<stored, row, mem>>
      BY <1>1, <2>1
    <3>. QED BY <3>1, <3>2, FitsOn
  <2>. QED BY <1>2, <2>2
<1>. QED BY <1>2, <1>3, <1>4, <1>5

LEMMA KeyStep ==
    ASSUME TypeOK, KeyInv, [Next]_vars
    PROVE  KeyInv'
<1>. SUFFICES ASSUME ~upset'
              PROVE  SavedReadable' /\ \A q \in Requests : Fits(q)'
  BY DEF KeyInv
<1>. QED BY OfAKind, KeyArrives, KeySetup, KeyRotate, KeyPut, KeyElse

\* No credential is lost, for any requests, secrets, values and keys, as long as
\* no key change overlaps another handler: every value saved since setup decrypts
\* with the stored key at every moment, but those that an update has written that
\* began with a strange key in memory, and all of them once a rotation has that
\* began so.
THEOREM NothingLost == Spec => []SavedReadable
<1>1. KeyInv => SavedReadable
  BY DEF KeyInv, SavedReadable
<1>. QED BY KeyTypes, KeyInit, KeyStep, <1>1, PTL DEF Spec

-----------------------------------------------------------------------------
(* An update that nobody overlapped                                        *)

LEMMA LoneArrives ==
    ASSUME TypeOK, LoneInv, NEW r \in Requests, Arrivals(r)
    PROVE  LoneInv'
<1>1. PICK l \in {"setup_find", "rotate_read", "put_keys", "done"}, o \in Carried :
          /\ Arrive(r, l, o) /\ o.out = <<>> /\ o.rows = <<>>
          /\ o.key # None <=> l \in {"setup_find", "rotate_read"}
          /\ l = "put_keys" => o.strange = (mem # Key)
  BY Begins
<1>2. /\ pc'[r] = l /\ op'[r] = o /\ \A q \in Requests \ {r} : pc'[q] = pc[q]
      /\ alone' = IF Busy = {} THEN {r} ELSE {}
  BY <1>1 DEF Arrive, Goto, TypeOK
<1>3. SUFFICES ASSUME Busy = {}
               PROVE  Covers(r)'
  BY <1>2 DEF LoneInv
<1>4. \A q \in Requests \ {r} : ~InFlight(q)'
  BY <1>2, <1>3 DEF Busy, InFlight
<1>5. DOMAIN op'[r].out = {} /\ DOMAIN op'[r].rows = {}
  BY <1>1, <1>2, EmptyPart
<1>6. mem' = mem /\ Key' = Key
  BY <1>1 DEF Arrive, api, Key
<1>. QED BY <1>1, <1>2, <1>4, <1>5, <1>6 DEF Covers, PutPlaces

\* As long as nobody arrives, it stays alone.
LEMMA StaysAlone ==
    ASSUME LoneInv, NEW r \in alone, \A q \in Requests : InFlight(q)' => InFlight(q),
           InFlight(r)'
    PROVE  \A q \in Requests \ {r} : ~InFlight(q)'
BY DEF LoneInv, Covers

\* It ends, or goes on where nothing is promised.
LEMMA LoneElsewhere ==
    ASSUME LoneInv, NEW r \in alone, \A q \in Requests : InFlight(q)' => InFlight(q),
           pc'[r] \notin PutPlaces
    PROVE  Covers(r)'
BY StaysAlone DEF Covers, PutPlaces

\* What a lone request does.
LEMMA LonePut ==
    ASSUME TypeOK, LoneInv, NEW r \in alone,
           \A q \in Requests : InFlight(q)' => InFlight(q),
           (\E s \in Secrets : PutKey(r, s)) \/ PutCommit(r) \/ PutSelect(r) \/ PutLoad(r)
    PROVE  Covers(r)'
<1>1. r \in Requests /\ Covers(r) /\ op[r] \in Carried
  BY DEF LoneInv, TypeOK
<1>2. ASSUME NEW s \in Secrets, PutKey(r, s)
      PROVE  Covers(r)'
  <2>1. pc[r] = "put_keys" /\ UNCHANGED <<stored, row, mem>>
    BY <1>2 DEF PutKey
  <2>2. PICK m \in Parts(Cipher \cup {None}), out \in Parts(Cipher),
             l \in {"put_keys", "put_commit"}, o \in Carried : Turned(r, s, m, out, l, o)
    BY <1>1, <1>2, OneTurn
  <2>3. /\ pc'[r] = l /\ op'[r] = o /\ o.rows = m /\ o.out = out /\ o.body = op[r].body
        /\ o.strange = op[r].strange
        /\ DOMAIN m = DOMAIN op[r].rows \cup {s} /\ s \notin DOMAIN op[r].rows
        /\ l = "put_commit" => DOMAIN op[r].body = DOMAIN m
    BY <1>1, <2>2 DEF Turned, TypeOK
  <2>4. ASSUME ~op[r].strange
        PROVE  /\ DOMAIN out \subseteq DOMAIN m
               /\ \A t \in DOMAIN out : out[t].k = Key
               /\ \A t \in DOMAIN m :
                     IF t \in DOMAIN out THEN out[t].p = op[r].body[t]
                                         ELSE Decrypt(row[t], Key) = op[r].body[t]
    <3>1. /\ mem = Key
          /\ DOMAIN op[r].out \subseteq DOMAIN op[r].rows
          /\ \A t \in DOMAIN op[r].out : op[r].out[t].k = Key
          /\ \A t \in DOMAIN op[r].rows :
                IF t \in DOMAIN op[r].out THEN op[r].out[t].p = op[r].body[t]
                                          ELSE Decrypt(row[t], Key) = op[r].body[t]
      BY <1>1, <2>1, <2>4 DEF Covers, PutPlaces
    <3>2. CASE Decrypt(row[s], mem) = op[r].body[s]
      BY <2>2, <2>3, <3>1, <3>2 DEF Turned
    <3>3. CASE Decrypt(row[s], mem) # op[r].body[s]
      BY <2>2, <2>3, <3>1, <3>3 DEF Turned
    <3>. QED BY <3>2, <3>3
  <2>5. Key' = Key
    BY <2>1 DEF Key
  <2>6. InFlight(r)' => \A q \in Requests \ {r} : ~InFlight(q)'
    BY StaysAlone
  <2>. QED BY <1>1, <2>1, <2>3, <2>4, <2>5, <2>6 DEF Covers, Decrypt, PutPlaces
<1>3. CASE PutCommit(r)
  <2>1. /\ pc[r] = "put_commit" /\ pc'[r] = "put_select"
        /\ UNCHANGED <<stored, op, mem>> /\ row' = Over(op[r].out)
    BY <1>1, <1>3 DEF PutCommit, Goto, TypeOK, api
  <2>2. ASSUME ~op[r].strange, NEW s \in DOMAIN op[r].body
        PROVE  Decrypt(row'[s], Key) = op[r].body[s]
    <3>1. /\ s \in DOMAIN op[r].out => op[r].out[s].p = op[r].body[s]
          /\ s \notin DOMAIN op[r].out => Decrypt(row[s], Key) = op[r].body[s]
          /\ s \in DOMAIN op[r].out => op[r].out[s].k = Key
          /\ s \in Secrets
      <4>1. s \in DOMAIN op[r].rows
        BY <1>1, <2>1, <2>2 DEF Covers
      <4>2. s \in DOMAIN op[r].out => op[r].out[s].k = Key
        BY <1>1, <2>1, <2>2 DEF Covers
      <4>3. s \in Secrets
        BY <1>1, <2>2, PartIs DEF Carried
      <4>4. \A t \in DOMAIN op[r].rows :
               IF t \in DOMAIN op[r].out THEN op[r].out[t].p = op[r].body[t]
                                         ELSE Decrypt(row[t], Key) = op[r].body[t]
        BY <1>1, <2>1, <2>2 DEF Covers
      <4>. QED BY <4>1, <4>2, <4>3, <4>4
    <3>2. CASE s \in DOMAIN op[r].out
      <4>1. op[r].out[s] \in Cipher
        BY <1>1, <3>2, PartIs DEF Carried
      <4>2. None \notin Cipher
        BY SecretKeyAssumption DEF Cipher, Keys
      <4>. QED BY <2>1, <3>1, <3>2, <4>1, <4>2 DEF Over, Decrypt
    <3>3. CASE s \notin DOMAIN op[r].out
      BY <2>1, <3>1, <3>3 DEF Over
    <3>. QED BY <3>2, <3>3
  <2>3. InFlight(r)' => \A q \in Requests \ {r} : ~InFlight(q)'
    BY StaysAlone
  <2>. QED BY <1>1, <2>1, <2>2, <2>3 DEF Covers, Key, PutPlaces
<1>4. CASE PutSelect(r)
  <2>1. /\ pc[r] = "put_select" /\ pc'[r] = "put_load" /\ UNCHANGED <<stored, row, mem>>
        /\ op'[r] = [op[r] EXCEPT !.rows = row, !.seen = stored]
    BY <1>1, <1>4 DEF PutSelect, Goto, TypeOK, api
  <2>2. /\ op'[r].rows = row /\ op'[r].body = op[r].body /\ op'[r].seen = stored
        /\ op'[r].strange = op[r].strange
    BY <1>1, <2>1 DEF Carried
  <2>3. InFlight(r)' => \A q \in Requests \ {r} : ~InFlight(q)'
    BY StaysAlone
  <2>. QED BY <1>1, <2>1, <2>2, <2>3 DEF Covers, Key, PutPlaces
<1>5. CASE PutLoad(r)
  <2>1. pc'[r] = "done"
    BY <1>1, <1>5 DEF PutLoad, Done, Goto, TypeOK
  <2>. QED BY <2>1, LoneElsewhere DEF PutPlaces
<1>. QED BY <1>2, <1>3, <1>4, <1>5

\* What the handlers do one by one.
LEMMA LoneHandles ==
    ASSUME TypeOK, LoneInv, NEW p \in Requests,
           \/ CommitFails(p)
           \/ SetupFind(p) \/ SetupCommit(p) \/ SetupSwitch(p) \/ SetupPublish(p)
           \/ RotateRead(p) \/ RotateSwitch(p) \/ RotateFind(p) \/ RotateCommit(p)
           \/ (\E s \in Secrets : PutKey(p, s)) \/ PutCommit(p) \/ PutSelect(p) \/ PutLoad(p)
    PROVE  LoneInv'
<1>. DEFINE Puts == \/ \E s \in Secrets : PutKey(p, s)
                    \/ PutCommit(p) \/ PutSelect(p) \/ PutLoad(p)
            Keyed == \/ SetupFind(p) \/ SetupCommit(p) \/ SetupSwitch(p) \/ SetupPublish(p)
                     \/ RotateRead(p) \/ RotateSwitch(p) \/ RotateFind(p) \/ RotateCommit(p)
<1>1. /\ InFlight(p) /\ UNCHANGED alone
      /\ \A q \in Requests \ {p} : pc'[q] = pc[q]
      /\ ~Puts => pc'[p] \in KeyPlaces \cup {"done"}
  <2>1. CASE CommitFails(p)
    BY <2>1 DEF CommitFails, Done, Goto, TypeOK, history, InFlight
  <2>2. CASE Keyed
    BY <2>2 DEF SetupFind, SetupCommit, SetupSwitch, SetupPublish, RotateRead, RotateSwitch,
                RotateFind, RotateCommit, Done, Goto, TypeOK, history, InFlight, KeyPlaces
  <2>3. CASE \E s \in Secrets : PutKey(p, s)
    BY <2>3 DEF PutKey, Goto, TypeOK, history, InFlight
  <2>4. CASE PutCommit(p) \/ PutSelect(p) \/ PutLoad(p)
    BY <2>4 DEF PutCommit, PutSelect, PutLoad, Done, Goto, TypeOK, history, InFlight
  <2>. QED BY <2>1, <2>2, <2>3, <2>4
<1>2. \A q \in Requests : InFlight(q)' => InFlight(q)
  BY <1>1 DEF InFlight
<1>3. ASSUME NEW r \in alone
      PROVE  Covers(r)'
  <2>1. CASE r # p
    <3>1. ~InFlight(r) /\ pc'[r] = pc[r]
      BY <1>1, <2>1 DEF LoneInv, Covers
    <3>. QED BY <1>2, <3>1, LoneElsewhere DEF InFlight, PutPlaces
  <2>2. CASE r = p /\ Puts
    BY <1>1, <1>2, <2>2, LonePut
  <2>3. CASE r = p /\ ~Puts
    BY <1>1, <1>2, <2>3, LoneElsewhere DEF PutPlaces, KeyPlaces
  <2>. QED BY <2>1, <2>2, <2>3
<1>. QED BY <1>1, <1>3 DEF LoneInv

LEMMA LoneStep ==
    ASSUME TypeOK, LoneInv, [Next]_vars
    PROVE  LoneInv'
<1>1. CASE Dies
  <2>1. UNCHANGED alone /\ \A q \in Requests : pc'[q] \in {"new", "done"}
    BY <1>1 DEF Dies, history, InFlight, TypeOK
  <2>. QED BY <2>1 DEF LoneInv, Covers, InFlight, PutPlaces
<1>2. CASE Start \/ StartUnloaded
  <2>1. UNCHANGED <<alone, pc>> /\ \A q \in Requests : ~InFlight(q)
    BY <1>2 DEF Start, StartUnloaded, history, TypeOK
  <2>2. \A q \in Requests : pc'[q] \in {"new", "done"}
    BY <2>1 DEF InFlight
  <2>. QED BY <2>1, <2>2 DEF LoneInv, Covers, InFlight, PutPlaces
<1>3. CASE WorkerSteps \/ WorkerTrouble \/ UNCHANGED vars
  <2>1. UNCHANGED <<alone, pc, op, stored, row, mem>>
    BY <1>3 DEF WorkerSteps, WorkerCheck, WorkerSubscribe, WorkerLoad, WorkerTrouble, vars,
                api, history
  <2>. QED BY <2>1 DEF LoneInv, Covers, InFlight, Key, Decrypt
<1>. QED BY <1>1, <1>2, <1>3, OfAKind, LoneArrives, LoneHandles

\* An update that nobody overlapped brings the stored key back to memory; begun
\* with it, it leaves its values in the database, readable, and in memory.
THEOREM LonePutIsExact == Spec => LonePutExact
<1>1. Init => LoneInv
  BY DEF Init, LoneInv
<1>2. ASSUME TypeOK, LoneInv, NEW r \in Requests, PutLoad(r), r \in alone
      PROVE  /\ stored # None \/ ~op[r].strange => mem' = Key
             /\ ~op[r].strange => \A s \in DOMAIN op[r].body :
                   /\ Decrypt(row[s], Key) = op[r].body[s]
                   /\ val'[s] = op[r].body[s]
  <2>1. pc[r] = "put_load" /\ Covers(r) /\ op[r] \in Carried
    BY <1>2 DEF PutLoad, LoneInv, TypeOK
  <2>2. op[r].seen = stored /\ (stored # None => mem' = Key)
    BY <1>2, <2>1 DEF PutLoad, Loaded, Covers, Key
  <2>3. ASSUME ~op[r].strange
        PROVE  /\ mem = Key /\ op[r].rows = row
               /\ \A s \in DOMAIN op[r].body : Decrypt(row[s], Key) = op[r].body[s]
    BY <2>1, <2>3 DEF Covers, PutPlaces
  <2>4. ASSUME ~op[r].strange
        PROVE  /\ mem' = Key
               /\ val' = [s \in Secrets |->
                             IF Decrypt(row[s], Key) # None THEN row[s].p ELSE val[s]]
    BY <1>2, <2>2, <2>3, <2>4 DEF PutLoad, Loaded, Key
  <2>5. ASSUME ~op[r].strange, NEW s \in DOMAIN op[r].body
        PROVE  val'[s] = op[r].body[s]
    <3>1. s \in Secrets /\ op[r].body[s] \in Values /\ op[r].body[s] # None
      BY <2>1, PartIs, SecretKeyAssumption DEF Carried
    <3>. QED BY <2>3, <2>4, <2>5, <3>1 DEF Decrypt
  <2>. QED BY <2>2, <2>3, <2>4, <2>5
<1>3. TypeOK /\ LoneInv /\ [Next]_vars =>
         [\A r \in Requests : PutLoad(r) /\ r \in alone =>
             /\ stored # None \/ ~op[r].strange => mem' = Key
             /\ ~op[r].strange => \A s \in DOMAIN op[r].body :
                    /\ Decrypt(row[s], Key) = op[r].body[s]
                    /\ val'[s] = op[r].body[s]]_vars
  BY <1>2
<1>. QED BY KeyTypes, <1>1, LoneStep, <1>3, PTL DEF Spec, LonePutExact
=============================================================================
