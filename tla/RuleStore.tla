------------------------------ MODULE RuleStore -----------------------------
(***************************************************************************)
(* The table of match rules: the handlers that create, clone, update,      *)
(* reorder and delete rules, the seeding of the default rules at start-up, *)
(* and which rule decides a track.                                         *)
(*                                                                         *)
(* A handler is a coroutine with a transaction of its own; its steps are   *)
(* its statements, which see what others have committed.  At commit the    *)
(* ORM writes the columns that differ from the row it has loaded.  There   *)
(* is no constraint on names or priorities.                                *)
(***************************************************************************)
EXTENDS Naturals, Sequences, SequencesExt

CONSTANTS
    Requests,   \* coroutines of the API process
    Names,      \* names users give
    Releases,   \* the default rules of each release, in the order of the files
    None,       \* a deleted row, an absent value
    MaxChanges, \* bound: requests that are handled
    MaxStarts   \* bound: starts of the process

Files == UNION {Range(Releases[v]) : v \in DOMAIN Releases}
Texts == {"written", "edited"} \cup {file.text : file \in Files}

\* A name as it is typed is <<n>>; "n (copy)" and "n (copy 2)" are <<n, 1>>
\* and <<n, 2>>.
RowNames == Seq(Names \cup {file.name : file \in Files} \cup Nat)

Row == [name : RowNames, prio : Nat, active : BOOLEAN, default : BOOLEAN, text : Texts]

ASSUME RuleStoreAssumption ==
    /\ Releases # <<>> /\ Releases \in Seq(Seq(Files))
    /\ \A v \in DOMAIN Releases : \A p, q \in DOMAIN Releases[v] :
           Releases[v][p].name = Releases[v][q].name => p = q
    /\ None \notin Row
    /\ MaxChanges \in Nat /\ MaxStarts \in Nat

VARIABLES
    rows,    \* id -> row of match_rules
    up,      \* the process serves requests
    release, \* the release that was started last
    pc, req, \* request -> the statement it stands at, and its locals
    changes, \* requests so far
    starts,  \* starts so far
    mixed,   \* history: requests met, a reorder left out a rule, or an upgrade
    asked    \* history: the user rules in the order of the reorder that holds

vars == <<rows, up, release, pc, req, changes, starts, mixed, asked>>

Stored    == {i \in DOMAIN rows : rows[i] # None}
UserRules == {i \in Stored : ~rows[i].default}

Taken(n) == \E i \in Stored : rows[i].name = n

\* COALESCE(MAX(priority), -1) + 1
After(P) == IF P = {} THEN 0 ELSE 1 + (CHOOSE n \in P : \A k \in P : k <= n)

Nothing == [id |-> None, name |-> None, active |-> None, text |-> None,
            prio |-> 0, old |-> None, order |-> <<>>, lone |-> TRUE]

Goto(r, l) == pc' = [pc EXCEPT ![r] = l]
Answer(r)  == Goto(r, "idle") /\ req' = [req EXCEPT ![r] = Nothing]

Init ==
    /\ rows = <<>>
    /\ up = FALSE /\ release = 0
    /\ pc = [r \in Requests |-> "idle"]
    /\ req = [r \in Requests |-> Nothing]
    /\ changes = 0 /\ starts = 0
    /\ mixed = FALSE /\ asked = <<>>

\* Mutant of Write: the row is written as a whole.
WriteWhole(now, old, new) == IF old = new THEN now ELSE new

\* The columns of a loaded row that were assigned another value are written.
Write(now, old, new) ==
    [c \in DOMAIN now |-> IF new[c] = old[c] THEN now[c] ELSE new[c]]

-----------------------------------------------------------------------------
(* The start of the process: seed_default_rules is one transaction before  *)
(* the first request                                                       *)

\* Mutant of DefaultRows: a rule is looked up by its name alone.
RowsOfName(R, n) == {i \in DOMAIN R : R[i] # None /\ R[i].name = n}

\* The rows that are taken for the default rule of this name
DefaultRows(R, n) ==
    {i \in DOMAIN R : R[i] # None /\ R[i].name = n /\ R[i].default}

\* Insert the rule of a file, or take over the text of a file that changed;
\* p is the position of the file.
SeedFile(R, p, file) ==
    LET old == DefaultRows(R, <<file.name>>)
        i   == CHOOSE k \in old : TRUE
    IN IF old = {}
       THEN Append(R, [name |-> <<file.name>>, prio |-> p, active |-> TRUE,
                       default |-> TRUE, text |-> file.text])
       ELSE IF R[i].text = file.text THEN R
       ELSE [R EXCEPT ![i].text = file.text, ![i].prio = p]

Seed(R, files) ==
    LET S[p \in 0..Len(files)] ==
            IF p = 0 THEN R ELSE SeedFile(S[p - 1], p - 1, files[p])
    IN S[Len(files)]

Starts ==
    /\ ~up /\ starts < MaxStarts
    /\ starts' = starts + 1
    /\ up' = TRUE
    /\ \E v \in DOMAIN Releases :
          /\ v >= release
          /\ release' = v
          /\ rows' = Seed(rows, Releases[v])
          /\ mixed' = (mixed \/ (release # 0 /\ v # release))
          /\ asked' = IF v = release THEN asked ELSE <<>>
    /\ UNCHANGED <<pc, req, changes>>

\* Transactions that are open are rolled back.
Stops ==
    /\ up /\ starts < MaxStarts
    /\ up' = FALSE
    /\ pc' = [r \in Requests |-> "idle"]
    /\ req' = [r \in Requests |-> Nothing]
    /\ UNCHANGED <<rows, release, changes, starts, mixed, asked>>

-----------------------------------------------------------------------------
(* POST /match-rules and /match-rules/{id}/clone                           *)

Idle(r) == up /\ pc[r] = "idle" /\ changes < MaxChanges

\* A request begins with its first statement, at l with these locals.
Begin(r, l, locals) ==
    /\ changes' = changes + 1
    /\ mixed' = (mixed \/ \E q \in Requests : pc[q] # "idle")
    /\ Goto(r, l)
    /\ req' = [req EXCEPT ![r] = locals]
    /\ UNCHANGED <<rows, up, release, starts, asked>>

Create(r) ==
    Idle(r) /\ \E n \in Names :
        Begin(r, "check", [Nothing EXCEPT !.name = <<n>>, !.text = "written"])

Clone(r) ==
    Idle(r) /\ \E i \in Stored, n \in Names \cup {None} :
        Begin(r, IF n = None THEN "find_free" ELSE "check",
              [Nothing EXCEPT !.text = rows[i].text,
                   !.name = IF n = None THEN Append(rows[i].name, 1) ELSE <<n>>])

\* A name that is taken is refused.
CheckName(r) ==
    /\ pc[r] = "check"
    /\ IF Taken(req[r].name) THEN Answer(r) ELSE Goto(r, "max") /\ UNCHANGED req
    /\ UNCHANGED <<rows, up, release, changes, starts, mixed, asked>>

\* Count up the suffix of a copy until its name is free.
FindFree(r) ==
    LET n == req[r].name IN
    /\ pc[r] = "find_free"
    /\ IF Taken(n)
       THEN req' = [req EXCEPT ![r].name = Append(Front(n), Last(n) + 1)] /\ UNCHANGED pc
       ELSE Goto(r, "max") /\ UNCHANGED req
    /\ UNCHANGED <<rows, up, release, changes, starts, mixed, asked>>

\* Mutant of ReadMax: the new rule goes behind the rules of the users.
ReadMaxOfUsers(r) ==
    /\ pc[r] = "max"
    /\ req' = [req EXCEPT ![r].prio = After({rows[i].prio : i \in UserRules})]
    /\ Goto(r, "insert")
    /\ UNCHANGED <<rows, up, release, changes, starts, mixed, asked>>

ReadMax(r) ==
    /\ pc[r] = "max"
    /\ req' = [req EXCEPT ![r].prio = After({rows[i].prio : i \in Stored})]
    /\ Goto(r, "insert")
    /\ UNCHANGED <<rows, up, release, changes, starts, mixed, asked>>

Insert(r) ==
    /\ pc[r] = "insert"
    /\ rows' = Append(rows, [name |-> req[r].name, prio |-> req[r].prio, active |-> TRUE,
                             default |-> FALSE, text |-> req[r].text])
    /\ Answer(r)
    /\ UNCHANGED <<up, release, changes, starts, mixed, asked>>

-----------------------------------------------------------------------------
(* PUT /match-rules/{id}                                                   *)

\* The row is loaded.  Of a default rule only the active flag may change.
Update(r) ==
    Idle(r) /\ \E i \in Stored, n \in Names \cup {None}, t \in {"edited", None} :
    \E a \in {~rows[i].active, None} :
        LET renames == n # None /\ <<n>> # rows[i].name IN
        /\ rows[i].default => ~renames /\ t = None
        /\ Begin(r, IF renames THEN "check_rename" ELSE "save",
                 [Nothing EXCEPT !.id = i, !.old = rows[i], !.active = a, !.text = t,
                                 !.name = IF renames THEN <<n>> ELSE None])

CheckRename(r) ==
    /\ pc[r] = "check_rename"
    /\ IF Taken(req[r].name) THEN Answer(r) ELSE Goto(r, "save") /\ UNCHANGED req
    /\ UNCHANGED <<rows, up, release, changes, starts, mixed, asked>>

\* The commit; it fails when the row has gone.
Save(r) ==
    LET q      == req[r]
        Or(v, w) == IF v = None THEN w ELSE v
        new    == [q.old EXCEPT !.name = Or(q.name, @), !.active = Or(q.active, @),
                                !.text = Or(q.text, @)]
    IN /\ pc[r] = "save"
       /\ IF rows[q.id] = None THEN UNCHANGED rows
          ELSE rows' = [rows EXCEPT ![q.id] = Write(@, q.old, new)]
       /\ Answer(r)
       /\ UNCHANGED <<up, release, changes, starts, mixed, asked>>

-----------------------------------------------------------------------------
(* PUT /match-rules/reorder and DELETE /match-rules/{id}                   *)

Place(s, x) == CHOOSE n \in DOMAIN s : s[n] = x

\* All rows are loaded; the body names user rules, some or all, in any order
\* (the default rules and unknown ids that it names are skipped).
Reorder(r) ==
    Idle(r) /\ \E order \in SetToAllKPermutations(UserRules) :
        Begin(r, "reorder", [Nothing EXCEPT !.old = rows, !.order = order])

\* The priority behind the last default rule of the rows R
Behind(R) == After({R[i].prio : i \in {k \in DOMAIN R : R[k] # None /\ R[k].default}})

\* The loaded rows R with the rules of the order numbered consecutively from
\* behind the last default rule
Renumber(R, order) ==
    [i \in DOMAIN R |-> IF i \in Range(order)
                        THEN [R[i] EXCEPT !.prio = Behind(R) + Place(order, i) - 1]
                        ELSE R[i]]

\* The commit.  When a row that it changes has gone, the driver may notice it
\* (the transaction fails) or not.
SaveOrder(r) ==
    LET q       == req[r]
        new     == Renumber(q.old, q.order)
        changed == {i \in Range(q.order) : new[i] # q.old[i]}
    IN /\ pc[r] = "reorder"
       /\ Goto(r, "idle")
       /\ \/ /\ ~(changed \subseteq Stored)
             /\ req' = [req EXCEPT ![r] = Nothing]
             /\ UNCHANGED <<rows, mixed, asked>>
          \/ /\ rows' = [i \in DOMAIN rows |->
                            IF i \in changed \cap Stored
                            THEN Write(rows[i], q.old[i], new[i]) ELSE rows[i]]
             /\ mixed' = (mixed \/ ~(UserRules \subseteq Range(q.order)))
             /\ asked' = IF q.lone THEN q.order ELSE <<>>
             /\ req' = [p \in Requests |-> IF p = r THEN Nothing
                                           ELSE [req[p] EXCEPT !.lone = FALSE]]
       /\ UNCHANGED <<up, release, changes, starts>>

\* A default rule is refused.
Delete(r) ==
    Idle(r) /\ \E i \in UserRules : Begin(r, "delete", [Nothing EXCEPT !.id = i])

Discard(r) ==
    /\ pc[r] = "delete"
    /\ rows' = [rows EXCEPT ![req[r].id] = None]
    /\ Answer(r)
    /\ UNCHANGED <<up, release, changes, starts, mixed, asked>>

-----------------------------------------------------------------------------
(* The engine                                                              *)

\* The rules it loads
Active(S) == {i \in S : rows[i].active}

\* The orders in which it may run those of S: by priority, equal ones as the
\* database returns them
RunOrders(S) ==
    {s \in SetToAllKPermutations(Active(S)) :
        /\ Len(s) = Cardinality(Active(S))
        /\ \A m, n \in DOMAIN s : m < n => rows[s[m]].prio <= rows[s[n]].prio}

\* Which of these can come first.
FirstRun(S) == {i \in S : \A k \in S : rows[i].prio <= rows[k].prio}

\* Of the rules that match a track, the first one's match is taken.
Deciding(hits) == FirstRun(Active(hits))

-----------------------------------------------------------------------------
(* POST /match-rules/test                                                  *)

\* One stored rule (id), or all of them
Test(r) ==
    Idle(r) /\ \E i \in Stored \cup {None} :
        Begin(r, IF i = None THEN "trace" ELSE "find_tested", [Nothing EXCEPT !.id = i])

\* A rule that has gone is answered with 404.
FindTested(r) ==
    /\ pc[r] = "find_tested"
    /\ IF rows[req[r].id] = None THEN Answer(r) ELSE Goto(r, "trace") /\ UNCHANGED req
    /\ UNCHANGED <<rows, up, release, changes, starts, mixed, asked>>

\* The traces of the active rules, in the order of this load
Trace(r) ==
    /\ pc[r] = "trace"
    /\ IF req[r].id # None THEN Answer(r)
       ELSE /\ \E s \in RunOrders(Stored) : req' = [req EXCEPT ![r].order = s]
            /\ Goto(r, "run")
    /\ UNCHANGED <<rows, up, release, changes, starts, mixed, asked>>

\* Without ids the rules are loaded once more and run for their matches.
Run(r) ==
    /\ pc[r] = "run"
    /\ Answer(r)
    /\ UNCHANGED <<rows, up, release, changes, starts, mixed, asked>>

\* A statement or the commit fails: rolled back, answered with 500.
Fails(r) ==
    /\ pc[r] # "idle"
    /\ Answer(r)
    /\ UNCHANGED <<rows, up, release, changes, starts, mixed, asked>>

Handles(r) ==
    \/ Create(r) \/ Clone(r) \/ CheckName(r) \/ FindFree(r) \/ ReadMax(r) \/ Insert(r)
    \/ Update(r) \/ CheckRename(r) \/ Save(r)
    \/ Reorder(r) \/ SaveOrder(r) \/ Delete(r) \/ Discard(r)
    \/ Test(r) \/ FindTested(r) \/ Trace(r) \/ Run(r) \/ Fails(r)

Next == Starts \/ Stops \/ \E r \in Requests : Handles(r)

Spec == Init /\ [][Next]_vars

-----------------------------------------------------------------------------
(* Properties                                                              *)

\* While the process serves, every default rule of its release is in the
\* table once, under its name and with the text of its file: whatever the
\* users called their own rules, an upgrade finds the right rows, and no
\* request changes them.
DefaultsCurrent ==
    up => \A p \in DOMAIN Releases[release] :
              LET file == Releases[release][p]
                  Same == {i \in Stored : rows[i].default /\ rows[i].name = <<file.name>>}
              IN \E i \in Same : Same = {i} /\ rows[i].text = file.text

\* A reorder holds until the next one or an upgrade, whatever else is
\* changed meanwhile or was under way: a rule it named never decides a track
\* that a default rule, or a rule it named earlier, also matches.
ReorderHolds ==
    \A n \in DOMAIN asked :
        \A i \in Stored :
            /\ asked[n] \in Stored
            /\ rows[i].active
            /\ rows[i].default \/ \E m \in 1..(n - 1) : asked[m] = i
            => asked[n] \notin Deciding({i, asked[n]})

\* As long as no requests met, every reorder named every user rule and there
\* was no upgrade, no two rules have the same name or the same priority: which
\* rule decides is never left to the database, and the traces of a test are
\* in the order in which the second load runs the rules.
OrderIsClear ==
    ~mixed =>
        /\ \A i, k \in Stored :
              i # k => rows[i].name # rows[k].name /\ rows[i].prio # rows[k].prio
        /\ \A r \in Requests : pc[r] = "run" => RunOrders(Stored) = {req[r].order}
=============================================================================
