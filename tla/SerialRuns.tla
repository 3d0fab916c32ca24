----------------------------- MODULE SerialRuns -----------------------------
(***************************************************************************)
(* What the dispatch lock promises to the rest of the program: the runs of *)
(* one schedule follow one another, and none is executed twice.  The       *)
(* promise is void from the first failure or expired TTL on (calm).        *)
(***************************************************************************)
CONSTANT Runs

VARIABLES
    active,   \* runs being dispatched or executed
    finished, \* runs that were executed to their end
    calm      \* nothing has failed, no TTL has run out

vars == <<active, finished, calm>>

Init == active = {} /\ finished = {} /\ calm = TRUE

Begin(r) ==
    /\ active = {}
    /\ r \notin finished
    /\ active' = {r}
    /\ UNCHANGED <<finished, calm>>

End(r) ==
    /\ active = {r}
    /\ active' = {}
    /\ finished' = finished \cup {r}
    /\ UNCHANGED calm

\* Anything may happen in the step that breaks the calm, and after it.
Upset ==
    /\ calm' = FALSE
    /\ active' \in SUBSET Runs
    /\ finished' \in SUBSET Runs

Next == (\E r \in Runs : calm /\ (Begin(r) \/ End(r))) \/ Upset

Spec == Init /\ [][Next]_vars
=============================================================================
