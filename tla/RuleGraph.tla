----------------------------- MODULE RuleGraph ------------------------------
(***************************************************************************)
(* A match rule is a graph of nodes: how match_rules/validator.py decides  *)
(* whether it may be used, and how NodeGraphExecutor of                    *)
(* core/services/matcher.py puts the nodes of an accepted one into an      *)
(* order and executes them.                                                *)
(*                                                                         *)
(* Both are loops over worklists, modelled one iteration at a time.  Where *)
(* the code follows the order of the YAML file, any order is taken.  The   *)
(* validator has rejected duplicate edges before, so edges are a set.      *)
(***************************************************************************)
EXTENDS Naturals, Sequences, FiniteSets

CONSTANT Nodes

ASSUME NodesAssumption == IsFiniteSet(Nodes)

VARIABLES
    edges,    \* the edges of the rule
    type,     \* node -> its type, as far as the validator asks for it
    phase,    \* the loop that is running
    visited,  \* nodes the depth-first search has entered
    calls,    \* the _has_cycle calls: node, children not looked at yet
    cyclic,   \* a cycle was found
    forward,  \* forward_reachable
    backward, \* backward_reachable
    work,     \* the worklist of the running loop
    degree,   \* in_degree
    order,    \* sorted_ids
    outputs   \* nodes whose outputs are there

rule == <<edges, type>>
search == <<visited, calls, cyclic>>
reach == <<forward, backward>>
graphVars == <<rule, phase, search, reach, work, degree, order, outputs>>

Types  == {"track_source", "match_output", "other"}
Phases == {"cycle", "forward", "backward", "sort", "run", "done", "rejected"}

Children(n) == {m \in Nodes : <<n, m>> \in edges}
Parents(n)  == {m \in Nodes : <<m, n>> \in edges}
OfType(t)   == {n \in Nodes : type[n] = t}
InStack     == {calls[i].node : i \in DOMAIN calls}
Sorted      == {order[i] : i \in DOMAIN order}

GraphInit ==
    /\ edges \in SUBSET (Nodes \X Nodes)
    /\ type \in [Nodes -> Types]
    /\ phase = "cycle"
    /\ visited = {} /\ calls = <<>> /\ cyclic = FALSE
    /\ forward = {} /\ backward = {}
    /\ work = {}
    /\ degree = [n \in Nodes |-> 0]
    /\ order = <<>> /\ outputs = {}

-----------------------------------------------------------------------------
(* validate_rule_yaml: the depth-first search for a cycle                  *)

Call(n) == [node |-> n, left |-> Children(n)]
Top == calls[Len(calls)]
\* The running call has looked at child c.
Looked(c) == [calls EXCEPT ![Len(calls)] = [node |-> Top.node, left |-> Top.left \ {c}]]

\* The outer loop calls _has_cycle for a node that was not visited.
NextRoot(n) ==
    /\ phase = "cycle" /\ calls = <<>>
    /\ n \notin visited
    /\ visited' = visited \cup {n}
    /\ calls' = <<Call(n)>>
    /\ UNCHANGED <<rule, phase, cyclic, reach, work, degree, order, outputs>>

Descend(c) ==
    /\ phase = "cycle" /\ calls # <<>>
    /\ c \in Top.left \ visited
    /\ visited' = visited \cup {c}
    /\ calls' = Append(Looked(c), Call(c))
    /\ UNCHANGED <<rule, phase, cyclic, reach, work, degree, order, outputs>>

SkipChild(c) ==
    /\ phase = "cycle" /\ calls # <<>>
    /\ c \in (Top.left \cap visited) \ InStack
    /\ calls' = Looked(c)
    /\ UNCHANGED <<rule, phase, visited, cyclic, reach, work, degree, order, outputs>>

\* Mutant: visited is asked instead of in_stack.
BackEdgeToVisited(c) ==
    /\ phase = "cycle" /\ calls # <<>>
    /\ c \in Top.left \cap visited
    /\ cyclic' = TRUE
    /\ calls' = <<>>
    /\ phase' = "forward"
    /\ work' = OfType("track_source")
    /\ UNCHANGED <<rule, visited, reach, degree, order, outputs>>

\* A child that is still being searched: every call returns True, the loop breaks.
BackEdge(c) ==
    /\ phase = "cycle" /\ calls # <<>>
    /\ c \in Top.left \cap InStack
    /\ cyclic' = TRUE
    /\ calls' = <<>>
    /\ phase' = "forward"
    /\ work' = OfType("track_source")
    /\ UNCHANGED <<rule, visited, reach, degree, order, outputs>>

Return ==
    /\ phase = "cycle" /\ calls # <<>>
    /\ Top.left = {}
    /\ calls' = SubSeq(calls, 1, Len(calls) - 1)
    /\ UNCHANGED <<rule, phase, visited, cyclic, reach, work, degree, order, outputs>>

SearchEnds ==
    /\ phase = "cycle" /\ calls = <<>>
    /\ visited = Nodes
    /\ phase' = "forward"
    /\ work' = OfType("track_source")
    /\ UNCHANGED <<rule, search, reach, degree, order, outputs>>

-----------------------------------------------------------------------------
(* The two searches for orphans, and the verdict                           *)

\* Mutant: a node that was reached before is not skipped.
ReachForwardAgain(n) ==
    /\ phase = "forward" /\ n \in work
    /\ forward' = forward \cup {n}
    /\ work' = (work \ {n}) \cup Children(n)
    /\ UNCHANGED <<rule, phase, search, backward, degree, order, outputs>>

ReachForward(n) ==
    /\ phase = "forward" /\ n \in work
    /\ forward' = forward \cup {n}
    /\ work' = (work \cup Children(n)) \ forward'
    /\ UNCHANGED <<rule, phase, search, backward, degree, order, outputs>>

ForwardEnds ==
    /\ phase = "forward" /\ work = {}
    /\ phase' = "backward"
    /\ work' = OfType("match_output")
    /\ UNCHANGED <<rule, search, reach, degree, order, outputs>>

ReachBackward(n) ==
    /\ phase = "backward" /\ n \in work
    /\ backward' = backward \cup {n}
    /\ work' = (work \cup Parents(n)) \ backward'
    /\ UNCHANGED <<rule, phase, search, forward, degree, order, outputs>>

BackwardEnds == phase = "backward" /\ work = {}

\* errors # []: sources, outputs, cycle, orphans
Errors ==
    \/ Cardinality(OfType("track_source")) # 1
    \/ OfType("match_output") = {}
    \/ cyclic
    \/ forward \cap backward # Nodes

\* ValidationError: the engine logs it and goes on with the next rule.
Reject ==
    /\ BackwardEnds /\ Errors
    /\ phase' = "rejected"
    /\ UNCHANGED <<rule, search, reach, work, degree, order, outputs>>

\* The executor gets the rule's canvas and counts in_degree.
Accept ==
    /\ BackwardEnds /\ ~Errors
    /\ phase' = "sort"
    /\ degree' = [n \in Nodes |-> Cardinality(Parents(n))]
    /\ work' = {n \in Nodes : Parents(n) = {}}
    /\ UNCHANGED <<rule, search, reach, order, outputs>>

-----------------------------------------------------------------------------
(* NodeGraphExecutor._execute_impl                                         *)

\* Mutant: a node is queued when the first of its sources is sorted.
SortAtFirstEdge(n) ==
    /\ phase = "sort" /\ n \in work
    /\ order' = Append(order, n)
    /\ degree' = [m \in Nodes |-> IF m \in Children(n) THEN degree[m] - 1 ELSE degree[m]]
    /\ work' = (work \cup Children(n)) \ (Sorted \cup {n})
    /\ UNCHANGED <<rule, phase, search, reach, outputs>>

\* One node leaves the queue; a child with no unsorted source left enters it.
Sort(n) ==
    /\ phase = "sort" /\ n \in work
    /\ order' = Append(order, n)
    /\ degree' = [m \in Nodes |-> IF m \in Children(n) THEN degree[m] - 1 ELSE degree[m]]
    /\ work' = (work \ {n}) \cup {m \in Children(n) : degree'[m] = 0}
    /\ UNCHANGED <<rule, phase, search, reach, outputs>>

SortEnds ==
    /\ phase = "sort" /\ work = {}
    /\ phase' = "run"
    /\ UNCHANGED <<rule, search, reach, work, degree, order, outputs>>

\* The handler of the next node reads the outputs of its sources; a source
\* without outputs would give it None.
Execute(n) ==
    /\ phase = "run"
    /\ Cardinality(outputs) < Len(order)
    /\ n = order[Cardinality(outputs) + 1]
    /\ outputs' = outputs \cup {n}
    /\ UNCHANGED <<rule, phase, search, reach, work, degree, order>>

RunEnds ==
    /\ phase = "run"
    /\ Cardinality(outputs) = Len(order)
    /\ phase' = "done"
    /\ UNCHANGED <<rule, search, reach, work, degree, order, outputs>>

GraphNext ==
    \/ \E n \in Nodes :
           \/ NextRoot(n) \/ Descend(n) \/ SkipChild(n) \/ BackEdge(n)
           \/ ReachForward(n) \/ ReachBackward(n) \/ Sort(n) \/ Execute(n)
    \/ Return \/ SearchEnds \/ ForwardEnds \/ Reject \/ Accept \/ SortEnds \/ RunEnds

GraphSpec == GraphInit /\ [][GraphNext]_graphVars /\ WF_graphVars(GraphNext)

-----------------------------------------------------------------------------
(* Properties                                                              *)

\* What lies below a set of nodes: in every set that holds their children and,
\* with a node, its children.
Below(S) ==
    {m \in Nodes : \A T \in SUBSET Nodes :
        (\A n \in S \cup T : Children(n) \subseteq T) => m \in T}

FromSource(n) == n \in OfType("track_source") \cup Below(OfType("track_source"))
ToOutput(n)   == (Below({n}) \cup {n}) \cap OfType("match_output") # {}

\* What the validator is for: one source, some output, no node below itself,
\* and every node on a way from the source to an output.
Sound ==
    /\ Cardinality(OfType("track_source")) = 1 /\ OfType("match_output") # {}
    /\ \A n \in Nodes : n \notin Below({n}) /\ FromSource(n) /\ ToOutput(n)

\* Exactly the sound rules are executed, although the depth-first search stops
\* at the first back edge and never enters a node twice (validator.py 121-173);
\* then no node is left out or taken twice (the executor's "Cycle detected"
\* warning is out of reach), and each finds the outputs of all its sources.
SoundRulesRunWhole ==
    /\ phase = "rejected" => ~Sound
    /\ phase \in {"sort", "run", "done"} => Sound
    /\ phase \in {"run", "done"} => Sorted = Nodes /\ Len(order) = Cardinality(Nodes)
    /\ \A n \in outputs : Parents(n) \subseteq outputs
    /\ phase = "done" => outputs = Nodes

\* Every loop ends, whatever the graph: the rule is executed or rejected.
Ends == <>(phase \in {"done", "rejected"})
=============================================================================
