---------------------------- MODULE Rules_proofs ----------------------------
(***************************************************************************)
(* Proofs about the rules.  RuleGraph, for any finite set of nodes:        *)
(* exactly the sound rules are executed, whole and in dependency order.    *)
(* RuleStore, for any releases, requests and bounds: the default rules     *)
(* stay those of the release, a reorder holds, and which rule decides is   *)
(* clear as long as nothing was mixed.                                     *)
(***************************************************************************)
EXTENDS RuleGraph, RuleStore, FiniteSetTheorems, SequenceTheorems, WellFoundedInduction,
        TLAPS

-----------------------------------------------------------------------------
(* RuleGraph: what lies below                                              *)

\* Below(S) is the least set that holds the children of S and, with a node,
\* its children.
LEMMA BelowIs ==
    ASSUME NEW S \in SUBSET Nodes
    PROVE  /\ Below(S) \subseteq Nodes
           /\ \A n \in S \cup Below(S) : Children(n) \subseteq Below(S)
           /\ \A T \in SUBSET Nodes :
                 (\A n \in S \cup T : Children(n) \subseteq T) => Below(S) \subseteq T
<1>1. Below(S) \subseteq Nodes
  BY DEF Below
<1>2. ASSUME NEW n \in S \cup Below(S), NEW m \in Children(n) PROVE m \in Below(S)
  <2>1. m \in Nodes
    BY DEF Children
  <2>2. ASSUME NEW T \in SUBSET Nodes, \A k \in S \cup T : Children(k) \subseteq T
        PROVE  m \in T
    BY <1>2, <2>2 DEF Below
  <2> QED BY <2>1, <2>2 DEF Below
<1>3. ASSUME NEW T \in SUBSET Nodes, \A n \in S \cup T : Children(n) \subseteq T
      PROVE  Below(S) \subseteq T
  BY <1>3 DEF Below
<1> QED
  BY <1>1, <1>2, <1>3

\* What lies below nodes that lie below others lies below those.
LEMMA BelowBelow ==
    ASSUME NEW S \in SUBSET Nodes, NEW R \in SUBSET Nodes, R \subseteq S \cup Below(S)
    PROVE  Below(R) \subseteq Below(S)
<1>1. /\ Below(S) \in SUBSET Nodes
      /\ \A n \in S \cup Below(S) : Children(n) \subseteq Below(S)
  BY BelowIs
<1>2. \A n \in R \cup Below(S) : Children(n) \subseteq Below(S)
  BY <1>1
<1> HIDE DEF Below
<1> QED
  BY <1>1, <1>2, BelowIs

\* An edge leads below.
LEMMA EdgeBelow ==
    ASSUME NEW n \in Nodes, NEW m \in Children(n)
    PROVE  m \in Nodes /\ m \in Below({n})
BY BelowIs DEF Children

\* Edges are read from either end.
LEMMA ChildParent ==
    \A n, m \in Nodes : m \in Children(n) <=> n \in Parents(m)
BY DEF Children, Parents

\* A set of numbers that is not empty has a least one.
LEMMA LeastNumber ==
    ASSUME NEW T \in SUBSET Nat, T # {}
    PROVE  \E x \in T : \A y \in T : x <= y
<1> DEFINE R == {xy \in Nat \X Nat : xy[1] < xy[2]}
<1>1. IsWellFoundedOn(R, Nat)
  BY NatLessThanWellFounded DEF OpToRel
<1> HIDE DEF R
<1>2. PICK x \in T : \A y \in T : ~ (<<y, x>> \in R)
  BY <1>1, WFMin
<1>3. \A y \in T : <<y, x>> \in R <=> y < x
  BY DEF R
<1>4. \A y \in T : ~ (y < x)
  BY <1>2, <1>3
<1> QED
  BY <1>2, <1>4

\* Without a cycle, a set of nodes that is not empty has one without a parent in
\* it: the one with the fewest nodes above it.
LEMMA FirstNode ==
    ASSUME NEW U \in SUBSET Nodes, U # {}, \A n \in Nodes : n \notin Below({n})
    PROVE  \E n \in U : Parents(n) \cap U = {}
<1> DEFINE Above(n) == {k \in Nodes : n \in Below({k})}
           T == {Cardinality(Above(n)) : n \in U}
<1> HIDE DEF Below
<1>1. \A n \in Nodes : IsFiniteSet(Above(n)) /\ Cardinality(Above(n)) \in Nat
  <2> SUFFICES ASSUME NEW n \in Nodes PROVE IsFiniteSet(Above(n)) /\ Cardinality(Above(n)) \in Nat
    OBVIOUS
  <2>1. Above(n) \subseteq Nodes
    OBVIOUS
  <2> HIDE DEF Above
  <2> QED BY <2>1, NodesAssumption, FS_Subset, FS_CardinalityType
<1>2. PICK x \in T : \A y \in T : x <= y
  <2>1. T \in SUBSET Nat /\ T # {}
    BY <1>1
  <2> HIDE DEF T
  <2> QED BY <2>1, LeastNumber
<1>3. PICK n \in U : x = Cardinality(Above(n))
  OBVIOUS
<1>4. ASSUME NEW p \in Parents(n) \cap U PROVE FALSE
  <2>1. p \in Nodes /\ n \in Nodes /\ n \in Below({p})
    BY ChildParent, EdgeBelow
  <2>2. Above(p) \subseteq Above(n)
    <3> SUFFICES ASSUME NEW k \in Nodes, p \in Below({k}) PROVE n \in Below({k})
      OBVIOUS
    <3>1. Below({p}) \subseteq Below({k})
      BY <2>1, BelowBelow
    <3> QED BY <2>1, <3>1
  <2>3. p \in Above(n) /\ p \notin Above(p)
    BY <2>1
  <2>4. Cardinality(Above(n)) <= Cardinality(Above(p))
    <3>1. p \in U
      OBVIOUS
    <3> HIDE DEF Above
    <3>2. Cardinality(Above(p)) \in T
      BY <3>1
    <3> HIDE DEF T
    <3> QED BY <1>2, <1>3, <3>2
  <2> HIDE DEF Above
  <2>5. Cardinality(Above(p)) < Cardinality(Above(n))
    <3>1. IsFiniteSet(Above(n)) /\ Cardinality(Above(n)) \in Nat /\ Cardinality(Above(p)) \in Nat
      BY <1>1, <2>1
    <3>2. Cardinality(Above(p)) <= Cardinality(Above(n))
          /\ (Cardinality(Above(n)) = Cardinality(Above(p)) => Above(n) = Above(p))
      BY <2>2, <3>1, FS_Subset
    <3> QED BY <2>3, <3>1, <3>2
  <2> QED BY <1>1, <2>1, <2>4, <2>5
<1> QED
  BY <1>4

-----------------------------------------------------------------------------
(* RuleGraph: types                                                        *)

Calls == [node : Nodes, left : SUBSET Nodes]

GraphTypeOK ==
    /\ edges \in SUBSET (Nodes \X Nodes) /\ type \in [Nodes -> Types]
    /\ phase \in Phases
    /\ visited \in SUBSET Nodes /\ calls \in Seq(Calls) /\ cyclic \in BOOLEAN
    /\ forward \in SUBSET Nodes /\ backward \in SUBSET Nodes /\ work \in SUBSET Nodes
    /\ degree \in [Nodes -> Int]
    /\ order \in Seq(Nodes) /\ outputs \in SUBSET Nodes


LEMMA GraphTypeInit ==
    GraphInit => GraphTypeOK
<1>1. <<>> \in Seq(Calls) /\ <<>> \in Seq(Nodes)
  OBVIOUS
<1>2. [n \in Nodes |-> 0] \in [Nodes -> Int]
  OBVIOUS
<1> SUFFICES ASSUME GraphInit PROVE GraphTypeOK
  OBVIOUS
<1>3. edges \in SUBSET (Nodes \X Nodes) /\ type \in [Nodes -> Types] /\ phase \in Phases
  BY DEF GraphInit, Phases
<1>4. visited = {} /\ forward = {} /\ backward = {} /\ work = {} /\ outputs = {} /\ cyclic = FALSE
  BY DEF GraphInit
<1>5. calls \in Seq(Calls) /\ degree \in [Nodes -> Int] /\ order \in Seq(Nodes)
  BY <1>1, <1>2 DEF GraphInit
<1> QED
  BY <1>3, <1>4, <1>5 DEF GraphTypeOK

\* The lists of calls and of sorted nodes stay lists.
LEMMA GraphTypeStep ==
    ASSUME GraphTypeOK, [GraphNext]_graphVars
    PROVE  GraphTypeOK'
<1> USE DEF GraphTypeOK, rule, search, reach, Phases
<1>1. /\ \A n \in Nodes : Children(n) \subseteq Nodes /\ Parents(n) \subseteq Nodes
      /\ \A t \in Types : OfType(t) \subseteq Nodes
  BY DEF Children, Parents, OfType
<1>2. ASSUME calls # <<>>
      PROVE  /\ Len(calls) \in DOMAIN calls /\ Top \in Calls
             /\ \A c : Looked(c) \in Seq(Calls)
  <2>1. Len(calls) \in 1..Len(calls) /\ Len(calls) \in DOMAIN calls
    BY <1>2
  <2>2. Top \in Calls
    BY <2>1 DEF Top
  <2>3. ASSUME NEW c PROVE Looked(c) \in Seq(Calls)
    <3>1. [node |-> Top.node, left |-> Top.left \ {c}] \in Calls
      BY <2>2 DEF Calls
    <3> QED BY <2>1, <3>1 DEF Looked
  <2> QED BY <2>1, <2>2, <2>3
<1>3. \A n \in Nodes : Call(n) \in Calls
  BY <1>1 DEF Call, Calls
<1>4. ASSUME NEW n \in Nodes, NextRoot(n) PROVE GraphTypeOK'
  BY <1>3, <1>4 DEF NextRoot
<1>5. ASSUME NEW n \in Nodes, Descend(n) PROVE GraphTypeOK'
  BY <1>2, <1>3, <1>5 DEF Descend
<1>6. ASSUME NEW n \in Nodes, SkipChild(n) PROVE GraphTypeOK'
  BY <1>2, <1>6 DEF SkipChild
<1>7. ASSUME NEW n \in Nodes, BackEdge(n) PROVE GraphTypeOK'
  BY <1>1, <1>7 DEF BackEdge, Types
<1>8. CASE Return
  <2>1. SubSeq(calls, 1, Len(calls) - 1) \in Seq(Calls)
    BY <1>2, <1>8 DEF Return
  <2> QED BY <1>8, <2>1 DEF Return
<1>9. ASSUME NEW n \in Nodes, ReachForward(n) \/ ReachBackward(n) PROVE GraphTypeOK'
  BY <1>1, <1>9 DEF ReachForward, ReachBackward
<1>10. CASE SearchEnds \/ ForwardEnds \/ Reject
  <2>1. OfType("track_source") \subseteq Nodes /\ OfType("match_output") \subseteq Nodes
    BY <1>1 DEF Types
  <2>2. CASE SearchEnds
    BY <2>1, <2>2 DEF SearchEnds
  <2>3. CASE ForwardEnds
    BY <2>1, <2>3 DEF ForwardEnds
  <2>4. CASE Reject
    BY <2>4 DEF Reject
  <2> QED BY <1>10, <2>2, <2>3, <2>4
<1>11. CASE Accept
  <2>1. \A n \in Nodes : Cardinality(Parents(n)) \in Int
    BY <1>1, NodesAssumption, FS_Subset, FS_CardinalityType
  <2> QED BY <1>11, <2>1 DEF Accept
<1>12. ASSUME NEW n \in Nodes, Sort(n) PROVE GraphTypeOK'
  BY <1>1, <1>12 DEF Sort
<1>13. CASE SortEnds \/ RunEnds
  BY <1>13 DEF SortEnds, RunEnds
<1>14. ASSUME NEW n \in Nodes, Execute(n) PROVE GraphTypeOK'
  BY <1>14 DEF Execute
<1>15. CASE UNCHANGED graphVars
  BY <1>15 DEF graphVars
<1> QED
  BY <1>4, <1>5, <1>6, <1>7, <1>8, <1>9, <1>10, <1>11, <1>12, <1>13, <1>14, <1>15 DEF GraphNext

-----------------------------------------------------------------------------
(* RuleGraph: the search for a cycle                                       *)

\* The calls that are running follow one another downwards.  What a call has
\* looked at is finished, but for the child that is being searched; and nothing
\* that is finished leads out of it or to itself.
Finished == visited \ InStack

Looking ==
    \A i \in DOMAIN calls : \A n : n = calls[i].node =>
        /\ n \in visited /\ calls[i].left \subseteq Children(n)
        /\ Children(n) \ calls[i].left
              \subseteq Finished \cup {calls[j].node : j \in {i + 1} \cap DOMAIN calls}

Chained ==
    \A i, j \in DOMAIN calls : i < j =>
        \A n, m : n = calls[i].node /\ m = calls[j].node => m # n /\ m \in Below({n})

OnStack == Looking /\ Chained

Closed == \A n \in Finished : Children(n) \subseteq Finished /\ n \notin Below({n})

HasCycle == \E n \in Nodes : n \in Below({n})

SearchInv == IF phase = "cycle" THEN ~cyclic /\ OnStack /\ Closed
                                ELSE cyclic <=> HasCycle

\* What is said of the graph stays true of it: a rule does not change.
LEMMA SameRule ==
    ASSUME UNCHANGED rule
    PROVE  /\ \A n : Children(n)' = Children(n) /\ Parents(n)' = Parents(n)
           /\ \A t : OfType(t)' = OfType(t)
           /\ \A S : Below(S)' = Below(S)
           /\ HasCycle' = HasCycle
           /\ \A n : FromSource(n)' = FromSource(n) /\ ToOutput(n)' = ToOutput(n)
           /\ Sound' = Sound
<1>1. edges' = edges /\ type' = type
  BY DEF rule
<1>2. \A n : Children(n)' = Children(n) /\ Parents(n)' = Parents(n)
  BY <1>1 DEF Children, Parents
<1>3. \A t : OfType(t)' = OfType(t)
  BY <1>1 DEF OfType
<1>4. \A S : Below(S)' = Below(S)
  BY <1>2 DEF Below
<1>5. HasCycle' = HasCycle
  BY <1>4 DEF HasCycle
<1>6. \A n : FromSource(n)' = FromSource(n) /\ ToOutput(n)' = ToOutput(n)
  BY <1>3, <1>4 DEF FromSource, ToOutput
<1>7. Sound' = Sound
  BY <1>3, <1>4, <1>6 DEF Sound
<1> QED
  BY <1>2, <1>3, <1>4, <1>5, <1>6, <1>7


\* The running call is the last one.
LEMMA TopIs ==
    ASSUME GraphTypeOK, calls # <<>>
    PROVE  /\ Len(calls) \in Nat /\ DOMAIN calls = 1..Len(calls) /\ Len(calls) \in DOMAIN calls
           /\ Top = calls[Len(calls)] /\ Top.node \in Nodes /\ Top.left \in SUBSET Nodes
           /\ \A i \in DOMAIN calls : calls[i].node \in Nodes /\ calls[i].left \in SUBSET Nodes
           /\ InStack = {calls[i].node : i \in DOMAIN calls} /\ InStack \subseteq Nodes
<1>1. calls \in Seq(Calls) /\ Len(calls) \in Nat /\ DOMAIN calls = 1..Len(calls)
  BY DEF GraphTypeOK
<1>2. Len(calls) \in DOMAIN calls
  BY <1>1
<1>3. \A i \in DOMAIN calls : calls[i] \in Calls
  BY <1>1
<1> QED
  BY <1>1, <1>2, <1>3 DEF Top, InStack, Calls

\* What the search has looked at does not depend on the order of the children.
LEMMA LookedIs ==
    ASSUME GraphTypeOK, calls # <<>>, NEW c
    PROVE  /\ Looked(c) \in Seq(Calls) /\ Len(Looked(c)) = Len(calls)
           /\ \A i \in DOMAIN calls :
                 /\ Looked(c)[i].node = calls[i].node
                 /\ i # Len(calls) => Looked(c)[i].left = calls[i].left
           /\ Looked(c)[Len(calls)].left = Top.left \ {c}
<1>1. calls \in Seq(Calls)
  BY DEF GraphTypeOK
<1>2. [node |-> Top.node, left |-> Top.left \ {c}] \in Calls
  BY TopIs DEF Calls
<1> DEFINE r == [node |-> Top.node, left |-> Top.left \ {c}]
<1>3. Looked(c) = [calls EXCEPT ![Len(calls)] = r]
  BY DEF Looked
<1>4. r.node = calls[Len(calls)].node /\ r.left = Top.left \ {c}
  BY TopIs
<1> HIDE DEF r
<1>5. Looked(c) \in Seq(Calls) /\ Len(Looked(c)) = Len(calls)
  BY <1>1, <1>2, <1>3, TopIs DEF r
<1>6. \A i \in DOMAIN calls : Looked(c)[i] = IF i = Len(calls) THEN r ELSE calls[i]
  BY <1>1, <1>3, TopIs
<1> QED
  BY <1>4, <1>5, <1>6, TopIs

LEMMA RootSearch ==
    ASSUME GraphTypeOK, SearchInv, NEW n \in Nodes, NextRoot(n)
    PROVE  SearchInv'
<1> USE DEF NextRoot
<1>1. UNCHANGED rule /\ phase = "cycle" /\ phase' = "cycle" /\ ~cyclic' /\ OnStack /\ Closed
  BY DEF SearchInv
<1>2. InStack = {} /\ InStack' = {n} /\ visited' = visited \cup {n}
  <2>1. DOMAIN <<>> = {} /\ DOMAIN <<Call(n)>> = {1} /\ <<Call(n)>>[1].node = n
    BY DEF Call
  <2> QED BY <2>1 DEF InStack
<1>3. n \notin visited /\ Finished' = Finished
  BY <1>2 DEF Finished
<1>4. Closed'
  BY <1>1, <1>3, SameRule DEF Closed
<1>5. OnStack'
  <2>1. DOMAIN calls' = {1} /\ calls'[1] = Call(n)
    OBVIOUS
  <2>2. calls'[1].node = n /\ calls'[1].left = Children(n)
    BY <2>1 DEF Call
  <2>3. \A i, j \in DOMAIN calls' : ~ (i < j)
    BY <2>1
  <2> QED BY <1>1, <1>2, <2>1, <2>2, <2>3, SameRule DEF OnStack, Looking, Chained
<1> QED
  BY <1>1, <1>4, <1>5 DEF SearchInv

LEMMA SkipSearch ==
    ASSUME GraphTypeOK, SearchInv, NEW c \in Nodes, SkipChild(c)
    PROVE  SearchInv'
<1> USE DEF SkipChild
<1>1. UNCHANGED rule /\ phase = "cycle" /\ phase' = "cycle" /\ ~cyclic' /\ OnStack /\ Closed
  BY DEF SearchInv
<1>2. DOMAIN calls' = DOMAIN calls /\ Len(calls') = Len(calls)
      /\ \A i \in DOMAIN calls : calls'[i].node = calls[i].node
  BY LookedIs, TopIs
<1>3. InStack' = InStack /\ Finished' = Finished
  BY <1>2 DEF InStack, Finished
<1>4. Closed'
  BY <1>1, <1>3, SameRule DEF Closed
<1>5. ASSUME NEW i \in DOMAIN calls
      PROVE  /\ calls'[i].node \in visited' /\ calls'[i].left \subseteq Children(calls'[i].node)
             /\ Children(calls'[i].node) \ calls'[i].left
                \subseteq Finished' \cup {calls'[j].node : j \in {i + 1} \cap DOMAIN calls'}
  <2>1. CASE i = Len(calls)
    <3>1. calls'[i].left = calls[i].left \ {c} /\ c \in Finished
      BY <2>1, LookedIs, TopIs DEF Finished
    <3> QED BY <1>1, <1>2, <1>3, <3>1 DEF OnStack, Looking, Chained
  <2>2. CASE i # Len(calls)
    <3>1. calls'[i].left = calls[i].left
      BY <2>2, LookedIs, TopIs
    <3> QED BY <1>1, <1>2, <1>3, <3>1 DEF OnStack, Looking, Chained
  <2> QED BY <2>1, <2>2
<1>6. \A i, j \in DOMAIN calls' : i < j =>
          calls'[j].node # calls'[i].node /\ calls'[j].node \in Below({calls'[i].node})
  BY <1>1, <1>2 DEF OnStack, Looking, Chained
<1>7. OnStack'
  <2>1. \A n : Children(n)' = Children(n) /\ Below({n})' = Below({n})
    BY <1>1, SameRule
  <2> HIDE DEF SkipChild
  <2>2. Looking'
    BY <1>2, <1>5, <2>1 DEF Looking
  <2>3. Chained'
    <3> SUFFICES ASSUME NEW i \in DOMAIN calls', NEW j \in DOMAIN calls', i < j,
                        NEW n, NEW m, n = calls'[i].node, m = calls'[j].node
                 PROVE  m # n /\ (m \in Below({n}))'
      BY DEF Chained
    <3>1. m # n /\ m \in Below({n})
      BY <1>2, <1>6
    <3> QED BY <2>1, <3>1
  <2> QED BY <2>2, <2>3 DEF OnStack
<1> QED
  BY <1>1, <1>4, <1>7 DEF SearchInv

LEMMA DescendSearch ==
    ASSUME GraphTypeOK, SearchInv, NEW c \in Nodes, Descend(c)
    PROVE  SearchInv'
<1> USE DEF Descend
<1> DEFINE top == Len(calls)
<1> HIDE DEF top
<1>1. UNCHANGED rule /\ phase = "cycle" /\ phase' = "cycle" /\ ~cyclic' /\ OnStack /\ Closed
  BY DEF SearchInv
<1>2. top \in Nat /\ DOMAIN calls = 1..top /\ top \in 1..top /\ Top = calls[top]
  BY TopIs DEF top
<1>3. Looked(c) \in Seq(Calls) /\ Len(Looked(c)) = top
  BY LookedIs, TopIs DEF top
<1>4. calls' = Append(Looked(c), Call(c))
  OBVIOUS
<1> HIDE DEF Descend
<1>5. DOMAIN calls' = 1..(top + 1)
  BY <1>3, <1>4
<1>6. calls'[top + 1] = Call(c)
  BY <1>3, <1>4
<1>7. \A i \in 1..top : calls'[i] = Looked(c)[i]
  BY <1>3, <1>4
<1>8. /\ \A i \in 1..top : Looked(c)[i].node = calls[i].node
      /\ \A i \in 1..top : i # top => Looked(c)[i].left = calls[i].left
      /\ Looked(c)[top].left = calls[top].left \ {c}
  BY <1>2, LookedIs DEF top, Descend
<1>9. /\ top \in Nat /\ DOMAIN calls = 1..top /\ top \in 1..top /\ DOMAIN calls' = 1..(top + 1)
      /\ \A i \in 1..top : calls'[i].node = calls[i].node
      /\ \A i \in 1..top : i # top => calls'[i].left = calls[i].left
      /\ calls'[top].left = calls[top].left \ {c}
      /\ calls'[top + 1].node = c /\ calls'[top + 1].left = Children(c)
  BY <1>2, <1>5, <1>6, <1>7, <1>8 DEF Call
<1> USE DEF Descend
<1>10. InStack' = InStack \cup {c} /\ c \notin visited /\ visited' = visited \cup {c}
  <2>1. 1..(top + 1) = 1..top \cup {top + 1}
    BY <1>9
  <2>2. {calls'[i].node : i \in 1..(top + 1)} = {calls[i].node : i \in 1..top} \cup {c}
    BY <1>9, <2>1
  <2> QED BY <1>9, <2>2 DEF InStack
<1>11. Finished' = Finished
  <2>1. InStack \subseteq visited
    BY <1>1 DEF OnStack, Looking, Chained, InStack
  <2> QED BY <1>10, <2>1 DEF Finished
<1>12. Closed'
  BY <1>1, <1>11, SameRule DEF Closed
<1>13. /\ c \in Children(calls[top].node) /\ calls[top].node \in Nodes
       /\ c \in Below({calls[top].node})
  <2>1. calls[top].node \in Nodes /\ c \in calls[top].left
    BY <1>9, TopIs DEF Top, top
  <2>2. c \in Children(calls[top].node)
    BY <1>1, <1>9, <2>1 DEF OnStack, Looking, Chained
  <2> QED BY <2>1, <2>2, EdgeBelow
<1>14. ASSUME NEW i \in 1..(top + 1)
      PROVE  /\ calls'[i].node \in visited' /\ calls'[i].left \subseteq Children(calls'[i].node)
             /\ Children(calls'[i].node) \ calls'[i].left
                \subseteq Finished' \cup {calls'[j].node : j \in {i + 1} \cap 1..(top + 1)}
  <2>1. CASE i = top + 1
    BY <1>9, <1>10, <2>1
  <2>2. CASE i = top
    <3>1. {i + 1} \cap 1..(top + 1) = {top + 1} /\ {i + 1} \cap 1..top = {}
      BY <1>9, <2>2
    <3>2. Children(calls[top].node) \ calls[top].left \subseteq Finished
          /\ calls[top].node \in visited /\ calls[top].left \subseteq Children(calls[top].node)
      BY <1>1, <1>9, <2>2, <3>1 DEF OnStack, Looking, Chained
    <3> QED BY <1>9, <1>10, <1>11, <2>2, <3>1, <3>2
  <2>3. CASE i \in 1..top /\ i # top
    <3>1. i + 1 \in 1..top /\ i + 1 \in 1..(top + 1)
      BY <1>9, <2>3
    <3>2. /\ Children(calls[i].node) \ calls[i].left
                 \subseteq Finished \cup {calls[j].node : j \in {i + 1} \cap 1..top}
          /\ calls[i].node \in visited /\ calls[i].left \subseteq Children(calls[i].node)
      BY <1>1, <1>9, <2>3 DEF OnStack, Looking, Chained
    <3>3. /\ calls'[i].node = calls[i].node /\ calls'[i].left = calls[i].left
          /\ calls'[i + 1].node = calls[i + 1].node
      BY <1>9, <2>3, <3>1
    <3>4. {i + 1} \cap 1..top = {i + 1} /\ {i + 1} \cap 1..(top + 1) = {i + 1}
      BY <3>1
    <3>5. calls'[i].node \in visited' /\ calls'[i].left \subseteq Children(calls'[i].node)
      BY <1>10, <3>2, <3>3
    <3>6. Children(calls'[i].node) \ calls'[i].left \subseteq Finished' \cup {calls'[i + 1].node}
      BY <1>11, <3>2, <3>3, <3>4
    <3> QED BY <3>4, <3>5, <3>6
  <2> QED BY <1>9, <2>1, <2>2, <2>3
<1>15. ASSUME NEW i \in 1..(top + 1), NEW j \in 1..(top + 1), i < j
      PROVE  calls'[j].node # calls'[i].node /\ calls'[j].node \in Below({calls'[i].node})
  <2>1. i \in 1..top
    BY <1>9, <1>15
  <2>2. CASE j \in 1..top
    <3>1. calls[j].node # calls[i].node /\ calls[j].node \in Below({calls[i].node})
      BY <1>1, <1>9, <1>15, <2>1, <2>2 DEF OnStack, Looking, Chained
    <3> QED BY <1>9, <2>1, <2>2, <3>1
  <2>3. CASE j = top + 1
    <3>1. calls[i].node \in visited /\ calls[i].node \in Nodes
      BY <1>1, <1>9, <2>1, TopIs DEF OnStack, Looking, Chained
    <3>2. i = top \/ calls[top].node \in Below({calls[i].node})
      <4> DEFINE n == calls[i].node
      <4>1. i = top \/ i < top
        BY <1>9, <2>1
      <4>2. i \in DOMAIN calls /\ top \in DOMAIN calls
        BY <1>9, <2>1
      <4> QED BY <1>1, <4>1, <4>2 DEF OnStack, Looking, Chained
    <3>3. Below({calls[top].node}) \subseteq Below({calls[i].node})
      BY <1>13, <3>1, <3>2, BelowBelow
    <3>4. c # calls[i].node /\ c \in Below({calls[i].node})
      BY <1>10, <1>13, <3>1, <3>3
    <3>5. calls'[j].node = c /\ calls'[i].node = calls[i].node
      BY <1>9, <2>1, <2>3
    <3> QED BY <3>4, <3>5
  <2>4. j \in 1..top \/ j = top + 1
    BY <1>9
  <2> QED BY <2>2, <2>3, <2>4
<1>16. OnStack'
  <2>1. \A n : Children(n)' = Children(n) /\ Below({n})' = Below({n})
    BY <1>1, SameRule
  <2> HIDE DEF Descend
  <2>2. Looking'
    BY <1>9, <1>14, <2>1 DEF Looking
  <2>3. Chained'
    <3> SUFFICES ASSUME NEW i \in DOMAIN calls', NEW j \in DOMAIN calls', i < j,
                        NEW n, NEW m, n = calls'[i].node, m = calls'[j].node
                 PROVE  m # n /\ (m \in Below({n}))'
      BY DEF Chained
    <3>1. m # n /\ m \in Below({n})
      BY <1>9, <1>15
    <3> QED BY <2>1, <3>1
  <2> QED BY <2>2, <2>3 DEF OnStack
<1> QED
  BY <1>1, <1>12, <1>16 DEF SearchInv


\* A call returns: its node is finished, and nothing below it leads back to it.
LEMMA ReturnSearch ==
    ASSUME GraphTypeOK, SearchInv, Return
    PROVE  SearchInv'
<1> USE DEF Return
<1> DEFINE top == Len(calls)
<1> HIDE DEF top
<1>1. UNCHANGED rule /\ phase = "cycle" /\ phase' = "cycle" /\ ~cyclic' /\ OnStack /\ Closed
  BY DEF SearchInv
<1>2. /\ top \in Nat /\ DOMAIN calls = 1..top /\ top \in 1..top
      /\ calls[top].left = {} /\ calls[top].node \in Nodes
      /\ InStack = {calls[i].node : i \in 1..top}
  BY TopIs DEF top
<1>3. /\ top - 1 \in Nat /\ DOMAIN calls' = 1..(top - 1)
      /\ \A i \in 1..(top - 1) : calls'[i] = calls[i]
  <2>1. calls \in Seq(Calls)
    BY DEF GraphTypeOK
  <2> QED BY <1>2, <2>1 DEF top
<1> DEFINE t == calls[top].node
<1> HIDE DEF Return
<1>4. t \in visited /\ t \notin Finished /\ Children(t) \subseteq Finished
  <2>1. {top + 1} \cap DOMAIN calls = {} /\ top \in DOMAIN calls
    BY <1>2
  <2>2. t \in visited /\ Children(t) \ calls[top].left
            \subseteq Finished \cup {calls[j].node : j \in {top + 1} \cap DOMAIN calls}
    BY <1>1, <2>1 DEF OnStack, Looking
  <2> QED BY <1>2, <2>1, <2>2 DEF Finished
<1>5. InStack' = InStack \ {t}
  <2>1. 1..top = 1..(top - 1) \cup {top}
    BY <1>2, <1>3
  <2>2. ASSUME NEW i \in 1..(top - 1) PROVE calls[i].node # t
    <3>1. i \in DOMAIN calls /\ top \in DOMAIN calls /\ i < top
      BY <1>2, <1>3
    <3> QED BY <1>1, <3>1 DEF OnStack, Chained
  <2>3. {calls[i].node : i \in 1..top} \ {t} = {calls'[i].node : i \in 1..(top - 1)}
    BY <1>3, <2>1, <2>2
  <2> QED BY <1>2, <1>3, <2>3 DEF InStack
<1>6. Finished' = Finished \cup {t} /\ visited' = visited
  BY <1>2, <1>4, <1>5 DEF Finished, Return
<1>7. t \notin Below({t})
  <2>1. Finished \in SUBSET Nodes /\ {t} \in SUBSET Nodes
    BY <1>2 DEF Finished, GraphTypeOK
  <2>2. \A n \in {t} \cup Finished : Children(n) \subseteq Finished
    BY <1>1, <1>4 DEF Closed
  <2> HIDE DEF t
  <2>3. Below({t}) \subseteq Finished
    BY <2>1, <2>2, BelowIs
  <2> QED BY <1>4, <2>3
<1>8. Closed'
  <2> HIDE DEF t
  <2> QED BY <1>1, <1>4, <1>6, <1>7, SameRule DEF Closed
<1>9. Looking'
  <2> SUFFICES ASSUME NEW i \in DOMAIN calls', NEW n, n = calls'[i].node
               PROVE  /\ n \in visited' /\ calls'[i].left \subseteq Children(n)'
                      /\ Children(n)' \ calls'[i].left
                           \subseteq Finished' \cup
                                  {calls'[j].node : j \in {i + 1} \cap DOMAIN calls'}
    BY DEF Looking
  <2>1. i \in 1..top /\ i \in 1..(top - 1) /\ calls'[i] = calls[i] /\ i + 1 \in 1..top
    BY <1>2, <1>3
  <2>2. /\ n \in visited /\ calls[i].left \subseteq Children(n)
        /\ Children(n) \ calls[i].left
              \subseteq Finished \cup {calls[j].node : j \in {i + 1} \cap DOMAIN calls}
    BY <1>1, <1>2, <2>1 DEF OnStack, Looking
  <2>3. {i + 1} \cap DOMAIN calls = {i + 1}
    BY <1>2, <2>1
  <2>4. CASE i + 1 \in 1..(top - 1)
    <3>1. {i + 1} \cap DOMAIN calls' = {i + 1} /\ calls'[i + 1] = calls[i + 1]
      BY <1>3, <2>4
    <3> QED BY <1>1, <1>6, <2>1, <2>2, <2>3, <3>1, SameRule
  <2>5. CASE i + 1 = top
    BY <1>1, <1>6, <2>1, <2>2, <2>3, <2>5, SameRule
  <2> QED BY <1>2, <2>1, <2>4, <2>5
<1>10. Chained'
  <2> SUFFICES ASSUME NEW i \in DOMAIN calls', NEW j \in DOMAIN calls', i < j,
                      NEW n, NEW m, n = calls'[i].node, m = calls'[j].node
               PROVE  m # n /\ (m \in Below({n}))'
    BY DEF Chained
  <2>1. i \in DOMAIN calls /\ j \in DOMAIN calls /\ n = calls[i].node /\ m = calls[j].node
    BY <1>2, <1>3
  <2>2. m # n /\ m \in Below({n})
    BY <1>1, <2>1 DEF OnStack, Chained
  <2> QED BY <1>1, <2>2, SameRule
<1> QED
  BY <1>1, <1>8, <1>9, <1>10 DEF SearchInv, OnStack

\* A back edge closes a cycle.
LEMMA BackEdgeSearch ==
    ASSUME GraphTypeOK, SearchInv, NEW c \in Nodes, BackEdge(c)
    PROVE  SearchInv'
<1>1. UNCHANGED rule /\ phase = "cycle" /\ phase' = "forward" /\ cyclic' /\ OnStack
      /\ calls # <<>> /\ c \in Top.left /\ c \in InStack
  BY DEF BackEdge, SearchInv
<1> DEFINE t == Top.node
<1>2. t \in Nodes /\ c \in Children(t)
  <2>1. Len(calls) \in DOMAIN calls /\ Top = calls[Len(calls)]
    BY <1>1, TopIs
  <2> QED BY <1>1, <2>1, TopIs DEF OnStack, Looking
<1>3. PICK i \in DOMAIN calls : calls[i].node = c
  BY <1>1 DEF InStack
<1>4. i = Len(calls) \/ i < Len(calls)
  BY <1>1, TopIs
<1>5. c = t \/ t \in Below({c})
  <2>1. CASE i < Len(calls)
    BY <1>1, <1>3, <2>1, TopIs DEF OnStack, Chained
  <2>2. CASE i = Len(calls)
    BY <1>1, <1>3, <2>2, TopIs
  <2> QED BY <1>4, <2>1, <2>2
<1> HIDE DEF t
<1>6. c \in Below({t})
  BY <1>2, EdgeBelow
<1>7. Below({t}) \subseteq Below({c})
  BY <1>2, <1>5, BelowBelow
<1>8. HasCycle
  BY <1>6, <1>7 DEF HasCycle
<1>9. HasCycle'
  BY <1>1, <1>8, SameRule
<1> QED
  BY <1>1, <1>9 DEF SearchInv

\* Once the search has ended everything is finished, and the verdict stands.
LEMMA SearchEndsInv ==
    ASSUME GraphTypeOK, SearchInv, SearchEnds
    PROVE  SearchInv'
<1>1. UNCHANGED rule /\ phase = "cycle" /\ phase' = "forward" /\ Closed /\ ~cyclic'
      /\ calls = <<>> /\ visited = Nodes
  BY DEF SearchEnds, SearchInv, search
<1>2. Finished = Nodes
  BY <1>1 DEF Finished, InStack
<1>3. ~HasCycle
  BY <1>1, <1>2 DEF HasCycle, Closed
<1> QED
  BY <1>1, <1>3, SameRule DEF SearchInv

LEMMA SearchStep ==
    ASSUME GraphTypeOK, SearchInv, [GraphNext]_graphVars
    PROVE  SearchInv'
<1>1. ASSUME phase # "cycle" \/ UNCHANGED graphVars PROVE SearchInv'
  <2>1. CASE UNCHANGED graphVars
    <3>1. UNCHANGED <<rule, phase, visited, calls, cyclic>>
      BY <2>1 DEF graphVars, search
    <3>2. Finished' = Finished /\ DOMAIN calls' = DOMAIN calls /\ InStack' = InStack
      BY <3>1 DEF Finished, InStack
    <3>3. OnStack => OnStack'
      BY <3>1, <3>2, SameRule DEF OnStack, Looking, Chained
    <3>4. Closed => Closed'
      BY <3>1, <3>2, SameRule DEF Closed
    <3> QED BY <3>1, <3>3, <3>4, SameRule DEF SearchInv
  <2>2. CASE phase # "cycle" /\ GraphNext
    <3>1. UNCHANGED rule /\ phase' # "cycle" /\ UNCHANGED cyclic
      BY <2>2 DEF GraphNext, NextRoot, Descend, SkipChild, BackEdge, Return, SearchEnds,
                  ReachForward, ForwardEnds, ReachBackward, Reject, Accept, BackwardEnds, Sort,
                  SortEnds,
                  Execute, RunEnds, search
    <3> QED BY <2>2, <3>1, SameRule DEF SearchInv
  <2> QED BY <1>1, <2>1, <2>2
<1>2. CASE GraphNext /\ phase = "cycle"
  <2>1. \/ \E n \in Nodes : NextRoot(n) \/ Descend(n) \/ SkipChild(n) \/ BackEdge(n)
        \/ Return \/ SearchEnds
    BY <1>2 DEF GraphNext, ReachForward, ForwardEnds, ReachBackward, Reject, Accept, BackwardEnds,
                Sort, SortEnds, Execute, RunEnds
  <2> QED BY <2>1, RootSearch, DescendSearch, SkipSearch, BackEdgeSearch, ReturnSearch,
             SearchEndsInv
<1> QED
  BY <1>1, <1>2


-----------------------------------------------------------------------------
(* RuleGraph: the searches for orphans, and the verdict                    *)

\* While a search is running, what it has reached or will reach belongs there,
\* and nothing next to what it has reached is forgotten.
Sources == OfType("track_source")
Outputs == OfType("match_output")

ForwardInv ==
    /\ phase = "cycle" => forward = {}
    /\ phase = "forward" =>
          /\ Sources \subseteq forward \cup work
          /\ \A n \in forward : Children(n) \subseteq forward \cup work
          /\ \A n \in forward \cup work : FromSource(n)
    /\ phase \notin {"cycle", "forward"} => \A n \in Nodes : n \in forward <=> FromSource(n)

BackwardInv ==
    /\ phase \in {"cycle", "forward"} => backward = {}
    /\ phase = "backward" =>
          /\ Outputs \subseteq backward \cup work
          /\ \A n \in backward : Parents(n) \subseteq backward \cup work
          /\ \A n \in backward \cup work : ToOutput(n)
    /\ phase \notin {"cycle", "forward", "backward"} =>
          \A n \in Nodes : n \in backward <=> ToOutput(n)

\* A rule that was judged is sound if and only if it was accepted.
JudgeInv ==
    /\ phase = "rejected" => ~Sound
    /\ phase \in {"sort", "run", "done"} => Sound

\* What the two searches do not touch.
LEMMA OtherPhases ==
    ASSUME [GraphNext]_graphVars
    PROVE  /\ UNCHANGED rule
           /\ phase' # phase =>
                 \/ phase = "cycle" /\ phase' = "forward" /\ work' = Sources /\ UNCHANGED reach
                 \/ ForwardEnds \/ Accept \/ Reject
                 \/ phase \in {"sort", "run"} /\ phase' \in {"run", "done"} /\ UNCHANGED reach
           /\ phase' = phase =>
                 \/ UNCHANGED reach /\ (phase \in {"forward", "backward"} => UNCHANGED work)
                 \/ \E n \in Nodes : ReachForward(n) \/ ReachBackward(n)
<1>1. CASE \/ \E n \in Nodes : NextRoot(n) \/ Descend(n) \/ SkipChild(n) \/ BackEdge(n)
           \/ Return \/ SearchEnds
  BY <1>1 DEF NextRoot, Descend, SkipChild, BackEdge, Return, SearchEnds, Sources
<1>2. CASE \E n \in Nodes : ReachForward(n) \/ ReachBackward(n)
  BY <1>2 DEF ReachForward, ReachBackward
<1>3. CASE ForwardEnds \/ Reject \/ Accept
  BY <1>3 DEF ForwardEnds, Reject, Accept, BackwardEnds
<1>4. CASE (\E n \in Nodes : Sort(n) \/ Execute(n)) \/ SortEnds \/ RunEnds
  BY <1>4 DEF Sort, Execute, SortEnds, RunEnds
<1>5. CASE UNCHANGED graphVars
  BY <1>5 DEF graphVars
<1> QED
  BY <1>1, <1>2, <1>3, <1>4, <1>5 DEF GraphNext

\* A child of what lies below the source lies there, too; so does a parent of
\* what lies above an output.
LEMMA SourceChild ==
    ASSUME NEW n \in Nodes, FromSource(n)
    PROVE  \A m \in Children(n) : FromSource(m)
<1>1. Sources \in SUBSET Nodes
  BY DEF Sources, OfType
<1>2. \A k \in Sources \cup Below(Sources) : Children(k) \subseteq Below(Sources)
  BY <1>1, BelowIs
<1> HIDE DEF Below
<1> QED
  BY <1>2 DEF FromSource, Sources

LEMMA OutputParent ==
    ASSUME NEW n \in Nodes, ToOutput(n)
    PROVE  \A m \in Parents(n) : ToOutput(m)
<1> SUFFICES ASSUME NEW m \in Parents(n) PROVE ToOutput(m)
  OBVIOUS
<1>1. m \in Nodes /\ n \in Below({m})
  BY ChildParent, EdgeBelow DEF Parents
<1>2. Below({n}) \subseteq Below({m})
  BY <1>1, BelowBelow
<1> HIDE DEF Below
<1> QED
  BY <1>1, <1>2 DEF ToOutput

\* When nothing is left to do the searches have reached all of it.
LEMMA ForwardDone ==
    ASSUME ForwardInv, forward \in SUBSET Nodes, phase = "forward", work = {}
    PROVE  \A n \in Nodes : n \in forward <=> FromSource(n)
<1>1. Sources \subseteq forward /\ Sources \in SUBSET Nodes
      /\ \A n \in forward : Children(n) \subseteq forward /\ FromSource(n)
  BY DEF ForwardInv, Sources, OfType
<1>2. Below(Sources) \subseteq forward
  BY <1>1, BelowIs
<1> HIDE DEF Below
<1> QED
  BY <1>1, <1>2 DEF FromSource, Sources

LEMMA BackwardDone ==
    ASSUME BackwardInv, backward \in SUBSET Nodes, phase = "backward", work = {}
    PROVE  \A n \in Nodes : n \in backward <=> ToOutput(n)
<1>1. Outputs \subseteq backward
      /\ \A n \in backward : Parents(n) \subseteq backward /\ ToOutput(n)
  BY DEF BackwardInv
<1>2. ASSUME NEW n \in Nodes, n \notin backward PROVE ~ToOutput(n)
  <2> DEFINE T == Nodes \ backward
  <2>1. \A k \in {n} \cup T : Children(k) \subseteq T
    <3> SUFFICES ASSUME NEW k \in T, NEW m \in Children(k) PROVE m \in T
      BY <1>2
    <3>1. m \in Nodes /\ k \in Parents(m)
      BY ChildParent DEF Children
    <3> QED BY <1>1, <3>1
  <2> HIDE DEF T
  <2>2. Below({n}) \subseteq T
    <3>1. T \in SUBSET Nodes /\ {n} \in SUBSET Nodes
      BY DEF T
    <3> QED BY <2>1, <3>1, BelowIs
  <2> USE DEF T
  <2> HIDE DEF Below
  <2> QED BY <1>1, <1>2, <2>2 DEF ToOutput, Outputs
<1> QED
  BY <1>1, <1>2

\* The verdict is right.
LEMMA Verdict ==
    ASSUME GraphTypeOK, SearchInv, phase = "backward", work = {},
           \A n \in Nodes : n \in forward <=> FromSource(n),
           \A n \in Nodes : n \in backward <=> ToOutput(n)
    PROVE  Sound <=> ~Errors
<1>1. cyclic <=> \E n \in Nodes : n \in Below({n})
  BY DEF SearchInv, HasCycle
<1>2. forward \cap backward # Nodes <=> ~ \A n \in Nodes : FromSource(n) /\ ToOutput(n)
  BY DEF GraphTypeOK
<1> HIDE DEF Below
<1> QED
  BY <1>1, <1>2 DEF Sound, Errors

LEMMA ForwardStep ==
    ASSUME GraphTypeOK, ForwardInv, [GraphNext]_graphVars
    PROVE  ForwardInv'
<1>1. UNCHANGED rule
  BY OtherPhases
<1>2. ASSUME NEW n \in Nodes, ReachForward(n) PROVE ForwardInv'
  <2>1. /\ n \in work /\ phase = "forward" /\ phase' = "forward"
        /\ forward' = forward \cup {n} /\ forward' \cup work' = forward \cup work \cup Children(n)
    BY <1>2 DEF ReachForward
  <2>2. FromSource(n) /\ \A m \in Children(n) : FromSource(m)
    BY <2>1, SourceChild DEF ForwardInv
  <2>3. Sources' = Sources
    BY <1>1, SameRule DEF Sources
  <2>4. Sources' \subseteq forward' \cup work'
    BY <2>1, <2>3 DEF ForwardInv
  <2>5. \A k \in forward' : Children(k)' \subseteq forward' \cup work'
    BY <1>1, <2>1, SameRule DEF ForwardInv
  <2>6. \A k \in forward' \cup work' : FromSource(k)'
    BY <1>1, <2>1, <2>2, SameRule DEF ForwardInv
  <2> QED BY <2>1, <2>4, <2>5, <2>6 DEF ForwardInv
<1>3. ASSUME UNCHANGED <<phase, forward>>, phase = "forward" => UNCHANGED work
      PROVE  ForwardInv'
  <2>1. Sources' = Sources
    BY <1>1, SameRule DEF Sources
  <2> QED BY <1>1, <1>3, <2>1, SameRule DEF ForwardInv
<1>4. ASSUME NEW n \in Nodes, ReachBackward(n) PROVE ForwardInv'
  BY <1>3, <1>4 DEF ReachBackward
<1>5. CASE phase = "cycle" /\ phase' = "forward" /\ work' = Sources /\ UNCHANGED reach
  <2>1. Sources' = Sources /\ \A n \in Sources : FromSource(n)
    BY <1>1, SameRule DEF Sources, FromSource
  <2> QED BY <1>1, <1>5, <2>1, SameRule DEF ForwardInv, reach
<1>6. CASE ForwardEnds
  <2>1. phase = "forward" /\ work = {} /\ phase' = "backward" /\ UNCHANGED forward
    BY <1>6 DEF ForwardEnds, reach
  <2>2. \A n \in Nodes : n \in forward <=> FromSource(n)
    BY <2>1, ForwardDone DEF GraphTypeOK
  <2> QED BY <1>1, <2>1, <2>2, SameRule DEF ForwardInv
<1>7. CASE \/ Accept \/ Reject
           \/ phase \in {"sort", "run"} /\ phase' \in {"run", "done"} /\ UNCHANGED reach
  <2>1. phase \notin {"cycle", "forward"} /\ phase' \notin {"cycle", "forward"} /\ UNCHANGED forward
    BY <1>7 DEF Accept, Reject, BackwardEnds, reach
  <2> QED BY <1>1, <2>1, SameRule DEF ForwardInv
<1> QED
  BY <1>2, <1>3, <1>4, <1>5, <1>6, <1>7, OtherPhases DEF reach

LEMMA BackwardStep ==
    ASSUME GraphTypeOK, SearchInv, ForwardInv, BackwardInv, JudgeInv, [GraphNext]_graphVars
    PROVE  BackwardInv' /\ JudgeInv'
<1>1. UNCHANGED rule /\ Outputs' = Outputs
  BY OtherPhases, SameRule DEF Outputs
<1>2. ASSUME NEW n \in Nodes, ReachBackward(n) PROVE BackwardInv' /\ JudgeInv'
  <2>1. /\ n \in work /\ phase = "backward" /\ phase' = "backward"
        /\ backward' = backward \cup {n}
        /\ backward' \cup work' = backward \cup work \cup Parents(n)
    BY <1>2 DEF ReachBackward
  <2>2. ToOutput(n) /\ \A m \in Parents(n) : ToOutput(m)
    BY <2>1, OutputParent DEF BackwardInv
  <2>3. Outputs' \subseteq backward' \cup work'
    BY <1>1, <2>1 DEF BackwardInv
  <2>4. \A k \in backward' : Parents(k)' \subseteq backward' \cup work'
    BY <1>1, <2>1, SameRule DEF BackwardInv
  <2>5. \A k \in backward' \cup work' : ToOutput(k)'
    BY <1>1, <2>1, <2>2, SameRule DEF BackwardInv
  <2> QED BY <2>1, <2>3, <2>4, <2>5 DEF BackwardInv, JudgeInv
<1>3. ASSUME UNCHANGED <<phase, backward>>, phase = "backward" => UNCHANGED work
      PROVE  BackwardInv' /\ JudgeInv'
  BY <1>1, <1>3, SameRule DEF BackwardInv, JudgeInv
<1>4. ASSUME NEW n \in Nodes, ReachForward(n) PROVE BackwardInv' /\ JudgeInv'
  BY <1>3, <1>4 DEF ReachForward
<1>5. CASE phase = "cycle" /\ phase' = "forward" /\ work' = Sources /\ UNCHANGED reach
  BY <1>5 DEF BackwardInv, JudgeInv, reach
<1>6. CASE ForwardEnds
  <2>1. phase = "forward" /\ phase' = "backward" /\ UNCHANGED backward /\ work' = Outputs
    BY <1>6 DEF ForwardEnds, reach, Outputs
  <2>2. \A n \in Outputs : ToOutput(n)
    BY DEF Outputs, ToOutput
  <2> QED BY <1>1, <2>1, <2>2, SameRule DEF BackwardInv, JudgeInv
<1>7. CASE Accept \/ Reject
  <2>1. /\ phase = "backward" /\ work = {} /\ UNCHANGED backward
        /\ phase' = IF Errors THEN "rejected" ELSE "sort"
    BY <1>7 DEF Accept, Reject, BackwardEnds, reach
  <2>2. \A n \in Nodes : n \in backward <=> ToOutput(n)
    BY <2>1, BackwardDone DEF GraphTypeOK
  <2>3. Sound <=> ~Errors
    BY <2>1, <2>2, Verdict DEF ForwardInv
  <2>4. BackwardInv'
    BY <1>1, <2>1, <2>2, SameRule DEF BackwardInv
  <2>5. JudgeInv'
    BY <1>1, <2>1, <2>3, SameRule DEF JudgeInv
  <2> QED BY <2>4, <2>5
<1>8. CASE phase \in {"sort", "run"} /\ phase' \in {"run", "done"} /\ UNCHANGED reach
  BY <1>1, <1>8, SameRule DEF BackwardInv, JudgeInv, reach
<1> QED
  BY <1>2, <1>3, <1>4, <1>5, <1>6, <1>7, <1>8, OtherPhases DEF reach


-----------------------------------------------------------------------------
(* RuleGraph: the order, and the run                                       *)

Prefix(k) == {order[j] : j \in 1..k}

\* Every node comes after its parents, and once.  Those that are queued are those
\* whose parents are sorted; in_degree counts the others.
OrderInv ==
    /\ Len(order) = Cardinality(Sorted)
    /\ \A i, j \in DOMAIN order : i # j => order[i] # order[j]
    /\ \A i \in DOMAIN order : \A n : n = order[i] => Parents(n) \subseteq Prefix(i - 1)
    /\ phase \in {"cycle", "forward", "backward", "rejected"} => order = <<>>
    /\ phase = "sort" =>
          /\ \A n \in Nodes : degree[n] = Cardinality(Parents(n) \ Sorted)
          /\ work = {n \in Nodes \ Sorted : Parents(n) \subseteq Sorted}
    /\ phase \in {"run", "done"} => Sorted = Nodes

\* The outputs there are are those of the first nodes in this order.
RunInv ==
    /\ phase \notin {"run", "done"} => outputs = {}
    /\ Cardinality(outputs) <= Len(order)
    /\ outputs = Prefix(Cardinality(outputs))
    /\ phase = "done" => Cardinality(outputs) = Len(order)

LEMMA SortedIs ==
    ASSUME GraphTypeOK
    PROVE  /\ Sorted \in SUBSET Nodes /\ Sorted = Prefix(Len(order))
           /\ Len(order) \in Nat /\ DOMAIN order = 1..Len(order)
           /\ \A n : IsFiniteSet(Parents(n)) /\ IsFiniteSet(Parents(n) \ Sorted)
           /\ \A S \in SUBSET Nodes : IsFiniteSet(S) /\ Cardinality(S) \in Nat
<1>1. order \in Seq(Nodes) /\ Len(order) \in Nat /\ DOMAIN order = 1..Len(order)
  BY DEF GraphTypeOK
<1>2. Sorted \in SUBSET Nodes /\ Sorted = Prefix(Len(order))
  BY <1>1 DEF Sorted, Prefix
<1>3. \A S \in SUBSET Nodes : IsFiniteSet(S) /\ Cardinality(S) \in Nat
  BY NodesAssumption, FS_Subset, FS_CardinalityType
<1>4. \A n : Parents(n) \in SUBSET Nodes /\ Parents(n) \ Sorted \in SUBSET Nodes
  BY DEF Parents
<1> QED
  BY <1>1, <1>2, <1>3, <1>4

\* Sorting one node.
LEMMA SortOne ==
    ASSUME GraphTypeOK, OrderInv, RunInv, NEW n \in Nodes, Sort(n)
    PROVE  OrderInv' /\ RunInv'
<1> DEFINE len == Len(order)
<1> HIDE DEF len
<1>1. /\ phase = "sort" /\ phase' = "sort" /\ order' = Append(order, n) /\ UNCHANGED outputs
      /\ UNCHANGED rule /\ n \in work /\ outputs = {}
      /\ degree' = [m \in Nodes |-> IF m \in Children(n) THEN degree[m] - 1 ELSE degree[m]]
      /\ work' = (work \ {n}) \cup {m \in Children(n) : degree'[m] = 0}
  BY DEF Sort, RunInv
<1>2. /\ n \in Nodes \ Sorted /\ Parents(n) \subseteq Sorted
      /\ work = {m \in Nodes \ Sorted : Parents(m) \subseteq Sorted}
      /\ \A m \in Nodes : degree[m] = Cardinality(Parents(m) \ Sorted)
  BY <1>1 DEF OrderInv
<1>3. order \in Seq(Nodes) /\ len \in Nat /\ DOMAIN order = 1..len /\ len = Len(order)
      /\ Sorted = Prefix(len) /\ Sorted \in SUBSET Nodes
  BY SortedIs DEF GraphTypeOK, len
<1>4. DOMAIN order' = 1..(len + 1) /\ Len(order') = len + 1 /\ order'[len + 1] = n
      /\ \A i \in 1..len : order'[i] = order[i]
  BY <1>1, <1>3
<1>5. /\ \A k \in 0..len : Prefix(k)' = Prefix(k)
      /\ Sorted' = Sorted \cup {n}
  <2>1. \A k \in 0..len : Prefix(k)' = Prefix(k)
    <3> SUFFICES ASSUME NEW k \in 0..len PROVE {order'[j] : j \in 1..k} = {order[j] : j \in 1..k}
      BY DEF Prefix
    <3>1. \A j \in 1..k : j \in 1..len
      BY <1>3
    <3> QED BY <1>4, <3>1
  <2>2. 1..(len + 1) = 1..len \cup {len + 1}
    BY <1>3
  <2>3. {order'[j] : j \in 1..(len + 1)} = {order[j] : j \in 1..len} \cup {n}
    BY <1>4, <2>2
  <2> QED BY <1>3, <1>4, <2>1, <2>3 DEF Sorted
<1>6. \A i, j \in DOMAIN order' : i # j => order'[i] # order'[j]
  <2>1. \A i \in 1..len : order[i] \in Sorted
    BY <1>3 DEF Sorted
  <2>2. \A i \in 1..(len + 1) : i \in 1..len \/ i = len + 1
    BY <1>3
  <2>3. \A i, j \in 1..len : i # j => order[i] # order[j]
    BY <1>3 DEF OrderInv
  <2>4. \A i \in 1..len : order'[i] # n
    BY <1>2, <1>4, <2>1
  <2> QED BY <1>4, <2>2, <2>3, <2>4
<1>7. \A i \in DOMAIN order' : \A m : m = order'[i] => Parents(m)' \subseteq Prefix(i - 1)'
  <2> SUFFICES ASSUME NEW i \in 1..(len + 1), NEW m, m = order'[i]
               PROVE  Parents(m)' \subseteq Prefix(i - 1)'
    BY <1>4
  <2>1. Parents(m)' = Parents(m) /\ Prefix(i - 1)' = Prefix(i - 1)
    BY <1>1, <1>3, <1>5, SameRule
  <2>2. CASE i = len + 1
    <3>1. i - 1 = len
      BY <1>3, <2>2
    <3> QED BY <1>2, <1>3, <1>4, <2>1, <2>2, <3>1
  <2>3. CASE i \in 1..len
    BY <1>3, <1>4, <2>1, <2>3 DEF OrderInv
  <2> QED BY <1>3, <2>2, <2>3
<1>8. Len(order') = Cardinality(Sorted')
  <2>1. IsFiniteSet(Sorted)
    BY <1>3, SortedIs
  <2>2. Cardinality(Sorted \cup {n}) = Cardinality(Sorted) + 1
    BY <1>2, <2>1, FS_AddElement
  <2> QED BY <1>3, <1>4, <1>5, <2>2 DEF OrderInv
<1>9. ASSUME NEW m \in Nodes PROVE degree'[m] = Cardinality(Parents(m) \ Sorted')
  <2>1. CASE m \in Children(n)
    <3>1. n \in Parents(m) \ Sorted /\ Parents(m) \ Sorted' = (Parents(m) \ Sorted) \ {n}
      BY <1>2, <1>5, <2>1, ChildParent
    <3>2. Cardinality((Parents(m) \ Sorted) \ {n}) = Cardinality(Parents(m) \ Sorted) - 1
      BY <3>1, SortedIs, FS_RemoveElement
    <3> QED BY <1>1, <1>2, <2>1, <3>1, <3>2
  <2>2. CASE m \notin Children(n)
    <3>1. Parents(m) \ Sorted' = Parents(m) \ Sorted
      BY <1>5, <2>2, ChildParent
    <3> QED BY <1>1, <1>2, <2>2, <3>1
  <2> QED BY <2>1, <2>2
<1>10. \A m \in Nodes : degree'[m] = 0 <=> Parents(m) \subseteq Sorted'
  <2> SUFFICES ASSUME NEW m \in Nodes
               PROVE  degree'[m] = 0 <=> Parents(m) \subseteq Sorted'
    OBVIOUS
  <2>1. IsFiniteSet(Parents(m) \ Sorted')
    <3>1. Parents(m) \ Sorted' \in SUBSET Nodes
      BY DEF Parents
    <3> QED BY <3>1, SortedIs
  <2>2. Cardinality(Parents(m) \ Sorted') = 0 <=> Parents(m) \ Sorted' = {}
    BY <2>1, FS_EmptySet
  <2> QED BY <1>9, <2>2
<1>11. work' = {m \in Nodes \ Sorted' : Parents(m) \subseteq Sorted'}
  <2>1. ASSUME NEW m \in work' PROVE m \in Nodes \ Sorted' /\ Parents(m) \subseteq Sorted'
    <3>1. CASE m \in work \ {n}
      BY <1>2, <1>5, <3>1
    <3>2. CASE m \in Children(n) /\ degree'[m] = 0
      <4>1. m \in Nodes /\ n \in Parents(m)
        BY <3>2, ChildParent DEF Children
      <4>2. m \notin Sorted
        <5>1. SUFFICES ASSUME m \in Sorted PROVE FALSE
          OBVIOUS
        <5>2. PICK i \in 1..len : order[i] = m
          BY <1>3, <5>1 DEF Sorted
        <5>3. n \in Prefix(i - 1)
          BY <1>3, <4>1, <5>2 DEF OrderInv
        <5>4. n \in Sorted
          BY <1>3, <5>3 DEF Prefix, Sorted
        <5> QED BY <1>2, <5>4
      <4>3. m # n
        BY <1>2, <4>1
      <4> QED BY <1>5, <1>10, <3>2, <4>1, <4>2, <4>3
    <3> QED BY <1>1, <2>1, <3>1, <3>2
  <2>2. ASSUME NEW m \in Nodes \ Sorted', Parents(m) \subseteq Sorted' PROVE m \in work'
    <3>1. CASE n \in Parents(m)
      BY <1>1, <1>10, <2>2, <3>1, ChildParent
    <3>2. CASE n \notin Parents(m)
      BY <1>1, <1>2, <1>5, <2>2, <3>2
    <3> QED BY <3>1, <3>2
  <2> QED BY <2>1, <2>2
<1>12. \A m : Parents(m)' = Parents(m)
  BY <1>1, SameRule
<1>13. OrderInv'
  BY <1>1, <1>6, <1>7, <1>8, <1>9, <1>11, <1>12 DEF OrderInv
<1>14. RunInv'
  <2>1. Cardinality({}) = 0 /\ Prefix(0)' = {}
    BY FS_EmptySet DEF Prefix
  <2> QED BY <1>1, <1>3, <1>4, <2>1 DEF RunInv
<1> QED
  BY <1>13, <1>14

\* Executing one.
LEMMA ExecuteOne ==
    ASSUME GraphTypeOK, OrderInv, RunInv, NEW n \in Nodes, Execute(n)
    PROVE  OrderInv' /\ RunInv'
<1> DEFINE k == Cardinality(outputs)
<1>1. /\ phase = "run" /\ phase' = "run" /\ UNCHANGED order /\ UNCHANGED rule
      /\ k < Len(order) /\ n = order[k + 1] /\ outputs' = outputs \cup {n}
      /\ outputs = Prefix(k)
  BY DEF Execute, RunInv
<1>2. Len(order) \in Nat /\ DOMAIN order = 1..Len(order) /\ k \in Nat /\ IsFiniteSet(outputs)
  BY SortedIs DEF GraphTypeOK
<1>3. Sorted' = Sorted /\ \A i : Prefix(i)' = Prefix(i)
  BY <1>1 DEF Sorted, Prefix
<1>4. OrderInv'
  BY <1>1, <1>3, SameRule DEF OrderInv
<1> HIDE DEF k
<1>5. n \notin outputs
  BY <1>1, <1>2 DEF Prefix, OrderInv
<1>6. Cardinality(outputs') = k + 1
  BY <1>1, <1>2, <1>5, FS_AddElement DEF k
<1>7. outputs' = Prefix(k + 1)
  <2>1. 1..(k + 1) = 1..k \cup {k + 1}
    BY <1>2
  <2> QED BY <1>1, <2>1 DEF Prefix
<1>8. Prefix(Cardinality(outputs))' = Prefix(k + 1)
  BY <1>1, <1>6 DEF Prefix
<1>9. Cardinality(outputs') <= Len(order')
  BY <1>1, <1>2, <1>6
<1>10. RunInv'
  <2> HIDE DEF Prefix
  <2>1. outputs' = Prefix(Cardinality(outputs))'
    BY <1>7, <1>8
  <2> QED BY <1>1, <1>9, <2>1 DEF RunInv
<1> QED
  BY <1>4, <1>10

LEMMA OrderStep ==
    ASSUME GraphTypeOK, JudgeInv, OrderInv, RunInv, [GraphNext]_graphVars
    PROVE  OrderInv' /\ RunInv'
<1>1. UNCHANGED rule
  BY OtherPhases
<1>2. ASSUME UNCHANGED <<order, outputs>>
      PROVE  /\ Sorted' = Sorted /\ \A i : Prefix(i)' = Prefix(i)
             /\ \A n : Parents(n)' = Parents(n)
             /\ Cardinality(outputs') = Cardinality(outputs)
  BY <1>1, <1>2, SameRule DEF Sorted, Prefix
<1>3. CASE \/ \E n \in Nodes : NextRoot(n) \/ Descend(n) \/ SkipChild(n) \/ BackEdge(n)
           \/ \E n \in Nodes : ReachForward(n) \/ ReachBackward(n)
           \/ Return \/ SearchEnds \/ ForwardEnds \/ Reject
  <2>1. /\ phase \in {"cycle", "forward", "backward"} /\ UNCHANGED <<order, outputs>>
        /\ phase' \in {"cycle", "forward", "backward", "rejected"}
    BY <1>3 DEF NextRoot, Descend, SkipChild, BackEdge, ReachForward, ReachBackward, Return,
                SearchEnds, ForwardEnds, Reject, BackwardEnds
  <2> QED BY <1>2, <2>1 DEF OrderInv, RunInv
<1>4. CASE Accept
  <2>1. /\ phase = "backward" /\ phase' = "sort" /\ UNCHANGED <<order, outputs>>
        /\ degree' = [n \in Nodes |-> Cardinality(Parents(n))]
        /\ work' = {n \in Nodes : Parents(n) = {}}
    BY <1>4 DEF Accept, BackwardEnds
  <2>2. order = <<>> /\ Sorted = {}
    BY <2>1 DEF OrderInv, Sorted
  <2>3. \A n \in Nodes : degree'[n] = Cardinality(Parents(n) \ Sorted)
    BY <2>1, <2>2
  <2>4. work' = {n \in Nodes \ Sorted : Parents(n) \subseteq Sorted}
    BY <2>1, <2>2
  <2> QED BY <1>2, <2>1, <2>3, <2>4 DEF OrderInv, RunInv
<1>5. CASE SortEnds
  <2>1. phase = "sort" /\ phase' = "run" /\ UNCHANGED <<order, outputs>> /\ work = {}
    BY <1>5 DEF SortEnds
  <2>2. \A n \in Nodes : n \notin Below({n})
    BY <2>1 DEF JudgeInv, Sound
  <2>3. \A n \in Nodes \ Sorted : ~ (Parents(n) \subseteq Sorted)
    BY <2>1 DEF OrderInv
  <2>4. Nodes \ Sorted = {}
    <3>1. \A n \in Nodes \ Sorted : Parents(n) \cap (Nodes \ Sorted) # {}
      BY <2>3 DEF Parents
    <3> QED BY <2>2, <3>1, FirstNode
  <2>5. Sorted = Nodes
    BY <2>4, SortedIs
  <2> QED BY <1>2, <2>1, <2>5 DEF OrderInv, RunInv
<1>6. CASE RunEnds
  <2>1. phase = "run" /\ phase' = "done" /\ UNCHANGED <<order, outputs>>
        /\ Cardinality(outputs) = Len(order)
    BY <1>6 DEF RunEnds
  <2> QED BY <1>2, <2>1 DEF OrderInv, RunInv
<1>7. CASE UNCHANGED graphVars
  <2>1. UNCHANGED <<phase, order, outputs, degree, work>>
    BY <1>7 DEF graphVars
  <2> QED BY <1>2, <2>1 DEF OrderInv, RunInv
<1> QED
  BY <1>3, <1>4, <1>5, <1>6, <1>7, SortOne, ExecuteOne DEF GraphNext

-----------------------------------------------------------------------------
(* RuleGraph: the theorems                                                 *)

GraphInv == GraphTypeOK /\ SearchInv /\ ForwardInv /\ BackwardInv /\ JudgeInv /\ OrderInv /\ RunInv

LEMMA GraphStarts ==
    GraphInit => GraphInv
<1> SUFFICES ASSUME GraphInit PROVE GraphInv
  OBVIOUS
<1>1. /\ phase = "cycle" /\ visited = {} /\ calls = <<>> /\ ~cyclic /\ forward = {}
      /\ backward = {} /\ order = <<>> /\ outputs = {} /\ DOMAIN order = {} /\ DOMAIN calls = {}
  BY DEF GraphInit
<1>2. SearchInv
  BY <1>1 DEF SearchInv, OnStack, Looking, Chained, Closed, Finished
<1>3. ForwardInv /\ BackwardInv /\ JudgeInv
  BY <1>1 DEF ForwardInv, BackwardInv, JudgeInv
<1>4. Sorted = {} /\ Prefix(0) = {} /\ Cardinality({}) = 0 /\ Len(order) = 0
  BY <1>1, FS_EmptySet DEF Sorted, Prefix
<1>5. OrderInv /\ RunInv
  BY <1>1, <1>4 DEF OrderInv, RunInv
<1> QED
  BY <1>2, <1>3, <1>5, GraphTypeInit DEF GraphInv

\* What the loops say of the graph and of one another, in every state.
THEOREM GraphInvariant == GraphSpec => []GraphInv
<1>1. GraphInv /\ [GraphNext]_graphVars => GraphInv'
  BY GraphTypeStep, SearchStep, ForwardStep, BackwardStep, OrderStep DEF GraphInv
<1> QED
  BY <1>1, GraphStarts, PTL DEF GraphSpec

\* Exactly the sound rules are executed, whole and each node after its sources:
\* for a graph of any size.
THEOREM SoundRulesOnly == GraphSpec => []SoundRulesRunWhole
<1>1. GraphInv => SoundRulesRunWhole
  <2> SUFFICES ASSUME GraphInv PROVE SoundRulesRunWhole
    OBVIOUS
  <2>1. GraphTypeOK /\ JudgeInv /\ OrderInv /\ RunInv
    BY DEF GraphInv
  <2>2. Len(order) \in Nat /\ DOMAIN order = 1..Len(order) /\ Sorted = Prefix(Len(order))
    BY <2>1, SortedIs
  <2>3. ASSUME NEW n \in outputs PROVE Parents(n) \subseteq outputs
    <3> DEFINE k == Cardinality(outputs)
    <3>1. k \in Nat /\ k <= Len(order) /\ outputs = Prefix(k)
      BY <2>1, SortedIs DEF RunInv, GraphTypeOK
    <3> HIDE DEF k
    <3>2. PICK i \in 1..k : n = order[i]
      BY <3>1 DEF Prefix
    <3>3. Parents(n) \subseteq Prefix(i - 1)
      BY <2>1, <2>2, <3>1, <3>2 DEF OrderInv
    <3>4. Prefix(i - 1) \subseteq Prefix(k)
      BY <3>1 DEF Prefix
    <3> QED BY <3>1, <3>3, <3>4
  <2>4. phase = "done" => outputs = Nodes
    BY <2>1, <2>2 DEF RunInv, OrderInv
  <2>5. phase \in {"run", "done"} => Sorted = Nodes /\ Len(order) = Cardinality(Nodes)
    BY <2>1 DEF OrderInv
  <2> QED BY <2>1, <2>3, <2>4, <2>5 DEF JudgeInv, SoundRulesRunWhole
<1> QED
  BY <1>1, GraphInvariant, PTL

-----------------------------------------------------------------------------
(* RuleStore: tables, the next priority                                    *)

Table == Seq(Row \cup {None})

LEMMA TableIs ==
    ASSUME NEW R \in Table
    PROVE  /\ Len(R) \in Nat /\ DOMAIN R = 1..Len(R)
           /\ \A i \in DOMAIN R : R[i] # None => R[i] \in Row
           /\ \A T : /\ DOMAIN T = DOMAIN R /\ (\A i \in DOMAIN R : T[i] \in Row \cup {None})
                     /\ T = [i \in DOMAIN R |-> T[i]]
                     => T \in Table
<1> DEFINE S == Row \cup {None}
<1>1. Table = Seq(S)
  BY DEF Table
<1> HIDE DEF S
<1>2. /\ Len(R) \in Nat /\ DOMAIN R = 1..Len(R) /\ \A i \in DOMAIN R : R[i] \in S
  BY <1>1
<1>3. ASSUME NEW T, DOMAIN T = DOMAIN R, \A i \in DOMAIN R : T[i] \in S,
             T = [i \in DOMAIN R |-> T[i]]
      PROVE  T \in Table
  BY <1>1, <1>2, <1>3
<1> QED
  BY <1>2, <1>3 DEF S

\* Priorities in a table are bounded.
LEMMA Bounded ==
    ASSUME NEW R \in Table
    PROVE  \E b \in Nat : \A i \in DOMAIN R : R[i] # None => R[i].prio <= b
<1> DEFINE Bound(n, b) == \A i \in 1..n : R[i] # None => R[i].prio <= b
           Bad == {n \in 0..Len(R) : \A b \in Nat : ~Bound(n, b)}
<1>1. /\ Len(R) \in Nat /\ DOMAIN R = 1..Len(R)
      /\ \A i \in 1..Len(R) : R[i] # None => R[i].prio \in Nat
  BY TableIs DEF Row
<1> HIDE DEF Bound
<1>2. /\ Bad \in SUBSET Nat /\ Bad \subseteq 0..Len(R)
      /\ \A n \in 0..Len(R) : n \notin Bad <=> \E b \in Nat : Bound(n, b)
  BY <1>1
<1> HIDE DEF Bad
<1> USE DEF Bound
<1>3. ASSUME Bad # {} PROVE FALSE
  <2>1. PICK n \in Bad : \A m \in Bad : n <= m
    BY <1>2, <1>3, LeastNumber
  <2>2. n \in 0..Len(R) /\ \A b \in Nat : ~Bound(n, b)
    <3> HIDE DEF Bound
    <3> QED BY <1>2
  <2>3. n # 0
    <3>1. Bound(0, 0)
      OBVIOUS
    <3> HIDE DEF Bound
    <3> QED BY <2>2, <3>1
  <2>4. n \in 1..Len(R) /\ n - 1 \in 0..Len(R) /\ n - 1 < n
    <3> HIDE DEF Bound
    <3> QED BY <1>1, <2>2, <2>3
  <2>5. PICK b \in Nat : Bound(n - 1, b)
    <3> HIDE DEF Bound
    <3>1. n - 1 \notin Bad
      BY <1>1, <2>1, <2>4
    <3> QED BY <1>2, <2>4, <3>1
  <2>6. PICK c \in Nat : b <= c /\ (R[n] # None => R[n].prio <= c)
    <3> HIDE DEF Bound
    <3>1. R[n] = None \/ R[n].prio \in Nat
      BY <1>1, <2>4
    <3>2. CASE R[n] = None \/ R[n].prio <= b
      BY <3>2
    <3>3. CASE R[n].prio \in Nat /\ ~(R[n].prio <= b)
      BY <3>3
    <3> QED BY <3>1, <3>2, <3>3
  <2>7. Bound(n, c)
    <3> SUFFICES ASSUME NEW i \in 1..n, R[i] # None PROVE R[i].prio <= c
      OBVIOUS
    <3>1. CASE i = n
      BY <2>6, <3>1
    <3>2. CASE i # n
      <4>1. i \in 1..(n - 1) /\ i \in 1..Len(R)
        BY <1>1, <2>4, <3>2
      <4>2. R[i].prio \in Nat /\ R[i].prio <= b
        BY <1>1, <2>5, <4>1
      <4> QED BY <2>6, <4>2
    <3> QED BY <3>1, <3>2
  <2> QED BY <2>2, <2>7
<1>4. \E b \in Nat : Bound(Len(R), b)
  <2> HIDE DEF Bound
  <2>1. Len(R) \in 0..Len(R) /\ Bad = {}
    BY <1>1, <1>3
  <2> QED BY <1>2, <2>1
<1> QED
  BY <1>1, <1>4

\* The next priority is behind those it was computed from.
LEMMA AfterIs ==
    ASSUME NEW P \in SUBSET Nat, NEW b \in Nat, \A k \in P : k <= b
    PROVE  After(P) \in Nat /\ \A k \in P : k < After(P)
<1>1. CASE P = {}
  BY <1>1 DEF After
<1>2. CASE P # {}
  <2> DEFINE U == {c \in Nat : \A k \in P : k <= c}
  <2>1. PICK c \in U : \A d \in U : c <= d
    <3>1. U \in SUBSET Nat /\ U # {}
      OBVIOUS
    <3> HIDE DEF U
    <3> QED BY <3>1, LeastNumber
  <2>2. c \in Nat /\ \A k \in P : k <= c
    OBVIOUS
  <2>3. c \in P
    <3> SUFFICES ASSUME c \notin P PROVE FALSE
      OBVIOUS
    <3>1. \A k \in P : k \in Nat /\ k <= c /\ k # c
      BY <2>2
    <3> HIDE DEF U
    <3>2. c # 0
      <4>1. PICK k \in P : k \in Nat /\ k <= c /\ k # c
        BY <1>2, <3>1
      <4> QED BY <4>1
    <3>3. c - 1 \in Nat /\ \A k \in P : k <= c - 1
      BY <2>2, <3>1, <3>2
    <3>4. c - 1 \in U
      BY <3>3 DEF U
    <3> QED BY <2>1, <2>2, <3>2, <3>4
  <2> DEFINE m == CHOOSE n \in P : \A k \in P : k <= n
  <2>4. m \in P /\ \A k \in P : k <= m
    BY <2>2, <2>3
  <2>5. After(P) = 1 + m
    BY <1>2 DEF After
  <2> HIDE DEF m, U
  <2> QED BY <2>4, <2>5
<1> QED
  BY <1>1, <1>2

LEMMA BehindTable ==
    ASSUME NEW R \in Table, NEW S \in SUBSET DOMAIN R, \A i \in S : R[i] # None
    PROVE  /\ After({R[i].prio : i \in S}) \in Nat
           /\ \A k \in S : R[k].prio < After({R[i].prio : i \in S})
<1> DEFINE P == {R[i].prio : i \in S}
<1>1. P \in SUBSET Nat
  BY TableIs DEF Row
<1>2. PICK b \in Nat : \A k \in P : k <= b
  BY Bounded
<1>3. \A i \in S : R[i].prio \in P
  OBVIOUS
<1> HIDE DEF P
<1>4. After(P) \in Nat /\ \A k \in P : k < After(P)
  BY <1>1, <1>2, AfterIs
<1> USE DEF P
<1> QED
  BY <1>3, <1>4

-----------------------------------------------------------------------------
(* RuleStore: the seeding of a release                                     *)

\* The tables that Seed goes through, file by file
IsSeeding(S, R, files, n) ==
    S = [p \in 0..n |-> IF p = 0 THEN R ELSE SeedFile(S[p - 1], p - 1, files[p])]

LEMMA SeedingGoesOn ==
    ASSUME NEW S, NEW R, NEW files, NEW n \in Nat, n # 0, IsSeeding(S, R, files, n - 1)
    PROVE  \E T : IsSeeding(T, R, files, n)
<1> DEFINE T == [p \in 0..n |-> IF p = n THEN SeedFile(S[n - 1], n - 1, files[n]) ELSE S[p]]
<1>1. \A p \in 0..(n - 1) : S[p] = IF p = 0 THEN R ELSE SeedFile(S[p - 1], p - 1, files[p])
  BY DEF IsSeeding
<1>2. n - 1 \in Nat /\ n \in 0..n /\ \A p \in 0..n : p = n \/ (p # n /\ p \in 0..(n - 1))
  OBVIOUS
<1>3. T[n] = SeedFile(S[n - 1], n - 1, files[n]) /\ \A p \in 0..(n - 1) : T[p] = S[p]
  BY <1>2
<1>4. \A p \in 0..(n - 1) : p # 0 => p - 1 \in 0..(n - 1)
  BY <1>2
<1>5. DOMAIN T = 0..n /\ T = [p \in 0..n |-> T[p]]
  OBVIOUS
<1> HIDE DEF T
<1>6. \A p \in 0..n : T[p] = IF p = 0 THEN R ELSE SeedFile(T[p - 1], p - 1, files[p])
  <2> SUFFICES ASSUME NEW p \in 0..n
               PROVE  T[p] = IF p = 0 THEN R ELSE SeedFile(T[p - 1], p - 1, files[p])
    OBVIOUS
  <2>1. CASE p = n
    <3>1. T[p - 1] = S[n - 1]
      BY <1>2, <1>3, <2>1
    <3> QED BY <1>2, <1>3, <2>1, <3>1
  <2>2. CASE p # n
    <3>1. p \in 0..(n - 1) /\ T[p] = S[p] /\ (p # 0 => T[p - 1] = S[p - 1])
      BY <1>2, <1>3, <1>4, <2>2
    <3> QED BY <1>1, <3>1
  <2> QED BY <2>1, <2>2
<1> QED
  BY <1>5, <1>6 DEF IsSeeding

LEMMA SeedingExists ==
    ASSUME NEW R, NEW files, NEW len \in Nat
    PROVE  \E S : IsSeeding(S, R, files, len)
<1> DEFINE Bad == {n \in Nat : \A S : ~IsSeeding(S, R, files, n)}
<1> SUFFICES ASSUME Bad # {} PROVE FALSE
  OBVIOUS
<1>1. Bad \in SUBSET Nat /\ \A n \in Nat : n \notin Bad <=> \E S : IsSeeding(S, R, files, n)
  OBVIOUS
<1> HIDE DEF Bad
<1>2. PICK n \in Bad : \A m \in Bad : n <= m
  BY <1>1, LeastNumber
<1>3. n # 0
  <2>1. IsSeeding([p \in 0..0 |-> R], R, files, 0)
    BY DEF IsSeeding
  <2> QED BY <1>1, <2>1
<1>4. n \in Nat /\ n - 1 \in Nat /\ n - 1 < n
  BY <1>1, <1>2, <1>3
<1>5. n - 1 \notin Bad
  BY <1>1, <1>2, <1>4
<1> QED
  BY <1>1, <1>2, <1>3, <1>4, <1>5, SeedingGoesOn

LEMMA SeedSteps ==
    ASSUME NEW R, NEW files, Len(files) \in Nat
    PROVE  \E S : /\ S[0] = R /\ Seed(R, files) = S[Len(files)]
                  /\ \A p \in 1..Len(files) : S[p] = SeedFile(S[p - 1], p - 1, files[p])
<1> DEFINE S == CHOOSE Z : IsSeeding(Z, R, files, Len(files))
<1>1. IsSeeding(S, R, files, Len(files))
  BY SeedingExists
<1>2. Seed(R, files) = S[Len(files)]
  BY DEF Seed, IsSeeding
<1> HIDE DEF S
<1>3. \A p \in 0..Len(files) :
         S[p] = IF p = 0 THEN R ELSE SeedFile(S[p - 1], p - 1, files[p])
  BY <1>1 DEF IsSeeding
<1>4. 0 \in 0..Len(files) /\ \A p \in 1..Len(files) : p \in 0..Len(files) /\ p # 0
  OBVIOUS
<1> QED
  BY <1>2, <1>3, <1>4

\* No default rule is there twice.
Unique(R) ==
    \A i, k \in DOMAIN R :
        (R[i] # None /\ R[k] # None /\ R[i].default /\ R[k].default /\ R[i].name = R[k].name)
           => i = k

\* The default rule of a file is there, as it is in the file.
Holds(R, file) == \E i \in DefaultRows(R, <<file.name>>) : R[i].text = file.text

Current(R, files) == Unique(R) /\ \A p \in DOMAIN files : Holds(R, files[p])

\* What the table T is after p of the files, when the table was R
SoFar(T, R, files, p) ==
    /\ T \in Table /\ Unique(T)
    /\ \A q \in 1..p : Holds(T, files[q])
    /\ Current(R, files) => T = R
    /\ R = <<>> =>
          /\ Len(T) = p
          /\ \A k \in 1..p : T[k] # None /\ T[k].name = <<files[k].name>> /\ T[k].prio = k - 1

LEMMA FileIs ==
    ASSUME NEW v \in DOMAIN Releases, NEW p \in DOMAIN Releases[v]
    PROVE  /\ <<Releases[v][p].name>> \in RowNames /\ Releases[v][p].text \in Texts
           /\ DOMAIN Releases[v] = 1..Len(Releases[v]) /\ Len(Releases[v]) \in Nat
           /\ \A q \in DOMAIN Releases[v] :
                 <<Releases[v][p].name>> = <<Releases[v][q].name>> => p = q
<1>1. Releases[v] \in Seq(Files)
  BY RuleStoreAssumption
<1>2. Releases[v][p] \in Files
  BY <1>1
<1>3. Releases[v][p].name \in Names \cup {file.name : file \in Files} \cup Nat
  BY <1>2
<1>4. <<Releases[v][p].name>> \in RowNames /\ Releases[v][p].text \in Texts
  BY <1>2, <1>3 DEF RowNames, Texts
<1>5. \A q \in DOMAIN Releases[v] : <<Releases[v][p].name>> = <<Releases[v][q].name>> => p = q
  BY RuleStoreAssumption
<1> QED
  BY <1>1, <1>4, <1>5

\* A new row at the end
LEMMA Appended ==
    ASSUME NEW T \in Table, NEW new \in Row
    PROVE  /\ Append(T, new) \in Table /\ Len(Append(T, new)) = Len(T) + 1
           /\ DOMAIN Append(T, new) = DOMAIN T \cup {Len(T) + 1} /\ Len(T) + 1 \notin DOMAIN T
           /\ \A i \in DOMAIN T : Append(T, new)[i] = T[i]
           /\ Append(T, new)[Len(T) + 1] = new /\ new # None
<1> DEFINE S == Row \cup {None}
<1>1. Table = Seq(S) /\ new \in S /\ new # None
  BY RuleStoreAssumption DEF Table
<1> HIDE DEF S
<1> QED
  BY <1>1

LEMMA SeedOne ==
    ASSUME NEW v \in DOMAIN Releases, NEW R, NEW p \in DOMAIN Releases[v], NEW T,
           SoFar(T, R, Releases[v], p - 1)
    PROVE  SoFar(SeedFile(T, p - 1, Releases[v][p]), R, Releases[v], p)
<1> DEFINE files == Releases[v]
           file  == files[p]
           old   == DefaultRows(T, <<file.name>>)
           i     == CHOOSE k \in old : TRUE
           U     == SeedFile(T, p - 1, file)
           new   == [name |-> <<file.name>>, prio |-> p - 1, active |-> TRUE,
                     default |-> TRUE, text |-> file.text]
<1>1. /\ <<file.name>> \in RowNames /\ file.text \in Texts
      /\ DOMAIN files = 1..Len(files) /\ Len(files) \in Nat
      /\ \A q \in DOMAIN files : <<file.name>> = <<files[q].name>> => p = q
  BY FileIs
<1>2. p \in Nat /\ p - 1 \in Nat /\ new \in Row
  BY <1>1 DEF Row
<1>3. T \in Table /\ Unique(T) /\ (Current(R, files) => T = R)
  BY DEF SoFar
<1>4. CASE old = {}
  <2>1. U = Append(T, new)
    BY <1>4 DEF SeedFile
  <2> DEFINE n == Len(T) + 1
  <2>2. /\ U \in Table /\ Len(U) = n /\ DOMAIN U = DOMAIN T \cup {n} /\ n \notin DOMAIN T
        /\ \A k \in DOMAIN T : U[k] = T[k]
        /\ U[n] = new /\ new # None
    <3> HIDE DEF new, U
    <3> QED BY <1>2, <1>3, <2>1, Appended
  <2>3. \A k \in DOMAIN T : ~(T[k] # None /\ T[k].default /\ T[k].name = <<file.name>>)
    BY <1>4 DEF DefaultRows
  <2>4. new.name = <<file.name>> /\ new.default /\ new.text = file.text /\ new.prio = p - 1
    OBVIOUS
  <2> HIDE DEF new, U, n
  <2>5. Unique(U)
    BY <1>3, <2>2, <2>3, <2>4 DEF Unique
  <2>6. \A q \in 1..p : Holds(U, files[q])
    <3> SUFFICES ASSUME NEW q \in 1..p PROVE Holds(U, files[q])
      OBVIOUS
    <3>1. CASE q = p
      BY <2>2, <2>4, <3>1 DEF Holds, DefaultRows
    <3>2. CASE q # p
      <4>1. Holds(T, files[q])
        BY <1>2, <3>2 DEF SoFar
      <4> QED BY <2>2, <4>1 DEF Holds, DefaultRows
    <3> QED BY <3>1, <3>2
  <2>7. ~Current(R, files)
    <3>1. ~Holds(T, file)
      BY <1>4 DEF Holds
    <3> QED BY <1>3, <3>1 DEF Current
  <2>8. ASSUME R = <<>>
        PROVE  /\ Len(U) = p
               /\ \A k \in 1..p : /\ U[k] # None /\ U[k].name = <<files[k].name>>
                                  /\ U[k].prio = k - 1
    <3>1. /\ Len(T) = p - 1
          /\ \A k \in 1..(p - 1) : /\ T[k] # None /\ T[k].name = <<files[k].name>>
                                   /\ T[k].prio = k - 1
      BY <2>8 DEF SoFar
    <3>2. n = p /\ DOMAIN T = 1..(p - 1)
      BY <1>2, <1>3, <3>1, TableIs DEF n
    <3>3. \A k \in 1..p : k = p \/ k \in 1..(p - 1)
      BY <1>2
    <3>4. U[p].name = <<files[p].name>> /\ U[p].prio = p - 1 /\ U[p] # None
      BY <2>2, <2>4, <3>2
    <3>5. ASSUME NEW k \in 1..(p - 1)
          PROVE  U[k] # None /\ U[k].name = <<files[k].name>> /\ U[k].prio = k - 1
      BY <2>2, <3>1, <3>2
    <3> QED BY <2>2, <3>2, <3>3, <3>4, <3>5
  <2>9. SoFar(U, R, files, p)
    BY <2>2, <2>5, <2>6, <2>7, <2>8 DEF SoFar
  <2> QED BY <2>9 DEF U
<1>5. CASE old # {}
  <2>1. /\ i \in DOMAIN T /\ T[i] # None /\ T[i].name = <<file.name>> /\ T[i].default
        /\ \A k \in old : k = i
    BY <1>3, <1>5 DEF DefaultRows, Unique
  <2>2. R # <<>>
    <3> SUFFICES ASSUME R = <<>> PROVE FALSE
      OBVIOUS
    <3>1. /\ Len(T) = p - 1
          /\ \A k \in 1..(p - 1) : T[k].name = <<files[k].name>>
      BY DEF SoFar
    <3> HIDE DEF i, old
    <3>2. i \in 1..(p - 1)
      BY <1>3, <2>1, <3>1, TableIs
    <3>3. i \in DOMAIN files /\ i # p
      BY <1>1, <1>2, <3>2
    <3> QED BY <1>1, <2>1, <3>1, <3>2, <3>3
  <2>3. CASE T[i].text = file.text
    <3>1. U = T
      BY <1>5, <2>3 DEF SeedFile
    <3>2. Holds(T, file)
      BY <2>1, <2>3 DEF Holds, DefaultRows
    <3> HIDE DEF U, i, old
    <3>3. \A q \in 1..p : Holds(U, files[q])
      <4>1. \A q \in 1..p : q = p \/ q \in 1..(p - 1)
        BY <1>2
      <4>2. \A q \in 1..(p - 1) : Holds(T, files[q])
        BY DEF SoFar
      <4> QED BY <3>1, <3>2, <4>1, <4>2
    <3>4. SoFar(U, R, files, p)
      BY <1>3, <2>2, <3>1, <3>3 DEF SoFar
    <3> QED BY <3>4 DEF U
  <2>4. CASE T[i].text # file.text
    <3>1. U = [T EXCEPT ![i].text = file.text, ![i].prio = p - 1]
      BY <1>5, <2>4 DEF SeedFile
    <3> HIDE DEF i, old
    <3>2. T[i] \in Row
      BY <1>3, <2>1, TableIs
    <3>3. /\ DOMAIN U = DOMAIN T /\ \A k \in DOMAIN T : k # i => U[k] = T[k]
          /\ U[i] = [T[i] EXCEPT !.text = file.text, !.prio = p - 1]
          /\ U = [k \in DOMAIN T |-> U[k]]
      BY <2>1, <3>1
    <3> HIDE DEF U
    <3>4. /\ U[i] \in Row /\ U[i] # None /\ U[i].name = T[i].name /\ U[i].default
          /\ U[i].text = file.text
      <4> DEFINE row == T[i]
      <4>1. /\ U[i] = [row EXCEPT !.text = file.text, !.prio = p - 1]
            /\ row \in Row /\ row.name = <<file.name>> /\ row.default
            /\ T[i].name = row.name
        BY <2>1, <3>2, <3>3
      <4> HIDE DEF row
      <4>2. U[i] \in Row /\ U[i].name = row.name /\ U[i].default /\ U[i].text = file.text
        BY <1>1, <1>2, <4>1 DEF Row
      <4> QED BY <4>1, <4>2, RuleStoreAssumption
    <3>5. U \in Table
      <4>1. \A k \in DOMAIN T : U[k] \in Row \cup {None}
        BY <1>3, <3>3, <3>4, TableIs
      <4> QED BY <1>3, <3>3, <4>1, TableIs
    <3>6. Unique(U)
      <4>1. \A k \in DOMAIN T : /\ U[k] # None <=> T[k] # None
                                /\ U[k].name = T[k].name /\ U[k].default = T[k].default
        <5>1. U[i].default = TRUE /\ T[i].default = TRUE
          BY <2>1, <3>2, <3>4 DEF Row
        <5> QED BY <2>1, <3>3, <3>4, <5>1
      <4> QED BY <1>3, <3>3, <4>1 DEF Unique
    <3>7. \A q \in 1..p : Holds(U, files[q])
      <4> SUFFICES ASSUME NEW q \in 1..p PROVE Holds(U, files[q])
        OBVIOUS
      <4>1. CASE q = p
        BY <2>1, <3>3, <3>4, <4>1 DEF Holds, DefaultRows
      <4>2. CASE q # p
        <5>1. q \in 1..(p - 1) /\ q \in DOMAIN files
          BY <1>1, <1>2, <4>2
        <5>2. PICK k \in DefaultRows(T, <<files[q].name>>) : T[k].text = files[q].text
          BY <5>1 DEF SoFar, Holds
        <5>3. k # i
          BY <1>1, <2>1, <4>2, <5>1, <5>2 DEF DefaultRows
        <5> QED BY <3>3, <5>2, <5>3 DEF Holds, DefaultRows
      <4> QED BY <4>1, <4>2
    <3>8. ~Current(R, files)
      <4> SUFFICES ASSUME Current(R, files) PROVE FALSE
        OBVIOUS
      <4>1. Holds(T, file)
        BY <1>3 DEF Current
      <4>2. PICK k \in old : T[k].text = file.text
        BY <4>1 DEF Holds, old
      <4> QED BY <2>1, <2>4, <4>2
    <3>9. SoFar(U, R, files, p)
      BY <2>2, <3>5, <3>6, <3>7, <3>8 DEF SoFar
    <3> QED BY <3>9 DEF U
  <2> QED BY <2>3, <2>4
<1> QED
  BY <1>4, <1>5

\* What seeding a release makes of a table.
LEMMA SeedIs ==
    ASSUME NEW R \in Table, Unique(R), NEW v \in DOMAIN Releases
    PROVE  SoFar(Seed(R, Releases[v]), R, Releases[v], Len(Releases[v]))
<1> DEFINE files == Releases[v]
           len   == Len(files)
<1>1. files \in Seq(Files) /\ len \in Nat /\ DOMAIN files = 1..len
  BY RuleStoreAssumption
<1>2. PICK S : /\ S[0] = R /\ Seed(R, files) = S[len]
               /\ \A p \in 1..len : S[p] = SeedFile(S[p - 1], p - 1, files[p])
  BY <1>1, SeedSteps
<1> DEFINE Bad == {p \in 0..len : ~SoFar(S[p], R, files, p)}
<1>3. Bad \in SUBSET Nat /\ \A p \in 0..len : p \in Bad <=> ~SoFar(S[p], R, files, p)
  BY <1>1
<1> HIDE DEF Bad
<1>4. SoFar(S[0], R, files, 0)
  BY <1>2, EmptySeq DEF SoFar
<1>5. ASSUME Bad # {} PROVE FALSE
  <2>1. PICK p \in Bad : \A q \in Bad : p <= q
    BY <1>3, <1>5, LeastNumber
  <2>2. p \in 0..len
    BY <1>5, <2>1 DEF Bad
  <2>3. p # 0
    BY <1>3, <1>4, <2>1, <2>2
  <2>4. p - 1 \in 0..len /\ p - 1 < p /\ p \in DOMAIN files
    BY <1>1, <2>2, <2>3
  <2>5. p - 1 \notin Bad
    BY <1>1, <2>1, <2>4
  <2>6. SoFar(S[p - 1], R, files, p - 1)
    BY <1>3, <2>4, <2>5
  <2>7. SoFar(SeedFile(S[p - 1], p - 1, files[p]), R, files, p)
    BY <2>4, <2>6, SeedOne
  <2> QED BY <1>1, <1>2, <1>3, <2>1, <2>2, <2>4, <2>7
<1> QED
  BY <1>1, <1>2, <1>3, <1>5

-----------------------------------------------------------------------------
(* RuleStore: the order in which rules run                                 *)

Distinct(R) ==
    \A i, k \in DOMAIN R : R[i] # None /\ R[k] # None /\ i # k =>
        R[i].name # R[k].name /\ R[i].prio # R[k].prio

\* An order runs every active rule, once, by priority.
LEMMA RunOrderIs ==
    ASSUME rows \in Table, NEW s \in RunOrders(Stored)
    PROVE  LET A == Active(Stored) IN
           /\ A \subseteq Stored /\ Cardinality(A) \in Nat
           /\ s \in [1..Cardinality(A) -> A]
           /\ \A m, n \in 1..Cardinality(A) : s[m] = s[n] => m = n
           /\ \A i \in A : \E n \in 1..Cardinality(A) : s[n] = i
           /\ \A m, n \in 1..Cardinality(A) : m < n => rows[s[m]].prio <= rows[s[n]].prio
<1> DEFINE A == Active(Stored)
           len == Cardinality(A)
<1>1. A \subseteq Stored /\ A \subseteq DOMAIN rows
  BY DEF Active, Stored
<1>2. IsFiniteSet(A) /\ len \in Nat
  <2>1. DOMAIN rows = 1..Len(rows) /\ Len(rows) \in Nat
    BY TableIs
  <2>2. IsFiniteSet(DOMAIN rows)
    BY <2>1, FS_Interval
  <2> HIDE DEF A
  <2> QED BY <1>1, <2>2, FS_Subset, FS_CardinalityType
<1>3. /\ s \in SetToAllKPermutations(A) /\ Len(s) = len
      /\ \A m, n \in DOMAIN s : m < n => rows[s[m]].prio <= rows[s[n]].prio
  BY DEF RunOrders
<1> HIDE DEF A
<1>4. PICK B \in SUBSET A : s \in SetToSeqs(B)
  BY <1>3 DEF SetToAllKPermutations
<1>5. s \in [1..Cardinality(B) -> B] /\ \A m, n \in 1..Cardinality(B) : s[m] = s[n] => m = n
  BY <1>4 DEF SetToSeqs
<1>6. IsFiniteSet(B) /\ Cardinality(B) \in Nat
  BY <1>2, FS_Subset, FS_CardinalityType
<1>7. Len(s) = Cardinality(B)
  BY <1>5, <1>6
<1>8. A = B
  BY <1>2, <1>3, <1>7, FS_Subset
<1>9. s \in Injection(1..len, A)
  BY <1>5, <1>8 DEF Injection, IsInjective
<1>10. Cardinality(1..len) = len
  BY <1>2, FS_Interval
<1>11. s \in Surjection(1..len, A)
  BY <1>2, <1>9, <1>10, FS_Injection
<1>12. \A i \in A : \E n \in 1..len : s[n] = i
  BY <1>11 DEF Surjection
<1> QED
  BY <1>1, <1>2, <1>3, <1>5, <1>8, <1>12 DEF A

\* If no two priorities are the same there is one order.
LEMMA OneOrder ==
    ASSUME rows \in Table, Distinct(rows), NEW s \in RunOrders(Stored), NEW t \in RunOrders(Stored)
    PROVE  s = t
<1> DEFINE A == Active(Stored)
           len == Cardinality(A)
           Fits(u) == /\ u \in [1..len -> A]
                      /\ \A m, n \in 1..len : u[m] = u[n] => m = n
                      /\ \A i \in A : \E n \in 1..len : u[n] = i
                      /\ \A m, n \in 1..len : m < n => rows[u[m]].prio < rows[u[n]].prio
           Bad == {n \in 1..len : s[n] # t[n]}
<1>1. A \subseteq Stored /\ len \in Nat
  BY RunOrderIs
<1>2. \A i, k \in A : /\ rows[i].prio \in Nat
                      /\ i # k => rows[i].prio # rows[k].prio
  BY <1>1, TableIs DEF Distinct, Stored, Row
<1>3. ASSUME NEW u \in RunOrders(Stored) PROVE Fits(u)
  <2>1. /\ u \in [1..len -> A] /\ \A m, n \in 1..len : u[m] = u[n] => m = n
        /\ \A i \in A : \E n \in 1..len : u[n] = i
        /\ \A m, n \in 1..len : m < n => rows[u[m]].prio <= rows[u[n]].prio
    BY RunOrderIs
  <2> HIDE DEF A
  <2>2. ASSUME NEW m \in 1..len, NEW n \in 1..len, m < n
        PROVE  rows[u[m]].prio < rows[u[n]].prio
    <3>1. u[m] \in A /\ u[n] \in A /\ u[m] # u[n]
      BY <1>1, <2>1, <2>2
    <3>2. rows[u[m]].prio \in Nat /\ rows[u[n]].prio \in Nat /\ rows[u[m]].prio # rows[u[n]].prio
      BY <1>2, <3>1
    <3> QED BY <2>1, <2>2, <3>2
  <2> QED BY <2>1, <2>2
<1>4. Fits(s) /\ Fits(t)
  BY <1>3
<1> HIDE DEF A
<1>5. ASSUME Bad # {} PROVE FALSE
  <2>1. Bad \in SUBSET Nat /\ Bad \subseteq 1..len
    OBVIOUS
  <2>2. PICK n \in Bad : \A m \in Bad : n <= m
    <3> HIDE DEF Bad
    <3> QED BY <1>5, <2>1, LeastNumber
  <2>3. n \in 1..len /\ s[n] # t[n] /\ \A m \in 1..len : m < n => s[m] = t[m]
    BY <1>1, <2>2
  <2>4. PICK k \in 1..len : t[k] = s[n]
    BY <1>4, <2>3
  <2>5. PICK l \in 1..len : s[l] = t[n]
    BY <1>4, <2>3
  <2> HIDE DEF Bad
  <2>6. n < k
    <3>1. k # n /\ (k < n => s[k] = s[n])
      BY <2>3, <2>4
    <3> QED BY <1>1, <1>4, <2>3, <3>1
  <2>7. n < l
    <3>1. l # n /\ (l < n => t[l] = t[n])
      BY <2>3, <2>5
    <3> QED BY <1>1, <1>4, <2>3, <3>1
  <2>8. rows[t[n]].prio < rows[s[n]].prio
    BY <1>4, <2>3, <2>4, <2>6
  <2>9. rows[s[n]].prio < rows[t[n]].prio
    BY <1>4, <2>3, <2>5, <2>7
  <2>10. rows[s[n]].prio \in Nat /\ rows[t[n]].prio \in Nat
    BY <1>2, <1>4, <2>3
  <2> QED BY <2>8, <2>9, <2>10
<1>6. \A n \in 1..len : s[n] = t[n]
  BY <1>5
<1>7. s \in [1..len -> A] /\ t \in [1..len -> A]
  BY <1>4
<1> HIDE DEF len, Fits, Bad
<1>8. s = [n \in 1..len |-> s[n]] /\ t = [n \in 1..len |-> t[n]]
  BY <1>7
<1>9. [n \in 1..len |-> s[n]] = [n \in 1..len |-> t[n]]
  BY <1>6
<1> QED
  BY <1>8, <1>9

-----------------------------------------------------------------------------
(* RuleStore: the types                                                    *)

Statements == {"idle", "check", "find_free", "max", "insert", "check_rename", "save",
               "reorder", "delete", "find_tested", "trace", "run"}

Locals == [id : Nat \cup {None}, name : RowNames \cup {None}, active : BOOLEAN \cup {None},
           text : Texts \cup {None}, prio : Nat, old : Row \cup Table \cup {None},
           order : Seq(Nat), lone : BOOLEAN]

\* A request that makes or renames a rule has a name that can be a row's, and one that
\* counts up has a number at its end; it has a text for a row that it makes.
Named(r) ==
    /\ pc[r] \in {"check", "max", "insert"} => req[r].name \in RowNames
    /\ pc[r] \in {"check", "max", "insert", "find_free"} => req[r].text \in Texts
    /\ pc[r] = "find_free" =>
          \E base \in RowNames, k \in Nat : req[r].name = Append(base, k)

\* A request works on a row that was there, and an update on one that it has loaded.
\* Of a default rule nothing but the active flag will be changed.
Edits(r) ==
    /\ pc[r] \in {"check_rename", "save"} =>
          /\ req[r].id \in DOMAIN rows /\ req[r].old \in Row
          /\ rows[req[r].id] # None => rows[req[r].id].default = req[r].old.default
          /\ req[r].old.default => req[r].name = None /\ req[r].text = None
    /\ pc[r] = "delete" =>
          /\ req[r].id \in DOMAIN rows
          /\ rows[req[r].id] # None => ~rows[req[r].id].default

\* A reorder has loaded the default rules as they are, and names user rules, each once.
\* The priorities it has loaded hold until another reorder commits.
Orders(r) ==
    pc[r] = "reorder" =>
        /\ req[r].old \in Table /\ DOMAIN req[r].old \subseteq DOMAIN rows
        /\ \A i \in DOMAIN rows :
              rows[i] # None /\ (i \in DOMAIN req[r].old \/ rows[i].default) =>
                 /\ i \in DOMAIN req[r].old /\ req[r].old[i] # None
                 /\ req[r].old[i].default = rows[i].default
                 /\ req[r].lone \/ rows[i].default => req[r].old[i].prio = rows[i].prio
        /\ IsInjective(req[r].order)
        /\ \A n \in DOMAIN req[r].order : \A i \in {req[r].order[n]} :
              i \in DOMAIN req[r].old /\ req[r].old[i] # None /\ ~req[r].old[i].default

StoreTypeOK ==
    /\ rows \in Table
    /\ up \in BOOLEAN /\ release \in {0} \cup DOMAIN Releases
    /\ pc \in [Requests -> Statements] /\ req \in [Requests -> Locals]
    /\ changes \in Nat /\ starts \in Nat
    /\ mixed \in BOOLEAN /\ asked \in Seq(Nat)
    /\ ~up => \A r \in Requests : pc[r] = "idle"
    /\ \A r \in Requests : Named(r) /\ Edits(r) /\ Orders(r)

\* What a request that nobody met carries: a name that is free, a priority behind all
\* others, what is in the table, the one order in which the rules run.
Exact(r) ==
    /\ pc[r] \in {"max", "insert"} => ~Taken(req[r].name)
    /\ pc[r] = "insert" => \A i \in Stored : rows[i].prio < req[r].prio
    /\ pc[r] = "save" /\ req[r].name # None => ~Taken(req[r].name)
    /\ pc[r] = "reorder" => req[r].old = rows /\ req[r].lone
    /\ pc[r] = "run" => RunOrders(Stored) = {req[r].order}

\* What requests do to the rows: default rows keep name, text and priority, a row keeps
\* its flag until it is deleted, and what is added is a user's.
Grows ==
    /\ rows' \in Table /\ DOMAIN rows \subseteq DOMAIN rows'
    /\ \A i \in DOMAIN rows :
          /\ rows'[i] # None => rows[i] # None /\ rows'[i].default = rows[i].default
          /\ rows[i] # None /\ rows[i].default =>
                /\ rows'[i] # None /\ rows'[i].name = rows[i].name
                /\ rows'[i].text = rows[i].text /\ rows'[i].prio = rows[i].prio
    /\ \A i \in DOMAIN rows' \ DOMAIN rows : rows'[i] # None /\ ~rows'[i].default

SamePrios == \A i \in DOMAIN rows : rows'[i] # None => rows'[i].prio = rows[i].prio

\* It is r's turn: the others stay where they are.
Turn(r) ==
    /\ up /\ UNCHANGED <<up, release, starts>>
    /\ changes' \in Nat /\ mixed' \in BOOLEAN /\ (mixed => mixed') /\ asked' \in Seq(Nat)
    /\ pc' \in [Requests -> Statements] /\ req' \in [Requests -> Locals]
    /\ Grows
    /\ \A q \in Requests \ {r} :
          /\ pc'[q] = pc[q]
          /\ req'[q].id = req[q].id /\ req'[q].name = req[q].name
          /\ req'[q].text = req[q].text /\ req'[q].old = req[q].old
          /\ req'[q].order = req[q].order
          /\ req'[q].lone => req[q].lone /\ SamePrios

\* Then what holds of the others holds still.
LEMMA OthersStay ==
    ASSUME StoreTypeOK, NEW r \in Requests, Turn(r), Named(r)', Edits(r)', Orders(r)'
    PROVE  StoreTypeOK'
<1>1. ASSUME NEW q \in Requests \ {r} PROVE Named(q)' /\ Edits(q)' /\ Orders(q)'
  <2>1. Named(q) /\ Edits(q) /\ Orders(q)
    BY DEF StoreTypeOK
  <2>2. /\ pc'[q] = pc[q]
        /\ req'[q].id = req[q].id /\ req'[q].name = req[q].name
        /\ req'[q].text = req[q].text /\ req'[q].old = req[q].old
        /\ req'[q].order = req[q].order
        /\ req'[q].lone => req[q].lone /\ SamePrios
        /\ Grows
    BY DEF Turn
  <2>3. Named(q)'
    BY <2>1, <2>2 DEF Named
  <2>4. Edits(q)'
    BY <2>1, <2>2 DEF Edits, Grows
  <2>5. Orders(q)'
    <3> SUFFICES ASSUME pc[q] = "reorder" PROVE Orders(q)'
      BY <2>2 DEF Orders
    <3>1. /\ req[q].old \in Table /\ DOMAIN req[q].old \subseteq DOMAIN rows
          /\ IsInjective(req[q].order)
          /\ \A n \in DOMAIN req[q].order : \A i \in {req[q].order[n]} :
                i \in DOMAIN req[q].old /\ req[q].old[i] # None /\ ~req[q].old[i].default
      BY <2>1 DEF Orders
    <3>2. ASSUME NEW i \in DOMAIN rows', rows'[i] # None,
                 i \in DOMAIN req[q].old \/ rows'[i].default
          PROVE  /\ i \in DOMAIN req[q].old /\ req[q].old[i] # None
                 /\ req[q].old[i].default = rows'[i].default
                 /\ req'[q].lone \/ rows'[i].default => req[q].old[i].prio = rows'[i].prio
      <4>1. i \in DOMAIN rows /\ rows[i] # None /\ rows'[i].default = rows[i].default
        BY <2>2, <3>1, <3>2 DEF Grows
      <4>2. /\ i \in DOMAIN req[q].old /\ req[q].old[i] # None
            /\ req[q].old[i].default = rows[i].default
            /\ req[q].lone \/ rows[i].default => req[q].old[i].prio = rows[i].prio
        BY <2>1, <3>2, <4>1 DEF Orders
      <4>3. rows[i].default => rows'[i].prio = rows[i].prio
        BY <2>2, <4>1 DEF Grows
      <4>4. req'[q].lone => req[q].lone /\ rows'[i].prio = rows[i].prio
        BY <2>2, <3>2, <4>1 DEF SamePrios
      <4> QED BY <4>1, <4>2, <4>3, <4>4
    <3>3. DOMAIN req[q].old \subseteq DOMAIN rows'
      BY <2>2, <3>1 DEF Grows
    <3> QED BY <2>2, <3>1, <3>2, <3>3 DEF Orders
  <2> QED BY <2>3, <2>4, <2>5
<1>2. \A q \in Requests : Named(q)' /\ Edits(q)' /\ Orders(q)'
  BY <1>1
<1>3. /\ rows' \in Table /\ up' \in BOOLEAN /\ release' \in {0} \cup DOMAIN Releases
      /\ pc' \in [Requests -> Statements] /\ req' \in [Requests -> Locals]
      /\ changes' \in Nat /\ starts' \in Nat
      /\ mixed' \in BOOLEAN /\ asked' \in Seq(Nat)
      /\ ~up' => \A q \in Requests : pc'[q] = "idle"
  BY DEF Turn, Grows, StoreTypeOK
<1> QED
  BY <1>2, <1>3 DEF StoreTypeOK

\* Almost every step moves one request and gives it other locals.
Moves(r, l, locals) ==
    /\ pc' = [pc EXCEPT ![r] = l]
    /\ req' = [req EXCEPT ![r] = locals]

LEMMA MovesIsTurn ==
    ASSUME StoreTypeOK, NEW r \in Requests, NEW l \in Statements, NEW locals \in Locals,
           Moves(r, l, locals), up, UNCHANGED <<up, release, starts>>, Grows, SamePrios,
           changes' \in Nat, mixed' \in BOOLEAN, mixed => mixed', asked' \in Seq(Nat)
    PROVE  /\ Turn(r) /\ pc'[r] = l /\ req'[r] = locals
           /\ \A q \in Requests \ {r} : pc'[q] = pc[q] /\ req'[q] = req[q]
<1>1. pc \in [Requests -> Statements] /\ req \in [Requests -> Locals]
  BY DEF StoreTypeOK
<1>2. /\ pc' \in [Requests -> Statements] /\ req' \in [Requests -> Locals]
      /\ pc'[r] = l /\ req'[r] = locals
      /\ \A q \in Requests \ {r} : pc'[q] = pc[q] /\ req'[q] = req[q]
  BY <1>1 DEF Moves
<1> QED
  BY <1>2 DEF Turn

LEMMA RowsStay ==
    ASSUME StoreTypeOK, UNCHANGED rows
    PROVE  Grows /\ SamePrios
BY DEF StoreTypeOK, Grows, SamePrios

LEMMA NothingIs ==
    Nothing \in Locals
BY EmptySeq DEF Nothing, Locals

\* A request begins.
LEMMA Begins ==
    ASSUME StoreTypeOK, NEW r \in Requests, NEW l \in Statements, NEW locals \in Locals,
           Idle(r), Begin(r, l, locals)
    PROVE  /\ Turn(r) /\ UNCHANGED rows /\ UNCHANGED asked
           /\ pc'[r] = l /\ req'[r] = locals
           /\ \A q \in Requests \ {r} : pc'[q] = pc[q] /\ req'[q] = req[q]
           /\ mixed' = (mixed \/ \E q \in Requests : pc[q] # "idle")
<1>1. Moves(r, l, locals) /\ up /\ UNCHANGED <<up, release, starts, rows, asked>>
      /\ changes' \in Nat /\ mixed' \in BOOLEAN /\ (mixed => mixed')
      /\ mixed' = (mixed \/ \E q \in Requests : pc[q] # "idle")
  BY DEF Begin, Idle, Goto, Moves, StoreTypeOK
<1>2. asked' \in Seq(Nat) /\ Grows /\ SamePrios
  BY <1>1, RowsStay DEF StoreTypeOK
<1> QED
  BY <1>1, <1>2, MovesIsTurn

\* A statement in the middle of a request.
LEMMA Continues ==
    ASSUME StoreTypeOK, NEW r \in Requests, NEW l \in Statements, NEW locals \in Locals,
           pc[r] # "idle", Moves(r, l, locals), Grows, SamePrios,
           UNCHANGED <<up, release, changes, starts, mixed, asked>>
    PROVE  /\ Turn(r) /\ pc'[r] = l /\ req'[r] = locals
           /\ \A q \in Requests \ {r} : pc'[q] = pc[q] /\ req'[q] = req[q]
<1>1. up /\ changes \in Nat /\ mixed \in BOOLEAN /\ asked \in Seq(Nat)
  BY DEF StoreTypeOK
<1> QED
  BY <1>1, MovesIsTurn

\* A request that stays where it is, or keeps its locals, moves in this sense too.
LEMMA MovesTo ==
    ASSUME StoreTypeOK, NEW r \in Requests, NEW l
    PROVE  /\ pc[r] \in Statements /\ req[r] \in Locals
           /\ Goto(r, l) /\ UNCHANGED req => Moves(r, l, req[r])
           /\ Answer(r) => Moves(r, "idle", Nothing)
           /\ \A locals : UNCHANGED pc /\ req' = [req EXCEPT ![r] = locals]
                             => Moves(r, pc[r], locals)
           /\ \A locals : Goto(r, l) /\ req' = [req EXCEPT ![r] = locals] => Moves(r, l, locals)
BY DEF StoreTypeOK, Moves, Goto, Answer

\* A write takes over the columns that were changed.
LEMMA WriteIs ==
    ASSUME NEW now \in Row, NEW old \in Row, NEW new \in Row
    PROVE  /\ Write(now, old, new) \in Row
           /\ Write(now, old, new).name = IF new.name = old.name THEN now.name ELSE new.name
           /\ Write(now, old, new).prio = IF new.prio = old.prio THEN now.prio ELSE new.prio
           /\ Write(now, old, new).text = IF new.text = old.text THEN now.text ELSE new.text
           /\ Write(now, old, new).default =
                  IF new.default = old.default THEN now.default ELSE new.default
<1> DEFINE W == Write(now, old, new)
<1>1. DOMAIN now = {"name", "prio", "active", "default", "text"}
  BY DEF Row
<1>2. /\ DOMAIN W = {"name", "prio", "active", "default", "text"}
      /\ W.name = IF new.name = old.name THEN now.name ELSE new.name
      /\ W.prio = IF new.prio = old.prio THEN now.prio ELSE new.prio
      /\ W.text = IF new.text = old.text THEN now.text ELSE new.text
      /\ W.active = IF new.active = old.active THEN now.active ELSE new.active
      /\ W.default = IF new.default = old.default THEN now.default ELSE new.default
  BY <1>1 DEF Write
<1>3. W = [c \in {"name", "prio", "active", "default", "text"} |-> W[c]]
  BY <1>1 DEF Write
<1> HIDE DEF W
<1>4. W.name \in RowNames /\ W.prio \in Nat /\ W.text \in Texts /\ W.active \in BOOLEAN
      /\ W.default \in BOOLEAN
  BY <1>2 DEF Row
<1>5. W = [name |-> W.name, prio |-> W.prio, active |-> W.active, default |-> W.default,
           text |-> W.text]
  BY <1>3
<1>6. W \in Row
  BY <1>4, <1>5 DEF Row
<1> QED
  BY <1>2, <1>6 DEF W

\* A row that is written over
LEMMA Replaced ==
    ASSUME NEW i \in DOMAIN rows, rows \in Table, NEW x \in Row \cup {None},
           rows' = [rows EXCEPT ![i] = x]
    PROVE  /\ rows' \in Table /\ DOMAIN rows' = DOMAIN rows
           /\ rows'[i] = x /\ \A k \in DOMAIN rows \ {i} : rows'[k] = rows[k]
<1>1. DOMAIN rows' = DOMAIN rows /\ rows' = [k \in DOMAIN rows |-> rows'[k]]
      /\ rows'[i] = x /\ \A k \in DOMAIN rows \ {i} : rows'[k] = rows[k]
  BY DEF Table
<1>2. \A k \in DOMAIN rows : rows'[k] \in Row \cup {None}
  BY <1>1, TableIs
<1> QED
  BY <1>1, <1>2, TableIs

LEMMA InsertGrows ==
    ASSUME StoreTypeOK, NEW r \in Requests, Insert(r)
    PROVE  /\ Grows /\ SamePrios
           /\ DOMAIN rows' = DOMAIN rows \cup {Len(rows) + 1} /\ Len(rows) + 1 \notin DOMAIN rows
           /\ \A i \in DOMAIN rows : rows'[i] = rows[i]
           /\ rows'[Len(rows) + 1].name = req[r].name
           /\ rows'[Len(rows) + 1].prio = req[r].prio
           /\ ~rows'[Len(rows) + 1].default
<1> DEFINE new == [name |-> req[r].name, prio |-> req[r].prio, active |-> TRUE,
                   default |-> FALSE, text |-> req[r].text]
<1>1. rows' = Append(rows, new) /\ rows \in Table /\ pc[r] = "insert"
  BY DEF Insert, StoreTypeOK
<1>2. req[r].name \in RowNames /\ req[r].text \in Texts /\ req[r].prio \in Nat
  BY <1>1 DEF StoreTypeOK, Named, Locals
<1>3. new \in Row
  BY <1>2 DEF Row
<1>4. new.name = req[r].name /\ new.prio = req[r].prio /\ ~new.default
  OBVIOUS
<1> HIDE DEF new
<1>5. /\ rows' \in Table /\ Len(rows') = Len(rows) + 1
      /\ DOMAIN rows' = DOMAIN rows \cup {Len(rows) + 1} /\ Len(rows) + 1 \notin DOMAIN rows
      /\ \A i \in DOMAIN rows : rows'[i] = rows[i]
      /\ rows'[Len(rows) + 1] = new /\ new # None
  BY <1>1, <1>3, Appended
<1>6. Grows /\ SamePrios
  BY <1>4, <1>5 DEF Grows, SamePrios
<1> QED
  BY <1>4, <1>5, <1>6

LEMMA SaveGrows ==
    ASSUME StoreTypeOK, NEW r \in Requests, Save(r)
    PROVE  /\ Grows /\ SamePrios /\ DOMAIN rows' = DOMAIN rows
           /\ \A i \in DOMAIN rows : rows'[i] # None =>
                 /\ rows[i] # None
                 /\ \/ rows'[i].name = rows[i].name
                    \/ i = req[r].id /\ req[r].name # None /\ rows'[i].name = req[r].name
<1> DEFINE q   == req[r]
           old == q.old
           Or(v, w) == IF v = None THEN w ELSE v
           new == [old EXCEPT !.name = Or(q.name, old.name), !.active = Or(q.active, old.active),
                              !.text = Or(q.text, old.text)]
           i   == q.id
<1>1. /\ pc[r] = "save" /\ rows \in Table
      /\ IF rows[i] = None THEN UNCHANGED rows
         ELSE rows' = [rows EXCEPT ![i] = Write(rows[i], old, new)]
  BY DEF Save, StoreTypeOK
<1>2. /\ i \in DOMAIN rows /\ old \in Row
      /\ rows[i] # None => rows[i].default = old.default
      /\ old.default => q.name = None /\ q.text = None
      /\ q.name \in RowNames \cup {None} /\ q.active \in BOOLEAN \cup {None}
      /\ q.text \in Texts \cup {None}
  BY <1>1 DEF StoreTypeOK, Edits, Locals
<1>3. /\ new \in Row /\ new.prio = old.prio /\ new.default = old.default
      /\ new.name = Or(q.name, old.name) /\ new.text = Or(q.text, old.text)
  <2> HIDE DEF q, old, i
  <2> QED BY <1>2 DEF Row
<1> HIDE DEF new, old, q, i
<1>4. CASE rows[i] = None
  <2>1. rows' = rows
    BY <1>1, <1>4
  <2>2. Grows /\ SamePrios
    BY <2>1, RowsStay
  <2> QED BY <2>1, <2>2
<1>5. CASE rows[i] # None
  <2>1. rows[i] \in Row
    BY <1>1, <1>2, <1>5, TableIs
  <2> DEFINE W == Write(rows[i], old, new)
  <2>2. /\ W \in Row /\ W.prio = rows[i].prio /\ W.default = rows[i].default
        /\ W.name = IF new.name = old.name THEN rows[i].name ELSE new.name
        /\ W.text = IF new.text = old.text THEN rows[i].text ELSE new.text
    BY <1>2, <1>3, <2>1, WriteIs
  <2>3. rows' = [rows EXCEPT ![i] = W]
    BY <1>1, <1>5
  <2> HIDE DEF W
  <2>4. /\ rows' \in Table /\ DOMAIN rows' = DOMAIN rows
        /\ rows'[i] = W /\ \A k \in DOMAIN rows \ {i} : rows'[k] = rows[k]
    BY <1>1, <1>2, <2>2, <2>3, Replaced
  <2>5. W # None /\ (W.name = rows[i].name \/ (q.name # None /\ W.name = q.name))
    BY <1>3, <2>2, RuleStoreAssumption
  <2>6. rows[i].default => W.name = rows[i].name /\ W.text = rows[i].text
    BY <1>2, <1>3, <1>5, <2>2
  <2>7. Grows
    BY <1>2, <1>5, <2>2, <2>4, <2>5, <2>6 DEF Grows
  <2>8. SamePrios
    BY <2>2, <2>4 DEF SamePrios
  <2> QED BY <1>5, <2>4, <2>5, <2>7, <2>8 DEF q, i
<1> QED
  BY <1>4, <1>5

LEMMA DiscardGrows ==
    ASSUME StoreTypeOK, NEW r \in Requests, Discard(r)
    PROVE  /\ Grows /\ SamePrios /\ DOMAIN rows' = DOMAIN rows
           /\ \A k \in DOMAIN rows : rows'[k] # None => rows'[k] = rows[k]
<1>1. pc[r] = "delete" /\ rows \in Table /\ rows' = [rows EXCEPT ![req[r].id] = None]
  BY DEF Discard, StoreTypeOK
<1>2. /\ req[r].id \in DOMAIN rows
      /\ rows[req[r].id] # None => ~rows[req[r].id].default
  BY <1>1 DEF StoreTypeOK, Edits
<1>3. /\ rows' \in Table /\ DOMAIN rows' = DOMAIN rows /\ rows'[req[r].id] = None
      /\ \A k \in DOMAIN rows \ {req[r].id} : rows'[k] = rows[k]
  BY <1>1, <1>2, Replaced
<1> QED
  BY <1>2, <1>3 DEF Grows, SamePrios

\* Behind the default rules of a table
LEMMA BehindIs ==
    ASSUME NEW R \in Table
    PROVE  /\ Behind(R) \in Nat
           /\ \A i \in DOMAIN R : R[i] # None /\ R[i].default => R[i].prio < Behind(R)
<1> DEFINE S == {k \in DOMAIN R : R[k] # None /\ R[k].default}
<1>1. S \in SUBSET DOMAIN R /\ \A i \in S : R[i] # None
  OBVIOUS
<1>2. Behind(R) = After({R[i].prio : i \in S})
  BY DEF Behind
<1>3. \A i \in DOMAIN R : R[i] # None /\ R[i].default => i \in S
  OBVIOUS
<1> HIDE DEF S
<1> QED
  BY <1>1, <1>2, <1>3, BehindTable

\* What the n-th rule of an order gets, and that others keep theirs.
LEMMA RenumberIs ==
    ASSUME NEW R \in Table, NEW s \in Seq(Nat), IsInjective(s),
           \A n \in DOMAIN s : \A i \in {s[n]} : i \in DOMAIN R /\ R[i] # None
    PROVE  /\ \A i \in DOMAIN R : i \notin Range(s) => Renumber(R, s)[i] = R[i]
           /\ \A n \in DOMAIN s : \A i \in {s[n]} :
                 /\ Renumber(R, s)[i] \in Row /\ Renumber(R, s)[i].prio = Behind(R) + n - 1
                 /\ Renumber(R, s)[i].name = R[i].name
                 /\ Renumber(R, s)[i].text = R[i].text
                 /\ Renumber(R, s)[i].default = R[i].default
<1>1. \A i \in DOMAIN R : i \notin Range(s) => Renumber(R, s)[i] = R[i]
  BY DEF Renumber
<1>2. ASSUME NEW n \in DOMAIN s
      PROVE  \A i \in {s[n]} :
                 /\ Renumber(R, s)[i] \in Row /\ Renumber(R, s)[i].prio = Behind(R) + n - 1
                 /\ Renumber(R, s)[i].name = R[i].name
                 /\ Renumber(R, s)[i].text = R[i].text
                 /\ Renumber(R, s)[i].default = R[i].default
  <2> DEFINE i == s[n]
  <2>1. i \in Range(s) /\ i \in DOMAIN R /\ R[i] # None
    BY DEF Range
  <2>2. Place(s, i) = n
    BY DEF Place, IsInjective
  <2>3. R[i] \in Row
    BY <2>1, TableIs
  <2>4. Behind(R) \in Nat /\ n \in Nat /\ n >= 1
    BY BehindIs
  <2> HIDE DEF i
  <2>5. Renumber(R, s)[i] = [R[i] EXCEPT !.prio = Behind(R) + n - 1]
    BY <2>1, <2>2 DEF Renumber
  <2> DEFINE p == Behind(R) + n - 1
  <2>6. p \in Nat
    BY <2>4
  <2> HIDE DEF p
  <2>7. /\ [R[i] EXCEPT !.prio = p] \in Row /\ [R[i] EXCEPT !.prio = p].prio = p
        /\ [R[i] EXCEPT !.prio = p].name = R[i].name
        /\ [R[i] EXCEPT !.prio = p].text = R[i].text
        /\ [R[i] EXCEPT !.prio = p].default = R[i].default
    BY <2>3, <2>6 DEF Row
  <2> QED BY <2>5, <2>7 DEF i, p
<1> QED
  BY <1>1, <1>2

\* A reorder that commits: the rules it names that are still there get consecutive
\* priorities, unless another reorder committed meanwhile.
Committed(r) ==
    /\ DOMAIN rows' = DOMAIN rows
    /\ \A i \in DOMAIN rows :
          /\ rows'[i] # None <=> rows[i] # None
          /\ rows[i] # None => rows'[i].name = rows[i].name
          /\ i \notin Range(req[r].order) => rows'[i] = rows[i]
    /\ \A n \in DOMAIN req[r].order : \A i \in {req[r].order[n]} :
          rows[i] # None /\ req[r].lone => rows'[i].prio = Behind(req[r].old) + n - 1
    /\ mixed' = (mixed \/ ~(UserRules \subseteq Range(req[r].order)))
    /\ asked' = IF req[r].lone THEN req[r].order ELSE <<>>
    /\ req' = [p \in Requests |-> IF p = r THEN Nothing ELSE [req[p] EXCEPT !.lone = FALSE]]

LEMMA SaveOrderGrows ==
    ASSUME StoreTypeOK, NEW r \in Requests, SaveOrder(r)
    PROVE  /\ Grows /\ pc[r] = "reorder"
           /\ \/ /\ UNCHANGED <<rows, mixed, asked>>
                 /\ req' = [req EXCEPT ![r] = Nothing]
              \/ Committed(r)
<1> DEFINE q   == req[r]
           old == q.old
           s   == q.order
           new == Renumber(old, s)
           changed == {i \in Range(s) : new[i] # old[i]}
<1>1. /\ pc[r] = "reorder" /\ rows \in Table
      /\ \/ /\ req' = [req EXCEPT ![r] = Nothing]
            /\ UNCHANGED <<rows, mixed, asked>>
         \/ /\ rows' = [i \in DOMAIN rows |->
                           IF i \in changed \cap Stored
                           THEN Write(rows[i], old[i], new[i]) ELSE rows[i]]
            /\ mixed' = (mixed \/ ~(UserRules \subseteq Range(s)))
            /\ asked' = IF q.lone THEN s ELSE <<>>
            /\ req' = [p \in Requests |-> IF p = r THEN Nothing
                                          ELSE [req[p] EXCEPT !.lone = FALSE]]
  BY DEF SaveOrder, StoreTypeOK
<1>2. /\ old \in Table /\ DOMAIN old \subseteq DOMAIN rows /\ IsInjective(s) /\ s \in Seq(Nat)
      /\ \A i \in DOMAIN rows : rows[i] # None /\ i \in DOMAIN old =>
            /\ old[i] # None /\ old[i].default = rows[i].default
            /\ q.lone => old[i].prio = rows[i].prio
      /\ \A n \in DOMAIN s : \A i \in {s[n]} :
            i \in DOMAIN old /\ old[i] # None /\ ~old[i].default
  BY <1>1 DEF StoreTypeOK, Orders, Locals
<1> HIDE DEF q, old, s
<1>3. /\ \A n \in DOMAIN s : \A i \in {s[n]} :
            /\ new[i] \in Row /\ new[i].prio = Behind(old) + n - 1
            /\ new[i].name = old[i].name /\ new[i].text = old[i].text
            /\ new[i].default = old[i].default
  <2>1. \A n \in DOMAIN s : \A i \in {s[n]} : i \in DOMAIN old /\ old[i] # None
    BY <1>2
  <2>2. new = Renumber(old, s)
    OBVIOUS
  <2> HIDE DEF new
  <2>3. \A n \in DOMAIN s : \A i \in {s[n]} :
            /\ Renumber(old, s)[i] \in Row
            /\ Renumber(old, s)[i].prio = Behind(old) + n - 1
            /\ Renumber(old, s)[i].name = old[i].name
            /\ Renumber(old, s)[i].text = old[i].text
            /\ Renumber(old, s)[i].default = old[i].default
    BY <1>2, <2>1, RenumberIs
  <2> QED BY <2>2, <2>3
<1> HIDE DEF new
<1>4. CASE UNCHANGED <<rows, mixed, asked>> /\ req' = [req EXCEPT ![r] = Nothing]
  BY <1>1, <1>4, RowsStay
<1>5. CASE /\ rows' = [i \in DOMAIN rows |->
                           IF i \in changed \cap Stored
                           THEN Write(rows[i], old[i], new[i]) ELSE rows[i]]
           /\ mixed' = (mixed \/ ~(UserRules \subseteq Range(s)))
           /\ asked' = IF q.lone THEN s ELSE <<>>
           /\ req' = [p \in Requests |-> IF p = r THEN Nothing
                                          ELSE [req[p] EXCEPT !.lone = FALSE]]
  <2>1. ASSUME NEW i \in changed \cap Stored
        PROVE  /\ rows'[i] \in Row /\ i \in DOMAIN rows /\ rows[i] # None /\ ~rows[i].default
               /\ rows'[i].name = rows[i].name /\ rows'[i].default = rows[i].default
               /\ q.lone => rows'[i].prio = new[i].prio
    <3>1. i \in DOMAIN rows /\ rows[i] # None /\ rows[i] \in Row
      BY <1>1, TableIs DEF Stored
    <3>2. PICK n \in DOMAIN s : i = s[n]
      BY DEF Range
    <3>3. /\ i \in DOMAIN old /\ old[i] # None /\ ~old[i].default
          /\ old[i].default = rows[i].default /\ (q.lone => old[i].prio = rows[i].prio)
      BY <1>2, <3>1, <3>2
    <3>4. /\ new[i] \in Row /\ new[i].name = old[i].name /\ new[i].text = old[i].text
          /\ new[i].default = old[i].default /\ old[i] \in Row
      BY <1>2, <1>3, <3>2, <3>3, TableIs
    <3>5. rows'[i] = Write(rows[i], old[i], new[i])
      BY <1>5, <3>1
    <3> QED BY <3>1, <3>3, <3>4, <3>5, WriteIs
  <2>2. \A i \in DOMAIN rows : i \notin changed \cap Stored => rows'[i] = rows[i]
    BY <1>5
  <2>3. DOMAIN rows' = DOMAIN rows /\ rows' = [i \in DOMAIN rows |-> rows'[i]]
    BY <1>5
  <2>4. changed \subseteq Range(s)
    OBVIOUS
  <2>5. rows' \in Table
    <3>1. \A i \in DOMAIN rows : rows'[i] \in Row \cup {None}
      BY <1>1, <2>1, <2>2, TableIs
    <3> QED BY <1>1, <2>3, <3>1, TableIs
  <2>6. ASSUME NEW n \in DOMAIN s, rows[s[n]] # None, q.lone
        PROVE  rows'[s[n]].prio = Behind(old) + n - 1
    <3> DEFINE i == s[n]
    <3>1. i \in Range(s) /\ i \in DOMAIN rows /\ i \in Stored /\ i \in DOMAIN old
      BY <1>2, <2>6 DEF Range, Stored
    <3>2. new[i].prio = Behind(old) + n - 1
      BY <1>3
    <3>3. CASE i \in changed
      BY <2>1, <2>6, <3>1, <3>2, <3>3
    <3>4. CASE i \notin changed
      <4>1. new[i] = old[i] /\ rows'[i] = rows[i]
        BY <2>2, <3>1, <3>4
      <4> QED BY <1>2, <2>6, <3>1, <3>2, <4>1
    <3> QED BY <3>3, <3>4
  <2> HIDE DEF changed
  <2>7. \A i \in changed \cap Stored : rows'[i] # None
    BY <2>1, RuleStoreAssumption
  <2>8. Grows
    BY <2>1, <2>2, <2>3, <2>5, <2>7 DEF Grows
  <2>9. /\ \A i \in DOMAIN rows :
              /\ rows'[i] # None <=> rows[i] # None
              /\ rows[i] # None => rows'[i].name = rows[i].name
              /\ i \notin Range(s) => rows'[i] = rows[i]
    BY <2>1, <2>2, <2>4, <2>7
  <2>10. \A n \in DOMAIN s : \A i \in {s[n]} :
            rows[i] # None /\ q.lone => rows'[i].prio = Behind(old) + n - 1
    BY <2>6
  <2>11. Committed(r)
    BY <1>5, <2>3, <2>9, <2>10 DEF Committed, q, old, s
  <2> QED BY <1>1, <2>8, <2>11
<1> QED
  BY <1>1, <1>4, <1>5

\* A name of a copy, and the next one
LEMMA CopyIs ==
    ASSUME NEW base \in RowNames, NEW k \in Nat
    PROVE  /\ Append(base, k) \in RowNames
           /\ Front(Append(base, k)) = base /\ Last(Append(base, k)) = k
<1> DEFINE S == Names \cup {file.name : file \in Files} \cup Nat
<1>1. RowNames = Seq(S) /\ k \in S
  BY DEF RowNames
<1> HIDE DEF S
<1>2. Append(base, k) \in Seq(S) /\ Len(Append(base, k)) = Len(base) + 1 /\ Len(base) \in Nat
      /\ \A i \in 1..Len(base) : Append(base, k)[i] = base[i]
      /\ Append(base, k)[Len(base) + 1] = k
  BY <1>1
<1>3. Last(Append(base, k)) = k
  BY <1>2 DEF Last
<1>4. Front(Append(base, k)) = base
  <2>1. Front(Append(base, k)) = SubSeq(Append(base, k), 1, Len(base))
    BY <1>2 DEF Front
  <2> DEFINE t == SubSeq(Append(base, k), 1, Len(base))
  <2>2. t \in Seq(S) /\ Len(t) = Len(base) /\ \A i \in 1..Len(base) : t[i] = Append(base, k)[i]
    BY <1>2
  <2>3. t = base
    <3> HIDE DEF t
    <3> QED BY <1>1, <1>2, <2>2, SeqEqual
  <2> QED BY <2>1, <2>3
<1> QED
  BY <1>1, <1>2, <1>3, <1>4

\* An order of some of these rules
LEMMA PermutationIs ==
    ASSUME rows \in Table, NEW S \in SUBSET DOMAIN rows, NEW s \in SetToAllKPermutations(S)
    PROVE  s \in Seq(Nat) /\ IsInjective(s) /\ \A n \in DOMAIN s : s[n] \in S
<1>1. DOMAIN rows = 1..Len(rows) /\ Len(rows) \in Nat
  BY TableIs
<1>2. IsFiniteSet(S)
  <2>1. IsFiniteSet(DOMAIN rows)
    BY <1>1, FS_Interval
  <2> QED BY <2>1, FS_Subset
<1>3. PICK B \in SUBSET S : s \in SetToSeqs(B)
  BY DEF SetToAllKPermutations
<1>4. Cardinality(B) \in Nat
  BY <1>2, FS_Subset, FS_CardinalityType
<1>5. s \in [1..Cardinality(B) -> B] /\ \A m, n \in 1..Cardinality(B) : s[m] = s[n] => m = n
  BY <1>3 DEF SetToSeqs
<1>6. s \in [1..Cardinality(B) -> Nat]
  BY <1>1, <1>5
<1>7. s \in Seq(Nat)
  BY <1>4, <1>6
<1> QED
  BY <1>5, <1>7 DEF IsInjective

\* Where nothing is required of the locals
LEMMA FreePlace ==
    ASSUME NEW r, pc'[r] \in {"idle", "find_tested", "trace", "run"}
    PROVE  Named(r)' /\ Edits(r)' /\ Orders(r)'
BY DEF Named, Edits, Orders

LEMMA NameOf ==
    ASSUME NEW n \in Names
    PROVE  <<n>> \in RowNames
<1> DEFINE S == Names \cup {file.name : file \in Files} \cup Nat
<1>1. n \in S /\ RowNames = Seq(S)
  BY DEF RowNames
<1> HIDE DEF S
<1> QED
  BY <1>1

LEMMA StoredIs ==
    ASSUME StoreTypeOK, NEW i \in Stored
    PROVE  i \in DOMAIN rows /\ rows[i] # None /\ rows[i] \in Row /\ i \in Nat
BY TableIs DEF StoreTypeOK, Stored

LEMMA MakeStep ==
    ASSUME StoreTypeOK, NEW r \in Requests, Create(r) \/ Clone(r)
    PROVE  StoreTypeOK' /\ Turn(r) /\ UNCHANGED <<rows, asked>> /\ Exact(r)'
<1>1. CASE Create(r)
  <2>1. PICK n \in Names :
           Begin(r, "check", [Nothing EXCEPT !.name = <<n>>, !.text = "written"])
    BY <1>1 DEF Create
  <2> DEFINE locals == [Nothing EXCEPT !.name = <<n>>, !.text = "written"]
  <2>2. /\ locals \in Locals /\ locals.name \in RowNames /\ locals.text \in Texts
    BY NothingIs, NameOf DEF Nothing, Locals, Texts
  <2>3. Begin(r, "check", locals) /\ Idle(r)
    BY <1>1, <2>1 DEF Create
  <2> HIDE DEF locals
  <2>4. "check" \in Statements
    BY DEF Statements
  <2>5. Turn(r) /\ pc'[r] = "check" /\ req'[r] = locals /\ UNCHANGED <<rows, asked>>
    BY <2>2, <2>3, <2>4, Begins
  <2>6. Named(r)' /\ Edits(r)' /\ Orders(r)' /\ Exact(r)'
    BY <2>2, <2>5 DEF Named, Edits, Orders, Exact
  <2> QED BY <2>5, <2>6, OthersStay
<1>2. CASE Clone(r)
  <2>1. PICK i \in Stored, n \in Names \cup {None} :
           Begin(r, IF n = None THEN "find_free" ELSE "check",
                 [Nothing EXCEPT !.text = rows[i].text,
                      !.name = IF n = None THEN Append(rows[i].name, 1) ELSE <<n>>])
    BY <1>2 DEF Clone
  <2> DEFINE l == IF n = None THEN "find_free" ELSE "check"
             name == IF n = None THEN Append(rows[i].name, 1) ELSE <<n>>
             locals == [Nothing EXCEPT !.text = rows[i].text, !.name = name]
  <2>2. rows[i].name \in RowNames /\ rows[i].text \in Texts
    BY StoredIs DEF Row
  <2>3. name \in RowNames
    BY <2>2, NameOf, CopyIs
  <2>4. l = "find_free" => name = Append(rows[i].name, 1)
    OBVIOUS
  <2>5. Begin(r, l, locals) /\ Idle(r) /\ l \in {"find_free", "check"} /\ l \in Statements
    BY <1>2, <2>1 DEF Clone, Statements
  <2> HIDE DEF name, l
  <2>6. locals \in Locals /\ locals.name = name /\ locals.text \in Texts
    BY <2>2, <2>3, NothingIs DEF Nothing, Locals
  <2> HIDE DEF locals
  <2>7. Turn(r) /\ pc'[r] = l /\ req'[r] = locals /\ UNCHANGED <<rows, asked>>
    BY <2>5, <2>6, Begins
  <2>8. Named(r)'
    BY <2>2, <2>3, <2>4, <2>5, <2>6, <2>7 DEF Named
  <2>9. Edits(r)' /\ Orders(r)' /\ Exact(r)'
    BY <2>5, <2>7 DEF Edits, Orders, Exact
  <2> QED BY <2>7, <2>8, <2>9, OthersStay
<1> QED
  BY <1>1, <1>2

LEMMA AnswerStep ==
    ASSUME StoreTypeOK, NEW r \in Requests, pc[r] # "idle", Answer(r), Grows, SamePrios,
           UNCHANGED <<up, release, changes, starts, mixed, asked>>
    PROVE  /\ StoreTypeOK' /\ Turn(r) /\ pc'[r] = "idle"
           /\ \A q \in Requests \ {r} : pc'[q] = pc[q] /\ req'[q] = req[q]
<1>1. "idle" \in Statements /\ Moves(r, "idle", Nothing)
  BY MovesTo DEF Statements
<1>2. /\ Turn(r) /\ pc'[r] = "idle"
      /\ \A q \in Requests \ {r} : pc'[q] = pc[q] /\ req'[q] = req[q]
  BY <1>1, NothingIs, Continues
<1> QED
  BY <1>2, FreePlace, OthersStay

\* A statement that changes nothing but where the request stands.
LEMMA GotoStep ==
    ASSUME StoreTypeOK, NEW r \in Requests, pc[r] # "idle", NEW l \in Statements, Goto(r, l),
           UNCHANGED <<rows, up, release, req, changes, starts, mixed, asked>>
    PROVE  /\ Turn(r) /\ pc'[r] = l /\ req'[r] = req[r] /\ UNCHANGED rows
           /\ \A q \in Requests \ {r} : pc'[q] = pc[q] /\ req'[q] = req[q]
<1>1. Moves(r, l, req[r]) /\ req[r] \in Locals /\ Grows /\ SamePrios
  BY MovesTo, RowsStay
<1> QED
  BY <1>1, Continues

LEMMA QuietStep ==
    ASSUME StoreTypeOK, NEW r \in Requests, pc[r] # "idle", Answer(r),
           UNCHANGED <<rows, up, release, changes, starts, mixed, asked>>
    PROVE  /\ StoreTypeOK' /\ Turn(r) /\ pc'[r] = "idle"
           /\ \A q \in Requests \ {r} : pc'[q] = pc[q] /\ req'[q] = req[q]
<1>1. Grows /\ SamePrios
  BY RowsStay
<1> QED
  BY <1>1, AnswerStep

LEMMA NameStep ==
    ASSUME StoreTypeOK, NEW r \in Requests,
           CheckName(r) \/ FindFree(r) \/ ReadMax(r)
    PROVE  StoreTypeOK' /\ Turn(r) /\ UNCHANGED <<rows, asked>> /\ (Exact(r) => Exact(r)')
<1>0. Named(r) /\ "max" \in Statements /\ "insert" \in Statements
  BY DEF StoreTypeOK, Statements
<1>1. CASE CheckName(r) /\ Taken(req[r].name)
  <2>1. StoreTypeOK' /\ Turn(r) /\ pc'[r] = "idle" /\ UNCHANGED <<rows, asked>>
    BY <1>1, QuietStep DEF CheckName
  <2> QED BY <2>1 DEF Exact
<1>2. CASE CheckName(r) /\ ~Taken(req[r].name)
  <2>1. Turn(r) /\ pc'[r] = "max" /\ req'[r] = req[r] /\ pc[r] = "check"
    BY <1>0, <1>2, GotoStep DEF CheckName
  <2>2. Named(r)' /\ Edits(r)' /\ Orders(r)'
    BY <1>0, <2>1 DEF Named, Edits, Orders
  <2>3. UNCHANGED <<rows, asked>> /\ ~Taken(req[r].name)'
    BY <1>2 DEF CheckName, Taken, Stored
  <2>4. Exact(r)'
    BY <2>1, <2>3 DEF Exact
  <2> QED BY <2>1, <2>2, <2>3, <2>4, OthersStay
<1>3. CASE FindFree(r) /\ Taken(req[r].name)
  <2>1. PICK base \in RowNames, k \in Nat : req[r].name = Append(base, k)
    BY <1>0, <1>3 DEF Named, FindFree
  <2>2. /\ pc[r] = "find_free" /\ UNCHANGED pc
        /\ req' = [req EXCEPT ![r].name = Append(base, k + 1)]
        /\ UNCHANGED <<rows, up, release, changes, starts, mixed, asked>>
    BY <1>3, <2>1, CopyIs DEF FindFree
  <2> DEFINE locals == [req[r] EXCEPT !.name = Append(base, k + 1)]
  <2>3. req' = [req EXCEPT ![r] = locals]
    BY <2>2 DEF StoreTypeOK
  <2>4. k + 1 \in Nat /\ Append(base, k + 1) \in RowNames /\ req[r] \in Locals
    BY CopyIs DEF StoreTypeOK
  <2>5. locals \in Locals /\ locals.name = Append(base, k + 1) /\ locals.text = req[r].text
    <3> DEFINE name == Append(base, k + 1)
    <3>1. name \in RowNames /\ locals = [req[r] EXCEPT !.name = name]
      BY <2>4
    <3> HIDE DEF name, locals
    <3>2. locals \in Locals /\ locals.name = name /\ locals.text = req[r].text
      BY <2>4, <3>1 DEF Locals
    <3> QED BY <3>2 DEF name
  <2> HIDE DEF locals
  <2>6. Turn(r) /\ pc'[r] = "find_free" /\ req'[r] = locals
    <3>1. Moves(r, pc[r], locals) /\ pc[r] \in Statements
      BY <2>2, <2>3, MovesTo
    <3>2. Grows /\ SamePrios
      BY <2>2, RowsStay
    <3>3. pc[r] # "idle" /\ UNCHANGED <<up, release, changes, starts, mixed, asked>>
      BY <2>2
    <3>4. Turn(r) /\ pc'[r] = pc[r] /\ req'[r] = locals
      BY <2>5, <3>1, <3>2, <3>3, Continues
    <3> QED BY <2>2, <3>4
  <2>7. Named(r)' /\ Edits(r)' /\ Orders(r)'
    BY <1>0, <2>2, <2>4, <2>5, <2>6 DEF Named, Edits, Orders
  <2>8. Exact(r)'
    BY <2>6 DEF Exact
  <2> QED BY <2>2, <2>6, <2>7, <2>8, OthersStay
<1>4. CASE FindFree(r) /\ ~Taken(req[r].name)
  <2>1. Turn(r) /\ pc'[r] = "max" /\ req'[r] = req[r] /\ pc[r] = "find_free"
    BY <1>0, <1>4, GotoStep DEF FindFree
  <2>2. req[r].name \in RowNames
    BY <1>0, <2>1, CopyIs DEF Named
  <2>3. Named(r)' /\ Edits(r)' /\ Orders(r)'
    BY <1>0, <2>1, <2>2 DEF Named, Edits, Orders
  <2>4. UNCHANGED <<rows, asked>> /\ ~Taken(req[r].name)'
    BY <1>4 DEF FindFree, Taken, Stored
  <2>5. Exact(r)'
    BY <2>1, <2>4 DEF Exact
  <2> QED BY <2>1, <2>3, <2>4, <2>5, OthersStay
<1>5. CASE ReadMax(r)
  <2> DEFINE p == After({rows[i].prio : i \in Stored})
             locals == [req[r] EXCEPT !.prio = p]
  <2>1. p \in Nat /\ \A i \in Stored : rows[i].prio < p
    <3>1. rows \in Table /\ Stored \in SUBSET DOMAIN rows /\ \A i \in Stored : rows[i] # None
      BY DEF Stored, StoreTypeOK
    <3> QED BY <3>1, BehindTable
  <2>2. /\ pc[r] = "max" /\ Goto(r, "insert") /\ req' = [req EXCEPT ![r] = locals]
        /\ UNCHANGED <<rows, up, release, changes, starts, mixed, asked>>
    BY <1>5 DEF ReadMax, StoreTypeOK
  <2> HIDE DEF p
  <2>3. locals \in Locals /\ locals.name = req[r].name /\ locals.text = req[r].text
        /\ locals.prio = p
    BY <2>1 DEF StoreTypeOK, Locals
  <2> HIDE DEF locals
  <2>4. Moves(r, "insert", locals) /\ Grows /\ SamePrios
    BY <2>2, RowsStay, MovesTo
  <2>5. Turn(r) /\ pc'[r] = "insert" /\ req'[r] = locals
    BY <1>0, <2>2, <2>3, <2>4, Continues
  <2>6. Named(r)' /\ Edits(r)' /\ Orders(r)'
    BY <1>0, <2>2, <2>3, <2>5 DEF Named, Edits, Orders
  <2>7. ASSUME Exact(r) PROVE Exact(r)'
    <3>1. ~Taken(req[r].name) /\ Stored' = Stored
      BY <2>2, <2>7 DEF Exact, Stored
    <3>2. \A i \in Stored : rows[i].name # req[r].name
      BY <3>1 DEF Taken
    <3>3. req'[r].name = req[r].name /\ req'[r].prio = p /\ UNCHANGED rows
      BY <2>2, <2>3, <2>5
    <3>4. \A i \in Stored' : rows'[i].name # req'[r].name /\ rows'[i].prio < req'[r].prio
      BY <2>1, <3>1, <3>2, <3>3
    <3> QED BY <2>5, <3>4 DEF Exact, Taken
  <2> QED BY <2>2, <2>5, <2>6, <2>7, OthersStay
<1> QED
  BY <1>1, <1>2, <1>3, <1>4, <1>5

LEMMA LoadStep ==
    ASSUME StoreTypeOK, NEW r \in Requests, Update(r) \/ Delete(r) \/ Reorder(r) \/ Test(r)
    PROVE  StoreTypeOK' /\ Turn(r) /\ UNCHANGED <<rows, asked>> /\ Exact(r)'
<1>0. rows \in Table /\ {"check_rename", "save", "delete", "reorder", "trace", "find_tested"}
                           \subseteq Statements
  BY DEF StoreTypeOK, Statements
<1>1. CASE Update(r)
  <2>1. PICK i \in Stored, n \in Names \cup {None}, t \in {"edited", None} :
           \E a \in {~rows[i].active, None} :
              LET renames == n # None /\ <<n>> # rows[i].name IN
              /\ rows[i].default => ~renames /\ t = None
              /\ Begin(r, IF renames THEN "check_rename" ELSE "save",
                       [Nothing EXCEPT !.id = i, !.old = rows[i], !.active = a, !.text = t,
                                       !.name = IF renames THEN <<n>> ELSE None])
    BY <1>1 DEF Update
  <2> DEFINE renames == n # None /\ <<n>> # rows[i].name
             name == IF renames THEN <<n>> ELSE None
             l == IF renames THEN "check_rename" ELSE "save"
  <2>2. PICK a \in {~rows[i].active, None} :
           /\ rows[i].default => ~renames /\ t = None
           /\ Begin(r, l, [Nothing EXCEPT !.id = i, !.old = rows[i], !.active = a, !.text = t,
                                          !.name = name])
    BY <2>1
  <2> DEFINE locals == [Nothing EXCEPT !.id = i, !.old = rows[i], !.active = a, !.text = t,
                                       !.name = name]
  <2>3. i \in DOMAIN rows /\ rows[i] # None /\ rows[i] \in Row /\ i \in Nat
    BY StoredIs
  <2>4. /\ a \in BOOLEAN \cup {None} /\ t \in Texts \cup {None}
        /\ name \in RowNames \cup {None} /\ l \in {"check_rename", "save"}
        /\ rows[i].default => name = None /\ t = None
        /\ l = "save" => name = None
    BY <2>2, NameOf DEF Texts
  <2>5. Begin(r, l, locals) /\ Idle(r) /\ l \in Statements
    BY <1>0, <1>1, <2>2 DEF Update
  <2> DEFINE row == rows[i]
  <2>6. row = rows[i] /\ row \in Row /\ row \in Row \cup Table \cup {None}
    BY <2>3
  <2> HIDE DEF name, l, renames, row
  <2>7. /\ locals \in Locals /\ locals.id = i /\ locals.old = rows[i] /\ locals.text = t
        /\ locals.name = name
    BY <2>3, <2>4, <2>6, NothingIs DEF Nothing, Locals
  <2> HIDE DEF locals
  <2>8. Turn(r) /\ pc'[r] = l /\ req'[r] = locals /\ UNCHANGED <<rows, asked>>
    BY <2>5, <2>7, Begins
  <2>9. Edits(r)'
    BY <2>3, <2>4, <2>7, <2>8 DEF Edits
  <2>10. Named(r)' /\ Orders(r)' /\ Exact(r)'
    BY <2>4, <2>7, <2>8 DEF Named, Orders, Exact
  <2> QED BY <2>8, <2>9, <2>10, OthersStay
<1>2. CASE Delete(r)
  <2>1. PICK i \in UserRules : Begin(r, "delete", [Nothing EXCEPT !.id = i])
    BY <1>2 DEF Delete
  <2> DEFINE locals == [Nothing EXCEPT !.id = i]
  <2>2. i \in Stored /\ ~rows[i].default
    BY DEF UserRules
  <2>3. i \in DOMAIN rows /\ i \in Nat
    BY <2>2, StoredIs
  <2>4. locals \in Locals /\ locals.id = i
    BY <2>3, NothingIs DEF Nothing, Locals
  <2>5. Begin(r, "delete", locals) /\ Idle(r)
    BY <1>2, <2>1 DEF Delete
  <2> HIDE DEF locals
  <2>6. Turn(r) /\ pc'[r] = "delete" /\ req'[r] = locals /\ UNCHANGED <<rows, asked>>
    BY <1>0, <2>4, <2>5, Begins
  <2>7. Named(r)' /\ Edits(r)' /\ Orders(r)' /\ Exact(r)'
    BY <2>2, <2>3, <2>4, <2>6 DEF Named, Edits, Orders, Exact
  <2> QED BY <2>6, <2>7, OthersStay
<1>3. CASE Reorder(r)
  <2>1. PICK s \in SetToAllKPermutations(UserRules) :
           Begin(r, "reorder", [Nothing EXCEPT !.old = rows, !.order = s])
    BY <1>3 DEF Reorder
  <2> DEFINE locals == [Nothing EXCEPT !.old = rows, !.order = s]
  <2>2. /\ UserRules \in SUBSET DOMAIN rows
        /\ \A i \in UserRules : i \in DOMAIN rows /\ rows[i] # None /\ ~rows[i].default
    BY DEF UserRules, Stored
  <2>3. s \in Seq(Nat) /\ IsInjective(s) /\ \A n \in DOMAIN s : s[n] \in UserRules
    BY <1>0, <2>2, PermutationIs
  <2>4. locals \in Locals /\ locals.old = rows /\ locals.order = s /\ locals.lone
    BY <1>0, <2>3, NothingIs DEF Nothing, Locals
  <2>5. Begin(r, "reorder", locals) /\ Idle(r)
    BY <1>3, <2>1 DEF Reorder
  <2> HIDE DEF locals
  <2>6. Turn(r) /\ pc'[r] = "reorder" /\ req'[r] = locals /\ UNCHANGED <<rows, asked>>
    BY <1>0, <2>4, <2>5, Begins
  <2>7. Orders(r)'
    BY <1>0, <2>2, <2>3, <2>4, <2>6 DEF Orders
  <2>8. Named(r)' /\ Edits(r)' /\ Exact(r)'
    BY <2>4, <2>6 DEF Named, Edits, Exact
  <2> QED BY <2>6, <2>7, <2>8, OthersStay
<1>4. CASE Test(r)
  <2>1. PICK i \in Stored \cup {None} :
           Begin(r, IF i = None THEN "trace" ELSE "find_tested", [Nothing EXCEPT !.id = i])
    BY <1>4 DEF Test
  <2> DEFINE locals == [Nothing EXCEPT !.id = i]
             l == IF i = None THEN "trace" ELSE "find_tested"
  <2>2. i \in Nat \cup {None}
    BY StoredIs
  <2>3. locals \in Locals
    BY <2>2, NothingIs DEF Nothing, Locals
  <2>4. Begin(r, l, locals) /\ Idle(r) /\ l \in {"trace", "find_tested"} /\ l \in Statements
    BY <1>0, <1>4, <2>1 DEF Test
  <2> HIDE DEF locals, l
  <2>5. Turn(r) /\ pc'[r] = l /\ UNCHANGED <<rows, asked>>
    BY <2>3, <2>4, Begins
  <2>6. Named(r)' /\ Edits(r)' /\ Orders(r)' /\ Exact(r)'
    BY <2>4, <2>5, FreePlace DEF Exact
  <2> QED BY <2>5, <2>6, OthersStay
<1> QED
  BY <1>1, <1>2, <1>3, <1>4

LEMMA TestStep ==
    ASSUME StoreTypeOK, NEW r \in Requests, FindTested(r) \/ Trace(r) \/ Run(r) \/ Fails(r)
    PROVE  /\ StoreTypeOK' /\ Turn(r) /\ UNCHANGED <<rows, asked>>
           /\ Distinct(rows) => Exact(r)'
<1>0. {"trace", "run"} \subseteq Statements
  BY DEF Statements
<1>1. CASE FindTested(r) /\ rows[req[r].id] # None
  <2>1. Turn(r) /\ pc'[r] = "trace" /\ UNCHANGED <<rows, asked>>
    BY <1>0, <1>1, GotoStep DEF FindTested
  <2>2. Exact(r)'
    BY <2>1 DEF Exact
  <2> QED BY <2>1, <2>2, FreePlace, OthersStay
<1>2. CASE (FindTested(r) /\ rows[req[r].id] = None) \/ (Trace(r) /\ req[r].id # None)
             \/ Run(r) \/ Fails(r)
  <2>1. StoreTypeOK' /\ Turn(r) /\ pc'[r] = "idle" /\ UNCHANGED <<rows, asked>>
    BY <1>2, QuietStep DEF FindTested, Trace, Run, Fails
  <2> QED BY <2>1 DEF Exact
<1>3. CASE Trace(r) /\ req[r].id = None
  <2>1. PICK s \in RunOrders(Stored) : req' = [req EXCEPT ![r].order = s]
    BY <1>3 DEF Trace
  <2> DEFINE locals == [req[r] EXCEPT !.order = s]
  <2>2. s \in Seq(Nat)
    <3>1. /\ s \in SetToAllKPermutations(Active(Stored)) /\ Active(Stored) \in SUBSET DOMAIN rows
          /\ rows \in Table
      BY DEF RunOrders, Active, Stored, StoreTypeOK
    <3> QED BY <3>1, PermutationIs
  <2>3. req' = [req EXCEPT ![r] = locals] /\ locals \in Locals /\ locals.order = s
    BY <2>1, <2>2 DEF StoreTypeOK, Locals
  <2>4. /\ pc[r] = "trace" /\ Goto(r, "run")
        /\ UNCHANGED <<rows, up, release, changes, starts, mixed, asked>>
    BY <1>3 DEF Trace
  <2> HIDE DEF locals
  <2>5. Moves(r, "run", locals) /\ Grows /\ SamePrios
    BY <2>3, <2>4, RowsStay, MovesTo
  <2>6. Turn(r) /\ pc'[r] = "run" /\ req'[r] = locals
    BY <1>0, <2>3, <2>4, <2>5, Continues
  <2>7. ASSUME Distinct(rows) PROVE Exact(r)'
    <3>1. \A t \in RunOrders(Stored) : t = s
      BY <2>7, OneOrder DEF StoreTypeOK
    <3>2. RunOrders(Stored)' = RunOrders(Stored)
      BY <2>4 DEF RunOrders, Active, Stored
    <3>3. RunOrders(Stored)' = {req'[r].order}
      <4> HIDE DEF RunOrders
      <4> QED BY <2>3, <2>6, <3>1, <3>2
    <3> QED BY <2>6, <3>3 DEF Exact
  <2> QED BY <2>4, <2>6, <2>7, FreePlace, OthersStay
<1> QED
  BY <1>1, <1>2, <1>3

LEMMA WriteStep ==
    ASSUME StoreTypeOK, NEW r \in Requests,
           Insert(r) \/ CheckRename(r) \/ Save(r) \/ SaveOrder(r) \/ Discard(r)
    PROVE  StoreTypeOK' /\ Turn(r)
<1>1. CASE Insert(r)
  <2>1. Grows /\ SamePrios
    BY <1>1, InsertGrows
  <2> QED BY <1>1, <2>1, AnswerStep DEF Insert
<1>2. CASE Save(r)
  <2>1. Grows /\ SamePrios
    BY <1>2, SaveGrows
  <2> QED BY <1>2, <2>1, AnswerStep DEF Save
<1>3. CASE Discard(r)
  <2>1. Grows /\ SamePrios
    BY <1>3, DiscardGrows
  <2> QED BY <1>3, <2>1, AnswerStep DEF Discard
<1>4. CASE CheckRename(r) /\ Taken(req[r].name)
  BY <1>4, QuietStep DEF CheckRename
<1>5. CASE CheckRename(r) /\ ~Taken(req[r].name)
  <2>1. Turn(r) /\ pc'[r] = "save" /\ req'[r] = req[r] /\ pc[r] = "check_rename" /\ UNCHANGED rows
    BY <1>5, GotoStep DEF CheckRename, Statements
  <2>2. Edits(r)
    BY DEF StoreTypeOK
  <2>3. Named(r)' /\ Edits(r)' /\ Orders(r)'
    BY <2>1, <2>2 DEF Named, Edits, Orders
  <2> QED BY <2>1, <2>3, OthersStay
<1>6. CASE SaveOrder(r)
  <2>1. /\ Grows /\ pc[r] = "reorder"
        /\ \/ UNCHANGED <<rows, mixed, asked>> /\ req' = [req EXCEPT ![r] = Nothing]
           \/ Committed(r)
    BY <1>6, SaveOrderGrows
  <2>2. Goto(r, "idle") /\ UNCHANGED <<up, release, changes, starts>>
    BY <1>6 DEF SaveOrder
  <2>3. CASE UNCHANGED <<rows, mixed, asked>> /\ req' = [req EXCEPT ![r] = Nothing]
    BY <2>1, <2>2, <2>3, QuietStep DEF Answer
  <2>4. CASE Committed(r)
    <3>1. /\ mixed' = (mixed \/ ~(UserRules \subseteq Range(req[r].order)))
          /\ asked' = IF req[r].lone THEN req[r].order ELSE <<>>
          /\ req' = [p \in Requests |-> IF p = r THEN Nothing ELSE [req[p] EXCEPT !.lone = FALSE]]
      BY <2>4 DEF Committed
    <3>2. /\ pc' \in [Requests -> Statements] /\ pc'[r] = "idle"
          /\ \A q \in Requests \ {r} : pc'[q] = pc[q]
      BY <2>2 DEF Goto, StoreTypeOK, Statements
    <3>3. \A p \in Requests : req[p] \in Locals
      BY DEF StoreTypeOK
    <3>4. ASSUME NEW p \in Requests
          PROVE  LET new == [req[p] EXCEPT !.lone = FALSE] IN
                 /\ new \in Locals /\ new.id = req[p].id /\ new.name = req[p].name
                 /\ new.text = req[p].text /\ new.old = req[p].old
                 /\ new.order = req[p].order /\ new.lone = FALSE
      BY <3>3 DEF Locals
    <3>5. \A q \in Requests \ {r} :
             /\ req'[q].id = req[q].id /\ req'[q].name = req[q].name
             /\ req'[q].text = req[q].text /\ req'[q].old = req[q].old
             /\ req'[q].order = req[q].order /\ req'[q].lone = FALSE
      BY <3>1, <3>4
    <3>6. req' \in [Requests -> Locals]
      BY <3>1, <3>4, NothingIs
    <3>7. asked' \in Seq(Nat) /\ mixed' \in BOOLEAN /\ (mixed => mixed') /\ changes' \in Nat /\ up
      <4>1. req[r].order \in Seq(Nat)
        BY <3>3 DEF Locals
      <4>2. mixed \in BOOLEAN /\ changes \in Nat /\ (~up => pc[r] = "idle")
        BY DEF StoreTypeOK
      <4> QED BY <2>1, <2>2, <3>1, <4>1, <4>2, EmptySeq
    <3>8. Turn(r)
      BY <2>1, <2>2, <3>2, <3>5, <3>6, <3>7 DEF Turn
    <3> QED BY <3>2, <3>8, FreePlace, OthersStay
  <2> QED BY <2>1, <2>3, <2>4
<1> QED
  BY <1>1, <1>2, <1>3, <1>4, <1>5, <1>6

LEMMA HandlesStep ==
    ASSUME StoreTypeOK, NEW r \in Requests, Handles(r)
    PROVE  StoreTypeOK' /\ Turn(r)
BY MakeStep, NameStep, LoadStep, TestStep, WriteStep DEF Handles

\* A step either leaves the priorities and what was asked for, or commits a reorder.
LEMMA HandlesPrios ==
    ASSUME StoreTypeOK, NEW r \in Requests, Handles(r)
    PROVE  \/ SamePrios /\ UNCHANGED asked
           \/ SaveOrder(r) /\ pc[r] = "reorder" /\ Committed(r)
<1>1. CASE \/ Create(r) \/ Clone(r) \/ CheckName(r) \/ FindFree(r) \/ ReadMax(r)
           \/ Update(r) \/ Delete(r) \/ Reorder(r) \/ Test(r)
           \/ FindTested(r) \/ Trace(r) \/ Run(r) \/ Fails(r)
  <2>1. UNCHANGED <<rows, asked>>
    BY <1>1, MakeStep, NameStep, LoadStep, TestStep
  <2> QED BY <2>1, RowsStay
<1>2. CASE CheckRename(r)
  <2>1. UNCHANGED <<rows, asked>>
    BY <1>2 DEF CheckRename
  <2> QED BY <2>1, RowsStay
<1>3. CASE Insert(r)
  BY <1>3, InsertGrows DEF Insert
<1>4. CASE Save(r)
  BY <1>4, SaveGrows DEF Save
<1>5. CASE Discard(r)
  BY <1>5, DiscardGrows DEF Discard
<1>6. CASE SaveOrder(r)
  <2>1. pc[r] = "reorder" /\ (UNCHANGED <<rows, asked>> \/ Committed(r))
    BY <1>6, SaveOrderGrows
  <2> QED BY <1>6, <2>1, RowsStay
<1> QED
  BY <1>1, <1>2, <1>3, <1>4, <1>5, <1>6 DEF Handles

-----------------------------------------------------------------------------
(* RuleStore: the default rules, the order asked for                       *)

\* Before the first start there is nothing; since then the default rules of the release
\* are in the table, whether the process serves or not.
Seeded == IF release = 0 THEN ~up /\ rows = <<>> /\ asked = <<>> /\ ~mixed
          ELSE Current(rows, Releases[release])

\* A rule that was asked for and is still there is behind the default rules and those
\* asked for before it.
AskedFor ==
    \A n \in DOMAIN asked : \A k \in {asked[n]} :
        /\ k \in DOMAIN rows
        /\ rows[k] # None =>
              /\ ~rows[k].default
              /\ \A i \in Stored : (rows[i].default \/ \E m \in 1..(n - 1) : asked[m] = i)
                                      => rows[i].prio < rows[k].prio

StoreInv == StoreTypeOK /\ Seeded /\ AskedFor

\* What requests do leaves the default rules current.
LEMMA CurrentStays ==
    ASSUME Grows, NEW files, Current(rows, files)
    PROVE  Current(rows', files)
<1>1. Unique(rows')
  <2> SUFFICES ASSUME NEW i \in DOMAIN rows', NEW k \in DOMAIN rows',
                      rows'[i] # None, rows'[k] # None, rows'[i].default, rows'[k].default,
                      rows'[i].name = rows'[k].name
               PROVE  i = k
    BY DEF Unique
  <2>1. i \in DOMAIN rows /\ k \in DOMAIN rows
    BY DEF Grows
  <2>2. /\ rows[i] # None /\ rows[i].default /\ rows'[i].name = rows[i].name
        /\ rows[k] # None /\ rows[k].default /\ rows'[k].name = rows[k].name
    BY <2>1 DEF Grows
  <2> QED BY <2>1, <2>2 DEF Current, Unique
<1>2. ASSUME NEW file, Holds(rows, file) PROVE Holds(rows', file)
  <2>1. PICK i \in DefaultRows(rows, <<file.name>>) : rows[i].text = file.text
    BY <1>2 DEF Holds
  <2>2. /\ i \in DOMAIN rows /\ rows[i] # None /\ rows[i].name = <<file.name>> /\ rows[i].default
    BY DEF DefaultRows
  <2>3. /\ i \in DOMAIN rows' /\ rows'[i] # None /\ rows'[i].name = <<file.name>>
        /\ rows'[i].default /\ rows'[i].text = file.text
    BY <2>1, <2>2 DEF Grows
  <2> QED BY <2>3 DEF Holds, DefaultRows
<1> QED
  BY <1>1, <1>2 DEF Current

\* While priorities stay, so does the order.
LEMMA AskedStays ==
    ASSUME AskedFor, asked \in Seq(Nat), Grows, SamePrios, UNCHANGED asked
    PROVE  AskedFor'
<1>0. asked' = asked
  OBVIOUS
<1> SUFFICES ASSUME NEW n \in DOMAIN asked, NEW k, k = asked[n]
             PROVE  /\ k \in DOMAIN rows'
                    /\ rows'[k] # None =>
                         /\ ~rows'[k].default
                         /\ \A i \in Stored' :
                              (rows'[i].default \/ \E m \in 1..(n - 1) : asked[m] = i)
                                 => rows'[i].prio < rows'[k].prio
  BY <1>0 DEF AskedFor
<1>1. /\ k \in DOMAIN rows
      /\ rows[k] # None =>
            /\ ~rows[k].default
            /\ \A i \in Stored : (rows[i].default \/ \E m \in 1..(n - 1) : asked[m] = i)
                                    => rows[i].prio < rows[k].prio
  BY DEF AskedFor
<1>2. ASSUME rows'[k] # None
      PROVE  /\ rows[k] # None /\ ~rows'[k].default /\ rows'[k].prio = rows[k].prio
  BY <1>1, <1>2 DEF Grows, SamePrios
<1>3. ASSUME rows'[k] # None, NEW i \in Stored',
             rows'[i].default \/ \E m \in 1..(n - 1) : asked[m] = i
      PROVE  rows'[i].prio < rows'[k].prio
  <2>1. rows'[i] # None /\ i \in DOMAIN rows'
    BY DEF Stored
  <2>2. i \in DOMAIN rows
    <3>1. CASE rows'[i].default
      BY <2>1, <3>1 DEF Grows
    <3>2. CASE \E m \in 1..(n - 1) : asked[m] = i
      <4>1. PICK m \in 1..(n - 1) : asked[m] = i
        BY <3>2
      <4>2. m \in DOMAIN asked
        <5>1. DOMAIN asked = 1..Len(asked) /\ Len(asked) \in Nat
          OBVIOUS
        <5> QED BY <4>1, <5>1
      <4> QED BY <4>1, <4>2 DEF AskedFor
    <3> QED BY <1>3, <3>1, <3>2
  <2>3. i \in Stored /\ rows'[i].default = rows[i].default /\ rows'[i].prio = rows[i].prio
    BY <2>1, <2>2 DEF Grows, SamePrios, Stored
  <2> QED BY <1>1, <1>2, <1>3, <2>3
<1> QED
  BY <1>1, <1>2, <1>3 DEF Grows

\* A reorder that nobody disturbed establishes it.
LEMMA AskedAnew ==
    ASSUME StoreTypeOK, NEW r \in Requests, pc[r] = "reorder", Grows, Committed(r)
    PROVE  AskedFor'
<1> DEFINE s   == req[r].order
           old == req[r].old
<1>1. /\ old \in Table /\ DOMAIN old \subseteq DOMAIN rows
      /\ \A i \in DOMAIN rows :
            rows[i] # None /\ (i \in DOMAIN old \/ rows[i].default) =>
               /\ i \in DOMAIN old /\ old[i] # None
               /\ old[i].default = rows[i].default
               /\ req[r].lone \/ rows[i].default => old[i].prio = rows[i].prio
      /\ \A n \in DOMAIN s : \A i \in {s[n]} :
            i \in DOMAIN old /\ old[i] # None /\ ~old[i].default
      /\ s \in Seq(Nat)
  BY DEF StoreTypeOK, Orders, Locals
<1>2. /\ DOMAIN rows' = DOMAIN rows
      /\ \A i \in DOMAIN rows :
            /\ rows'[i] # None <=> rows[i] # None
            /\ i \notin Range(s) => rows'[i] = rows[i]
      /\ \A n \in DOMAIN s : \A i \in {s[n]} :
            rows[i] # None /\ req[r].lone => rows'[i].prio = Behind(old) + n - 1
      /\ asked' = IF req[r].lone THEN s ELSE <<>>
  BY DEF Committed
<1>3. /\ Behind(old) \in Nat
      /\ \A i \in DOMAIN old : old[i] # None /\ old[i].default => old[i].prio < Behind(old)
      /\ \A i \in DOMAIN old : old[i] # None => old[i].prio \in Nat
  BY <1>1, BehindIs, TableIs DEF Row
<1> HIDE DEF s, old
<1>4. CASE ~req[r].lone
  BY <1>2, <1>4 DEF AskedFor
<1>5. CASE req[r].lone
  <2> SUFFICES ASSUME NEW n \in DOMAIN s, NEW k, k = s[n]
               PROVE  /\ k \in DOMAIN rows'
                      /\ rows'[k] # None =>
                           /\ ~rows'[k].default
                           /\ \A i \in Stored' :
                                (rows'[i].default \/ \E m \in 1..(n - 1) : s[m] = i)
                                   => rows'[i].prio < rows'[k].prio
    BY <1>2, <1>5 DEF AskedFor
  <2>1. k \in DOMAIN rows /\ k \in DOMAIN old /\ ~old[k].default
    BY <1>1
  <2>2. ASSUME rows'[k] # None
        PROVE  rows[k] # None /\ ~rows'[k].default /\ rows'[k].prio = Behind(old) + n - 1
    <3>1. rows[k] # None /\ rows'[k].default = rows[k].default /\ rows[k].default = old[k].default
      BY <1>1, <2>1, <2>2 DEF Grows
    <3> QED BY <1>2, <1>5, <2>1, <3>1
  <2>3. n \in Nat /\ n >= 1 /\ DOMAIN s = 1..Len(s) /\ Len(s) \in Nat
    BY <1>1
  <2>4. ASSUME rows'[k] # None, NEW i \in Stored', rows'[i].default
        PROVE  rows'[i].prio < rows'[k].prio
    <3>1. i \in DOMAIN rows /\ rows'[i] # None
      BY <1>2 DEF Stored
    <3>2. rows[i] # None /\ rows[i].default /\ rows'[i].prio = rows[i].prio
      BY <2>4, <3>1 DEF Grows
    <3>3. i \in DOMAIN old /\ old[i] # None /\ old[i].default /\ old[i].prio = rows[i].prio
      BY <1>1, <3>1, <3>2
    <3>4. rows'[i].prio \in Nat /\ rows'[i].prio < Behind(old)
      BY <1>3, <3>2, <3>3
    <3> QED BY <1>3, <2>2, <2>3, <2>4, <3>4
  <2>5. ASSUME rows'[k] # None, NEW i \in Stored', NEW m \in 1..(n - 1), s[m] = i
        PROVE  rows'[i].prio < rows'[k].prio
    <3>1. i \in DOMAIN rows /\ rows'[i] # None /\ rows[i] # None
      BY <1>2 DEF Stored
    <3>2. m \in DOMAIN s /\ m < n /\ m \in Nat
      BY <2>3
    <3>3. rows'[i].prio = Behind(old) + m - 1
      BY <1>2, <1>5, <2>5, <3>1, <3>2
    <3> QED BY <1>3, <2>2, <2>3, <2>5, <3>2, <3>3
  <2> QED BY <1>2, <2>1, <2>2, <2>4, <2>5
<1> QED
  BY <1>4, <1>5

\* A start
LEMMA StartsStep ==
    ASSUME StoreInv, Starts
    PROVE  /\ StoreInv' /\ ~up /\ UNCHANGED pc
           /\ \/ release # 0 /\ release' = release /\ UNCHANGED rows
              \/ release = 0 /\ Distinct(rows)'
              \/ mixed'
<1>1. /\ ~up /\ up' = TRUE /\ starts' = starts + 1 /\ UNCHANGED <<pc, req, changes>>
  BY DEF Starts
<1>2. PICK v \in DOMAIN Releases :
         /\ release' = v /\ rows' = Seed(rows, Releases[v])
         /\ mixed' = (mixed \/ (release # 0 /\ v # release))
         /\ asked' = IF v = release THEN asked ELSE <<>>
  BY DEF Starts
<1> DEFINE files == Releases[v]
<1>3. StoreTypeOK /\ Seeded /\ AskedFor
  BY DEF StoreInv
<1>4. rows \in Table /\ Unique(rows)
  <2>1. CASE release = 0
    BY <1>3, <2>1 DEF Seeded, Unique, StoreTypeOK
  <2>2. CASE release # 0
    BY <1>3, <2>2 DEF Seeded, Current, StoreTypeOK
  <2> QED BY <2>1, <2>2
<1>5. SoFar(rows', rows, files, Len(files))
  BY <1>2, <1>4, SeedIs
<1>6. /\ files \in Seq(Files) /\ DOMAIN files = 1..Len(files) /\ Len(files) \in Nat /\ v # 0
  BY RuleStoreAssumption
<1>7. rows' \in Table /\ Current(rows', files)
  BY <1>5, <1>6 DEF SoFar, Current
<1>8. Seeded'
  BY <1>2, <1>6, <1>7 DEF Seeded
<1>9. \A r \in Requests : pc'[r] = "idle" /\ pc[r] = "idle"
  BY <1>1, <1>3 DEF StoreTypeOK
<1>10. StoreTypeOK'
  <2>1. \A r \in Requests : Named(r)' /\ Edits(r)' /\ Orders(r)'
    BY <1>9, FreePlace
  <2>2. /\ up' \in BOOLEAN /\ release' \in {0} \cup DOMAIN Releases
        /\ pc' \in [Requests -> Statements] /\ req' \in [Requests -> Locals]
        /\ changes' \in Nat /\ starts' \in Nat
        /\ mixed' \in BOOLEAN /\ asked' \in Seq(Nat)
    BY <1>1, <1>2, <1>3, EmptySeq DEF StoreTypeOK
  <2> QED BY <1>7, <1>9, <2>1, <2>2 DEF StoreTypeOK
<1>11. release # 0 /\ v = release => UNCHANGED rows
  BY <1>3, <1>5 DEF SoFar, Seeded
<1>12. AskedFor'
  <2>1. CASE v = release
    <3>1. UNCHANGED <<rows, asked>>
      BY <1>2, <1>6, <1>11, <2>1
    <3> QED BY <1>3, <3>1 DEF AskedFor, Stored
  <2>2. CASE v # release
    BY <1>2, <2>2 DEF AskedFor
  <2> QED BY <2>1, <2>2
<1>13. release = 0 => Distinct(rows)'
  <2> SUFFICES ASSUME release = 0, NEW i \in DOMAIN rows', NEW k \in DOMAIN rows', i # k
               PROVE  rows'[i].name # rows'[k].name /\ rows'[i].prio # rows'[k].prio
    BY DEF Distinct
  <2>1. /\ Len(rows') = Len(files)
        /\ \A j \in 1..Len(files) : /\ rows'[j].name = <<files[j].name>>
                                    /\ rows'[j].prio = j - 1
    BY <1>3, <1>5 DEF SoFar, Seeded
  <2>2. i \in DOMAIN files /\ k \in DOMAIN files /\ i \in 1..Len(files) /\ k \in 1..Len(files)
    BY <1>6, <1>7, <2>1, TableIs
  <2>3. <<files[i].name>> # <<files[k].name>>
    BY <2>2, FileIs
  <2> QED BY <1>6, <2>1, <2>2, <2>3
<1>14. StoreInv'
  BY <1>8, <1>10, <1>12 DEF StoreInv
<1> QED
  BY <1>1, <1>2, <1>11, <1>13, <1>14

LEMMA StopsStep ==
    ASSUME StoreInv, Stops
    PROVE  StoreInv' /\ UNCHANGED rows /\ \A r \in Requests : pc'[r] = "idle"
<1>1. /\ up /\ ~up' /\ pc' = [r \in Requests |-> "idle"] /\ req' = [r \in Requests |-> Nothing]
      /\ UNCHANGED <<rows, release, changes, starts, mixed, asked>>
  BY DEF Stops
<1>2. StoreTypeOK /\ Seeded /\ AskedFor
  BY DEF StoreInv
<1>3. StoreTypeOK'
  <2>1. \A r \in Requests : pc'[r] = "idle"
    BY <1>1
  <2>2. \A r \in Requests : Named(r)' /\ Edits(r)' /\ Orders(r)'
    BY <2>1, FreePlace
  <2>3. /\ pc' \in [Requests -> Statements] /\ req' \in [Requests -> Locals] /\ up' \in BOOLEAN
    BY <1>1, NothingIs DEF Statements, Stops
  <2> QED BY <1>1, <1>2, <2>1, <2>2, <2>3 DEF StoreTypeOK
<1>4. Seeded' /\ AskedFor'
  BY <1>1, <1>2 DEF Seeded, AskedFor, Stored
<1> QED
  BY <1>1, <1>3, <1>4 DEF StoreInv

LEMMA HandlesKeep ==
    ASSUME StoreInv, NEW r \in Requests, Handles(r)
    PROVE  StoreInv'
<1>1. StoreTypeOK /\ Seeded /\ AskedFor
  BY DEF StoreInv
<1>2. StoreTypeOK' /\ Turn(r)
  BY <1>1, HandlesStep
<1>3. Seeded'
  <2>1. up /\ Grows /\ release' = release
    BY <1>2 DEF Turn
  <2>2. release # 0 /\ Current(rows, Releases[release])
    BY <1>1, <2>1 DEF Seeded
  <2>3. Current(rows', Releases[release])
    BY <2>1, <2>2, CurrentStays
  <2> QED BY <2>1, <2>2, <2>3 DEF Seeded
<1>4. AskedFor'
  <2>1. Grows /\ asked \in Seq(Nat)
    BY <1>1, <1>2 DEF Turn, StoreTypeOK
  <2>2. CASE SamePrios /\ UNCHANGED asked
    BY <1>1, <2>1, <2>2, AskedStays
  <2>3. CASE pc[r] = "reorder" /\ Committed(r)
    BY <1>1, <2>1, <2>3, AskedAnew
  <2> QED BY <1>1, <2>2, <2>3, HandlesPrios
<1> QED
  BY <1>2, <1>3, <1>4 DEF StoreInv

LEMMA StoreStarts ==
    Init => StoreInv
<1> SUFFICES ASSUME Init PROVE StoreInv
  OBVIOUS
<1>1. /\ rows = <<>> /\ up = FALSE /\ release = 0 /\ pc = [r \in Requests |-> "idle"]
      /\ req = [r \in Requests |-> Nothing] /\ changes = 0 /\ starts = 0
      /\ mixed = FALSE /\ asked = <<>>
  BY DEF Init
<1>2. \A r \in Requests : Named(r) /\ Edits(r) /\ Orders(r)
  BY <1>1 DEF Named, Edits, Orders
<1>3. rows \in Table /\ asked \in Seq(Nat)
  BY <1>1, EmptySeq DEF Table
<1>4. StoreTypeOK
  BY <1>1, <1>2, <1>3, NothingIs DEF StoreTypeOK, Statements
<1> QED
  BY <1>1, <1>4 DEF StoreInv, Seeded, AskedFor

LEMMA StoreStep ==
    StoreInv /\ [Next]_vars => StoreInv'
<1> SUFFICES ASSUME StoreInv, [Next]_vars PROVE StoreInv'
  OBVIOUS
<1>1. CASE Starts
  BY <1>1, StartsStep
<1>2. CASE Stops
  BY <1>2, StopsStep
<1>3. CASE \E r \in Requests : Handles(r)
  BY <1>3, HandlesKeep
<1>4. CASE UNCHANGED vars
  BY <1>4 DEF vars, StoreInv, StoreTypeOK, Seeded, AskedFor, Named, Edits, Orders, Stored
<1> QED
  BY <1>1, <1>2, <1>3, <1>4 DEF Next

\* The table of rules is type correct, carries the default rules of its release and the
\* order that was asked for, and a request carries what its statements rely on.
THEOREM StoreInvariant == Spec => []StoreInv
<1> QED
  BY StoreStarts, StoreStep, PTL DEF Spec

\* An upgrade finds the right default rules, whatever the users called their own, and no
\* request changes them: for any releases and any number of requests.
THEOREM DefaultsStayCurrent == Spec => []DefaultsCurrent
<1>1. StoreInv => DefaultsCurrent
  <2> SUFFICES ASSUME StoreInv, up, NEW p \in DOMAIN Releases[release],
                      NEW file, file = Releases[release][p],
                      NEW Same,
                      Same = {i \in Stored : rows[i].default /\ rows[i].name = <<file.name>>}
               PROVE  \E i \in Same : Same = {i} /\ rows[i].text = file.text
    BY DEF DefaultsCurrent
  <2>1. Current(rows, Releases[release])
    BY DEF StoreInv, Seeded
  <2>2. PICK i \in DefaultRows(rows, <<file.name>>) : rows[i].text = file.text
    BY <2>1 DEF Current, Holds
  <2>3. Same = DefaultRows(rows, <<file.name>>)
    BY DEF DefaultRows, Stored
  <2>4. \A k \in Same : k = i
    BY <2>1, <2>2, <2>3 DEF Current, Unique, DefaultRows
  <2> QED BY <2>2, <2>3, <2>4
<1> QED
  BY <1>1, StoreInvariant, PTL

\* A reorder holds until the next or an upgrade, for any number of rules and requests.
THEOREM OrderAskedHolds == Spec => []ReorderHolds
<1>1. StoreInv => ReorderHolds
  <2> SUFFICES ASSUME StoreInv, NEW n \in DOMAIN asked, NEW i \in Stored,
                      asked[n] \in Stored, rows[i].active,
                      rows[i].default \/ \E m \in 1..(n - 1) : asked[m] = i,
                      asked[n] \in Deciding({i, asked[n]})
               PROVE  FALSE
    BY DEF ReorderHolds
  <2>1. rows[i].prio < rows[asked[n]].prio
    BY DEF StoreInv, AskedFor, Stored
  <2>2. rows[asked[n]].prio <= rows[i].prio
    BY DEF Deciding, FirstRun, Active
  <2>3. rows[i].prio \in Nat /\ rows[asked[n]].prio \in Nat
    BY StoredIs DEF StoreInv, Row
  <2> QED BY <2>1, <2>2, <2>3
<1> QED
  BY <1>1, StoreInvariant, PTL

-----------------------------------------------------------------------------
(* RuleStore: the order as long as nothing was mixed                       *)

\* Then at most one request is under way, no two rules share a name or a priority, and
\* the request carries what it read of the table as it is now.
Clear ==
    ~mixed => /\ \A r, q \in Requests : pc[r] # "idle" /\ pc[q] # "idle" => r = q
              /\ Distinct(rows)
              /\ \A r \in Requests : Exact(r)

\* A request that begins meets those that are under way.
LEMMA Meets ==
    ASSUME NEW r \in Requests, pc[r] = "idle", Handles(r)
    PROVE  mixed' = (mixed \/ \E q \in Requests : pc[q] # "idle")
<1>1. ~(\/ CheckName(r) \/ FindFree(r) \/ ReadMax(r) \/ Insert(r) \/ CheckRename(r) \/ Save(r)
        \/ SaveOrder(r) \/ Discard(r) \/ FindTested(r) \/ Trace(r) \/ Run(r) \/ Fails(r))
  BY DEF CheckName, FindFree, ReadMax, Insert, CheckRename, Save, SaveOrder, Discard,
         FindTested, Trace, Run, Fails
<1>2. CASE Create(r)
  BY <1>2 DEF Create, Begin
<1>3. CASE Clone(r)
  BY <1>3 DEF Clone, Begin
<1>4. CASE Update(r)
  BY <1>4 DEF Update, Begin
<1>5. CASE Reorder(r)
  BY <1>5 DEF Reorder, Begin
<1>6. CASE Delete(r)
  BY <1>6 DEF Delete, Begin
<1>7. CASE Test(r)
  BY <1>7 DEF Test, Begin
<1> QED
  BY <1>1, <1>2, <1>3, <1>4, <1>5, <1>6, <1>7 DEF Handles

\* A step after which nothing is mixed is that of the only request.
LEMMA Lone ==
    ASSUME StoreTypeOK, Clear, NEW r \in Requests, Handles(r), ~mixed'
    PROVE  /\ \A q \in Requests \ {r} : pc[q] = "idle"
           /\ Distinct(rows) /\ Exact(r)
<1>1. ~mixed
  BY HandlesStep DEF Turn
<1>2. CASE pc[r] = "idle"
  BY <1>1, <1>2, Meets DEF Clear
<1>3. CASE pc[r] # "idle"
  BY <1>1, <1>3 DEF Clear
<1> QED
  BY <1>2, <1>3

LEMMA ExactStays ==
    ASSUME StoreTypeOK, NEW r \in Requests, Handles(r), Distinct(rows), Exact(r)
    PROVE  Exact(r)'
<1>1. CASE CheckRename(r)
  <2>1. /\ pc[r] = "check_rename" /\ UNCHANGED rows
        /\ \/ Answer(r)
           \/ Goto(r, "save") /\ UNCHANGED req /\ ~Taken(req[r].name)
    BY <1>1 DEF CheckRename
  <2>2. CASE Answer(r)
    BY <2>2 DEF Answer, Goto, Exact, StoreTypeOK
  <2>3. CASE Goto(r, "save") /\ UNCHANGED req /\ ~Taken(req[r].name)
    <3>1. pc'[r] = "save"
      BY <2>3 DEF Goto, StoreTypeOK
    <3>2. ~Taken(req[r].name)'
      BY <2>1, <2>3 DEF Taken, Stored
    <3> QED BY <3>1, <3>2 DEF Exact
  <2> QED BY <2>1, <2>2, <2>3
<1>2. CASE Insert(r) \/ Save(r) \/ Discard(r) \/ SaveOrder(r)
  <2>1. Goto(r, "idle")
    BY <1>2 DEF Insert, Save, Discard, SaveOrder, Answer
  <2> QED BY <2>1 DEF Goto, Exact, StoreTypeOK
<1> QED
  BY <1>1, <1>2, MakeStep, NameStep, LoadStep, TestStep DEF Handles

\* A reorder that names every user rule and that nobody met puts them in a row behind
\* the default rules.
LEMMA CommittedDistinct ==
    ASSUME StoreTypeOK, NEW r \in Requests, pc[r] = "reorder", Committed(r),
           Distinct(rows), req[r].old = rows, req[r].lone, ~mixed'
    PROVE  Distinct(rows)'
<1> DEFINE s == req[r].order
           b == Behind(rows)
<1>1. rows \in Table /\ s \in Seq(Nat)
  BY DEF StoreTypeOK, Locals
<1>2. /\ b \in Nat
      /\ \A i \in DOMAIN rows : rows[i] # None /\ rows[i].default => rows[i].prio < b
      /\ \A i \in DOMAIN rows : rows[i] # None => rows[i].prio \in Nat
  BY <1>1, BehindIs, TableIs DEF Row
<1>3. /\ DOMAIN rows' = DOMAIN rows
      /\ \A i \in DOMAIN rows :
            /\ rows'[i] # None <=> rows[i] # None
            /\ rows[i] # None => rows'[i].name = rows[i].name
            /\ i \notin Range(s) => rows'[i] = rows[i]
      /\ \A n \in DOMAIN s : \A i \in {s[n]} : rows[i] # None => rows'[i].prio = b + n - 1
      /\ UserRules \subseteq Range(s)
  BY DEF Committed
<1>4. \A n \in DOMAIN s : n \in Nat /\ n >= 1
  BY <1>1
<1> HIDE DEF s, b
<1>5. ASSUME NEW i \in DOMAIN rows, rows[i] # None
      PROVE  \/ \E n \in DOMAIN s : s[n] = i /\ rows'[i].prio = b + n - 1
             \/ rows'[i] = rows[i] /\ rows[i].prio < b
  <2>1. CASE i \in Range(s)
    <3>1. PICK n \in DOMAIN s : s[n] = i
      BY <2>1 DEF Range
    <3> QED BY <1>3, <1>5, <3>1
  <2>2. CASE i \notin Range(s)
    <3>1. rows[i].default
      BY <1>3, <1>5, <2>2 DEF UserRules, Stored
    <3> QED BY <1>2, <1>3, <1>5, <2>2, <3>1
  <2> QED BY <2>1, <2>2
<1> SUFFICES ASSUME NEW i \in DOMAIN rows', NEW k \in DOMAIN rows',
                    rows'[i] # None, rows'[k] # None, i # k
             PROVE  rows'[i].name # rows'[k].name /\ rows'[i].prio # rows'[k].prio
  BY DEF Distinct
<1>6. i \in DOMAIN rows /\ k \in DOMAIN rows /\ rows[i] # None /\ rows[k] # None
  BY <1>3
<1>7. rows[i].name # rows[k].name /\ rows[i].prio # rows[k].prio
  BY <1>6 DEF Distinct
<1>8. rows'[i].name # rows'[k].name
  BY <1>3, <1>6, <1>7
<1>9. rows[i].prio \in Nat /\ rows[k].prio \in Nat
  BY <1>2, <1>6
<1>10. CASE rows'[i] = rows[i] /\ rows[i].prio < b
  <2>1. CASE rows'[k] = rows[k]
    BY <1>7, <1>8, <1>10, <2>1
  <2>2. CASE \E n \in DOMAIN s : s[n] = k /\ rows'[k].prio = b + n - 1
    BY <1>2, <1>4, <1>8, <1>9, <1>10, <2>2
  <2> QED BY <1>5, <1>6, <2>1, <2>2
<1>11. CASE \E n \in DOMAIN s : s[n] = i /\ rows'[i].prio = b + n - 1
  <2>1. PICK n \in DOMAIN s : s[n] = i /\ rows'[i].prio = b + n - 1
    BY <1>11
  <2>2. CASE rows'[k] = rows[k] /\ rows[k].prio < b
    BY <1>2, <1>4, <1>8, <1>9, <2>1, <2>2
  <2>3. CASE \E m \in DOMAIN s : s[m] = k /\ rows'[k].prio = b + m - 1
    <3>1. PICK m \in DOMAIN s : s[m] = k /\ rows'[k].prio = b + m - 1
      BY <2>3
    <3>2. m # n
      BY <2>1, <3>1
    <3> QED BY <1>2, <1>4, <1>8, <2>1, <3>1, <3>2
  <2> QED BY <1>5, <1>6, <2>2, <2>3
<1> QED
  BY <1>5, <1>6, <1>10, <1>11

LEMMA DistinctStays ==
    ASSUME StoreTypeOK, NEW r \in Requests, Handles(r), Distinct(rows), Exact(r), ~mixed'
    PROVE  Distinct(rows)'
<1>1. CASE Insert(r)
  <2> DEFINE n == Len(rows) + 1
  <2>1. /\ DOMAIN rows' = DOMAIN rows \cup {n} /\ n \notin DOMAIN rows
        /\ \A i \in DOMAIN rows : rows'[i] = rows[i]
        /\ rows'[n].name = req[r].name /\ rows'[n].prio = req[r].prio
    BY <1>1, InsertGrows
  <2>2. ~Taken(req[r].name) /\ \A i \in Stored : rows[i].prio < req[r].prio
    BY <1>1 DEF Insert, Exact
  <2>3. req[r].prio \in Nat
    BY DEF StoreTypeOK, Locals
  <2> HIDE DEF n
  <2>4. ASSUME NEW i \in DOMAIN rows, rows[i] # None
        PROVE  rows'[i].name # rows'[n].name /\ rows'[i].prio # rows'[n].prio
    <3>1. i \in Stored /\ rows'[i] = rows[i]
      BY <2>1, <2>4 DEF Stored
    <3>2. rows[i].prio \in Nat
      BY <3>1, StoredIs DEF Row
    <3> QED BY <2>1, <2>2, <2>3, <3>1, <3>2 DEF Taken
  <2>5. \A i, k \in DOMAIN rows : rows[i] # None /\ rows[k] # None /\ i # k =>
           rows[i].name # rows[k].name /\ rows[i].prio # rows[k].prio
    BY DEF Distinct
  <2> SUFFICES ASSUME NEW i \in DOMAIN rows', NEW k \in DOMAIN rows',
                      rows'[i] # None, rows'[k] # None, i # k
               PROVE  rows'[i].name # rows'[k].name /\ rows'[i].prio # rows'[k].prio
    BY DEF Distinct
  <2>6. CASE i \in DOMAIN rows /\ k \in DOMAIN rows
    BY <2>1, <2>5, <2>6
  <2>7. CASE i \in DOMAIN rows /\ k = n
    BY <2>1, <2>4, <2>7
  <2>8. CASE i = n /\ k \in DOMAIN rows
    BY <2>1, <2>4, <2>8
  <2> QED BY <2>1, <2>6, <2>7, <2>8
<1>2. CASE Save(r)
  <2>1. /\ SamePrios /\ DOMAIN rows' = DOMAIN rows
        /\ \A i \in DOMAIN rows : rows'[i] # None =>
              /\ rows[i] # None
              /\ \/ rows'[i].name = rows[i].name
                 \/ i = req[r].id /\ req[r].name # None /\ rows'[i].name = req[r].name
    BY <1>2, SaveGrows
  <2>2. req[r].name # None => ~Taken(req[r].name)
    BY <1>2 DEF Save, Exact
  <2>3. ASSUME NEW i \in DOMAIN rows, NEW k \in DOMAIN rows,
               rows'[i] # None, rows'[k] # None, i # k
        PROVE  rows'[i].name # rows'[k].name /\ rows'[i].prio # rows'[k].prio
    <3>1. rows[i] # None /\ rows[k] # None /\ i \in Stored /\ k \in Stored
      BY <2>1, <2>3 DEF Stored
    <3>2. rows[i].name # rows[k].name /\ rows[i].prio # rows[k].prio
      BY <2>3, <3>1 DEF Distinct
    <3>3. rows'[i].prio = rows[i].prio /\ rows'[k].prio = rows[k].prio
      BY <2>1, <2>3 DEF SamePrios
    <3>4. req[r].name # None => rows[i].name # req[r].name /\ rows[k].name # req[r].name
      BY <2>2, <3>1 DEF Taken
    <3> QED BY <2>1, <2>3, <3>2, <3>3, <3>4
  <2> QED BY <2>1, <2>3 DEF Distinct
<1>3. CASE Discard(r)
  <2>1. /\ SamePrios /\ DOMAIN rows' = DOMAIN rows /\ Grows
        /\ \A i \in DOMAIN rows : rows'[i] # None => rows'[i] = rows[i]
    BY <1>3, DiscardGrows
  <2> QED BY <2>1 DEF Distinct, Grows
<1>4. CASE SaveOrder(r)
  <2>1. pc[r] = "reorder" /\ (UNCHANGED rows \/ Committed(r))
    BY <1>4, SaveOrderGrows
  <2>2. req[r].old = rows /\ req[r].lone
    BY <2>1 DEF Exact
  <2>3. CASE UNCHANGED rows
    BY <2>3 DEF Distinct
  <2> QED BY <2>1, <2>2, <2>3, CommittedDistinct
<1>5. CASE UNCHANGED rows
  BY <1>5 DEF Distinct
<1>6. CheckRename(r) => UNCHANGED rows
  BY DEF CheckRename
<1> QED
  BY <1>1, <1>2, <1>3, <1>4, <1>5, <1>6, MakeStep, NameStep, LoadStep, TestStep DEF Handles

LEMMA ClearStep ==
    StoreInv /\ Clear /\ [Next]_vars => Clear'
<1> SUFFICES ASSUME StoreInv, Clear, [Next]_vars, ~mixed'
             PROVE  /\ \A r, q \in Requests : pc'[r] # "idle" /\ pc'[q] # "idle" => r = q
                    /\ Distinct(rows)'
                    /\ \A r \in Requests : Exact(r)'
  BY DEF Clear
<1>0. StoreTypeOK
  BY DEF StoreInv
<1>1. CASE Starts
  <2>1. /\ ~up /\ UNCHANGED pc
        /\ UNCHANGED rows \/ Distinct(rows)'
    BY <1>1, StartsStep
  <2>2. ~mixed
    BY <1>1 DEF Starts
  <2>3. \A r \in Requests : pc'[r] = "idle"
    BY <1>0, <2>1 DEF StoreTypeOK
  <2>4. Distinct(rows)'
    BY <2>1, <2>2 DEF Clear, Distinct
  <2> QED BY <2>3, <2>4 DEF Exact
<1>2. CASE Stops
  <2>1. UNCHANGED rows /\ \A r \in Requests : pc'[r] = "idle"
    BY <1>2, StopsStep
  <2>2. ~mixed
    BY <1>2 DEF Stops
  <2>3. Distinct(rows)'
    BY <2>1, <2>2 DEF Clear, Distinct
  <2> QED BY <2>1, <2>3 DEF Exact
<1>3. CASE \E r \in Requests : Handles(r)
  <2>1. PICK r \in Requests : Handles(r)
    BY <1>3
  <2>2. (\A q \in Requests \ {r} : pc[q] = "idle") /\ Distinct(rows) /\ Exact(r)
    BY <1>0, <2>1, Lone
  <2>3. \A q \in Requests \ {r} : pc'[q] = "idle"
    BY <1>0, <2>1, <2>2, HandlesStep DEF Turn
  <2>4. Distinct(rows)' /\ Exact(r)'
    BY <1>0, <2>1, <2>2, DistinctStays, ExactStays
  <2>5. \A q \in Requests \ {r} : Exact(q)'
    BY <2>3 DEF Exact
  <2> QED BY <2>3, <2>4, <2>5
<1>4. CASE UNCHANGED vars
  BY <1>4 DEF vars, Clear, Exact, Distinct, Taken, Stored, RunOrders, Active
<1> QED
  BY <1>1, <1>2, <1>3, <1>4 DEF Next

\* As long as nothing was mixed, which rule decides is never left to the database, for
\* any releases, any number of rules and any requests.
THEOREM OrderStaysClear == Spec => []OrderIsClear
<1>1. Init => Clear
  BY DEF Init, Clear, Distinct, Exact
<1>2. StoreInv /\ Clear => OrderIsClear
  BY DEF StoreInv, Clear, Exact, Distinct, OrderIsClear, Stored
<1> QED
  BY <1>1, <1>2, ClearStep, StoreInvariant, PTL DEF Spec
=============================================================================
